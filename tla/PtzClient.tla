------------------------------- MODULE PtzClient -------------------------------
(***************************************************************************)
(* network/PtzClient.cpp with the buttons of ui/MonitoringDashboard.cpp:   *)
(* pressing a direction moves the camera, letting go of it stops it.       *)
(* Requests go to the camera itself, each on a connection of its own, or   *)
(* through the server, one at a time, the newest waiting behind it (the    *)
(* queue of ClientSession).  There is one movable camera: the first "dome" *)
(* of the configuration.                                                   *)
(*                                                                         *)
(* A request is <<number, "start" or "stop">>; directions and speed are    *)
(* left out.  A button that moves the camera has the focus, so disabling   *)
(* it takes the focus away, and that stops the move.                       *)
(***************************************************************************)
EXTENDS Naturals, Sequences

CONSTANT MaxRequests  (* bound: requests of the client *)

VARIABLES
  transport,   (* CameraConfig::ptzTransport: "direct" or "server" *)
  probing,     (* m_probeReply is set *)
  ready,       (* m_ready *)
  moveActive,  (* m_moveActive *)
  enabled,     (* the direction buttons are enabled *)
  pressed,     (* the user holds a direction button *)
  link,        (* requests: see LinkInit *)
  moving       (* the camera moves *)

ptzVars == <<transport, probing, ready, moveActive, enabled, pressed, link, moving>>

(* control: the request that m_controlReply stands for; pending and waiting: *)
(* the PTZ request in progress in UserService and the one in its queue;      *)
(* wire: on the way to the camera; sent: how many; done: the request the     *)
(* camera carried out last; gone: the newest stop that arrived, was lost on  *)
(* the way or found no login; forgotten: the newest that setCamera() aborted.*)
LinkInit == [control |-> 0, pending |-> 0, waiting |-> <<>>, wire |-> {}, sent |-> 0, done |-> 0,
             gone |-> 0, forgotten |-> 0]

PtzInit ==
  /\ transport \in {"direct", "server"}
  /\ probing = FALSE /\ ready = FALSE /\ moveActive = FALSE /\ enabled = FALSE /\ pressed = FALSE
  /\ link = LinkInit /\ moving = FALSE

IsStop(r) == r[2] = "stop"
NewestStop(n, requests) ==
  LET stops == {r[1] : r \in {q \in requests : IsStop(q)}} \cup {n} IN
  CHOOSE newest \in stops : \A k \in stops : k <= newest

-------------------------------------------------------------------------------
(* What posting and aborting do to the requests: sets of possible results.   *)

(* abort() catches the request on its way or comes too late. *)
Aborts(l) ==
  LET caught == {r \in l.wire : r[1] = l.control} IN
  {[l EXCEPT !.control = 0], [l EXCEPT !.control = 0, !.wire = @ \ caught]}

SendControl(l, move) ==
  {[k EXCEPT !.control = l.sent + 1, !.sent = @ + 1, !.wire = @ \cup {<<l.sent + 1, move>>}] :
     k \in Aborts(l)}

Replaced(waiting, r) == <<r>>

(* sendPtzControl: refused without a login, sent, or put into the queue. *)
Forward(l, move) ==
  LET r == <<l.sent + 1, move>> numbered == [l EXCEPT !.sent = @ + 1] IN
  {[numbered EXCEPT !.gone = NewestStop(@, {r})],
   IF l.pending = 0 /\ l.waiting = <<>>
   THEN [numbered EXCEPT !.pending = r[1], !.wire = @ \cup {r}]
   ELSE [numbered EXCEPT !.waiting = Replaced(@, r)]}

Post(l, move) == IF transport = "server" THEN Forward(l, move) ELSE SendControl(l, move)

(* stopMove() is asked for the link before m_moveActive is cleared. *)
StopMove(l) == IF moveActive /\ ready THEN Post(l, "stop") ELSE {l}

-------------------------------------------------------------------------------
(* The user.                                                                 *)

Press ==
  /\ enabled /\ ready
  /\ link.sent < MaxRequests
  /\ pressed' = TRUE /\ moveActive' = TRUE
  /\ \E l \in StopMove(link) : link' \in Post(l, "start")
  /\ UNCHANGED <<transport, probing, ready, enabled, moving>>

(* The mouse button goes up, or the pointer or the focus leaves the button. *)
Release ==
  /\ pressed /\ pressed' = FALSE
  /\ link' \in StopMove(link) /\ moveActive' = FALSE
  /\ UNCHANGED <<transport, probing, ready, enabled, moving>>

StopButton ==
  /\ enabled
  /\ link' \in StopMove(link) /\ moveActive' = FALSE
  /\ UNCHANGED <<transport, probing, ready, enabled, pressed, moving>>

(* Mutant of StoppedByDisabling: the buttons are not disabled first. *)
NotStopped(l) == {l}

(* setPtzButtonsEnabled(false) takes the focus from the pressed button. *)
StoppedByDisabling(l) == IF enabled THEN StopMove(l) ELSE {l}

(* setCamera() aborts whatever request m_controlReply stands for, the stop   *)
(* that disabling the buttons has just posted included.                      *)
SetCamera(l) == {[k EXCEPT !.forgotten = NewestStop(@, l.wire \ k.wire)] : k \in Aborts(l)}

(* applySelectedCamera: the buttons, then setCamera(), then probe() if the   *)
(* camera can move.                                                          *)
SelectCamera(dome) ==
  /\ \E l \in StoppedByDisabling(link) : link' \in SetCamera(l)
  /\ moveActive' = FALSE /\ ready' = FALSE /\ enabled' = FALSE
  /\ probing' = dome
  /\ UNCHANGED <<transport, pressed, moving>>

-------------------------------------------------------------------------------
(* Answers.                                                                  *)

ProbeFinished(supported) ==
  /\ probing /\ probing' = FALSE
  /\ ready' = supported /\ enabled' = supported
  /\ UNCHANGED <<transport, moveActive, pressed, link, moving>>

(* The camera carries a request out, or it is lost on the way. *)
CameraAfter(r, arrives) == IF arrives THEN ~IsStop(r) ELSE moving
LinkAfter(r, arrives) ==
  [link EXCEPT !.wire = @ \ {r}, !.done = IF arrives THEN r[1] ELSE @, !.gone = NewestStop(@, {r})]

(* handleControlFinished: a failure disables the buttons, which stops. *)
DirectAnswer(r, arrives, ok) ==
  /\ transport = "direct" /\ r \in link.wire
  /\ ok => arrives
  /\ LET k == LinkAfter(r, arrives) IN
     /\ moving' = CameraAfter(r, arrives)
     /\ IF r[1] # link.control THEN link' = k /\ UNCHANGED <<moveActive, enabled>>
        ELSE IF ok THEN link' = [k EXCEPT !.control = 0] /\ UNCHANGED <<moveActive, enabled>>
        ELSE /\ link' \in StoppedByDisabling([k EXCEPT !.control = 0])
             /\ moveActive' = FALSE /\ enabled' = FALSE
  /\ UNCHANGED <<transport, probing, ready, pressed>>

(* The server has called the camera; the answer ends the request in progress.*)
ServerAnswer(r, arrives) ==
  /\ transport = "server" /\ r \in link.wire
  /\ LET k == LinkAfter(r, arrives) IN
     link' = IF r[1] = link.pending THEN [k EXCEPT !.pending = 0] ELSE k
  /\ moving' = CameraAfter(r, arrives)
  /\ UNCHANGED <<transport, probing, ready, moveActive, enabled, pressed>>

ServerTimeout ==
  /\ link.pending # 0
  /\ link' = [link EXCEPT !.pending = 0]
  /\ UNCHANGED <<transport, probing, ready, moveActive, enabled, pressed, moving>>

DispatchNext ==
  /\ link.pending = 0 /\ link.waiting # <<>>
  /\ link' = [link EXCEPT !.pending = link.waiting[1][1], !.waiting = <<>>,
                          !.wire = @ \cup {link.waiting[1]}]
  /\ UNCHANGED <<transport, probing, ready, moveActive, enabled, pressed, moving>>

(* The connection to the server breaks: nothing waits any longer. *)
ServerLost ==
  /\ link.waiting # <<>>
  /\ link' = [link EXCEPT !.pending = 0, !.waiting = <<>>,
                          !.gone = NewestStop(@, {link.waiting[1]})]
  /\ UNCHANGED <<transport, probing, ready, moveActive, enabled, pressed, moving>>

PtzNext ==
  \/ Press \/ Release \/ StopButton
  \/ \E dome \in BOOLEAN : SelectCamera(dome)
  \/ \E supported \in BOOLEAN : ProbeFinished(supported)
  \/ \E r \in link.wire, arrives, ok \in BOOLEAN : DirectAnswer(r, arrives, ok)
  \/ \E r \in link.wire, arrives \in BOOLEAN : ServerAnswer(r, arrives)
  \/ ServerTimeout \/ DispatchNext \/ ServerLost

PtzSpec == PtzInit /\ [][PtzNext]_ptzVars

-------------------------------------------------------------------------------
(* A camera that moves is moved by somebody: the user holds the button, or a *)
(* stop was issued after the start it obeys.  That stop is on its way, or it *)
(* was lost: by the network, by the start it overtook, or for want of a      *)
(* login.  A camera that is controlled directly has one more way to lose it, *)
(* which StopSurvivesChoosing is about: choosing another camera aborts the   *)
(* stop.  No failed start, no replaced request and no second press does.     *)
StopFollowsMove ==
  moving => \/ moveActive /\ pressed /\ ready
            \/ \E r \in link.wire \cup {link.waiting[i] : i \in DOMAIN link.waiting} :
                 IsStop(r) /\ r[1] > link.done
            \/ link.gone > link.done
            \/ transport = "direct" /\ link.forgotten > link.done

(* The design says that letting go of a button sends a stop, to prevent that *)
(* the camera keeps moving (qt-direct-rtsp-dashboard-design.md).  If so, the *)
(* program itself does not take back the only stop of a camera that moves.   *)
StopSurvivesChoosing ==
  moving => \/ moveActive /\ pressed /\ ready
            \/ \E r \in link.wire \cup {link.waiting[i] : i \in DOMAIN link.waiting} :
                 IsStop(r) /\ r[1] > link.done
            \/ link.gone > link.done
===============================================================================

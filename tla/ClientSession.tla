----------------------------- MODULE ClientSession -----------------------------
(***************************************************************************)
(* UserService of the Qt client on its TcpClient: it sends one request at  *)
(* a time, queues the others, and takes an answer for the request that has *)
(* its id.  All of it runs in one event loop: an action is one handler     *)
(* with all the slots it calls.  The server is a set of requests to        *)
(* answer in any order, or never.                                          *)
(*                                                                         *)
(* m_requestQueue is a list; the model has the set of its requests, and    *)
(* their order follows from their ids: see Place.                          *)
(***************************************************************************)
EXTENDS TcpClient

CONSTANTS
  MaxRequests,  (* bound: calls of the interface (ids never wrap around) *)
  MaxUpsets,    (* bound: calls of connectServer and disconnectServer, errors *)
  NoRequest     (* PendingRequest::None *)

(* "resource" is any of the requests that differ only in their codec and    *)
(* their success signal: device list, record query, stream and recording    *)
(* control.                                                                 *)
Guests == {"register", "login"}
Ptz == {"ptzMove", "ptzStop"}
Kinds == Guests \cup Ptz \cup {"resource"}

Ids == 1 .. MaxRequests

(* under: the connection of the login that the request was made under. *)
Requests == [id : Ids, kind : Kinds, under : Nat]

ASSUME ClientSessionAssumption ==
  MaxRequests \in Nat /\ MaxUpsets \in Nat /\ NoRequest \notin Requests

VARIABLES
  user,        (* UserService, and the history of its reports *)
  connection,  (* number of the current connection *)
  atServer,    (* requests written to it and not answered *)
  answers,     (* answers on their way *)
  serverLogin, (* the server has accepted a login on it *)
  carriedOut,  (* history: the requests the server answered with SUCCESS *)
  lastPtz,     (* history: the last PTZ request written *)
  upsets

serverVars == <<atServer, answers, serverLogin, carriedOut>>
vars == <<tcpVars, user, connection, serverVars, lastPtz, upsets>>

Users == [pending : Requests \cup {NoRequest}, queue : SUBSET Requests,
          timer : BOOLEAN,          (* m_requestTimer runs *)
          scheduled : BOOLEAN,      (* m_dispatchScheduled *)
          dispatches : Nat,         (* zero timers posted for dispatchNextRequest *)
          login : Nat,              (* m_userId, m_token: connection that granted them, or 0 *)
          nextId : Nat,
          reports : [Ids -> Nat],   (* history: success and failure signals *)
          succeeded : SUBSET Ids,   (* history: of them, the successes *)
          dropped : SUBSET Ids]     (* history: removed from the queue unsent *)

TypeOK ==
  /\ TcpTypeOK
  /\ user \in Users
  /\ connection \in Nat
  /\ atServer \in SUBSET Requests
  /\ answers \in SUBSET [id : Ids, ok : BOOLEAN]
  /\ serverLogin \in BOOLEAN
  /\ carriedOut \in SUBSET Ids
  /\ lastPtz \in Nat
  /\ upsets \in 0 .. MaxUpsets

Init ==
  /\ TcpInit
  /\ user = [pending |-> NoRequest, queue |-> {}, timer |-> FALSE, scheduled |-> FALSE,
             dispatches |-> 0, login |-> 0, nextId |-> 1,
             reports |-> [id \in Ids |-> 0], succeeded |-> {}, dropped |-> {}]
  /\ connection = 0
  /\ atServer = {} /\ answers = {} /\ serverLogin = FALSE /\ carriedOut = {}
  /\ lastPtz = 0
  /\ upsets = 0

-------------------------------------------------------------------------------
(* UserService: what its methods do to it.                                  *)

IdsOf(requests) == {r.id : r \in requests}

(* A request is appended with an id above all others, a stop is prepended. *)
Place(r) == IF r.kind = "ptzStop" THEN -r.id ELSE r.id
IsFirst(r, queue) == \A q \in queue : Place(r) <= Place(q)

ScheduleNext(u) ==
  IF u.scheduled \/ u.pending # NoRequest \/ u.queue = {}
  THEN u
  ELSE [u EXCEPT !.scheduled = TRUE, !.dispatches = @ + 1]

Reported(u) ==
  IF u.pending = NoRequest THEN u.reports ELSE [u.reports EXCEPT ![u.pending.id] = @ + 1]

FailPending(u) ==
  ScheduleNext([u EXCEPT !.timer = FALSE, !.pending = NoRequest, !.reports = Reported(u)])

CompletePending(u) ==
  ScheduleNext([u EXCEPT !.timer = FALSE, !.pending = NoRequest, !.reports = Reported(u),
                         !.succeeded = @ \cup {u.pending.id}])

OnTcpError(u) == IF u.pending = NoRequest THEN u ELSE FailPending(u)

(* Both callers know that nothing is pending.  sendData() fails at once     *)
(* without a connection, and its error clears the request it is about.      *)
BeginUntimed(u, r) == \* mutant: the timer is not started
  IF IsConnected THEN [u EXCEPT !.pending = r] ELSE OnTcpError([u EXCEPT !.pending = r])
BeginRequest(u, r) ==
  IF IsConnected
  THEN [u EXCEPT !.pending = r, !.timer = TRUE]
  ELSE OnTcpError([u EXCEPT !.pending = r])

(* A PTZ request replaces those that wait. *)
ReplacedNone(u, r) == {} \* mutant: waiting PTZ requests stay
Replaced(u, r) == {q \in u.queue : {q.kind, r.kind} \subseteq Ptz}

Queue(u, r) ==
  [u EXCEPT !.queue = (@ \ Replaced(u, r)) \cup {r},
            !.dropped = @ \cup IdsOf(Replaced(u, r))]

SendsAtOnce(u) == IsConnected /\ u.pending = NoRequest /\ u.queue = {}

EnqueueRequest(u, r) == IF SendsAtOnce(u) THEN BeginRequest(u, r) ELSE Queue(u, r)

(* Only what was queued before any login survives. *)
OnDisconnectedKeepingQueue(u) == \* mutant: the queue survives a disconnection
  [OnTcpError([u EXCEPT !.scheduled = FALSE]) EXCEPT !.login = 0]
OnDisconnected(u) ==
  LET kept == IF u.login = 0 THEN u.queue ELSE {}
      left == [u EXCEPT !.queue = kept, !.dropped = @ \cup IdsOf(u.queue \ kept),
                        !.scheduled = FALSE]
  IN  [OnTcpError(left) EXCEPT !.login = 0]

(* An answer for another request is consumed and ignored. *)
OnAnyAnswer(u, a) == \* mutant: any answer completes the pending request
  IF u.pending = NoRequest THEN u
  ELSE IF ~a.ok THEN FailPending(u)
  ELSE CompletePending([u EXCEPT !.login = IF u.pending.kind = "login" THEN connection ELSE @])
OnAnswer(u, a) ==
  IF u.pending = NoRequest \/ a.id # u.pending.id THEN u
  ELSE IF ~a.ok THEN FailPending(u)
  ELSE CompletePending([u EXCEPT !.login = IF u.pending.kind = "login" THEN connection ELSE @])

-------------------------------------------------------------------------------
(* Auxiliary actions.                                                       *)

Writes(r) ==
  IF IsConnected
  THEN /\ atServer' = atServer \cup {r}
       /\ lastPtz' = IF r.kind \in Ptz THEN r.id ELSE lastPtz
       /\ UNCHANGED <<answers, serverLogin, carriedOut>>
  ELSE UNCHANGED <<serverVars, lastPtz>>

Upset == upsets < MaxUpsets /\ upsets' = upsets + 1

(* What was on its way in either direction is gone, and the server's state  *)
(* of the connection with it.                                               *)
Forgotten ==
  /\ atServer' = {} /\ answers' = {} /\ serverLogin' = FALSE
  /\ UNCHANGED carriedOut

-------------------------------------------------------------------------------
(* The calls of the windows.  Without a login, a request that needs one is  *)
(* refused and changes nothing.  A request with a field that is too long    *)
(* has taken an id when it is refused.                                      *)

NewRequest(kind) ==
  [id |-> user.nextId, kind |-> kind, under |-> IF kind \in Guests THEN 0 ELSE user.login]

Allowed(kind) == user.nextId \in Ids /\ (kind \in Guests \/ user.login # 0)

Numbered == [user EXCEPT !.nextId = @ + 1]

Request(kind) ==
  /\ Allowed(kind)
  /\ user' = EnqueueRequest(Numbered, NewRequest(kind))
  /\ IF SendsAtOnce(user) THEN Writes(NewRequest(kind)) ELSE UNCHANGED <<serverVars, lastPtz>>
  /\ UNCHANGED <<tcpVars, connection, upsets>>

RequestTooLong(kind) ==
  /\ Allowed(kind)
  /\ user' = [Numbered EXCEPT !.reports[user.nextId] = @ + 1]
  /\ UNCHANGED <<tcpVars, connection, serverVars, lastPtz, upsets>>

Connect ==
  /\ Upset
  /\ ConnectServer
  /\ IF HasPeer THEN user' = OnDisconnected(user) /\ Forgotten
                ELSE UNCHANGED <<user, serverVars>>
  /\ UNCHANGED <<connection, lastPtz>>

Disconnect ==
  /\ Upset
  /\ DisconnectServer
  /\ user' = IF socket = "unconnected" THEN OnTcpError(user) ELSE user
  /\ UNCHANGED <<connection, serverVars, lastPtz>>

-------------------------------------------------------------------------------
(* The events.                                                              *)

Connected ==
  /\ OnConnected
  /\ user' = ScheduleNext(user)
  /\ connection' = connection + 1
  /\ UNCHANGED <<serverVars, lastPtz, upsets>>

ConnectFails ==
  /\ Upset
  /\ OnConnectError
  /\ user' = OnTcpError(user)
  /\ UNCHANGED <<connection, serverVars, lastPtz>>

ConnectionLost ==
  /\ Upset
  /\ OnConnectionLost
  /\ user' = OnDisconnected(OnTcpError(user))
  /\ Forgotten
  /\ UNCHANGED <<connection, lastPtz>>

Closed ==
  /\ OnClosed
  /\ user' = OnDisconnected(user)
  /\ Forgotten
  /\ UNCHANGED <<connection, lastPtz, upsets>>

Reconnect ==
  /\ AttemptReconnect
  /\ UNCHANGED <<user, connection, serverVars, lastPtz, upsets>>

RequestTimeout ==
  /\ user.timer
  /\ user' = IF user.pending = NoRequest THEN [user EXCEPT !.timer = FALSE] ELSE FailPending(user)
  /\ UNCHANGED <<tcpVars, connection, serverVars, lastPtz, upsets>>

DispatchNextRequest ==
  /\ user.dispatches > 0
  /\ LET fired == [user EXCEPT !.scheduled = FALSE, !.dispatches = @ - 1]
     IN  IF user.pending # NoRequest \/ user.queue = {}
         THEN user' = fired /\ UNCHANGED <<serverVars, lastPtz>>
         ELSE \E r \in user.queue :
                /\ IsFirst(r, user.queue)
                /\ user' = ScheduleNext(BeginRequest([fired EXCEPT !.queue = @ \ {r}], r))
                /\ Writes(r)
  /\ UNCHANGED <<tcpVars, connection, upsets>>

AnswerReceived ==
  /\ HasPeer
  /\ \E a \in answers :
       /\ user' = OnAnswer(user, a)
       /\ answers' = answers \ {a}
  /\ UNCHANGED <<tcpVars, connection, atServer, serverLogin, carriedOut, lastPtz, upsets>>

(* Bytes that are no packet: the buffer is cleared, and answers with it. *)
GarbageReceived ==
  /\ Upset
  /\ HasPeer
  /\ user' = FailPending(user)
  /\ \E lost \in SUBSET answers : answers' = answers \ lost
  /\ UNCHANGED <<tcpVars, connection, atServer, serverLogin, carriedOut, lastPtz>>

(* The server: its worker threads answer in any order.  The gate refuses    *)
(* all but registrations and logins before a login.                         *)
Serve ==
  /\ HasPeer
  /\ \E r \in atServer, ok \in BOOLEAN :
       /\ ok => r.kind \in Guests \/ serverLogin
       /\ atServer' = atServer \ {r}
       /\ answers' = answers \cup {[id |-> r.id, ok |-> ok]}
       /\ serverLogin' = (serverLogin \/ (ok /\ r.kind = "login"))
       /\ carriedOut' = IF ok THEN carriedOut \cup {r.id} ELSE carriedOut
  /\ UNCHANGED <<tcpVars, user, connection, lastPtz, upsets>>

Next ==
  \/ \E kind \in Kinds : Request(kind) \/ RequestTooLong(kind)
  \/ Connect \/ Disconnect
  \/ Connected \/ ConnectFails \/ ConnectionLost \/ Closed \/ Reconnect
  \/ RequestTimeout \/ DispatchNextRequest
  \/ AnswerReceived \/ GarbageReceived
  \/ Serve

Spec == Init /\ [][Next]_vars

(* The event loop runs timers and posted events; a connection attempt ends  *)
(* (in failure at most MaxUpsets times), and so does a disconnection.       *)
(* Neither the user nor the server need do anything.                        *)
FairSpec ==
  /\ Spec
  /\ WF_vars(RequestTimeout) /\ WF_vars(DispatchNextRequest) /\ WF_vars(Reconnect)
  /\ WF_vars(Connected \/ ConnectFails) /\ WF_vars(Closed)

-------------------------------------------------------------------------------
(* Correctness.                                                             *)

(* A request is reported at most once, as a success only if the server has  *)
(* carried it out, and not at all once it has been dropped: no timeout,     *)
(* error or late answer is taken for that of another request.               *)
AnsweredOnce ==
  /\ \A id \in Ids : user.reports[id] + (IF id \in user.dropped THEN 1 ELSE 0) <= 1
  /\ user.succeeded \subseteq carriedOut

(* A login lasts as long as its connection: no request that was made under  *)
(* one is sent over another connection, whatever was queued when it broke.  *)
LoginEndsWithConnection ==
  /\ user.login # 0 => user.login = connection /\ HasPeer /\ serverLogin
  /\ \A r \in atServer : r.kind \in Guests \/ r.under = connection

(* The camera is left in the state of the last key event sent: PTZ requests *)
(* are written in the order they were made, and a waiting one is the        *)
(* newest, though a stop overtakes all other requests.                      *)
LatestPtzWins ==
  \A r \in user.queue : r.kind \in Ptz =>
    /\ lastPtz < r.id
    /\ \A q \in user.queue : q.kind \in Ptz => q = r

(* No request waits for ever, in the queue or for its answer: once the user *)
(* makes no more (their number is bounded), each has been reported or       *)
(* dropped, unless the user has disconnected for good.                      *)
Settled(id) == user.reports[id] > 0 \/ id \in user.dropped
RequestsSettle == <>[](manualDisconnect \/ \A id \in Ids : id < user.nextId => Settled(id))
===============================================================================

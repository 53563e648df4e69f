----------------------------- MODULE MediaControl -----------------------------
(***************************************************************************)
(* Streaming and recording control: server/src/reactor.cc.                 *)
(*                                                                         *)
(* Pool workers run handleMessage for STREAM_START, STREAM_STOP,           *)
(* RECORD_START and RECORD_STOP while the reactor thread accepts and       *)
(* closes connections.  They meet in maps keyed by the descriptor, which   *)
(* they read from the connection again and again: _streams, _streamUrls,   *)
(* _recorders, and the device and start time of a recording.  The maps are *)
(* protected by _streamsMutex; opening a source, launching ffmpeg,         *)
(* stopping either, and closing the connection are not.                    *)
(*                                                                         *)
(* One step is one map operation inside the mutex or one operation outside *)
(* it.  Requests have passed the login check of handleMessage.  The thread *)
(* pool is used as the TaskQueue it implements.  A request gives its       *)
(* number to the session or recorder it creates.                           *)
(***************************************************************************)
EXTENDS Naturals, Sequences, FiniteSets

CONSTANTS
  Conns,        (* connections; each is accepted at most once *)
  Fds,          (* descriptors, reused after a close *)
  NoFd,         (* fd() of a closed connection: -1 *)
  MaxRequests,  (* bound: requests received, numbered in their order *)
  Kinds,        (* bound: kinds of request that clients send *)
  Parallel,     (* threads of the pool *)
  Capacity,     (* capacity of the pool's queue *)
  Reactor,      (* the reactor thread *)
  None

AllKinds == {"mockStart", "cameraStart", "streamStop", "recordStart", "recordStop", "invalid"}
Requests == 1..MaxRequests
Threads == Requests \cup {Reactor}
Keys == Fds \cup {NoFd}

ASSUME MediaControlAssumption ==
  /\ NoFd \notin Fds /\ None \notin Conns \cup Requests
  /\ Reactor \notin Requests
  /\ MaxRequests \in Nat /\ Kinds \subseteq AllKinds
  /\ Parallel \in Nat \ {0} /\ Capacity \in Nat

VARIABLES
  (* connections *)
  connFd,       (* Connection::fd() *)
  born,         (* accepted at some time *)
  (* the maps of the reactor, keyed by descriptor *)
  streams,      (* _streams *)
  streamUrls,   (* _streamUrls *)
  recorders,    (* _recorders *)
  labels,       (* _recordDeviceIds and _recordStartTimes: the request they came from *)
  streamsMutex, (* holder of _streamsMutex, or None *)
  (* what the requests created *)
  session,      (* StreamSession of a request *)
  recorder,     (* TsRecorder of a request *)
  rows,         (* addRecord calls for a recorder: label, and whether the row was stored *)
  (* threads *)
  request,      (* what a request asks, and on which connection *)
  at,           (* the next step of a handler or of the reactor *)
  local,        (* its local variables *)
  code,         (* the error code of a response *)
  (* the pool, as a task queue *)
  pending, running, done, refused, shut,
  (* history *)
  orderly       (* no two requests of a connection, and no request and the
                   close of its connection, have overlapped *)

connVars == <<connFd, born>>
mapVars == <<streams, streamUrls, recorders, labels>>
workVars == <<session, recorder, rows>>
poolVars == <<pending, running, done, refused, shut>>
vars == <<connVars, mapVars, streamsMutex, workVars, request, at, local, code,
          poolVars, orderly>>

Pool == INSTANCE TaskQueue WITH Tasks <- Requests

Steps == {"idle", "open", "storeStream", "dropStream", "storeUrl", "takeStream",
          "eraseUrl", "stopStream", "finalize", "takeRecorder", "stopRecorder",
          "addRecords", "lookup", "check", "launch", "storeRecorder",
          "dropRecorder", "storeLabel", "reply", "shut", "drain", "ended"}
Urls == {"none", "mock", "camera"}
Codes == {"none", "SUCCESS", "INVALID_PACKET", "STREAM_OPEN_FAILED", "STREAM_NOT_FOUND",
          "RECORD_ALREADY_STARTED", "RECORD_OPEN_FAILED", "RECORD_NOT_STARTED"}

TypeOK ==
  /\ connFd \in [Conns -> Keys] /\ born \in [Conns -> BOOLEAN]
  /\ streams \in [Keys -> Requests \cup {None}]
  /\ streamUrls \in [Keys -> Urls]
  /\ recorders \in [Keys -> Requests \cup {None}]
  /\ labels \in [Keys -> Requests \cup {None}]
  /\ streamsMutex \in Requests \cup {None}
  /\ session \in [Requests -> {"none", "running", "stopped"}]
  /\ recorder \in [Requests -> {"none", "recording", "stopped"}]
  /\ rows \in [Requests -> Seq([label : Requests \cup {None}, stored : BOOLEAN])]
  /\ request \in [Requests -> [conn : Conns \cup {None}, kind : AllKinds \cup {"none"}]]
  /\ at \in [Threads -> Steps]
  /\ local \in [Threads -> [key : Keys, item : Requests \cup {None},
                            label : Requests \cup {None}, url : Urls]]
  /\ code \in [Requests -> Codes]
  /\ pending \in Seq(Requests) /\ running \subseteq Requests
  /\ done \subseteq Requests /\ refused \subseteq Requests
  /\ shut \in BOOLEAN /\ orderly \in BOOLEAN

NoLocal == [key |-> NoFd, item |-> None, label |-> None, url |-> "none"]

Init ==
  /\ connFd = [c \in Conns |-> NoFd] /\ born = [c \in Conns |-> FALSE]
  /\ streams = [k \in Keys |-> None] /\ streamUrls = [k \in Keys |-> "none"]
  /\ recorders = [k \in Keys |-> None] /\ labels = [k \in Keys |-> None]
  /\ streamsMutex = None
  /\ session = [r \in Requests |-> "none"] /\ recorder = [r \in Requests |-> "none"]
  /\ rows = [r \in Requests |-> <<>>]
  /\ request = [r \in Requests |-> [conn |-> None, kind |-> "none"]]
  /\ at = [t \in Threads |-> "idle"] /\ local = [t \in Threads |-> NoLocal]
  /\ code = [r \in Requests |-> "none"]
  /\ Pool!Init
  /\ orderly = TRUE

-------------------------------------------------------------------------------
(* conn->fd() of the connection a request came from. *)
FdOf(r) == connFd[request[r].conn]

(* The requests of connection c that are queued or running. *)
InFlight(c) == {r \in Pool!Waiting \cup running : request[r].conn = c}

Goes(t, step) == at' = [at EXCEPT ![t] = step]

Answers(r, c) ==
  /\ Goes(r, "reply")
  /\ code' = [code EXCEPT ![r] = c]

Locks(t) == streamsMutex = None /\ streamsMutex' = t
Unlocks(t) == streamsMutex = t /\ streamsMutex' = None

-------------------------------------------------------------------------------
(* The reactor accepts a connection on a free descriptor. *)
Accept(c, f) ==
  /\ at[Reactor] = "idle"
  /\ ~born[c] /\ \A d \in Conns : connFd[d] # f
  /\ born' = [born EXCEPT ![c] = TRUE]
  /\ connFd' = [connFd EXCEPT ![c] = f]
  /\ UNCHANGED <<mapVars, streamsMutex, workVars, request, at, local, code,
                 poolVars, orderly>>

(* The reactor reads a request and hands it to the pool.  The result of     *)
(* addTask is ignored: a request that is refused is never heard of again.   *)
Receive(c, kind) ==
  LET r == Cardinality(Pool!Known) + 1 IN
  /\ at[Reactor] = "idle"
  /\ connFd[c] # NoFd
  /\ r \in Requests
  /\ request' = [request EXCEPT ![r] = [conn |-> c, kind |-> kind]]
  /\ Pool!Submit(r) \/ Pool!Refuse(r)
  /\ UNCHANGED <<connVars, mapVars, streamsMutex, workVars, at, local, code, orderly>>

(* A worker takes the request and enters handleMessage.                     *)
Dispatch(r) ==
  /\ Pool!Start(r)
  /\ orderly' = (orderly /\ \A q \in running : request[q].conn # request[r].conn)
  /\ \/ request[r].kind \in {"mockStart", "cameraStart"}
        /\ Goes(r, "open") /\ UNCHANGED code
     \/ request[r].kind = "streamStop" /\ Goes(r, "takeStream") /\ UNCHANGED code
     \/ request[r].kind = "recordStart" /\ Goes(r, "lookup") /\ UNCHANGED code
     \/ request[r].kind = "recordStop" /\ Goes(r, "finalize") /\ UNCHANGED code
     \/ request[r].kind = "invalid" /\ Answers(r, "INVALID_PACKET")
  /\ UNCHANGED <<connVars, mapVars, streamsMutex, workVars, request, local>>

(* The response is queued on the connection; the handler returns.           *)
Reply(r) ==
  /\ at[r] = "reply"
  /\ Pool!Finish(r)
  /\ Goes(r, "idle")
  /\ local' = [local EXCEPT ![r] = NoLocal]
  /\ UNCHANGED <<connVars, mapVars, streamsMutex, workVars, request, code, orderly>>

-------------------------------------------------------------------------------
(* STREAM_START: the source is opened before the session is in the map.     *)
OpenStream(r) ==
  /\ at[r] = "open"
  /\ \/ /\ session' = [session EXCEPT ![r] = "running"]
        /\ Goes(r, "storeStream") /\ UNCHANGED code
     \/ Answers(r, "STREAM_OPEN_FAILED") /\ UNCHANGED session
  /\ UNCHANGED <<connVars, mapVars, streamsMutex, recorder, rows,
                 request, local, poolVars, orderly>>

(* _streams[conn->fd()] = session; a session that was there is destroyed by *)
(* the assignment.                                                          *)
StoreStream(r) ==
  LET old == streams[FdOf(r)] IN
  /\ at[r] = "storeStream"
  /\ Locks(r)
  /\ streams' = [streams EXCEPT ![FdOf(r)] = r]
  /\ local' = [local EXCEPT ![r].item = old]
  /\ Goes(r, IF old # None THEN "dropStream" ELSE "storeUrl")
  /\ UNCHANGED <<connVars, streamUrls, recorders, labels, workVars, request, code,
                 poolVars, orderly>>

(* ~StreamSession of the old session: stop() joins its pull thread.         *)
DropStream(r) ==
  /\ at[r] = "dropStream"
  /\ session' = [session EXCEPT ![local[r].item] = "stopped"]
  /\ local' = [local EXCEPT ![r].item = None]
  /\ Goes(r, "storeUrl")
  /\ UNCHANGED <<connVars, mapVars, streamsMutex, recorder, rows,
                 request, code, poolVars, orderly>>

(* _streamUrls[conn->fd()] = openUrl; the mutex is released.                *)
StoreUrl(r) ==
  /\ at[r] = "storeUrl"
  /\ streamUrls' = [streamUrls EXCEPT ![FdOf(r)] =
                      IF request[r].kind = "cameraStart" THEN "camera" ELSE "mock"]
  /\ Unlocks(r)
  /\ Answers(r, "SUCCESS")
  /\ UNCHANGED <<connVars, streams, recorders, labels, workVars, request, local,
                 poolVars, orderly>>

-------------------------------------------------------------------------------
(* STREAM_STOP: the session leaves the map, then the URL, under the mutex.  *)
TakeStream(r) ==
  /\ at[r] = "takeStream"
  /\ Locks(r)
  /\ local' = [local EXCEPT ![r].item = streams[FdOf(r)]]
  /\ streams' = [streams EXCEPT ![FdOf(r)] = None]
  /\ Goes(r, "eraseUrl")
  /\ UNCHANGED <<connVars, streamUrls, recorders, labels, workVars, request, code,
                 poolVars, orderly>>

EraseUrlKeepsLock(r) == \* mutant: the mutex is not released
  /\ at[r] = "eraseUrl"
  /\ streamUrls' = [streamUrls EXCEPT ![FdOf(r)] = "none"]
  /\ Goes(r, IF local[r].item # None THEN "stopStream" ELSE "finalize")
  /\ UNCHANGED <<connVars, streams, recorders, labels, streamsMutex, workVars,
                 request, local, code, poolVars, orderly>>
EraseUrl(r) ==
  /\ at[r] = "eraseUrl"
  /\ streamUrls' = [streamUrls EXCEPT ![FdOf(r)] = "none"]
  /\ Unlocks(r)
  /\ Goes(r, IF local[r].item # None THEN "stopStream" ELSE "finalize")
  /\ UNCHANGED <<connVars, streams, recorders, labels, workVars, request, local,
                 code, poolVars, orderly>>

(* stream->stop(), by a handler or by the reactor.                          *)
StopStreamThenShut(t) == \* mutant: a close with a stream does not finalize
  /\ at[t] = "stopStream"
  /\ session' = [session EXCEPT ![local[t].item] = "stopped"]
  /\ local' = [local EXCEPT ![t].item = None]
  /\ Goes(t, IF t = Reactor THEN "shut" ELSE "finalize")
  /\ UNCHANGED <<connVars, mapVars, streamsMutex, recorder, rows,
                 request, code, poolVars, orderly>>
StopStream(t) ==
  /\ at[t] = "stopStream"
  /\ session' = [session EXCEPT ![local[t].item] = "stopped"]
  /\ local' = [local EXCEPT ![t].item = None]
  /\ Goes(t, IF t = Reactor THEN "takeRecorder" ELSE "finalize")
  /\ UNCHANGED <<connVars, mapVars, streamsMutex, recorder, rows,
                 request, code, poolVars, orderly>>

-------------------------------------------------------------------------------
(* finalizeRecording(conn->fd()): a handler reads the descriptor here, the  *)
(* mutex is taken later.                                                    *)
FinalizeCall(r) ==
  /\ at[r] = "finalize"
  /\ local' = [local EXCEPT ![r].key = FdOf(r)]
  /\ Goes(r, "takeRecorder")
  /\ UNCHANGED <<connVars, mapVars, streamsMutex, workVars, request, code, poolVars,
                 orderly>>

(* What follows finalizeRecording, by what it returned.                     *)
AfterFinalize(t, found) ==
  IF t = Reactor
  THEN Goes(t, "shut") /\ UNCHANGED code
  ELSE Answers(t, IF found \/ request[t].kind = "streamStop"
                  THEN "SUCCESS" ELSE "RECORD_NOT_STARTED")

(* The recorder, its device and its start time leave the maps together.     *)
TakeRecorderCopies(t) == \* mutant: the recorder stays in the map
  /\ at[t] = "takeRecorder" /\ streamsMutex = None
  /\ local' = [local EXCEPT ![t].item = recorders[local[t].key], ![t].label = labels[local[t].key]]
  /\ IF recorders[local[t].key] # None THEN Goes(t, "stopRecorder") /\ UNCHANGED code
                                       ELSE AfterFinalize(t, FALSE)
  /\ UNCHANGED <<connVars, mapVars, streamsMutex, workVars, request, poolVars, orderly>>
TakeRecorder(t) ==
  LET k == local[t].key IN
  /\ at[t] = "takeRecorder"
  /\ streamsMutex = None
  /\ local' = [local EXCEPT ![t].item = recorders[k], ![t].label = labels[k]]
  /\ recorders' = [recorders EXCEPT ![k] = None]
  /\ labels' = [labels EXCEPT ![k] = None]
  /\ IF recorders[k] # None
     THEN Goes(t, "stopRecorder") /\ UNCHANGED code
     ELSE AfterFinalize(t, FALSE)
  /\ UNCHANGED <<connVars, streams, streamUrls, streamsMutex, workVars, request,
                 poolVars, orderly>>

(* recorder->stop(): SIGTERM, then waitpid.                                 *)
StopRecorderLater(t) == \* mutant: the files are filed while ffmpeg still writes
  /\ at[t] = "stopRecorder"
  /\ Goes(t, "addRecords")
  /\ UNCHANGED <<connVars, mapVars, streamsMutex, workVars, request, local, code,
                 poolVars, orderly>>
StopRecorder(t) ==
  /\ at[t] = "stopRecorder"
  /\ recorder' = [recorder EXCEPT ![local[t].item] = "stopped"]
  /\ Goes(t, "addRecords")
  /\ UNCHANGED <<connVars, mapVars, streamsMutex, session, rows,
                 request, local, code, poolVars, orderly>>

(* addRecord for the files; whether a row was stored is not looked at.      *)
AddRecords(t) ==
  /\ at[t] = "addRecords"
  /\ \E stored \in BOOLEAN :
       rows' = [rows EXCEPT ![local[t].item] =
                  Append(@, [label |-> local[t].label, stored |-> stored])]
  /\ local' = [local EXCEPT ![t].item = None, ![t].label = None]
  /\ AfterFinalize(t, TRUE)
  /\ UNCHANGED <<connVars, mapVars, streamsMutex, session, recorder,
                 request, poolVars, orderly>>

-------------------------------------------------------------------------------
(* RECORD_START: the URL and the recorder of the connection are looked up   *)
(* under the mutex.                                                         *)
LookupUrl(r) ==
  /\ at[r] = "lookup"
  /\ Locks(r)
  /\ local' = [local EXCEPT ![r].url = streamUrls[FdOf(r)]]
  /\ Goes(r, "check")
  /\ UNCHANGED <<connVars, mapVars, workVars, request, code, poolVars, orderly>>

CheckUrlOnly(r) == \* mutant: a recorder that is there is not noticed
  /\ at[r] = "check"
  /\ Unlocks(r)
  /\ IF local[r].url # "camera" THEN Answers(r, "STREAM_NOT_FOUND")
     ELSE Goes(r, "launch") /\ UNCHANGED code
  /\ UNCHANGED <<connVars, mapVars, workVars, request, local, poolVars, orderly>>
CheckRecorder(r) ==
  /\ at[r] = "check"
  /\ Unlocks(r)
  /\ IF recorders[FdOf(r)] # None THEN Answers(r, "RECORD_ALREADY_STARTED")
     ELSE IF local[r].url # "camera" THEN Answers(r, "STREAM_NOT_FOUND")
     ELSE Goes(r, "launch") /\ UNCHANGED code
  /\ UNCHANGED <<connVars, mapVars, workVars, request, local, poolVars, orderly>>

(* TsRecorder::start, without the mutex: ffmpeg is running, or it could not *)
(* be launched.                                                             *)
LaunchRecorder(r) ==
  /\ at[r] = "launch"
  /\ \/ /\ recorder' = [recorder EXCEPT ![r] = "recording"]
        /\ Goes(r, "storeRecorder") /\ UNCHANGED code
     \/ Answers(r, "RECORD_OPEN_FAILED") /\ UNCHANGED recorder
  /\ UNCHANGED <<connVars, mapVars, streamsMutex, session, rows, request, local,
                 poolVars, orderly>>

(* _recorders[conn->fd()] = recorder; one that was there is destroyed.      *)
StoreRecorder(r) ==
  LET old == recorders[FdOf(r)] IN
  /\ at[r] = "storeRecorder"
  /\ Locks(r)
  /\ recorders' = [recorders EXCEPT ![FdOf(r)] = r]
  /\ local' = [local EXCEPT ![r].item = old]
  /\ Goes(r, IF old # None THEN "dropRecorder" ELSE "storeLabel")
  /\ UNCHANGED <<connVars, streams, streamUrls, labels, workVars, request, code,
                 poolVars, orderly>>

(* ~TsRecorder of the old recorder: stop() waits for ffmpeg.                *)
DropRecorder(r) ==
  /\ at[r] = "dropRecorder"
  /\ recorder' = [recorder EXCEPT ![local[r].item] = "stopped"]
  /\ local' = [local EXCEPT ![r].item = None]
  /\ Goes(r, "storeLabel")
  /\ UNCHANGED <<connVars, mapVars, streamsMutex, session, rows,
                 request, code, poolVars, orderly>>

(* Device and start time follow; the mutex is released.                     *)
StoreLabel(r) ==
  /\ at[r] = "storeLabel"
  /\ labels' = [labels EXCEPT ![FdOf(r)] = r]
  /\ Unlocks(r)
  /\ Answers(r, "SUCCESS")
  /\ UNCHANGED <<connVars, streams, streamUrls, recorders, workVars, request, local,
                 poolVars, orderly>>

-------------------------------------------------------------------------------
(* Reactor::closeConnection, for whatever reason: the session and its URL   *)
(* leave the maps; stopping, finalizing and the close itself follow.        *)
CloseForgetsUrl(c) == \* mutant: the URL of the stream stays in the map
  LET f == connFd[c] IN
  /\ at[Reactor] = "idle" /\ f # NoFd /\ streamsMutex = None
  /\ local' = [local EXCEPT ![Reactor].key = f, ![Reactor].item = streams[f]]
  /\ streams' = [streams EXCEPT ![f] = None]
  /\ Goes(Reactor, IF streams[f] # None THEN "stopStream" ELSE "takeRecorder")
  /\ orderly' = (orderly /\ InFlight(c) = {})
  /\ UNCHANGED <<connVars, streamUrls, recorders, labels, streamsMutex, workVars, request, code, poolVars>>
Close(c) ==
  LET f == connFd[c] IN
  /\ at[Reactor] = "idle"
  /\ f # NoFd
  /\ streamsMutex = None
  /\ local' = [local EXCEPT ![Reactor].key = f, ![Reactor].item = streams[f]]
  /\ streams' = [streams EXCEPT ![f] = None]
  /\ streamUrls' = [streamUrls EXCEPT ![f] = "none"]
  /\ Goes(Reactor, IF streams[f] # None THEN "stopStream" ELSE "takeRecorder")
  /\ orderly' = (orderly /\ InFlight(c) = {})
  /\ UNCHANGED <<connVars, recorders, labels, streamsMutex, workVars, request, code,
                 poolVars>>

(* Connection::closeConnection: the descriptor is free again.               *)
CloseShut ==
  /\ at[Reactor] = "shut"
  /\ connFd' = [c \in Conns |-> IF connFd[c] = local[Reactor].key THEN NoFd ELSE connFd[c]]
  /\ local' = [local EXCEPT ![Reactor] = NoLocal]
  /\ Goes(Reactor, "idle")
  /\ UNCHANGED <<born, mapVars, streamsMutex, workVars, request, code, poolVars, orderly>>

-------------------------------------------------------------------------------
(* stop(), and then ~Reactor: the pool is drained first, then _conn and the *)
(* maps are destroyed, and with them what is still in them.                 *)
LeaveRun ==
  /\ at[Reactor] = "idle"
  /\ Pool!Shut
  /\ Goes(Reactor, "drain")
  /\ UNCHANGED <<connVars, mapVars, streamsMutex, workVars, request, local, code, orderly>>

Destroy ==
  /\ at[Reactor] = "drain"
  /\ pending = <<>> /\ running = {}
  /\ session' = [r \in Requests |-> IF \E k \in Keys : streams[k] = r
                                    THEN "stopped" ELSE session[r]]
  /\ recorder' = [r \in Requests |-> IF \E k \in Keys : recorders[k] = r
                                     THEN "stopped" ELSE recorder[r]]
  /\ streams' = [k \in Keys |-> None] /\ streamUrls' = [k \in Keys |-> "none"]
  /\ recorders' = [k \in Keys |-> None] /\ labels' = [k \in Keys |-> None]
  /\ connFd' = [c \in Conns |-> NoFd]
  /\ Goes(Reactor, "ended")
  /\ UNCHANGED <<born, streamsMutex, rows, request, local, code,
                 poolVars, orderly>>

-------------------------------------------------------------------------------
StreamStart(r) == OpenStream(r) \/ StoreStream(r) \/ DropStream(r) \/ StoreUrl(r)
StreamStop(r) == TakeStream(r) \/ EraseUrl(r)
RecordStart(r) ==
  \/ LookupUrl(r) \/ CheckRecorder(r) \/ LaunchRecorder(r)
  \/ StoreRecorder(r) \/ DropRecorder(r) \/ StoreLabel(r)
Finalizing(t) == StopStream(t) \/ TakeRecorder(t) \/ StopRecorder(t) \/ AddRecords(t)

Handler(r) ==
  \/ Dispatch(r) \/ Reply(r) \/ FinalizeCall(r)
  \/ StreamStart(r) \/ StreamStop(r) \/ RecordStart(r) \/ Finalizing(r)

Closing == CloseShut \/ Finalizing(Reactor)

Next ==
  \/ \E c \in Conns, f \in Fds : Accept(c, f)
  \/ \E c \in Conns, kind \in Kinds : Receive(c, kind)
  \/ \E r \in Requests : Handler(r)
  \/ \E c \in Conns : Close(c)
  \/ Closing \/ LeaveRun \/ Destroy

Spec == Init /\ [][Next]_vars

(* Workers and the reactor go on with what they began: ffmpeg ends after    *)
(* SIGTERM, a pull thread can be joined, a source opens or fails.  Clients  *)
(* owe nothing, and the server may run for ever.                            *)
Fairness ==
  /\ \A r \in Requests : WF_vars(Handler(r))
  /\ WF_vars(Closing) /\ WF_vars(Destroy)

FairSpec == Spec /\ Fairness

-------------------------------------------------------------------------------
(* Properties.                                                              *)

(* Who refers to the recorder of request r: a map entry, the handler that   *)
(* has launched it and not stored it yet, a thread that finalizes it, or a  *)
(* handler that has just replaced it.                                       *)
RecorderHolders(r) ==
  {k \in Keys : recorders[k] = r}
    \cup {t \in Threads : at[t] \in {"stopRecorder", "addRecords", "dropRecorder"}
                          /\ local[t].item = r}
    \cup {t \in {r} : at[r] = "storeRecorder"}

(* An ffmpeg process that runs is referred to from exactly one place, and   *)
(* none from two: whatever the interleaving of RECORD_START, RECORD_STOP,   *)
(* STREAM_STOP and closes, no process is forgotten and none is stopped or   *)
(* filed by two threads.                                                    *)
RecorderOwnedOnce ==
  \A r \in Requests :
    /\ \A x, y \in RecorderHolders(r) : x = y
    /\ recorder[r] = "recording" => RecorderHolders(r) # {}

(* A recording is filed at most once, and only after its ffmpeg has exited, *)
(* so that the rows name finished files.                                    *)
FiledOnceWhenStopped ==
  \A r \in Requests :
    /\ Len(rows[r]) <= 1
    /\ rows[r] # <<>> => recorder[r] = "stopped"

(* If the requests of a connection do not overlap each other or the close   *)
(* of the connection, what the maps hold under a descriptor belongs to the  *)
(* connection that has this descriptor, a stream goes with its URL and a    *)
(* recorder with its own device and start time.  A client that reuses a     *)
(* descriptor number inherits nothing.                                      *)
MapsFollowConnections ==
  orderly => \A k \in Keys :
    /\ \A r \in {streams[k], recorders[k]} \ {None} : k # NoFd /\ FdOf(r) = k
    /\ streamsMutex = None =>
         /\ streamUrls[k] # "none" <=> streams[k] # None
         /\ labels[k] = recorders[k]

(* Under the same condition every recording that has ended was filed, under *)
(* its own device and start time, or is about to be: stopping the stream,   *)
(* stopping the recording and losing the connection all file it.            *)
OrderlyRecordingsFiled ==
  orderly /\ at[Reactor] # "ended" => \A r \in Requests :
    recorder[r] = "stopped" =>
      \/ \E t \in Threads : at[t] = "addRecords" /\ local[t].item = r /\ local[t].label = r
      \/ rows[r] # <<>> /\ rows[r][1].label = r

(* Under the same condition a connection that is gone leaves no stream that *)
(* runs and no ffmpeg that records.                                         *)
OrderlyCloseLeavesNothing ==
  orderly => \A r \in Requests :
    (session[r] = "running" \/ recorder[r] = "recording")
      => connFd[request[r].conn] # NoFd

(* handleMessage and closeConnection come to their end: every request that  *)
(* the pool accepted is answered, no handler waits for a mutex that nobody  *)
(* will release, and the reactor returns to its loop.                       *)
HandlersFinish ==
  /\ \A r \in Requests : (r \in Pool!Waiting) ~> (r \in done)
  /\ (at[Reactor] = "takeRecorder") ~> (at[Reactor] = "idle")

-------------------------------------------------------------------------------
(* What comments of the code say, and the code does not do.                 *)

(* "Disconnects, idle reclaim and write failures must all take the same     *)
(* path": a recording of a connection that is gone is stopped and filed.    *)
ClosedRecordingsFiled ==
  \A r \in Requests, c \in Conns :
    /\ born[c] /\ connFd[c] = NoFd /\ InFlight(c) = {}
    /\ request[r].conn = c /\ recorder[r] # "none" /\ at[Reactor] # "ended"
    => recorder[r] = "stopped" /\ rows[r] # <<>>

(* Nobody waits for ffmpeg, and nobody stops a pull thread, with            *)
(* _streamsMutex held, because every other connection would wait as well.   *)
NoWaitUnderMutex ==
  \A r \in Requests : streamsMutex = r => at[r] \notin {"dropRecorder", "dropStream"}
===============================================================================

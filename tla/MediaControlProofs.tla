-------------------------- MODULE MediaControlProofs --------------------------
(***************************************************************************)
(* Proofs about MediaControl, for any number of connections, descriptors   *)
(* and requests, and a pool of any size.  First what holds under every     *)
(* interleaving: a recorder has one owner and is filed once.  Then what    *)
(* orderly clients may rely on: the maps follow the connections, every     *)
(* recording is filed, and a connection that is gone leaves nothing.       *)
(***************************************************************************)
EXTENDS MediaControl, TLAPS

-------------------------------------------------------------------------------
(* The inductive invariant, in parts.                                       *)

Waiting == Pool!Waiting
InPool == Waiting \cup running

(* Each request goes through the pool once; it is at work while it runs.    *)
PoolInv ==
  /\ \A i, j \in DOMAIN pending : pending[i] = pending[j] => i = j
  /\ \A r \in Waiting : r \notin running /\ r \notin done
  /\ \A r \in running : r \notin done
  /\ \A r \in Requests : at[r] # "idle" <=> r \in running

(* Requests come from connections that were accepted; open connections have *)
(* descriptors of their own.                                                *)
ConnInv ==
  /\ \A r \in InPool \cup done : request[r].conn \in Conns /\ born[request[r].conn]
  /\ \A c \in Conns : ~born[c] => connFd[c] = NoFd
  /\ \A c, d \in Conns : connFd[c] = connFd[d] /\ connFd[c] # NoFd => c = d

(* Where the reactor and the handlers may be; who holds the mutex.          *)
ReactorSteps == {"idle", "stopStream", "takeRecorder", "stopRecorder", "addRecords",
                 "shut", "drain", "ended"}
LockSteps == {"dropStream", "storeUrl", "eraseUrl", "check", "dropRecorder", "storeLabel"}

PlaceInv ==
  /\ at[Reactor] \in ReactorSteps
  /\ \A r \in Requests : at[r] \notin {"shut", "drain", "ended"}
  /\ \A r \in Requests : streamsMutex = r <=> at[r] \in LockSteps

(* Thread t refers to the recorder of request r.                            *)
Held(t, r) ==
  \/ at[t] \in {"stopRecorder", "addRecords", "dropRecorder"} /\ local[t].item = r
  \/ at[t] = "storeRecorder" /\ t = r

RecorderInv ==
  /\ \A r \in Requests :
       r \notin running \cup done \/ at[r] \in {"lookup", "check", "launch"}
       => recorder[r] = "none"
  /\ \A t \in Threads :
       at[t] \in {"stopRecorder", "addRecords", "dropRecorder"} => local[t].item \in Requests
  /\ \A k \in Keys, r \in Requests : recorders[k] = r => recorder[r] = "recording"
  /\ \A t \in Threads, r \in Requests :
       Held(t, r) => recorder[r] = IF at[t] = "addRecords" THEN "stopped" ELSE "recording"
  /\ \A r \in Requests : recorder[r] = "recording" =>
       (\E k \in Keys : recorders[k] = r) \/ (\E t \in Threads : Held(t, r))

OneOwner ==
  \A r \in Requests :
    /\ \A k, j \in Keys : recorders[k] = r /\ recorders[j] = r => k = j
    /\ \A t, u \in Threads : Held(t, r) /\ Held(u, r) => t = u
    /\ \A k \in Keys, t \in Threads : ~(recorders[k] = r /\ Held(t, r))

FiledInv ==
  \A r \in Requests :
    /\ Len(rows[r]) <= 1
    /\ rows[r] # <<>> => recorder[r] = "stopped" /\ \A t \in Threads : ~Held(t, r)

(* What a map or a thread refers to was created by a request that has been  *)
(* dispatched.                                                              *)
Dispatched == running \cup done

KnownInv ==
  /\ \A k \in Keys : streams[k] \in Dispatched \cup {None}
  /\ \A t \in Threads : local[t].item \in Dispatched \cup {None}
  /\ \A r \in Requests : session[r] # "none" => r \in Dispatched

Safe ==
  /\ TypeOK /\ PoolInv /\ ConnInv /\ PlaceInv
  /\ RecorderInv /\ OneOwner /\ FiledInv /\ KnownInv

(* The descriptor a thread works for. *)
KeyOf(t) == IF t = Reactor THEN local[t].key ELSE FdOf(t)

(* One request of a connection at a time, on an open connection, and none   *)
(* of the connection that the reactor is closing.                           *)
OneAtATime ==
  /\ \A q, r \in running : request[q].conn = request[r].conn => q = r
  /\ \A r \in InPool : FdOf(r) # NoFd
  /\ \A r \in running : at[r] = "takeRecorder" => local[r].key = FdOf(r)

ClosesAlone ==
  at[Reactor] \notin {"idle", "drain", "ended"} =>
    LET k == local[Reactor].key IN
    /\ k # NoFd /\ \A r \in InPool : FdOf(r) # k
    /\ streams[k] = None /\ streamUrls[k] = "none"
    /\ at[Reactor] \in {"stopRecorder", "addRecords", "shut"} =>
         recorders[k] = None /\ labels[k] = None

(* What the maps hold, and what a handler with the mutex is about to add.   *)
UrlMatches(k) == streamUrls[k] # "none" <=> streams[k] # None
LabelMatches(k) == labels[k] = recorders[k]

MapsOwn ==
  \A k \in Keys, r \in Requests :
    streams[k] = r \/ recorders[k] = r => k # NoFd /\ FdOf(r) = k

MapsPair ==
  \A k \in Keys :
    /\ UrlMatches(k) \/ \E r \in Requests : /\ streamsMutex = r /\ FdOf(r) = k
                                            /\ at[r] \in {"dropStream", "storeUrl", "eraseUrl"}
    /\ LabelMatches(k) \/ \E r \in Requests : /\ streamsMutex = r /\ FdOf(r) = k
                                              /\ at[r] \in {"dropRecorder", "storeLabel"}

MapsInHand ==
  \A r \in Requests :
    /\ at[r] \in {"dropStream", "storeUrl"} => streams[FdOf(r)] = r
    /\ at[r] = "eraseUrl" => streams[FdOf(r)] = None
    /\ at[r] = "storeLabel" => recorders[FdOf(r)] = r
    /\ at[r] \in {"launch", "storeRecorder"} => recorders[FdOf(r)] = None
    /\ at[r] # "dropRecorder"

MapsMatch == MapsOwn /\ MapsPair /\ MapsInHand

(* What was stopped is filed under its own label; what runs belongs to an   *)
(* open connection.                                                         *)
FilesOwn ==
  /\ \A t \in Threads : at[t] = "stopRecorder" \/ at[t] = "addRecords"
                        => local[t].label = local[t].item
  /\ \A t \in Threads : at[t] = "stopRecorder" => FdOf(local[t].item) = KeyOf(t)
  /\ at[Reactor] # "ended" => \A r \in Requests : recorder[r] = "stopped" =>
       (\E t \in Threads : at[t] = "addRecords" /\ local[t].item = r)
         \/ (rows[r] # <<>> /\ rows[r][1].label = r)

SessionsFollow ==
  \A r \in Requests : session[r] = "running" =>
    \/ at[r] = "storeStream"
    \/ streams[FdOf(r)] = r /\ FdOf(r) \in Keys
    \/ \E t \in Threads : /\ at[t] \in {"eraseUrl", "stopStream", "dropStream"} /\ local[t].item = r
                          /\ FdOf(r) = KeyOf(t)

Orderly == OneAtATime /\ ClosesAlone /\ MapsMatch /\ FilesOwn /\ SessionsFollow

IInv == Safe /\ (orderly => Orderly)

-------------------------------------------------------------------------------
(* The queue of the pool.                                                   *)

LEMMA Appended ==
  ASSUME pending \in Seq(Requests), NEW r \in Requests, pending' = Append(pending, r)
  PROVE  /\ pending' \in Seq(Requests) /\ Waiting' = Waiting \cup {r}
         /\ PoolInv /\ r \notin Waiting =>
              \A i, j \in DOMAIN pending' : pending'[i] = pending'[j] => i = j
<1>1. /\ pending' \in Seq(Requests) /\ Len(pending') = Len(pending) + 1
      /\ \A i \in 1..Len(pending) : pending'[i] = pending[i]
      /\ pending'[Len(pending) + 1] = r /\ Len(pending) \in Nat
  OBVIOUS
<1>2. DOMAIN pending = 1..Len(pending) /\ DOMAIN pending' = 1..Len(pending')
  BY <1>1
<1>3. Waiting' = Waiting \cup {r}
  BY <1>1, <1>2 DEF Waiting, Pool!Waiting
<1>4. ASSUME PoolInv, r \notin Waiting, NEW i \in DOMAIN pending', NEW j \in DOMAIN pending',
             pending'[i] = pending'[j]
      PROVE  i = j
  BY <1>1, <1>2, <1>4 DEF PoolInv, Waiting, Pool!Waiting
<1> QED
  BY <1>1, <1>3, <1>4

LEMMA Started ==
  ASSUME pending \in Seq(Requests), PoolInv, pending # <<>>, NEW r, r = Head(pending),
         pending' = Tail(pending)
  PROVE  /\ pending' \in Seq(Requests) /\ r \in Requests
         /\ Waiting = Waiting' \cup {r} /\ r \notin Waiting'
         /\ \A i, j \in DOMAIN pending' : pending'[i] = pending'[j] => i = j
<1>1. /\ pending' \in Seq(Requests) /\ Len(pending') = Len(pending) - 1
      /\ Len(pending) \in Nat /\ Len(pending) > 0
      /\ \A i \in 1..Len(pending') : pending'[i] = pending[i + 1]
      /\ r = pending[1] /\ r \in Requests
  OBVIOUS
<1>2. /\ DOMAIN pending = 1..Len(pending) /\ DOMAIN pending' = 1..Len(pending')
      /\ \A i \in 1..Len(pending') : i + 1 \in 1..Len(pending) /\ i + 1 # 1
      /\ \A i \in 1..Len(pending) : i # 1 => i - 1 \in 1..Len(pending') /\ (i - 1) + 1 = i
      /\ 1 \in 1..Len(pending)
  BY <1>1
<1>3. \A i, j \in 1..Len(pending) : pending[i] = pending[j] => i = j
  BY <1>2 DEF PoolInv
<1>4. Waiting' \subseteq Waiting /\ r \in Waiting /\ r \notin Waiting'
  BY <1>1, <1>2, <1>3 DEF Waiting, Pool!Waiting
<1>5. ASSUME NEW i \in 1..Len(pending) PROVE pending[i] \in Waiting' \cup {r}
  <2>1. CASE i = 1
    BY <1>1, <2>1
  <2>2. CASE i # 1
    <3>1. pending'[i - 1] = pending[i] /\ i - 1 \in DOMAIN pending'
      BY <1>1, <1>2, <2>2
    <3> QED
      BY <3>1 DEF Waiting, Pool!Waiting
  <2> QED
    BY <2>1, <2>2
<1>6. Waiting \subseteq Waiting' \cup {r}
  BY <1>2, <1>5 DEF Waiting, Pool!Waiting
<1>7. \A i, j \in DOMAIN pending' : pending'[i] = pending'[j] => i = j
  BY <1>1, <1>2, <1>3
<1> QED
  BY <1>1, <1>4, <1>6, <1>7

LEMMA Received ==
  ASSUME NEW c, NEW kind, Receive(c, kind)
  PROVE  \E r \in Requests :
           /\ r \notin Waiting \cup running \cup done \cup refused
           /\ request' = [request EXCEPT ![r] = [conn |-> c, kind |-> kind]]
           /\ \/ /\ pending' = Append(pending, r)
                 /\ UNCHANGED <<running, done, refused, shut>>
              \/ /\ refused' = refused \cup {r}
                 /\ UNCHANGED <<pending, running, done, shut>>
<1> DEFINE r == Cardinality(Pool!Known) + 1
<1>1. r \in Requests
  BY DEF Receive
<1>2. /\ request' = [request EXCEPT ![r] = [conn |-> c, kind |-> kind]]
      /\ Pool!Submit(r) \/ Pool!Refuse(r)
  BY DEF Receive
<1>3. r \notin Pool!Known
  BY <1>2 DEF Pool!Submit, Pool!Refuse
<1> QED
  BY <1>1, <1>2, <1>3 DEF Pool!Submit, Pool!Refuse, Pool!Known, Waiting

LEMMA AtWork ==
  ASSUME TypeOK, PoolInv, ConnInv, NEW r \in Requests, at[r] # "idle"
  PROVE  r \in running /\ request[r].conn \in Conns /\ FdOf(r) \in Keys
BY DEF TypeOK, PoolInv, ConnInv, InPool, FdOf

-------------------------------------------------------------------------------
(* Type correctness.                                                        *)

(* What a thread keeps in its local variables. *)
Locals == [key : Keys, item : Requests \cup {None}, label : Requests \cup {None}, url : Urls]

LEMMA ConnTyped ==
  ASSUME Safe, Next
  PROVE  /\ connFd' \in [Conns -> Keys]
         /\ born' \in [Conns -> BOOLEAN]
<1> USE DEF Safe, TypeOK, connVars, mapVars, workVars, poolVars, Goes, Answers, Keys
<1>1. CASE \E c \in Conns, f \in Fds : Accept(c, f)
  BY <1>1 DEF Accept
<1>2. CASE \E c \in Conns, kind \in Kinds : Receive(c, kind)
  BY <1>2 DEF Receive, Pool!Submit, Pool!Refuse
<1>3. ASSUME NEW r \in Requests, Dispatch(r) PROVE connFd' \in [Conns -> Keys] /\ born' \in [Conns -> BOOLEAN]
  BY <1>3, AtWork DEF Dispatch, Pool!Start
<1>4. ASSUME NEW r \in Requests, Reply(r) PROVE connFd' \in [Conns -> Keys] /\ born' \in [Conns -> BOOLEAN]
  BY <1>4 DEF Reply, Pool!Finish
<1>5. ASSUME NEW r \in Requests, StreamStart(r) PROVE connFd' \in [Conns -> Keys] /\ born' \in [Conns -> BOOLEAN]
  BY <1>5, AtWork DEF StreamStart, OpenStream, StoreStream, DropStream, StoreUrl
<1>6. ASSUME NEW r \in Requests, StreamStop(r) \/ FinalizeCall(r) PROVE connFd' \in [Conns -> Keys] /\ born' \in [Conns -> BOOLEAN]
  BY <1>6, AtWork DEF StreamStop, TakeStream, EraseUrl, FinalizeCall
<1>7. ASSUME NEW r \in Requests, RecordStart(r) PROVE connFd' \in [Conns -> Keys] /\ born' \in [Conns -> BOOLEAN]
  BY <1>7, AtWork DEF RecordStart, LookupUrl, CheckRecorder, LaunchRecorder, StoreRecorder, DropRecorder, StoreLabel
<1>8. ASSUME NEW t \in Threads, Finalizing(t) PROVE connFd' \in [Conns -> Keys] /\ born' \in [Conns -> BOOLEAN]
  BY <1>8 DEF Finalizing, StopStream, TakeRecorder, StopRecorder, AddRecords, AfterFinalize
<1>9. CASE (\E c \in Conns : Close(c)) \/ CloseShut \/ LeaveRun \/ Destroy
  BY <1>9, ZenonT(60) DEF Close, CloseShut, LeaveRun, Destroy, Pool!Shut
<1> QED
  BY <1>1, <1>2, <1>3, <1>4, <1>5, <1>6, <1>7, <1>8, <1>9 DEF Next, Handler, Closing, Threads

LEMMA UrlsTyped ==
  ASSUME Safe, Next
  PROVE  streamUrls' \in [Keys -> Urls]
<1> USE DEF Safe, TypeOK, connVars, mapVars, workVars, poolVars, Goes, Answers, Urls
<1>1. CASE \/ \E c \in Conns, f \in Fds : Accept(c, f)
           \/ \E c \in Conns, kind \in Kinds : Receive(c, kind)
           \/ \E r \in Requests : Dispatch(r) \/ Reply(r)
  BY <1>1 DEF Accept, Receive, Dispatch, Reply, Pool!Start, Pool!Finish, Pool!Submit, Pool!Refuse
<1>2. ASSUME NEW r \in Requests, StreamStart(r) PROVE streamUrls' \in [Keys -> Urls]
  BY <1>2, AtWork DEF StreamStart, OpenStream, StoreStream, DropStream, StoreUrl
<1>3. ASSUME NEW r \in Requests, StreamStop(r) \/ FinalizeCall(r) PROVE streamUrls' \in [Keys -> Urls]
  BY <1>3, AtWork DEF StreamStop, TakeStream, EraseUrl, FinalizeCall
<1>4. ASSUME NEW r \in Requests, RecordStart(r) PROVE streamUrls' \in [Keys -> Urls]
  BY <1>4, AtWork DEF RecordStart, LookupUrl, CheckRecorder, LaunchRecorder, StoreRecorder, DropRecorder, StoreLabel
<1>5. ASSUME NEW t \in Threads, Finalizing(t) PROVE streamUrls' \in [Keys -> Urls]
  BY <1>5 DEF Finalizing, StopStream, TakeRecorder, StopRecorder, AddRecords, AfterFinalize
<1>6. CASE (\E c \in Conns : Close(c)) \/ CloseShut \/ LeaveRun \/ Destroy
  BY <1>6 DEF Close, CloseShut, LeaveRun, Destroy, Pool!Shut
<1> QED
  BY <1>1, <1>2, <1>3, <1>4, <1>5, <1>6 DEF Next, Handler, Closing, Threads

LEMMA StreamsTyped ==
  ASSUME Safe, Next
  PROVE  streams' \in [Keys -> Requests \cup {None}]
<1> USE DEF Safe, TypeOK, connVars, mapVars, workVars, poolVars, Goes, Answers
<1>1. CASE \/ \E c \in Conns, f \in Fds : Accept(c, f)
           \/ \E c \in Conns, kind \in Kinds : Receive(c, kind)
           \/ \E r \in Requests : Dispatch(r) \/ Reply(r)
  BY <1>1 DEF Accept, Receive, Dispatch, Reply, Pool!Start, Pool!Finish, Pool!Submit, Pool!Refuse
<1>2. ASSUME NEW r \in Requests, StreamStart(r) PROVE streams' \in [Keys -> Requests \cup {None}]
  BY <1>2, AtWork DEF StreamStart, OpenStream, StoreStream, DropStream, StoreUrl
<1>3. ASSUME NEW r \in Requests, StreamStop(r) \/ FinalizeCall(r) PROVE streams' \in [Keys -> Requests \cup {None}]
  BY <1>3, AtWork DEF StreamStop, TakeStream, EraseUrl, FinalizeCall
<1>4. ASSUME NEW r \in Requests, RecordStart(r) PROVE streams' \in [Keys -> Requests \cup {None}]
  BY <1>4, AtWork DEF RecordStart, LookupUrl, CheckRecorder, LaunchRecorder, StoreRecorder, DropRecorder, StoreLabel
<1>5. ASSUME NEW t \in Threads, Finalizing(t) PROVE streams' \in [Keys -> Requests \cup {None}]
  BY <1>5 DEF Finalizing, StopStream, TakeRecorder, StopRecorder, AddRecords, AfterFinalize
<1>6. CASE \E c \in Conns : Close(c)
  BY <1>6 DEF Close
<1>7. CASE CloseShut \/ LeaveRun
  BY <1>7 DEF CloseShut, LeaveRun, Pool!Shut
<1>8. CASE Destroy
  BY <1>8 DEF Destroy
<1> QED
  BY <1>1, <1>2, <1>3, <1>4, <1>5, <1>6, <1>7, <1>8 DEF Next, Handler, Closing, Threads

LEMMA RecordersTyped ==
  ASSUME Safe, Next
  PROVE  recorders' \in [Keys -> Requests \cup {None}]
<1> USE DEF Safe, TypeOK, connVars, mapVars, workVars, poolVars, Goes, Answers
<1>1. CASE \/ \E c \in Conns, f \in Fds : Accept(c, f)
           \/ \E c \in Conns, kind \in Kinds : Receive(c, kind)
           \/ \E r \in Requests : Dispatch(r) \/ Reply(r)
  BY <1>1 DEF Accept, Receive, Dispatch, Reply, Pool!Start, Pool!Finish, Pool!Submit, Pool!Refuse
<1>2. ASSUME NEW r \in Requests, StreamStart(r) PROVE recorders' \in [Keys -> Requests \cup {None}]
  BY <1>2, AtWork DEF StreamStart, OpenStream, StoreStream, DropStream, StoreUrl
<1>3. ASSUME NEW r \in Requests, StreamStop(r) \/ FinalizeCall(r) PROVE recorders' \in [Keys -> Requests \cup {None}]
  BY <1>3, AtWork DEF StreamStop, TakeStream, EraseUrl, FinalizeCall
<1>4. ASSUME NEW r \in Requests, RecordStart(r) PROVE recorders' \in [Keys -> Requests \cup {None}]
  BY <1>4, AtWork DEF RecordStart, LookupUrl, CheckRecorder, LaunchRecorder, StoreRecorder, DropRecorder, StoreLabel
<1>5. ASSUME NEW t \in Threads, Finalizing(t) PROVE recorders' \in [Keys -> Requests \cup {None}]
  BY <1>5, ZenonT(60) DEF Finalizing, StopStream, TakeRecorder, StopRecorder, AddRecords, AfterFinalize
<1>6. CASE (\E c \in Conns : Close(c)) \/ CloseShut \/ LeaveRun \/ Destroy
  BY <1>6 DEF Close, CloseShut, LeaveRun, Destroy, Pool!Shut
<1> QED
  BY <1>1, <1>2, <1>3, <1>4, <1>5, <1>6 DEF Next, Handler, Closing, Threads

LEMMA LabelsTyped ==
  ASSUME Safe, Next
  PROVE  labels' \in [Keys -> Requests \cup {None}]
<1> USE DEF Safe, TypeOK, connVars, mapVars, workVars, poolVars, Goes, Answers
<1>1. CASE \/ \E c \in Conns, f \in Fds : Accept(c, f)
           \/ \E c \in Conns, kind \in Kinds : Receive(c, kind)
           \/ \E r \in Requests : Dispatch(r) \/ Reply(r)
  BY <1>1 DEF Accept, Receive, Dispatch, Reply, Pool!Start, Pool!Finish, Pool!Submit, Pool!Refuse
<1>2. ASSUME NEW r \in Requests, StreamStart(r) PROVE labels' \in [Keys -> Requests \cup {None}]
  BY <1>2, AtWork DEF StreamStart, OpenStream, StoreStream, DropStream, StoreUrl
<1>3. ASSUME NEW r \in Requests, StreamStop(r) \/ FinalizeCall(r) PROVE labels' \in [Keys -> Requests \cup {None}]
  BY <1>3, AtWork DEF StreamStop, TakeStream, EraseUrl, FinalizeCall
<1>4. ASSUME NEW r \in Requests, RecordStart(r) PROVE labels' \in [Keys -> Requests \cup {None}]
  BY <1>4, AtWork, ZenonT(60) DEF RecordStart, LookupUrl, CheckRecorder, LaunchRecorder, StoreRecorder, DropRecorder, StoreLabel
<1>5. ASSUME NEW t \in Threads, Finalizing(t) PROVE labels' \in [Keys -> Requests \cup {None}]
  BY <1>5 DEF Finalizing, StopStream, TakeRecorder, StopRecorder, AddRecords, AfterFinalize
<1>6. CASE (\E c \in Conns : Close(c)) \/ CloseShut \/ LeaveRun \/ Destroy
  BY <1>6 DEF Close, CloseShut, LeaveRun, Destroy, Pool!Shut
<1> QED
  BY <1>1, <1>2, <1>3, <1>4, <1>5, <1>6 DEF Next, Handler, Closing, Threads

LEMMA MutexTyped ==
  ASSUME Safe, Next
  PROVE  streamsMutex' \in Requests \cup {None}
<1> USE DEF Safe, TypeOK, connVars, mapVars, workVars, poolVars, Goes, Answers, Locks, Unlocks
<1>1. CASE \/ \E c \in Conns, f \in Fds : Accept(c, f)
           \/ \E c \in Conns, kind \in Kinds : Receive(c, kind)
           \/ \E r \in Requests : Dispatch(r) \/ Reply(r)
  BY <1>1 DEF Accept, Receive, Dispatch, Reply, Pool!Start, Pool!Finish, Pool!Submit, Pool!Refuse
<1>2. ASSUME NEW r \in Requests, StreamStart(r) PROVE streamsMutex' \in Requests \cup {None}
  BY <1>2, AtWork DEF StreamStart, OpenStream, StoreStream, DropStream, StoreUrl
<1>3. ASSUME NEW r \in Requests, StreamStop(r) \/ FinalizeCall(r) PROVE streamsMutex' \in Requests \cup {None}
  BY <1>3, AtWork DEF StreamStop, TakeStream, EraseUrl, FinalizeCall
<1>4. ASSUME NEW r \in Requests, RecordStart(r) PROVE streamsMutex' \in Requests \cup {None}
  BY <1>4, AtWork DEF RecordStart, LookupUrl, CheckRecorder, LaunchRecorder, StoreRecorder, DropRecorder, StoreLabel
<1>5. ASSUME NEW t \in Threads, Finalizing(t) PROVE streamsMutex' \in Requests \cup {None}
  BY <1>5 DEF Finalizing, StopStream, TakeRecorder, StopRecorder, AddRecords, AfterFinalize
<1>6. CASE (\E c \in Conns : Close(c)) \/ CloseShut \/ LeaveRun \/ Destroy
  BY <1>6 DEF Close, CloseShut, LeaveRun, Destroy, Pool!Shut
<1> QED
  BY <1>1, <1>2, <1>3, <1>4, <1>5, <1>6 DEF Next, Handler, Closing, Threads

LEMMA SessionTyped ==
  ASSUME Safe, Next
  PROVE  session' \in [Requests -> {"none", "running", "stopped"}]
<1> USE DEF Safe, TypeOK, connVars, mapVars, workVars, poolVars, Goes, Answers
<1>1. CASE \/ \E c \in Conns, f \in Fds : Accept(c, f)
           \/ \E c \in Conns, kind \in Kinds : Receive(c, kind)
           \/ \E r \in Requests : Dispatch(r) \/ Reply(r)
  BY <1>1 DEF Accept, Receive, Dispatch, Reply, Pool!Start, Pool!Finish, Pool!Submit, Pool!Refuse
<1>2. ASSUME NEW r \in Requests, StreamStart(r) PROVE session' \in [Requests -> {"none", "running", "stopped"}]
  BY <1>2, AtWork DEF StreamStart, OpenStream, StoreStream, DropStream, StoreUrl
<1>3. ASSUME NEW r \in Requests, StreamStop(r) \/ FinalizeCall(r) PROVE session' \in [Requests -> {"none", "running", "stopped"}]
  BY <1>3, AtWork DEF StreamStop, TakeStream, EraseUrl, FinalizeCall
<1>4. ASSUME NEW r \in Requests, RecordStart(r) PROVE session' \in [Requests -> {"none", "running", "stopped"}]
  BY <1>4, AtWork DEF RecordStart, LookupUrl, CheckRecorder, LaunchRecorder, StoreRecorder, DropRecorder, StoreLabel
<1>5. ASSUME NEW t \in Threads, Finalizing(t) PROVE session' \in [Requests -> {"none", "running", "stopped"}]
  BY <1>5 DEF Finalizing, StopStream, TakeRecorder, StopRecorder, AddRecords, AfterFinalize
<1>6. CASE \E c \in Conns : Close(c)
  BY <1>6 DEF Close
<1>7. CASE CloseShut \/ LeaveRun
  BY <1>7 DEF CloseShut, LeaveRun, Pool!Shut
<1>8. CASE Destroy
  BY <1>8 DEF Destroy
<1> QED
  BY <1>1, <1>2, <1>3, <1>4, <1>5, <1>6, <1>7, <1>8 DEF Next, Handler, Closing, Threads

LEMMA RecorderTyped ==
  ASSUME Safe, Next
  PROVE  recorder' \in [Requests -> {"none", "recording", "stopped"}]
<1> USE DEF Safe, TypeOK, connVars, mapVars, workVars, poolVars, Goes, Answers
<1>1. CASE \/ \E c \in Conns, f \in Fds : Accept(c, f)
           \/ \E c \in Conns, kind \in Kinds : Receive(c, kind)
           \/ \E r \in Requests : Dispatch(r) \/ Reply(r)
  BY <1>1 DEF Accept, Receive, Dispatch, Reply, Pool!Start, Pool!Finish, Pool!Submit, Pool!Refuse
<1>2. ASSUME NEW r \in Requests, StreamStart(r) PROVE recorder' \in [Requests -> {"none", "recording", "stopped"}]
  BY <1>2, AtWork DEF StreamStart, OpenStream, StoreStream, DropStream, StoreUrl
<1>3. ASSUME NEW r \in Requests, StreamStop(r) \/ FinalizeCall(r) PROVE recorder' \in [Requests -> {"none", "recording", "stopped"}]
  BY <1>3, AtWork DEF StreamStop, TakeStream, EraseUrl, FinalizeCall
<1>4. ASSUME NEW r \in Requests, RecordStart(r) PROVE recorder' \in [Requests -> {"none", "recording", "stopped"}]
  BY <1>4, AtWork DEF RecordStart, LookupUrl, CheckRecorder, LaunchRecorder, StoreRecorder, DropRecorder, StoreLabel
<1>5. ASSUME NEW t \in Threads, Finalizing(t) PROVE recorder' \in [Requests -> {"none", "recording", "stopped"}]
  BY <1>5 DEF Finalizing, StopStream, TakeRecorder, StopRecorder, AddRecords, AfterFinalize
<1>6. CASE \E c \in Conns : Close(c)
  BY <1>6 DEF Close
<1>7. CASE CloseShut \/ LeaveRun
  BY <1>7 DEF CloseShut, LeaveRun, Pool!Shut
<1>8. CASE Destroy
  BY <1>8 DEF Destroy
<1> QED
  BY <1>1, <1>2, <1>3, <1>4, <1>5, <1>6, <1>7, <1>8 DEF Next, Handler, Closing, Threads

LEMMA RequestsTyped ==
  ASSUME Safe, Next
  PROVE  request' \in [Requests -> [conn : Conns \cup {None}, kind : AllKinds \cup {"none"}]]
<1> USE MediaControlAssumption DEF Safe, TypeOK, connVars, mapVars, workVars, poolVars, Goes, Answers
<1>1. CASE \E c \in Conns, f \in Fds : Accept(c, f)
  BY <1>1 DEF Accept
<1>2. CASE \E c \in Conns, kind \in Kinds : Receive(c, kind)
  BY <1>2 DEF Receive, Pool!Submit, Pool!Refuse
<1>3. ASSUME NEW r \in Requests, Dispatch(r) PROVE request' \in [Requests -> [conn : Conns \cup {None}, kind : AllKinds \cup {"none"}]]
  BY <1>3, AtWork DEF Dispatch, Pool!Start
<1>4. ASSUME NEW r \in Requests, Reply(r) PROVE request' \in [Requests -> [conn : Conns \cup {None}, kind : AllKinds \cup {"none"}]]
  BY <1>4 DEF Reply, Pool!Finish
<1>5. ASSUME NEW r \in Requests, StreamStart(r) PROVE request' \in [Requests -> [conn : Conns \cup {None}, kind : AllKinds \cup {"none"}]]
  BY <1>5, AtWork DEF StreamStart, OpenStream, StoreStream, DropStream, StoreUrl
<1>6. ASSUME NEW r \in Requests, StreamStop(r) \/ FinalizeCall(r) PROVE request' \in [Requests -> [conn : Conns \cup {None}, kind : AllKinds \cup {"none"}]]
  BY <1>6, AtWork DEF StreamStop, TakeStream, EraseUrl, FinalizeCall
<1>7. ASSUME NEW r \in Requests, RecordStart(r) PROVE request' \in [Requests -> [conn : Conns \cup {None}, kind : AllKinds \cup {"none"}]]
  BY <1>7, AtWork DEF RecordStart, LookupUrl, CheckRecorder, LaunchRecorder, StoreRecorder, DropRecorder, StoreLabel
<1>8. ASSUME NEW t \in Threads, Finalizing(t) PROVE request' \in [Requests -> [conn : Conns \cup {None}, kind : AllKinds \cup {"none"}]]
  BY <1>8 DEF Finalizing, StopStream, TakeRecorder, StopRecorder, AddRecords, AfterFinalize
<1>9. CASE (\E c \in Conns : Close(c)) \/ CloseShut \/ LeaveRun \/ Destroy
  BY <1>9 DEF Close, CloseShut, LeaveRun, Destroy, Pool!Shut
<1> QED
  BY <1>1, <1>2, <1>3, <1>4, <1>5, <1>6, <1>7, <1>8, <1>9 DEF Next, Handler, Closing, Threads

LEMMA AtTyped ==
  ASSUME Safe, Next
  PROVE  at' \in [Threads -> Steps]
<1>0. at \in [Threads -> Steps]
  BY DEF Safe, TypeOK
<1> USE <1>0 DEF connVars, mapVars, workVars, poolVars, Goes, Answers, Steps, Threads
<1>1. CASE \E c \in Conns, f \in Fds : Accept(c, f)
  BY <1>1 DEF Accept
<1>2. CASE \E c \in Conns, kind \in Kinds : Receive(c, kind)
  BY <1>2 DEF Receive, Pool!Submit, Pool!Refuse
<1>3. ASSUME NEW r \in Requests, Dispatch(r) PROVE at' \in [Threads -> Steps]
  BY <1>3 DEF Dispatch, Pool!Start
<1>4. ASSUME NEW r \in Requests, Reply(r) PROVE at' \in [Threads -> Steps]
  BY <1>4 DEF Reply, Pool!Finish
<1>5. ASSUME NEW r \in Requests, OpenStream(r) \/ StoreStream(r) PROVE at' \in [Threads -> Steps]
  BY <1>5 DEF OpenStream, StoreStream
<1>6. ASSUME NEW r \in Requests, DropStream(r) \/ StoreUrl(r) PROVE at' \in [Threads -> Steps]
  BY <1>6 DEF DropStream, StoreUrl
<1>7. ASSUME NEW r \in Requests, StreamStop(r) \/ FinalizeCall(r) PROVE at' \in [Threads -> Steps]
  BY <1>7 DEF StreamStop, TakeStream, EraseUrl, FinalizeCall
<1>8. ASSUME NEW r \in Requests, LookupUrl(r) \/ CheckRecorder(r) PROVE at' \in [Threads -> Steps]
  BY <1>8 DEF LookupUrl, CheckRecorder
<1>9. ASSUME NEW r \in Requests, LaunchRecorder(r) \/ StoreRecorder(r) PROVE at' \in [Threads -> Steps]
  BY <1>9 DEF LaunchRecorder, StoreRecorder
<1>10. ASSUME NEW r \in Requests, DropRecorder(r) \/ StoreLabel(r) PROVE at' \in [Threads -> Steps]
  BY <1>10 DEF DropRecorder, StoreLabel
<1>11. ASSUME NEW t \in Threads, StopStream(t) \/ StopRecorder(t) PROVE at' \in [Threads -> Steps]
  BY <1>11 DEF StopStream, StopRecorder
<1>12. ASSUME NEW t \in Threads, TakeRecorder(t) PROVE at' \in [Threads -> Steps]
  BY <1>12 DEF TakeRecorder, AfterFinalize
<1>13. ASSUME NEW t \in Threads, AddRecords(t) PROVE at' \in [Threads -> Steps]
  BY <1>13 DEF AddRecords, AfterFinalize
<1>14. CASE \E c \in Conns : Close(c)
  BY <1>14 DEF Close
<1>15. CASE CloseShut \/ LeaveRun
  BY <1>15 DEF CloseShut, LeaveRun, Pool!Shut
<1>16. CASE Destroy
  BY <1>16 DEF Destroy
<1> QED
  BY <1>1, <1>2, <1>3, <1>4, <1>5, <1>6, <1>7, <1>8, <1>9, <1>10, <1>11, <1>12, <1>13, <1>14, <1>15, <1>16 DEF Next, Handler, Closing, Threads,
     StreamStart, StreamStop, RecordStart, Finalizing

LEMMA CodeTyped ==
  ASSUME Safe, Next
  PROVE  code' \in [Requests -> Codes]
<1>0. code \in [Requests -> Codes]
  BY DEF Safe, TypeOK
<1> USE <1>0 DEF connVars, mapVars, workVars, poolVars, Goes, Answers, Codes
<1>1. CASE \E c \in Conns, f \in Fds : Accept(c, f)
  BY <1>1 DEF Accept
<1>2. CASE \E c \in Conns, kind \in Kinds : Receive(c, kind)
  BY <1>2 DEF Receive, Pool!Submit, Pool!Refuse
<1>3. ASSUME NEW r \in Requests, Dispatch(r) PROVE code' \in [Requests -> Codes]
  BY <1>3 DEF Dispatch, Pool!Start
<1>4. ASSUME NEW r \in Requests, Reply(r) PROVE code' \in [Requests -> Codes]
  BY <1>4 DEF Reply, Pool!Finish
<1>5. ASSUME NEW r \in Requests, OpenStream(r) \/ StoreStream(r) PROVE code' \in [Requests -> Codes]
  BY <1>5 DEF OpenStream, StoreStream
<1>6. ASSUME NEW r \in Requests, DropStream(r) \/ StoreUrl(r) PROVE code' \in [Requests -> Codes]
  BY <1>6 DEF DropStream, StoreUrl
<1>7. ASSUME NEW r \in Requests, StreamStop(r) \/ FinalizeCall(r) PROVE code' \in [Requests -> Codes]
  BY <1>7 DEF StreamStop, TakeStream, EraseUrl, FinalizeCall
<1>8. ASSUME NEW r \in Requests, LookupUrl(r) \/ CheckRecorder(r) PROVE code' \in [Requests -> Codes]
  BY <1>8 DEF LookupUrl, CheckRecorder
<1>9. ASSUME NEW r \in Requests, LaunchRecorder(r) \/ StoreRecorder(r) PROVE code' \in [Requests -> Codes]
  BY <1>9 DEF LaunchRecorder, StoreRecorder
<1>10. ASSUME NEW r \in Requests, DropRecorder(r) \/ StoreLabel(r) PROVE code' \in [Requests -> Codes]
  BY <1>10 DEF DropRecorder, StoreLabel
<1>11. ASSUME NEW t \in Threads, StopStream(t) \/ StopRecorder(t) PROVE code' \in [Requests -> Codes]
  BY <1>11 DEF StopStream, StopRecorder
<1>12. ASSUME NEW t \in Threads, TakeRecorder(t) PROVE code' \in [Requests -> Codes]
  BY <1>12 DEF TakeRecorder, AfterFinalize
<1>13. ASSUME NEW t \in Threads, AddRecords(t) PROVE code' \in [Requests -> Codes]
  BY <1>13 DEF AddRecords, AfterFinalize
<1>14. CASE \E c \in Conns : Close(c)
  BY <1>14 DEF Close
<1>15. CASE CloseShut \/ LeaveRun
  BY <1>15 DEF CloseShut, LeaveRun, Pool!Shut
<1>16. CASE Destroy
  BY <1>16 DEF Destroy
<1> QED
  BY <1>1, <1>2, <1>3, <1>4, <1>5, <1>6, <1>7, <1>8, <1>9, <1>10, <1>11, <1>12, <1>13, <1>14, <1>15, <1>16 DEF Next, Handler, Closing, Threads,
     StreamStart, StreamStop, RecordStart, Finalizing

LEMMA PoolTyped ==
  ASSUME Safe, Next
  PROVE  /\ pending' \in Seq(Requests)
         /\ running' \subseteq Requests
         /\ done' \subseteq Requests
         /\ refused' \subseteq Requests
         /\ shut' \in BOOLEAN
         /\ orderly' \in BOOLEAN
<1> USE DEF Safe, TypeOK, connVars, mapVars, workVars, poolVars, Goes, Answers
<1>1. CASE \E c \in Conns, f \in Fds : Accept(c, f)
  BY <1>1 DEF Accept
<1>2. ASSUME NEW c \in Conns, NEW kind \in Kinds, Receive(c, kind)
      PROVE pending' \in Seq(Requests) /\ running' \subseteq Requests /\ done' \subseteq Requests /\ refused' \subseteq Requests /\ shut' \in BOOLEAN /\ orderly' \in BOOLEAN
  <2>1. PICK r \in Requests :
          \/ /\ pending' = Append(pending, r)
             /\ UNCHANGED <<running, done, refused, shut>>
          \/ /\ refused' = refused \cup {r}
             /\ UNCHANGED <<pending, running, done, shut>>
    BY <1>2, Received
  <2>2. pending' \in Seq(Requests)
    <3>1. pending \in Seq(Requests) /\ Append(pending, r) \in Seq(Requests)
      OBVIOUS
    <3> QED
      BY <2>1, <3>1
  <2> QED
    BY <1>2, <2>1, <2>2 DEF Receive
<1>3. ASSUME NEW r \in Requests, Dispatch(r) PROVE pending' \in Seq(Requests) /\ running' \subseteq Requests /\ done' \subseteq Requests /\ refused' \subseteq Requests /\ shut' \in BOOLEAN /\ orderly' \in BOOLEAN
  <2>1. pending' \in Seq(Requests)
    <3>1. pending \in Seq(Requests) /\ pending # <<>> /\ pending' = Tail(pending)
      BY <1>3 DEF Dispatch, Pool!Start
    <3> QED
      BY <3>1
  <2>2. running' = running \cup {r} /\ done' = done /\ refused' = refused /\ shut' = shut /\ orderly' \in BOOLEAN
    BY <1>3 DEF Dispatch, Pool!Start
  <2> QED
    BY <2>1, <2>2
<1>4. ASSUME NEW r \in Requests, Reply(r) PROVE pending' \in Seq(Requests) /\ running' \subseteq Requests /\ done' \subseteq Requests /\ refused' \subseteq Requests /\ shut' \in BOOLEAN /\ orderly' \in BOOLEAN
  BY <1>4 DEF Reply, Pool!Finish
<1>5. ASSUME NEW r \in Requests, StreamStart(r) PROVE pending' \in Seq(Requests) /\ running' \subseteq Requests /\ done' \subseteq Requests /\ refused' \subseteq Requests /\ shut' \in BOOLEAN /\ orderly' \in BOOLEAN
  BY <1>5, AtWork DEF StreamStart, OpenStream, StoreStream, DropStream, StoreUrl
<1>6. ASSUME NEW r \in Requests, StreamStop(r) \/ FinalizeCall(r) PROVE pending' \in Seq(Requests) /\ running' \subseteq Requests /\ done' \subseteq Requests /\ refused' \subseteq Requests /\ shut' \in BOOLEAN /\ orderly' \in BOOLEAN
  BY <1>6, AtWork DEF StreamStop, TakeStream, EraseUrl, FinalizeCall
<1>7. ASSUME NEW r \in Requests, RecordStart(r) PROVE pending' \in Seq(Requests) /\ running' \subseteq Requests /\ done' \subseteq Requests /\ refused' \subseteq Requests /\ shut' \in BOOLEAN /\ orderly' \in BOOLEAN
  BY <1>7, AtWork DEF RecordStart, LookupUrl, CheckRecorder, LaunchRecorder, StoreRecorder, DropRecorder, StoreLabel
<1>8. ASSUME NEW t \in Threads, Finalizing(t) PROVE pending' \in Seq(Requests) /\ running' \subseteq Requests /\ done' \subseteq Requests /\ refused' \subseteq Requests /\ shut' \in BOOLEAN /\ orderly' \in BOOLEAN
  BY <1>8 DEF Finalizing, StopStream, TakeRecorder, StopRecorder, AddRecords, AfterFinalize
<1>9. CASE (\E c \in Conns : Close(c)) \/ CloseShut \/ LeaveRun \/ Destroy
  BY <1>9 DEF Close, CloseShut, LeaveRun, Destroy, Pool!Shut
<1> QED
  BY <1>1, <1>2, <1>3, <1>4, <1>5, <1>6, <1>7, <1>8, <1>9 DEF Next, Handler, Closing, Threads

LEMMA LocalTyped ==
  ASSUME Safe, Next
  PROVE  local' \in [Threads -> Locals]
<1>a. local \in [Threads -> Locals]
  BY DEF Safe, TypeOK, Locals
<1>b. \A r \in Requests : at[r] # "idle" => FdOf(r) \in Keys
  BY AtWork DEF Safe
<1>c. /\ streams \in [Keys -> Requests \cup {None}] /\ recorders \in [Keys -> Requests \cup {None}]
       /\ labels \in [Keys -> Requests \cup {None}] /\ streamUrls \in [Keys -> Urls]
       /\ connFd \in [Conns -> Keys]
  BY DEF Safe, TypeOK
<1>d. NoLocal \in Locals
  BY DEF NoLocal, Keys, Urls, Locals
<1> USE <1>a, <1>b, <1>c, <1>d DEF Locals, connVars, mapVars, workVars, poolVars
<1>1. CASE \E c \in Conns, f \in Fds : Accept(c, f)
  BY <1>1 DEF Accept
<1>2. CASE \E c \in Conns, kind \in Kinds : Receive(c, kind)
  BY <1>2 DEF Receive, Pool!Submit, Pool!Refuse
<1>3. ASSUME NEW r \in Requests, Dispatch(r) PROVE local' \in [Threads -> Locals]
  BY <1>3 DEF Dispatch, Pool!Start
<1>4. ASSUME NEW r \in Requests, Reply(r) PROVE local' \in [Threads -> Locals]
  BY <1>4 DEF Reply, Pool!Finish
<1>5. ASSUME NEW r \in Requests, OpenStream(r) \/ StoreStream(r) PROVE local' \in [Threads -> Locals]
  BY <1>5 DEF OpenStream, StoreStream
<1>6. ASSUME NEW r \in Requests, DropStream(r) \/ StoreUrl(r) PROVE local' \in [Threads -> Locals]
  BY <1>6 DEF DropStream, StoreUrl
<1>7. ASSUME NEW r \in Requests, StreamStop(r) \/ FinalizeCall(r) PROVE local' \in [Threads -> Locals]
  BY <1>7 DEF StreamStop, TakeStream, EraseUrl, FinalizeCall
<1>8. ASSUME NEW r \in Requests, LookupUrl(r) \/ CheckRecorder(r) PROVE local' \in [Threads -> Locals]
  BY <1>8 DEF LookupUrl, CheckRecorder
<1>9. ASSUME NEW r \in Requests, LaunchRecorder(r) \/ StoreRecorder(r) PROVE local' \in [Threads -> Locals]
  BY <1>9 DEF LaunchRecorder, StoreRecorder
<1>10. ASSUME NEW r \in Requests, DropRecorder(r) \/ StoreLabel(r) PROVE local' \in [Threads -> Locals]
  BY <1>10, SMTT(40) DEF DropRecorder, StoreLabel
<1>11. ASSUME NEW t \in Threads, StopStream(t) \/ StopRecorder(t) PROVE local' \in [Threads -> Locals]
  BY <1>11, SMTT(40) DEF StopStream, StopRecorder
<1>12. ASSUME NEW t \in Threads, TakeRecorder(t) PROVE local' \in [Threads -> Locals]
  BY <1>12 DEF TakeRecorder, AfterFinalize
<1>13. ASSUME NEW t \in Threads, AddRecords(t) PROVE local' \in [Threads -> Locals]
  BY <1>13 DEF AddRecords, AfterFinalize
<1>14. ASSUME NEW c \in Conns, Close(c) PROVE local' \in [Threads -> Locals]
  <2>1. Reactor \in Threads /\ connFd[c] \in Keys /\ streams[connFd[c]] \in Requests \cup {None}
    BY DEF Threads
  <2>2. local' = [local EXCEPT ![Reactor].key = connFd[c], ![Reactor].item = streams[connFd[c]]]
    BY <1>14 DEF Close
  <2> QED
    BY <2>1, <2>2
<1>15. CASE CloseShut \/ LeaveRun
  BY <1>15 DEF CloseShut, LeaveRun, Pool!Shut
<1>16. CASE Destroy
  BY <1>16 DEF Destroy
<1> QED
  BY <1>1, <1>2, <1>3, <1>4, <1>5, <1>6, <1>7, <1>8, <1>9, <1>10, <1>11, <1>12, <1>13, <1>14, <1>15, <1>16 DEF Next, Handler, Closing, Threads,
     StreamStart, StreamStop, RecordStart, Finalizing

LEMMA RowsTyped ==
  ASSUME Safe, Next
  PROVE  rows' \in [Requests -> Seq([label : Requests \cup {None}, stored : BOOLEAN])]
<1> USE DEF Safe, TypeOK, connVars, mapVars, workVars, poolVars, Goes, Answers
<1>1. CASE \/ \E c \in Conns, f \in Fds : Accept(c, f)
           \/ \E c \in Conns, kind \in Kinds : Receive(c, kind)
           \/ \E r \in Requests : Dispatch(r) \/ Reply(r)
  BY <1>1 DEF Accept, Receive, Dispatch, Reply, Pool!Start, Pool!Finish, Pool!Submit, Pool!Refuse
<1>2. ASSUME NEW r \in Requests, StreamStart(r) PROVE rows' \in [Requests -> Seq([label : Requests \cup {None}, stored : BOOLEAN])]
  BY <1>2, AtWork DEF StreamStart, OpenStream, StoreStream, DropStream, StoreUrl
<1>3. ASSUME NEW r \in Requests, StreamStop(r) \/ FinalizeCall(r) PROVE rows' \in [Requests -> Seq([label : Requests \cup {None}, stored : BOOLEAN])]
  BY <1>3, AtWork DEF StreamStop, TakeStream, EraseUrl, FinalizeCall
<1>4. ASSUME NEW r \in Requests, RecordStart(r) PROVE rows' \in [Requests -> Seq([label : Requests \cup {None}, stored : BOOLEAN])]
  BY <1>4, AtWork DEF RecordStart, LookupUrl, CheckRecorder, LaunchRecorder, StoreRecorder, DropRecorder, StoreLabel
<1>5. ASSUME NEW t \in Threads, Finalizing(t) PROVE rows' \in [Requests -> Seq([label : Requests \cup {None}, stored : BOOLEAN])]
  <2>1. CASE AddRecords(t)
    <3>1. local[t].item \in Requests /\ local[t].label \in Requests \cup {None}
      BY <2>1 DEF AddRecords, RecorderInv
    <3>2. PICK stored \in BOOLEAN :
            rows' = [rows EXCEPT ![local[t].item] =
                       Append(@, [label |-> local[t].label, stored |-> stored])]
      BY <2>1 DEF AddRecords
    <3>3. [label |-> local[t].label, stored |-> stored] \in [label : Requests \cup {None}, stored : BOOLEAN]
      BY <3>1
    <3>4. rows[local[t].item] \in Seq([label : Requests \cup {None}, stored : BOOLEAN])
      BY <3>1
    <3> DEFINE row == [label |-> local[t].label, stored |-> stored]
    <3>5. Append(rows[local[t].item], row) \in Seq([label : Requests \cup {None}, stored : BOOLEAN])
      BY <3>3, <3>4
    <3>6. rows' = [rows EXCEPT ![local[t].item] = Append(rows[local[t].item], row)]
      BY <3>2
    <3> HIDE DEF row
    <3> QED
      BY <3>1, <3>5, <3>6
  <2> QED
    BY <1>5, <2>1 DEF Finalizing, StopStream, TakeRecorder, StopRecorder
<1>6. CASE (\E c \in Conns : Close(c)) \/ CloseShut \/ LeaveRun \/ Destroy
  BY <1>6 DEF Close, CloseShut, LeaveRun, Destroy, Pool!Shut
<1> QED
  BY <1>1, <1>2, <1>3, <1>4, <1>5, <1>6 DEF Next, Handler, Closing, Threads

LEMMA TypeKept == ASSUME Safe, Next PROVE TypeOK'
BY ConnTyped, UrlsTyped, StreamsTyped, RecordersTyped, LabelsTyped, MutexTyped, SessionTyped,
   RecorderTyped, RequestsTyped, AtTyped, CodeTyped, PoolTyped, LocalTyped, RowsTyped
   DEF TypeOK, Locals

LEMMA WasWaiting ==
  ASSUME Safe, NEW r \in Requests, Dispatch(r)
  PROVE  /\ r \in Waiting /\ r \notin running \cup done /\ at[r] = "idle"
         /\ Waiting = Waiting' \cup {r} /\ r \notin Waiting'
         /\ \A i, j \in DOMAIN pending' : pending'[i] = pending'[j] => i = j
         /\ running' = running \cup {r} /\ done' = done
<1>1. pending \in Seq(Requests) /\ PoolInv
  BY DEF Safe, TypeOK
<1>2. /\ pending # <<>> /\ r = Head(pending) /\ pending' = Tail(pending)
      /\ running' = running \cup {r} /\ done' = done
  BY DEF Dispatch, Pool!Start
<1>3. /\ Waiting = Waiting' \cup {r} /\ r \notin Waiting'
      /\ \A i, j \in DOMAIN pending' : pending'[i] = pending'[j] => i = j
  BY <1>1, <1>2, Started
<1> QED
  BY <1>1, <1>2, <1>3 DEF PoolInv

LEMMA PlaceKept == ASSUME Safe, Next PROVE PlaceInv'
<1>a. /\ PlaceInv /\ at \in [Threads -> Steps] /\ streamsMutex \in Requests \cup {None}
      /\ Reactor \notin Requests /\ Reactor \in Threads /\ Requests \subseteq Threads
      /\ None \notin Requests
  BY MediaControlAssumption DEF Safe, TypeOK, Threads
<1> USE <1>a DEF PlaceInv, ReactorSteps, LockSteps, Goes, Answers, Locks, Unlocks, poolVars
<1>1. CASE \E c \in Conns, f \in Fds : Accept(c, f)
  BY <1>1 DEF Accept
<1>2. CASE \E c \in Conns, kind \in Kinds : Receive(c, kind)
  BY <1>2 DEF Receive, Pool!Submit, Pool!Refuse
<1>3. ASSUME NEW r \in Requests, Dispatch(r) PROVE PlaceInv'
  BY <1>3, WasWaiting DEF Dispatch, Pool!Start
<1>4. ASSUME NEW r \in Requests, Reply(r) PROVE PlaceInv'
  BY <1>4 DEF Reply, Pool!Finish
<1>5. ASSUME NEW r \in Requests, OpenStream(r) \/ StoreStream(r) PROVE PlaceInv'
  BY <1>5 DEF OpenStream, StoreStream
<1>6. ASSUME NEW r \in Requests, DropStream(r) \/ StoreUrl(r) PROVE PlaceInv'
  BY <1>6 DEF DropStream, StoreUrl
<1>7. ASSUME NEW r \in Requests, StreamStop(r) \/ FinalizeCall(r) PROVE PlaceInv'
  BY <1>7 DEF StreamStop, TakeStream, EraseUrl, FinalizeCall
<1>8. ASSUME NEW r \in Requests, LookupUrl(r) \/ CheckRecorder(r) PROVE PlaceInv'
  BY <1>8 DEF LookupUrl, CheckRecorder
<1>9. ASSUME NEW r \in Requests, LaunchRecorder(r) \/ StoreRecorder(r) PROVE PlaceInv'
  BY <1>9 DEF LaunchRecorder, StoreRecorder
<1>10. ASSUME NEW r \in Requests, DropRecorder(r) \/ StoreLabel(r) PROVE PlaceInv'
  BY <1>10 DEF DropRecorder, StoreLabel
<1>11. ASSUME NEW t \in Threads, StopStream(t) \/ StopRecorder(t) PROVE PlaceInv'
  BY <1>11 DEF StopStream, StopRecorder
<1>12. ASSUME NEW t \in Threads, TakeRecorder(t) PROVE PlaceInv'
  BY <1>12 DEF TakeRecorder, AfterFinalize
<1>13. ASSUME NEW t \in Threads, AddRecords(t) PROVE PlaceInv'
  BY <1>13 DEF AddRecords, AfterFinalize
<1>14. CASE \E c \in Conns : Close(c)
  BY <1>14 DEF Close
<1>15. CASE CloseShut \/ LeaveRun
  BY <1>15 DEF CloseShut, LeaveRun, Pool!Shut
<1>16. CASE Destroy
  BY <1>16 DEF Destroy
<1> QED
  BY <1>1, <1>2, <1>3, <1>4, <1>5, <1>6, <1>7, <1>8, <1>9, <1>10, <1>11, <1>12, <1>13, <1>14, <1>15, <1>16 DEF Next, Handler, Closing, Threads,
     StreamStart, StreamStop, RecordStart, Finalizing

LEMMA PoolKept == ASSUME Safe, Next PROVE PoolInv'
<1>a. /\ PoolInv /\ at \in [Threads -> Steps]
      /\ Reactor \notin Requests /\ Reactor \in Threads /\ Requests \subseteq Threads
  BY MediaControlAssumption DEF Safe, TypeOK, Threads
<1> USE <1>a DEF PoolInv, Goes, Answers, poolVars, Waiting, Pool!Waiting
<1>1. CASE \E c \in Conns, f \in Fds : Accept(c, f)
  BY <1>1 DEF Accept
<1>2. ASSUME NEW c \in Conns, NEW kind \in Kinds, Receive(c, kind) PROVE PoolInv'
  <2>1. PICK r \in Requests :
          /\ r \notin Waiting \cup running \cup done \cup refused
          /\ \/ pending' = Append(pending, r) /\ UNCHANGED <<running, done, refused, shut>>
             \/ refused' = refused \cup {r} /\ UNCHANGED <<pending, running, done, shut>>
    BY <1>2, Received
  <2>2. at' = at
    BY <1>2 DEF Receive
  <2>3. CASE pending' = Append(pending, r) /\ UNCHANGED <<running, done, refused, shut>>
    <3>1. pending \in Seq(Requests)
      BY DEF Safe, TypeOK
    <3>2. /\ Waiting' = Waiting \cup {r}
          /\ \A i, j \in DOMAIN pending' : pending'[i] = pending'[j] => i = j
      BY <2>1, <2>3, <3>1, Appended
    <3> HIDE DEF Waiting
    <3> QED
      BY <2>1, <2>2, <2>3, <3>2
  <2> QED
    BY <2>1, <2>2, <2>3
<1>3. ASSUME NEW r \in Requests, Dispatch(r) PROVE PoolInv'
  <2>1. \E s : s # "idle" /\ at' = [at EXCEPT ![r] = s]
    BY <1>3 DEF Dispatch
  <2> HIDE DEF Waiting
  <2> QED
    BY <1>3, <2>1, WasWaiting
<1>4. ASSUME NEW r \in Requests, Reply(r) PROVE PoolInv'
  BY <1>4 DEF Reply, Pool!Finish
<1>5. ASSUME NEW r \in Requests, OpenStream(r) \/ StoreStream(r) PROVE PoolInv'
  BY <1>5 DEF OpenStream, StoreStream
<1>6. ASSUME NEW r \in Requests, DropStream(r) \/ StoreUrl(r) PROVE PoolInv'
  BY <1>6 DEF DropStream, StoreUrl
<1>7. ASSUME NEW r \in Requests, StreamStop(r) \/ FinalizeCall(r) PROVE PoolInv'
  BY <1>7 DEF StreamStop, TakeStream, EraseUrl, FinalizeCall
<1>8. ASSUME NEW r \in Requests, LookupUrl(r) \/ CheckRecorder(r) PROVE PoolInv'
  BY <1>8 DEF LookupUrl, CheckRecorder
<1>9. ASSUME NEW r \in Requests, LaunchRecorder(r) \/ StoreRecorder(r) PROVE PoolInv'
  BY <1>9 DEF LaunchRecorder, StoreRecorder
<1>10. ASSUME NEW r \in Requests, DropRecorder(r) \/ StoreLabel(r) PROVE PoolInv'
  BY <1>10 DEF DropRecorder, StoreLabel
<1>11. ASSUME NEW t \in Threads, StopStream(t) \/ StopRecorder(t) PROVE PoolInv'
  BY <1>11 DEF StopStream, StopRecorder
<1>12. ASSUME NEW t \in Threads, TakeRecorder(t) PROVE PoolInv'
  BY <1>12 DEF TakeRecorder, AfterFinalize
<1>13. ASSUME NEW t \in Threads, AddRecords(t) PROVE PoolInv'
  BY <1>13 DEF AddRecords, AfterFinalize
<1>14. CASE \E c \in Conns : Close(c)
  BY <1>14 DEF Close
<1>15. CASE CloseShut \/ LeaveRun
  BY <1>15 DEF CloseShut, LeaveRun, Pool!Shut
<1>16. CASE Destroy
  BY <1>16 DEF Destroy
<1> QED
  BY <1>1, <1>2, <1>3, <1>4, <1>5, <1>6, <1>7, <1>8, <1>9, <1>10, <1>11, <1>12, <1>13, <1>14, <1>15, <1>16 DEF Next, Handler, Closing, Threads,
     StreamStart, StreamStop, RecordStart, Finalizing

LEMMA AtHome ==
  ASSUME Next
  PROVE  \/ \E c \in Conns, f \in Fds : Accept(c, f)
         \/ \E c \in Conns, kind \in Kinds : Receive(c, kind)
         \/ \E r \in Requests : Dispatch(r) \/ Reply(r)
         \/ CloseShut \/ LeaveRun \/ Destroy
         \/ UNCHANGED <<connVars, request, poolVars>>
<1> DEFINE Same == UNCHANGED <<connVars, request, poolVars>>
<1>1. ASSUME NEW r \in Requests, StreamStart(r) PROVE Same
  BY <1>1 DEF StreamStart, OpenStream, StoreStream, DropStream, StoreUrl
<1>2. ASSUME NEW r \in Requests, StreamStop(r) \/ FinalizeCall(r) PROVE Same
  BY <1>2 DEF StreamStop, TakeStream, EraseUrl, FinalizeCall
<1>3. ASSUME NEW r \in Requests, RecordStart(r) PROVE Same
  BY <1>3 DEF RecordStart, LookupUrl, CheckRecorder, LaunchRecorder, StoreRecorder, DropRecorder, StoreLabel
<1>4. ASSUME NEW t \in Threads, Finalizing(t) PROVE Same
  BY <1>4 DEF Finalizing, StopStream, TakeRecorder, StopRecorder, AddRecords
<1>5. ASSUME NEW c \in Conns, Close(c) PROVE Same
  BY <1>5 DEF Close
<1> HIDE DEF Same
<1>6. CASE ~Same
  BY <1>1, <1>2, <1>3, <1>4, <1>5, <1>6 DEF Next, Handler, Closing, Threads
<1> QED
  BY <1>6 DEF Same

LEMMA ConnKept == ASSUME Safe, Next PROVE ConnInv'
<1>a. /\ ConnInv /\ born \in [Conns -> BOOLEAN] /\ connFd \in [Conns -> Keys]
      /\ NoFd \notin Fds /\ request \in [Requests -> [conn : Conns \cup {None}, kind : AllKinds \cup {"none"}]]
      /\ Waiting \subseteq Requests /\ running \subseteq Requests /\ done \subseteq Requests
      /\ PoolInv /\ pending \in Seq(Requests)
  BY MediaControlAssumption DEF Safe, TypeOK, Waiting, Pool!Waiting
<1> USE <1>a DEF ConnInv, InPool, connVars, poolVars
<1>1. ASSUME NEW c \in Conns, NEW f \in Fds, Accept(c, f) PROVE ConnInv'
  <2>1. Waiting' = Waiting
    BY <1>1 DEF Accept, Waiting, Pool!Waiting
  <2> QED
    BY <1>1, <2>1 DEF Accept
<1>2. ASSUME NEW c \in Conns, NEW kind \in Kinds, Receive(c, kind) PROVE ConnInv'
  <2>1. PICK r \in Requests :
          /\ r \notin Waiting \cup running \cup done \cup refused
          /\ request' = [request EXCEPT ![r] = [conn |-> c, kind |-> kind]]
          /\ \/ pending' = Append(pending, r) /\ UNCHANGED <<running, done, refused, shut>>
             \/ refused' = refused \cup {r} /\ UNCHANGED <<pending, running, done, shut>>
    BY <1>2, Received
  <2>2. Waiting' = Waiting \cup {r} \/ Waiting' = Waiting
    <3>1. CASE pending' = Append(pending, r)
      BY <3>1, Appended
    <3>2. CASE pending' = pending
      BY <3>2 DEF Waiting, Pool!Waiting
    <3> QED
      BY <2>1, <3>1, <3>2
  <2>3. connFd' = connFd /\ born' = born /\ born[c]
    BY <1>2 DEF Receive
  <2>4. request'[r].conn = c /\ \A q \in Requests : q # r => request'[q] = request[q]
    BY <2>1
  <2>5. \A q \in (InPool \cup done)' : q = r \/ q \in InPool \cup done
    BY <2>1, <2>2
  <2>6. ASSUME NEW q \in (InPool \cup done)' PROVE request'[q].conn \in Conns /\ born'[request'[q].conn]
    <3>1. CASE q = r
      BY <2>3, <2>4, <3>1
    <3>2. CASE q # r
      BY <2>1, <2>3, <2>4, <2>5, <3>2
    <3> QED
      BY <3>1, <3>2
  <2> QED
    BY <2>3, <2>6
<1>3. ASSUME NEW r \in Requests, Dispatch(r) PROVE ConnInv'
  <2>1. UNCHANGED <<connFd, born, request>>
    BY <1>3 DEF Dispatch
  <2> QED
    BY <1>3, <2>1, WasWaiting
<1>4. ASSUME NEW r \in Requests, Reply(r) PROVE ConnInv'
  <2>1. Waiting' = Waiting
    BY <1>4 DEF Reply, Pool!Finish, Waiting, Pool!Waiting
  <2> QED
    BY <1>4, <2>1 DEF Reply, Pool!Finish
<1>5. CASE CloseShut \/ LeaveRun \/ Destroy
  <2>1. Waiting' = Waiting
    BY <1>5 DEF CloseShut, LeaveRun, Destroy, Pool!Shut, Waiting, Pool!Waiting
  <2>2. running' = running /\ done' = done /\ request' = request /\ born' = born
    BY <1>5 DEF CloseShut, LeaveRun, Destroy, Pool!Shut
  <2>3. \A c \in Conns : connFd'[c] = connFd[c] \/ connFd'[c] = NoFd
    BY <1>5 DEF CloseShut, LeaveRun, Destroy
  <2> QED
    BY <2>1, <2>2, <2>3
<1>6. CASE UNCHANGED <<connVars, request, poolVars>>
  BY <1>6 DEF Waiting, Pool!Waiting
<1> QED
  BY <1>1, <1>2, <1>3, <1>4, <1>5, <1>6, AtHome

(* A step that leaves the maps, the recorders and who holds them alone.     *)
HoldSteps == {"storeRecorder", "dropRecorder", "stopRecorder", "addRecords"}
Fresh(r) == r \notin running \cup done \/ at[r] \in {"lookup", "check", "launch"}

HandsStill ==
  /\ UNCHANGED <<recorders, recorder, rows>>
  /\ \A t \in Threads : \/ at'[t] = at[t] /\ local'[t].item = local[t].item
                        \/ at[t] \notin HoldSteps /\ at'[t] \notin HoldSteps
  /\ \A r \in Requests : Fresh(r)' => Fresh(r)

LEMMA StillKept ==
  ASSUME Safe, HandsStill
  PROVE  RecorderInv' /\ OneOwner' /\ FiledInv'
<1>1. \A t \in Threads, r \in Requests : Held(t, r)' <=> Held(t, r)
  BY DEF HandsStill, HoldSteps, Held
<1>2. \A t \in Threads, r \in Requests : Held(t, r) => at'[t] = at[t]
  BY DEF HandsStill, HoldSteps, Held
<1>3. RecorderInv'
  <2>1. RecorderInv
    BY DEF Safe
  <2>2. \A r \in Requests : Fresh(r)' => recorder'[r] = "none"
    BY <2>1 DEF RecorderInv, HandsStill, Fresh
  <2>3. \A t \in Threads :
          at'[t] \in {"stopRecorder", "addRecords", "dropRecorder"} => local'[t].item \in Requests
    BY <2>1 DEF RecorderInv, HandsStill, HoldSteps
  <2>4. \A k \in Keys, r \in Requests : recorders'[k] = r => recorder'[r] = "recording"
    BY <2>1 DEF RecorderInv, HandsStill
  <2>5. \A t \in Threads, r \in Requests :
          Held(t, r)' => recorder'[r] = IF at'[t] = "addRecords" THEN "stopped" ELSE "recording"
    BY <1>1, <1>2, <2>1 DEF RecorderInv, HandsStill
  <2>6. \A r \in Requests : recorder'[r] = "recording" =>
          (\E k \in Keys : recorders'[k] = r) \/ (\E t \in Threads : Held(t, r)')
    BY <1>1, <2>1 DEF RecorderInv, HandsStill
  <2> QED
    BY <2>2, <2>3, <2>4, <2>5, <2>6 DEF RecorderInv, Fresh
<1>4. OneOwner'
  BY <1>1 DEF Safe, OneOwner, HandsStill
<1>5. FiledInv'
  BY <1>1 DEF Safe, FiledInv, HandsStill
<1> QED
  BY <1>3, <1>4, <1>5

LEMMA HandsMove ==
  ASSUME Safe, Next
  PROVE  \/ HandsStill
         \/ \E r \in Requests : \/ recorder[r] = "none" /\ LaunchRecorder(r)
                                \/ StoreRecorder(r) \/ DropRecorder(r)
         \/ \E t \in Threads : \/ recorders[local[t].key] # None /\ TakeRecorder(t)
                               \/ StopRecorder(t) \/ AddRecords(t)
         \/ Destroy
<1>a. /\ at \in [Threads -> Steps] /\ local \in [Threads -> Locals] /\ recorders \in [Keys -> Requests \cup {None}]
      /\ Reactor \notin Requests /\ Reactor \in Threads /\ Requests \subseteq Threads
      /\ None \notin Requests
      /\ \A r \in Requests : at[r] # "idle" => r \in running
      /\ \A r \in Requests : at[r] \notin {"shut", "drain", "ended"}
      /\ \A r \in Requests : at[r] # "idle" => FdOf(r) \in Keys
  BY MediaControlAssumption, AtWork DEF Safe, TypeOK, Threads, Locals, PoolInv, PlaceInv
<1> USE <1>a DEF HandsStill, HoldSteps, Fresh, Goes, Answers, Locals, poolVars, mapVars, workVars
<1>1. CASE \E c \in Conns, f \in Fds : Accept(c, f)
  BY <1>1 DEF Accept
<1>2. CASE \E c \in Conns, kind \in Kinds : Receive(c, kind)
  BY <1>2 DEF Receive, Pool!Submit, Pool!Refuse
<1>3. ASSUME NEW r \in Requests, Dispatch(r) PROVE HandsStill
  BY <1>3, WasWaiting DEF Dispatch, Pool!Start
<1>4. ASSUME NEW r \in Requests, Reply(r) PROVE HandsStill
  BY <1>4 DEF Reply, Pool!Finish
<1>5. ASSUME NEW r \in Requests, OpenStream(r) \/ StoreStream(r) PROVE HandsStill
  BY <1>5 DEF OpenStream, StoreStream
<1>6. ASSUME NEW r \in Requests, DropStream(r) \/ StoreUrl(r) PROVE HandsStill
  BY <1>6 DEF DropStream, StoreUrl
<1>7. ASSUME NEW r \in Requests, StreamStop(r) \/ FinalizeCall(r) PROVE HandsStill
  BY <1>7 DEF StreamStop, TakeStream, EraseUrl, FinalizeCall
<1>8. ASSUME NEW r \in Requests, LookupUrl(r) \/ CheckRecorder(r) PROVE HandsStill
  BY <1>8 DEF LookupUrl, CheckRecorder
<1>9. ASSUME NEW r \in Requests, StoreLabel(r) PROVE HandsStill
  BY <1>9 DEF StoreLabel
<1>10. ASSUME NEW t \in Threads, StopStream(t) PROVE HandsStill
  BY <1>10 DEF StopStream
<1>11. ASSUME NEW t \in Threads, TakeRecorder(t), recorders[local[t].key] = None PROVE HandsStill
  BY <1>11 DEF TakeRecorder, AfterFinalize
<1>12. CASE \E c \in Conns : Close(c)
  BY <1>12 DEF Close
<1>13. CASE CloseShut \/ LeaveRun
  BY <1>13 DEF CloseShut, LeaveRun, Pool!Shut
<1>z. ASSUME NEW r \in Requests, LaunchRecorder(r) PROVE recorder[r] = "none"
  BY <1>z DEF LaunchRecorder, Safe, RecorderInv
<1> QED
  BY <1>z, <1>1, <1>2, <1>3, <1>4, <1>5, <1>6, <1>7, <1>8, <1>9, <1>10, <1>11, <1>12, <1>13 DEF Next, Handler, Closing, Threads,
     StreamStart, StreamStop, RecordStart, Finalizing

(* What the invariants say of a step that touches a recorder.              *)
LEMMA HandsTyped ==
  ASSUME Safe
  PROVE  /\ at \in [Threads -> Steps] /\ local \in [Threads -> Locals]
         /\ recorders \in [Keys -> Requests \cup {None}] /\ labels \in [Keys -> Requests \cup {None}]
         /\ recorder \in [Requests -> {"none", "recording", "stopped"}]
         /\ Reactor \notin Requests /\ Reactor \in Threads /\ Requests \subseteq Threads
         /\ None \notin Requests
         /\ \A r \in Requests : at[r] # "idle" => r \in running /\ FdOf(r) \in Keys
         /\ RecorderInv /\ OneOwner /\ FiledInv
BY MediaControlAssumption, AtWork DEF Safe, TypeOK, Threads, Locals, PoolInv

LEMMA TakeKept ==
  ASSUME Safe, NEW t \in Threads, TakeRecorder(t), recorders[local[t].key] # None
  PROVE  RecorderInv' /\ OneOwner' /\ FiledInv'
<1>a. PICK k \in Keys, r \in Requests : k = local[t].key /\ r = recorders[k]
  BY HandsTyped DEF Locals
<1>b. recorder[r] = "recording" /\ \A u \in Threads : ~Held(u, r)
  BY <1>a, HandsTyped DEF RecorderInv, OneOwner
<1>c. at[t] = "takeRecorder" /\ \A q \in Requests : ~Held(t, q)
  BY DEF TakeRecorder, Held
<1>d. /\ at' = [at EXCEPT ![t] = "stopRecorder"] /\ recorder' = recorder /\ rows' = rows
      /\ recorders' = [recorders EXCEPT ![k] = None]
      /\ local' = [local EXCEPT ![t].item = r, ![t].label = labels[k]]
      /\ running' = running /\ done' = done
  BY <1>a DEF TakeRecorder, Goes, workVars, poolVars
<1>e. /\ at'[t] = "stopRecorder" /\ local'[t].item = r
      /\ \A u \in Threads : u # t => at'[u] = at[u] /\ local'[u].item = local[u].item
  BY <1>d, HandsTyped DEF Locals
<1>1. \A u \in Threads, q \in Requests : Held(u, q)' <=> Held(u, q) \/ (u = t /\ q = r)
  BY <1>c, <1>e DEF Held
<1>2. \A j \in Keys, q \in Requests : recorders'[j] = q <=> recorders[j] = q /\ j # k
  BY <1>a, <1>d, HandsTyped
<1>3. RecorderInv'
  <2>1. \A q \in Requests : q \notin running' \cup done' \/ at'[q] \in {"lookup", "check", "launch"}
                            => recorder'[q] = "none"
    BY <1>d, <1>e, HandsTyped DEF RecorderInv
  <2>2. \A u \in Threads :
          at'[u] \in {"stopRecorder", "addRecords", "dropRecorder"} => local'[u].item \in Requests
    BY <1>a, <1>e, HandsTyped DEF RecorderInv
  <2>3. \A j \in Keys, q \in Requests : recorders'[j] = q => recorder'[q] = "recording"
    BY <1>2, <1>d, HandsTyped DEF RecorderInv
  <2>4. \A u \in Threads, q \in Requests :
          Held(u, q)' => recorder'[q] = IF at'[u] = "addRecords" THEN "stopped" ELSE "recording"
    BY <1>1, <1>b, <1>c, <1>d, <1>e, HandsTyped DEF RecorderInv
  <2>5. \A q \in Requests : recorder'[q] = "recording" =>
          (\E j \in Keys : recorders'[j] = q) \/ (\E u \in Threads : Held(u, q)')
    <3>1. ASSUME NEW q \in Requests, recorder[q] = "recording"
          PROVE  (\E j \in Keys : recorders'[j] = q) \/ (\E u \in Threads : Held(u, q)')
      <4>1. CASE q = r
        BY <1>1, <4>1
      <4>2. CASE q # r
        <5>1. (\E j \in Keys : recorders[j] = q) \/ (\E u \in Threads : Held(u, q))
          BY <3>1, HandsTyped DEF RecorderInv
        <5>2. \A j \in Keys : recorders[j] = q => recorders'[j] = q
          BY <1>2, <1>a, <4>2
        <5> QED
          BY <1>1, <5>1, <5>2
      <4> QED
        BY <4>1, <4>2
    <3> QED
      BY <1>d, <3>1
  <2> QED
    BY <2>1, <2>2, <2>3, <2>4, <2>5 DEF RecorderInv
<1>4. OneOwner'
  <2>1. ASSUME NEW q \in Requests
        PROVE  /\ \A i, j \in Keys : recorders'[i] = q /\ recorders'[j] = q => i = j
               /\ \A i \in Keys, u \in Threads : ~(recorders'[i] = q /\ Held(u, q)')
    <3>1. \A i \in Keys : recorders'[i] = q => recorders[i] = q /\ i # k
      BY <1>2
    <3>2. q = r => \A i \in Keys : recorders[i] = q => i = k
      BY <1>a, HandsTyped DEF OneOwner
    <3> QED
      BY <1>1, <3>1, <3>2, HandsTyped DEF OneOwner
  <2>2. ASSUME NEW q \in Requests
        PROVE  \A u, v \in Threads : Held(u, q)' /\ Held(v, q)' => u = v
    BY <1>1, <1>b, <1>c, HandsTyped DEF OneOwner
  <2> QED
    BY <2>1, <2>2 DEF OneOwner
<1>5. FiledInv'
  BY <1>1, <1>b, <1>d, HandsTyped DEF FiledInv
<1> QED
  BY <1>3, <1>4, <1>5

LEMMA StopKept ==
  ASSUME Safe, NEW t \in Threads, StopRecorder(t)
  PROVE  RecorderInv' /\ OneOwner' /\ FiledInv'
<1>a. PICK r \in Requests : r = local[t].item /\ at[t] = "stopRecorder" /\ Held(t, r)
  BY HandsTyped DEF StopRecorder, RecorderInv, Held
<1>b. /\ recorder[r] = "recording" /\ \A u \in Threads : Held(u, r) => u = t
      /\ \A k \in Keys : recorders[k] # r
  BY <1>a, HandsTyped DEF RecorderInv, OneOwner
<1>d. /\ at' = [at EXCEPT ![t] = "addRecords"] /\ recorder' = [recorder EXCEPT ![r] = "stopped"]
      /\ UNCHANGED <<recorders, local, rows, running, done>>
  BY <1>a DEF StopRecorder, Goes, mapVars, poolVars
<1>e. at'[t] = "addRecords" /\ \A u \in Threads : u # t => at'[u] = at[u]
  BY <1>d, HandsTyped
<1>f. recorder'[r] = "stopped" /\ \A q \in Requests : q # r => recorder'[q] = recorder[q]
  BY <1>a, <1>d, HandsTyped
<1>g. r = local[t].item
  BY <1>a
<1>1. \A u \in Threads, q \in Requests : Held(u, q)' <=> Held(u, q)
  BY <1>a, <1>d, <1>e, <1>g DEF Held
<1>3. RecorderInv'
  <2>1. \A q \in Requests : q \notin running' \cup done' \/ at'[q] \in {"lookup", "check", "launch"}
                            => recorder'[q] = "none"
    BY <1>b, <1>d, <1>e, <1>f, HandsTyped DEF RecorderInv
  <2>2. \A u \in Threads :
          at'[u] \in {"stopRecorder", "addRecords", "dropRecorder"} => local'[u].item \in Requests
    BY <1>a, <1>d, <1>e, <1>g, HandsTyped DEF RecorderInv
  <2>3. \A j \in Keys, q \in Requests : recorders'[j] = q => recorder'[q] = "recording"
    BY <1>b, <1>d, <1>f, HandsTyped DEF RecorderInv
  <2>4. \A u \in Threads, q \in Requests :
          Held(u, q)' => recorder'[q] = IF at'[u] = "addRecords" THEN "stopped" ELSE "recording"
    <3>1. ASSUME NEW u \in Threads, NEW q \in Requests, Held(u, q)
          PROVE  recorder'[q] = IF at'[u] = "addRecords" THEN "stopped" ELSE "recording"
      <4>1. CASE q = r
        BY <3>1, <4>1, <1>b, <1>e, <1>f
      <4>2. CASE q # r
        BY <3>1, <4>2, <1>a, <1>e, <1>f, <1>g, HandsTyped DEF RecorderInv, Held
      <4> QED
        BY <4>1, <4>2
    <3> QED
      BY <1>1, <3>1
  <2>5. \A q \in Requests : recorder'[q] = "recording" =>
          (\E j \in Keys : recorders'[j] = q) \/ (\E u \in Threads : Held(u, q)')
    BY <1>1, <1>d, <1>f, HandsTyped DEF RecorderInv
  <2> QED
    BY <2>1, <2>2, <2>3, <2>4, <2>5 DEF RecorderInv
<1>4. OneOwner'
  BY <1>1, <1>d, HandsTyped DEF OneOwner
<1>5. FiledInv'
  BY <1>1, <1>d, <1>f, HandsTyped DEF FiledInv
<1> QED
  BY <1>3, <1>4, <1>5

LEMMA AddKept ==
  ASSUME Safe, NEW t \in Threads, AddRecords(t)
  PROVE  RecorderInv' /\ OneOwner' /\ FiledInv'
<1>a. PICK r \in Requests : r = local[t].item /\ at[t] = "addRecords" /\ Held(t, r)
  BY HandsTyped DEF AddRecords, RecorderInv, Held
<1>b. /\ recorder[r] = "stopped" /\ \A u \in Threads : Held(u, r) => u = t
      /\ \A k \in Keys : recorders[k] # r
  BY <1>a, HandsTyped DEF RecorderInv, OneOwner
<1>c. PICK row : rows' = [rows EXCEPT ![r] = Append(rows[r], row)]
  BY <1>a DEF AddRecords
<1>d. /\ UNCHANGED <<recorders, recorder, running, done>>
      /\ local' = [local EXCEPT ![t].item = None, ![t].label = None]
  BY DEF AddRecords, mapVars, poolVars, Goes, Answers, AfterFinalize
<1>e. at' = [at EXCEPT ![t] = "shut"] \/ at' = [at EXCEPT ![t] = "reply"]
  BY DEF AddRecords, Goes, Answers, AfterFinalize
<1>f. /\ at'[t] \in {"shut", "reply"}
      /\ \A u \in Threads : u # t => at'[u] = at[u] /\ local'[u].item = local[u].item
  BY <1>d, <1>e, HandsTyped DEF Locals
<1>g. r = local[t].item
  BY <1>a
<1>1. \A u \in Threads, q \in Requests : Held(u, q)' <=> Held(u, q) /\ u # t
  BY <1>a, <1>f DEF Held
<1>2. \A q \in Requests : q # r => (Held(t, q) <=> FALSE)
  BY <1>a, <1>g DEF Held
<1>3. RecorderInv'
  <2>1. \A q \in Requests : q \notin running' \cup done' \/ at'[q] \in {"lookup", "check", "launch"}
                            => recorder'[q] = "none"
    BY <1>d, <1>f, HandsTyped DEF RecorderInv
  <2>2. \A u \in Threads :
          at'[u] \in {"stopRecorder", "addRecords", "dropRecorder"} => local'[u].item \in Requests
    BY <1>f, HandsTyped DEF RecorderInv
  <2>3. \A j \in Keys, q \in Requests : recorders'[j] = q => recorder'[q] = "recording"
    BY <1>d, HandsTyped DEF RecorderInv
  <2>4. \A u \in Threads, q \in Requests :
          Held(u, q)' => recorder'[q] = IF at'[u] = "addRecords" THEN "stopped" ELSE "recording"
    BY <1>1, <1>d, <1>f, HandsTyped DEF RecorderInv
  <2>5. \A q \in Requests : recorder'[q] = "recording" =>
          (\E j \in Keys : recorders'[j] = q) \/ (\E u \in Threads : Held(u, q)')
    BY <1>1, <1>2, <1>b, <1>d, HandsTyped DEF RecorderInv
  <2> QED
    BY <2>1, <2>2, <2>3, <2>4, <2>5 DEF RecorderInv
<1>4. OneOwner'
  BY <1>1, <1>d, HandsTyped DEF OneOwner
<1>5. FiledInv'
  <2>1. rows[r] = <<>>
    BY <1>a, HandsTyped DEF FiledInv
  <2>2. Len(rows'[r]) = 1
    <3>1. rows'[r] = Append(rows[r], row)
      BY <1>a, <1>c DEF Safe, TypeOK
    <3> QED
      BY <2>1, <3>1
  <2>3. \A q \in Requests : q # r => rows'[q] = rows[q]
    BY <1>c DEF Safe, TypeOK
  <2>4. recorder'[r] = "stopped" /\ \A u \in Threads : ~Held(u, r)'
    BY <1>1, <1>a, <1>b, <1>d
  <2> QED
    <3>1. ASSUME NEW q \in Requests
          PROVE  /\ Len(rows'[q]) <= 1
                 /\ rows'[q] # <<>> => recorder'[q] = "stopped" /\ \A u \in Threads : ~Held(u, q)'
      <4>1. CASE q = r
        BY <4>1, <2>2, <2>4
      <4>2. CASE q # r
        BY <1>1, <1>d, <2>3, <4>2, HandsTyped DEF FiledInv
      <4> QED
        BY <4>1, <4>2
    <3> QED
      BY <3>1 DEF FiledInv
<1> QED
  BY <1>3, <1>4, <1>5

LEMMA LaunchKept ==
  ASSUME Safe, NEW r \in Requests, LaunchRecorder(r)
  PROVE  RecorderInv' /\ OneOwner' /\ FiledInv'
<1>a. at[r] = "launch" /\ recorder[r] = "none" /\ r \in running /\ r \in Threads
  BY HandsTyped DEF LaunchRecorder, RecorderInv
<1>b. /\ \A u \in Threads : ~Held(u, r)
      /\ \A k \in Keys : recorders[k] # r
      /\ \A q \in Requests : ~Held(r, q)
  BY <1>a, HandsTyped DEF RecorderInv, Held
<1>d. UNCHANGED <<recorders, rows, local, running, done>>
  BY DEF LaunchRecorder, mapVars, poolVars
<1>A. CASE recorder' = recorder /\ at' = [at EXCEPT ![r] = "reply"]
  <2>1. HandsStill
    BY <1>A, <1>a, <1>d, HandsTyped DEF HandsStill, HoldSteps, Fresh
  <2> QED
    BY <2>1, StillKept
<1>B. CASE recorder' = [recorder EXCEPT ![r] = "recording"] /\ at' = [at EXCEPT ![r] = "storeRecorder"]
  <2>e. at'[r] = "storeRecorder" /\ \A u \in Threads : u # r => at'[u] = at[u]
    BY <1>B, <1>a, HandsTyped
  <2>f. recorder'[r] = "recording" /\ \A q \in Requests : q # r => recorder'[q] = recorder[q]
    BY <1>B, HandsTyped
  <2>1. \A u \in Threads, q \in Requests : Held(u, q)' <=> Held(u, q) \/ (u = r /\ q = r)
    BY <1>a, <1>d, <2>e DEF Held
  <2>3. RecorderInv'
    <3>1. \A q \in Requests : q \notin running' \cup done' \/ at'[q] \in {"lookup", "check", "launch"}
                              => recorder'[q] = "none"
      BY <1>a, <1>d, <2>e, <2>f, HandsTyped DEF RecorderInv
    <3>2. \A u \in Threads :
            at'[u] \in {"stopRecorder", "addRecords", "dropRecorder"} => local'[u].item \in Requests
      BY <1>d, <2>e, HandsTyped DEF RecorderInv
    <3>3. \A j \in Keys, q \in Requests : recorders'[j] = q => recorder'[q] = "recording"
      BY <1>d, <2>f, HandsTyped DEF RecorderInv
    <3>4. \A u \in Threads, q \in Requests :
            Held(u, q)' => recorder'[q] = IF at'[u] = "addRecords" THEN "stopped" ELSE "recording"
      BY <2>1, <1>b, <2>e, <2>f, HandsTyped DEF RecorderInv
    <3>5. \A q \in Requests : recorder'[q] = "recording" =>
            (\E j \in Keys : recorders'[j] = q) \/ (\E u \in Threads : Held(u, q)')
      BY <2>1, <1>a, <1>d, <2>f, HandsTyped DEF RecorderInv
    <3> QED
      BY <3>1, <3>2, <3>3, <3>4, <3>5 DEF RecorderInv
  <2>4. OneOwner'
    <3>1. ASSUME NEW q \in Requests
          PROVE  \A i, j \in Keys : recorders'[i] = q /\ recorders'[j] = q => i = j
      BY <1>d, HandsTyped DEF OneOwner
    <3>2. ASSUME NEW q \in Requests
          PROVE  /\ \A u, v \in Threads : Held(u, q)' /\ Held(v, q)' => u = v
                 /\ \A i \in Keys, u \in Threads : ~(recorders'[i] = q /\ Held(u, q)')
      BY <2>1, <1>b, <1>d, HandsTyped DEF OneOwner
    <3> QED
      BY <3>1, <3>2 DEF OneOwner
  <2>5. FiledInv'
    BY <2>1, <1>a, <1>d, <2>f, HandsTyped DEF FiledInv
  <2> QED
    BY <2>3, <2>4, <2>5
<1> QED
  BY <1>A, <1>B DEF LaunchRecorder, Answers, Goes

LEMMA StoreKept ==
  ASSUME Safe, NEW r \in Requests, StoreRecorder(r)
  PROVE  RecorderInv' /\ OneOwner' /\ FiledInv'
<1>a. PICK f \in Keys : f = FdOf(r) /\ at[r] = "storeRecorder" /\ r \in Threads /\ Held(r, r)
  BY HandsTyped DEF StoreRecorder, Held
<1>b. /\ recorder[r] = "recording" /\ \A u \in Threads : Held(u, r) => u = r
      /\ \A k \in Keys : recorders[k] # r
  BY <1>a, HandsTyped DEF RecorderInv, OneOwner
<1>c. PICK old \in Requests \cup {None} : old = recorders[f]
  BY HandsTyped
<1>d. /\ UNCHANGED <<recorder, rows, running, done>>
      /\ recorders' = [recorders EXCEPT ![f] = r]
      /\ local' = [local EXCEPT ![r].item = old]
      /\ at' = [at EXCEPT ![r] = IF old # None THEN "dropRecorder" ELSE "storeLabel"]
  BY <1>a, <1>c DEF StoreRecorder, workVars, poolVars, Goes
<1>e. /\ at'[r] = (IF old # None THEN "dropRecorder" ELSE "storeLabel") /\ local'[r].item = old
      /\ \A u \in Threads : u # r => at'[u] = at[u] /\ local'[u].item = local[u].item
  BY <1>d, <1>a, HandsTyped DEF Locals
<1>f. old # None => /\ old \in Requests /\ old # r /\ recorder[old] = "recording"
                    /\ \A u \in Threads : ~Held(u, old)
                    /\ \A k \in Keys : recorders[k] = old => k = f
  BY <1>b, <1>c, HandsTyped DEF RecorderInv, OneOwner
<1>1. \A u \in Threads, q \in Requests :
        Held(u, q)' <=> (Held(u, q) /\ u # r) \/ (u = r /\ q = old)
  BY <1>a, <1>e, HandsTyped DEF Held
<1>2. \A j \in Keys, q \in Requests : recorders'[j] = q <=> IF j = f THEN q = r ELSE recorders[j] = q
  BY <1>a, <1>d, HandsTyped
<1>g. \A q \in Requests : Held(r, q) <=> q = r
  BY <1>a DEF Held
<1>3. RecorderInv'
  <2>1. \A q \in Requests : q \notin running' \cup done' \/ at'[q] \in {"lookup", "check", "launch"}
                            => recorder'[q] = "none"
    BY <1>d, <1>e, HandsTyped DEF RecorderInv
  <2>2. \A u \in Threads :
          at'[u] \in {"stopRecorder", "addRecords", "dropRecorder"} => local'[u].item \in Requests
    BY <1>e, <1>f, HandsTyped DEF RecorderInv
  <2>3. \A j \in Keys, q \in Requests : recorders'[j] = q => recorder'[q] = "recording"
    BY <1>2, <1>b, <1>d, HandsTyped DEF RecorderInv
  <2>4. \A u \in Threads, q \in Requests :
          Held(u, q)' => recorder'[q] = IF at'[u] = "addRecords" THEN "stopped" ELSE "recording"
    BY <1>1, <1>d, <1>e, <1>f, HandsTyped DEF RecorderInv
  <2>5. ASSUME NEW q \in Requests, recorder'[q] = "recording"
        PROVE  (\E j \in Keys : recorders'[j] = q) \/ (\E u \in Threads : Held(u, q)')
    <3>1. CASE q = r
      BY <1>2, <1>a, <3>1
    <3>2. CASE q = old
      BY <1>1, <1>a, <3>2
    <3>3. CASE q # r /\ q # old
      <4>1. (\E j \in Keys : recorders[j] = q) \/ (\E u \in Threads : Held(u, q))
        BY <2>5, <1>d, HandsTyped DEF RecorderInv
      <4>2. \A j \in Keys : recorders[j] = q => recorders'[j] = q
        BY <1>2, <1>c, <3>3
      <4>3. \A u \in Threads : Held(u, q) => Held(u, q)'
        BY <1>1, <1>g, <3>3
      <4> QED
        BY <4>1, <4>2, <4>3
    <3> QED
      BY <3>1, <3>2, <3>3
  <2> QED
    BY <2>1, <2>2, <2>3, <2>4, <2>5 DEF RecorderInv
<1>4. OneOwner'
  <2>1. ASSUME NEW q \in Requests
        PROVE  \A i, j \in Keys : recorders'[i] = q /\ recorders'[j] = q => i = j
    BY <1>2, <1>b, HandsTyped DEF OneOwner
  <2>2. ASSUME NEW q \in Requests
        PROVE  \A u, v \in Threads : Held(u, q)' /\ Held(v, q)' => u = v
    BY <1>1, <1>f, HandsTyped DEF OneOwner
  <2>3. ASSUME NEW q \in Requests, NEW i \in Keys, NEW u \in Threads, recorders'[i] = q, Held(u, q)'
        PROVE  FALSE
    <3>1. CASE i = f
      BY <1>1, <1>2, <1>b, <1>f, <2>3, <3>1, HandsTyped
    <3>2. CASE i # f
      BY <1>1, <1>2, <1>f, <2>3, <3>2, HandsTyped DEF OneOwner
    <3> QED
      BY <3>1, <3>2
  <2> QED
    BY <2>1, <2>2, <2>3 DEF OneOwner
<1>5. FiledInv'
  BY <1>1, <1>d, <1>f, HandsTyped DEF FiledInv
<1> QED
  BY <1>3, <1>4, <1>5

LEMMA DropKept ==
  ASSUME Safe, NEW r \in Requests, DropRecorder(r)
  PROVE  RecorderInv' /\ OneOwner' /\ FiledInv'
<1>a. PICK old \in Requests : old = local[r].item /\ at[r] = "dropRecorder" /\ r \in Threads /\ Held(r, old)
  BY HandsTyped DEF DropRecorder, RecorderInv, Held
<1>b. /\ recorder[old] = "recording" /\ \A u \in Threads : Held(u, old) => u = r
      /\ \A k \in Keys : recorders[k] # old
  BY <1>a, HandsTyped DEF RecorderInv, OneOwner
<1>d. /\ UNCHANGED <<recorders, rows, running, done>>
      /\ recorder' = [recorder EXCEPT ![old] = "stopped"]
      /\ local' = [local EXCEPT ![r].item = None]
      /\ at' = [at EXCEPT ![r] = "storeLabel"]
  BY <1>a DEF DropRecorder, mapVars, poolVars, Goes
<1>e. /\ at'[r] = "storeLabel"
      /\ \A u \in Threads : u # r => at'[u] = at[u] /\ local'[u].item = local[u].item
  BY <1>d, <1>a, HandsTyped DEF Locals
<1>f. recorder'[old] = "stopped" /\ \A q \in Requests : q # old => recorder'[q] = recorder[q]
  BY <1>d, HandsTyped
<1>1. \A u \in Threads, q \in Requests : Held(u, q)' <=> Held(u, q) /\ u # r
  BY <1>a, <1>e DEF Held
<1>g. \A q \in Requests : Held(r, q) <=> q = old
  BY <1>a DEF Held
<1>3. RecorderInv'
  <2>1. \A q \in Requests : q \notin running' \cup done' \/ at'[q] \in {"lookup", "check", "launch"}
                            => recorder'[q] = "none"
    BY <1>b, <1>d, <1>e, <1>f, HandsTyped DEF RecorderInv
  <2>2. \A u \in Threads :
          at'[u] \in {"stopRecorder", "addRecords", "dropRecorder"} => local'[u].item \in Requests
    BY <1>e, HandsTyped DEF RecorderInv
  <2>3. \A j \in Keys, q \in Requests : recorders'[j] = q => recorder'[q] = "recording"
    BY <1>b, <1>d, <1>f, HandsTyped DEF RecorderInv
  <2>4. \A u \in Threads, q \in Requests :
          Held(u, q)' => recorder'[q] = IF at'[u] = "addRecords" THEN "stopped" ELSE "recording"
    BY <1>1, <1>b, <1>e, <1>f, HandsTyped DEF RecorderInv
  <2>5. \A q \in Requests : recorder'[q] = "recording" =>
          (\E j \in Keys : recorders'[j] = q) \/ (\E u \in Threads : Held(u, q)')
    BY <1>1, <1>g, <1>d, <1>f, HandsTyped DEF RecorderInv
  <2> QED
    BY <2>1, <2>2, <2>3, <2>4, <2>5 DEF RecorderInv
<1>4. OneOwner'
  BY <1>1, <1>d, HandsTyped DEF OneOwner
<1>5. FiledInv'
  <2>1. rows[old] = <<>>
    BY <1>a, HandsTyped DEF FiledInv
  <2> QED
    BY <1>1, <1>d, <1>f, <2>1, HandsTyped DEF FiledInv
<1> QED
  BY <1>3, <1>4, <1>5

(* Once the pool is drained no thread has a recorder in its hands.          *)
LEMMA DestroyKept ==
  ASSUME Safe, Destroy
  PROVE  RecorderInv' /\ OneOwner' /\ FiledInv'
<1>a. \A t \in Threads : at[t] = "idle" \/ (t = Reactor /\ at[t] = "drain")
  BY DEF Destroy, Safe, PoolInv, Threads
<1>b. at' = [at EXCEPT ![Reactor] = "ended"] /\ UNCHANGED <<local, rows, running, done>>
  BY DEF Destroy, Goes, poolVars
<1>c. \A t \in Threads, r \in Requests : ~Held(t, r) /\ ~Held(t, r)'
  BY <1>a, <1>b, HandsTyped DEF Held
<1>d. \A t \in Threads : at'[t] \in {"idle", "ended"}
  BY <1>a, <1>b, HandsTyped
<1>e. /\ \A k \in Keys : recorders'[k] = None
      /\ \A r \in Requests : recorder'[r] = IF \E k \in Keys : recorders[k] = r
                                            THEN "stopped" ELSE recorder[r]
  BY DEF Destroy
<1>f. \A r \in Requests : recorder'[r] # "recording"
  BY <1>c, <1>e, HandsTyped DEF RecorderInv
<1>3. RecorderInv'
  <2>1. \A r \in Requests : r \notin running' \cup done' => recorder'[r] = "none"
    BY <1>b, <1>e, HandsTyped DEF RecorderInv
  <2> QED
    BY <1>c, <1>d, <1>e, <1>f, <2>1, HandsTyped DEF RecorderInv
<1>4. OneOwner'
  BY <1>c, <1>e, HandsTyped DEF OneOwner
<1>5. FiledInv'
  BY <1>b, <1>c, <1>e, HandsTyped DEF FiledInv
<1> QED
  BY <1>3, <1>4, <1>5

LEMMA KnownKept == ASSUME Safe, Next PROVE KnownInv'
<1>a. /\ KnownInv /\ at \in [Threads -> Steps] /\ local \in [Threads -> Locals]
      /\ streams \in [Keys -> Requests \cup {None}]
      /\ session \in [Requests -> {"none", "running", "stopped"}]
      /\ Reactor \notin Requests /\ Reactor \in Threads /\ Requests \subseteq Threads
      /\ None \notin Requests
      /\ \A r \in Requests : at[r] # "idle" => r \in running /\ FdOf(r) \in Keys
      /\ \A k \in Keys : recorders[k] \in Requests => recorder[recorders[k]] # "none"
      /\ \A k \in Keys : recorders[k] \in Requests \cup {None}
      /\ \A r \in Requests : r \notin running \cup done => recorder[r] = "none"
      /\ \A c \in Conns : connFd[c] \in Keys
  BY HandsTyped DEF Safe, TypeOK, RecorderInv
<1> USE <1>a DEF KnownInv, Dispatched, Locals, NoLocal, Goes, Answers, poolVars, mapVars, workVars
<1>1. CASE \E c \in Conns, f \in Fds : Accept(c, f)
  BY <1>1 DEF Accept
<1>2. CASE \E c \in Conns, kind \in Kinds : Receive(c, kind)
  BY <1>2 DEF Receive, Pool!Submit, Pool!Refuse
<1>3. ASSUME NEW r \in Requests, Dispatch(r) PROVE KnownInv'
  BY <1>3 DEF Dispatch, Pool!Start
<1>4. ASSUME NEW r \in Requests, Reply(r) PROVE KnownInv'
  BY <1>4 DEF Reply, Pool!Finish
<1>5. ASSUME NEW r \in Requests, OpenStream(r) \/ StoreStream(r) PROVE KnownInv'
  <2>1. CASE OpenStream(r)
    BY <2>1 DEF OpenStream
  <2>2. CASE StoreStream(r)
    <3>1. /\ streams' = [streams EXCEPT ![FdOf(r)] = r] /\ session' = session
          /\ local' = [local EXCEPT ![r].item = streams[FdOf(r)]]
          /\ running' = running /\ done' = done /\ r \in running /\ FdOf(r) \in Keys
      BY <2>2 DEF StoreStream
    <3>2. \A u \in Threads : local'[u].item \in Dispatched \cup {None}
      BY <3>1
    <3> QED
      BY <3>1, <3>2
  <2> QED
    BY <1>5, <2>1, <2>2
<1>6. ASSUME NEW r \in Requests, DropStream(r) \/ StoreUrl(r) PROVE KnownInv'
  BY <1>6 DEF DropStream, StoreUrl
<1>7. ASSUME NEW r \in Requests, StreamStop(r) \/ FinalizeCall(r) PROVE KnownInv'
  <2>1. CASE TakeStream(r)
    <3>1. /\ streams' = [streams EXCEPT ![FdOf(r)] = None] /\ session' = session
          /\ local' = [local EXCEPT ![r].item = streams[FdOf(r)]]
          /\ running' = running /\ done' = done /\ r \in running /\ FdOf(r) \in Keys
      BY <2>1 DEF TakeStream
    <3>2. \A u \in Threads : local'[u].item \in Dispatched \cup {None}
      BY <3>1
    <3> QED
      BY <3>1, <3>2
  <2>2. CASE EraseUrl(r)
    BY <2>2 DEF EraseUrl
  <2>3. CASE FinalizeCall(r)
    BY <2>3 DEF FinalizeCall
  <2> QED
    BY <1>7, <2>1, <2>2, <2>3 DEF StreamStop
<1>8. ASSUME NEW r \in Requests, LookupUrl(r) \/ CheckRecorder(r) PROVE KnownInv'
  BY <1>8 DEF LookupUrl, CheckRecorder
<1>9. ASSUME NEW r \in Requests, LaunchRecorder(r) \/ StoreRecorder(r) PROVE KnownInv'
  BY <1>9 DEF LaunchRecorder, StoreRecorder
<1>10. ASSUME NEW r \in Requests, DropRecorder(r) \/ StoreLabel(r) PROVE KnownInv'
  BY <1>10 DEF DropRecorder, StoreLabel
<1>11. ASSUME NEW t \in Threads, StopStream(t) \/ StopRecorder(t) PROVE KnownInv'
  <2>1. CASE StopStream(t)
    BY <2>1 DEF StopStream
  <2>2. CASE StopRecorder(t)
    BY <2>2 DEF StopRecorder
  <2> QED
    BY <1>11, <2>1, <2>2
<1>12. ASSUME NEW t \in Threads, TakeRecorder(t) PROVE KnownInv'
  BY <1>12 DEF TakeRecorder, AfterFinalize
<1>13. ASSUME NEW t \in Threads, AddRecords(t) PROVE KnownInv'
  BY <1>13 DEF AddRecords, AfterFinalize
<1>14. CASE \E c \in Conns : Close(c)
  BY <1>14 DEF Close
<1>15. CASE CloseShut \/ LeaveRun
  BY <1>15 DEF CloseShut, LeaveRun, Pool!Shut
<1>16. CASE Destroy
  BY <1>16 DEF Destroy
<1> QED
  BY <1>1, <1>2, <1>3, <1>4, <1>5, <1>6, <1>7, <1>8, <1>9, <1>10, <1>11, <1>12, <1>13, <1>14, <1>15, <1>16 DEF Next, Handler, Closing, Threads,
     StreamStart, StreamStop, RecordStart, Finalizing


LEMMA SafeKept == ASSUME Safe, Next PROVE Safe'
<1>1. RecorderInv' /\ OneOwner' /\ FiledInv'
  BY HandsMove, StillKept, LaunchKept, StoreKept, DropKept, TakeKept, StopKept, AddKept, DestroyKept
<1> QED
  BY <1>1, TypeKept, PoolKept, ConnKept, PlaceKept, KnownKept DEF Safe

LEMMA SafeInit == Init => Safe
<1> SUFFICES ASSUME Init PROVE Safe
  OBVIOUS
<1> USE MediaControlAssumption
<1>1. TypeOK
  <2>1. /\ connFd \in [Conns -> Keys] /\ born \in [Conns -> BOOLEAN]
        /\ streams \in [Keys -> Requests \cup {None}] /\ streamUrls \in [Keys -> Urls]
        /\ recorders \in [Keys -> Requests \cup {None}] /\ labels \in [Keys -> Requests \cup {None}]
        /\ streamsMutex \in Requests \cup {None}
    BY DEF Init, Keys, Urls
  <2>2. /\ session \in [Requests -> {"none", "running", "stopped"}]
        /\ recorder \in [Requests -> {"none", "recording", "stopped"}]
        /\ rows \in [Requests -> Seq([label : Requests \cup {None}, stored : BOOLEAN])]
        /\ request \in [Requests -> [conn : Conns \cup {None}, kind : AllKinds \cup {"none"}]]
    BY DEF Init
  <2>3. at \in [Threads -> Steps] /\ code \in [Requests -> Codes]
    BY DEF Init, Steps, Codes
  <2>4. local \in [Threads -> Locals]
    BY DEF Init, Locals, NoLocal, Keys, Urls
  <2>5. /\ pending \in Seq(Requests) /\ running \subseteq Requests
        /\ done \subseteq Requests /\ refused \subseteq Requests
        /\ shut \in BOOLEAN /\ orderly \in BOOLEAN
    <3>1. /\ pending = <<>> /\ running = {} /\ done = {} /\ refused = {}
          /\ shut = FALSE /\ orderly = TRUE
      BY DEF Init, Pool!Init
    <3>2. pending \in Seq(Requests)
      BY <3>1
    <3>3. shut \in BOOLEAN /\ orderly \in BOOLEAN
      BY <3>1
    <3>4. running \subseteq Requests /\ done \subseteq Requests /\ refused \subseteq Requests
      BY <3>1
    <3> QED
      BY <3>2, <3>3, <3>4
  <2> QED
    BY <2>1, <2>2, <2>3, <2>4, <2>5 DEF TypeOK, Locals
<1>2. /\ Waiting = {} /\ running = {} /\ done = {} /\ \A t \in Threads : at[t] = "idle"
      /\ DOMAIN pending = {}
  BY DEF Init, Pool!Init, Waiting, Pool!Waiting
<1>3. \A t \in Threads, r \in Requests : ~Held(t, r)
  BY <1>2 DEF Held
<1>4. PoolInv /\ ConnInv /\ PlaceInv
  BY <1>2 DEF Init, PoolInv, ConnInv, PlaceInv, InPool, Threads, ReactorSteps, LockSteps
<1>5. RecorderInv /\ OneOwner /\ FiledInv
  BY <1>2, <1>3 DEF Init, RecorderInv, OneOwner, FiledInv
<1>6. KnownInv
  BY DEF Init, KnownInv, NoLocal
<1> QED
  BY <1>1, <1>4, <1>5, <1>6 DEF Safe

LEMMA SafeStutters == ASSUME Safe, UNCHANGED vars PROVE Safe'
<1> USE DEF vars, connVars, mapVars, workVars, poolVars
<1>1. \A t \in Threads, r \in Requests : Held(t, r)' <=> Held(t, r)
  BY DEF Held
<1>2. TypeOK' /\ PlaceInv'
  BY DEF Safe, TypeOK, PlaceInv
<1>3. PoolInv' /\ ConnInv'
  BY DEF Safe, PoolInv, ConnInv, InPool, Waiting, Pool!Waiting
<1>4. HandsStill
  BY DEF HandsStill, Fresh
<1>5. KnownInv'
  BY DEF Safe, KnownInv, Dispatched
<1> QED
  BY <1>2, <1>3, <1>4, <1>5, StillKept DEF Safe

LEMMA SafeAlways == Spec => []Safe
<1>1. Safe /\ [Next]_vars => Safe'
  BY SafeKept, SafeStutters
<1> QED
  BY <1>1, SafeInit, PTL DEF Spec

(* Every variable keeps its type, whatever the interleaving: the local      *)
(* variables of a thread always name requests and descriptors that exist.   *)
THEOREM TypeCorrect == Spec => []TypeOK
<1>1. Safe => TypeOK
  BY DEF Safe
<1> QED
  BY <1>1, SafeAlways, PTL

(* However RECORD_START, RECORD_STOP, STREAM_STOP and closes of connections *)
(* interleave, an ffmpeg process that runs is referred to from exactly one  *)
(* place: it is not forgotten and not stopped or filed by two threads.      *)
THEOREM OwnedOnce == Spec => []RecorderOwnedOnce
<1>1. ASSUME Safe PROVE RecorderOwnedOnce
  <2>1. ASSUME NEW r \in Requests, NEW x \in RecorderHolders(r), NEW y \in RecorderHolders(r)
        PROVE  x = y
    <3>1. \A z \in RecorderHolders(r) : \/ z \in Keys /\ recorders[z] = r
                                        \/ z \in Threads /\ Held(z, r)
      BY <1>1, HandsTyped DEF RecorderHolders, Held
    <3> QED
      BY <1>1, <3>1, HandsTyped DEF OneOwner
  <2>2. ASSUME NEW r \in Requests, recorder[r] = "recording" PROVE RecorderHolders(r) # {}
    <3>1. CASE \E k \in Keys : recorders[k] = r
      BY <3>1 DEF RecorderHolders
    <3>2. CASE \E t \in Threads : Held(t, r)
      BY <3>2 DEF RecorderHolders, Held
    <3> QED
      BY <1>1, <2>2, <3>1, <3>2, HandsTyped DEF RecorderInv
  <2> QED
    BY <2>1, <2>2 DEF RecorderOwnedOnce
<1> QED
  BY <1>1, SafeAlways, PTL

(* A recording is filed at most once, and only after its ffmpeg has exited. *)
THEOREM FiledOnce == Spec => []FiledOnceWhenStopped
<1>1. Safe => FiledOnceWhenStopped
  BY DEF Safe, FiledInv, FiledOnceWhenStopped
<1> QED
  BY <1>1, SafeAlways, PTL

-------------------------------------------------------------------------------
(* Orderly clients.                                                         *)

Closes == at[Reactor] \notin {"idle", "drain", "ended"}

LEMMA OrderlyFacts ==
  ASSUME Safe, Orderly
  PROVE  /\ at \in [Threads -> Steps] /\ local \in [Threads -> Locals]
         /\ Reactor \notin Requests /\ Reactor \in Threads /\ Requests \subseteq Threads
         /\ None \notin Requests /\ NoFd \notin Fds
         /\ streams \in [Keys -> Requests \cup {None}] /\ recorders \in [Keys -> Requests \cup {None}]
         /\ streamUrls \in [Keys -> Urls] /\ labels \in [Keys -> Requests \cup {None}]
         /\ connFd \in [Conns -> Keys]
         /\ at[Reactor] \in ReactorSteps
         /\ \A r \in Requests : at[r] # "idle" => r \in running
         /\ running \subseteq Requests /\ InPool \subseteq Requests
         /\ \A r \in InPool : request[r].conn \in Conns /\ FdOf(r) \in Keys /\ FdOf(r) # NoFd
         /\ \A q, r \in running : FdOf(q) = FdOf(r) => q = r
         /\ Closes => \A r \in InPool : FdOf(r) # local[Reactor].key
<1>1. \A r \in InPool : request[r].conn \in Conns /\ FdOf(r) \in Keys /\ FdOf(r) # NoFd
  BY DEF Safe, TypeOK, ConnInv, Orderly, OneAtATime, FdOf
<1>2. \A q, r \in running : FdOf(q) = FdOf(r) => q = r
  BY <1>1 DEF Safe, ConnInv, Orderly, OneAtATime, FdOf, InPool
<1>3. InPool \subseteq Requests /\ running \subseteq Requests
  BY DEF Safe, TypeOK, InPool, Waiting, Pool!Waiting
<1>4. Closes => \A r \in InPool : FdOf(r) # local[Reactor].key
  BY DEF Orderly, ClosesAlone, Closes
<1>5. at[Reactor] \in ReactorSteps /\ streamUrls \in [Keys -> Urls] /\ connFd \in [Conns -> Keys]
      /\ streams \in [Keys -> Requests \cup {None}]
  BY DEF Safe, TypeOK, PlaceInv
<1> QED
  BY <1>1, <1>2, <1>3, <1>4, <1>5, HandsTyped, MediaControlAssumption

(* The descriptor of a request changes only when its connection is closed.  *)
LEMMA FdKept ==
  ASSUME Safe, Orderly, Next
  PROVE  /\ \A r \in InPool : FdOf(r)' = FdOf(r)
         /\ \A r \in Dispatched : \/ FdOf(r)' = FdOf(r) \/ Destroy
                                  \/ at[Reactor] = "shut" /\ FdOf(r) = local[Reactor].key
<1>1. ASSUME NEW c \in Conns, NEW f \in Fds, Accept(c, f), NEW r \in InPool \cup done
      PROVE  FdOf(r)' = FdOf(r)
  <2>1. request[r].conn \in Conns /\ request[r].conn # c
    BY <1>1 DEF Accept, Safe, ConnInv
  <2> QED
    BY <1>1, <2>1 DEF Accept, FdOf, Safe, TypeOK
<1>2. ASSUME NEW c \in Conns, NEW kind \in Kinds, Receive(c, kind), NEW r \in InPool \cup done
      PROVE  FdOf(r)' = FdOf(r)
  <2>1. PICK q \in Requests : /\ q \notin Waiting \cup running \cup done \cup refused
                              /\ request' = [request EXCEPT ![q] = [conn |-> c, kind |-> kind]]
    BY <1>2, Received
  <2>2. connFd' = connFd /\ r \in Requests /\ r # q
    BY <1>2, <2>1 DEF Receive, connVars, InPool, Waiting, Pool!Waiting, Safe, TypeOK
  <2> QED
    BY <2>1, <2>2 DEF FdOf
<1>3. CASE (\E r \in Requests : Dispatch(r) \/ Reply(r)) \/ LeaveRun \/ UNCHANGED <<connVars, request, poolVars>>
  BY <1>3 DEF Dispatch, Reply, LeaveRun, connVars, FdOf
<1>4. ASSUME CloseShut, NEW r \in InPool \cup done, FdOf(r) # local[Reactor].key
      PROVE  FdOf(r)' = FdOf(r)
  <2>1. request[r].conn \in Conns
    BY DEF Safe, ConnInv
  <2> QED
    BY <1>4, <2>1 DEF CloseShut, FdOf
<1>5. CASE CloseShut
  <2>1. at[Reactor] = "shut" /\ Closes
    BY <1>5 DEF CloseShut, Closes
  <2> QED
    BY <1>4, <1>5, <2>1, OrderlyFacts DEF Dispatched, InPool
<1>6. CASE Destroy
  BY <1>6 DEF Destroy, InPool, Waiting, Pool!Waiting
<1> QED
  BY <1>1, <1>2, <1>3, <1>5, <1>6, AtHome DEF Dispatched, InPool

(* Only an accepted request enters the pool, and its connection is open.    *)
LEMMA PoolEntered ==
  ASSUME Safe, Next
  PROVE  \/ InPool' \subseteq InPool
         \/ \E c \in Conns, r \in Requests : /\ InPool' \subseteq InPool \cup {r} /\ request'[r].conn = c
                           /\ at[Reactor] = "idle" /\ connFd[c] # NoFd /\ UNCHANGED <<running, connFd, at, local>>
<1>1. CASE \E c \in Conns, f \in Fds : Accept(c, f)
  BY <1>1 DEF Accept, poolVars, InPool, Waiting, Pool!Waiting
<1>2. ASSUME NEW c \in Conns, NEW kind \in Kinds, Receive(c, kind), ~(InPool' \subseteq InPool)
      PROVE  \E r \in Requests : /\ InPool' \subseteq InPool \cup {r} /\ request'[r].conn = c
                           /\ at[Reactor] = "idle" /\ connFd[c] # NoFd /\ UNCHANGED <<running, connFd, at, local>>
  <2>1. PICK q \in Requests :
          /\ request' = [request EXCEPT ![q] = [conn |-> c, kind |-> kind]]
          /\ \/ pending' = Append(pending, q) /\ UNCHANGED <<running, done, refused, shut>>
             \/ refused' = refused \cup {q} /\ UNCHANGED <<pending, running, done, shut>>
    BY <1>2, Received
  <2>2. pending' = Append(pending, q)
    BY <1>2, <2>1 DEF InPool, Waiting, Pool!Waiting
  <2>3. Waiting' = Waiting \cup {q} /\ running' = running
    BY <2>1, <2>2, Appended DEF Safe, TypeOK
  <2>4. request'[q].conn = c
    BY <2>1 DEF Safe, TypeOK
  <2>5. at[Reactor] = "idle" /\ connFd[c] # NoFd /\ UNCHANGED <<connFd, at, local>>
    BY <1>2 DEF Receive, connVars
  <2> QED
    BY <2>3, <2>4, <2>5 DEF InPool
<1>3. ASSUME NEW r \in Requests, Dispatch(r) PROVE InPool' \subseteq InPool
  BY <1>3, WasWaiting DEF InPool
<1>4. ASSUME NEW r \in Requests, Reply(r) PROVE InPool' \subseteq InPool
  BY <1>4 DEF Reply, Pool!Finish, InPool, Waiting, Pool!Waiting
<1>5. CASE CloseShut \/ LeaveRun \/ Destroy \/ UNCHANGED <<connVars, request, poolVars>>
  BY <1>5 DEF CloseShut, LeaveRun, Destroy, Pool!Shut, poolVars, InPool, Waiting, Pool!Waiting
<1> QED
  BY <1>1, <1>2, <1>3, <1>4, <1>5, AtHome

LEMMA KeysKept ==
  ASSUME Safe, Orderly, Next
  PROVE  \A r \in running' : at'[r] = "takeRecorder" => local'[r].key = FdOf(r)
<1>a. /\ OneAtATime /\ at \in [Threads -> Steps] /\ local \in [Threads -> Locals]
      /\ Reactor \notin Requests /\ Reactor \in Threads /\ Requests \subseteq Threads
      /\ \A r \in Requests : at[r] # "idle" => r \in running
      /\ running \subseteq Requests
  BY OrderlyFacts DEF Orderly
<1> USE <1>a DEF OneAtATime, Locals, Goes, Answers, poolVars
<1>1. CASE \E c \in Conns, f \in Fds : Accept(c, f)
  BY <1>1 DEF Accept
<1>2. CASE \E c \in Conns, kind \in Kinds : Receive(c, kind)
  BY <1>2 DEF Receive, Pool!Submit, Pool!Refuse
<1>3. ASSUME NEW r \in Requests, Dispatch(r)
      PROVE  \A q \in running' : at'[q] = "takeRecorder" => local'[q].key = FdOf(q)
  BY <1>3 DEF Dispatch, Pool!Start
<1>4. ASSUME NEW r \in Requests, Reply(r)
      PROVE  \A q \in running' : at'[q] = "takeRecorder" => local'[q].key = FdOf(q)
  BY <1>4 DEF Reply, Pool!Finish
<1>5. ASSUME NEW r \in Requests, OpenStream(r) \/ StoreStream(r)
      PROVE  \A q \in running' : at'[q] = "takeRecorder" => local'[q].key = FdOf(q)
  BY <1>5 DEF OpenStream, StoreStream
<1>6. ASSUME NEW r \in Requests, DropStream(r) \/ StoreUrl(r)
      PROVE  \A q \in running' : at'[q] = "takeRecorder" => local'[q].key = FdOf(q)
  BY <1>6 DEF DropStream, StoreUrl
<1>7. ASSUME NEW r \in Requests, StreamStop(r) \/ FinalizeCall(r)
      PROVE  \A q \in running' : at'[q] = "takeRecorder" => local'[q].key = FdOf(q)
  BY <1>7 DEF StreamStop, TakeStream, EraseUrl, FinalizeCall
<1>8. ASSUME NEW r \in Requests, LookupUrl(r) \/ CheckRecorder(r)
      PROVE  \A q \in running' : at'[q] = "takeRecorder" => local'[q].key = FdOf(q)
  BY <1>8 DEF LookupUrl, CheckRecorder
<1>9. ASSUME NEW r \in Requests, LaunchRecorder(r) \/ StoreRecorder(r)
      PROVE  \A q \in running' : at'[q] = "takeRecorder" => local'[q].key = FdOf(q)
  BY <1>9 DEF LaunchRecorder, StoreRecorder
<1>10. ASSUME NEW r \in Requests, DropRecorder(r) \/ StoreLabel(r)
      PROVE  \A q \in running' : at'[q] = "takeRecorder" => local'[q].key = FdOf(q)
  BY <1>10 DEF DropRecorder, StoreLabel
<1>11. ASSUME NEW t \in Threads, StopStream(t) \/ StopRecorder(t)
      PROVE  \A q \in running' : at'[q] = "takeRecorder" => local'[q].key = FdOf(q)
  BY <1>11 DEF StopStream, StopRecorder
<1>12. ASSUME NEW t \in Threads, TakeRecorder(t)
      PROVE  \A q \in running' : at'[q] = "takeRecorder" => local'[q].key = FdOf(q)
  BY <1>12 DEF TakeRecorder, AfterFinalize
<1>13. ASSUME NEW t \in Threads, AddRecords(t)
      PROVE  \A q \in running' : at'[q] = "takeRecorder" => local'[q].key = FdOf(q)
  BY <1>13 DEF AddRecords, AfterFinalize
<1>14. CASE \E c \in Conns : Close(c)
  BY <1>14 DEF Close
<1>15. CASE CloseShut \/ LeaveRun
  BY <1>15 DEF CloseShut, LeaveRun, Pool!Shut
<1>16. CASE Destroy
  BY <1>16 DEF Destroy
<1> QED
  BY <1>1, <1>2, <1>3, <1>4, <1>5, <1>6, <1>7, <1>8, <1>9, <1>10, <1>11, <1>12, <1>13, <1>14, <1>15, <1>16 DEF Next, Handler, Closing, Threads,
     StreamStart, StreamStop, RecordStart, Finalizing


LEMMA RunningWas ==
  ASSUME Safe, Next
  PROVE  running' \subseteq InPool
<1>1. \A r \in running' : r \in InPool
  <2>1. \/ running' \subseteq running
        \/ \E r \in Requests : Dispatch(r)
    BY AtHome DEF Accept, Receive, Reply, CloseShut, LeaveRun, Destroy, poolVars,
                  Pool!Submit, Pool!Refuse, Pool!Finish, Pool!Shut
  <2> QED
    BY <2>1, WasWaiting DEF InPool
<1> QED
  BY <1>1

LEMMA OneAtATimeKept ==
  ASSUME Safe, Orderly, orderly', Next
  PROVE  OneAtATime'
<1>1. \A r \in running' : r \in InPool
  BY RunningWas
<1>2. ASSUME NEW q \in running', NEW r \in running', request'[q].conn = request'[r].conn
      PROVE  q = r
  <2>1. CASE \E d \in Requests : Dispatch(d)
    <3>1. PICK d \in Requests : Dispatch(d)
      BY <2>1
    <3>2. request' = request /\ running' = running \cup {d}
          /\ \A p \in running : request[p].conn # request[d].conn
      BY <3>1, WasWaiting DEF Dispatch
    <3> QED
      BY <1>2, <3>2 DEF Orderly, OneAtATime
  <2>2. CASE \E c \in Conns, kind \in Kinds : Receive(c, kind)
    <3>1. PICK p \in Requests : /\ p \notin running
                                /\ \E m : request' = [request EXCEPT ![p] = m]
                                /\ running' = running
      BY <2>2, Received
    <3>2. request'[q] = request[q] /\ request'[r] = request[r]
      BY <1>2, <3>1 DEF Safe, TypeOK
    <3> QED
      BY <1>2, <3>1, <3>2 DEF Orderly, OneAtATime
  <2>3. CASE request' = request /\ running' \subseteq running
    BY <1>2, <2>3 DEF Orderly, OneAtATime
  <2> QED
    BY <2>1, <2>2, <2>3, AtHome DEF Accept, Reply, CloseShut, LeaveRun, Destroy, poolVars,
                  Pool!Finish, Pool!Shut
<1>3. \A r \in InPool' : FdOf(r)' # NoFd
  <2>1. \A r \in InPool : FdOf(r)' # NoFd
    BY FdKept, OrderlyFacts
  <2>2. ASSUME NEW c \in Conns, NEW r \in Requests, request'[r].conn = c, connFd[c] # NoFd, connFd' = connFd
        PROVE  FdOf(r)' # NoFd
    BY <2>2 DEF FdOf
  <2> QED
    BY <2>1, <2>2, PoolEntered
<1>4. \A r \in running' : at'[r] = "takeRecorder" => local'[r].key = FdOf(r)'
  BY <1>1, KeysKept, FdKept
<1> QED
  BY <1>2, <1>3, <1>4 DEF OneAtATime

(* While the reactor closes a connection its key does not change.           *)
ClosesStill ==
  \/ \E c \in Conns : Close(c)
  \/ ~Closes'
  \/ Closes /\ local'[Reactor].key = local[Reactor].key

LEMMA ReactorKeeps ==
  ASSUME Safe, Orderly, Next
  PROVE  ClosesStill
<1>a. /\ at \in [Threads -> Steps] /\ local \in [Threads -> Locals]
      /\ Reactor \notin Requests /\ Reactor \in Threads /\ Requests \subseteq Threads
      /\ at[Reactor] \in ReactorSteps
  BY OrderlyFacts
<1> USE <1>a DEF ClosesStill, Closes, ReactorSteps, Locals, Goes, Answers, poolVars
<1>1. CASE \E c \in Conns, f \in Fds : Accept(c, f)
  BY <1>1 DEF Accept
<1>2. CASE \E c \in Conns, kind \in Kinds : Receive(c, kind)
  BY <1>2 DEF Receive, Pool!Submit, Pool!Refuse
<1>3. ASSUME NEW r \in Requests, Dispatch(r) PROVE ClosesStill
  BY <1>3 DEF Dispatch, Pool!Start
<1>4. ASSUME NEW r \in Requests, Reply(r) PROVE ClosesStill
  BY <1>4 DEF Reply, Pool!Finish
<1>5. ASSUME NEW r \in Requests, OpenStream(r) \/ StoreStream(r) PROVE ClosesStill
  BY <1>5 DEF OpenStream, StoreStream
<1>6. ASSUME NEW r \in Requests, DropStream(r) \/ StoreUrl(r) PROVE ClosesStill
  BY <1>6 DEF DropStream, StoreUrl
<1>7. ASSUME NEW r \in Requests, StreamStop(r) \/ FinalizeCall(r) PROVE ClosesStill
  BY <1>7 DEF StreamStop, TakeStream, EraseUrl, FinalizeCall
<1>8. ASSUME NEW r \in Requests, LookupUrl(r) \/ CheckRecorder(r) PROVE ClosesStill
  BY <1>8 DEF LookupUrl, CheckRecorder
<1>9. ASSUME NEW r \in Requests, LaunchRecorder(r) \/ StoreRecorder(r) PROVE ClosesStill
  BY <1>9 DEF LaunchRecorder, StoreRecorder
<1>10. ASSUME NEW r \in Requests, DropRecorder(r) \/ StoreLabel(r) PROVE ClosesStill
  BY <1>10 DEF DropRecorder, StoreLabel
<1>11. ASSUME NEW t \in Threads, StopStream(t) \/ StopRecorder(t) PROVE ClosesStill
  BY <1>11 DEF StopStream, StopRecorder
<1>12. ASSUME NEW t \in Threads, TakeRecorder(t) PROVE ClosesStill
  BY <1>12 DEF TakeRecorder, AfterFinalize
<1>13. ASSUME NEW t \in Threads, AddRecords(t) PROVE ClosesStill
  BY <1>13 DEF AddRecords, AfterFinalize
<1>14. CASE \E c \in Conns : Close(c)
  BY <1>14 DEF Close
<1>15. CASE CloseShut \/ LeaveRun
  BY <1>15 DEF CloseShut, LeaveRun, Pool!Shut
<1>16. CASE Destroy
  BY <1>16 DEF Destroy
<1> QED
  BY <1>1, <1>2, <1>3, <1>4, <1>5, <1>6, <1>7, <1>8, <1>9, <1>10, <1>11, <1>12, <1>13, <1>14, <1>15, <1>16 DEF Next, Handler, Closing, Threads,
     StreamStart, StreamStop, RecordStart, Finalizing

(* What ClosesAlone says of the maps. *)
ClosesMaps ==
  Closes =>
    /\ local[Reactor].key # NoFd
    /\ streams[local[Reactor].key] = None /\ streamUrls[local[Reactor].key] = "none"
    /\ at[Reactor] \in {"stopRecorder", "addRecords", "shut"} =>
         recorders[local[Reactor].key] = None /\ labels[local[Reactor].key] = None

LEMMA ClosesMapsKept ==
  ASSUME Safe, Orderly, Next
  PROVE  ClosesMaps'
<1>a. /\ at \in [Threads -> Steps] /\ local \in [Threads -> Locals]
      /\ Reactor \notin Requests /\ Reactor \in Threads /\ Requests \subseteq Threads
      /\ at[Reactor] \in ReactorSteps
      /\ streams \in [Keys -> Requests \cup {None}] /\ recorders \in [Keys -> Requests \cup {None}]
      /\ streamUrls \in [Keys -> Urls] /\ labels \in [Keys -> Requests \cup {None}]
      /\ connFd \in [Conns -> Keys]
      /\ \A r \in Requests : at[r] # "idle" => r \in running
      /\ Closes => \A r \in running : FdOf(r) # local[Reactor].key
      /\ Closes => local[Reactor].key # NoFd
      /\ Closes => streams[local[Reactor].key] = None /\ streamUrls[local[Reactor].key] = "none"
      /\ at[Reactor] \in {"stopRecorder", "addRecords", "shut"} =>
           recorders[local[Reactor].key] = None /\ labels[local[Reactor].key] = None
      /\ \A r \in running : at[r] = "takeRecorder" => local[r].key = FdOf(r)
  BY OrderlyFacts DEF Orderly, OneAtATime, ClosesAlone, Closes, InPool
<1> USE <1>a DEF ClosesMaps, Closes, ReactorSteps, Locals, Goes, Answers, poolVars, mapVars
<1>1. CASE \E c \in Conns, f \in Fds : Accept(c, f)
  BY <1>1 DEF Accept
<1>2. CASE \E c \in Conns, kind \in Kinds : Receive(c, kind)
  BY <1>2 DEF Receive, Pool!Submit, Pool!Refuse
<1>3. ASSUME NEW r \in Requests, Dispatch(r) PROVE ClosesMaps'
  BY <1>3 DEF Dispatch, Pool!Start
<1>4. ASSUME NEW r \in Requests, Reply(r) PROVE ClosesMaps'
  BY <1>4 DEF Reply, Pool!Finish
<1>5. ASSUME NEW r \in Requests, OpenStream(r) \/ StoreStream(r) PROVE ClosesMaps'
  BY <1>5 DEF OpenStream, StoreStream
<1>6. ASSUME NEW r \in Requests, DropStream(r) \/ StoreUrl(r) PROVE ClosesMaps'
  BY <1>6 DEF DropStream, StoreUrl
<1>7. ASSUME NEW r \in Requests, StreamStop(r) \/ FinalizeCall(r) PROVE ClosesMaps'
  BY <1>7 DEF StreamStop, TakeStream, EraseUrl, FinalizeCall
<1>8. ASSUME NEW r \in Requests, LookupUrl(r) \/ CheckRecorder(r) PROVE ClosesMaps'
  BY <1>8 DEF LookupUrl, CheckRecorder
<1>9. ASSUME NEW r \in Requests, LaunchRecorder(r) \/ StoreRecorder(r) PROVE ClosesMaps'
  BY <1>9 DEF LaunchRecorder, StoreRecorder
<1>10. ASSUME NEW r \in Requests, DropRecorder(r) \/ StoreLabel(r) PROVE ClosesMaps'
  BY <1>10 DEF DropRecorder, StoreLabel
<1>11. ASSUME NEW t \in Threads, StopStream(t) \/ StopRecorder(t) PROVE ClosesMaps'
  BY <1>11 DEF StopStream, StopRecorder
<1>12. ASSUME NEW t \in Threads, TakeRecorder(t) PROVE ClosesMaps'
  BY <1>12 DEF TakeRecorder, AfterFinalize
<1>13. ASSUME NEW t \in Threads, AddRecords(t) PROVE ClosesMaps'
  BY <1>13 DEF AddRecords, AfterFinalize
<1>14. CASE \E c \in Conns : Close(c)
  BY <1>14 DEF Close
<1>15. CASE CloseShut \/ LeaveRun
  BY <1>15 DEF CloseShut, LeaveRun, Pool!Shut
<1>16. CASE Destroy
  BY <1>16 DEF Destroy
<1> QED
  BY <1>1, <1>2, <1>3, <1>4, <1>5, <1>6, <1>7, <1>8, <1>9, <1>10, <1>11, <1>12, <1>13, <1>14, <1>15, <1>16 DEF Next, Handler, Closing, Threads,
     StreamStart, StreamStop, RecordStart, Finalizing

LEMMA ClosesAloneKept ==
  ASSUME Safe, Orderly, orderly', Next
  PROVE  ClosesAlone'
<1>1. ASSUME NEW c \in Conns, Close(c), NEW r \in InPool
      PROVE  FdOf(r)' # local'[Reactor].key
  <2>1. request[r].conn # c /\ FdOf(r)' = FdOf(r) /\ local'[Reactor].key = connFd[c] /\ connFd[c] # NoFd
    <3>1. InFlight(c) = {} /\ connFd[c] # NoFd
      BY <1>1 DEF Close
    <3>2. request[r].conn # c
      BY <1>1, <3>1 DEF InFlight, InPool, Waiting
    <3>3. local'[Reactor].key = connFd[c]
      BY <1>1, OrderlyFacts DEF Close, Locals
    <3> QED
      BY <1>1, <3>1, <3>2, <3>3, FdKept
  <2> QED
    BY <2>1, OrderlyFacts DEF FdOf, Safe, ConnInv
<1>2. ASSUME Closes', NEW r \in InPool' PROVE FdOf(r)' # local'[Reactor].key
  <2>1. CASE \E c \in Conns : Close(c)
    <3>1. InPool' = InPool
      BY <2>1 DEF Close, poolVars, InPool, Waiting, Pool!Waiting
    <3> QED
      BY <1>1, <1>2, <2>1, <3>1
  <2>2. CASE Closes /\ local'[Reactor].key = local[Reactor].key
    <3>1. InPool' \subseteq InPool
      BY <2>2, PoolEntered DEF Closes
    <3> QED
      BY <1>2, <2>2, <3>1, OrderlyFacts, FdKept
  <2> QED
    BY <1>2, <2>1, <2>2, ReactorKeeps DEF ClosesStill
<1> QED
  BY <1>2, ClosesMapsKept DEF ClosesAlone, ClosesMaps, Closes

(* A request enters a map under its own descriptor only.                    *)
EntriesOwn ==
  /\ \A k \in Keys, r \in Requests : streams'[k] = r => streams[k] = r \/ (r \in running /\ k = FdOf(r))
  /\ \A k \in Keys, r \in Requests : recorders'[k] = r => recorders[k] = r \/ (r \in running /\ k = FdOf(r))

LEMMA EntriesKept ==
  ASSUME Safe, Orderly, Next
  PROVE  EntriesOwn
<1>a. /\ streams \in [Keys -> Requests \cup {None}] /\ recorders \in [Keys -> Requests \cup {None}]
      /\ \A r \in Requests : at[r] # "idle" => r \in running
      /\ None \notin Requests
  BY OrderlyFacts
<1> USE <1>a DEF EntriesOwn, poolVars, mapVars
<1>1. CASE \E c \in Conns, f \in Fds : Accept(c, f)
  BY <1>1 DEF Accept
<1>2. CASE \E c \in Conns, kind \in Kinds : Receive(c, kind)
  BY <1>2 DEF Receive, Pool!Submit, Pool!Refuse
<1>3. ASSUME NEW r \in Requests, Dispatch(r) PROVE EntriesOwn
  BY <1>3 DEF Dispatch, Pool!Start
<1>4. ASSUME NEW r \in Requests, Reply(r) PROVE EntriesOwn
  BY <1>4 DEF Reply, Pool!Finish
<1>5. ASSUME NEW r \in Requests, OpenStream(r) \/ StoreStream(r) PROVE EntriesOwn
  BY <1>5 DEF OpenStream, StoreStream
<1>6. ASSUME NEW r \in Requests, DropStream(r) \/ StoreUrl(r) PROVE EntriesOwn
  BY <1>6 DEF DropStream, StoreUrl
<1>7. ASSUME NEW r \in Requests, StreamStop(r) \/ FinalizeCall(r) PROVE EntriesOwn
  BY <1>7 DEF StreamStop, TakeStream, EraseUrl, FinalizeCall
<1>8. ASSUME NEW r \in Requests, LookupUrl(r) \/ CheckRecorder(r) PROVE EntriesOwn
  BY <1>8 DEF LookupUrl, CheckRecorder
<1>9. ASSUME NEW r \in Requests, LaunchRecorder(r) \/ StoreRecorder(r) PROVE EntriesOwn
  BY <1>9 DEF LaunchRecorder, StoreRecorder
<1>10. ASSUME NEW r \in Requests, DropRecorder(r) \/ StoreLabel(r) PROVE EntriesOwn
  BY <1>10 DEF DropRecorder, StoreLabel
<1>11. ASSUME NEW t \in Threads, StopStream(t) \/ StopRecorder(t) PROVE EntriesOwn
  BY <1>11 DEF StopStream, StopRecorder
<1>12. ASSUME NEW t \in Threads, TakeRecorder(t) PROVE EntriesOwn
  BY <1>12 DEF TakeRecorder, AfterFinalize
<1>13. ASSUME NEW t \in Threads, AddRecords(t) PROVE EntriesOwn
  BY <1>13 DEF AddRecords, AfterFinalize
<1>14. CASE \E c \in Conns : Close(c)
  BY <1>14 DEF Close
<1>15. CASE CloseShut \/ LeaveRun
  BY <1>15 DEF CloseShut, LeaveRun, Pool!Shut
<1>16. CASE Destroy
  BY <1>16 DEF Destroy
<1> QED
  BY <1>1, <1>2, <1>3, <1>4, <1>5, <1>6, <1>7, <1>8, <1>9, <1>10, <1>11, <1>12, <1>13, <1>14, <1>15, <1>16 DEF Next, Handler, Closing, Threads,
     StreamStart, StreamStop, RecordStart, Finalizing

LEMMA MapsOwnKept ==
  ASSUME Safe, Orderly, Next
  PROVE  MapsOwn'
<1>1. ASSUME NEW k \in Keys, NEW r \in Requests, streams'[k] = r \/ recorders'[k] = r
      PROVE  k # NoFd /\ FdOf(r)' = k
  <2>1. CASE r \in running /\ k = FdOf(r)
    BY <2>1, OrderlyFacts, FdKept DEF InPool
  <2>2. CASE streams[k] = r \/ recorders[k] = r
    <3>1. k # NoFd /\ FdOf(r) = k
      BY <2>2 DEF Orderly, MapsMatch, MapsOwn
    <3>2. r \in Dispatched
      BY <2>2, HandsTyped DEF Safe, KnownInv, RecorderInv, Dispatched
    <3>3. ~Destroy
      BY <1>1, OrderlyFacts DEF Destroy
    <3>4. ~(at[Reactor] = "shut" /\ k = local[Reactor].key)
      BY <2>2, OrderlyFacts DEF Orderly, ClosesAlone
    <3> QED
      BY <3>1, <3>2, <3>3, <3>4, FdKept
  <2> QED
    BY <1>1, <2>1, <2>2, EntriesKept DEF EntriesOwn
<1> QED
  BY <1>1 DEF MapsOwn

(* MapsInHand after a step, by the descriptors before it.                   *)
InHand ==
  \A r \in Requests :
    /\ at'[r] \in {"dropStream", "storeUrl"} => streams'[FdOf(r)] = r
    /\ at'[r] = "eraseUrl" => streams'[FdOf(r)] = None
    /\ at'[r] = "storeLabel" => recorders'[FdOf(r)] = r
    /\ at'[r] \in {"launch", "storeRecorder"} => recorders'[FdOf(r)] = None
    /\ at'[r] # "dropRecorder"

LEMMA InHandKept ==
  ASSUME Safe, Orderly, orderly', Next
  PROVE  InHand
<1>a. /\ at \in [Threads -> Steps] /\ local \in [Threads -> Locals]
      /\ Reactor \notin Requests /\ Reactor \in Threads /\ Requests \subseteq Threads
      /\ at[Reactor] \in ReactorSteps
      /\ streams \in [Keys -> Requests \cup {None}] /\ recorders \in [Keys -> Requests \cup {None}]
      /\ \A r \in Requests : at[r] # "idle" => r \in running /\ FdOf(r) \in Keys
      /\ \A q, r \in running : FdOf(q) = FdOf(r) => q = r
      /\ \A r \in Requests : streamsMutex = r <=> at[r] \in LockSteps
      /\ None \notin Requests
      /\ MapsInHand
      /\ \A r \in running : at[r] = "takeRecorder" => local[r].key = FdOf(r)
      /\ at[Reactor] = "takeRecorder" => \A r \in running : FdOf(r) # local[Reactor].key
  BY OrderlyFacts DEF Orderly, OneAtATime, MapsMatch, InPool, Safe, PlaceInv, Closes
<1> USE <1>a DEF InHand, MapsInHand, ReactorSteps, LockSteps, Locals, Goes, Answers, Locks, Unlocks, poolVars, mapVars
<1>1. CASE \E c \in Conns, f \in Fds : Accept(c, f)
  BY <1>1 DEF Accept
<1>2. CASE \E c \in Conns, kind \in Kinds : Receive(c, kind)
  BY <1>2 DEF Receive, Pool!Submit, Pool!Refuse
<1>3. ASSUME NEW r \in Requests, Dispatch(r) PROVE InHand
  BY <1>3 DEF Dispatch, Pool!Start
<1>4. ASSUME NEW r \in Requests, Reply(r) PROVE InHand
  BY <1>4 DEF Reply, Pool!Finish
<1>5. ASSUME NEW r \in Requests, OpenStream(r) \/ StoreStream(r) PROVE InHand
  <2>1. CASE OpenStream(r)
    BY <2>1 DEF OpenStream
  <2>2. CASE StoreStream(r)
    BY <2>2 DEF StoreStream
  <2> QED
    BY <1>5, <2>1, <2>2
<1>6. ASSUME NEW r \in Requests, DropStream(r) \/ StoreUrl(r) PROVE InHand
  BY <1>6, ZenonT(60) DEF DropStream, StoreUrl
<1>7. ASSUME NEW r \in Requests, StreamStop(r) \/ FinalizeCall(r) PROVE InHand
  <2>1. CASE TakeStream(r)
    BY <2>1 DEF TakeStream
  <2>2. CASE EraseUrl(r)
    BY <2>2 DEF EraseUrl
  <2>3. CASE FinalizeCall(r)
    BY <2>3 DEF FinalizeCall
  <2> QED
    BY <1>7, <2>1, <2>2, <2>3 DEF StreamStop
<1>8. ASSUME NEW r \in Requests, LookupUrl(r) \/ CheckRecorder(r) PROVE InHand
  BY <1>8, ZenonT(60) DEF LookupUrl, CheckRecorder
<1>9. ASSUME NEW r \in Requests, LaunchRecorder(r) \/ StoreRecorder(r) PROVE InHand
  <2>1. CASE LaunchRecorder(r)
    BY <2>1 DEF LaunchRecorder
  <2>2. CASE StoreRecorder(r)
    BY <2>2 DEF StoreRecorder
  <2> QED
    BY <1>9, <2>1, <2>2
<1>10. ASSUME NEW r \in Requests, DropRecorder(r) \/ StoreLabel(r) PROVE InHand
  BY <1>10, ZenonT(60) DEF DropRecorder, StoreLabel
<1>11. ASSUME NEW t \in Threads, StopStream(t) \/ StopRecorder(t) PROVE InHand
  BY <1>11, ZenonT(60) DEF StopStream, StopRecorder
<1>12. ASSUME NEW t \in Threads, TakeRecorder(t) PROVE InHand
  BY <1>12 DEF TakeRecorder, AfterFinalize
<1>13. ASSUME NEW t \in Threads, AddRecords(t) PROVE InHand
  BY <1>13 DEF AddRecords, AfterFinalize
<1>14. CASE \E c \in Conns : Close(c)
  BY <1>14 DEF Close
<1>15. CASE CloseShut \/ LeaveRun
  <2>1. UNCHANGED <<streams, recorders>> /\ \A r \in Requests : at'[r] = at[r]
    BY <1>15, ZenonT(60) DEF CloseShut, LeaveRun
  <2> QED
    BY <2>1
<1>16. CASE Destroy
  BY <1>16 DEF Destroy
<1> QED
  BY <1>1, <1>2, <1>3, <1>4, <1>5, <1>6, <1>7, <1>8, <1>9, <1>10, <1>11, <1>12, <1>13, <1>14, <1>15, <1>16 DEF Next, Handler, Closing, Threads,
     StreamStart, StreamStop, RecordStart, Finalizing

LEMMA MapsInHandKept ==
  ASSUME Safe, Orderly, orderly', Next
  PROVE  MapsInHand'
<1>1. ASSUME NEW r \in Requests, at'[r] # "idle" PROVE FdOf(r)' = FdOf(r)
  BY <1>1, RunningWas, FdKept, PoolKept DEF PoolInv
<1> QED
  BY <1>1, InHandKept DEF InHand, MapsInHand

(* MapsPair after a step, by the descriptors before it.                     *)
Paired ==
  \A k \in Keys :
    /\ UrlMatches(k)' \/ \E r \in Requests : /\ streamsMutex' = r /\ FdOf(r) = k
                                             /\ at'[r] \in {"dropStream", "storeUrl", "eraseUrl"}
    /\ LabelMatches(k)' \/ \E r \in Requests : /\ streamsMutex' = r /\ FdOf(r) = k
                                               /\ at'[r] \in {"dropRecorder", "storeLabel"}

LEMMA PairedKept ==
  ASSUME Safe, Orderly, Next
  PROVE  Paired
<1> DEFINE UrlSteps == {"dropStream", "storeUrl", "eraseUrl"}
           LabelSteps == {"dropRecorder", "storeLabel"}
<1>a. /\ at \in [Threads -> Steps] /\ local \in [Threads -> Locals]
      /\ Reactor \notin Requests /\ Reactor \in Threads /\ Requests \subseteq Threads
      /\ streams \in [Keys -> Requests \cup {None}] /\ recorders \in [Keys -> Requests \cup {None}]
      /\ streamUrls \in [Keys -> Urls] /\ labels \in [Keys -> Requests \cup {None}]
      /\ \A r \in Requests : at[r] # "idle" => FdOf(r) \in Keys
      /\ \A r \in Requests : streamsMutex = r <=> at[r] \in LockSteps
      /\ None \notin Requests /\ MapsInHand /\ at[Reactor] \in ReactorSteps
  BY OrderlyFacts, AtWork DEF Orderly, MapsMatch, Safe, PlaceInv
<1>b. ASSUME streamsMutex = None, NEW k \in Keys PROVE UrlMatches(k) /\ LabelMatches(k)
  BY <1>a, <1>b DEF Orderly, MapsMatch, MapsPair
<1>c. ASSUME NEW r \in Requests, streamsMutex = r, NEW k \in Keys
      PROVE  /\ UrlMatches(k) \/ (FdOf(r) = k /\ at[r] \in UrlSteps)
             /\ LabelMatches(k) \/ (FdOf(r) = k /\ at[r] \in LabelSteps)
  BY <1>c DEF Orderly, MapsMatch, MapsPair
<1>d. ASSUME UNCHANGED <<mapVars, streamsMutex>>,
             \A r \in Requests : at[r] \in LockSteps => at'[r] = at[r]
      PROVE  Paired
  <2>1. \A k \in Keys : (UrlMatches(k)' <=> UrlMatches(k)) /\ (LabelMatches(k)' <=> LabelMatches(k))
    BY <1>d DEF UrlMatches, LabelMatches, mapVars
  <2> QED
    BY <1>d, <2>1 DEF Orderly, MapsMatch, MapsPair, Paired, LockSteps
<1>e. ASSUME \A k \in Keys : UrlMatches(k)' /\ LabelMatches(k)' PROVE Paired
  BY <1>e DEF Paired
<1> HIDE DEF UrlSteps, LabelSteps
<1>1. CASE (\E c \in Conns, f \in Fds : Accept(c, f)) \/ (\E c \in Conns, kind \in Kinds : Receive(c, kind))
  BY <1>1, <1>d DEF Accept, Receive
<1>2. ASSUME NEW r \in Requests, Dispatch(r) \/ Reply(r) \/ FinalizeCall(r) PROVE Paired
  <2>1. UNCHANGED <<mapVars, streamsMutex>>
    BY <1>2 DEF Dispatch, Reply, FinalizeCall
  <2>2. at[r] \notin LockSteps
    BY <1>2, WasWaiting DEF Reply, FinalizeCall, LockSteps
  <2>3. \E s : at' = [at EXCEPT ![r] = s]
    BY <1>2 DEF Dispatch, Reply, FinalizeCall, Goes, Answers
  <2> QED
    BY <1>a, <1>d, <2>1, <2>2, <2>3
<1>3. ASSUME NEW r \in Requests, OpenStream(r) \/ LaunchRecorder(r) PROVE Paired
  <2>1. UNCHANGED <<mapVars, streamsMutex>> /\ at[r] \notin LockSteps
    BY <1>3 DEF OpenStream, LaunchRecorder, LockSteps
  <2>2. \E s : at' = [at EXCEPT ![r] = s]
    BY <1>3 DEF OpenStream, LaunchRecorder, Goes, Answers
  <2> QED
    BY <1>a, <1>d, <2>1, <2>2
<1>4. ASSUME NEW t \in Threads, StopStream(t) \/ StopRecorder(t) \/ AddRecords(t) PROVE Paired
  <2>1. UNCHANGED <<mapVars, streamsMutex>> /\ at[t] \notin LockSteps
    BY <1>4 DEF StopStream, StopRecorder, AddRecords, LockSteps
  <2>2. \E s : at' = [at EXCEPT ![t] = s]
    BY <1>4 DEF StopStream, StopRecorder, AddRecords, AfterFinalize, Goes, Answers
  <2> QED
    BY <1>a, <1>d, <2>1, <2>2
<1>5. CASE CloseShut \/ LeaveRun
  <2>1. UNCHANGED <<mapVars, streamsMutex>> /\ \A r \in Requests : at'[r] = at[r]
    BY <1>5, <1>a DEF CloseShut, LeaveRun, Goes
  <2> QED
    BY <1>d, <2>1
<1>6. ASSUME NEW r \in Requests, StoreStream(r) \/ TakeStream(r) PROVE Paired
  <2>1. /\ streamsMutex = None /\ streamsMutex' = r /\ at[r] # "idle"
        /\ UNCHANGED <<streamUrls, recorders, labels>>
        /\ \E v : streams' = [streams EXCEPT ![FdOf(r)] = v]
    BY <1>6 DEF StoreStream, TakeStream, Locks
  <2>2. at'[r] \in {"dropStream", "storeUrl", "eraseUrl"}
    BY <1>6, <1>a DEF StoreStream, TakeStream, Goes
  <2>3. \A k \in Keys : k # FdOf(r) => streams'[k] = streams[k]
    BY <1>a, <2>1
  <2> QED
    BY <1>b, <2>1, <2>2, <2>3 DEF Paired, UrlMatches, LabelMatches
<1>7. ASSUME NEW r \in Requests, DropStream(r) PROVE Paired
  <2>1. UNCHANGED <<mapVars, streamsMutex>> /\ at'[r] = "storeUrl" /\ streamsMutex = r
        /\ at[r] = "dropStream"
    BY <1>7, <1>a DEF DropStream, Goes, LockSteps
  <2> QED
    BY <1>c, <2>1 DEF Paired, UrlMatches, LabelMatches, mapVars, LabelSteps
<1>8. ASSUME NEW r \in Requests, StoreUrl(r) PROVE Paired
  <2>1. /\ at[r] = "storeUrl" /\ streamsMutex = r /\ UNCHANGED <<streams, recorders, labels>>
        /\ \E u : u # "none" /\ streamUrls' = [streamUrls EXCEPT ![FdOf(r)] = u]
    BY <1>8 DEF StoreUrl, Unlocks
  <2>2. streams[FdOf(r)] = r /\ FdOf(r) \in Keys
    BY <1>a, <2>1 DEF MapsInHand
  <2>3. \A k \in Keys : UrlMatches(k)'
    BY <1>a, <1>c, <2>1, <2>2 DEF UrlMatches
  <2>4. \A k \in Keys : LabelMatches(k)'
    BY <1>c, <2>1 DEF LabelMatches, LabelSteps
  <2> QED
    BY <1>e, <2>3, <2>4
<1>9. ASSUME NEW r \in Requests, EraseUrl(r) PROVE Paired
  <2>1. /\ at[r] = "eraseUrl" /\ streamsMutex = r /\ UNCHANGED <<streams, recorders, labels>>
        /\ streamUrls' = [streamUrls EXCEPT ![FdOf(r)] = "none"]
    BY <1>9 DEF EraseUrl, Unlocks
  <2>2. streams[FdOf(r)] = None /\ FdOf(r) \in Keys
    BY <1>a, <2>1 DEF MapsInHand
  <2>3. \A k \in Keys : UrlMatches(k)'
    BY <1>a, <1>c, <2>1, <2>2 DEF UrlMatches
  <2>4. \A k \in Keys : LabelMatches(k)'
    BY <1>c, <2>1 DEF LabelMatches, LabelSteps
  <2> QED
    BY <1>e, <2>3, <2>4
<1>10. ASSUME NEW r \in Requests, LookupUrl(r) PROVE Paired
  <2>1. streamsMutex = None /\ UNCHANGED mapVars
    BY <1>10 DEF LookupUrl, Locks
  <2> QED
    BY <1>b, <1>e, <2>1 DEF UrlMatches, LabelMatches, mapVars
<1>11. ASSUME NEW r \in Requests, CheckRecorder(r) PROVE Paired
  <2>1. streamsMutex = r /\ at[r] = "check" /\ UNCHANGED mapVars
    BY <1>11 DEF CheckRecorder, Unlocks
  <2> QED
    BY <1>c, <1>e, <2>1 DEF UrlMatches, LabelMatches, mapVars, UrlSteps, LabelSteps
<1>12. ASSUME NEW r \in Requests, StoreRecorder(r) PROVE Paired
  <2>1. /\ streamsMutex = None /\ streamsMutex' = r
        /\ UNCHANGED <<streams, streamUrls, labels>>
        /\ recorders' = [recorders EXCEPT ![FdOf(r)] = r]
    BY <1>12 DEF StoreRecorder, Locks
  <2>2. at'[r] \in {"dropRecorder", "storeLabel"}
    BY <1>12, <1>a DEF StoreRecorder, Goes
  <2>3. \A k \in Keys : k # FdOf(r) => recorders'[k] = recorders[k]
    BY <1>a, <2>1
  <2> QED
    BY <1>b, <2>1, <2>2, <2>3 DEF Paired, UrlMatches, LabelMatches
<1>13. ASSUME NEW r \in Requests, StoreLabel(r) PROVE Paired
  <2>1. /\ at[r] = "storeLabel" /\ streamsMutex = r /\ UNCHANGED <<streams, streamUrls, recorders>>
        /\ labels' = [labels EXCEPT ![FdOf(r)] = r]
    BY <1>13 DEF StoreLabel, Unlocks
  <2>2. recorders[FdOf(r)] = r /\ FdOf(r) \in Keys
    BY <1>a, <2>1 DEF MapsInHand
  <2>3. \A k \in Keys : LabelMatches(k)'
    BY <1>a, <1>c, <2>1, <2>2 DEF LabelMatches
  <2>4. \A k \in Keys : UrlMatches(k)'
    BY <1>c, <2>1 DEF UrlMatches, UrlSteps
  <2> QED
    BY <1>e, <2>3, <2>4
<1>14. ASSUME NEW t \in Threads, TakeRecorder(t) PROVE Paired
  <2>1. /\ streamsMutex = None /\ UNCHANGED <<streams, streamUrls>>
        /\ recorders' = [recorders EXCEPT ![local[t].key] = None]
        /\ labels' = [labels EXCEPT ![local[t].key] = None]
    BY <1>14 DEF TakeRecorder
  <2>2. \A k \in Keys : UrlMatches(k)'
    BY <1>b, <2>1 DEF UrlMatches
  <2>3. \A k \in Keys : LabelMatches(k)'
    BY <1>a, <1>b, <2>1 DEF LabelMatches
  <2> QED
    BY <1>e, <2>2, <2>3
<1>15. ASSUME NEW c \in Conns, Close(c) PROVE Paired
  <2>1. /\ streamsMutex = None /\ UNCHANGED <<recorders, labels>>
        /\ streams' = [streams EXCEPT ![connFd[c]] = None]
        /\ streamUrls' = [streamUrls EXCEPT ![connFd[c]] = "none"]
    BY <1>15 DEF Close
  <2>2. \A k \in Keys : UrlMatches(k)'
    BY <1>a, <1>b, <2>1 DEF UrlMatches
  <2>3. \A k \in Keys : LabelMatches(k)'
    BY <1>b, <2>1 DEF LabelMatches
  <2> QED
    BY <1>e, <2>2, <2>3
<1>16. CASE Destroy
  BY <1>16, <1>e DEF Destroy, UrlMatches, LabelMatches
<1>17. ASSUME NEW r \in Requests PROVE ~DropRecorder(r)
  BY <1>a DEF MapsInHand, DropRecorder
<1> QED
  BY <1>1, <1>2, <1>3, <1>4, <1>5, <1>6, <1>7, <1>8, <1>9, <1>10, <1>11, <1>12, <1>13, <1>14, <1>15, <1>16, <1>17
     DEF Next, Handler, Closing, Threads, StreamStart, StreamStop, RecordStart, Finalizing

LEMMA MapsPairKept ==
  ASSUME Safe, Orderly, Next
  PROVE  MapsPair'
<1>1. ASSUME NEW r \in Requests, at'[r] # "idle" PROVE FdOf(r)' = FdOf(r)
  BY <1>1, RunningWas, FdKept, PoolKept DEF PoolInv
<1> QED
  BY <1>1, PairedKept DEF Paired, MapsPair

LEMMA EndedStays ==
  ASSUME Safe, Next
  PROVE  at[Reactor] = "ended" => at'[Reactor] = "ended"
<1>a. /\ at \in [Threads -> Steps] /\ Reactor \in Threads /\ Requests \subseteq Threads
      /\ Reactor \notin Requests
  BY HandsTyped
<1> USE <1>a DEF Goes, Answers, poolVars
<1>1. CASE \E c \in Conns, f \in Fds : Accept(c, f)
  BY <1>1 DEF Accept
<1>2. CASE \E c \in Conns, kind \in Kinds : Receive(c, kind)
  BY <1>2 DEF Receive, Pool!Submit, Pool!Refuse
<1>3. ASSUME NEW r \in Requests, Dispatch(r) PROVE at[Reactor] = "ended" => at'[Reactor] = "ended"
  BY <1>3 DEF Dispatch, Pool!Start
<1>4. ASSUME NEW r \in Requests, Reply(r) PROVE at[Reactor] = "ended" => at'[Reactor] = "ended"
  BY <1>4 DEF Reply, Pool!Finish
<1>5. ASSUME NEW r \in Requests, OpenStream(r) \/ StoreStream(r) PROVE at[Reactor] = "ended" => at'[Reactor] = "ended"
  BY <1>5 DEF OpenStream, StoreStream
<1>6. ASSUME NEW r \in Requests, DropStream(r) \/ StoreUrl(r) PROVE at[Reactor] = "ended" => at'[Reactor] = "ended"
  BY <1>6 DEF DropStream, StoreUrl
<1>7. ASSUME NEW r \in Requests, StreamStop(r) \/ FinalizeCall(r) PROVE at[Reactor] = "ended" => at'[Reactor] = "ended"
  BY <1>7 DEF StreamStop, TakeStream, EraseUrl, FinalizeCall
<1>8. ASSUME NEW r \in Requests, LookupUrl(r) \/ CheckRecorder(r) PROVE at[Reactor] = "ended" => at'[Reactor] = "ended"
  BY <1>8 DEF LookupUrl, CheckRecorder
<1>9. ASSUME NEW r \in Requests, LaunchRecorder(r) \/ StoreRecorder(r) PROVE at[Reactor] = "ended" => at'[Reactor] = "ended"
  BY <1>9 DEF LaunchRecorder, StoreRecorder
<1>10. ASSUME NEW r \in Requests, DropRecorder(r) \/ StoreLabel(r) PROVE at[Reactor] = "ended" => at'[Reactor] = "ended"
  BY <1>10 DEF DropRecorder, StoreLabel
<1>11. ASSUME NEW t \in Threads, StopStream(t) \/ StopRecorder(t) PROVE at[Reactor] = "ended" => at'[Reactor] = "ended"
  BY <1>11 DEF StopStream, StopRecorder
<1>12. ASSUME NEW t \in Threads, TakeRecorder(t) PROVE at[Reactor] = "ended" => at'[Reactor] = "ended"
  BY <1>12 DEF TakeRecorder, AfterFinalize
<1>13. ASSUME NEW t \in Threads, AddRecords(t) PROVE at[Reactor] = "ended" => at'[Reactor] = "ended"
  BY <1>13 DEF AddRecords, AfterFinalize
<1>14. CASE \E c \in Conns : Close(c)
  BY <1>14 DEF Close
<1>15. CASE CloseShut \/ LeaveRun
  BY <1>15 DEF CloseShut, LeaveRun, Pool!Shut
<1>16. CASE Destroy
  BY <1>16 DEF Destroy
<1> QED
  BY <1>1, <1>2, <1>3, <1>4, <1>5, <1>6, <1>7, <1>8, <1>9, <1>10, <1>11, <1>12, <1>13, <1>14, <1>15, <1>16 DEF Next, Handler, Closing, Threads,
     StreamStart, StreamStop, RecordStart, Finalizing

(* A thread that stops or files a recorder got it from the map and keeps it. *)
FilingSteps == {"stopRecorder", "addRecords"}
FilingSteady ==
  \A t \in Threads : at'[t] \in FilingSteps =>
    \/ /\ at[t] \in FilingSteps /\ local'[t] = local[t]
       /\ at'[t] = at[t] \/ StopRecorder(t)
    \/ TakeRecorder(t) /\ recorders[local[t].key] # None

LEMMA FilingKept ==
  ASSUME Safe, Orderly, Next
  PROVE  FilingSteady
<1>a. /\ at \in [Threads -> Steps] /\ local \in [Threads -> Locals]
      /\ Reactor \notin Requests /\ Reactor \in Threads /\ Requests \subseteq Threads
  BY OrderlyFacts
<1> USE <1>a DEF FilingSteady, FilingSteps, Locals, Goes, Answers, poolVars, mapVars
<1>1. CASE \E c \in Conns, f \in Fds : Accept(c, f)
  BY <1>1 DEF Accept
<1>2. CASE \E c \in Conns, kind \in Kinds : Receive(c, kind)
  BY <1>2 DEF Receive, Pool!Submit, Pool!Refuse
<1>3. ASSUME NEW r \in Requests, Dispatch(r) PROVE FilingSteady
  BY <1>3 DEF Dispatch, Pool!Start
<1>4. ASSUME NEW r \in Requests, Reply(r) PROVE FilingSteady
  BY <1>4 DEF Reply, Pool!Finish
<1>5. ASSUME NEW r \in Requests, OpenStream(r) \/ StoreStream(r) PROVE FilingSteady
  BY <1>5 DEF OpenStream, StoreStream
<1>6. ASSUME NEW r \in Requests, DropStream(r) \/ StoreUrl(r) PROVE FilingSteady
  BY <1>6 DEF DropStream, StoreUrl
<1>7. ASSUME NEW r \in Requests, StreamStop(r) \/ FinalizeCall(r) PROVE FilingSteady
  BY <1>7 DEF StreamStop, TakeStream, EraseUrl, FinalizeCall
<1>8. ASSUME NEW r \in Requests, LookupUrl(r) \/ CheckRecorder(r) PROVE FilingSteady
  BY <1>8 DEF LookupUrl, CheckRecorder
<1>9. ASSUME NEW r \in Requests, LaunchRecorder(r) \/ StoreRecorder(r) PROVE FilingSteady
  BY <1>9 DEF LaunchRecorder, StoreRecorder
<1>10. ASSUME NEW r \in Requests, DropRecorder(r) \/ StoreLabel(r) PROVE FilingSteady
  BY <1>10 DEF DropRecorder, StoreLabel
<1>11. ASSUME NEW t \in Threads, StopStream(t) \/ StopRecorder(t) PROVE FilingSteady
  BY <1>11 DEF StopStream, StopRecorder
<1>12. ASSUME NEW t \in Threads, TakeRecorder(t) PROVE FilingSteady
  <2>1. \A u \in Threads : u # t => at'[u] = at[u] /\ local'[u] = local[u]
    BY <1>12 DEF TakeRecorder, AfterFinalize
  <2>2. recorders[local[t].key] = None => at'[t] \notin FilingSteps
    BY <1>12 DEF TakeRecorder, AfterFinalize
  <2> QED
    BY <1>12, <2>1, <2>2
<1>13. ASSUME NEW t \in Threads, AddRecords(t) PROVE FilingSteady
  BY <1>13 DEF AddRecords, AfterFinalize
<1>14. CASE \E c \in Conns : Close(c)
  BY <1>14 DEF Close
<1>15. CASE CloseShut \/ LeaveRun
  BY <1>15 DEF CloseShut, LeaveRun, Pool!Shut
<1>16. CASE Destroy
  BY <1>16 DEF Destroy
<1> QED
  BY <1>1, <1>2, <1>3, <1>4, <1>5, <1>6, <1>7, <1>8, <1>9, <1>10, <1>11, <1>12, <1>13, <1>14, <1>15, <1>16 DEF Next, Handler, Closing, Threads,
     StreamStart, StreamStop, RecordStart, Finalizing

LEMMA FilesOwnKept ==
  ASSUME Safe, Orderly, Next
  PROVE  FilesOwn'
<1>a. ASSUME NEW t \in Threads, TakeRecorder(t), recorders[local[t].key] # None
      PROVE  /\ local'[t].item \in Requests /\ local'[t].label = local'[t].item
             /\ FdOf(local'[t].item) = KeyOf(t) /\ local'[t].key = local[t].key
  <2>1. PICK k \in Keys, r \in Requests : k = local[t].key /\ r = recorders[k]
    BY <1>a, HandsTyped DEF Locals
  <2>2. local' = [local EXCEPT ![t].item = r, ![t].label = labels[k]] /\ streamsMutex = None
    BY <1>a, <2>1 DEF TakeRecorder
  <2>3. LabelMatches(k) /\ FdOf(r) = k
    BY <2>1, <2>2, HandsTyped DEF Orderly, MapsMatch, MapsPair, MapsOwn
  <2>4. KeyOf(t) = k
    BY <1>a, <2>1, HandsTyped DEF TakeRecorder, KeyOf, Orderly, OneAtATime, Threads
  <2> QED
    BY <2>1, <2>2, <2>3, <2>4, HandsTyped DEF LabelMatches, Locals
<1>1. ASSUME NEW t \in Threads, at'[t] \in FilingSteps PROVE local'[t].label = local'[t].item
  BY <1>1, <1>a, FilingKept DEF FilingSteady, FilingSteps, Orderly, FilesOwn
<1>2. ASSUME NEW t \in Threads, at'[t] = "stopRecorder"
      PROVE  FdOf(local[t].item)' = KeyOf(t)'
  <2>1. PICK r \in Requests : r = local'[t].item
    BY <1>2, SafeKept, HandsTyped DEF Safe, RecorderInv
  <2>2. FdOf(r) = KeyOf(t) /\ local'[t].key = local[t].key /\ r \in Dispatched
    <3>1. CASE TakeRecorder(t) /\ recorders[local[t].key] # None
      <4>1. recorders[local[t].key] = r
        BY <2>1, <3>1, HandsTyped DEF TakeRecorder, Locals
      <4>2. local[t].key \in Keys
        BY HandsTyped DEF Locals
      <4>3. r \in Dispatched
        BY <4>1, <4>2, HandsTyped DEF RecorderInv, Dispatched
      <4> QED
        BY <1>a, <2>1, <3>1, <4>3
    <3>2. CASE at[t] = "stopRecorder" /\ local'[t] = local[t]
      BY <2>1, <3>2, HandsTyped DEF Orderly, FilesOwn, Safe, KnownInv
    <3>3. StopRecorder(t) => at'[t] = "addRecords"
      BY HandsTyped DEF StopRecorder, Goes
    <3> QED
      BY <1>2, <3>1, <3>2, <3>3, FilingKept DEF FilingSteady, FilingSteps
  <2>3. FdOf(r)' = FdOf(r)
    <3>1. ~Destroy
      BY <1>2, HandsTyped, OrderlyFacts DEF Destroy, Goes, Safe, PoolInv, Threads
    <3>2. ~(at[Reactor] = "shut" /\ FdOf(r) = local[Reactor].key)
      <4>1. CASE t = Reactor
        BY <1>2, <4>1, FilingKept DEF FilingSteady, FilingSteps, TakeRecorder
      <4>2. CASE t # Reactor /\ at[Reactor] = "shut"
        <5>1. t \in running
          BY <1>2, <4>2, FilingKept, HandsTyped DEF FilingSteady, FilingSteps, TakeRecorder, Threads
        <5> QED
          BY <2>2, <4>2, <5>1, OrderlyFacts DEF KeyOf, Closes, InPool
      <4> QED
        BY <4>1, <4>2
    <3> QED
      BY <2>2, <3>1, <3>2, FdKept
  <2>4. KeyOf(t)' = KeyOf(t)
    <3>1. CASE t = Reactor
      BY <2>2, <3>1 DEF KeyOf
    <3>2. CASE t # Reactor
      <4>1. t \in InPool
        BY <1>2, <3>2, FilingKept, HandsTyped DEF FilingSteady, FilingSteps, TakeRecorder, Threads, InPool
      <4> QED
        BY <3>2, <4>1, FdKept DEF KeyOf
    <3> QED
      BY <3>1, <3>2
  <2> QED
    BY <2>1, <2>2, <2>3, <2>4 DEF FdOf
<1>3. ASSUME at'[Reactor] # "ended", NEW r \in Requests, recorder'[r] = "stopped"
      PROVE  \/ \E t \in Threads : at'[t] = "addRecords" /\ local'[t].item = r
             \/ rows'[r] # <<>> /\ rows'[r][1].label = r
  <2> DEFINE Filed == \/ \E t \in Threads : at'[t] = "addRecords" /\ local'[t].item = r
                      \/ rows'[r] # <<>> /\ rows'[r][1].label = r
  <2>a. at[Reactor] # "ended"
    BY <1>3, EndedStays
  <2>b. ASSUME recorder[r] = "stopped"
        PROVE  \/ \E t \in Threads : at[t] = "addRecords" /\ local[t].item = r
               \/ rows[r] # <<>> /\ rows[r][1].label = r
    BY <2>a, <2>b DEF Orderly, FilesOwn
  <2>1. CASE HandsStill
    <3>1. recorder[r] = "stopped" /\ rows' = rows
      BY <1>3, <2>1 DEF HandsStill
    <3>2. \A t \in Threads : at[t] = "addRecords" => at'[t] = "addRecords" /\ local'[t].item = local[t].item
      BY <2>1 DEF HandsStill, HoldSteps
    <3> QED
      BY <2>b, <3>1, <3>2
  <2>2. ASSUME NEW t \in Threads, at[t] # "addRecords", UNCHANGED rows, recorder[r] = "stopped",
               \A u \in Threads : u # t => at'[u] = at[u] /\ local'[u].item = local[u].item
        PROVE  Filed
    BY <2>b, <2>2
  <2>3. ASSUME NEW q \in Requests, LaunchRecorder(q) \/ StoreRecorder(q)
        PROVE  Filed
    <3>1. UNCHANGED rows /\ at[q] # "addRecords" /\ q \in Threads
      BY <2>3, HandsTyped DEF LaunchRecorder, StoreRecorder, workVars
    <3>2. recorder[r] = "stopped"
      BY <1>3, <2>3, HandsTyped DEF LaunchRecorder, StoreRecorder, workVars
    <3>3. \A u \in Threads : u # q => at'[u] = at[u] /\ local'[u].item = local[u].item
      BY <2>3, HandsTyped DEF LaunchRecorder, StoreRecorder, Goes, Answers, Locals
    <3> QED
      BY <2>2, <3>1, <3>2, <3>3
  <2>4. ASSUME NEW t \in Threads, TakeRecorder(t)
        PROVE  Filed
    <3>1. UNCHANGED <<rows, recorder>> /\ at[t] # "addRecords"
      BY <2>4 DEF TakeRecorder, workVars
    <3>2. \A u \in Threads : u # t => at'[u] = at[u] /\ local'[u].item = local[u].item
      BY <2>4, HandsTyped DEF TakeRecorder, AfterFinalize, Goes, Answers, Locals
    <3> QED
      BY <1>3, <2>2, <3>1, <3>2
  <2>5. ASSUME NEW t \in Threads, StopRecorder(t)
        PROVE  Filed
    <3>1. /\ at'[t] = "addRecords" /\ local' = local /\ at[t] # "addRecords" /\ UNCHANGED rows
          /\ \A u \in Threads : u # t => at'[u] = at[u]
      BY <2>5, HandsTyped DEF StopRecorder, Goes
    <3>2. CASE local[t].item = r
      BY <3>1, <3>2
    <3>3. CASE local[t].item # r
      <4>1. recorder[r] = "stopped"
        BY <1>3, <2>5, <3>3, HandsTyped DEF StopRecorder
      <4> QED
        BY <2>2, <3>1, <4>1
    <3> QED
      BY <3>2, <3>3
  <2>6. ASSUME NEW t \in Threads, AddRecords(t)
        PROVE  Filed
    <3>1. PICK q \in Requests : q = local[t].item /\ local[t].label = q /\ at[t] = "addRecords" /\ Held(t, q)
      BY <2>6, HandsTyped DEF AddRecords, RecorderInv, Orderly, FilesOwn, Held
    <3>2. PICK stored \in BOOLEAN :
            rows' = [rows EXCEPT ![q] = Append(rows[q], [label |-> q, stored |-> stored])]
      BY <2>6, <3>1 DEF AddRecords
    <3>3. UNCHANGED recorder
      BY <2>6 DEF AddRecords
    <3>4. \A u \in Threads : u # t => at'[u] = at[u] /\ local'[u].item = local[u].item
      BY <2>6, HandsTyped DEF AddRecords, AfterFinalize, Goes, Answers, Locals
    <3>5. CASE q = r
      <4>1. rows[q] = <<>>
        BY <3>1, HandsTyped DEF FiledInv
      <4>2. rows'[q] = Append(<<>>, [label |-> q, stored |-> stored])
        BY <3>2, <4>1 DEF Safe, TypeOK
      <4>3. rows'[q] # <<>> /\ rows'[q][1] = [label |-> q, stored |-> stored]
        BY <4>2
      <4> QED
        BY <3>5, <4>3
    <3>6. CASE q # r
      <4>1. rows'[r] = rows[r]
        BY <3>2, <3>6 DEF Safe, TypeOK
      <4>2. \A u \in Threads : at[u] = "addRecords" /\ local[u].item = r => u # t
        BY <3>1, <3>6
      <4> QED
        BY <1>3, <2>b, <3>3, <3>4, <4>1, <4>2
    <3> QED
      BY <3>5, <3>6
  <2>7. ~Destroy /\ \A q \in Requests : ~DropRecorder(q)
    BY <1>3, HandsTyped DEF Destroy, Goes, DropRecorder, Orderly, MapsMatch, MapsInHand
  <2> QED
    BY <2>1, <2>3, <2>4, <2>5, <2>6, <2>7, HandsMove
<1> QED
  BY <1>1, <1>2, <1>3 DEF FilesOwn, FilingSteps

(* Where the sessions that run are, by the descriptors before a step.       *)
TakenSteps == {"eraseUrl", "stopStream", "dropStream"}

SessionsAre ==
  \A r \in Requests : session[r] = "running" =>
    \/ at[r] = "storeStream"
    \/ \E k \in Keys : streams[k] = r
    \/ \E t \in Threads : at[t] \in TakenSteps /\ local[t].item = r /\ FdOf(r) = KeyOf(t)

TakenFrom(t, r) ==
  \/ /\ at[t] \in TakenSteps /\ local[t].item = r /\ FdOf(r) = KeyOf(t)
     /\ local'[t].key = local[t].key
  \/ t \in running /\ t \in Requests /\ streams[FdOf(t)] = r /\ FdOf(t) \in Keys
  \/ t = Reactor /\ streams[local'[t].key] = r /\ local'[t].key \in Keys

SessionsMove ==
  \A r \in Requests : session'[r] = "running" =>
    \/ at'[r] = "storeStream"
    \/ \E k \in Keys : streams'[k] = r
    \/ \E t \in Threads : at'[t] \in TakenSteps /\ local'[t].item = r /\ TakenFrom(t, r)

LEMMA SessionsMoveKept ==
  ASSUME Safe, Orderly, Next
  PROVE  SessionsMove
<1>a. /\ at \in [Threads -> Steps] /\ local \in [Threads -> Locals]
      /\ Reactor \notin Requests /\ Reactor \in Threads /\ Requests \subseteq Threads
      /\ None \notin Requests
      /\ streams \in [Keys -> Requests \cup {None}] /\ connFd \in [Conns -> Keys]
      /\ session \in [Requests -> {"none", "running", "stopped"}]
      /\ \A r \in Requests : at[r] # "idle" => FdOf(r) \in Keys /\ r \in running
      /\ SessionsAre
  BY OrderlyFacts, AtWork DEF Orderly, SessionsFollow, SessionsAre, TakenSteps, Safe, TypeOK
<1>b. ASSUME UNCHANGED <<streams, session>>,
             \A t \in Threads : at[t] \in {"storeStream", "eraseUrl", "stopStream", "dropStream"}
                                => at'[t] = at[t] /\ local'[t] = local[t]
      PROVE  SessionsMove
  BY <1>a, <1>b DEF SessionsAre, SessionsMove, TakenSteps, TakenFrom
<1>c. ASSUME NEW t \in Threads, NEW s \in Steps, at' = [at EXCEPT ![t] = s],
             at[t] \notin {"storeStream", "eraseUrl", "stopStream", "dropStream"},
             \A u \in Threads : u # t => local'[u] = local[u], UNCHANGED <<streams, session>>
      PROVE  SessionsMove
  BY <1>a, <1>b, <1>c
<1>1. CASE (\E c \in Conns, f \in Fds : Accept(c, f)) \/ (\E c \in Conns, kind \in Kinds : Receive(c, kind))
  BY <1>1, <1>b DEF Accept, Receive, mapVars, workVars
<1>2. ASSUME NEW r \in Requests, Dispatch(r) \/ Reply(r) \/ FinalizeCall(r) PROVE SessionsMove
  <2>1. UNCHANGED <<streams, session>> /\ \E s \in Steps : at' = [at EXCEPT ![r] = s]
    BY <1>2 DEF Dispatch, Reply, FinalizeCall, Goes, Answers, mapVars, workVars, Steps
  <2>2. at[r] \notin {"storeStream", "eraseUrl", "stopStream", "dropStream"}
    BY <1>2, WasWaiting DEF Reply, FinalizeCall
  <2>3. \A u \in Threads : u # r => local'[u] = local[u]
    BY <1>2, <1>a DEF Dispatch, Reply, FinalizeCall
  <2> QED
    BY <1>a, <1>c, <2>1, <2>2, <2>3
<1>3. ASSUME NEW r \in Requests, LookupUrl(r) \/ CheckRecorder(r) PROVE SessionsMove
  <2>1. UNCHANGED <<streams, session>> /\ \E s \in Steps : at' = [at EXCEPT ![r] = s]
    BY <1>3 DEF LookupUrl, CheckRecorder, Goes, Answers, mapVars, workVars, Steps
  <2>2. at[r] \notin {"storeStream", "eraseUrl", "stopStream", "dropStream"}
    BY <1>3 DEF LookupUrl, CheckRecorder
  <2>3. \A u \in Threads : u # r => local'[u] = local[u]
    BY <1>3, <1>a DEF LookupUrl, CheckRecorder
  <2> QED
    BY <1>a, <1>c, <2>1, <2>2, <2>3
<1>4. ASSUME NEW r \in Requests, LaunchRecorder(r) \/ StoreRecorder(r) PROVE SessionsMove
  <2>1. UNCHANGED <<streams, session>> /\ \E s \in Steps : at' = [at EXCEPT ![r] = s]
    BY <1>4 DEF LaunchRecorder, StoreRecorder, Goes, Answers, mapVars, workVars, Steps
  <2>2. at[r] \notin {"storeStream", "eraseUrl", "stopStream", "dropStream"}
    BY <1>4 DEF LaunchRecorder, StoreRecorder
  <2>3. \A u \in Threads : u # r => local'[u] = local[u]
    BY <1>4, <1>a DEF LaunchRecorder, StoreRecorder
  <2> QED
    BY <1>a, <1>c, <2>1, <2>2, <2>3
<1>5. ASSUME NEW r \in Requests, DropRecorder(r) \/ StoreLabel(r) PROVE SessionsMove
  <2>1. UNCHANGED <<streams, session>> /\ \E s \in Steps : at' = [at EXCEPT ![r] = s]
    BY <1>5 DEF DropRecorder, StoreLabel, Goes, Answers, mapVars, workVars, Steps
  <2>2. at[r] \notin {"storeStream", "eraseUrl", "stopStream", "dropStream"}
    BY <1>5 DEF DropRecorder, StoreLabel
  <2>3. \A u \in Threads : u # r => local'[u] = local[u]
    BY <1>5, <1>a DEF DropRecorder, StoreLabel
  <2> QED
    BY <1>a, <1>c, <2>1, <2>2, <2>3
<1>6. ASSUME NEW t \in Threads, TakeRecorder(t) \/ StopRecorder(t) \/ AddRecords(t) PROVE SessionsMove
  <2>1. UNCHANGED <<streams, session>> /\ \E s \in Steps : at' = [at EXCEPT ![t] = s]
    BY <1>6 DEF TakeRecorder, StopRecorder, AddRecords, AfterFinalize, Goes, Answers, mapVars, workVars, Steps
  <2>2. at[t] \notin {"storeStream", "eraseUrl", "stopStream", "dropStream"}
    BY <1>6 DEF TakeRecorder, StopRecorder, AddRecords
  <2>3. \A u \in Threads : u # t => local'[u] = local[u]
    BY <1>6, <1>a DEF TakeRecorder, StopRecorder, AddRecords
  <2> QED
    BY <1>a, <1>c, <2>1, <2>2, <2>3
<1>7. CASE CloseShut \/ LeaveRun
  <2>1. UNCHANGED <<streams, session>> /\ \E s \in Steps : at' = [at EXCEPT ![Reactor] = s]
    BY <1>7 DEF CloseShut, LeaveRun, Goes, mapVars, workVars, Steps
  <2>2. at[Reactor] \notin {"storeStream", "eraseUrl", "stopStream", "dropStream"}
    BY <1>7 DEF CloseShut, LeaveRun
  <2>3. \A u \in Threads : u # Reactor => local'[u] = local[u]
    BY <1>7, <1>a DEF CloseShut, LeaveRun
  <2> QED
    BY <1>a, <1>c, <2>1, <2>2, <2>3
<1>8. ASSUME NEW r \in Requests, OpenStream(r) \/ StoreUrl(r) PROVE SessionsMove
  <2>1. /\ streams' = streams /\ local' = local /\ at[r] \notin {"storeStream", "eraseUrl", "stopStream", "dropStream"}
        /\ \A u \in Threads : u # r => at'[u] = at[u]
    BY <1>8, <1>a DEF OpenStream, StoreUrl, Goes, Answers, mapVars
  <2>2. \A q \in Requests : session'[q] = session[q] \/ (q = r /\ at'[r] = "storeStream")
    BY <1>8, <1>a DEF OpenStream, StoreUrl, Goes, workVars
  <2> QED
    BY <1>a, <2>1, <2>2 DEF SessionsAre, SessionsMove, TakenSteps, TakenFrom
<1>9. ASSUME NEW r \in Requests, StoreStream(r) PROVE SessionsMove
  <2>1. PICK f \in Keys : f = FdOf(r) /\ r \in running
    BY <1>9, <1>a DEF StoreStream
  <2>2. /\ streams' = [streams EXCEPT ![f] = r] /\ session' = session
        /\ local' = [local EXCEPT ![r].item = streams[f]]
        /\ at' = [at EXCEPT ![r] = IF streams[f] # None THEN "dropStream" ELSE "storeUrl"]
        /\ at[r] = "storeStream"
    BY <1>9, <2>1 DEF StoreStream, Goes, workVars
  <2>3. /\ local'[r].item = streams[f] /\ \A u \in Threads : u # r => at'[u] = at[u] /\ local'[u] = local[u]
        /\ streams[f] # None => at'[r] = "dropStream"
    BY <2>2, <1>a DEF Locals
  <2>4. ASSUME NEW q \in Requests, session[q] = "running"
        PROVE  \/ at'[q] = "storeStream"
               \/ \E k \in Keys : streams'[k] = q
               \/ \E t \in Threads : at'[t] \in TakenSteps /\ local'[t].item = q /\ TakenFrom(t, q)
    <3>1. CASE at[q] = "storeStream"
      BY <1>a, <2>1, <2>2, <2>3, <3>1
    <3>2. ASSUME NEW k \in Keys, streams[k] = q
          PROVE  \/ \E j \in Keys : streams'[j] = q
                 \/ \E t \in Threads : at'[t] \in TakenSteps /\ local'[t].item = q /\ TakenFrom(t, q)
      BY <1>a, <2>1, <2>2, <2>3, <3>2 DEF TakenSteps, TakenFrom
    <3>3. ASSUME NEW t \in Threads, at[t] \in TakenSteps, local[t].item = q, FdOf(q) = KeyOf(t)
          PROVE  at'[t] \in TakenSteps /\ local'[t].item = q /\ TakenFrom(t, q)
      BY <2>2, <2>3, <3>3 DEF TakenSteps, TakenFrom
    <3> QED
      BY <1>a, <2>4, <3>1, <3>2, <3>3 DEF SessionsAre
  <2> QED
    BY <2>2, <2>4 DEF SessionsMove
<1>10. ASSUME NEW r \in Requests, TakeStream(r) PROVE SessionsMove
  <2>1. PICK f \in Keys : f = FdOf(r) /\ r \in running
    BY <1>10, <1>a DEF TakeStream
  <2>2. /\ streams' = [streams EXCEPT ![f] = None] /\ session' = session
        /\ local' = [local EXCEPT ![r].item = streams[f]]
        /\ at' = [at EXCEPT ![r] = "eraseUrl"] /\ at[r] = "takeStream"
    BY <1>10, <2>1 DEF TakeStream, Goes, workVars
  <2>3. /\ local'[r].item = streams[f] /\ \A u \in Threads : u # r => at'[u] = at[u] /\ local'[u] = local[u]
        /\ at'[r] = "eraseUrl"
    BY <2>2, <1>a DEF Locals
  <2>4. ASSUME NEW q \in Requests, session[q] = "running"
        PROVE  \/ at'[q] = "storeStream"
               \/ \E k \in Keys : streams'[k] = q
               \/ \E t \in Threads : at'[t] \in TakenSteps /\ local'[t].item = q /\ TakenFrom(t, q)
    <3>1. CASE at[q] = "storeStream"
      BY <1>a, <2>2, <2>3, <3>1
    <3>2. ASSUME NEW k \in Keys, streams[k] = q
          PROVE  \/ \E j \in Keys : streams'[j] = q
                 \/ \E t \in Threads : at'[t] \in TakenSteps /\ local'[t].item = q /\ TakenFrom(t, q)
      BY <1>a, <2>1, <2>2, <2>3, <3>2 DEF TakenSteps, TakenFrom
    <3>3. ASSUME NEW t \in Threads, at[t] \in TakenSteps, local[t].item = q, FdOf(q) = KeyOf(t)
          PROVE  at'[t] \in TakenSteps /\ local'[t].item = q /\ TakenFrom(t, q)
      BY <2>2, <2>3, <3>3 DEF TakenSteps, TakenFrom
    <3> QED
      BY <1>a, <2>4, <3>1, <3>2, <3>3 DEF SessionsAre
  <2> QED
    BY <2>2, <2>4 DEF SessionsMove
<1>11. ASSUME NEW c \in Conns, Close(c) PROVE SessionsMove
  <2>1. PICK f \in Keys : f = connFd[c]
    BY <1>a
  <2>2. /\ streams' = [streams EXCEPT ![f] = None] /\ session' = session
        /\ local' = [local EXCEPT ![Reactor].key = f, ![Reactor].item = streams[f]]
        /\ at' = [at EXCEPT ![Reactor] = IF streams[f] # None THEN "stopStream" ELSE "takeRecorder"]
        /\ at[Reactor] = "idle"
    BY <1>11, <2>1 DEF Close, Goes, workVars
  <2>3. /\ local'[Reactor].item = streams[f] /\ local'[Reactor].key = f
        /\ \A u \in Threads : u # Reactor => at'[u] = at[u] /\ local'[u] = local[u]
        /\ streams[f] # None => at'[Reactor] = "stopStream"
    BY <2>2, <1>a DEF Locals
  <2>4. ASSUME NEW q \in Requests, session[q] = "running"
        PROVE  \/ at'[q] = "storeStream"
               \/ \E k \in Keys : streams'[k] = q
               \/ \E t \in Threads : at'[t] \in TakenSteps /\ local'[t].item = q /\ TakenFrom(t, q)
    <3>1. CASE at[q] = "storeStream"
      BY <1>a, <2>2, <2>3, <3>1
    <3>2. ASSUME NEW k \in Keys, streams[k] = q
          PROVE  \/ \E j \in Keys : streams'[j] = q
                 \/ \E t \in Threads : at'[t] \in TakenSteps /\ local'[t].item = q /\ TakenFrom(t, q)
      BY <1>a, <2>1, <2>2, <2>3, <3>2 DEF TakenSteps, TakenFrom
    <3>3. ASSUME NEW t \in Threads, at[t] \in TakenSteps, local[t].item = q, FdOf(q) = KeyOf(t)
          PROVE  at'[t] \in TakenSteps /\ local'[t].item = q /\ TakenFrom(t, q)
      BY <2>2, <2>3, <3>3 DEF TakenSteps, TakenFrom
    <3> QED
      BY <1>a, <2>4, <3>1, <3>2, <3>3 DEF SessionsAre
  <2> QED
    BY <2>2, <2>4 DEF SessionsMove
<1>12. ASSUME NEW r \in Requests, EraseUrl(r) PROVE SessionsMove
  <2>1. /\ UNCHANGED <<streams, session, local>> /\ at[r] = "eraseUrl"
        /\ at' = [at EXCEPT ![r] = IF local[r].item # None THEN "stopStream" ELSE "finalize"]
    BY <1>12 DEF EraseUrl, Goes, workVars
  <2>2. /\ \A u \in Threads : u # r => at'[u] = at[u]
        /\ local[r].item # None => at'[r] = "stopStream"
    BY <2>1, <1>a
  <2> QED
    BY <1>a, <2>1, <2>2 DEF SessionsAre, SessionsMove, TakenSteps, TakenFrom
<1>13. ASSUME NEW t \in Threads, StopStream(t) \/ DropStream(t) PROVE SessionsMove
  <2>1. /\ UNCHANGED streams /\ at[t] \in {"stopStream", "dropStream"}
        /\ session' = [session EXCEPT ![local[t].item] = "stopped"]
        /\ \A u \in Threads : u # t => at'[u] = at[u] /\ local'[u] = local[u]
    BY <1>13, <1>a DEF StopStream, DropStream, Goes, mapVars
  <2>2. \A q \in Requests : session'[q] = "running" => session[q] = "running" /\ q # local[t].item
    BY <1>a, <2>1
  <2> QED
    BY <1>a, <2>1, <2>2 DEF SessionsAre, SessionsMove, TakenSteps, TakenFrom
<1>14. CASE Destroy
  <2>0. running = {} /\ at[Reactor] = "drain"
    BY <1>14 DEF Destroy
  <2>1. \A t \in Threads : at[t] = "idle" \/ (t = Reactor /\ at[t] = "drain")
    BY <1>a, <2>0 DEF Threads
  <2>2. \A r \in Requests : session'[r] = IF \E k \in Keys : streams[k] = r THEN "stopped" ELSE session[r]
    BY <1>14 DEF Destroy
  <2> QED
    BY <1>a, <2>1, <2>2 DEF SessionsAre, SessionsMove, TakenSteps
<1> QED
  BY <1>1, <1>2, <1>3, <1>4, <1>5, <1>6, <1>7, <1>8, <1>9, <1>10, <1>11, <1>12, <1>13, <1>14
     DEF Next, Handler, Closing, Threads, StreamStart, StreamStop, RecordStart, Finalizing

LEMMA SessionsFollowKept ==
  ASSUME Safe, Orderly, Next
  PROVE  SessionsFollow'
<1>1. ASSUME NEW r \in Requests, NEW k \in Keys, streams'[k] = r
      PROVE  FdOf(r)' = k
  BY <1>1, MapsOwnKept DEF MapsOwn
<1>2. ASSUME NEW r \in Requests, NEW t \in Threads, session'[r] = "running",
             at'[t] \in TakenSteps, local'[t].item = r, TakenFrom(t, r)
      PROVE  FdOf(r)' = KeyOf(t)'
  <2>1. r \in Dispatched
    <3>1. (\E k \in Keys : streams[k] = r) \/ local[t].item = r => r \in Dispatched
      BY OrderlyFacts DEF Safe, KnownInv
    <3> QED
      BY <1>2, <3>1 DEF TakenFrom
  <2>2. ~Destroy
    BY <1>2, OrderlyFacts DEF Destroy, Goes, TakenSteps, Safe, PoolInv, Threads
  <2>3. t # Reactor => t \in InPool /\ FdOf(t)' = FdOf(t)
    <3>1. t # Reactor => t \in running'
      BY <1>2, SafeKept DEF Safe, PoolInv, TakenSteps, Threads
    <3> QED
      BY <3>1, RunningWas, FdKept
  <2>4. t # Reactor /\ at[Reactor] = "shut" => FdOf(t) # local[Reactor].key
    BY <2>3 DEF Orderly, ClosesAlone
  <2>5. ASSUME at[t] \in TakenSteps, FdOf(r) = KeyOf(t), local'[t].key = local[t].key
        PROVE  FdOf(r)' = KeyOf(t)'
    <3>1. CASE t = Reactor
      BY <2>1, <2>2, <2>5, <3>1, FdKept DEF KeyOf, TakenSteps
    <3>2. CASE t # Reactor
      BY <2>1, <2>2, <2>3, <2>5, <2>4, <3>2, FdKept DEF KeyOf
    <3> QED
      BY <3>1, <3>2
  <2>6. ASSUME t \in running, t \in Requests, streams[FdOf(t)] = r, FdOf(t) \in Keys
        PROVE  FdOf(r)' = KeyOf(t)'
    <3>1. FdOf(r) = FdOf(t) /\ t # Reactor
      BY <2>6, OrderlyFacts DEF Orderly, MapsMatch, MapsOwn
    <3> QED
      BY <2>1, <2>2, <2>3, <2>4, <3>1, FdKept DEF KeyOf
  <2>7. ASSUME t = Reactor, streams[local'[t].key] = r, local'[t].key \in Keys
        PROVE  FdOf(r)' = KeyOf(t)'
    <3>1. FdOf(r) = local'[Reactor].key
      BY <2>7 DEF Orderly, MapsMatch, MapsOwn
    <3>2. ~(at[Reactor] = "shut" /\ FdOf(r) = local[Reactor].key)
      BY <2>7, <3>1, OrderlyFacts DEF Orderly, ClosesAlone
    <3> QED
      BY <2>1, <2>2, <2>7, <3>1, <3>2, FdKept DEF KeyOf
  <2> QED
    BY <1>2, <2>5, <2>6, <2>7 DEF TakenFrom
<1> QED
  BY <1>1, <1>2, SessionsMoveKept DEF SessionsMove, SessionsFollow, TakenSteps

-------------------------------------------------------------------------------
(* The inductive invariant holds.                                           *)

LEMMA OrderlyKept ==
  ASSUME Safe, Orderly, orderly', Next
  PROVE  Orderly'
<1>1. MapsMatch'
  BY MapsOwnKept, MapsPairKept, MapsInHandKept DEF MapsMatch
<1> QED
  BY <1>1, OneAtATimeKept, ClosesAloneKept, FilesOwnKept, SessionsFollowKept DEF Orderly

(* A schedule that has been disorderly stays so.                            *)
LEMMA OrderlyBack ==
  ASSUME Safe, Next, orderly'
  PROVE  orderly
<1> USE DEF poolVars
<1>1. CASE (\E c \in Conns, f \in Fds : Accept(c, f)) \/ (\E c \in Conns, kind \in Kinds : Receive(c, kind))
  BY <1>1 DEF Accept, Receive
<1>2. ASSUME NEW r \in Requests, Dispatch(r) \/ Reply(r) \/ FinalizeCall(r) PROVE orderly
  BY <1>2 DEF Dispatch, Reply, FinalizeCall, Safe, TypeOK
<1>3. ASSUME NEW r \in Requests, StreamStart(r) \/ StreamStop(r) PROVE orderly
  BY <1>3 DEF StreamStart, OpenStream, StoreStream, DropStream, StoreUrl, StreamStop, TakeStream, EraseUrl
<1>4. ASSUME NEW r \in Requests, RecordStart(r) PROVE orderly
  BY <1>4 DEF RecordStart, LookupUrl, CheckRecorder, LaunchRecorder, StoreRecorder, DropRecorder, StoreLabel
<1>5. ASSUME NEW t \in Threads, Finalizing(t) PROVE orderly
  BY <1>5 DEF Finalizing, StopStream, TakeRecorder, StopRecorder, AddRecords
<1>6. CASE (\E c \in Conns : Close(c)) \/ CloseShut \/ LeaveRun \/ Destroy
  BY <1>6 DEF Close, CloseShut, LeaveRun, Destroy, Safe, TypeOK
<1> QED
  BY <1>1, <1>2, <1>3, <1>4, <1>5, <1>6 DEF Next, Handler, Closing, Threads

LEMMA OrderlyInit == Init => Orderly
<1> SUFFICES ASSUME Init PROVE Orderly
  OBVIOUS
<1> USE MediaControlAssumption
<1>1. /\ Waiting = {} /\ running = {} /\ \A t \in Threads : at[t] = "idle"
      /\ Reactor \in Threads /\ Requests \subseteq Threads
  BY DEF Init, Pool!Init, Waiting, Pool!Waiting, Threads
<1>2. OneAtATime /\ ClosesAlone
  BY <1>1 DEF OneAtATime, ClosesAlone, InPool
<1>3. MapsOwn
  BY DEF Init, MapsOwn
<1>4. MapsPair
  BY DEF Init, MapsPair, UrlMatches, LabelMatches
<1>5. MapsInHand
  BY <1>1 DEF MapsInHand
<1>6. FilesOwn
  BY <1>1 DEF Init, FilesOwn
<1>7. SessionsFollow
  BY DEF Init, SessionsFollow
<1> QED
  BY <1>2, <1>3, <1>4, <1>5, <1>6, <1>7 DEF Orderly, MapsMatch

LEMMA OrderlyStutters == ASSUME Orderly, UNCHANGED vars PROVE Orderly'
<1> USE DEF vars, connVars, mapVars, workVars, poolVars
<1>1. /\ InPool' = InPool /\ (\A r \in Requests : FdOf(r)' = FdOf(r))
      /\ \A t \in Threads : KeyOf(t)' = KeyOf(t)
  BY DEF InPool, Waiting, Pool!Waiting, FdOf, KeyOf
<1>2. OneAtATime'
  BY DEF Orderly, OneAtATime, InPool, Waiting, Pool!Waiting, FdOf
<1>3. ClosesAlone'
  BY DEF Orderly, ClosesAlone, InPool, Waiting, Pool!Waiting, FdOf
<1>4. MapsOwn'
  BY <1>1 DEF Orderly, MapsMatch, MapsOwn
<1>5. MapsPair'
  BY <1>1 DEF Orderly, MapsMatch, MapsPair, UrlMatches, LabelMatches
<1>6. MapsInHand'
  BY DEF Orderly, MapsMatch, MapsInHand, FdOf
<1>7. FilesOwn'
  BY DEF Orderly, FilesOwn, FdOf, KeyOf
<1>8. SessionsFollow'
  BY DEF Orderly, SessionsFollow, FdOf, KeyOf
<1> QED
  BY <1>2, <1>3, <1>4, <1>5, <1>6, <1>7, <1>8 DEF Orderly, MapsMatch

LEMMA IInvAlways == Spec => []IInv
<1>1. Init => IInv
  BY SafeInit, OrderlyInit DEF IInv
<1>2. IInv /\ [Next]_vars => IInv'
  <2>1. ASSUME IInv, Next PROVE IInv'
    BY <2>1, SafeKept, OrderlyKept, OrderlyBack DEF IInv
  <2>2. ASSUME IInv, UNCHANGED vars PROVE IInv'
    <3>1. orderly' = orderly
      BY <2>2 DEF vars
    <3> QED
      BY <2>2, <3>1, SafeStutters, OrderlyStutters DEF IInv
  <2> QED
    BY <2>1, <2>2
<1> QED
  BY <1>1, <1>2, PTL DEF Spec

-------------------------------------------------------------------------------
(* What orderly clients may rely on.                                        *)

(* As long as the requests of a connection have not overlapped each other   *)
(* or its close, what _streams and _recorders hold under a descriptor       *)
(* belongs to the connection that has it, with its URL and its label; the   *)
(* next connection on the descriptor inherits nothing.                      *)
THEOREM MapsFollow == Spec => []MapsFollowConnections
<1>1. ASSUME Safe, Orderly PROVE MapsFollowConnections
  <2>1. ASSUME NEW k \in Keys, NEW r \in {streams[k], recorders[k]} \ {None}
        PROVE  k # NoFd /\ FdOf(r) = k
    <3>1. r \in Requests /\ (streams[k] = r \/ recorders[k] = r)
      BY <1>1, <2>1, OrderlyFacts
    <3> QED
      BY <1>1, <3>1 DEF Orderly, MapsMatch, MapsOwn
  <2>2. ASSUME NEW k \in Keys, streamsMutex = None PROVE UrlMatches(k) /\ LabelMatches(k)
    BY <1>1, <2>2, OrderlyFacts DEF Orderly, MapsMatch, MapsPair
  <2> QED
    BY <2>1, <2>2 DEF MapsFollowConnections, UrlMatches, LabelMatches
<1>2. IInv => MapsFollowConnections
  BY <1>1 DEF IInv, MapsFollowConnections
<1> QED
  BY <1>2, IInvAlways, PTL

(* Under the same condition every recording that has ended is filed under   *)
(* its own device and start time, or a thread is about to call addRecord.   *)
THEOREM OrderlyFiled == Spec => []OrderlyRecordingsFiled
<1>1. ASSUME Safe, Orderly PROVE OrderlyRecordingsFiled
  <2>1. ASSUME NEW t \in Threads, NEW r \in Requests, at[t] = "addRecords", local[t].item = r
        PROVE  local[t].label = r
    BY <1>1, <2>1 DEF Orderly, FilesOwn
  <2> QED
    BY <1>1, <2>1 DEF Orderly, FilesOwn, OrderlyRecordingsFiled
<1>2. IInv => OrderlyRecordingsFiled
  BY <1>1 DEF IInv, OrderlyRecordingsFiled
<1> QED
  BY <1>2, IInvAlways, PTL

(* Under the same condition a connection that is gone has no session whose  *)
(* pull thread runs and no ffmpeg that records.                             *)
THEOREM OrderlyLeavesNothing == Spec => []OrderlyCloseLeavesNothing
<1>1. ASSUME Safe, Orderly PROVE OrderlyCloseLeavesNothing
  <2>1. ASSUME NEW t \in Threads, at[t] \notin {"idle", "drain", "ended"} PROVE KeyOf(t) # NoFd
    <3>1. CASE t = Reactor
      BY <1>1, <2>1, <3>1 DEF Orderly, ClosesAlone, KeyOf
    <3>2. CASE t # Reactor
      BY <1>1, <2>1, <3>2, OrderlyFacts DEF Orderly, OneAtATime, KeyOf, InPool, Threads
    <3> QED
      BY <3>1, <3>2
  <2>2. ASSUME NEW r \in Requests, at[r] # "idle" PROVE FdOf(r) # NoFd
    BY <1>1, <2>2, OrderlyFacts DEF Orderly, OneAtATime, InPool
  <2>3. ASSUME NEW r \in Requests, session[r] = "running" PROVE FdOf(r) # NoFd
    BY <1>1, <2>1, <2>2, <2>3 DEF Orderly, SessionsFollow, MapsMatch, MapsOwn
  <2>4. ASSUME NEW r \in Requests, recorder[r] = "recording" PROVE FdOf(r) # NoFd
    <3>1. CASE \E k \in Keys : recorders[k] = r
      BY <1>1, <3>1 DEF Orderly, MapsMatch, MapsOwn
    <3>2. ASSUME NEW t \in Threads, Held(t, r) PROVE FdOf(r) # NoFd
      <4>1. at[t] # "addRecords"
        BY <1>1, <2>4, <3>2 DEF Safe, RecorderInv
      <4>2. at[t] # "dropRecorder"
        BY <1>1 DEF Orderly, MapsMatch, MapsInHand, Safe, PlaceInv, ReactorSteps, Threads
      <4>3. CASE at[t] = "storeRecorder"
        BY <2>2, <3>2, <4>3 DEF Held
      <4>4. CASE at[t] = "stopRecorder"
        BY <1>1, <2>1, <3>2, <4>4 DEF Orderly, FilesOwn, Held
      <4> QED
        BY <3>2, <4>1, <4>2, <4>3, <4>4 DEF Held
    <3> QED
      BY <1>1, <2>4, <3>1, <3>2 DEF Safe, RecorderInv
  <2> QED
    BY <2>3, <2>4 DEF OrderlyCloseLeavesNothing, FdOf
<1>2. IInv => OrderlyCloseLeavesNothing
  BY <1>1 DEF IInv, OrderlyCloseLeavesNothing
<1> QED
  BY <1>2, IInvAlways, PTL
===============================================================================

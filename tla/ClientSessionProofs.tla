-------------------------- MODULE ClientSessionProofs --------------------------
(***************************************************************************)
(* Theorems about ClientSession, for any number of requests and of upsets,  *)
(* with or without automatic reconnection: type correctness and the safety  *)
(* properties.                                                              *)
(***************************************************************************)
EXTENDS ClientSession, SequenceTheorems, TLAPS

(* What u and v agree on when a handler only moves timers and flags.        *)
SameRequests(u, v) ==
  /\ v.pending = u.pending /\ v.queue = u.queue
  /\ v.reports = u.reports /\ v.succeeded = u.succeeded /\ v.dropped = u.dropped
  /\ v.login = u.login /\ v.nextId = u.nextId

(* An id that has been given out, and whose request can still be reported.  *)
Open(u, id) == id < u.nextId /\ u.reports[id] = 0 /\ id \notin u.dropped

(* The requests that UserService holds are open and differ in their ids;    *)
(* nothing is reported twice, or before its id is given out.                *)
HeldOnce(u) ==
  /\ \A q \in u.queue : Open(u, q.id)
  /\ \A p, q \in u.queue : p.id = q.id => p = q
  /\ u.pending # NoRequest => Open(u, u.pending.id)
  /\ u.pending # NoRequest => \A q \in u.queue : q.id # u.pending.id
  /\ \A id \in Ids : id >= u.nextId => u.reports[id] = 0 /\ id \notin u.dropped
  /\ \A id \in Ids : u.reports[id] \in {0, 1}
  /\ \A id \in Ids : u.reports[id] = 1 => id \notin u.dropped

Good(u) == u \in Users /\ u.nextId > 0 /\ HeldOnce(u)

(* v is u without its pending request, of which it has reported the end.    *)
Ends(u, v) ==
  /\ v.pending = NoRequest
  /\ v.queue = u.queue /\ v.login = u.login /\ v.nextId = u.nextId /\ v.dropped = u.dropped

(* What is on its way concerns requests that are no longer queued, and the  *)
(* pending one as it is.                                                    *)
AboutRequests ==
  /\ \A r \in atServer : r.id < user.nextId /\ \A q \in user.queue : q.id # r.id
  /\ \A r \in atServer : user.pending # NoRequest /\ r.id = user.pending.id => r = user.pending
  /\ \A a \in answers : a.id < user.nextId /\ \A q \in user.queue : q.id # a.id
  /\ \A a \in answers : a.ok => a.id \in carriedOut
  /\ \A a \in answers :
       a.ok /\ user.pending # NoRequest /\ a.id = user.pending.id /\ user.pending.kind = "login"
         => serverLogin

(* A login, and what was made under it, belong to the current connection.   *)
OfConnection ==
  /\ ~HasPeer => atServer = {} /\ answers = {} /\ ~serverLogin /\ user.login = 0
  /\ user.login # 0 => user.login = connection /\ serverLogin
  /\ \A q \in user.queue : q.kind \in Guests \/ (user.login # 0 /\ q.under = user.login)
  /\ \A r \in atServer : r.kind \in Guests \/ r.under = connection

PtzInOrder == lastPtz < user.nextId /\ LatestPtzWins

IInv ==
  /\ TypeOK
  /\ user.nextId > 0 /\ HeldOnce(user)
  /\ user.succeeded \subseteq carriedOut
  /\ AboutRequests
  /\ OfConnection
  /\ PtzInOrder

-------------------------------------------------------------------------------
(* The methods of UserService.                                              *)

LEMMA NoRequestFact == NoRequest \notin Requests
BY ClientSessionAssumption

LEMMA ScheduleNextFacts ==
  ASSUME NEW u \in Users, NEW v, v = ScheduleNext(u)
  PROVE  v \in Users /\ SameRequests(u, v)
<1>1. CASE v = u
  BY <1>1 DEF SameRequests
<1>2. CASE v = [u EXCEPT !.scheduled = TRUE, !.dispatches = @ + 1]
  <2>1. u.dispatches + 1 \in Nat
    BY DEF Users
  <2>2. v = [u EXCEPT !.scheduled = TRUE, !.dispatches = u.dispatches + 1]
    BY <1>2
  <2> QED
    BY <2>1, <2>2 DEF Users, SameRequests
<1> QED
  BY <1>1, <1>2 DEF ScheduleNext

LEMMA SameRequestsGood ==
  ASSUME NEW u, Good(u), NEW v \in Users, SameRequests(u, v)
  PROVE  Good(v)
BY DEF Good, HeldOnce, Open, SameRequests

LEMMA ReportedFacts ==
  ASSUME NEW u, Good(u), u.pending # NoRequest, NEW f, f = Reported(u)
  PROVE  /\ f \in [Ids -> Nat] /\ f[u.pending.id] = 1
         /\ \A id \in Ids : id # u.pending.id => f[id] = u.reports[id]
<1>1. u.pending.id \in Ids /\ u.reports \in [Ids -> Nat] /\ u.reports[u.pending.id] = 0
  BY NoRequestFact DEF Good, HeldOnce, Open, Users, Requests
<1>2. f = [u.reports EXCEPT ![u.pending.id] = @ + 1]
  BY DEF Reported
<1> QED
  BY <1>1, <1>2

(* Ending the pending request: what is left is good. *)
LEMMA EndedGood ==
  ASSUME NEW u, Good(u), u.pending # NoRequest,
         NEW v \in Users, Ends(u, v), v.reports = Reported(u)
  PROVE  Good(v)
<1>1. u \in Users /\ u.pending.id \in Ids /\ u.queue \subseteq Requests
  BY NoRequestFact DEF Good, Users, Requests
<1>2. \A q \in u.queue : q.id \in Ids
  BY <1>1 DEF Requests
<1>3. /\ v.reports[u.pending.id] = 1
      /\ \A id \in Ids : id # u.pending.id => v.reports[id] = u.reports[id]
  BY ReportedFacts
<1>4. \A q \in v.queue : Open(v, q.id)
  BY <1>2, <1>3 DEF Good, HeldOnce, Open, Ends
<1>5. \A id \in Ids : id >= v.nextId => v.reports[id] = 0 /\ id \notin v.dropped
  BY <1>1, <1>3 DEF Good, HeldOnce, Open, Ends, Users, Ids
<1>6. \A id \in Ids : v.reports[id] \in {0, 1} /\ (v.reports[id] = 1 => id \notin v.dropped)
  BY <1>1, <1>3 DEF Good, HeldOnce, Open, Ends
<1> QED
  BY <1>4, <1>5, <1>6 DEF Good, HeldOnce, Ends

LEMMA FailPendingFacts ==
  ASSUME NEW u, Good(u), u.pending # NoRequest, NEW v, v = FailPending(u)
  PROVE  Good(v) /\ Ends(u, v) /\ v.succeeded = u.succeeded
<1> DEFINE w == [u EXCEPT !.timer = FALSE, !.pending = NoRequest, !.reports = Reported(u)]
<1>1. u \in Users /\ Reported(u) \in [Ids -> Nat]
  BY ReportedFacts DEF Good
<1>2. w \in Users /\ Ends(u, w) /\ w.reports = Reported(u) /\ w.succeeded = u.succeeded
  BY <1>1 DEF Users, Ends
<1>3. Good(w)
  BY <1>2, EndedGood
<1>4. v = ScheduleNext(w)
  BY DEF FailPending
<1> HIDE DEF w
<1>5. v \in Users /\ SameRequests(w, v)
  BY <1>2, <1>4, ScheduleNextFacts
<1> QED
  BY <1>2, <1>3, <1>5, SameRequestsGood DEF Ends, SameRequests

LEMMA CompletePendingFacts ==
  ASSUME NEW u, Good(u), u.pending # NoRequest, NEW v, v = CompletePending(u)
  PROVE  Good(v) /\ Ends(u, v) /\ v.succeeded = u.succeeded \cup {u.pending.id}
<1> DEFINE w == [u EXCEPT !.timer = FALSE, !.pending = NoRequest, !.reports = Reported(u),
                          !.succeeded = @ \cup {u.pending.id}]
<1>1. u \in Users /\ Reported(u) \in [Ids -> Nat]
  BY ReportedFacts DEF Good
<1>2. u.pending.id \in Ids
  BY <1>1, NoRequestFact DEF Users, Requests
<1>3. w \in Users /\ Ends(u, w) /\ w.reports = Reported(u)
      /\ w.succeeded = u.succeeded \cup {u.pending.id}
  BY <1>1, <1>2 DEF Users, Ends
<1>4. Good(w)
  BY <1>3, EndedGood
<1>5. v = ScheduleNext(w)
  BY DEF CompletePending
<1> HIDE DEF w
<1>6. v \in Users /\ SameRequests(w, v)
  BY <1>3, <1>5, ScheduleNextFacts
<1> QED
  BY <1>3, <1>4, <1>6, SameRequestsGood DEF Ends, SameRequests

(* An error ends the pending request, if there is one. *)
LEMMA OnTcpErrorFacts ==
  ASSUME NEW u, Good(u), NEW v, v = OnTcpError(u)
  PROVE  Good(v) /\ Ends(u, v) /\ v.succeeded = u.succeeded
BY FailPendingFacts DEF OnTcpError, Ends

(* The same outside any request: garbage when nothing is pending. *)
LEMMA FailAnyFacts ==
  ASSUME NEW u, Good(u), NEW v, v = FailPending(u)
  PROVE  Good(v) /\ Ends(u, v) /\ v.succeeded = u.succeeded
<1>1. CASE u.pending # NoRequest
  BY <1>1, FailPendingFacts
<1>2. CASE u.pending = NoRequest
  <2> DEFINE w == [u EXCEPT !.timer = FALSE, !.pending = NoRequest, !.reports = Reported(u)]
  <2>1. u \in Users /\ Reported(u) = u.reports
    BY <1>2 DEF Good, Reported
  <2>2. w \in Users /\ SameRequests(u, w)
    BY <1>2, <2>1 DEF Users, SameRequests
  <2>3. v = ScheduleNext(w)
    BY DEF FailPending
  <2> HIDE DEF w
  <2>4. v \in Users /\ SameRequests(w, v)
    BY <2>2, <2>3, ScheduleNextFacts
  <2>5. Good(v)
    BY <2>2, <2>4, SameRequestsGood
  <2> QED
    BY <1>2, <2>2, <2>4, <2>5 DEF Ends, SameRequests
<1> QED
  BY <1>1, <1>2

(* What waits is kept or dropped.                                           *)
LEMMA DropFacts ==
  ASSUME NEW u, Good(u), NEW gone \in SUBSET u.queue, NEW v \in Users,
         v.queue = u.queue \ gone, v.dropped = u.dropped \cup IdsOf(gone),
         v.pending = u.pending, v.reports = u.reports, v.nextId = u.nextId
  PROVE  Good(v)
<1>1. \A q \in u.queue : q.id \in Ids /\ Open(u, q.id)
  BY DEF Good, HeldOnce, Users, Requests
<1>2. \A q \in v.queue : Open(v, q.id)
  <2> SUFFICES ASSUME NEW q \in v.queue
               PROVE  q.id < u.nextId /\ u.reports[q.id] = 0 /\ q.id \notin v.dropped
    BY DEF Open
  <2>1. q \in u.queue /\ q \notin gone
    OBVIOUS
  <2>2. q.id \notin IdsOf(gone)
    BY <2>1 DEF IdsOf, Good, HeldOnce
  <2> QED
    BY <1>1, <2>1, <2>2 DEF Open
<1>3. v.pending # NoRequest =>
        Open(v, v.pending.id) /\ \A q \in v.queue : q.id # v.pending.id
  BY DEF Good, HeldOnce, Open, IdsOf
<1>4. \A id \in Ids : id >= v.nextId => v.reports[id] = 0 /\ id \notin v.dropped
  <2> SUFFICES ASSUME NEW id \in Ids, id >= u.nextId
               PROVE  u.reports[id] = 0 /\ id \notin v.dropped
    OBVIOUS
  <2>1. u.nextId \in Nat /\ id \in Int
    BY DEF Good, Users, Ids
  <2>2. id \notin IdsOf(gone)
    BY <1>1, <2>1 DEF IdsOf, Open, Ids
  <2> QED
    BY <2>2 DEF Good, HeldOnce
<1>5. \A id \in Ids : v.reports[id] \in {0, 1} /\ (v.reports[id] = 1 => id \notin v.dropped)
  BY <1>1 DEF Good, HeldOnce, Open, IdsOf
<1>6. v.nextId > 0 /\ \A p, q \in v.queue : p.id = q.id => p = q
  BY DEF Good, HeldOnce
<1> QED
  BY <1>2, <1>3, <1>4, <1>5, <1>6 DEF Good, HeldOnce

(* The queue is kept only by a client that was not logged in.               *)
LEMMA OnDisconnectedFacts ==
  ASSUME NEW u, Good(u), NEW v, v = OnDisconnected(u)
  PROVE  /\ Good(v) /\ v.pending = NoRequest /\ v.login = 0 /\ v.nextId = u.nextId
         /\ v.queue = IF u.login = 0 THEN u.queue ELSE {}
         /\ v.succeeded = u.succeeded
<1> DEFINE kept == IF u.login = 0 THEN u.queue ELSE {}
           left == [u EXCEPT !.queue = kept, !.dropped = @ \cup IdsOf(u.queue \ kept),
                             !.scheduled = FALSE]
           w == OnTcpError(left)
<1>1. u \in Users /\ kept \in SUBSET u.queue /\ u.queue \in SUBSET Requests
  BY DEF Good, Users
<1>2. IdsOf(u.queue \ kept) \in SUBSET Ids
  BY <1>1 DEF IdsOf, Requests
<1>3. /\ left \in Users /\ left.queue = kept /\ left.pending = u.pending
      /\ left.dropped = u.dropped \cup IdsOf(u.queue \ kept)
      /\ left.reports = u.reports /\ left.nextId = u.nextId /\ left.succeeded = u.succeeded
  BY <1>1, <1>2 DEF Users
<1>4. kept = u.queue \ (u.queue \ kept) /\ u.queue \ kept \in SUBSET u.queue
  BY <1>1
<1> HIDE DEF kept, left
<1>5. Good(left)
  BY <1>3, <1>4, DropFacts
<1>6. Good(w) /\ Ends(left, w) /\ w.succeeded = left.succeeded
  BY <1>5, OnTcpErrorFacts
<1>7. v = [w EXCEPT !.login = 0]
  BY DEF OnDisconnected, left, kept
<1> HIDE DEF w
<1>8. /\ v \in Users /\ v.login = 0 /\ v.pending = w.pending /\ v.queue = w.queue
      /\ v.reports = w.reports /\ v.dropped = w.dropped /\ v.nextId = w.nextId
      /\ v.succeeded = w.succeeded
  BY <1>6, <1>7 DEF Good, Users
<1>9. Good(v)
  BY <1>6, <1>8 DEF Good, HeldOnce, Open
<1> QED
  BY <1>3, <1>6, <1>8, <1>9 DEF Ends, kept

(* A request begins: it is pending, or has failed at once.                  *)
LEMMA BeginRequestFacts ==
  ASSUME NEW u, Good(u), u.pending = NoRequest,
         NEW r \in Requests, Open(u, r.id), \A q \in u.queue : q.id # r.id,
         NEW v, v = BeginRequest(u, r)
  PROVE  /\ Good(v) /\ v.queue = u.queue /\ v.login = u.login /\ v.nextId = u.nextId
         /\ v.succeeded = u.succeeded
         /\ v.pending = IF IsConnected THEN r ELSE NoRequest
<1>0. u \in Users /\ r # NoRequest
  BY NoRequestFact DEF Good
<1>1. CASE IsConnected
  <2>1. v = [u EXCEPT !.pending = r, !.timer = TRUE]
    BY <1>1 DEF BeginRequest
  <2>2. /\ v \in Users /\ v.pending = r /\ v.queue = u.queue /\ v.login = u.login
        /\ v.nextId = u.nextId /\ v.succeeded = u.succeeded
        /\ v.reports = u.reports /\ v.dropped = u.dropped
    BY <1>0, <2>1 DEF Users
  <2>3. Good(v)
    BY <1>0, <2>2 DEF Good, HeldOnce, Open
  <2> QED
    BY <1>1, <2>2, <2>3
<1>2. CASE ~IsConnected
  <2> DEFINE w == [u EXCEPT !.pending = r]
  <2>1. /\ w \in Users /\ w.pending = r /\ w.queue = u.queue /\ w.login = u.login
        /\ w.nextId = u.nextId /\ w.succeeded = u.succeeded
        /\ w.reports = u.reports /\ w.dropped = u.dropped
    BY <1>0 DEF Users
  <2>2. v = OnTcpError(w)
    BY <1>2 DEF BeginRequest
  <2> HIDE DEF w
  <2>3. Good(w)
    BY <1>0, <2>1 DEF Good, HeldOnce, Open
  <2>4. Good(v) /\ Ends(w, v) /\ v.succeeded = w.succeeded
    BY <2>2, <2>3, OnTcpErrorFacts
  <2> QED
    BY <1>2, <2>1, <2>4 DEF Ends
<1> QED
  BY <1>1, <1>2

(* A request waits; the PTZ requests it replaces are dropped.               *)
LEMMA QueueFacts ==
  ASSUME NEW u, Good(u), NEW r \in Requests, Open(u, r.id),
         \A q \in u.queue : q.id # r.id,
         u.pending # NoRequest => u.pending.id # r.id,
         NEW v, v = Queue(u, r)
  PROVE  /\ Good(v) /\ v.pending = u.pending /\ v.login = u.login /\ v.nextId = u.nextId
         /\ v.queue = (u.queue \ Replaced(u, r)) \cup {r}
         /\ v.succeeded = u.succeeded
<1> DEFINE gone == Replaced(u, r)
           w == [u EXCEPT !.queue = @ \ gone, !.dropped = @ \cup IdsOf(gone)]
<1>1. u \in Users /\ u.queue \in SUBSET Requests /\ gone \in SUBSET u.queue
  BY DEF Good, Users, Replaced
<1>2. IdsOf(gone) \in SUBSET Ids
  BY <1>1 DEF IdsOf, Requests
<1>3. r.id \in Ids /\ r.id \notin IdsOf(gone)
  BY <1>1 DEF Requests, IdsOf
<1>4. /\ w \in Users /\ w.queue = u.queue \ gone /\ w.dropped = u.dropped \cup IdsOf(gone)
      /\ w.pending = u.pending /\ w.reports = u.reports /\ w.nextId = u.nextId
      /\ w.login = u.login /\ w.succeeded = u.succeeded
  BY <1>1, <1>2 DEF Users
<1>5. v = [w EXCEPT !.queue = @ \cup {r}]
  BY <1>1 DEF Queue, Users
<1> HIDE DEF gone, w
<1>6. Good(w)
  BY <1>1, <1>4, DropFacts
<1>7. Open(w, r.id)
  BY <1>3, <1>4 DEF Open
<1>8. /\ v \in Users /\ v.queue = w.queue \cup {r} /\ v.dropped = w.dropped
      /\ v.pending = w.pending /\ v.reports = w.reports /\ v.nextId = w.nextId
      /\ v.login = w.login /\ v.succeeded = w.succeeded
  BY <1>4, <1>5 DEF Users
<1>9. Good(v)
  <2>1. \A q \in v.queue : Open(v, q.id)
    BY <1>6, <1>7, <1>8 DEF Good, HeldOnce, Open
  <2>2. \A p, q \in v.queue : p.id = q.id => p = q
    BY <1>4, <1>6, <1>8 DEF Good, HeldOnce
  <2>3. v.pending # NoRequest =>
          Open(v, v.pending.id) /\ \A q \in v.queue : q.id # v.pending.id
    BY <1>4, <1>6, <1>8 DEF Good, HeldOnce, Open
  <2> QED
    BY <1>6, <1>8, <2>1, <2>2, <2>3 DEF Good, HeldOnce
<1> QED
  BY <1>4, <1>8, <1>9 DEF gone

(* A new id is given out.                                                   *)
LEMMA NumberedFacts ==
  ASSUME Good(user), user.nextId \in Ids, NEW v, v = Numbered
  PROVE  /\ Good(v) /\ v.nextId = user.nextId + 1 /\ Open(v, user.nextId)
         /\ v.pending = user.pending /\ v.queue = user.queue /\ v.login = user.login
         /\ v.succeeded = user.succeeded /\ v.reports = user.reports
         /\ v.dropped = user.dropped
         /\ \A q \in v.queue : q.id < user.nextId
         /\ v.pending # NoRequest => v.pending.id < user.nextId
<1>1. user \in Users /\ user.nextId \in Nat /\ user.queue \in SUBSET Requests
  BY DEF Good, Users
<1>2. /\ v \in Users /\ v.nextId = user.nextId + 1
      /\ v.pending = user.pending /\ v.queue = user.queue /\ v.login = user.login
      /\ v.succeeded = user.succeeded /\ v.reports = user.reports /\ v.dropped = user.dropped
  BY <1>1 DEF Numbered, Users
<1>3. \A q \in user.queue : q.id \in Nat /\ q.id < user.nextId
  BY <1>1 DEF Good, HeldOnce, Open, Requests, Ids
<1>4. user.pending # NoRequest => user.pending.id \in Nat /\ user.pending.id < user.nextId
  BY <1>1 DEF Good, HeldOnce, Open, Users, Requests, Ids
<1>5. Open(v, user.nextId)
  BY <1>1, <1>2 DEF Good, HeldOnce, Open
<1>6. (\A q \in v.queue : Open(v, q.id)) /\ (v.pending # NoRequest => Open(v, v.pending.id))
  BY <1>1, <1>2, <1>3, <1>4 DEF Good, HeldOnce, Open
<1>7. \A id \in Ids : id >= v.nextId => v.reports[id] = 0 /\ id \notin v.dropped
  BY <1>1, <1>2 DEF Good, HeldOnce, Ids
<1>8. Good(v)
  BY <1>1, <1>2, <1>6, <1>7 DEF Good, HeldOnce
<1> QED
  BY <1>2, <1>3, <1>4, <1>5, <1>8

-------------------------------------------------------------------------------
(* The invariant.                                                           *)

LEMMA InitIInv == Init => IInv
<1> SUFFICES ASSUME Init PROVE IInv
  OBVIOUS
<1>1. /\ user.pending = NoRequest /\ user.queue = {} /\ user.login = 0 /\ user.nextId = 1
      /\ user.reports = [id \in Ids |-> 0] /\ user.succeeded = {} /\ user.dropped = {}
  BY DEF Init
<1>2. user \in Users
  BY DEF Init, Users
<1>3. TypeOK
  <2>1. TcpTypeOK
    BY DEF Init, TcpInit, TcpTypeOK
  <2>2. upsets \in 0 .. MaxUpsets
    BY ClientSessionAssumption DEF Init
  <2> QED
    BY <1>2, <2>1, <2>2 DEF Init, TypeOK
<1>4. HeldOnce(user)
  BY <1>1 DEF HeldOnce
<1> QED
  BY <1>1, <1>3, <1>4
  DEF Init, IInv, AboutRequests, OfConnection, PtzInOrder, LatestPtzWins

(* A step that ends the pending request, if at all, keeps what is on its    *)
(* way and what was carried out.                                            *)
Quiet(u, v) ==
  /\ v.queue \subseteq u.queue /\ v.nextId = u.nextId
  /\ v.pending \in {NoRequest, u.pending}

LEMMA QuietAboutRequests ==
  ASSUME AboutRequests, PtzInOrder, user' \in Users, Quiet(user, user'),
         atServer' \in SUBSET atServer, answers' \in SUBSET answers,
         carriedOut' = carriedOut, serverLogin' = serverLogin \/ answers' = {},
         lastPtz' = lastPtz
  PROVE  AboutRequests' /\ PtzInOrder'
<1>1. AboutRequests'
  BY DEF AboutRequests, Quiet
<1>2. PtzInOrder'
  BY DEF PtzInOrder, LatestPtzWins, Quiet
<1> QED
  BY <1>1, <1>2

(* Losing the connection.                                                   *)
LEMMA DisconnectedIInv ==
  ASSUME IInv, NEW u, Good(u), u.queue = user.queue, u.nextId = user.nextId,
         u.login = user.login, u.succeeded = user.succeeded,
         user' = OnDisconnected(u), Forgotten, lastPtz' = lastPtz
  PROVE  /\ Good(user') /\ user'.succeeded \subseteq carriedOut'
         /\ AboutRequests' /\ OfConnection' /\ PtzInOrder'
         /\ serverVars' = <<{}, {}, FALSE, carriedOut>>
<1>1. /\ Good(user') /\ user'.pending = NoRequest /\ user'.login = 0
      /\ user'.nextId = user.nextId
      /\ user'.queue = IF user.login = 0 THEN user.queue ELSE {}
      /\ user'.succeeded = user.succeeded
  <2> SUFFICES ASSUME NEW v, v = OnDisconnected(u)
               PROVE  /\ Good(v) /\ v.pending = NoRequest /\ v.login = 0
                      /\ v.nextId = u.nextId
                      /\ v.queue = IF u.login = 0 THEN u.queue ELSE {}
                      /\ v.succeeded = u.succeeded
    OBVIOUS
  <2> QED
    BY OnDisconnectedFacts
<1>2. atServer' = {} /\ answers' = {} /\ serverLogin' = FALSE /\ carriedOut' = carriedOut
  BY DEF Forgotten
<1>3. user' \in Users /\ Quiet(user, user')
  BY <1>1 DEF Good, Quiet
<1>4. AboutRequests' /\ PtzInOrder'
  BY <1>2, <1>3, QuietAboutRequests DEF IInv
<1>5. \A q \in user'.queue : q.kind \in Guests
  BY <1>1 DEF IInv, OfConnection
<1>6. OfConnection'
  BY <1>1, <1>2, <1>5 DEF OfConnection
<1> QED
  BY <1>1, <1>2, <1>4, <1>6 DEF IInv, serverVars

LEMMA TcpTyped ==
  ASSUME TcpTypeOK,
         \/ ConnectServer \/ DisconnectServer \/ OnConnected \/ OnConnectError
         \/ OnConnectionLost \/ OnClosed \/ AttemptReconnect
  PROVE  TcpTypeOK'
<1> DEFINE Typed == reconnectPending' \in BOOLEAN /\ reconnectAttempt' \in Nat
<1>1. ASSUME ReconnectUnlessManual PROVE Typed
  <2>1. \/ UNCHANGED <<reconnectPending, reconnectAttempt>>
        \/ reconnectPending' = TRUE /\ reconnectAttempt' = reconnectAttempt + 1
    BY <1>1 DEF ReconnectUnlessManual, ScheduleReconnect
  <2>2. CASE UNCHANGED <<reconnectPending, reconnectAttempt>>
    BY <2>2 DEF TcpTypeOK
  <2>3. CASE reconnectPending' = TRUE /\ reconnectAttempt' = reconnectAttempt + 1
    <3>1. reconnectAttempt' \in Nat
      BY <2>3 DEF TcpTypeOK
    <3> QED
      BY <2>3, <3>1
  <2> QED
    BY <2>1, <2>2, <2>3
<1>2. ASSUME ResetReconnectState PROVE Typed
  BY <1>2 DEF ResetReconnectState
<1>3. CASE ConnectServer \/ DisconnectServer \/ OnConnected \/ AttemptReconnect
  BY <1>2, <1>3
  DEF TcpTypeOK, ConnectServer, DisconnectServer, OnConnected, AttemptReconnect
<1>4. CASE OnConnectError \/ OnConnectionLost \/ OnClosed
  BY <1>1, <1>4 DEF TcpTypeOK, OnConnectError, OnConnectionLost, OnClosed
<1> QED
  BY <1>3, <1>4

LEMMA UpsetTyped == ASSUME TypeOK, Upset PROVE upsets' \in 0 .. MaxUpsets
BY ClientSessionAssumption DEF TypeOK, Upset

LEMMA RequestIInv == ASSUME IInv, NEW kind \in Kinds, Request(kind) PROVE IInv'
<1> DEFINE r == NewRequest(kind)
           u == Numbered
<1>1. Good(user) /\ user.nextId \in Ids /\ TypeOK /\ user \in Users
  BY DEF IInv, TypeOK, Good, Request, Allowed
<1>2. /\ Good(u) /\ u.nextId = user.nextId + 1 /\ Open(u, user.nextId)
      /\ u.pending = user.pending /\ u.queue = user.queue /\ u.login = user.login
      /\ u.succeeded = user.succeeded
      /\ \A q \in user.queue : q.id < user.nextId
      /\ user.pending # NoRequest => user.pending.id < user.nextId
  BY <1>1, NumberedFacts
<1>3. /\ r \in Requests /\ r.id = user.nextId /\ r.kind = kind
      /\ kind \in Guests \/ (user.login # 0 /\ r.under = user.login)
  BY <1>1 DEF Request, Allowed, NewRequest, Requests, Users
<1>4. user' = EnqueueRequest(u, r) /\ (SendsAtOnce(u) <=> SendsAtOnce(user))
  BY <1>2 DEF Request, SendsAtOnce
<1>5. UNCHANGED <<tcpVars, connection, upsets>> /\ (HasPeer' <=> HasPeer)
  BY DEF Request, tcpVars, HasPeer
<1>6. user.nextId \in Nat /\ \A q \in user.queue : q.id # user.nextId
  BY <1>1, <1>2 DEF Users, Requests, Ids
<1>7. user.pending # NoRequest => user.pending.id # user.nextId
  BY <1>1, <1>2 DEF Users, Requests, Ids
<1> HIDE DEF u, r
<1>8. CASE SendsAtOnce(user)
  <2>1. IsConnected /\ user.pending = NoRequest /\ user.queue = {} /\ HasPeer
    BY <1>8 DEF SendsAtOnce, IsConnected, HasPeer
  <2>2. user' = BeginRequest(u, r)
    BY <1>4, <1>8 DEF EnqueueRequest
  <2>3. /\ Good(user') /\ user'.queue = {} /\ user'.login = user.login
        /\ user'.nextId = user.nextId + 1 /\ user'.succeeded = user.succeeded
        /\ user'.pending = r
    BY <1>2, <1>3, <1>6, <2>1, <2>2, BeginRequestFacts
  <2>4. /\ atServer' = atServer \cup {r} /\ lastPtz' = IF kind \in Ptz THEN r.id ELSE lastPtz
        /\ answers' = answers /\ serverLogin' = serverLogin /\ carriedOut' = carriedOut
    BY <1>3, <1>8, <2>1 DEF Request, Writes, r
  <2>5. TypeOK'
    <3>1. lastPtz' \in Nat /\ atServer' \in SUBSET Requests
      BY <1>1, <1>3, <1>6, <2>4 DEF TypeOK
    <3>2. TcpTypeOK' /\ connection' \in Nat /\ upsets' \in 0 .. MaxUpsets
      BY <1>1, <1>5 DEF TypeOK, TcpTypeOK, tcpVars
    <3>3. answers' = answers /\ serverLogin' = serverLogin /\ carriedOut' = carriedOut
      BY <2>4
    <3> QED
      BY <1>1, <2>3, <3>1, <3>2, <3>3 DEF TypeOK, Good
  <2>6. AboutRequests'
    <3>1. \A x \in atServer : x.id < user.nextId /\ x.id \in Nat
      BY <1>1 DEF IInv, AboutRequests, TypeOK, Requests, Ids
    <3>2. \A a \in answers : a.id < user.nextId /\ a.id \in Nat
      BY <1>1 DEF IInv, AboutRequests, TypeOK, Ids
    <3>3. \A a \in answers : a.ok => a.id \in carriedOut
      BY DEF IInv, AboutRequests
    <3> QED
      BY <1>3, <1>6, <2>3, <2>4, <3>1, <3>2, <3>3 DEF AboutRequests
  <2>7. OfConnection'
    BY <1>3, <1>5, <2>1, <2>3, <2>4 DEF IInv, OfConnection
  <2>8. PtzInOrder'
    BY <1>1, <1>3, <1>6, <2>3, <2>4 DEF IInv, PtzInOrder, LatestPtzWins, TypeOK
  <2> QED
    BY <2>3, <2>4, <2>5, <2>6, <2>7, <2>8 DEF IInv, Good
<1>9. CASE ~SendsAtOnce(user)
  <2>1. user' = Queue(u, r)
    BY <1>4, <1>9 DEF EnqueueRequest
  <2>2. /\ Good(user') /\ user'.queue = (user.queue \ Replaced(u, r)) \cup {r}
        /\ user'.login = user.login /\ user'.nextId = user.nextId + 1
        /\ user'.succeeded = user.succeeded /\ user'.pending = user.pending
    BY <1>2, <1>3, <1>6, <1>7, <2>1, QueueFacts
  <2>3. UNCHANGED <<atServer, answers, serverLogin, carriedOut, lastPtz>>
    BY <1>9 DEF Request, serverVars
  <2>4. TypeOK'
    BY <1>1, <1>5, <2>2, <2>3 DEF TypeOK, TcpTypeOK, tcpVars, Good
  <2>5. AboutRequests'
    <3>1. \A x \in atServer : x.id < user.nextId /\ x.id \in Nat
      BY <1>1 DEF IInv, AboutRequests, TypeOK, Requests, Ids
    <3>2. \A a \in answers : a.id < user.nextId /\ a.id \in Nat
      BY <1>1 DEF IInv, AboutRequests, TypeOK, Ids
    <3>3. /\ \A x \in atServer : x.id < user'.nextId /\ \A q \in user'.queue : q.id # x.id
          /\ \A a \in answers : a.id < user'.nextId /\ \A q \in user'.queue : q.id # a.id
      BY <1>3, <1>6, <2>2, <3>1, <3>2 DEF IInv, AboutRequests
    <3> QED
      BY <2>2, <2>3, <3>3 DEF IInv, AboutRequests
  <2>6. OfConnection'
    BY <1>3, <1>5, <2>2, <2>3 DEF IInv, OfConnection
  <2>7. PtzInOrder'
    <3>1. lastPtz < user.nextId /\ lastPtz \in Nat /\ LatestPtzWins
      BY <1>1 DEF IInv, PtzInOrder, TypeOK
    <3>2. \A q \in user'.queue : q = r \/ (q \in user.queue /\ ~({q.kind, r.kind} \subseteq Ptz))
      BY <1>2, <2>2 DEF Replaced
    <3>3. LatestPtzWins'
      BY <1>3, <2>2, <2>3, <3>1, <3>2 DEF LatestPtzWins
    <3> QED
      BY <1>6, <2>2, <2>3, <3>1, <3>3 DEF PtzInOrder
  <2> QED
    BY <2>2, <2>3, <2>4, <2>5, <2>6, <2>7 DEF IInv, Good
<1> QED
  BY <1>8, <1>9

LEMMA RequestTooLongIInv == ASSUME IInv, NEW kind \in Kinds, RequestTooLong(kind) PROVE IInv'
<1> DEFINE u == Numbered
<1>1. Good(user) /\ user.nextId \in Ids /\ TypeOK /\ user.nextId \in Nat
  BY DEF IInv, TypeOK, Good, RequestTooLong, Allowed, Users
<1>2. /\ Good(u) /\ u.nextId = user.nextId + 1 /\ Open(u, user.nextId)
      /\ u.pending = user.pending /\ u.queue = user.queue /\ u.login = user.login
      /\ u.succeeded = user.succeeded /\ u.dropped = user.dropped
      /\ \A q \in u.queue : q.id < user.nextId
      /\ u.pending # NoRequest => u.pending.id < user.nextId
  BY <1>1, NumberedFacts
<1>3. user' = [u EXCEPT !.reports[user.nextId] = @ + 1]
  BY DEF RequestTooLong
<1>4. UNCHANGED <<tcpVars, connection, serverVars, lastPtz, upsets>>
  BY DEF RequestTooLong
<1> HIDE DEF u
<1>5. u \in Users /\ u.reports \in [Ids -> Nat] /\ u.reports[user.nextId] = 0
  BY <1>2 DEF Good, Open, Users
<1>6. /\ user' \in Users /\ user'.nextId = u.nextId /\ user'.pending = u.pending
      /\ user'.queue = u.queue /\ user'.login = u.login /\ user'.dropped = u.dropped
      /\ user'.succeeded = u.succeeded
      /\ user'.reports = [u.reports EXCEPT ![user.nextId] = 1]
  BY <1>1, <1>3, <1>5 DEF Users
<1>7. HeldOnce(user')
  <2>1. \A q \in u.queue : q.id \in Ids /\ q.id # user.nextId /\ Open(u, q.id)
    BY <1>1, <1>2, <1>5 DEF Users, Requests, Ids, Good, HeldOnce
  <2>2. u.pending # NoRequest =>
          u.pending.id \in Ids /\ u.pending.id # user.nextId /\ Open(u, u.pending.id)
    BY <1>1, <1>2, <1>5 DEF Users, Requests, Ids, Good, HeldOnce
  <2>3. \A q \in user'.queue : Open(user', q.id)
    BY <1>5, <1>6, <2>1 DEF Open
  <2>4. user'.pending # NoRequest => Open(user', user'.pending.id)
    BY <1>5, <1>6, <2>2 DEF Open
  <2>5. \A id \in Ids : id >= user'.nextId => user'.reports[id] = 0 /\ id \notin user'.dropped
    BY <1>1, <1>2, <1>5, <1>6 DEF Good, HeldOnce, Ids
  <2>6. \A id \in Ids : /\ user'.reports[id] \in {0, 1}
                         /\ user'.reports[id] = 1 => id \notin user'.dropped
    BY <1>1, <1>2, <1>5, <1>6 DEF Good, HeldOnce, Open
  <2> QED
    BY <1>2, <1>6, <2>3, <2>4, <2>5, <2>6 DEF Good, HeldOnce
<1>8. TypeOK'
  BY <1>1, <1>4, <1>6 DEF TypeOK, TcpTypeOK, tcpVars, serverVars
<1>9. AboutRequests'
  <2>1. \A x \in atServer : x.id < user.nextId /\ x.id \in Nat
    BY <1>1 DEF IInv, AboutRequests, TypeOK, Requests, Ids
  <2>2. \A a \in answers : a.id < user.nextId /\ a.id \in Nat
    BY <1>1 DEF IInv, AboutRequests, TypeOK, Ids
  <2> QED
    BY <1>1, <1>2, <1>4, <1>6, <2>1, <2>2 DEF IInv, AboutRequests, serverVars
<1>10. OfConnection' /\ PtzInOrder'
  BY <1>1, <1>2, <1>4, <1>6
  DEF IInv, TypeOK, OfConnection, PtzInOrder, LatestPtzWins, HasPeer, serverVars, tcpVars
<1> QED
  BY <1>1, <1>2, <1>4, <1>6, <1>7, <1>8, <1>9, <1>10 DEF IInv, serverVars

(* A step that does not send, and opens and breaks no connection.           *)
LEMMA QuietIInv ==
  ASSUME IInv, TcpTypeOK', HasPeer' <=> HasPeer, connection' = connection,
         upsets' \in 0 .. MaxUpsets,
         Good(user'), Quiet(user, user'), user'.queue = user.queue, user'.login = user.login,
         user'.succeeded = user.succeeded,
         atServer' = atServer, answers' \in SUBSET answers,
         serverLogin' = serverLogin, carriedOut' = carriedOut, lastPtz' = lastPtz
  PROVE  IInv'
<1>1. TypeOK'
  <2>1. user' \in Users /\ answers' \in SUBSET [id : Ids, ok : BOOLEAN]
    BY DEF IInv, TypeOK, Good
  <2>2. atServer' \in SUBSET Requests /\ carriedOut' \in SUBSET Ids /\ lastPtz' \in Nat
        /\ connection' \in Nat
    BY DEF IInv, TypeOK
  <2>3. serverLogin' \in BOOLEAN
    BY DEF IInv, TypeOK
  <2> QED
    BY <2>1, <2>2, <2>3 DEF TypeOK
<1>2. AboutRequests' /\ PtzInOrder'
  BY QuietAboutRequests DEF IInv, Good
<1>3. OfConnection'
  BY DEF IInv, OfConnection
<1> QED
  BY <1>1, <1>2, <1>3 DEF IInv, Good

LEMMA IInvGood == ASSUME IInv PROVE Good(user) /\ TypeOK /\ TcpTypeOK /\ user \in Users
BY DEF IInv, Good, TypeOK

(* After an error. *)
LEMMA ErrorIInv ==
  ASSUME IInv, TcpTypeOK', HasPeer' <=> HasPeer, upsets' \in 0 .. MaxUpsets,
         user' = OnTcpError(user) \/ user' = user,
         UNCHANGED <<connection, serverVars, lastPtz>>
  PROVE  IInv'
<1>1. Good(user)
  BY IInvGood
<1>2. CASE user' = OnTcpError(user)
  <2>1. Good(user') /\ Ends(user, user') /\ user'.succeeded = user.succeeded
    BY <1>1, <1>2, OnTcpErrorFacts
  <2> QED
    BY <2>1, QuietIInv DEF Ends, Quiet, serverVars
<1>3. CASE user' = user
  BY <1>1, <1>3, QuietIInv DEF Quiet, serverVars
<1> QED
  BY <1>2, <1>3

(* After a disconnection.                                                   *)
LEMMA BrokenIInv ==
  ASSUME IInv, TcpTypeOK', connection' = connection, lastPtz' = lastPtz,
         upsets' \in 0 .. MaxUpsets,
         user' = OnDisconnected(user) \/ user' = OnDisconnected(OnTcpError(user)), Forgotten
  PROVE  IInv'
<1>1. Good(user)
  BY IInvGood
<1>2. PICK u : /\ user' = OnDisconnected(u) /\ Good(u) /\ u.queue = user.queue
               /\ u.nextId = user.nextId /\ u.login = user.login
               /\ u.succeeded = user.succeeded
  <2>1. Good(OnTcpError(user)) /\ Ends(user, OnTcpError(user))
        /\ OnTcpError(user).succeeded = user.succeeded
    BY <1>1, OnTcpErrorFacts
  <2> QED
    BY <1>1, <2>1 DEF Ends
<1>3. /\ Good(user') /\ user'.succeeded \subseteq carriedOut'
      /\ AboutRequests' /\ OfConnection' /\ PtzInOrder'
      /\ serverVars' = <<{}, {}, FALSE, carriedOut>>
  BY <1>2, DisconnectedIInv
<1>4. TypeOK'
  BY <1>3 DEF IInv, TypeOK, Good, serverVars
<1> QED
  BY <1>3, <1>4 DEF IInv, Good

LEMMA ConnectIInv == ASSUME IInv, Connect PROVE IInv'
<1>1. TcpTypeOK' /\ upsets' \in 0 .. MaxUpsets
  BY IInvGood, TcpTyped, UpsetTyped DEF Connect
<1>2. CASE HasPeer
  BY <1>1, <1>2, BrokenIInv DEF Connect
<1>3. CASE ~HasPeer
  <2>1. HasPeer' <=> HasPeer
    BY <1>3 DEF Connect, ConnectServer, HasPeer
  <2> QED
    BY <1>1, <1>3, <2>1, ErrorIInv DEF Connect
<1> QED
  BY <1>2, <1>3

LEMMA DisconnectIInv == ASSUME IInv, Disconnect PROVE IInv'
<1>1. TcpTypeOK' /\ upsets' \in 0 .. MaxUpsets
  BY IInvGood, TcpTyped, UpsetTyped DEF Disconnect
<1>2. HasPeer' <=> HasPeer
  BY DEF Disconnect, DisconnectServer, HasPeer, IsConnected
<1> QED
  BY <1>1, <1>2, ErrorIInv DEF Disconnect

LEMMA ConnectedIInv == ASSUME IInv, Connected PROVE IInv'
<1>1. TcpTypeOK' /\ Good(user) /\ user \in Users
  BY IInvGood, TcpTyped DEF Connected
<1>2. ~HasPeer /\ HasPeer'
  BY DEF Connected, OnConnected, HasPeer
<1>3. user' \in Users /\ SameRequests(user, user')
  BY <1>1, ScheduleNextFacts DEF Connected
<1>4. Good(user')
  BY <1>1, <1>3, SameRequestsGood
<1>5. connection' = connection + 1 /\ UNCHANGED <<serverVars, lastPtz, upsets>>
  BY DEF Connected
<1>6. TypeOK'
  <2>1. connection' \in Nat
    BY <1>5 DEF IInv, TypeOK
  <2> QED
    BY <1>1, <1>3, <1>5, <2>1 DEF IInv, TypeOK, serverVars
<1>7. AboutRequests' /\ PtzInOrder'
  <2>1. Quiet(user, user')
    BY <1>3 DEF Quiet, SameRequests
  <2> QED
    BY <1>3, <1>5, <2>1, QuietAboutRequests DEF IInv, serverVars
<1>8. OfConnection'
  BY <1>2, <1>3, <1>5 DEF IInv, OfConnection, SameRequests, serverVars
<1> QED
  BY <1>3, <1>4, <1>5, <1>6, <1>7, <1>8 DEF IInv, Good, SameRequests, serverVars

LEMMA ConnectFailsIInv == ASSUME IInv, ConnectFails PROVE IInv'
<1>1. TcpTypeOK' /\ upsets' \in 0 .. MaxUpsets
  BY IInvGood, TcpTyped, UpsetTyped DEF ConnectFails
<1>2. HasPeer' <=> HasPeer
  BY DEF ConnectFails, OnConnectError, HasPeer
<1> QED
  BY <1>1, <1>2, ErrorIInv DEF ConnectFails

LEMMA ConnectionLostIInv == ASSUME IInv, ConnectionLost PROVE IInv'
<1>1. TcpTypeOK' /\ upsets' \in 0 .. MaxUpsets
  BY IInvGood, TcpTyped, UpsetTyped DEF ConnectionLost
<1> QED
  BY <1>1, BrokenIInv DEF ConnectionLost

LEMMA ClosedIInv == ASSUME IInv, Closed PROVE IInv'
<1>1. TcpTypeOK' /\ upsets' \in 0 .. MaxUpsets
  BY IInvGood, TcpTyped DEF Closed, TypeOK
<1> QED
  BY <1>1, BrokenIInv DEF Closed

LEMMA ReconnectIInv == ASSUME IInv, Reconnect PROVE IInv'
<1>1. TcpTypeOK' /\ upsets' \in 0 .. MaxUpsets
  BY IInvGood, TcpTyped DEF Reconnect, TypeOK
<1>2. HasPeer' <=> HasPeer
  BY DEF Reconnect, AttemptReconnect, HasPeer
<1> QED
  BY <1>1, <1>2, ErrorIInv DEF Reconnect

LEMMA RequestTimeoutIInv == ASSUME IInv, RequestTimeout PROVE IInv'
<1>1. Good(user) /\ TypeOK /\ user \in Users
  BY IInvGood
<1>2. TcpTypeOK' /\ (HasPeer' <=> HasPeer) /\ upsets' \in 0 .. MaxUpsets
  BY <1>1 DEF RequestTimeout, TypeOK, TcpTypeOK, tcpVars, HasPeer
<1>3. UNCHANGED <<connection, serverVars, lastPtz>>
  BY DEF RequestTimeout
<1>4. CASE user' = FailPending(user)
  <2>1. Good(user') /\ Ends(user, user') /\ user'.succeeded = user.succeeded
    BY <1>1, <1>4, FailAnyFacts
  <2> QED
    BY <1>2, <1>3, <2>1, QuietIInv DEF Ends, Quiet, serverVars
<1>5. CASE user' = [user EXCEPT !.timer = FALSE]
  <2>1. user' \in Users /\ SameRequests(user, user')
    BY <1>1, <1>5 DEF Users, SameRequests
  <2>2. Good(user')
    BY <1>1, <2>1, SameRequestsGood
  <2> QED
    BY <1>2, <1>3, <2>1, <2>2, QuietIInv DEF SameRequests, Quiet, serverVars
<1> QED
  BY <1>4, <1>5 DEF RequestTimeout

LEMMA GarbageReceivedIInv == ASSUME IInv, GarbageReceived PROVE IInv'
<1>1. Good(user) /\ TypeOK
  BY IInvGood
<1>2. TcpTypeOK' /\ (HasPeer' <=> HasPeer) /\ upsets' \in 0 .. MaxUpsets
  BY <1>1, UpsetTyped DEF GarbageReceived, TypeOK, TcpTypeOK, tcpVars, HasPeer
<1>3. Good(user') /\ Ends(user, user') /\ user'.succeeded = user.succeeded
  BY <1>1, FailAnyFacts DEF GarbageReceived
<1>4. answers' \in SUBSET answers
  BY DEF GarbageReceived
<1> QED
  BY <1>2, <1>3, <1>4, QuietIInv DEF GarbageReceived, Ends, Quiet

LEMMA DispatchIInv == ASSUME IInv, DispatchNextRequest PROVE IInv'
<1> DEFINE fired == [user EXCEPT !.scheduled = FALSE, !.dispatches = @ - 1]
<1>1. Good(user) /\ TypeOK /\ user \in Users
  BY IInvGood
<1>2. TcpTypeOK' /\ (HasPeer' <=> HasPeer) /\ upsets' \in 0 .. MaxUpsets
      /\ connection' = connection
  BY <1>1 DEF DispatchNextRequest, TypeOK, TcpTypeOK, tcpVars, HasPeer
<1>3. fired \in Users /\ SameRequests(user, fired)
  <2>0. user.dispatches \in Nat /\ user.dispatches > 0
    BY <1>1 DEF DispatchNextRequest, Users
  <2>1. user.dispatches - 1 \in Nat
    BY <2>0
  <2>2. fired = [user EXCEPT !.scheduled = FALSE, !.dispatches = user.dispatches - 1]
    OBVIOUS
  <2> HIDE DEF fired
  <2> QED
    BY <1>1, <2>1, <2>2 DEF Users, SameRequests
<1>4. \/ user' = fired /\ UNCHANGED <<serverVars, lastPtz>>
      \/ /\ user.pending = NoRequest
         /\ \E r \in user.queue :
              /\ user' = ScheduleNext(BeginRequest([fired EXCEPT !.queue = @ \ {r}], r))
              /\ Writes(r)
  BY DEF DispatchNextRequest
<1> HIDE DEF fired
<1>5. Good(fired)
  BY <1>1, <1>3, SameRequestsGood
<1>6. CASE user' = fired /\ UNCHANGED <<serverVars, lastPtz>>
  BY <1>2, <1>3, <1>5, <1>6, QuietIInv DEF SameRequests, Quiet, serverVars
<1>7. ASSUME user.pending = NoRequest, NEW r \in user.queue,
             user' = ScheduleNext(BeginRequest([fired EXCEPT !.queue = @ \ {r}], r)), Writes(r)
      PROVE  IInv'
  <2> DEFINE u == [fired EXCEPT !.queue = @ \ {r}]
             v == BeginRequest(u, r)
  <2>1. /\ u \in Users /\ u.queue = user.queue \ {r} /\ u.pending = NoRequest
        /\ u.reports = user.reports /\ u.dropped = user.dropped /\ u.nextId = user.nextId
        /\ u.login = user.login /\ u.succeeded = user.succeeded
    BY <1>3, <1>7 DEF Users, SameRequests
  <2>2. r \in Requests /\ r.id \in Ids /\ Open(user, r.id)
        /\ \A q \in user.queue \ {r} : q.id # r.id
    BY <1>1, <1>7 DEF Users, Requests, Good, HeldOnce
  <2> HIDE DEF u
  <2>3. Good(u) /\ Open(u, r.id) /\ \A q \in u.queue : q.id # r.id
    BY <1>1, <2>1, <2>2 DEF Good, HeldOnce, Open
  <2>4. /\ Good(v) /\ v.queue = u.queue /\ v.login = u.login /\ v.nextId = u.nextId
        /\ v.succeeded = u.succeeded
        /\ v.pending = IF IsConnected THEN r ELSE NoRequest
    BY <2>1, <2>2, <2>3, BeginRequestFacts
  <2>5. user' = ScheduleNext(v)
    BY <1>7 DEF u
  <2> HIDE DEF v
  <2>6. user' \in Users /\ SameRequests(v, user')
    BY <2>4, <2>5, ScheduleNextFacts DEF Good
  <2>7. Good(user')
    BY <2>4, <2>6, SameRequestsGood
  <2>8. /\ user'.queue = user.queue \ {r} /\ user'.login = user.login
        /\ user'.nextId = user.nextId /\ user'.succeeded = user.succeeded
        /\ user'.pending = IF IsConnected THEN r ELSE NoRequest
    BY <2>1, <2>4, <2>6 DEF SameRequests
  <2>9. CASE ~IsConnected
    <3>1. UNCHANGED <<serverVars, lastPtz>>
      BY <1>7, <2>9 DEF Writes
    <3>2. Quiet(user, user')
      BY <2>8, <2>9 DEF Quiet
    <3>3. AboutRequests' /\ PtzInOrder'
      BY <2>6, <3>1, <3>2, QuietAboutRequests DEF IInv, serverVars
    <3>4. OfConnection'
      BY <1>2, <2>8, <3>1 DEF IInv, OfConnection, serverVars
    <3>5. TypeOK'
      BY <1>1, <1>2, <2>6, <3>1 DEF TypeOK, serverVars
    <3> QED
      BY <2>7, <2>8, <3>1, <3>3, <3>4, <3>5 DEF IInv, Good, serverVars
  <2>10. CASE IsConnected
    <3>1. /\ atServer' = atServer \cup {r} /\ lastPtz' = IF r.kind \in Ptz THEN r.id ELSE lastPtz
          /\ answers' = answers /\ serverLogin' = serverLogin /\ carriedOut' = carriedOut
      BY <1>7, <2>10 DEF Writes
    <3>2. HasPeer /\ user'.pending = r /\ r.id < user.nextId
      BY <2>2, <2>8, <2>10 DEF HasPeer, IsConnected, Open
    <3>3. TypeOK'
      <4>1. lastPtz' \in Nat /\ atServer' \in SUBSET Requests
        BY <1>1, <2>2, <3>1 DEF TypeOK, Ids
      <4> QED
        BY <1>1, <1>2, <2>6, <3>1, <4>1 DEF TypeOK
    <3>4. AboutRequests'
      <4>1. \A x \in atServer : x.id # r.id
        BY <1>7 DEF IInv, AboutRequests
      <4>2. \A a \in answers : a.id # r.id
        BY <1>7 DEF IInv, AboutRequests
      <4>3. \A x \in atServer' : x.id < user'.nextId /\ \A q \in user'.queue : q.id # x.id
        BY <2>2, <2>8, <3>1, <3>2 DEF IInv, AboutRequests
      <4>4. \A a \in answers' : a.id < user'.nextId /\ \A q \in user'.queue : q.id # a.id
        BY <2>8, <3>1 DEF IInv, AboutRequests
      <4> QED
        BY <3>1, <3>2, <4>1, <4>2, <4>3, <4>4 DEF IInv, AboutRequests
    <3>5. OfConnection'
      BY <1>2, <1>7, <2>8, <3>1, <3>2 DEF IInv, OfConnection
    <3>6. PtzInOrder'
      <4>1. LatestPtzWins /\ lastPtz < user.nextId
        BY DEF IInv, PtzInOrder
      <4>2. CASE r.kind \in Ptz
        BY <1>7, <2>8, <3>1, <3>2, <4>1, <4>2 DEF PtzInOrder, LatestPtzWins
      <4>3. CASE r.kind \notin Ptz
        BY <2>8, <3>1, <4>1, <4>3 DEF PtzInOrder, LatestPtzWins
      <4> QED
        BY <4>2, <4>3
    <3> QED
      BY <2>7, <2>8, <3>1, <3>3, <3>4, <3>5, <3>6 DEF IInv, Good
  <2> QED
    BY <2>9, <2>10
<1> QED
  BY <1>4, <1>6, <1>7

LEMMA AnswerReceivedIInv == ASSUME IInv, AnswerReceived PROVE IInv'
<1>1. Good(user) /\ TypeOK /\ user \in Users
  BY IInvGood
<1>2. TcpTypeOK' /\ (HasPeer' <=> HasPeer) /\ upsets' \in 0 .. MaxUpsets /\ HasPeer
  BY <1>1 DEF AnswerReceived, TypeOK, TcpTypeOK, tcpVars, HasPeer
<1>3. UNCHANGED <<connection, atServer, serverLogin, carriedOut, lastPtz>>
  BY DEF AnswerReceived
<1>4. PICK a \in answers : user' = OnAnswer(user, a) /\ answers' = answers \ {a}
  BY DEF AnswerReceived
<1>5. CASE user' = user
  BY <1>1, <1>2, <1>3, <1>4, <1>5, QuietIInv DEF Quiet
<1>6. CASE user.pending # NoRequest /\ user' = FailPending(user)
  <2>1. Good(user') /\ Ends(user, user') /\ user'.succeeded = user.succeeded
    BY <1>1, <1>6, FailPendingFacts
  <2> QED
    BY <1>2, <1>3, <1>4, <2>1, QuietIInv DEF Ends, Quiet
<1> DEFINE granted == IF user.pending.kind = "login" THEN connection ELSE user.login
           u == [user EXCEPT !.login = granted]
<1>7. CASE user.pending # NoRequest /\ a.id = user.pending.id /\ a.ok
           /\ user' = CompletePending(u)
  <2>1. granted \in Nat
    BY <1>1 DEF TypeOK, Users
  <2>2. /\ u \in Users /\ u.login = granted /\ u.pending = user.pending
        /\ u.queue = user.queue /\ u.reports = user.reports /\ u.dropped = user.dropped
        /\ u.nextId = user.nextId /\ u.succeeded = user.succeeded
    BY <1>1, <2>1 DEF Users
  <2>3. granted # 0 => granted = connection /\ serverLogin
    BY <1>4, <1>7 DEF IInv, AboutRequests, OfConnection
  <2>4. user.login # 0 => granted = user.login
    BY DEF IInv, OfConnection
  <2> HIDE DEF granted, u
  <2>5. Good(u)
    BY <1>1, <2>2 DEF Good, HeldOnce, Open
  <2>6. /\ Good(user') /\ Ends(u, user')
        /\ user'.succeeded = user.succeeded \cup {user.pending.id}
    BY <1>7, <2>2, <2>5, CompletePendingFacts
  <2>7. user'.succeeded \subseteq carriedOut'
    BY <1>3, <1>4, <1>7, <2>6 DEF IInv, AboutRequests
  <2>8. Quiet(user, user') /\ user'.queue = user.queue /\ user'.login = granted
    BY <2>2, <2>6 DEF Quiet, Ends
  <2>9. AboutRequests' /\ PtzInOrder'
    BY <1>3, <1>4, <2>6, <2>8, QuietAboutRequests DEF IInv, Good
  <2>10. \A q \in user'.queue : q.kind \in Guests \/ (granted # 0 /\ q.under = granted)
    BY <2>4, <2>8 DEF IInv, OfConnection
  <2>11. OfConnection'
    BY <1>2, <1>3, <2>3, <2>8, <2>10 DEF IInv, OfConnection
  <2>12. TypeOK'
    BY <1>1, <1>2, <1>3, <1>4, <2>6 DEF TypeOK, Good
  <2> QED
    BY <2>6, <2>7, <2>9, <2>11, <2>12 DEF IInv, Good
<1> QED
  BY <1>4, <1>5, <1>6, <1>7 DEF OnAnswer

LEMMA ServeIInv == ASSUME IInv, Serve PROVE IInv'
<1>1. Good(user) /\ TypeOK
  BY IInvGood
<1>2. TcpTypeOK' /\ (HasPeer' <=> HasPeer) /\ upsets' \in 0 .. MaxUpsets /\ HasPeer
      /\ UNCHANGED <<user, connection, lastPtz>>
  BY <1>1 DEF Serve, TypeOK, TcpTypeOK, tcpVars, HasPeer
<1>3. PICK r \in atServer, ok \in BOOLEAN :
        /\ atServer' = atServer \ {r}
        /\ answers' = answers \cup {[id |-> r.id, ok |-> ok]}
        /\ serverLogin' = (serverLogin \/ (ok /\ r.kind = "login"))
        /\ carriedOut' = IF ok THEN carriedOut \cup {r.id} ELSE carriedOut
  BY DEF Serve
<1>4. r \in Requests /\ r.id \in Ids
  BY <1>1 DEF TypeOK, Requests
<1>5. carriedOut \subseteq carriedOut' /\ (ok => r.id \in carriedOut')
  BY <1>3
<1>6. (serverLogin => serverLogin') /\ (ok /\ r.kind = "login" => serverLogin')
  BY <1>3
<1>7. TypeOK'
  <2>1. serverLogin' \in BOOLEAN
    BY <1>1, <1>3 DEF TypeOK
  <2>2. answers' \in SUBSET [id : Ids, ok : BOOLEAN] /\ atServer' \in SUBSET Requests
    BY <1>1, <1>3, <1>4 DEF TypeOK
  <2>3. carriedOut' \in SUBSET Ids
    BY <1>1, <1>3, <1>4 DEF TypeOK
  <2> QED
    BY <1>1, <1>2, <2>1, <2>2, <2>3 DEF TypeOK
<1>8. AboutRequests'
  <2>1. \A a \in answers' : a \in answers \/ (a.id = r.id /\ a.ok = ok)
    BY <1>3
  <2>2. \A a \in answers' : a.id < user.nextId /\ \A q \in user.queue : q.id # a.id
    BY <2>1 DEF IInv, AboutRequests
  <2>3. \A a \in answers' : a.ok => a.id \in carriedOut'
    BY <1>5, <2>1 DEF IInv, AboutRequests
  <2>4. \A a \in answers' :
          a.ok /\ user.pending # NoRequest /\ a.id = user.pending.id
            /\ user.pending.kind = "login" => serverLogin'
    BY <1>6, <2>1 DEF IInv, AboutRequests
  <2> QED
    BY <1>2, <1>3, <2>2, <2>3, <2>4 DEF IInv, AboutRequests
<1>9. OfConnection'
  BY <1>2, <1>3, <1>6 DEF IInv, OfConnection
<1>10. PtzInOrder'
  BY <1>2 DEF IInv, PtzInOrder, LatestPtzWins
<1> QED
  BY <1>1, <1>2, <1>5, <1>7, <1>8, <1>9, <1>10 DEF IInv, Good

LEMMA StepIInv == IInv /\ [Next]_vars => IInv'
<1> SUFFICES ASSUME IInv, [Next]_vars PROVE IInv'
  OBVIOUS
<1>1. ASSUME NEW kind \in Kinds, Request(kind) PROVE IInv'
  BY <1>1, RequestIInv
<1>2. ASSUME NEW kind \in Kinds, RequestTooLong(kind) PROVE IInv'
  BY <1>2, RequestTooLongIInv
<1>3. CASE Connect \/ Disconnect \/ Connected \/ ConnectFails
  BY <1>3, ConnectIInv, DisconnectIInv, ConnectedIInv, ConnectFailsIInv
<1>4. CASE ConnectionLost \/ Closed \/ Reconnect
  BY <1>4, ConnectionLostIInv, ClosedIInv, ReconnectIInv
<1>5. CASE RequestTimeout \/ DispatchNextRequest \/ AnswerReceived \/ GarbageReceived \/ Serve
  BY <1>5, RequestTimeoutIInv, DispatchIInv, AnswerReceivedIInv, GarbageReceivedIInv, ServeIInv
<1>6. CASE UNCHANGED vars
  BY <1>6, IInvGood, ErrorIInv
  DEF vars, TypeOK, TcpTypeOK, tcpVars, HasPeer
<1> QED
  BY <1>1, <1>2, <1>3, <1>4, <1>5, <1>6 DEF Next

THEOREM Invariance == Spec => []IInv
<1> QED
  BY InitIInv, StepIInv, PTL DEF Spec

-------------------------------------------------------------------------------
(* The results.                                                             *)

(* Every reachable state of the client, of its socket and of what is on its *)
(* way is well typed.                                                       *)
THEOREM TypeCorrect == Spec => []TypeOK
<1>1. IInv => TypeOK
  BY DEF IInv
<1> QED
  BY <1>1, Invariance, PTL

(* No request is reported twice or as a success that it was not, whatever   *)
(* timeouts, errors, late answers and reconnections happen.                 *)
THEOREM ReportedTruly == Spec => []AnsweredOnce
<1>1. IInv => AnsweredOnce
  <2> SUFFICES ASSUME IInv, NEW id \in Ids
               PROVE  user.reports[id] + (IF id \in user.dropped THEN 1 ELSE 0) <= 1
    BY DEF IInv, AnsweredOnce
  <2>1. user.reports[id] \in {0, 1} /\ (user.reports[id] = 1 => id \notin user.dropped)
    BY DEF IInv, HeldOnce
  <2> QED
    BY <2>1
<1> QED
  BY <1>1, Invariance, PTL

(* No request made under a login reaches the server over a later connection. *)
THEOREM LoginOfConnection == Spec => []LoginEndsWithConnection
<1>1. IInv => LoginEndsWithConnection
  BY DEF IInv, OfConnection, LoginEndsWithConnection
<1> QED
  BY <1>1, Invariance, PTL

(* The camera is never sent an older key event after a newer one.           *)
THEOREM PtzStaysInOrder == Spec => []LatestPtzWins
<1>1. IInv => LatestPtzWins
  BY DEF IInv, PtzInOrder
<1> QED
  BY <1>1, Invariance, PTL

===============================================================================

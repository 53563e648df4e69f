-------------------------- MODULE StreamSessionProofs --------------------------
(***************************************************************************)
(* Proofs about RingBuffer, for any threads and any capacity: where the    *)
(* indices are, that no wakeup is lost, and that the circular buffer with  *)
(* its waits implements BoundedQueue, the queue between the threads of     *)
(* StreamSession.                                                          *)
(*                                                                         *)
(* And about StreamSession, for any queue, camera and number of calls:     *)
(* that stop() and reconnect() leave no thread behind; that after a        *)
(* reconnect only new frames are delivered; that what is delivered of a    *)
(* connection to the camera has no gap; and that recordings hold what was  *)
(* delivered while they ran.                                               *)
(***************************************************************************)
EXTENDS StreamSession, RingBuffer, FiniteSetTheorems, SequenceTheorems, TLAPS

(* Who runs while the owner is in a call. *)
CallInv ==
  /\ ownerAt \in {"reclose", "rejoin", "reopen", "reclear", "restart"} => running
  /\ ownerAt \in {"finish", "reopen", "reclear", "restart"} => pullAt = "off"
  /\ ownerAt = "idle" /\ ~running => pullAt = "off"

(* Frames on their way are those of the promised connection or a later one. *)
FreshInv ==
  /\ fresh <= opens
  /\ pullAt \in {"record", "deliver", "push"} => frame[1] >= fresh
  /\ \A i \in 1..Len(queue) : queue[i][1] >= fresh
  /\ ownerAt = "restart" => queue = <<>>

(* Type correctness, in parts; a recording has a file. *)
Flags ==
  /\ direct \in BOOLEAN /\ running \in BOOLEAN /\ pullQuit \in BOOLEAN
  /\ opened \in BOOLEAN /\ sourceHeld \in BOOLEAN
  /\ queueClosed \in BOOLEAN /\ recording \in BOOLEAN

Places ==
  ownerAt \in OwnerSteps /\ pullAt \in PullSteps /\ consumerAt \in {"idle", "pop"}

Counters ==
  /\ opens \in 0..MaxOpens /\ number \in 0..sent /\ sent \in 0..MaxFrames
  /\ fresh \in 0..MaxOpens

Data ==
  /\ queue \in Seq(Frames) /\ Len(queue) <= QueueCapacity
  /\ files \in Seq(Seq(Frames)) /\ (recording => files # <<>>)
  /\ frame \in Frames
  /\ delivered \in Seq(Frames)

Typed == Flags /\ Places /\ Counters /\ Data

LEMMA FlagsKept == ASSUME Flags, Next PROVE Flags'
<1> USE DEF Flags, sourceVars, queueVars, recordVars, OwnerGoes, PullGoes, ConsumerGoes,
            SourceOpens, SourceCloses, SourceStaysClosed
<1>1. CASE Start \/ Stop \/ Reconnect \/ StopRecord \/ StartRecord
  BY <1>1 DEF Start, Stop, Reconnect, StopRecord, StartRecord
<1>2. CASE OwnerInCall
  BY <1>2 DEF OwnerInCall, StopQuit, StopClose, StopCloseQueue, StopClearQueue, StopJoin,
              StopFinish, ReconnectClose, ReconnectJoin, ReconnectOpen, ReconnectClear,
              ReconnectRestart
<1>3. CASE Camera \/ Pull
  BY <1>3 DEF Camera, ReadFrame, ReadOversized, ReadEnd, Pull, PullCheck, ReadBegin, PullFailed,
              RetryClose, RetryOpened, RetryRefused, Record, Sink, Backpressure, Enqueue, EnqueueRefused
<1>4. CASE NextSendPacket \/ Consumer
  BY <1>4 DEF NextSendPacket, Consumer, PopFrame, PopNothing
<1> QED
  BY <1>1, <1>2, <1>3, <1>4 DEF Next

LEMMA PlacesKept == ASSUME Places, Next PROVE Places'
<1> USE DEF Places, OwnerSteps, PullSteps, OwnerGoes, PullGoes, ConsumerGoes
<1>1. CASE Start \/ Stop \/ Reconnect \/ StopRecord \/ StartRecord
  BY <1>1 DEF Start, Stop, Reconnect, StopRecord, StartRecord
<1>2. CASE OwnerInCall
  BY <1>2 DEF OwnerInCall, StopQuit, StopClose, StopCloseQueue, StopClearQueue, StopJoin,
              StopFinish, ReconnectClose, ReconnectJoin, ReconnectOpen, ReconnectClear,
              ReconnectRestart
<1>3. CASE Camera \/ Pull
  BY <1>3 DEF Camera, ReadFrame, ReadOversized, ReadEnd, Pull, PullCheck, ReadBegin, PullFailed,
              RetryClose, RetryOpened, RetryRefused, Record, Sink, Backpressure, Enqueue, EnqueueRefused
<1>4. CASE NextSendPacket \/ Consumer
  BY <1>4 DEF NextSendPacket, Consumer, PopFrame, PopNothing
<1> QED
  BY <1>1, <1>2, <1>3, <1>4 DEF Next

LEMMA CountersKept == ASSUME Counters, Next PROVE Counters'
<1> USE StreamSessionAssumption
    DEF Counters, sourceVars, OwnerGoes, PullGoes, ConsumerGoes,
        SourceOpens, SourceCloses, SourceStaysClosed
<1>1. CASE Start \/ Stop \/ Reconnect \/ StopRecord \/ StartRecord
  BY <1>1 DEF Start, Stop, Reconnect, StopRecord, StartRecord
<1>2. CASE OwnerInCall
  BY <1>2 DEF OwnerInCall, StopQuit, StopClose, StopCloseQueue, StopClearQueue, StopJoin,
              StopFinish, ReconnectClose, ReconnectJoin, ReconnectOpen, ReconnectClear,
              ReconnectRestart
<1>3. CASE Camera \/ Pull
  BY <1>3 DEF Camera, ReadFrame, ReadOversized, ReadEnd, Pull, PullCheck, ReadBegin, PullFailed,
              RetryClose, RetryOpened, RetryRefused, Record, Sink, Backpressure, Enqueue, EnqueueRefused
<1>4. CASE NextSendPacket \/ Consumer
  BY <1>4 DEF NextSendPacket, Consumer, PopFrame, PopNothing
<1> QED
  BY <1>1, <1>2, <1>3, <1>4 DEF Next

LEMMA DataKept == ASSUME Data, Counters, Counters', Next PROVE Data'
<1> USE StreamSessionAssumption DEF Data, queueVars, recordVars, OwnerGoes, PullGoes, ConsumerGoes
<1>1. CASE Start \/ Stop \/ Reconnect \/ StopRecord
  BY <1>1 DEF Start, Stop, Reconnect, StopRecord
<1>2. CASE StartRecord
  <2>1. <<>> \in Seq(Frames)
    OBVIOUS
  <2> QED
    BY <1>2, <2>1 DEF StartRecord
<1>3. CASE OwnerInCall
  <2>1. <<>> \in Seq(Frames) /\ Len(<<>>) = 0
    OBVIOUS
  <2>2. CASE StopClearQueue \/ ReconnectClear
    <3>1. queue' = <<>> /\ 0 <= QueueCapacity
      BY <2>2 DEF StopClearQueue, ReconnectClear
    <3> QED
      BY <2>1, <2>2, <3>1 DEF StopClearQueue, ReconnectClear
  <2>3. CASE \/ StopQuit \/ StopClose \/ StopCloseQueue \/ StopJoin \/ StopFinish
             \/ ReconnectClose \/ ReconnectJoin \/ ReconnectOpen \/ ReconnectRestart
    BY <2>3 DEF StopQuit, StopClose, StopCloseQueue, StopJoin, StopFinish, ReconnectClose,
                ReconnectJoin, ReconnectOpen, ReconnectRestart
  <2> QED
    BY <1>3, <2>2, <2>3 DEF OwnerInCall
<1>4. CASE ReadFrame
  <2>1. <<opens, number'>> \in Frames
    BY <1>4 DEF ReadFrame, Frames, Counters
  <2> QED
    BY <1>4, <2>1 DEF ReadFrame
<1>5. CASE Record
  <2>1. files' \in Seq(Seq(Frames))
    <3>1. CASE recording
      <4>1. PICK written \in {frame, Torn} :
              files' = [files EXCEPT ![Len(files)] = Append(@, written)]
        BY <1>5, <3>1 DEF Record
      <4>2. Len(files) \in 1..Len(files)
        BY <3>1
      <4>3. written \in Frames
        BY DEF Torn, Frames
      <4>4. Append(files[Len(files)], written) \in Seq(Frames)
        BY <4>2, <4>3
      <4> QED
        BY <4>1, <4>2, <4>4
    <3>2. CASE ~recording
      BY <1>5, <3>2 DEF Record
    <3> QED
      BY <3>1, <3>2
  <2>2. recording' => files' # <<>>
    BY <1>5 DEF Record
  <2> QED
    BY <1>5, <2>1, <2>2 DEF Record
<1>6. CASE Sink
  <2>1. Append(delivered, frame) \in Seq(Frames)
    OBVIOUS
  <2> QED
    BY <1>6, <2>1 DEF Sink
<1>7. CASE Enqueue
  <2>1. Append(queue, frame) \in Seq(Frames) /\ Len(Append(queue, frame)) = Len(queue) + 1
    OBVIOUS
  <2> QED
    BY <1>7, <2>1 DEF Enqueue
<1>8. CASE ReadOversized \/ ReadEnd \/ PullCheck \/ ReadBegin \/ PullFailed \/ RetryClose
           \/ RetryOpened \/ RetryRefused \/ Backpressure \/ EnqueueRefused
  BY <1>8 DEF ReadOversized, ReadEnd, PullCheck, ReadBegin, PullFailed, RetryClose,
              RetryOpened, RetryRefused, Backpressure, EnqueueRefused
<1>9. CASE PopFrame
  <2>1. /\ Tail(queue) \in Seq(Frames) /\ Len(Tail(queue)) = Len(queue) - 1
        /\ Append(delivered, Head(queue)) \in Seq(Frames)
    BY <1>9 DEF PopFrame
  <2> QED
    BY <1>9, <2>1 DEF PopFrame
<1>10. CASE NextSendPacket \/ PopNothing
  BY <1>10 DEF NextSendPacket, PopNothing
<1> QED
  BY <1>1, <1>2, <1>3, <1>4, <1>5, <1>6, <1>7, <1>8, <1>9, <1>10
     DEF Next, Camera, Pull, Consumer

LEMMA TypedKept == ASSUME Typed, Next PROVE Typed'
BY FlagsKept, PlacesKept, CountersKept, DataKept DEF Typed

-------------------------------------------------------------------------------
(* The two invariants about threads and frames. *)

LEMMA CallKept == ASSUME Typed, CallInv, Next PROVE CallInv'
<1> USE DEF CallInv, OwnerGoes, PullGoes, ConsumerGoes
<1>1. CASE Start \/ Stop \/ Reconnect \/ StopRecord \/ StartRecord
  BY <1>1 DEF Start, Stop, Reconnect, StopRecord, StartRecord
<1>2. CASE OwnerInCall
  BY <1>2 DEF OwnerInCall, StopQuit, StopClose, StopCloseQueue, StopClearQueue, StopJoin,
              StopFinish, ReconnectClose, ReconnectJoin, ReconnectOpen, ReconnectClear,
              ReconnectRestart
<1>3. CASE Camera \/ Pull
  BY <1>3 DEF Camera, ReadFrame, ReadOversized, ReadEnd, Pull, PullCheck, ReadBegin, PullFailed,
              RetryClose, RetryOpened, RetryRefused, Record, Sink, Backpressure, Enqueue, EnqueueRefused
<1>4. CASE NextSendPacket \/ Consumer
  BY <1>4 DEF NextSendPacket, Consumer, PopFrame, PopNothing
<1> QED
  BY <1>1, <1>2, <1>3, <1>4 DEF Next

LEMMA FreshKept == ASSUME Typed, Typed', CallInv, FreshInv, Next PROVE FreshInv'
<1> USE DEF Typed, Counters, Data
<1>1. CASE Start \/ Stop \/ Reconnect \/ StopRecord \/ StartRecord
  BY <1>1, SMTT(40) DEF FreshInv, Start, Stop, Reconnect, StopRecord, StartRecord, SourceOpens, OwnerGoes,
              queueVars, sourceVars, CallInv
<1>2. CASE StopClearQueue \/ ReconnectClear
  <2>1. queue' = <<>> /\ Len(<<>>) = 0
    BY <1>2 DEF StopClearQueue, ReconnectClear
  <2> QED
    BY <1>2, <2>1 DEF FreshInv, StopClearQueue, ReconnectClear, OwnerGoes, sourceVars
<1>3. CASE ReconnectRestart
  <2>1. queue' = <<>> /\ Len(<<>>) = 0
    BY <1>3 DEF ReconnectRestart, FreshInv, OwnerGoes, queueVars
  <2> QED
    BY <1>3, <2>1 DEF FreshInv, ReconnectRestart, OwnerGoes, sourceVars
<1>4. CASE ReconnectOpen
  BY <1>4 DEF FreshInv, ReconnectOpen, OwnerGoes, queueVars, SourceOpens, SourceStaysClosed
<1>5. CASE \/ StopQuit \/ StopClose \/ StopCloseQueue \/ StopJoin \/ StopFinish
           \/ ReconnectClose \/ ReconnectJoin
  BY <1>5 DEF FreshInv, StopQuit, StopClose, StopCloseQueue, StopJoin, StopFinish, ReconnectClose,
              ReconnectJoin, OwnerGoes, SourceCloses, queueVars, sourceVars
<1>6. CASE ReadFrame
  <2>1. frame'[1] = opens
    BY <1>6 DEF ReadFrame
  <2> QED
    BY <1>6, <2>1 DEF FreshInv, ReadFrame, PullGoes, queueVars
<1>7. CASE ReadOversized \/ ReadEnd \/ PullCheck \/ ReadBegin \/ PullFailed
  BY <1>7 DEF FreshInv, ReadOversized, ReadEnd, PullCheck, ReadBegin, PullFailed, PullGoes,
              queueVars, sourceVars
<1>8. CASE RetryClose \/ RetryOpened \/ RetryRefused
  BY <1>8, SMTT(40) DEF FreshInv, RetryClose, RetryOpened, RetryRefused, PullGoes, SourceOpens,
              SourceStaysClosed, queueVars
<1>9. CASE Backpressure \/ EnqueueRefused \/ Record \/ Sink
  BY <1>9 DEF FreshInv, Backpressure, EnqueueRefused, Record, Sink, PullGoes, queueVars, sourceVars
<1>10. CASE Enqueue
  <2>1. /\ Len(queue') = Len(queue) + 1 /\ queue'[Len(queue) + 1] = frame
        /\ \A i \in 1..Len(queue) : queue'[i] = queue[i]
    BY <1>10 DEF Enqueue
  <2>2. pullAt = "push" /\ ownerAt' = ownerAt /\ fresh' = fresh /\ frame' = frame
        /\ opens' = opens /\ pullAt' = "check"
    BY <1>10 DEF Enqueue, PullGoes, sourceVars
  <2>3. ASSUME NEW i \in 1..Len(queue') PROVE queue'[i][1] >= fresh'
    <3>1. Len(queue) \in Nat
      OBVIOUS
    <3>2. i \in 1..Len(queue) \/ i = Len(queue) + 1
      BY <2>1, <3>1, SMTT(40)
    <3> QED
      BY <2>1, <2>2, <3>2 DEF FreshInv
  <2>4. ownerAt # "restart"
    BY <2>2 DEF CallInv
  <2> QED
    BY <2>2, <2>3, <2>4 DEF FreshInv
<1>11. CASE PopFrame
  <2>1. /\ queue # <<>> /\ queue' = Tail(queue)
        /\ UNCHANGED <<ownerAt, pullAt, frame, fresh, opens>>
    BY <1>11 DEF PopFrame, ConsumerGoes, sourceVars
  <2>2. Len(queue') = Len(queue) - 1 /\ \A i \in 1..Len(queue') : queue'[i] = queue[i + 1]
    BY <2>1
  <2> QED
    BY <2>1, <2>2 DEF FreshInv
<1>12. CASE NextSendPacket \/ PopNothing
  BY <1>12 DEF FreshInv, NextSendPacket, PopNothing, ConsumerGoes, sourceVars
<1> QED
  BY <1>1, <1>2, <1>3, <1>4, <1>5, <1>6, <1>7, <1>8, <1>9, <1>10, <1>11, <1>12
     DEF Next, OwnerInCall, Camera, Pull, Consumer

-------------------------------------------------------------------------------
(* The stream of frames, from the camera to the client.                     *)

(* Frame b may come next after frame a. *)
Precedes(a, b) == IF b[1] = a[1] THEN b[2] = a[2] + 1 ELSE b[1] > a[1] /\ b[2] = 1

Chain(s) == \A i \in 1..(Len(s) - 1) : Precedes(s[i], s[i + 1])

(* The last frame that was delivered, and the last that was passed on. *)
Shown == IF delivered # <<>> THEN delivered[Len(delivered)] ELSE <<0, 0>>
Latest == IF queue # <<>> THEN queue[Len(queue)] ELSE Shown

(* The pull thread has a frame; what it passes on can still be delivered; a *)
(* frame of the present connection can still be read.                       *)
InHand == pullAt \in {"record", "deliver", "push"}
Passes == direct \/ ~queueClosed
MayRead ==
  \/ pullAt = "read"
  \/ opened /\ (pullAt = "lock" \/ ~pullQuit \/ ownerAt \in {"reclear", "restart"})

(* What was passed on has no gap.  Frames are dropped only when no other of *)
(* their connection follows, so the one in hand continues what was passed   *)
(* on, and so does the next one wherever another may be read.               *)
PipeInv ==
  /\ Chain(delivered) /\ Chain(queue)
  /\ queue # <<>> => Precedes(Shown, queue[1])
  /\ Shown[1] <= Latest[1] /\ Latest[1] <= opens
  /\ \A i \in 1..Len(queue) : queue[i][1] <= Latest[1]

HandInv ==
  /\ direct => queue = <<>> /\ pullAt # "push"
  /\ ownerAt \in {"clearQueue", "join"} => queueClosed
  /\ InHand => frame = <<opens, number>>
  /\ InHand /\ Passes => Precedes(Latest, frame)
  /\ MayRead /\ ~InHand /\ Passes => Precedes(Latest, <<opens, number + 1>>)
  /\ ownerAt = "reclear" /\ opened => number = 0 /\ Latest[1] < opens

FlowInv == PipeInv /\ HandInv

LEMMA LastAppended ==
  ASSUME NEW s \in Seq(Frames), NEW f \in Frames
  PROVE  Append(s, f) # <<>> /\ Append(s, f)[Len(Append(s, f))] = f
<1>1. /\ Append(s, f) \in Seq(Frames) /\ Len(Append(s, f)) = Len(s) + 1 /\ Len(s) \in Nat
      /\ Append(s, f)[Len(s) + 1] = f
  OBVIOUS
<1> QED
  BY <1>1

LEMMA ChainAppended ==
  ASSUME NEW s \in Seq(Frames), NEW f \in Frames, Chain(s), s # <<>> => Precedes(s[Len(s)], f)
  PROVE  Chain(Append(s, f))
<1>1. /\ Len(Append(s, f)) = Len(s) + 1 /\ Len(s) \in Nat
      /\ \A i \in 1..Len(s) : Append(s, f)[i] = s[i]
      /\ Append(s, f)[Len(s) + 1] = f
  OBVIOUS
<1>2. ASSUME NEW i \in 1..Len(s) PROVE Precedes(Append(s, f)[i], Append(s, f)[i + 1])
  <2>1. CASE i = Len(s)
    BY <1>1, <2>1
  <2>2. CASE i # Len(s)
    <3>1. i \in 1..(Len(s) - 1) /\ i + 1 \in 1..Len(s)
      BY <1>1, <2>2
    <3> QED
      BY <1>1, <3>1 DEF Chain
  <2> QED
    BY <2>1, <2>2
<1> QED
  BY <1>1, <1>2 DEF Chain

LEMMA ChainTail ==
  ASSUME NEW s \in Seq(Frames), s # <<>>, Chain(s)
  PROVE  /\ Chain(Tail(s))
         /\ Tail(s) # <<>> => /\ Precedes(s[1], Tail(s)[1])
                              /\ Tail(s)[Len(Tail(s))] = s[Len(s)]
         /\ Tail(s) = <<>> => s[Len(s)] = s[1]
<1>1. /\ Len(Tail(s)) = Len(s) - 1 /\ Len(s) \in Nat /\ Len(s) > 0
      /\ \A i \in 1..(Len(s) - 1) : Tail(s)[i] = s[i + 1]
      /\ Tail(s) \in Seq(Frames)
  OBVIOUS
<1>2. ASSUME NEW i \in 1..(Len(Tail(s)) - 1) PROVE Precedes(Tail(s)[i], Tail(s)[i + 1])
  <2>1. /\ i \in 1..(Len(s) - 1) /\ i + 1 \in 1..(Len(s) - 1)
    BY <1>1
  <2> QED
    BY <1>1, <2>1 DEF Chain
<1>3. Tail(s) # <<>> => Len(s) - 1 \in 1..(Len(s) - 1) /\ 1 \in 1..(Len(s) - 1)
  BY <1>1
<1>4. Tail(s) = <<>> => Len(s) = 1
  BY <1>1
<1> QED
  BY <1>1, <1>2, <1>3, <1>4 DEF Chain

LEMMA LatestTyped ==
  ASSUME Typed
  PROVE  /\ Shown \in Frames /\ Latest \in Frames
         /\ opens \in Nat /\ number \in Nat
         /\ queue \in Seq(Frames) /\ delivered \in Seq(Frames) /\ frame \in Frames
         /\ \A f \in Frames : f[1] \in Nat /\ f[2] \in Nat
<1>1. <<0, 0>> \in Frames
  BY StreamSessionAssumption DEF Frames
<1>2. Shown \in Frames
  BY <1>1 DEF Typed, Data, Shown
<1>3. Latest \in Frames
  BY <1>2 DEF Typed, Data, Latest
<1> QED
  BY <1>2, <1>3, SMTT(40) DEF Typed, Data, Counters, Frames

(* Steps that pass nothing on.                                              *)
LEMMA PipeStill ==
  ASSUME UNCHANGED <<queue, delivered>>
  PROVE  /\ Shown' = Shown /\ Latest' = Latest
         /\ PipeInv /\ opens' = opens => PipeInv'
BY DEF Shown, Latest, PipeInv, Chain, Precedes

LEMMA FlowKept ==
  ASSUME Typed, Typed', CallInv, FlowInv, Next
  PROVE  FlowInv'
<1> DEFINE Quiet == UNCHANGED <<direct, queue, queueClosed, delivered, frame, opens, number>>
<1>a. /\ PipeInv /\ HandInv /\ Shown \in Frames /\ Latest \in Frames
      /\ opens \in Nat /\ number \in Nat /\ \A f \in Frames : f[1] \in Nat /\ f[2] \in Nat
  BY LatestTyped DEF FlowInv
<1>b. ASSUME Quiet PROVE PipeInv' /\ Latest' = Latest
  BY <1>a, <1>b, PipeStill
<1>c. ASSUME UNCHANGED <<queue, delivered>>, opens' = opens + 1, number' = 0
      PROVE  /\ PipeInv' /\ Latest' = Latest
             /\ Latest'[1] < opens' /\ Precedes(Latest', <<opens', number' + 1>>)
  <2>1. Shown' = Shown /\ Latest' = Latest
    BY <1>c, PipeStill
  <2>2. Latest[1] < opens'
    BY <1>a, <1>c DEF PipeInv
  <2>3. Precedes(Latest', <<opens', number' + 1>>)
    BY <1>a, <1>c, <2>1, <2>2 DEF Precedes
  <2>4. PipeInv'
    BY <1>a, <1>c, <2>1, <2>2 DEF PipeInv, Chain, Precedes
  <2> QED
    BY <2>1, <2>2, <2>3, <2>4
<1> USE DEF OwnerGoes, PullGoes, ConsumerGoes, sourceVars, queueVars
(* Calls of the owner that leave the source and the queue alone. *)
<1>1. CASE Stop \/ Reconnect \/ StartRecord \/ StopRecord
  <2>1. Quiet /\ UNCHANGED <<opened, pullAt>> /\ (pullQuit' = pullQuit \/ pullQuit')
    BY <1>1 DEF Stop, Reconnect, StartRecord, StopRecord
  <2>2. ownerAt' \notin {"clearQueue", "join", "reclear", "restart"}
    BY <1>1 DEF Stop, Reconnect, StartRecord, StopRecord
  <2> QED
    BY <1>a, <1>b, <2>1, <2>2 DEF FlowInv, HandInv, InHand, Passes, MayRead
<1>2. CASE StopQuit \/ StopJoin \/ StopFinish \/ ReconnectJoin
  BY <1>2, <1>a, <1>b DEF FlowInv, HandInv, InHand, Passes, MayRead, StopQuit, StopJoin, StopFinish, ReconnectJoin
<1>3. CASE ReconnectRestart
  BY <1>3, <1>a, <1>b DEF FlowInv, HandInv, InHand, Passes, MayRead, ReconnectRestart, CallInv
<1>4. CASE StopClose \/ ReconnectClose
  BY <1>4, <1>a, <1>b DEF FlowInv, HandInv, InHand, Passes, MayRead, StopClose, ReconnectClose, SourceCloses
<1>5. CASE StopCloseQueue
  <2>1. PipeInv' /\ Latest' = Latest
    BY <1>5, <1>a, PipeStill DEF StopCloseQueue
  <2> QED
    BY <1>5, <1>a, <2>1 DEF FlowInv, HandInv, InHand, Passes, MayRead, StopCloseQueue
<1>6. CASE StopClearQueue \/ ReconnectClear
  <2>1. /\ queue' = <<>> /\ queue' \in Seq(Frames) /\ Len(queue') = 0
        /\ UNCHANGED <<direct, queueClosed, delivered, frame, opens, number, opened, pullAt, pullQuit>>
    BY <1>6 DEF StopClearQueue, ReconnectClear, Typed, Data
  <2>2. Shown' = Shown /\ Latest' = Shown /\ Shown[1] <= Latest[1]
    BY <2>1, <1>a DEF Shown, Latest, PipeInv
  <2>3. PipeInv'
    BY <1>a, <2>1, <2>2 DEF PipeInv, Chain, Precedes
  <2>4. CASE StopClearQueue
    <3>1. queueClosed /\ (direct => Latest' = Latest)
      BY <1>a, <2>1, <2>2, <2>4 DEF StopClearQueue, HandInv, Latest
    <3> QED
      BY <1>a, <2>1, <2>3, <2>4, <3>1 DEF FlowInv, HandInv, InHand, Passes, MayRead, StopClearQueue
  <2>5. CASE ReconnectClear
    <3>1. pullAt = "off" /\ ownerAt = "reclear" /\ ownerAt' = "restart"
      BY <2>5 DEF ReconnectClear, CallInv
    <3>2. opened => number = 0 /\ Shown[1] < opens
      BY <1>a, <2>2, <3>1 DEF HandInv
    <3>3. opened => Precedes(Latest', <<opens', number' + 1>>)
      BY <1>a, <2>1, <2>2, <3>2 DEF Precedes
    <3>4. ~InHand' /\ (MayRead' /\ Passes' => opened \/ (MayRead /\ Passes /\ Latest' = Latest))
      BY <2>1, <3>1 DEF InHand, MayRead
    <3> QED
      BY <1>a, <2>1, <2>3, <3>1, <3>3, <3>4 DEF FlowInv, HandInv, InHand, MayRead
  <2> QED
    BY <1>6, <2>4, <2>5
<1>7. CASE Start \/ ReconnectOpen
  <2>1. pullAt = "off" /\ pullAt' \in {"off", "check"} /\ ownerAt' \in {"idle", "reclear"}
    BY <1>7 DEF Start, ReconnectOpen, CallInv
  <2>2. UNCHANGED <<direct, queueClosed, frame, queue, delivered>>
    BY <1>7 DEF Start, ReconnectOpen
  <2>3. CASE opens' = opens + 1 /\ number' = 0
    BY <1>a, <1>c, <2>1, <2>2, <2>3 DEF FlowInv, HandInv, InHand
  <2>4. CASE ReconnectOpen /\ SourceStaysClosed
    BY <1>a, <1>b, <2>1, <2>2, <2>4 DEF FlowInv, HandInv, InHand, MayRead, SourceStaysClosed
  <2> QED
    BY <1>7, <2>3, <2>4 DEF Start, ReconnectOpen, SourceOpens
<1>8. CASE ReadFrame
  <2>1. /\ opens' = opens /\ number' = number + 1 /\ frame' = <<opens, number + 1>>
        /\ UNCHANGED <<direct, queueClosed, queue, delivered, ownerAt, opened>>
        /\ pullAt = "read" /\ pullAt' = "record"
    BY <1>8 DEF ReadFrame
  <2>2. PipeInv' /\ Latest' = Latest
    BY <1>a, <2>1, PipeStill
  <2>3. Passes => Precedes(Latest, <<opens, number + 1>>)
    BY <1>a, <2>1 DEF HandInv, InHand, MayRead
  <2>4. ~(ownerAt = "reclear")
    BY <2>1 DEF CallInv
  <2> QED
    BY <1>a, <2>1, <2>2, <2>3, <2>4 DEF FlowInv, HandInv, InHand, Passes
<1>9. CASE ReadOversized \/ ReadEnd \/ PullCheck \/ ReadBegin \/ PullFailed
  BY <1>9, <1>a, <1>b DEF FlowInv, HandInv, InHand, Passes, MayRead, CallInv,
     ReadOversized, ReadEnd, PullCheck, ReadBegin, PullFailed
<1>10. CASE RetryClose \/ RetryRefused
  BY <1>10, <1>a, <1>b DEF FlowInv, HandInv, InHand, Passes, MayRead, RetryClose, RetryRefused, SourceStaysClosed
<1>11. CASE RetryOpened
  <2>1. /\ opens' = opens + 1 /\ number' = 0 /\ pullAt = "opening" /\ pullAt' = "check"
        /\ UNCHANGED <<direct, queueClosed, queue, delivered, ownerAt>>
    BY <1>11 DEF RetryOpened, SourceOpens
  <2> QED
    BY <1>a, <1>c, <2>1 DEF FlowInv, HandInv, InHand, CallInv
<1>12. CASE Record \/ EnqueueRefused
  BY <1>12, <1>a, <1>b DEF FlowInv, HandInv, InHand, Passes, MayRead, Record, EnqueueRefused, CallInv
<1>13. CASE Backpressure
  BY <1>13, <1>a, <1>b DEF FlowInv, HandInv, InHand, Passes, MayRead, Backpressure, CallInv
<1>14. CASE Sink
  <2>1. /\ delivered' = Append(delivered, frame) /\ queue' = queue /\ queue = <<>> /\ direct
        /\ UNCHANGED <<direct, queueClosed, frame, opens, number, ownerAt>>
        /\ pullAt = "deliver" /\ pullAt' = "check"
    BY <1>14, <1>a DEF Sink, HandInv
  <2>2. frame = <<opens, number>> /\ Precedes(Latest, frame) /\ Shown = Latest
    BY <1>a, <2>1 DEF HandInv, InHand, Passes, Latest
  <2>3. Shown' = frame /\ Latest' = frame /\ frame \in Frames
    <3>1. /\ Append(delivered, frame) # <<>> /\ frame \in Frames
          /\ Append(delivered, frame)[Len(Append(delivered, frame))] = frame
      BY LastAppended DEF Typed, Data
    <3> QED
      BY <2>1, <3>1 DEF Shown, Latest
  <2>4. Chain(delivered')
    <3>1. delivered # <<>> => Precedes(delivered[Len(delivered)], frame)
      BY <2>2 DEF Shown
    <3> QED
      BY <1>a, <2>1, <2>3, <3>1, ChainAppended DEF PipeInv, Typed, Data
  <2>5. PipeInv'
    <3>1. frame[1] = opens
      BY <2>2
    <3>2. Len(queue') = 0 /\ queue' = <<>> /\ Chain(queue')
      BY <1>a, <2>1 DEF PipeInv
    <3> QED
      BY <1>a, <2>1, <2>3, <2>4, <3>1, <3>2 DEF PipeInv
  <2>6. Precedes(frame, <<opens, number + 1>>)
    BY <1>a, <2>2 DEF Precedes
  <2> QED
    BY <1>a, <2>1, <2>2, <2>3, <2>5, <2>6 DEF FlowInv, HandInv, InHand, CallInv
<1>15. CASE Enqueue
  <2>1. /\ queue' = Append(queue, frame) /\ ~direct /\ ~queueClosed
        /\ UNCHANGED <<direct, queueClosed, delivered, frame, opens, number, ownerAt>>
        /\ pullAt = "push" /\ pullAt' = "check"
    BY <1>15, <1>a DEF Enqueue, HandInv
  <2>2. frame = <<opens, number>> /\ Precedes(Latest, frame)
    BY <1>a, <2>1 DEF HandInv, InHand, Passes
  <2>3. /\ Len(queue') = Len(queue) + 1 /\ queue'[Len(queue) + 1] = frame /\ Len(queue) \in Nat
        /\ \A i \in 1..Len(queue) : queue'[i] = queue[i]
        /\ queue' # <<>> /\ frame \in Frames /\ (queue = <<>> => queue'[1] = frame)
    <3>1. queue \in Seq(Frames) /\ frame \in Frames
      BY DEF Typed, Data
    <3>2. /\ Len(Append(queue, frame)) = Len(queue) + 1 /\ Len(queue) \in Nat
          /\ Append(queue, frame)[Len(queue) + 1] = frame /\ Append(queue, frame) # <<>>
          /\ \A i \in 1..Len(queue) : Append(queue, frame)[i] = queue[i]
      BY <3>1
    <3>3. queue = <<>> => Len(queue) = 0
      OBVIOUS
    <3> QED
      BY <2>1, <3>1, <3>2, <3>3
  <2>4. Shown' = Shown /\ Latest' = frame
    BY <2>1, <2>3 DEF Shown, Latest
  <2>5. Chain(queue')
    <3>1. queue # <<>> => Precedes(queue[Len(queue)], frame)
      BY <2>2 DEF Latest
    <3> QED
      BY <1>a, <2>1, <2>3, <3>1, ChainAppended DEF PipeInv, Typed, Data
  <2>6. Precedes(Shown, queue'[1])
    <3>1. CASE queue = <<>>
      BY <2>2, <2>3, <3>1 DEF Latest
    <3>2. CASE queue # <<>>
      <4>1. 1 \in 1..Len(queue)
        BY <3>2 DEF Typed, Data
      <4> QED
        BY <1>a, <2>3, <3>2, <4>1 DEF PipeInv
    <3> QED
      BY <3>1, <3>2
  <2>7. Latest[1] <= frame[1] /\ frame[1] <= opens
    BY <1>a, <2>2, <2>3 DEF Precedes
  <2>8. ASSUME NEW i \in 1..Len(queue') PROVE queue'[i][1] <= frame[1]
    <3>1. i \in 1..Len(queue) \/ i = Len(queue) + 1
      BY <2>3
    <3>2. CASE i \in 1..Len(queue)
      <4>1. queue[i] \in Frames
        BY <3>2 DEF Typed, Data
      <4>2. queue'[i] = queue[i] /\ queue[i][1] <= Latest[1]
        BY <1>a, <2>3, <3>2 DEF PipeInv
      <4> QED
        BY <1>a, <2>3, <2>7, <4>1, <4>2
    <3> QED
      BY <1>a, <2>3, <3>1, <3>2
  <2>9. PipeInv'
    <3>1. Shown[1] <= frame[1]
      BY <1>a, <2>3, <2>7 DEF PipeInv
    <3> QED
      BY <1>a, <2>1, <2>4, <2>5, <2>6, <2>7, <2>8, <3>1 DEF PipeInv, Chain
  <2>10. Precedes(frame, <<opens, number + 1>>)
    BY <1>a, <2>2 DEF Precedes
  <2> QED
    BY <1>a, <2>1, <2>2, <2>4, <2>9, <2>10 DEF FlowInv, HandInv, InHand, CallInv
<1>16. CASE PopFrame
  <2>1. /\ queue # <<>> /\ queue' = Tail(queue) /\ delivered' = Append(delivered, queue[1])
        /\ UNCHANGED <<direct, queueClosed, frame, opens, number, ownerAt, pullAt, pullQuit, opened>>
    BY <1>16 DEF PopFrame, Typed, Data
  <2>2. queue[1] \in Frames /\ 1 \in 1..Len(queue)
    BY <2>1 DEF Typed, Data
  <2>3. Shown' = queue[1]
    <3>1. /\ Append(delivered, queue[1]) # <<>>
          /\ Append(delivered, queue[1])[Len(Append(delivered, queue[1]))] = queue[1]
      BY <2>2, LastAppended DEF Typed, Data
    <3> QED
      BY <2>1, <3>1 DEF Shown
  <2>4. Chain(queue') /\ Latest' = Latest /\ (queue' # <<>> => Precedes(queue[1], queue'[1]))
    BY <1>a, <2>1, <2>3, ChainTail DEF PipeInv, Latest, Typed, Data
  <2>5. Chain(delivered')
    <3>1. delivered # <<>> => Precedes(delivered[Len(delivered)], queue[1])
      BY <1>a, <2>1 DEF PipeInv, Shown
    <3> QED
      BY <1>a, <2>1, <2>2, <3>1, ChainAppended DEF PipeInv, Typed, Data
  <2>6. \A i \in 1..Len(queue') : i + 1 \in 1..Len(queue) /\ queue'[i] = queue[i + 1]
    BY <2>1 DEF Typed, Data
  <2>7. PipeInv'
    BY <1>a, <2>1, <2>2, <2>3, <2>4, <2>5, <2>6 DEF PipeInv
  <2>8. ~direct
    BY <1>a, <2>1 DEF HandInv
  <2> QED
    BY <1>a, <2>1, <2>4, <2>7, <2>8 DEF FlowInv, HandInv, InHand, Passes, MayRead
<1>17. CASE NextSendPacket \/ PopNothing
  BY <1>17, <1>a, <1>b DEF FlowInv, HandInv, InHand, Passes, MayRead, NextSendPacket, PopNothing
<1> QED
  BY <1>1, <1>2, <1>3, <1>4, <1>5, <1>6, <1>7, <1>8, <1>9, <1>10, <1>11, <1>12, <1>13, <1>14,
     <1>15, <1>16, <1>17 DEF Next, OwnerInCall, Camera, Pull, Consumer

-------------------------------------------------------------------------------
(* Recordings.                                                              *)

(* What the sink has been given, with the frame it is about to be given. *)
Stream == IF pullAt = "deliver" THEN Append(delivered, frame) ELSE delivered

(* File holds the frames of s that come after the i-th, but for torn ones. *)
Covers(file, s, i) == \A k \in 1..Len(file) : file[k] \in {s[i + k], Torn}

(* A finished file covers some part of the stream; the one being written    *)
(* ends where the stream ends.                                              *)
RecordInv ==
  direct =>
    /\ \A f \in 1..Len(files) :
         \E i \in 0..(Len(Stream) - Len(files[f])) : Covers(files[f], Stream, i)
    /\ recording =>
         \E i \in 0..(Len(Stream) - Len(files[Len(files)])) :
           /\ Covers(files[Len(files)], Stream, i)
           /\ i + Len(files[Len(files)]) = Len(Stream)

LEMMA CoversLonger ==
  ASSUME NEW file \in Seq(Frames), NEW s \in Seq(Frames), NEW g \in Frames,
         NEW i \in 0..(Len(s) - Len(file)), Covers(file, s, i)
  PROVE  Covers(file, Append(s, g), i) /\ i \in 0..(Len(Append(s, g)) - Len(file))
<1>1. /\ Len(Append(s, g)) = Len(s) + 1 /\ Len(s) \in Nat /\ Len(file) \in Nat
      /\ \A k \in 1..Len(s) : Append(s, g)[k] = s[k]
  OBVIOUS
<1>2. ASSUME NEW k \in 1..Len(file) PROVE i + k \in 1..Len(s)
  BY <1>1
<1> QED
  BY <1>1, <1>2 DEF Covers

LEMMA CoversNext ==
  ASSUME NEW file \in Seq(Frames), NEW s \in Seq(Frames), NEW g \in Frames, NEW w \in {g, Torn},
         NEW i \in 0..(Len(s) - Len(file)), Covers(file, s, i), i + Len(file) = Len(s)
  PROVE  /\ Covers(Append(file, w), Append(s, g), i)
         /\ i \in 0..(Len(Append(s, g)) - Len(Append(file, w)))
         /\ i + Len(Append(file, w)) = Len(Append(s, g))
<1>0. w \in Frames
  BY StreamSessionAssumption DEF Torn, Frames
<1>1. /\ Len(Append(s, g)) = Len(s) + 1 /\ Len(s) \in Nat /\ Len(file) \in Nat
      /\ \A k \in 1..Len(s) : Append(s, g)[k] = s[k]
      /\ Append(s, g)[Len(s) + 1] = g
  OBVIOUS
<1>2. /\ Len(Append(file, w)) = Len(file) + 1
      /\ \A k \in 1..Len(file) : Append(file, w)[k] = file[k]
      /\ Append(file, w)[Len(file) + 1] = w
  BY <1>0
<1>3. ASSUME NEW k \in 1..(Len(file) + 1) PROVE Append(file, w)[k] \in {Append(s, g)[i + k], Torn}
  <2>1. CASE k \in 1..Len(file)
    <3>1. i + k \in 1..Len(s)
      BY <1>1, <2>1
    <3> QED
      BY <1>1, <1>2, <2>1, <3>1 DEF Covers
  <2>2. CASE k = Len(file) + 1
    <3>1. i + k = Len(s) + 1
      BY <1>1, <2>2
    <3> QED
      BY <1>1, <1>2, <2>2, <3>1
  <2> QED
    BY <1>1, <2>1, <2>2
<1> QED
  BY <1>1, <1>2, <1>3 DEF Covers

LEMMA RecordKept ==
  ASSUME Typed, Typed', CallInv, FlowInv, RecordInv, Next
  PROVE  RecordInv'
<1>a. Stream \in Seq(Frames) /\ files \in Seq(Seq(Frames)) /\ (recording => files # <<>>)
  BY DEF Typed, Data, Stream
<1>b. ASSUME UNCHANGED <<files, direct>>, direct => Stream' = Stream, recording' => recording
      PROVE  RecordInv'
  BY <1>b DEF RecordInv, Covers
<1>c. ASSUME UNCHANGED <<pullAt, delivered, frame>> PROVE Stream' = Stream
  BY <1>c DEF Stream
<1> USE DEF OwnerGoes, PullGoes, ConsumerGoes, recordVars
<1>1. CASE Stop \/ Reconnect \/ StopRecord
  BY <1>1, <1>b, <1>c DEF Stop, Reconnect, StopRecord
<1>2. CASE StopQuit \/ StopClose \/ StopCloseQueue \/ StopClearQueue \/ StopFinish
           \/ ReconnectClose \/ ReconnectOpen \/ ReconnectClear
  BY <1>2, <1>b, <1>c DEF StopQuit, StopClose, StopCloseQueue, StopClearQueue, StopFinish,
     ReconnectClose, ReconnectOpen, ReconnectClear
<1>3. CASE Start \/ StopJoin \/ ReconnectJoin \/ ReconnectRestart
  <2>1. pullAt # "deliver" /\ pullAt' # "deliver" /\ UNCHANGED <<files, direct, delivered, recording>>
    BY <1>3 DEF Start, StopJoin, ReconnectJoin, ReconnectRestart, CallInv
  <2> QED
    BY <1>b, <2>1 DEF Stream
<1>4. CASE StartRecord
  <2>1. /\ files' = Append(files, <<>>) /\ UNCHANGED <<direct, pullAt, delivered, frame>>
    BY <1>4 DEF StartRecord
  <2>2. Stream' = Stream
    BY <1>c, <2>1
  <2>3. /\ <<>> \in Seq(Frames) /\ Len(<<>>) = 0 /\ Len(Stream) \in Nat
    BY <1>a
  <2>4. /\ Len(files') = Len(files) + 1 /\ Len(files) \in Nat /\ files'[Len(files) + 1] = <<>>
        /\ \A f \in 1..Len(files) : files'[f] = files[f]
    BY <1>a, <2>1, <2>3
  <2>5. /\ Len(Stream) \in 0..(Len(Stream) - Len(files'[Len(files')]))
        /\ Covers(files'[Len(files')], Stream, Len(Stream))
        /\ Len(Stream) + Len(files'[Len(files')]) = Len(Stream)
    BY <2>3, <2>4 DEF Covers
  <2>6. ASSUME direct, NEW f \in 1..Len(files')
        PROVE  \E i \in 0..(Len(Stream) - Len(files'[f])) : Covers(files'[f], Stream, i)
    <3>1. f \in 1..Len(files) \/ f = Len(files')
      BY <2>4
    <3> QED
      BY <2>4, <2>5, <2>6, <3>1 DEF RecordInv
  <2>7. \E i \in 0..(Len(Stream) - Len(files'[Len(files')])) :
          Covers(files'[Len(files')], Stream, i) /\ i + Len(files'[Len(files')]) = Len(Stream)
    BY <2>5
  <2>8. direct' =>
          /\ \A f \in 1..Len(files') :
               \E i \in 0..(Len(Stream') - Len(files'[f])) : Covers(files'[f], Stream', i)
          /\ \E i \in 0..(Len(Stream') - Len(files'[Len(files')])) :
               Covers(files'[Len(files')], Stream', i) /\ i + Len(files'[Len(files')]) = Len(Stream')
    BY <2>1, <2>2, <2>6, <2>7
  <2> QED
    BY <2>8 DEF RecordInv, Covers
<1>5. CASE ReadFrame \/ ReadOversized \/ ReadEnd \/ PullCheck \/ ReadBegin \/ PullFailed \/ RetryClose
           \/ RetryOpened \/ RetryRefused
  <2>1. pullAt # "deliver" /\ pullAt' # "deliver" /\ UNCHANGED <<files, direct, delivered, recording>>
    BY <1>5 DEF ReadFrame, ReadOversized, ReadEnd, PullCheck, ReadBegin, PullFailed, RetryClose,
       RetryOpened, RetryRefused
  <2> QED
    BY <1>b, <2>1 DEF Stream
<1>6. CASE Record
  <2>1. /\ Stream' = Append(Stream, frame) /\ frame \in Frames
        /\ UNCHANGED <<direct, recording>>
    BY <1>6 DEF Record, Stream, Typed, Data
  <2>2. CASE ~recording
    <3>1. UNCHANGED files
      BY <1>6, <2>2 DEF Record
    <3>2. ASSUME direct, NEW f \in 1..Len(files)
          PROVE  \E i \in 0..(Len(Stream') - Len(files[f])) : Covers(files[f], Stream', i)
      <4>1. PICK i \in 0..(Len(Stream) - Len(files[f])) : Covers(files[f], Stream, i)
        BY <3>2 DEF RecordInv
      <4>2. files[f] \in Seq(Frames)
        BY <1>a
      <4> QED
        BY <1>a, <2>1, <4>1, <4>2, CoversLonger
    <3> QED
      BY <2>1, <2>2, <3>1, <3>2, ZenonT(60) DEF RecordInv, Covers
  <2>3. CASE recording
    <3> DEFINE n == Len(files)
    <3>1. PICK w \in {frame, Torn} : files' = [files EXCEPT ![n] = Append(@, w)]
      BY <1>6, <2>3 DEF Record
    <3>2. /\ n \in 1..n /\ Len(files') = n /\ files'[n] = Append(files[n], w) /\ files[n] \in Seq(Frames)
          /\ \A f \in 1..n : f # n => files'[f] = files[f]
      BY <1>a, <2>3, <3>1
    <3>3. ASSUME direct
          PROVE  \E i \in 0..(Len(Stream') - Len(files'[n])) :
                   Covers(files'[n], Stream', i) /\ i + Len(files'[n]) = Len(Stream')
      <4>1. PICK i \in 0..(Len(Stream) - Len(files[n])) :
              Covers(files[n], Stream, i) /\ i + Len(files[n]) = Len(Stream)
        BY <2>3, <3>3 DEF RecordInv
      <4> QED
        BY <1>a, <2>1, <3>2, <4>1, CoversNext
    <3>4. ASSUME direct, NEW f \in 1..n, f # n
          PROVE  \E i \in 0..(Len(Stream') - Len(files'[f])) : Covers(files'[f], Stream', i)
      <4>1. PICK i \in 0..(Len(Stream) - Len(files[f])) : Covers(files[f], Stream, i)
        BY <3>4 DEF RecordInv
      <4>2. files[f] \in Seq(Frames) /\ files'[f] = files[f]
        BY <1>a, <3>2, <3>4
      <4> QED
        BY <1>a, <2>1, <4>1, <4>2, CoversLonger
    <3> QED
      BY <2>1, <3>2, <3>3, <3>4, ZenonT(60) DEF RecordInv, Covers
  <2> QED
    BY <2>2, <2>3
<1>7. CASE Sink
  <2>1. Stream' = Stream /\ UNCHANGED <<files, direct, recording>>
    BY <1>7 DEF Sink, Stream
  <2> QED
    BY <1>b, <2>1
<1>8. CASE Backpressure \/ Enqueue \/ EnqueueRefused \/ NextSendPacket \/ PopFrame \/ PopNothing
  <2>1. ~direct \/ UNCHANGED <<pullAt, delivered, frame>>
    BY <1>8 DEF FlowInv, HandInv, Backpressure, Enqueue, EnqueueRefused, NextSendPacket, PopFrame, PopNothing
  <2>2. UNCHANGED <<files, direct, recording>>
    BY <1>8 DEF Backpressure, Enqueue, EnqueueRefused, NextSendPacket, PopFrame, PopNothing
  <2> QED
    BY <1>b, <1>c, <2>1, <2>2
<1> QED
  BY <1>1, <1>2, <1>3, <1>4, <1>5, <1>6, <1>7, <1>8 DEF Next, OwnerInCall, Camera, Pull, Consumer

-------------------------------------------------------------------------------
(* The inductive invariant holds.                                           *)

IInv == Typed /\ CallInv /\ FreshInv /\ FlowInv /\ RecordInv

LEMMA IInvAlways == Spec => []IInv
<1>1. ASSUME Init PROVE IInv
  <2>1. <<>> \in Seq(Frames) /\ <<>> \in Seq(Seq(Frames)) /\ Len(<<>>) = 0
    OBVIOUS
  <2>2. Typed
    <3>1. Flags /\ Places
      BY <1>1 DEF Init, Flags, Places, OwnerSteps, PullSteps
    <3>2. Counters
      <4>1. 0 \in 0..MaxOpens /\ 0 \in 0..MaxFrames /\ 0 \in 0..0
        BY StreamSessionAssumption
      <4> QED
        BY <1>1, <4>1 DEF Init, Counters
    <3>3. <<0, 0>> \in Frames /\ 0 <= QueueCapacity
      BY StreamSessionAssumption DEF Frames
    <3>4. Data
      BY <1>1, <2>1, <3>3 DEF Init, Data
    <3> QED
      BY <3>1, <3>2, <3>4 DEF Typed
  <2>3. FlowInv /\ RecordInv
    <3>1. /\ queue = <<>> /\ delivered = <<>> /\ files = <<>> /\ Len(<<>>) = 0
          /\ opens = 0 /\ pullAt = "off" /\ ~opened /\ ownerAt = "idle" /\ ~recording
      BY <1>1 DEF Init
    <3>2. Shown = <<0, 0>> /\ Latest = <<0, 0>>
      BY <3>1 DEF Shown, Latest
    <3> QED
      BY <3>1, <3>2 DEF FlowInv, PipeInv, HandInv, Chain, InHand, MayRead, RecordInv
  <2> QED
    BY <1>1, <2>1, <2>2, <2>3 DEF Init, IInv, CallInv, FreshInv
<1>2. ASSUME IInv, [Next]_vars PROVE IInv'
  <2>1. CASE Next
    BY <1>2, <2>1, TypedKept, CallKept, FreshKept, FlowKept, RecordKept DEF IInv
  <2>2. CASE UNCHANGED vars
    <3> USE DEF vars, sourceVars, queueVars, recordVars, threadVars
    <3>1. Typed' /\ CallInv' /\ FreshInv'
      BY <1>2, <2>2 DEF IInv, Typed, Flags, Places, Counters, Data, CallInv, FreshInv
    <3>2. Shown' = Shown /\ Latest' = Latest /\ PipeInv'
      BY <1>2, <2>2, PipeStill DEF IInv, FlowInv
    <3>3. HandInv'
      BY <1>2, <2>2, <3>2 DEF IInv, FlowInv, HandInv, InHand, Passes, MayRead
    <3>4. Stream' = Stream
      BY <2>2 DEF Stream
    <3>5. RecordInv'
      BY <1>2, <2>2, <3>4, SMTT(40) DEF IInv, RecordInv, Covers
    <3> QED
      BY <3>1, <3>2, <3>3, <3>5 DEF IInv, FlowInv
  <2> QED
    BY <1>2, <2>1, <2>2
<1> QED
  BY <1>1, <1>2, PTL DEF Spec

-------------------------------------------------------------------------------
(* Theorems.                                                                *)

(* Every state of a session is well typed, and its queue keeps its bound.    *)
THEOREM TypeCorrect == Spec => []TypeOK
<1>1. IInv => TypeOK
  BY DEF IInv, Typed, Flags, Places, Counters, Data, TypeOK
<1> QED
  BY <1>1, IInvAlways, PTL

(* stop() returns, and reconnect() starts a new thread, only when the pull   *)
(* thread has been joined.                                                   *)
THEOREM NoThreadLeft == Spec => []PullThreadJoined
<1>1. IInv => PullThreadJoined
  BY DEF IInv, CallInv, PullThreadJoined
<1> QED
  BY <1>1, IInvAlways, PTL

(* Nothing of an older connection is delivered after a reconnect() that      *)
(* returned true, by the sink or through the queue.                          *)
THEOREM OnlyFreshFrames == Spec => FreshAfterReconnect
<1>1. ASSUME IInv, [Next]_vars, delivered' # delivered
      PROVE  delivered'[Len(delivered')][1] >= fresh
  <2>1. PICK f : delivered' = Append(delivered, f) /\ f[1] >= fresh
    <3>1. Sink \/ PopFrame
      BY <1>1 DEF vars, sourceVars, queueVars, recordVars, threadVars, Next, Start, Stop, Reconnect,
        StartRecord, StopRecord, OwnerInCall, StopQuit, StopClose, StopCloseQueue, StopClearQueue,
        StopJoin, StopFinish, ReconnectClose, ReconnectJoin, ReconnectOpen, ReconnectClear,
        ReconnectRestart, OwnerGoes, Camera, ReadFrame, ReadOversized, ReadEnd, Pull, PullCheck,
        ReadBegin, PullFailed, RetryClose, RetryOpened, RetryRefused, Record, Backpressure, Enqueue,
        EnqueueRefused, NextSendPacket, Consumer, PopNothing
    <3>2. CASE Sink
      BY <1>1, <3>2 DEF Sink, PullGoes, IInv, FreshInv
    <3>3. CASE PopFrame
      <4>1. 1 \in 1..Len(queue) /\ Head(queue) = queue[1]
        BY <1>1, <3>3 DEF PopFrame, IInv, Typed, Data
      <4> QED
        BY <1>1, <3>3, <4>1 DEF PopFrame, IInv, FreshInv
    <3> QED
      BY <3>1, <3>2, <3>3
  <2>2. delivered'[Len(delivered')] = f
    BY <1>1, <2>1 DEF IInv, Typed, Data
  <2> QED
    BY <2>1, <2>2
<1> QED
  BY <1>1, IInvAlways, PTL DEF Spec, FreshAfterReconnect

(* Frames reach the client in the order in which the camera sent them, and   *)
(* none of a connection to it is missing: what stop(), reconnect() and a     *)
(* full queue drop is always the end of a connection.                        *)
THEOREM Gapless == Spec => []GaplessInOrder
<1>1. IInv => GaplessInOrder
  BY DEF IInv, FlowInv, PipeInv, Chain, Precedes, GaplessInOrder
<1> QED
  BY <1>1, IInvAlways, PTL

(* With a sink every recording file is a contiguous part of what the client  *)
(* is given, but for frames whose write failed.                              *)
THEOREM RecordingMatches == Spec => []RecordingMatchesDelivery
<1>1. IInv => RecordingMatchesDelivery
  BY DEF IInv, RecordInv, Stream, Covers, RecordingMatchesDelivery
<1> QED
  BY <1>1, IInvAlways, PTL

-------------------------------------------------------------------------------
(* The ring buffer.                                                          *)

(* The tail is size cells behind the head, around the end of the buffer. *)
RingInv == tail = (head + size) % Capacity

BufferIInv == BufferTypeOK /\ RingInv /\ NobodyWaitsInVain

-------------------------------------------------------------------------------
(* Lemmas about the indices.                                                *)

LEMMA Wrap ==
  ASSUME NEW h \in Cells, NEW k \in 0..Capacity
  PROVE  (h + k) % Capacity = IF h + k < Capacity THEN h + k ELSE h + k - Capacity
BY RingBufferAssumption DEF Cells

LEMMA WrapNext ==
  ASSUME NEW h \in Cells
  PROVE  Following(h) = IF h + 1 < Capacity THEN h + 1 ELSE 0
BY RingBufferAssumption DEF Cells, Following

(* A function on 1..n is a sequence of length n. *)
LEMMA FunctionAsSeq ==
  ASSUME NEW n \in Nat, NEW f \in [1..n -> Nat]
  PROVE  f \in Seq(Nat) /\ Len(f) = n
<1>1. f \in Seq(Nat)
  BY SeqDef
<1> QED
  BY <1>1

(* The contents are a sequence, and where each item lies. *)
LEMMA ContentsType ==
  ASSUME BufferTypeOK
  PROVE  /\ Contents \in Seq(Nat) /\ Len(Contents) = size /\ size \in Nat
         /\ \A i \in 1..size : Contents[i] = buffer[(head + i - 1) % Capacity]
         /\ \A i \in 1..size : (head + i - 1) % Capacity \in Cells
<1>1. size \in Nat /\ size <= Capacity /\ Capacity \in Nat /\ head \in Cells
  BY RingBufferAssumption DEF BufferTypeOK
<1>2. ASSUME NEW i \in 1..size PROVE (head + i - 1) % Capacity \in Cells
  <2>1. i - 1 \in 0..Capacity /\ head + i - 1 = head + (i - 1) /\ head \in Nat /\ head < Capacity
    BY <1>1 DEF Cells
  <2> QED
    BY <2>1, <1>1, Wrap DEF Cells
<1>3. Contents \in [1..size -> Nat]
  BY <1>2 DEF Contents, BufferTypeOK
<1> QED
  BY <1>1, <1>2, <1>3 DEF Contents

(* Writing at the tail appends to the contents. *)
LEMMA Inserted ==
  ASSUME BufferTypeOK, RingInv, size < Capacity, NEW v \in Nat, BufferTypeOK',
         buffer' = [buffer EXCEPT ![tail] = v], size' = size + 1,
         tail' = Following(tail), head' = head
  PROVE  RingInv' /\ Contents' = Append(Contents, v)
<1>1. /\ size \in Nat /\ head \in Nat /\ head < Capacity /\ Capacity \in Nat /\ head \in Cells
      /\ tail \in Cells
  BY RingBufferAssumption DEF BufferTypeOK, Cells
<1>2. tail = IF head + size < Capacity THEN head + size ELSE head + size - Capacity
  BY <1>1, Wrap DEF BufferTypeOK, RingInv
<1>3. RingInv'
  <2>1. (head + size') % Capacity
          = IF head + size' < Capacity THEN head + size' ELSE head + size' - Capacity
    BY <1>1, Wrap
  <2> QED
    BY <1>1, <1>2, <2>1, WrapNext DEF RingInv
<1>4. ASSUME NEW i \in 1..size PROVE (head + i - 1) % Capacity # tail
  <2>1. i - 1 \in 0..Capacity /\ head + i - 1 = head + (i - 1)
    BY <1>1
  <2> QED
    BY <1>1, <1>2, <2>1, Wrap
<1>5. /\ Contents \in Seq(Nat) /\ Len(Contents) = size
      /\ \A i \in 1..size : Contents[i] = buffer[(head + i - 1) % Capacity]
      /\ \A i \in 1..size : (head + i - 1) % Capacity \in Cells
  BY ContentsType
<1>6. /\ (Contents)' \in Seq(Nat) /\ Len((Contents)') = size'
      /\ \A i \in 1..size' : (Contents)'[i] = buffer'[(head' + i - 1) % Capacity]
  <2>1. ASSUME NEW i \in 1..size' PROVE (head' + i - 1) % Capacity \in Cells
    <3>1. i - 1 \in 0..Capacity /\ head + i - 1 = head + (i - 1)
      BY <1>1
    <3> QED
      BY <1>1, <3>1, Wrap DEF Cells
  <2>2. buffer' \in [Cells -> Nat] /\ size' \in Nat
    BY <1>1 DEF BufferTypeOK
  <2>3. (Contents)' \in [1..size' -> Nat]
    BY <2>1, <2>2 DEF Contents
  <2>4. (Contents)' \in Seq(Nat) /\ Len((Contents)') = size'
    BY <2>2, <2>3, FunctionAsSeq
  <2> QED
    BY <2>4 DEF Contents
<1>7. ASSUME NEW i \in 1..size PROVE (Contents)'[i] = Contents[i]
  BY <1>1, <1>4, <1>5, <1>6 DEF BufferTypeOK
<1>8. (Contents)'[size + 1] = v
  <2>1. head' + (size + 1) - 1 = head + size
    BY <1>1
  <2> QED
    BY <1>1, <1>6, <2>1 DEF RingInv, BufferTypeOK
<1> QED
  BY <1>1, <1>3, <1>5, <1>6, <1>7, <1>8

(* Advancing the head drops the oldest item. *)
LEMMA Removed ==
  ASSUME BufferTypeOK, RingInv, size # 0, buffer' = buffer, size' = size - 1,
         head' = Following(head), tail' = tail
  PROVE  /\ RingInv' /\ Contents' = Tail(Contents)
         /\ Contents # <<>> /\ Head(Contents) = buffer[head]
<1>1. /\ size \in Nat /\ size > 0 /\ size <= Capacity /\ head \in Cells
      /\ head \in Nat /\ head < Capacity /\ Capacity \in Nat
  BY RingBufferAssumption DEF BufferTypeOK, Cells
<1>2. head' = IF head + 1 < Capacity THEN head + 1 ELSE 0
  BY <1>1, WrapNext
<1>3. head' \in Cells /\ size' \in Nat
  BY <1>1, <1>2 DEF Cells
<1>4. ASSUME NEW k \in 0..(Capacity - 1) PROVE (head' + k) % Capacity = (head + (k + 1)) % Capacity
  <2>1. (head' + k) % Capacity = IF head' + k < Capacity THEN head' + k ELSE head' + k - Capacity
    BY <1>1, <1>3, Wrap
  <2>2. (head + (k + 1)) % Capacity
          = IF head + (k + 1) < Capacity THEN head + (k + 1) ELSE head + (k + 1) - Capacity
    BY <1>1, Wrap
  <2> QED
    BY <1>1, <1>2, <2>1, <2>2
<1>5. RingInv'
  <2>1. size' \in 0..(Capacity - 1) /\ size' + 1 = size
    BY <1>1
  <2> QED
    BY <1>4, <2>1 DEF RingInv
<1>6. /\ Contents \in Seq(Nat) /\ Len(Contents) = size
      /\ \A i \in 1..size : Contents[i] = buffer[(head + i - 1) % Capacity]
  BY ContentsType
<1>7. Contents # <<>> /\ Head(Contents) = buffer[head]
  <2>1. (head + 1 - 1) % Capacity = head
    <3>1. head + 1 - 1 = head + 0
      BY <1>1
    <3> QED
      BY <1>1, <3>1, Wrap
  <2> QED
    BY <1>1, <1>6, <2>1
<1>8. (Contents)' = [i \in 1..size' |-> buffer[(head' + i - 1) % Capacity]]
  BY DEF Contents
<1>10. ASSUME NEW i \in 1..size'
       PROVE  buffer[(head' + i - 1) % Capacity] = Contents[i + 1]
  <2>1. /\ i - 1 \in 0..(Capacity - 1) /\ i + 1 \in 1..size
        /\ head' + i - 1 = head' + (i - 1) /\ head + (i + 1) - 1 = head + ((i - 1) + 1)
    BY <1>1, <1>3 DEF Cells
  <2> QED
    BY <1>4, <1>6, <2>1
<1>11. (Contents)' = Tail(Contents)
  <2>1. /\ Tail(Contents) \in Seq(Nat) /\ Len(Tail(Contents)) = size'
        /\ \A i \in 1..size' : Tail(Contents)[i] = Contents[i + 1]
    BY <1>1, <1>6, <1>7, HeadTailProperties
  <2>2. ASSUME NEW i \in 1..size' PROVE (Contents)'[i] \in Nat
    <3>1. i + 1 \in 1..Len(Contents)
      BY <1>1, <1>6
    <3> QED
      BY <1>6, <1>8, <1>10, <3>1, ElementOfSeq
  <2>3. (Contents)' \in Seq(Nat) /\ Len((Contents)') = size'
    BY <1>3, <1>8, <2>2, FunctionAsSeq
  <2> QED
    BY <1>8, <1>10, <2>1, <2>3, SeqEqual
<1> QED
  BY <1>5, <1>7, <1>11

-------------------------------------------------------------------------------
(* What the helpers for locations do.                                       *)

Locations == {"idle", "push", "notFull", "pop", "notEmpty", "timedPop", "timedNotEmpty"}

LEMMA SetsFinite ==
  ASSUME BufferTypeOK
  PROVE  /\ IsFiniteSet(Poppers) /\ IsFiniteSet(Pushers)
         /\ Cardinality(Poppers) \in Nat /\ Cardinality(Pushers) \in Nat
<1>1. Poppers \subseteq Threads /\ Pushers \subseteq Threads
  BY DEF Poppers, Pushers, ThreadsAt
<1> QED
  BY <1>1, RingBufferAssumption, FS_Subset, FS_CardinalityType

(* Leaving a counted set costs it at most one, joining it adds one. *)
LEMMA Counting ==
  ASSUME NEW S, NEW T, IsFiniteSet(S), IsFiniteSet(T), NEW t
  PROVE  /\ S \subseteq T => Cardinality(S) <= Cardinality(T)
         /\ S \ {t} \subseteq T => Cardinality(S) - 1 <= Cardinality(T)
         /\ t \notin S /\ S \cup {t} \subseteq T => Cardinality(S) + 1 <= Cardinality(T)
         /\ Cardinality(S) \in Nat /\ Cardinality(T) \in Nat
<1>1. \A A, B : IsFiniteSet(B) /\ A \subseteq B
                  => IsFiniteSet(A) /\ Cardinality(A) <= Cardinality(B)
                     /\ Cardinality(A) \in Nat /\ Cardinality(B) \in Nat
  BY FS_Subset, FS_CardinalityType
<1>2. /\ IsFiniteSet(S \ {t}) /\ Cardinality(S) - 1 <= Cardinality(S \ {t})
      /\ Cardinality(S) \in Nat
  <2>1. Cardinality(S) \in Nat
    BY FS_CardinalityType
  <2>2. IsFiniteSet(S \ {t})
    BY FS_RemoveElement
  <2>3. CASE t \in S
    <3>1. Cardinality(S \ {t}) = Cardinality(S) - 1
      BY <2>3, FS_RemoveElement
    <3> QED
      BY <2>1, <2>2, <3>1
  <2>4. CASE t \notin S
    <3>1. S \ {t} = S
      BY <2>4
    <3> QED
      BY <2>1, <3>1
  <2> QED
    BY <2>3, <2>4
<1>3. t \notin S => IsFiniteSet(S \cup {t}) /\ Cardinality(S \cup {t}) = Cardinality(S) + 1
  BY FS_AddElement
<1> QED
  BY <1>1, <1>2, <1>3

(* A thread that goes on and notifies the consumers. *)
LEMMA NotifiedPop ==
  ASSUME BufferTypeOK, NEW t \in Threads, WakeOne(t, "idle", PopWaiters)
  PROVE  /\ at' \in [Threads -> Locations]
         /\ PushWaiters' \subseteq PushWaiters /\ Pushers \ {t} \subseteq Pushers'
         /\ \/ PopWaiters' = {}
            \/ /\ PopWaiters # {}
               /\ at[t] \notin {"pop", "timedPop"}
                    => \E w \in Threads : w \notin Poppers /\ Poppers \cup {w} \subseteq Poppers'
<1>1. CASE PopWaiters = {} /\ at' = [at EXCEPT ![t] = "idle"]
  BY <1>1 DEF BufferTypeOK, Locations, ThreadsAt, PopWaiters, Poppers, PushWaiters, Pushers
<1>2. ASSUME NEW w \in PopWaiters, at' = [at EXCEPT ![t] = "idle", ![w] = Awake(w)]
      PROVE  /\ at' \in [Threads -> Locations]
             /\ PushWaiters' \subseteq PushWaiters /\ Pushers \ {t} \subseteq Pushers'
             /\ PopWaiters # {}
             /\ at[t] \notin {"pop", "timedPop"}
                  => w \in Threads /\ w \notin Poppers /\ Poppers \cup {w} \subseteq Poppers'
  <2>1. Awake(w) \in {"pop", "timedPop"} /\ w \in Threads /\ at[w] \in {"notEmpty", "timedNotEmpty"}
    BY DEF PopWaiters, ThreadsAt, Awake
  <2> QED
    BY <1>2, <2>1 DEF BufferTypeOK, Locations, ThreadsAt, PopWaiters, Poppers, PushWaiters, Pushers
<1> QED
  BY <1>1, <1>2 DEF WakeOne

(* A thread that goes on and notifies the producers. *)
LEMMA NotifiedPush ==
  ASSUME BufferTypeOK, NEW t \in Threads, WakeOne(t, "idle", PushWaiters)
  PROVE  /\ at' \in [Threads -> Locations]
         /\ PopWaiters' \subseteq PopWaiters /\ Poppers \ {t} \subseteq Poppers'
         /\ \/ PushWaiters' = {}
            \/ /\ PushWaiters # {}
               /\ at[t] # "push"
                    => \E w \in Threads : w \notin Pushers /\ Pushers \cup {w} \subseteq Pushers'
<1>1. CASE PushWaiters = {} /\ at' = [at EXCEPT ![t] = "idle"]
  BY <1>1 DEF BufferTypeOK, Locations, ThreadsAt, PopWaiters, Poppers, PushWaiters, Pushers
<1>2. ASSUME NEW w \in PushWaiters, at' = [at EXCEPT ![t] = "idle", ![w] = Awake(w)]
      PROVE  /\ at' \in [Threads -> Locations]
             /\ PopWaiters' \subseteq PopWaiters /\ Poppers \ {t} \subseteq Poppers'
             /\ PushWaiters # {}
             /\ at[t] # "push"
                  => w \in Threads /\ w \notin Pushers /\ Pushers \cup {w} \subseteq Pushers'
  <2>1. Awake(w) = "push" /\ w \in Threads /\ at[w] = "notFull"
    BY DEF PushWaiters, ThreadsAt, Awake
  <2> QED
    BY <1>2, <2>1 DEF BufferTypeOK, Locations, ThreadsAt, PopWaiters, Poppers, PushWaiters, Pushers
<1> QED
  BY <1>1, <1>2 DEF WakeOne

(* Notifying everyone in some sets of waiters. *)
LEMMA NotifiedAll ==
  ASSUME BufferTypeOK, NEW W, W = PushWaiters \/ W = PopWaiters \cup PushWaiters, WakeAll(W)
  PROVE  /\ at' \in [Threads -> Locations]
         /\ PushWaiters' = {}
         /\ W = PopWaiters \cup PushWaiters => PopWaiters' = {}
<1>1. \A t \in W : Awake(t) \in {"push", "pop", "timedPop"} /\ t \in Threads
  BY DEF PopWaiters, PushWaiters, ThreadsAt, Awake
<1> QED
  BY <1>1 DEF WakeAll, BufferTypeOK, Locations, ThreadsAt, PopWaiters, PushWaiters

-------------------------------------------------------------------------------
(* Type correctness and the place of the tail.                              *)

LEMMA InsertTyped ==
  ASSUME BufferTypeOK, NEW t \in Threads, Insert(t), size < Capacity
  PROVE  BufferTypeOK'
<1>1. at' \in [Threads -> Locations]
  BY NotifiedPop DEF Insert
<1>2. accepted' \in Nat /\ buffer' \in [Cells -> Nat] /\ size' \in 0..Capacity
  BY RingBufferAssumption DEF Insert, BufferTypeOK
<1>3. tail' \in Cells
  BY RingBufferAssumption, WrapNext DEF Insert, BufferTypeOK, Cells
<1> QED
  BY <1>1, <1>2, <1>3 DEF Insert, BufferTypeOK, Locations

LEMMA RemoveTyped ==
  ASSUME BufferTypeOK, NEW t \in Threads, Remove(t), size # 0
  PROVE  BufferTypeOK'
<1>1. at' \in [Threads -> Locations]
  BY NotifiedPush DEF Remove
<1>2. size' \in 0..Capacity
  BY RingBufferAssumption DEF Remove, BufferTypeOK
<1>3. head' \in Cells
  BY RingBufferAssumption, WrapNext, SMTT(40) DEF Remove, BufferTypeOK, Cells
<1>4. taken' \in Seq(Nat)
  BY DEF Remove, BufferTypeOK
<1> QED
  BY <1>1, <1>2, <1>3, <1>4 DEF Remove, BufferTypeOK, Locations

(* The steps that only move a thread. *)
Moving(t) ==
  \/ \E step \in {"push", "pop", "timedPop"} : Call(t, step)
  \/ PushWait(t) \/ PushRefused(t) \/ PopWait(t) \/ TimedPopWait(t) \/ PopEmpty(t)
  \/ SpuriousReturn(t)

LEMMA MovingTyped ==
  ASSUME BufferTypeOK, NEW t \in Threads, Moving(t)
  PROVE  BufferTypeOK' /\ UNCHANGED <<buffer, head, tail, size, closed, accepted, taken>>
<1>1. PICK step \in Locations : at' = [at EXCEPT ![t] = step]
  BY DEF Moving, Call, PushWait, PushRefused, PopWait, TimedPopWait, PopEmpty, SpuriousReturn,
         Goes, Awake, PopWaiters, PushWaiters, ThreadsAt, Locations
<1>2. UNCHANGED <<buffer, head, tail, size, closed, accepted, taken>>
  BY DEF Moving, Call, PushWait, PushRefused, PopWait, TimedPopWait, PopEmpty, SpuriousReturn
<1> QED
  BY <1>1, <1>2 DEF BufferTypeOK, Locations

(* Every step is of one of these kinds. *)
LEMMA Kinds ==
  ASSUME BufferTypeOK, BufferNext
  PROVE  \/ \E t \in Threads :
              \/ Moving(t)
              \/ Insert(t) /\ size < Capacity /\ ~closed /\ at[t] \in {"idle", "push"}
              \/ Remove(t) /\ size # 0 /\ at[t] \in {"idle", "pop", "timedPop", "timedNotEmpty"}
              \/ TimeOut(t) /\ size = 0
         \/ Clear \/ Close
BY DEF BufferNext, Locked, Moving, Push, TryPush, MayPush, Pop, TryPop, TimeOut

LEMMA TimeOutEmpty ==
  ASSUME BufferTypeOK, NEW t \in Threads, TimeOut(t), size = 0
  PROVE  /\ at' = [at EXCEPT ![t] = "idle"] /\ at[t] = "timedNotEmpty"
         /\ UNCHANGED <<buffer, head, tail, size, closed, accepted, taken>>
BY DEF TimeOut, Goes

LEMMA TypeAndTail ==
  ASSUME BufferTypeOK, RingInv, [BufferNext]_bufferVars
  PROVE  BufferTypeOK' /\ RingInv'
<1>1. ASSUME NEW t \in Threads, Moving(t) PROVE BufferTypeOK' /\ RingInv'
  BY <1>1, MovingTyped DEF RingInv
<1>2. ASSUME NEW t \in Threads, Insert(t), size < Capacity PROVE BufferTypeOK' /\ RingInv'
  <2>1. BufferTypeOK'
    BY <1>2, InsertTyped
  <2>2. accepted' \in Nat
    BY <2>1 DEF BufferTypeOK
  <2> QED
    BY <1>2, <2>1, <2>2, Inserted DEF Insert
<1>3. ASSUME NEW t \in Threads, Remove(t), size # 0 PROVE BufferTypeOK' /\ RingInv'
  BY <1>3, RemoveTyped, Removed DEF Remove
<1>4. ASSUME NEW t \in Threads, TimeOut(t), size = 0 PROVE BufferTypeOK' /\ RingInv'
  BY <1>4, TimeOutEmpty DEF BufferTypeOK, RingInv
<1>5. CASE Clear
  <2>1. at' \in [Threads -> Locations]
    BY <1>5, NotifiedAll DEF Clear
  <2>2. 0 \in Cells /\ 0 % Capacity = 0 /\ 0 + 0 = 0
    BY RingBufferAssumption DEF Cells
  <2> QED
    BY <1>5, <2>1, <2>2, RingBufferAssumption DEF Clear, BufferTypeOK, RingInv, Locations
<1>6. CASE Close
  <2>1. at' \in [Threads -> Locations]
    BY <1>6, NotifiedAll DEF Close
  <2> QED
    BY <1>6, <2>1 DEF Close, BufferTypeOK, RingInv, Locations
<1>7. CASE UNCHANGED bufferVars
  BY <1>7 DEF bufferVars, BufferTypeOK, RingInv
<1> QED
  BY <1>1, <1>2, <1>3, <1>4, <1>5, <1>6, <1>7, Kinds

-------------------------------------------------------------------------------
(* No lost wakeup.                                                          *)

LEMMA Wakeups ==
  ASSUME BufferTypeOK, BufferTypeOK', NobodyWaitsInVain, [BufferNext]_bufferVars
  PROVE  NobodyWaitsInVain'
<1>0. /\ IsFiniteSet(Poppers) /\ IsFiniteSet(Pushers)
      /\ IsFiniteSet(Poppers') /\ IsFiniteSet(Pushers')
  <2>1. Poppers' \subseteq Threads /\ Pushers' \subseteq Threads
    BY DEF Poppers, Pushers, ThreadsAt
  <2> QED
    BY <2>1, SetsFinite, RingBufferAssumption, FS_Subset
<1>00. /\ Cardinality(Poppers) \in Nat /\ Cardinality(Poppers') \in Nat
       /\ Cardinality(Pushers) \in Nat /\ Cardinality(Pushers') \in Nat
       /\ size \in Nat /\ size' \in Nat /\ Capacity \in Nat
  <2>1. /\ Cardinality(Poppers) \in Nat /\ Cardinality(Poppers') \in Nat
        /\ Cardinality(Pushers) \in Nat /\ Cardinality(Pushers') \in Nat
    BY <1>0, FS_CardinalityType
  <2> QED
    BY <2>1, RingBufferAssumption DEF BufferTypeOK
<1>1. ASSUME NEW t \in Threads, Moving(t) PROVE NobodyWaitsInVain'
  <2>1. closed' = closed /\ size' = size
    BY <1>1, MovingTyped
  <2>2. CASE PopWaiters' = {} /\ PushWaiters' = {}
    BY <2>2 DEF NobodyWaitsInVain
  <2>3. CASE /\ PopWaiters' \subseteq PopWaiters /\ PushWaiters' \subseteq PushWaiters
             /\ Poppers \subseteq Poppers' /\ Pushers \subseteq Pushers'
    <3>1. /\ Cardinality(Poppers) <= Cardinality(Poppers')
          /\ Cardinality(Pushers) <= Cardinality(Pushers')
      BY <1>0, <2>3, Counting
    <3> QED
      BY <1>00, <2>1, <2>3, <3>1 DEF NobodyWaitsInVain
  <2>4. CASE PushWait(t)
    <3>1. ~closed /\ Capacity - size <= 0
      BY <2>4, <1>00 DEF PushWait, MayPush
    <3>2. PopWaiters' = PopWaiters /\ Poppers' = Poppers
      BY <2>4 DEF PushWait, Goes, BufferTypeOK, PopWaiters, Poppers, ThreadsAt
    <3> QED
      BY <1>00, <2>1, <3>1, <3>2 DEF NobodyWaitsInVain
  <2>5. CASE PopWait(t) \/ TimedPopWait(t)
    <3>1. ~closed /\ size = 0
      BY <2>5, <1>00 DEF PopWait, TimedPopWait, MayPop
    <3>2. PushWaiters' = PushWaiters /\ Pushers' = Pushers
      BY <2>5 DEF PopWait, TimedPopWait, Goes, BufferTypeOK, PushWaiters, Pushers, ThreadsAt
    <3> QED
      BY <1>00, <2>1, <3>1, <3>2 DEF NobodyWaitsInVain
  <2>6. CASE PushRefused(t) \/ PopEmpty(t)
    <3>1. closed
      BY <2>6, <1>00 DEF PushRefused, PopEmpty, MayPop
    <3>2. PopWaiters = {} /\ PushWaiters = {}
      BY <3>1 DEF NobodyWaitsInVain
    <3>3. PopWaiters' = {} /\ PushWaiters' = {}
      BY <2>6, <3>2 DEF PushRefused, PopEmpty, Goes, BufferTypeOK, PopWaiters, PushWaiters, ThreadsAt
    <3> QED
      BY <2>2, <3>3
  <2>7. CASE (\E step \in {"push", "pop", "timedPop"} : Call(t, step)) \/ SpuriousReturn(t)
    <3>1. PICK step \in {"push", "pop", "timedPop"} :
            /\ at' = [at EXCEPT ![t] = step]
            /\ at[t] \in {"idle", "notFull", "notEmpty", "timedNotEmpty"}
      BY <2>7 DEF Call, SpuriousReturn, Goes, Awake, PopWaiters, PushWaiters, ThreadsAt
    <3>2. /\ PopWaiters' \subseteq PopWaiters /\ PushWaiters' \subseteq PushWaiters
          /\ Poppers \subseteq Poppers' /\ Pushers \subseteq Pushers'
      BY <3>1 DEF BufferTypeOK, PopWaiters, PushWaiters, Poppers, Pushers, ThreadsAt
    <3> QED
      BY <2>3, <3>2
  <2> QED
    BY <1>1, <2>4, <2>5, <2>6, <2>7 DEF Moving
<1>2. ASSUME NEW t \in Threads, Insert(t), ~closed, at[t] \in {"idle", "push"}
      PROVE  NobodyWaitsInVain'
  <2>1. /\ PushWaiters' \subseteq PushWaiters /\ Pushers \ {t} \subseteq Pushers'
        /\ \/ PopWaiters' = {}
           \/ /\ PopWaiters # {}
              /\ \E w \in Threads : w \notin Poppers /\ Poppers \cup {w} \subseteq Poppers'
    BY <1>2, NotifiedPop DEF Insert
  <2>2. closed' = closed /\ size' = size + 1
    BY <1>2 DEF Insert
  <2>3. Cardinality(Pushers) - 1 <= Cardinality(Pushers')
    BY <1>0, <2>1, Counting
  <2>4. PopWaiters' # {} => /\ PopWaiters # {}
                            /\ Cardinality(Poppers) + 1 <= Cardinality(Poppers')
    BY <1>0, <2>1, Counting
  <2> QED
    BY <1>00, <1>2, <2>1, <2>2, <2>3, <2>4 DEF NobodyWaitsInVain
<1>3. ASSUME NEW t \in Threads, Remove(t), size # 0,
             at[t] \in {"idle", "pop", "timedPop", "timedNotEmpty"}
      PROVE  NobodyWaitsInVain'
  <2>1. /\ PopWaiters' \subseteq PopWaiters /\ Poppers \ {t} \subseteq Poppers'
        /\ \/ PushWaiters' = {}
           \/ /\ PushWaiters # {}
              /\ \E w \in Threads : w \notin Pushers /\ Pushers \cup {w} \subseteq Pushers'
    BY <1>3, NotifiedPush DEF Remove
  <2>2. closed' = closed /\ size' = size - 1
    BY <1>3 DEF Remove
  <2>3. Cardinality(Poppers) - 1 <= Cardinality(Poppers')
    BY <1>0, <2>1, Counting
  <2>4. PushWaiters' # {} => /\ PushWaiters # {}
                             /\ Cardinality(Pushers) + 1 <= Cardinality(Pushers')
    BY <1>0, <2>1, Counting
  <2> QED
    BY <1>00, <2>1, <2>2, <2>3, <2>4 DEF NobodyWaitsInVain
<1>4. ASSUME NEW t \in Threads, TimeOut(t), size = 0 PROVE NobodyWaitsInVain'
  <2>1. /\ PopWaiters' \subseteq PopWaiters /\ PushWaiters' = PushWaiters
        /\ Pushers' = Pushers /\ closed' = closed /\ size' = 0
    BY <1>4, TimeOutEmpty DEF BufferTypeOK, PopWaiters, PushWaiters, Pushers, ThreadsAt
  <2> QED
    BY <1>00, <1>4, <2>1 DEF NobodyWaitsInVain
<1>5. CASE Clear
  <2>1. PushWaiters' = {} /\ PopWaiters' \subseteq PopWaiters /\ closed' = closed /\ size' = 0
    BY <1>5, NotifiedAll DEF Clear, WakeAll, BufferTypeOK, PopWaiters, PushWaiters, ThreadsAt, Awake
  <2> QED
    BY <1>00, <2>1 DEF NobodyWaitsInVain
<1>6. CASE Close
  <2>1. PopWaiters' = {} /\ PushWaiters' = {}
    BY <1>6, NotifiedAll DEF Close
  <2> QED
    BY <2>1 DEF NobodyWaitsInVain
<1>7. CASE UNCHANGED bufferVars
  BY <1>7 DEF bufferVars, NobodyWaitsInVain, PopWaiters, PushWaiters, Poppers, Pushers, ThreadsAt
<1> QED
  BY <1>1, <1>2, <1>3, <1>4, <1>5, <1>6, <1>7, Kinds

-------------------------------------------------------------------------------
(* Theorems.                                                                *)

LEMMA IInvInductive ==
  /\ BufferInit => BufferIInv
  /\ BufferIInv /\ [BufferNext]_bufferVars => BufferIInv'
<1>1. ASSUME BufferInit PROVE BufferIInv
  <2>1. Poppers = {} /\ Pushers = {} /\ PopWaiters = {} /\ PushWaiters = {}
    BY <1>1 DEF BufferInit, Poppers, Pushers, PopWaiters, PushWaiters, ThreadsAt
  <2>2. 0 \in Cells /\ 0 + 0 = 0 /\ 0 % Capacity = 0
    BY RingBufferAssumption DEF Cells
  <2>3. BufferTypeOK
    <3>1. buffer \in [Cells -> Nat] /\ taken \in Seq(Nat) /\ size \in 0..Capacity
      BY <1>1, RingBufferAssumption DEF BufferInit
    <3> QED
      BY <1>1, <2>2, <3>1 DEF BufferInit, BufferTypeOK
  <2>4. RingInv
    BY <1>1, <2>2 DEF BufferInit, RingInv
  <2> QED
    BY <2>1, <2>3, <2>4 DEF BufferIInv, NobodyWaitsInVain
<1>2. ASSUME BufferIInv, [BufferNext]_bufferVars PROVE BufferIInv'
  BY <1>2, TypeAndTail, Wakeups DEF BufferIInv
<1> QED
  BY <1>1, <1>2

LEMMA BufferIInvAlways == BufferSpec => []BufferIInv
BY IInvInductive, PTL DEF BufferSpec

(* Every state of a ring buffer is well typed: the indices stay inside the   *)
(* buffer and at most Capacity cells are in use.                             *)
THEOREM BufferTypeCorrect == BufferSpec => []BufferTypeOK
BY BufferIInvAlways, PTL DEF BufferIInv

(* No lost wakeup: with any number of threads, a thread waits only while     *)
(* every item (every free cell) has a thread of its own on the way to it.    *)
THEOREM NoLostWakeup == BufferSpec => []NobodyWaitsInVain
BY BufferIInvAlways, PTL DEF BufferIInv

(* Every step is one of the abstract queue's, or invisible there. *)
LEMMA StepSimulated ==
  ASSUME BufferIInv, BufferIInv', [BufferNext]_bufferVars
  PROVE  [Fifo!Next]_(Fifo!queueVars)
<1> USE DEF BufferIInv
<1>0. /\ Contents \in Seq(Nat) /\ Len(Contents) = size /\ size \in Nat
  BY ContentsType
<1>1. ASSUME buffer' = buffer, head' = head, size' = size PROVE (Contents)' = Contents
  BY <1>1 DEF Contents
<1>2. ASSUME NEW t \in Threads, Moving(t) PROVE UNCHANGED Fifo!queueVars
  BY <1>1, <1>2, MovingTyped DEF Fifo!queueVars
<1>3. ASSUME NEW t \in Threads, Insert(t), size < Capacity, ~closed PROVE Fifo!Put
  <2>1. accepted' \in Nat
    BY DEF BufferTypeOK
  <2>2. (Contents)' = Append(Contents, accepted')
    BY <1>3, <2>1, Inserted DEF Insert
  <2> QED
    BY <1>0, <1>3, <2>2 DEF Insert, Fifo!Put
<1>4. ASSUME NEW t \in Threads, Remove(t), size # 0 PROVE Fifo!Get
  <2>1. /\ (Contents)' = Tail(Contents)
        /\ Contents # <<>> /\ Head(Contents) = buffer[head]
    BY <1>4, Removed DEF Remove
  <2> QED
    BY <1>4, <2>1 DEF Remove, Fifo!Get
<1>5. ASSUME NEW t \in Threads, TimeOut(t), size = 0 PROVE UNCHANGED Fifo!queueVars
  BY <1>1, <1>5, TimeOutEmpty DEF Fifo!queueVars
<1>6. CASE Clear
  <2>1. (Contents)' = <<>>
    <3>1. size' = 0 /\ Len((Contents)') = size' /\ (Contents)' \in Seq(Nat)
      <4>1. (Contents)' = [i \in 1..0 |-> buffer'[(head' + i - 1) % Capacity]] /\ size' = 0
        BY <1>6 DEF Contents, Clear
      <4>2. (Contents)' \in [1..0 -> Nat]
        BY <4>1
      <4> QED
        BY <4>1, <4>2, FunctionAsSeq
    <3> QED
      BY <3>1, EmptySeq
  <2> QED
    BY <1>6, <2>1 DEF Clear, Fifo!Clear, Fifo!Next
<1>7. CASE Close
  BY <1>1, <1>7 DEF Close, Fifo!Close, Fifo!Next
<1>8. CASE UNCHANGED bufferVars
  BY <1>1, <1>8 DEF bufferVars, Fifo!queueVars
<1> QED
  BY <1>2, <1>3, <1>4, <1>5, <1>6, <1>7, <1>8, Kinds DEF Fifo!Next

(* The ring buffer implements the bounded FIFO queue: whatever the threads   *)
(* do, items leave in the order in which they came, once each.               *)
THEOREM BufferImplementsQueue == BufferSpec => ImplementsQueue
<1>1. BufferInit => Fifo!Init
  <2>1. ASSUME BufferInit PROVE Contents = <<>>
    <3>1. Contents = [i \in 1..0 |-> buffer[(head + i - 1) % Capacity]]
      BY <2>1 DEF BufferInit, Contents
    <3>2. Contents \in [1..0 -> Nat]
      BY <3>1
    <3>3. Contents \in Seq(Nat) /\ Len(Contents) = 0
      BY <3>2, FunctionAsSeq
    <3> QED
      BY <3>3, EmptySeq
  <2> QED
    BY <2>1 DEF BufferInit, Fifo!Init
<1> QED
  BY <1>1, BufferIInvAlways, StepSimulated, PTL DEF BufferSpec, ImplementsQueue, Fifo!Spec
===============================================================================

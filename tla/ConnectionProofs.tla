--------------------------- MODULE ConnectionProofs ---------------------------
(***************************************************************************)
(* Proofs about Connection, for every number of connections, descriptors   *)
(* and senders and every size of frame, socket buffer and bound.           *)
(*                                                                         *)
(* The invariants of Connection are not inductive by themselves: that a    *)
(* sender arms its own descriptor depends on the mutex keeping the         *)
(* reactor from closing meanwhile, which depends on who holds the mutex in *)
(* which step, and so on.  IInv collects these facts.                      *)
(*                                                                         *)
(* The last part shows that Connection implements OutputChannel: what the  *)
(* peer has received, followed by what the buffer still holds, is the      *)
(* sequence of the frames that were accepted.                              *)
(***************************************************************************)
EXTENDS Connection, SequenceTheorems, TLAPS

(* The descriptor table, _conn and the connection objects agree. *)
DescriptorInv ==
  /\ \A f \in Fds : conn[f] = owner[f]
  /\ \A c \in Conns, f \in Fds : owner[f] = c <=> fd[c] = f
  /\ \A c \in Conns : fd[c] # NoFd => callbackFd[c] = fd[c]
  /\ \A c \in Conns : ~Accepted(c) => ~closed[c] /\ fd[c] = NoFd
  /\ \A c \in Conns : Accepted(c) /\ fd[c] = NoFd => closed[c]

(* Who holds the mutex of a connection, and in the middle of what.  The     *)
(* reactor closes only connections it has in _conn, and only while nobody   *)
(* holds their mutex.                                                       *)
MutexInv ==
  /\ \A s \in Senders : senderAt[s].step = "arm" =>
       /\ senderAt[s].conn \in Conns
       /\ sendMutex[senderAt[s].conn] = s
       /\ fd[senderAt[s].conn] # NoFd
       /\ writeInterest[senderAt[s].conn]
       /\ ~closed[senderAt[s].conn]
  /\ \A c \in Conns, s \in Senders : sendMutex[c] = s =>
       senderAt[s].step = "arm" /\ senderAt[s].conn = c
  /\ \A c \in Conns : sendMutex[c] = Reactor =>
       reactorAt.step \in {"flush", "disarm"} /\ conn[reactorAt.fd] = c
  /\ reactorAt.step # "poll" => reactorAt.fd \in Fds /\ conn[reactorAt.fd] \in Conns
  /\ reactorAt.step \in {"flush", "disarm"} =>
       sendMutex[conn[reactorAt.fd]] = Reactor /\ ~closed[conn[reactorAt.fd]]
  /\ \A c \in Conns : closed[c] /\ fd[c] # NoFd =>
       reactorAt.step \in {"del", "shut"} /\ conn[reactorAt.fd] = c

(* What the registration says while somebody is in the middle of changing   *)
(* it, besides what InterestMatchesEpoll says when nobody is.               *)
InterestInv ==
  /\ \A c \in Conns : ~closed[c] /\ Remaining(c) > 0 => writeInterest[c]
  /\ \A c \in Conns : fd[c] = NoFd => Remaining(c) = 0 /\ ~writeInterest[c]
  /\ reactorAt.step = "disarm" =>
       ~writeInterest[conn[reactorAt.fd]] /\ Remaining(conn[reactorAt.fd]) = 0
  /\ \A c \in Conns : fd[c] # NoFd /\ ~(reactorAt.step = "shut" /\ conn[reactorAt.fd] = c)
       => epoll[fd[c]] # "absent"
  /\ reactorAt.step = "flush" =>
       (writeInterest[conn[reactorAt.fd]] <=> epoll[reactorAt.fd] = "inout")
  /\ InterestMatchesEpoll

IInv == TypeOK /\ DescriptorInv /\ MutexInv /\ InterestInv

-------------------------------------------------------------------------------
(* Type correctness: besides the ranges, _writeOffset never passes the end  *)
(* of _writeBuf, so "size() - offset" in flushOutput does not wrap.         *)

LEMMA FrameType ==
  \A n \in Nat : Frame(n) \in Seq(Nat \X Nat) /\ Len(Frame(n)) = FrameLen
<1> TAKE n \in Nat
<1>1. Frame(n) \in [1..FrameLen -> Nat \X Nat]
  BY DEF Frame
<1>2. FrameLen \in Nat
  BY ConnectionAssumption
<1> QED
  BY <1>1, <1>2, SeqDef, LenProperties

(* What TypeOK says of one send queue. *)
LEMMA QueueType ==
  ASSUME TypeOK, NEW c \in Conns
  PROVE  /\ writeBuf[c] \in Seq(Nat \X Nat) /\ wire[c] \in Seq(Nat \X Nat)
         /\ Len(writeBuf[c]) \in Nat /\ writeOffset[c] \in Nat
         /\ writeOffset[c] <= Len(writeBuf[c])
         /\ Remaining(c) = Len(writeBuf[c]) - writeOffset[c] /\ Remaining(c) \in Nat
<1>1. writeBuf[c] \in Seq(Nat \X Nat) /\ wire[c] \in Seq(Nat \X Nat)
  BY DEF TypeOK
<1>2. writeOffset[c] \in Nat /\ writeOffset[c] <= Len(writeBuf[c])
  BY DEF TypeOK
<1>3. Len(writeBuf[c]) \in Nat
  BY <1>1, LenProperties
<1> QED
  BY <1>1, <1>2, <1>3 DEF Remaining

(* Clearing a queue leaves nothing to send on it, and the others alone. *)
LEMMA ClearedQueue ==
  ASSUME TypeOK, NEW c \in Conns, QueueCleared(c)
  PROVE  /\ writeBuf' \in [Conns -> Seq(Nat \X Nat)] /\ writeOffset' \in [Conns -> Nat]
         /\ \A d \in Conns : writeOffset'[d] <= Len(writeBuf'[d])
         /\ Remaining(c)' = 0
         /\ \A d \in Conns \ {c} : Remaining(d)' = Remaining(d)
<1>1. /\ writeBuf \in [Conns -> Seq(Nat \X Nat)] /\ writeOffset \in [Conns -> Nat]
      /\ \A d \in Conns : writeOffset[d] <= Len(writeBuf[d])
  BY DEF TypeOK
<1>2. <<>> \in Seq(Nat \X Nat) /\ Len(<<>>) = 0
  BY EmptySeq
<1>3. writeBuf'[c] = <<>> /\ writeOffset'[c] = 0
  BY <1>1 DEF QueueCleared
<1>4. \A d \in Conns \ {c} : writeBuf'[d] = writeBuf[d] /\ writeOffset'[d] = writeOffset[d]
  BY <1>1 DEF QueueCleared
<1>5. writeBuf' \in [Conns -> Seq(Nat \X Nat)] /\ writeOffset' \in [Conns -> Nat]
  BY <1>1, <1>2 DEF QueueCleared
<1>6. \A d \in Conns : writeOffset'[d] <= Len(writeBuf'[d])
  <2> TAKE d \in Conns
  <2>1. CASE d = c
    BY <2>1, <1>2, <1>3
  <2>2. CASE d # c
    BY <2>2, <1>1, <1>4
  <2> QED
    BY <2>1, <2>2
<1>7. Remaining(c)' = 0
  BY <1>2, <1>3 DEF Remaining
<1>8. \A d \in Conns \ {c} : Remaining(d)' = Remaining(d)
  BY <1>4 DEF Remaining
<1> QED
  BY <1>5, <1>6, <1>7, <1>8

(* sendData makes the queue of its connection one frame longer. *)
LEMMA EnqueuedFrame ==
  ASSUME TypeOK, NEW c \in Conns,
         writeBuf' = [writeBuf EXCEPT ![c] = @ \o Frame(accepted[c] + 1)],
         UNCHANGED writeOffset
  PROVE  /\ writeBuf' \in [Conns -> Seq(Nat \X Nat)]
         /\ \A d \in Conns : writeOffset'[d] <= Len(writeBuf'[d])
         /\ Remaining(c)' > 0
         /\ \A d \in Conns \ {c} : Remaining(d)' = Remaining(d)
<1>1. /\ writeBuf \in [Conns -> Seq(Nat \X Nat)] /\ accepted[c] + 1 \in Nat
      /\ FrameLen \in Nat \ {0}
  BY ConnectionAssumption DEF TypeOK
<1>2. /\ writeBuf[c] \o Frame(accepted[c] + 1) \in Seq(Nat \X Nat)
      /\ Len(writeBuf[c] \o Frame(accepted[c] + 1)) = Len(writeBuf[c]) + FrameLen
  <2>1. /\ Frame(accepted[c] + 1) \in Seq(Nat \X Nat)
        /\ Len(Frame(accepted[c] + 1)) = FrameLen
    BY <1>1, FrameType
  <2>2. writeBuf[c] \in Seq(Nat \X Nat)
    BY <1>1
  <2> QED
    BY <2>1, <2>2, ConcatProperties
<1>3. writeBuf' \in [Conns -> Seq(Nat \X Nat)]
  BY <1>1, <1>2
<1>4. writeBuf'[c] = writeBuf[c] \o Frame(accepted[c] + 1)
  BY <1>1
<1>5. \A d \in Conns \ {c} : writeBuf'[d] = writeBuf[d]
  BY <1>1
<1>6. \A d \in Conns \ {c} : Remaining(d)' = Remaining(d)
  BY <1>5 DEF Remaining
<1>7. writeOffset'[c] <= Len(writeBuf'[c]) /\ Remaining(c)' > 0
  BY <1>1, <1>2, <1>4, QueueType, SMTT(40) DEF Remaining
<1>8. \A d \in Conns : writeOffset'[d] <= Len(writeBuf'[d])
  BY <1>5, <1>7, QueueType
<1> QED
  BY <1>3, <1>6, <1>7, <1>8

(* One send() moves n bytes from the queue to the wire. *)
LEMMA SentBytes ==
  ASSUME TypeOK, NEW c \in Conns, NEW n \in 1..Remaining(c),
         wire' = [wire EXCEPT ![c] =
                    @ \o SubSeq(writeBuf[c], writeOffset[c] + 1, writeOffset[c] + n)],
         writeOffset' = [writeOffset EXCEPT ![c] = @ + n],
         UNCHANGED writeBuf
  PROVE  /\ wire' \in [Conns -> Seq(Nat \X Nat)] /\ writeOffset' \in [Conns -> Nat]
         /\ \A d \in Conns : writeOffset'[d] <= Len(writeBuf'[d])
         /\ Remaining(c)' \in Nat /\ Remaining(c) > 0
         /\ \A d \in Conns \ {c} : Remaining(d)' = Remaining(d)
<1>1. wire \in [Conns -> Seq(Nat \X Nat)] /\ writeOffset \in [Conns -> Nat]
  BY DEF TypeOK
<1>2. n \in Nat /\ n > 0 /\ writeOffset[c] + n <= Len(writeBuf[c]) /\ Remaining(c) > 0
  BY QueueType
<1>3. SubSeq(writeBuf[c], writeOffset[c] + 1, writeOffset[c] + n) \in Seq(Nat \X Nat)
  <2>1. \A i \in writeOffset[c] + 1 .. writeOffset[c] + n : i \in 1 .. Len(writeBuf[c])
    BY <1>2, QueueType
  <2>2. \A i \in writeOffset[c] + 1 .. writeOffset[c] + n : writeBuf[c][i] \in Nat \X Nat
    BY <2>1, QueueType, ElementOfSeq
  <2>3. writeOffset[c] + 1 \in Int /\ writeOffset[c] + n \in Int
    BY <1>1, <1>2
  <2> QED
    BY <2>2, <2>3, SubSeqProperties
<1>4. wire' \in [Conns -> Seq(Nat \X Nat)]
  <2>1. wire[c] \o SubSeq(writeBuf[c], writeOffset[c] + 1, writeOffset[c] + n) \in Seq(Nat \X Nat)
    BY <1>3, QueueType, ConcatProperties
  <2> QED
    BY <1>1, <2>1
<1>5. writeOffset'[c] = writeOffset[c] + n
  BY <1>1
<1>6. \A d \in Conns \ {c} : writeOffset'[d] = writeOffset[d]
  BY <1>1
<1>7. writeOffset' \in [Conns -> Nat]
  BY <1>1, <1>2
<1>8. \A d \in Conns : writeOffset'[d] <= Len(writeBuf'[d])
  BY <1>2, <1>5, <1>6, QueueType
<1>9. Remaining(c)' \in Nat
  BY <1>2, <1>5, QueueType DEF Remaining
<1>10. \A d \in Conns \ {c} : Remaining(d)' = Remaining(d)
  BY <1>6 DEF Remaining
<1> QED
  BY <1>2, <1>4, <1>7, <1>8, <1>9, <1>10

-------------------------------------------------------------------------------
(* The initial state satisfies the inductive invariant. *)
THEOREM InitIInv == Init => IInv
<1> SUFFICES ASSUME Init PROVE IInv
  OBVIOUS
<1> USE ConnectionAssumption DEF Init
<1>1. TypeOK
  BY DEF TypeOK, Registration, ReactorStep
<1>2. DescriptorInv
  BY DEF DescriptorInv, Accepted
<1>3. MutexInv
  BY DEF MutexInv
<1>4. InterestInv
  BY DEF InterestInv, InterestMatchesEpoll, Remaining, Closing
<1> QED
  BY <1>1, <1>2, <1>3, <1>4 DEF IInv

(* Every step of every thread preserves it. *)
THEOREM StepIInv == IInv /\ [Next]_vars => IInv'
<1> SUFFICES ASSUME IInv, [Next]_vars PROVE IInv'
  OBVIOUS
<1> USE ConnectionAssumption
    DEF IInv, object, kernel, history, MutexKept, MutexReleased, QueueCleared,
        UpdateWriteInterest, ReactorGoes
<1>1. ASSUME NEW c \in Conns, NEW f \in Fds, Accept(c, f)
     PROVE  IInv'
  <2> USE <1>1 DEF Accept
  <2>1. TypeOK'
    BY DEF TypeOK, Registration, ReactorStep
  <2>2. DescriptorInv'
    BY DEF TypeOK, DescriptorInv, MutexInv, Accepted
  <2>3. MutexInv'
    BY DEF TypeOK, DescriptorInv, MutexInv
  <2>4. InterestInv'
    <3>1. /\ fd' = [fd EXCEPT ![c] = f] /\ fd[c] = NoFd
          /\ \A d \in Conns : fd[d] # f
      BY DEF DescriptorInv, TypeOK
    <3>2. \A d \in Conns : Remaining(d)' = Remaining(d)
      BY DEF Remaining
    <3>3. ~writeInterest[c] /\ Remaining(c) = 0
      BY <3>1 DEF InterestInv
    <3>4. InterestMatchesEpoll'
      BY <3>1, <3>3 DEF InterestInv, InterestMatchesEpoll, Closing, TypeOK
    <3> QED
      BY <3>1, <3>2, <3>3, <3>4 DEF InterestInv, TypeOK
  <2> QED
    BY <2>1, <2>2, <2>3, <2>4
<1>2. ASSUME NEW s \in Senders, NEW c \in Conns, SendData(s, c)
     PROVE  IInv'
  <2> USE <1>2 DEF SendData
  <2>1. TypeOK'
    <3>1. writeBuf' \in [Conns -> Seq(Nat \X Nat)]
      BY EnqueuedFrame
    <3>2. \A d \in Conns : writeOffset'[d] <= Len(writeBuf'[d])
      BY EnqueuedFrame
    <3>3. accepted' \in [Conns -> Nat]
      BY DEF TypeOK
    <3>4. CASE writeInterest[c]
      BY <3>1, <3>2, <3>3, <3>4 DEF TypeOK
    <3>5. CASE ~writeInterest[c]
      <4>1. /\ senderAt' = [senderAt EXCEPT ![s] = [step |-> "arm", conn |-> c]]
            /\ sendMutex' = [sendMutex EXCEPT ![c] = s]
            /\ writeInterest' = [writeInterest EXCEPT ![c] = TRUE]
        BY <3>5
      <4>2. writeInterest' \in [Conns -> BOOLEAN]
        BY <4>1 DEF TypeOK
      <4>3. sendMutex' \in [Conns -> Senders \cup {Reactor, None}]
        BY <4>1 DEF TypeOK
      <4>4. senderAt' \in [Senders -> [step : {"idle", "arm"}, conn : Conns \cup {None}]]
        BY <4>1 DEF TypeOK
      <4> QED
        BY <3>1, <3>2, <3>3, <4>2, <4>3, <4>4 DEF TypeOK
    <3> QED
      BY <3>4, <3>5
  <2>2. DescriptorInv'
    BY DEF TypeOK, DescriptorInv, MutexInv, Accepted
  <2>3. MutexInv'
    <3>1. CASE writeInterest[c]
      BY <3>1 DEF TypeOK, DescriptorInv, MutexInv
    <3>2. CASE ~writeInterest[c]
      <4>1. /\ senderAt' = [senderAt EXCEPT ![s] = [step |-> "arm", conn |-> c]]
            /\ sendMutex' = [sendMutex EXCEPT ![c] = s]
            /\ writeInterest' = [writeInterest EXCEPT ![c] = TRUE]
        BY <3>2
      <4>2. \A t \in Senders : senderAt[t].step = "arm" => senderAt[t].conn # c
        BY DEF MutexInv
      <4>3. \A t \in Senders \ {s} : senderAt'[t] = senderAt[t]
        BY <4>1 DEF TypeOK
      <4>4. senderAt'[s].step = "arm" /\ senderAt'[s].conn = c
        BY <4>1 DEF TypeOK
      <4>5. \A d \in Conns \ {c} : sendMutex'[d] = sendMutex[d]
        BY <4>1 DEF TypeOK
      <4>6. sendMutex'[c] = s /\ writeInterest'[c]
        BY <4>1 DEF TypeOK
      <4>7. \A d \in Conns \ {c} : writeInterest'[d] = writeInterest[d]
        BY <4>1 DEF TypeOK
      <4>8. \A d \in Conns : sendMutex[d] # s
        BY DEF MutexInv
      <4>9. reactorAt.step \in {"flush", "disarm"} => conn[reactorAt.fd] # c
        BY DEF MutexInv
      <4> QED
        BY <4>2, <4>3, <4>4, <4>5, <4>6, <4>7, <4>8, <4>9 DEF MutexInv
    <3> QED
      BY <3>1, <3>2
  <2>4. InterestInv'
    <3>1. /\ \A d \in Conns \ {c} : Remaining(d)' = Remaining(d)
          /\ Remaining(c)' > 0
      BY EnqueuedFrame
    <3>2. writeInterest'[c] /\ \A d \in Conns \ {c} : writeInterest'[d] = writeInterest[d]
      BY DEF TypeOK
    <3>3. reactorAt.step \in {"flush", "disarm"} => conn[reactorAt.fd] # c
      BY DEF MutexInv, TypeOK
    <3>4. InterestMatchesEpoll'
      BY <3>3 DEF InterestInv, InterestMatchesEpoll, Closing, TypeOK, MutexInv
    <3> QED
      BY <3>1, <3>2, <3>3, <3>4 DEF InterestInv, MutexInv
  <2> QED
    BY <2>1, <2>2, <2>3, <2>4
<1>3. ASSUME NEW s \in Senders, SendArm(s)
     PROVE  IInv'
  <2> USE <1>3 DEF SendArm
  <2>1. TypeOK'
    BY DEF TypeOK, Registration, ReactorStep
  <2>2. DescriptorInv'
    BY DEF TypeOK, DescriptorInv, MutexInv, Accepted
  <2>3. MutexInv'
    BY DEF TypeOK, DescriptorInv, MutexInv
  <2> DEFINE c == senderAt[s].conn
  <2>4. InterestInv'
    <3>1. c \in Conns /\ sendMutex[c] = s /\ fd[c] \in Fds /\ callbackFd[c] = fd[c] /\ writeInterest[c]
      BY DEF MutexInv, DescriptorInv, TypeOK
    <3>2. \A d \in Conns \ {c} : fd[d] # NoFd => fd[d] # fd[c]
      BY <3>1 DEF DescriptorInv, TypeOK
    <3>3. \A d \in Conns : Remaining(d)' = Remaining(d)
      BY DEF Remaining
    <3>4. \A d \in Conns \ {c} : fd[d] # NoFd => epoll'[fd[d]] = epoll[fd[d]]
      BY <3>1, <3>2 DEF TypeOK
    <3>5. epoll'[fd[c]] = IF epoll[fd[c]] = "absent" THEN "absent" ELSE "inout"
      BY <3>1 DEF TypeOK
    <3>6. InterestMatchesEpoll'
      <4> SUFFICES ASSUME NEW d \in Conns, sendMutex'[d] = None, fd[d] # NoFd, ~Closing(d)
                   PROVE  writeInterest[d] <=> epoll'[fd[d]] = "inout"
        BY DEF InterestMatchesEpoll, Closing
      <4>1. CASE d = c
        BY <3>1, <3>5, <4>1 DEF InterestInv, Closing
      <4>2. CASE d # c
        BY <3>1, <3>4, <4>2 DEF InterestInv, InterestMatchesEpoll, TypeOK
      <4> QED
        BY <4>1, <4>2
    <3>7. reactorAt.step \in {"flush", "disarm"} =>
             conn[reactorAt.fd] \in Conns \ {c} /\ fd[conn[reactorAt.fd]] = reactorAt.fd
      BY <3>1 DEF MutexInv, DescriptorInv, TypeOK
    <3> QED
      BY <3>1, <3>2, <3>3, <3>4, <3>5, <3>6, <3>7 DEF InterestInv, TypeOK
  <2> QED
    BY <2>1, <2>2, <2>3, <2>4
<1>4. ASSUME NEW f \in Fds, PollOut(f)
     PROVE  IInv'
  <2> USE <1>4 DEF PollOut
  <2>1. TypeOK'
    <3>1. reactorAt' \in [step : ReactorStep, fd : Fds \cup {NoFd}]
      BY DEF ReactorStep
    <3>2. CASE closed[conn[f]] \/ fd[conn[f]] = NoFd
      BY <3>1, <3>2 DEF TypeOK
    <3>3. CASE ~(closed[conn[f]] \/ fd[conn[f]] = NoFd)
      <4>1. sendMutex' = [sendMutex EXCEPT ![conn[f]] = Reactor]
        BY <3>3
      <4>2. sendMutex' \in [Conns -> Senders \cup {Reactor, None}]
        BY <4>1 DEF TypeOK
      <4> QED
        BY <3>1, <4>2 DEF TypeOK
    <3> QED
      BY <3>2, <3>3
  <2>2. DescriptorInv'
    BY DEF TypeOK, DescriptorInv, MutexInv, Accepted
  <2>3. MutexInv'
    <3>1. conn[f] \in Conns /\ fd[conn[f]] = f
      BY DEF TypeOK, DescriptorInv
    <3>2. ~closed[conn[f]]
      BY <3>1 DEF TypeOK, DescriptorInv, MutexInv
    <3>3. /\ reactorAt' = [step |-> "flush", fd |-> f]
          /\ sendMutex' = [sendMutex EXCEPT ![conn[f]] = Reactor]
      BY <3>1, <3>2
    <3> QED
      BY <3>1, <3>2, <3>3 DEF TypeOK, DescriptorInv, MutexInv
  <2>4. InterestInv'
    <3>1. conn[f] \in Conns /\ fd[conn[f]] = f
      BY DEF TypeOK, DescriptorInv
    <3>2. ~closed[conn[f]]
      BY <3>1 DEF TypeOK, DescriptorInv, MutexInv
    <3>3. /\ reactorAt' = [step |-> "flush", fd |-> f]
          /\ sendMutex' = [sendMutex EXCEPT ![conn[f]] = Reactor]
      BY <3>1, <3>2
    <3>4. writeInterest[conn[f]]
      BY <3>1, <3>2 DEF InterestInv, InterestMatchesEpoll, Closing
    <3>5. InterestMatchesEpoll'
      BY <3>1, <3>3 DEF InterestInv, InterestMatchesEpoll, Closing, TypeOK
    <3>6. \A c \in Conns : Remaining(c)' = Remaining(c)
      BY DEF Remaining
    <3> QED
      BY <3>1, <3>3, <3>4, <3>5, <3>6 DEF InterestInv, TypeOK
  <2> QED
    BY <2>1, <2>2, <2>3, <2>4
<1>5. ASSUME FlushSend
     PROVE  IInv'
  <2>a. reactorAt.step = "flush"
    BY <1>5 DEF FlushSend
  <2>b. reactorAt.fd \in Fds /\ conn[reactorAt.fd] \in Conns
    BY <2>a DEF MutexInv
  <2>0. PICK c \in Conns : c = conn[reactorAt.fd] /\ owner[fd[c]] = c /\ fd[c] = reactorAt.fd
    BY <2>b DEF DescriptorInv
  <2>5. PICK n \in 1..Remaining(c) :
          /\ n <= room[c]
          /\ wire' = [wire EXCEPT ![c] =
                        @ \o SubSeq(writeBuf[c], writeOffset[c] + 1, writeOffset[c] + n)]
          /\ room' = [room EXCEPT ![c] = @ - n]
          /\ writeOffset' = [writeOffset EXCEPT ![c] = @ + n]
    BY <1>5, <2>0 DEF FlushSend
  <2>7. UNCHANGED <<fd, closed, writeBuf, callbackFd, writeInterest, sendMutex, conn, owner,
                    reactorAt, senderAt, epoll, peer, accepted>>
    BY <1>5 DEF FlushSend
  <2>6. /\ wire' \in [Conns -> Seq(Nat \X Nat)] /\ writeOffset' \in [Conns -> Nat]
        /\ \A d \in Conns : writeOffset'[d] <= Len(writeBuf'[d])
        /\ Remaining(c) > 0
        /\ \A d \in Conns \ {c} : Remaining(d)' = Remaining(d)
    BY <2>5, <2>7, SentBytes
  <2>1. TypeOK'
    <3>1. n \in Nat /\ room[c] \in Nat /\ n <= room[c]
      BY <2>5, QueueType DEF TypeOK
    <3>2. room[c] - n \in Nat
      BY <3>1
    <3>3. room' \in [Conns -> Nat]
      BY <2>5, <3>2 DEF TypeOK
    <3> QED
      BY <2>6, <2>7, <3>3 DEF TypeOK
  <2>2. DescriptorInv'
    BY <2>7 DEF DescriptorInv, Accepted
  <2>3. MutexInv'
    BY <2>7 DEF MutexInv
  <2>4. InterestInv'
    <3>1. InterestMatchesEpoll'
      BY <2>7 DEF InterestInv, InterestMatchesEpoll, Closing
    <3>2. sendMutex[c] = Reactor /\ fd[c] # NoFd /\ ~closed[c] /\ writeInterest[c]
      BY <2>a, <2>0, <2>6 DEF InterestInv, MutexInv
    <3>3. \A d \in Conns : ~closed[d] /\ Remaining(d)' > 0 => writeInterest[d]
      <4>1. \A d \in Conns : ~closed[d] /\ Remaining(d) > 0 => writeInterest[d]
        BY DEF InterestInv
      <4>2. ASSUME NEW d \in Conns, ~closed[d], Remaining(d)' > 0
            PROVE  writeInterest[d]
        <5>1. CASE d = c
          BY <5>1, <3>2
        <5>2. CASE d # c
          <6>1. Remaining(d)' = Remaining(d)
            BY <5>2, <2>6
          <6> QED
            BY <4>1, <4>2, <6>1
        <5> QED
          BY <5>1, <5>2
      <4> QED
        BY <4>2
    <3>4. \A d \in Conns : fd[d] = NoFd => Remaining(d)' = 0 /\ ~writeInterest[d]
      BY <2>6, <3>2 DEF InterestInv
    <3> QED
      BY <2>a, <2>7, <3>1, <3>3, <3>4 DEF InterestInv
  <2> QED
    BY <2>1, <2>2, <2>3, <2>4
<1>6. ASSUME FlushPending
     PROVE  IInv'
  <2> USE <1>6 DEF FlushPending
  <2>0. PICK c \in Conns : c = conn[reactorAt.fd] /\ owner[fd[c]] = c /\ fd[c] = reactorAt.fd
    BY DEF MutexInv, DescriptorInv, TypeOK
  <2>1. TypeOK'
    BY DEF TypeOK, Registration, ReactorStep
  <2>2. DescriptorInv'
    BY DEF TypeOK, DescriptorInv, MutexInv, Accepted
  <2>3. MutexInv'
    BY SMTT(40) DEF TypeOK, DescriptorInv, MutexInv
  <2>4. InterestInv'
    <3>1. reactorAt' = [step |-> "poll", fd |-> NoFd] /\ sendMutex' = [sendMutex EXCEPT ![c] = None]
      BY <2>0
    <3>2. \A d \in Conns : Remaining(d)' = Remaining(d)
      BY DEF Remaining
    <3>3. InterestMatchesEpoll'
      BY <2>0, <3>1 DEF InterestInv, InterestMatchesEpoll, Closing, TypeOK
    <3> QED
      BY <3>1, <3>2, <3>3 DEF InterestInv
  <2> QED
    BY <2>1, <2>2, <2>3, <2>4
<1>7. ASSUME FlushFatal
     PROVE  IInv'
  <2> USE <1>7 DEF FlushFatal
  <2>0. PICK c \in Conns : c = conn[reactorAt.fd] /\ owner[fd[c]] = c /\ fd[c] = reactorAt.fd
    BY DEF MutexInv, DescriptorInv, TypeOK
  <2>1. TypeOK'
    <3>1. writeBuf' \in [Conns -> Seq(Nat \X Nat)] /\ writeOffset' \in [Conns -> Nat]
      BY <2>0, ClearedQueue
    <3>2. \A d \in Conns : writeOffset'[d] <= Len(writeBuf'[d])
      BY <2>0, ClearedQueue
    <3>3. reactorAt' \in [step : ReactorStep, fd : Fds \cup {NoFd}]
      BY DEF ReactorStep, TypeOK
    <3>4. /\ closed' \in [Conns -> BOOLEAN] /\ writeInterest' \in [Conns -> BOOLEAN]
          /\ sendMutex' \in [Conns -> Senders \cup {Reactor, None}]
      BY DEF TypeOK
    <3> QED
      BY <3>1, <3>2, <3>3, <3>4 DEF TypeOK
  <2>2. DescriptorInv'
    BY DEF TypeOK, DescriptorInv, MutexInv, Accepted
  <2>3. MutexInv'
    BY SMTT(40) DEF TypeOK, DescriptorInv, MutexInv
  <2>4. InterestInv'
    <3>1. /\ \A d \in Conns \ {c} : Remaining(d)' = Remaining(d)
          /\ Remaining(c)' = 0
      BY <2>0, ClearedQueue
    <3>2. InterestMatchesEpoll'
      BY <2>0 DEF InterestInv, InterestMatchesEpoll, Closing, TypeOK
    <3>3. reactorAt' = [step |-> "del", fd |-> reactorAt.fd]
      OBVIOUS
    <3> QED
      BY <2>0, <3>1, <3>2, <3>3 DEF InterestInv, TypeOK
  <2> QED
    BY <2>1, <2>2, <2>3, <2>4
<1>8. ASSUME FlushDrained
     PROVE  IInv'
  <2> USE <1>8 DEF FlushDrained
  <2>0. PICK c \in Conns : c = conn[reactorAt.fd] /\ owner[fd[c]] = c /\ fd[c] = reactorAt.fd
    BY DEF MutexInv, DescriptorInv, TypeOK
  <2>1. TypeOK'
    <3>1. writeBuf' \in [Conns -> Seq(Nat \X Nat)] /\ writeOffset' \in [Conns -> Nat]
      BY <2>0, ClearedQueue
    <3>2. \A d \in Conns : writeOffset'[d] <= Len(writeBuf'[d])
      BY <2>0, ClearedQueue
    <3>3. reactorAt' \in [step : ReactorStep, fd : Fds \cup {NoFd}]
      BY DEF ReactorStep, TypeOK
    <3>4. /\ writeInterest' \in [Conns -> BOOLEAN]
          /\ sendMutex' \in [Conns -> Senders \cup {Reactor, None}]
      BY DEF TypeOK
    <3> QED
      BY <3>1, <3>2, <3>3, <3>4 DEF TypeOK
  <2>2. DescriptorInv'
    BY DEF TypeOK, DescriptorInv, MutexInv, Accepted
  <2>3. MutexInv'
    <3>0. \A s \in Senders : sendMutex[c] # s
      BY <2>0 DEF MutexInv, TypeOK
    <3>1. CASE writeInterest[c]
      BY <2>0, <3>0, <3>1 DEF TypeOK, DescriptorInv, MutexInv
    <3>2. CASE ~writeInterest[c]
      <4>1. /\ reactorAt' = [step |-> "poll", fd |-> NoFd]
            /\ sendMutex' = [sendMutex EXCEPT ![c] = None]
        BY <2>0, <3>2
      <4>2. writeInterest' = writeInterest
        BY <3>2, <2>0 DEF TypeOK
      <4>3. \A d \in Conns : sendMutex'[d] # Reactor
        BY <2>0, <4>1, ConnectionAssumption DEF MutexInv, TypeOK
      <4> QED
        BY <2>0, <3>0, <4>1, <4>2, <4>3 DEF MutexInv, TypeOK
    <3> QED
      BY <3>1, <3>2
  <2>4. InterestInv'
    <3>1. /\ \A d \in Conns \ {c} : Remaining(d)' = Remaining(d)
          /\ Remaining(c)' = 0
      BY <2>0, ClearedQueue
    <3>2. writeInterest' = [writeInterest EXCEPT ![c] = FALSE] /\ sendMutex[c] = Reactor
      BY <2>0 DEF MutexInv
    <3>3. CASE writeInterest[c]
      <4>1. reactorAt' = [step |-> "disarm", fd |-> reactorAt.fd] /\ sendMutex' = sendMutex
        BY <2>0, <3>3
      <4>2. InterestMatchesEpoll'
        BY <2>0, <3>2, <4>1, SMTT(40) DEF InterestInv, InterestMatchesEpoll, Closing, TypeOK
      <4>3. ~writeInterest'[c] /\ \A d \in Conns \ {c} : writeInterest'[d] = writeInterest[d]
        BY <3>2, ZenonT(60) DEF TypeOK
      <4> QED
        BY <2>0, <3>1, <4>1, <4>2, <4>3 DEF InterestInv
    <3>4. CASE ~writeInterest[c]
      <4>1. /\ reactorAt' = [step |-> "poll", fd |-> NoFd]
            /\ sendMutex' = [sendMutex EXCEPT ![c] = None]
        BY <2>0, <3>4
      <4>2. InterestMatchesEpoll'
        BY <2>0, <3>2, <3>4, <4>1, SMTT(40) DEF InterestInv, InterestMatchesEpoll, Closing, TypeOK
      <4> QED
        BY <2>0, <3>1, <3>2, <4>1, <4>2 DEF InterestInv, TypeOK
    <3> QED
      BY <3>3, <3>4
  <2> QED
    BY <2>1, <2>2, <2>3, <2>4
<1>9. ASSUME FlushDisarm
     PROVE  IInv'
  <2> USE <1>9 DEF FlushDisarm
  <2>1. TypeOK'
    BY DEF TypeOK, Registration, ReactorStep
  <2>2. DescriptorInv'
    BY DEF TypeOK, DescriptorInv, MutexInv, Accepted
  <2>3. MutexInv'
    BY DEF TypeOK, DescriptorInv, MutexInv
  <2>0. PICK c \in Conns : c = conn[reactorAt.fd] /\ owner[fd[c]] = c /\ fd[c] = reactorAt.fd
    BY DEF MutexInv, DescriptorInv, TypeOK
  <2>4. InterestInv'
    <3>1. sendMutex[c] = Reactor /\ fd[c] \in Fds /\ callbackFd[c] = fd[c] /\ ~writeInterest[c]
      BY <2>0 DEF MutexInv, DescriptorInv, InterestInv, TypeOK
    <3>2. \A d \in Conns \ {c} : fd[d] # NoFd => epoll'[fd[d]] = epoll[fd[d]]
      BY <2>0, <3>1 DEF DescriptorInv, TypeOK
    <3>3. \A d \in Conns : Remaining(d)' = Remaining(d)
      BY DEF Remaining
    <3>4. epoll'[fd[c]] = IF epoll[fd[c]] = "absent" THEN "absent" ELSE "in"
      BY <2>0, <3>1 DEF TypeOK
    <3>5. InterestMatchesEpoll'
      <4> SUFFICES ASSUME NEW d \in Conns, sendMutex'[d] = None, fd[d] # NoFd, ~closed[d]
                   PROVE  writeInterest[d] <=> epoll'[fd[d]] = "inout"
        BY DEF InterestMatchesEpoll, Closing
      <4>1. CASE d = c
        BY <3>1, <3>4, <4>1
      <4>2. CASE d # c
        BY <2>0, <3>1, <3>2, <4>2 DEF InterestInv, InterestMatchesEpoll, TypeOK, Closing
      <4> QED
        BY <4>1, <4>2
    <3> QED
      BY <2>0, <3>1, <3>2, <3>3, <3>4, <3>5 DEF InterestInv, TypeOK
  <2> QED
    BY <2>1, <2>2, <2>3, <2>4
<1>10. ASSUME NEW f \in Fds, PollError(f)
     PROVE  IInv'
  <2> USE <1>10 DEF PollError
  <2>1. TypeOK'
    BY DEF TypeOK, Registration, ReactorStep
  <2>2. DescriptorInv'
    BY DEF TypeOK, DescriptorInv, MutexInv, Accepted
  <2>3. MutexInv'
    BY DEF TypeOK, DescriptorInv, MutexInv
  <2>4. InterestInv'
    BY DEF TypeOK, MutexInv, InterestInv, InterestMatchesEpoll, Remaining, Closing
  <2> QED
    BY <2>1, <2>2, <2>3, <2>4
<1>11. ASSUME NEW f \in Fds, PollEof(f)
     PROVE  IInv'
  <2> USE <1>11 DEF PollEof
  <2>1. TypeOK'
    BY DEF TypeOK, Registration, ReactorStep
  <2>2. DescriptorInv'
    BY DEF TypeOK, DescriptorInv, MutexInv, Accepted
  <2>3. MutexInv'
    BY DEF TypeOK, DescriptorInv, MutexInv
  <2>4. InterestInv'
    BY DEF TypeOK, MutexInv, InterestInv, InterestMatchesEpoll, Remaining, Closing
  <2> QED
    BY <2>1, <2>2, <2>3, <2>4
<1>12. ASSUME NEW f \in Fds, IdleTimeout(f)
     PROVE  IInv'
  <2> USE <1>12 DEF IdleTimeout
  <2>1. TypeOK'
    BY DEF TypeOK, Registration, ReactorStep
  <2>2. DescriptorInv'
    BY DEF TypeOK, DescriptorInv, MutexInv, Accepted
  <2>3. MutexInv'
    BY DEF TypeOK, DescriptorInv, MutexInv
  <2>4. InterestInv'
    BY DEF TypeOK, MutexInv, InterestInv, InterestMatchesEpoll, Remaining, Closing
  <2> QED
    BY <2>1, <2>2, <2>3, <2>4
<1>13. ASSUME CloseDel
     PROVE  IInv'
  <2> USE <1>13 DEF CloseDel
  <2>1. TypeOK'
    BY DEF TypeOK, Registration, ReactorStep
  <2>2. DescriptorInv'
    BY DEF TypeOK, DescriptorInv, MutexInv, Accepted
  <2>3. MutexInv'
    BY DEF TypeOK, DescriptorInv, MutexInv
  <2>4. InterestInv'
    <3>1. PICK c \in Conns :
            c = conn[reactorAt.fd] /\ fd[c] = reactorAt.fd /\ reactorAt.fd \in Fds
      BY DEF MutexInv, DescriptorInv, TypeOK
    <3>2. \A d \in Conns \ {c} : fd[d] # NoFd => epoll'[fd[d]] = epoll[fd[d]]
      BY <3>1 DEF DescriptorInv, TypeOK
    <3>3. \A d \in Conns : Remaining(d)' = Remaining(d)
      BY DEF Remaining
    <3>4. reactorAt' = [step |-> "shut", fd |-> reactorAt.fd]
      OBVIOUS
    <3>5. InterestMatchesEpoll'
      BY <3>1, <3>2, <3>4 DEF InterestInv, InterestMatchesEpoll, Closing, TypeOK
    <3> QED
      BY <3>1, <3>2, <3>3, <3>4, <3>5 DEF InterestInv, TypeOK
  <2> QED
    BY <2>1, <2>2, <2>3, <2>4
<1>14. ASSUME CloseShut
     PROVE  IInv'
  <2> USE <1>14 DEF CloseShut
  <2>0. PICK c \in Conns : c = conn[reactorAt.fd] /\ owner[fd[c]] = c /\ fd[c] = reactorAt.fd
    BY DEF MutexInv, DescriptorInv, TypeOK
  <2>1. TypeOK'
    <3>1. writeBuf' \in [Conns -> Seq(Nat \X Nat)] /\ writeOffset' \in [Conns -> Nat]
      BY <2>0, ClearedQueue
    <3>2. \A d \in Conns : writeOffset'[d] <= Len(writeBuf'[d])
      BY <2>0, ClearedQueue
    <3>3. reactorAt' \in [step : ReactorStep, fd : Fds \cup {NoFd}]
      BY DEF ReactorStep
    <3>4. /\ closed' \in [Conns -> BOOLEAN] /\ writeInterest' \in [Conns -> BOOLEAN]
          /\ fd' \in [Conns -> Fds \cup {NoFd}]
          /\ owner' \in [Fds -> Conns \cup {None}] /\ conn' \in [Fds -> Conns \cup {None}]
      BY DEF TypeOK
    <3> QED
      BY <3>1, <3>2, <3>3, <3>4 DEF TypeOK
  <2>2. DescriptorInv'
    BY SMTT(40) DEF TypeOK, DescriptorInv, MutexInv, Accepted
  <2>3. MutexInv'
    BY SMTT(40) DEF TypeOK, DescriptorInv, MutexInv
  <2>4. InterestInv'
    <3>1. /\ \A d \in Conns \ {c} : Remaining(d)' = Remaining(d)
          /\ Remaining(c)' = 0
      BY <2>0, ClearedQueue
    <3>4. /\ ~writeInterest'[c] /\ fd'[c] = NoFd
          /\ \A d \in Conns \ {c} : writeInterest'[d] = writeInterest[d] /\ fd'[d] = fd[d]
      BY <2>0 DEF TypeOK
    <3>5. \A d \in Conns \ {c}, g \in Fds : fd[d] = g => conn[g] = d /\ g # reactorAt.fd
      BY <2>0 DEF DescriptorInv, MutexInv
    <3>2. reactorAt' = [step |-> "poll", fd |-> NoFd]
      OBVIOUS
    <3>3. InterestMatchesEpoll'
      BY <2>0, <3>2, <3>4 DEF InterestInv, InterestMatchesEpoll, Closing, TypeOK
    <3> QED
      BY <2>0, <3>1, <3>2, <3>3, <3>4, <3>5 DEF InterestInv, TypeOK
  <2> QED
    BY <2>1, <2>2, <2>3, <2>4
<1>15. ASSUME NEW c \in Conns, PeerReads(c)
     PROVE  IInv'
  <2> USE <1>15 DEF PeerReads
  <2>1. TypeOK'
    <3>1. room' \in [Conns -> Nat]
      BY DEF TypeOK
    <3> QED
      BY <3>1 DEF TypeOK
  <2>2. DescriptorInv'
    BY DEF TypeOK, DescriptorInv, MutexInv, Accepted
  <2>3. MutexInv'
    BY DEF TypeOK, DescriptorInv, MutexInv
  <2>4. InterestInv'
    BY DEF TypeOK, MutexInv, InterestInv, InterestMatchesEpoll, Remaining, Closing
  <2> QED
    BY <2>1, <2>2, <2>3, <2>4
<1>16. ASSUME NEW c \in Conns, PeerShutdown(c)
     PROVE  IInv'
  <2> USE <1>16 DEF PeerShutdown
  <2>1. TypeOK'
    BY DEF TypeOK, Registration, ReactorStep
  <2>2. DescriptorInv'
    BY DEF TypeOK, DescriptorInv, MutexInv, Accepted
  <2>3. MutexInv'
    BY DEF TypeOK, DescriptorInv, MutexInv
  <2>4. InterestInv'
    BY DEF TypeOK, MutexInv, InterestInv, InterestMatchesEpoll, Remaining, Closing
  <2> QED
    BY <2>1, <2>2, <2>3, <2>4
<1>17. ASSUME NEW c \in Conns, PeerReset(c)
     PROVE  IInv'
  <2> USE <1>17 DEF PeerReset
  <2>1. TypeOK'
    BY DEF TypeOK, Registration, ReactorStep
  <2>2. DescriptorInv'
    BY DEF TypeOK, DescriptorInv, MutexInv, Accepted
  <2>3. MutexInv'
    BY DEF TypeOK, DescriptorInv, MutexInv
  <2>4. InterestInv'
    BY DEF TypeOK, MutexInv, InterestInv, InterestMatchesEpoll, Remaining, Closing
  <2> QED
    BY <2>1, <2>2, <2>3, <2>4
<1>18. CASE UNCHANGED vars
  BY <1>18 DEF vars, TypeOK, DescriptorInv, MutexInv, InterestInv,
                InterestMatchesEpoll, Remaining, Closing, Accepted
<1> QED
  BY <1>1, <1>2, <1>3, <1>4, <1>5, <1>6, <1>7, <1>8, <1>9,
     <1>10, <1>11, <1>12, <1>13, <1>14, <1>15, <1>16, <1>17, <1>18
  DEF Next, ReactorNext, PeerNext, SenderNext, Flush

(* Type correctness, with _writeOffset never past the end of _writeBuf, so  *)
(* that the unsigned "size() - offset" of flushOutput does not wrap.        *)
THEOREM TypeCorrect == Spec => []TypeOK
<1>1. IInv => TypeOK
  BY DEF IInv
<1> QED
  BY <1>1, InitIInv, StepIInv, PTL DEF Spec

(* No lost wakeup, for any number of senders: whatever the order in which   *)
(* sendData and flushOutput run, unsent bytes have EPOLLOUT registered.     *)
THEOREM NoLostWakeup == Spec => []PendingIsArmed
<1>1. IInv => PendingIsArmed
  BY DEF IInv, PendingIsArmed, InterestInv, InterestMatchesEpoll, Closing
<1> QED
  BY <1>1, InitIInv, StepIInv, PTL DEF Spec

(* _writeInterest and the epoll registration never drift apart. *)
THEOREM InterestIsExact == Spec => []InterestMatchesEpoll
<1>1. IInv => InterestMatchesEpoll
  BY DEF IInv, InterestInv
<1> QED
  BY <1>1, InitIInv, StepIInv, PTL DEF Spec

(* The callback never reaches the socket of a later connection that was     *)
(* given the same descriptor number.                                        *)
THEOREM CallbackHitsOwnSocket == Spec => []ArmsOwnDescriptor
<1>1. IInv => ArmsOwnDescriptor
  BY DEF IInv, ArmsOwnDescriptor, MutexInv, DescriptorInv, TypeOK
<1> QED
  BY <1>1, InitIInv, StepIInv, PTL DEF Spec
-------------------------------------------------------------------------------
(* The refinement: the bytes on the wire, and after them the bytes in the   *)
(* queue of an open connection, are the frames that were accepted.          *)

(* The n bytes of s that follow the first o are those of the stream that    *)
(* follow the first w.                                                       *)
Continues(s, o, n, w) == \A i \in 1..n : s[o + i] = Channel!Byte(w + i)

Sound(c) ==
  /\ Continues(wire[c], 0, Len(wire[c]), 0)
  /\ ~closed[c] =>
       /\ Len(wire[c]) + Remaining(c) = accepted[c] * FrameLen
       /\ Continues(writeBuf[c], writeOffset[c], Remaining(c), Len(wire[c]))

StreamInv == \A c \in Conns : Sound(c)

(* Byte number k of the frame that comes after n others. *)
LEMMA ByteOf ==
  ASSUME NEW n \in Nat, NEW k \in 1..FrameLen
  PROVE  Channel!Byte(n * FrameLen + k) = <<n + 1, k>>
<1>1. FrameLen \in Nat \ {0} /\ k - 1 \in 0..(FrameLen - 1)
  BY ConnectionAssumption
<1>2. (n * FrameLen + (k - 1)) \div FrameLen = n /\ (n * FrameLen + (k - 1)) % FrameLen = k - 1
  BY <1>1
<1>3. (n * FrameLen + k) - 1 = n * FrameLen + (k - 1)
  BY <1>1
<1> QED
  BY <1>1, <1>2, <1>3 DEF Channel!Byte

(* A connection whose queue and output are as they were. *)
LEMMA SoundStays ==
  ASSUME NEW c \in Conns, Sound(c), wire'[c] = wire[c], accepted'[c] = accepted[c],
         writeBuf'[c] = writeBuf[c], writeOffset'[c] = writeOffset[c], closed'[c] = closed[c]
  PROVE  Sound(c)'
BY DEF Sound, Continues, Remaining, Channel!Byte

LEMMA SoundOthers ==
  ASSUME StreamInv, NEW c \in Conns,
         \A d \in Conns \ {c} :
           /\ wire'[d] = wire[d] /\ accepted'[d] = accepted[d] /\ writeBuf'[d] = writeBuf[d]
           /\ writeOffset'[d] = writeOffset[d] /\ closed'[d] = closed[d],
         Sound(c)'
  PROVE  StreamInv'
BY SoundStays DEF StreamInv

(* A queue that is cleared was empty, or its connection is closed. *)
LEMMA SoundCleared ==
  ASSUME TypeOK, StreamInv, NEW c \in Conns, QueueCleared(c), UNCHANGED <<wire, accepted>>,
         closed' = [closed EXCEPT ![c] = TRUE] \/ (Remaining(c) = 0 /\ closed' = closed)
  PROVE  StreamInv'
<1>1. Remaining(c)' = 0
  BY ClearedQueue
<1>2. Sound(c)
  BY DEF StreamInv
<1>3. CASE closed' = [closed EXCEPT ![c] = TRUE]
  <2>1. closed'[c] /\ \A d \in Conns \ {c} : closed'[d] = closed[d]
    BY <1>3 DEF TypeOK
  <2>2. Sound(c)'
    BY <1>2, <2>1 DEF Sound, Continues, Channel!Byte
  <2> QED
    BY <2>1, <2>2, SoundOthers DEF QueueCleared, TypeOK
<1>4. CASE Remaining(c) = 0 /\ closed' = closed
  <2>1. Sound(c)'
    BY <1>1, <1>2, <1>4 DEF Sound, Continues, Channel!Byte
  <2> QED
    BY <1>4, <2>1, SoundOthers DEF QueueCleared, TypeOK
<1> QED
  BY <1>3, <1>4

LEMMA Shifted ==
  ASSUME NEW l \in Nat, NEW o \in Nat, NEW w \in Nat, NEW k \in Nat
  PROVE  /\ \A i \in Nat : o + i = l + k => w + i = (w + (l - o)) + k
         /\ \A p \in Nat : w + (l - o) = p => w + ((l + k) - o) = p + k
OBVIOUS

(* The sequence x, which goes on where b ends, is put behind b. *)
LEMMA ContinuesLonger ==
  ASSUME NEW b \in Seq(Nat \X Nat), NEW x \in Seq(Nat \X Nat), NEW o \in Nat, NEW w \in Nat,
         o <= Len(b), Continues(b, o, Len(b) - o, w), Continues(x, 0, Len(x), w + (Len(b) - o))
  PROVE  /\ Len(b \o x) = Len(b) + Len(x)
         /\ Continues(b \o x, o, Len(b \o x) - o, w)
<1>1. Len(b) \in Nat /\ Len(x) \in Nat
  BY LenProperties
<1>2. /\ Len(b \o x) = Len(b) + Len(x)
      /\ \A j \in 1..(Len(b) + Len(x)) :
           (b \o x)[j] = IF j <= Len(b) THEN b[j] ELSE x[j - Len(b)]
  BY ConcatProperties
<1>3. ASSUME NEW i \in 1..((Len(b) + Len(x)) - o)
      PROVE  (b \o x)[o + i] = Channel!Byte(w + i)
  <2>1. CASE i <= Len(b) - o
    <3>1. i \in 1..(Len(b) - o) /\ o + i \in 1..(Len(b) + Len(x)) /\ o + i <= Len(b)
      BY <1>1, <2>1
    <3>2. b[o + i] = Channel!Byte(w + i)
      BY <3>1 DEF Continues
    <3> QED
      BY <1>2, <3>1, <3>2
  <2>2. CASE ~(i <= Len(b) - o)
    <3>1. PICK k \in 1..Len(x) : o + i = Len(b) + k
      <4>1. (o + i) - Len(b) \in 1..Len(x) /\ o + i = Len(b) + ((o + i) - Len(b))
        BY <1>1, <2>2
      <4> QED
        BY <4>1
    <3>2. /\ o + i \in 1..(Len(b) + Len(x)) /\ ~(o + i <= Len(b)) /\ (o + i) - Len(b) = k
          /\ 0 + k = k /\ i \in Nat /\ k \in Nat
      BY <1>1, <3>1
    <3>5. w + i = (w + (Len(b) - o)) + k
      <4>1. PICK l \in Nat : l = Len(b)
        BY <1>1
      <4>2. o + i = l + k
        BY <3>1, <4>1
      <4>3. w + i = (w + (l - o)) + k
        BY <3>2, <4>2, Shifted
      <4> QED
        BY <4>1, <4>3
    <3>3. (b \o x)[o + i] = x[k]
      BY <1>2, <3>2
    <3>4. x[0 + k] = Channel!Byte((w + (Len(b) - o)) + k)
      BY DEF Continues
    <3> QED
      BY <3>2, <3>3, <3>4, <3>5
  <2> QED
    BY <2>1, <2>2
<1> QED
  BY <1>2, <1>3 DEF Continues

(* What is left of b when its first n bytes are gone. *)
LEMMA ContinuesLater ==
  ASSUME NEW b, NEW o \in Nat, NEW w \in Nat, NEW r \in Nat, NEW n \in 1..r, Continues(b, o, r, w)
  PROVE  Continues(b, o + n, r - n, w + n)
<1>1. ASSUME NEW i \in 1..(r - n) PROVE b[(o + n) + i] = Channel!Byte((w + n) + i)
  <2>1. n + i \in 1..r /\ o + (n + i) = (o + n) + i /\ w + (n + i) = (w + n) + i
    OBVIOUS
  <2>2. b[o + (n + i)] = Channel!Byte(w + (n + i))
    BY <2>1 DEF Continues
  <2> QED
    BY <2>1, <2>2
<1> QED
  BY <1>1 DEF Continues

(* The first n of the bytes of b after o, by themselves. *)
LEMMA ContinuesTaken ==
  ASSUME NEW b \in Seq(Nat \X Nat), NEW o \in Nat, NEW w \in Nat, o <= Len(b),
         NEW n \in 1..(Len(b) - o), Continues(b, o, Len(b) - o, w)
  PROVE  /\ SubSeq(b, o + 1, o + n) \in Seq(Nat \X Nat) /\ Len(SubSeq(b, o + 1, o + n)) = n
         /\ Continues(SubSeq(b, o + 1, o + n), 0, n, w)
<1>1. Len(b) \in Nat /\ n \in Nat /\ n >= 1 /\ o + n <= Len(b)
  BY LenProperties
<1>2. \A i \in (o + 1)..(o + n) : b[i] \in Nat \X Nat
  <2>1. \A i \in (o + 1)..(o + n) : i \in 1..Len(b)
    BY <1>1
  <2> QED
    BY <2>1, ElementOfSeq
<1>3. o + 1 \in Int /\ o + n \in Int /\ o + 1 <= o + n /\ (o + n) - (o + 1) + 1 = n
  BY <1>1
<1>4. /\ SubSeq(b, o + 1, o + n) \in Seq(Nat \X Nat)
      /\ Len(SubSeq(b, o + 1, o + n)) = (o + n) - (o + 1) + 1
      /\ \A i \in 1..((o + n) - (o + 1) + 1) : SubSeq(b, o + 1, o + n)[i] = b[(o + 1) + i - 1]
  <2> HIDE <1>1
  <2> QED
    BY <1>2, <1>3, SubSeqProperties, SMTT(40)
<1>5. ASSUME NEW k \in 1..n PROVE SubSeq(b, o + 1, o + n)[0 + k] = Channel!Byte(w + k)
  <2>1. k \in 1..(Len(b) - o) /\ (o + 1) + k - 1 = o + k /\ 0 + k = k
    BY <1>1
  <2>2. SubSeq(b, o + 1, o + n)[k] = b[o + k]
    BY <1>3, <1>4, <2>1
  <2>3. b[o + k] = Channel!Byte(w + k)
    BY <2>1 DEF Continues
  <2> QED
    BY <2>1, <2>2, <2>3
<1> QED
  BY <1>3, <1>4, <1>5 DEF Continues

(* A frame is accepted: its bytes are the next of the stream. *)
LEMMA FrameContinues ==
  ASSUME NEW n \in Nat
  PROVE  Continues(Frame(n + 1), 0, FrameLen, n * FrameLen)
<1>1. ASSUME NEW k \in 1..FrameLen PROVE Frame(n + 1)[0 + k] = Channel!Byte(n * FrameLen + k)
  <2>1. 0 + k = k
    BY ConnectionAssumption
  <2> QED
    BY <2>1, ByteOf DEF Frame
<1> QED
  BY <1>1 DEF Continues

LEMMA SoundEnqueued ==
  ASSUME TypeOK, StreamInv, NEW c \in Conns, ~closed[c],
         writeBuf' = [writeBuf EXCEPT ![c] = @ \o Frame(accepted[c] + 1)],
         accepted' = [accepted EXCEPT ![c] = @ + 1],
         UNCHANGED <<writeOffset, wire, closed>>
  PROVE  StreamInv'
<1>1. PICK b \in Seq(Nat \X Nat), o \in Nat, w \in Nat, a \in Nat :
        b = writeBuf[c] /\ o = writeOffset[c] /\ w = Len(wire[c]) /\ a = accepted[c]
  BY QueueType, LenProperties DEF TypeOK
<1>2. PICK x \in Seq(Nat \X Nat) : x = Frame(a + 1) /\ Len(x) = FrameLen
  BY FrameType
<1>3. /\ o <= Len(b) /\ Remaining(c) = Len(b) - o /\ w + (Len(b) - o) = a * FrameLen
      /\ Continues(b, o, Len(b) - o, w) /\ Continues(wire[c], 0, w, 0)
  BY <1>1, QueueType DEF StreamInv, Sound
<1>4. Continues(x, 0, Len(x), w + (Len(b) - o))
  BY <1>2, <1>3, FrameContinues
<1>5. Len(b \o x) = Len(b) + FrameLen /\ Continues(b \o x, o, Len(b \o x) - o, w)
  BY <1>2, <1>3, <1>4, ContinuesLonger
<1>6. w + (Len(b \o x) - o) = (a + 1) * FrameLen
  <2>1. (a + 1) * FrameLen = a * FrameLen + FrameLen
    BY ConnectionAssumption
  <2>2. PICK p \in Nat : p = a * FrameLen
    BY ConnectionAssumption
  <2>3. PICK l \in Nat, f \in Nat : l = Len(b) /\ f = FrameLen
    BY LenProperties, ConnectionAssumption
  <2>4. w + (l - o) = p
    BY <1>3, <2>2, <2>3
  <2>5. w + ((l + f) - o) = p + f
    BY <2>4
  <2> QED
    BY <1>5, <2>1, <2>2, <2>3, <2>5
<1>7. /\ writeBuf'[c] = b \o x /\ accepted'[c] = a + 1
      /\ writeOffset'[c] = o /\ wire'[c] = wire[c] /\ Len(wire'[c]) = w
  BY <1>1, <1>2 DEF TypeOK
<1>8. Sound(c)'
  BY <1>3, <1>5, <1>6, <1>7, ZenonT(60) DEF Sound, Continues, Remaining, Channel!Byte
<1> QED
  BY <1>8, SoundOthers DEF TypeOK

LEMMA SoundSent ==
  ASSUME TypeOK, StreamInv, NEW c \in Conns, ~closed[c], NEW n \in 1..Remaining(c),
         wire' = [wire EXCEPT ![c] =
                    @ \o SubSeq(writeBuf[c], writeOffset[c] + 1, writeOffset[c] + n)],
         writeOffset' = [writeOffset EXCEPT ![c] = @ + n],
         UNCHANGED <<writeBuf, accepted, closed>>
  PROVE  StreamInv' /\ Len(wire'[c]) = Len(wire[c]) + n /\ wire'[c] \in Seq(Nat \X Nat)
<1>1. PICK b \in Seq(Nat \X Nat), v \in Seq(Nat \X Nat), o \in Nat, w \in Nat :
        b = writeBuf[c] /\ v = wire[c] /\ o = writeOffset[c] /\ w = Len(v)
  BY QueueType, LenProperties
<1>2. /\ o <= Len(b) /\ Remaining(c) = Len(b) - o /\ w + (Len(b) - o) = accepted[c] * FrameLen
      /\ Continues(b, o, Len(b) - o, w) /\ Continues(v, 0, w, 0) /\ n \in 1..(Len(b) - o)
  BY <1>1, QueueType DEF StreamInv, Sound
<1>3. /\ Len(b) \in Nat /\ n \in Nat /\ w - 0 = w /\ 0 + w = w /\ 0 <= w
      /\ Len(b) - (o + n) = (Len(b) - o) - n /\ (w + n) - 0 = w + n
      /\ (w + n) + (Len(b) - (o + n)) = w + (Len(b) - o)
  <2>1. Len(b) \in Nat /\ n \in Nat
    BY <1>2, LenProperties
  <2> QED
    BY <2>1
<1>4. PICK x \in Seq(Nat \X Nat) :
        x = SubSeq(b, o + 1, o + n) /\ Len(x) = n /\ Continues(x, 0, n, w)
  BY <1>2, ContinuesTaken
<1>5. Len(v \o x) = w + n /\ Continues(v \o x, 0, w + n, 0)
  <2>1. Continues(v, 0, Len(v) - 0, 0) /\ Continues(x, 0, Len(x), 0 + (Len(v) - 0)) /\ 0 <= Len(v)
    BY <1>1, <1>2, <1>3, <1>4
  <2>2. Len(v \o x) = Len(v) + Len(x) /\ Continues(v \o x, 0, Len(v \o x) - 0, 0)
    BY <2>1, ContinuesLonger
  <2> QED
    BY <1>1, <1>3, <1>4, <2>2
<1>6. Continues(b, o + n, (Len(b) - o) - n, w + n)
  <2>1. Len(b) - o \in Nat
    BY <1>2, <1>3
  <2> QED
    BY <1>2, <2>1, ContinuesLater
<1>7. /\ wire'[c] = v \o x /\ writeOffset'[c] = o + n /\ writeBuf'[c] = b
      /\ accepted'[c] = accepted[c]
  BY <1>1, <1>4 DEF TypeOK
<1>8. Sound(c)'
  <2>1. Remaining(c)' = (Len(b) - o) - n
    BY <1>3, <1>7 DEF Remaining
  <2>2. Len(wire'[c]) = w + n /\ closed'[c] = closed[c]
    BY <1>5, <1>7
  <2>3. Len(wire'[c]) + Remaining(c)' = accepted'[c] * FrameLen
    BY <1>2, <1>3, <1>7, <2>1, <2>2
  <2>4. \A i \in 1..(w + n) : wire'[c][0 + i] = Channel!Byte(0 + i)
    BY <1>5, <1>7 DEF Continues
  <2>5. \A i \in 1..Remaining(c)' :
          writeBuf'[c][writeOffset'[c] + i] = Channel!Byte(Len(wire'[c]) + i)
    BY <1>6, <1>7, <2>1, <2>2 DEF Continues
  <2> QED
    BY <2>2, <2>3, <2>4, <2>5 DEF Sound, Continues, Channel!Byte
<1>9. StreamInv'
  BY <1>8, SoundOthers DEF TypeOK
<1>10. v \o x \in Seq(Nat \X Nat)
  BY ConcatProperties
<1> QED
  BY <1>1, <1>5, <1>7, <1>9, <1>10

(* A sequence of bytes that follow the stream is a beginning of it. *)
LEMMA StreamIs ==
  ASSUME NEW s \in Seq(Nat \X Nat), NEW m \in Nat, Len(s) = m, Continues(s, 0, m, 0)
  PROVE  s = Channel!Stream(m)
<1>1. s = [i \in 1..m |-> s[i]]
  BY LenProperties
<1>2. \A i \in 1..m : s[i] = Channel!Byte(i)
  BY DEF Continues
<1> QED
  BY <1>1, <1>2 DEF Channel!Stream

-------------------------------------------------------------------------------
THEOREM InitStreamInv == Init => StreamInv /\ Channel!Init
<1> SUFFICES ASSUME Init PROVE StreamInv /\ Channel!Init
  OBVIOUS
<1>1. ASSUME NEW c \in Conns PROVE Sound(c)
  <2>1. /\ writeBuf[c] = <<>> /\ writeOffset[c] = 0 /\ wire[c] = <<>> /\ accepted[c] = 0
    BY DEF Init
  <2>2. Len(wire[c]) = 0 /\ Remaining(c) = 0
    BY <2>1, EmptySeq DEF Remaining
  <2>3. Len(wire[c]) + Remaining(c) = accepted[c] * FrameLen
    BY <2>1, <2>2, ConnectionAssumption
  <2>4. \A i \in 1..0 : FALSE
    OBVIOUS
  <2> QED
    BY <2>2, <2>3, <2>4 DEF Sound, Continues
<1>2. Channel!Init
  BY DEF Channel!Init, Init, Accepted
<1> QED
  BY <1>1, <1>2 DEF StreamInv

(* A step that leaves the queue and the output of every connection alone    *)
(* cannot be seen in the channel.                                            *)
LEMMA NothingSent ==
  ASSUME StreamInv, UNCHANGED <<writeBuf, writeOffset, closed, callbackFd, accepted, wire>>
  PROVE  StreamInv' /\ UNCHANGED Channel!vars
<1>1. StreamInv'
  BY SoundStays DEF StreamInv
<1>2. UNCHANGED Channel!vars
  BY DEF Channel!vars, Accepted
<1> QED
  BY <1>1, <1>2

(* The connection in the reactor's hands. *)
LEMMA ReactorsConnection ==
  ASSUME IInv, reactorAt.step # "poll"
  PROVE  LET c == conn[reactorAt.fd] IN
         /\ reactorAt.fd \in Fds /\ c \in Conns /\ fd[c] = reactorAt.fd /\ fd[c] # NoFd
         /\ owner[fd[c]] = c /\ Accepted(c)
         /\ reactorAt.step = "flush" => ~closed[c]
<1>1. reactorAt.fd \in Fds /\ conn[reactorAt.fd] \in Conns
  BY DEF IInv, MutexInv
<1>2. owner[reactorAt.fd] = conn[reactorAt.fd] /\ fd[conn[reactorAt.fd]] = reactorAt.fd
  BY <1>1 DEF IInv, DescriptorInv
<1>3. reactorAt.fd # NoFd
  BY <1>1, ConnectionAssumption
<1>4. reactorAt.step = "flush" => ~closed[conn[reactorAt.fd]]
  BY DEF IInv, MutexInv
<1> QED
  BY <1>1, <1>2, <1>3, <1>4 DEF IInv, DescriptorInv, Accepted

(* A connection is closed. *)
LEMMA ChannelCloses ==
  ASSUME IInv, NEW c \in Conns, Accepted(c), ~closed[c],
         closed' = [closed EXCEPT ![c] = TRUE], UNCHANGED <<callbackFd, accepted, wire>>
  PROVE  Channel!Next
<1>1. closed \in [Conns -> BOOLEAN]
  BY DEF IInv, TypeOK
<1>2. Channel!Close(c)
  BY <1>1 DEF Channel!Close, Accepted
<1> QED
  BY <1>2 DEF Channel!Next

(* Every step of the program is a step of the channel, or none. *)
THEOREM StepImplements ==
  IInv /\ StreamInv /\ [Next]_vars => StreamInv' /\ [Channel!Next]_(Channel!vars)
<1> SUFFICES ASSUME IInv, StreamInv, [Next]_vars
             PROVE  StreamInv' /\ [Channel!Next]_(Channel!vars)
  OBVIOUS
<1>0. TypeOK
  BY DEF IInv
<1> USE DEF object, kernel, history
<1>1. ASSUME NEW c \in Conns, NEW f \in Fds, Accept(c, f)
      PROVE  StreamInv' /\ Channel!Next
  <2>1. StreamInv'
    BY <1>1, SoundStays DEF Accept, StreamInv
  <2>2. f # NoFd /\ ~Accepted(c) /\ ~closed[c]
    BY <1>1, ConnectionAssumption DEF Accept, IInv, DescriptorInv
  <2>3. callbackFd \in [Conns -> Fds \cup {NoFd}]
    BY <1>0 DEF TypeOK
  <2>4. callbackFd' = [callbackFd EXCEPT ![c] = f] /\ UNCHANGED <<closed, accepted, wire>>
    BY <1>1 DEF Accept
  <2>5. Channel!Open(c)
    BY <2>2, <2>3, <2>4 DEF Channel!Open, Accepted
  <2> QED
    BY <2>1, <2>5 DEF Channel!Next
<1>2. ASSUME NEW s \in Senders, NEW c \in Conns, SendData(s, c)
      PROVE  StreamInv' /\ Channel!Next
  <2>1. /\ writeBuf' = [writeBuf EXCEPT ![c] = @ \o Frame(accepted[c] + 1)]
        /\ accepted' = [accepted EXCEPT ![c] = @ + 1]
        /\ UNCHANGED <<writeOffset, wire, closed, callbackFd>>
        /\ ~closed[c] /\ Accepted(c) /\ accepted[c] < MaxFrames
    BY <1>2 DEF SendData
  <2>2. StreamInv'
    <3>1. UNCHANGED <<writeOffset, wire, closed>>
      BY <2>1
    <3> QED
      BY <1>0, <2>1, <3>1, SoundEnqueued
  <2>3. Channel!Enqueue(c)
    BY <2>1 DEF Channel!Enqueue, Accepted
  <2> QED
    BY <2>2, <2>3 DEF Channel!Next
<1>3. ASSUME FlushSend PROVE StreamInv' /\ Channel!Next
  <2>1. PICK c \in Conns : /\ c = conn[reactorAt.fd] /\ owner[fd[c]] = c
                           /\ Accepted(c) /\ ~closed[c]
    <3>1. reactorAt.step = "flush"
      BY <1>3 DEF FlushSend
    <3>2. reactorAt.step # "poll"
      BY <3>1
    <3> QED
      BY <3>1, <3>2, ReactorsConnection
  <2>2. PICK n \in 1..Remaining(c) :
          /\ wire' = [wire EXCEPT ![c] =
                        @ \o SubSeq(writeBuf[c], writeOffset[c] + 1, writeOffset[c] + n)]
          /\ writeOffset' = [writeOffset EXCEPT ![c] = @ + n]
    <3>1. PICK n \in 1..Remaining(c) :
            /\ wire' = [wire EXCEPT ![owner[fd[c]]] =
                          @ \o SubSeq(writeBuf[c], writeOffset[c] + 1, writeOffset[c] + n)]
            /\ writeOffset' = [writeOffset EXCEPT ![c] = @ + n]
      BY <1>3, <2>1 DEF FlushSend
    <3>2. wire' = [wire EXCEPT ![c] =
                     @ \o SubSeq(writeBuf[c], writeOffset[c] + 1, writeOffset[c] + n)]
      BY <2>1, <3>1, Zenon
    <3> QED
      BY <3>1, <3>2
  <2>3. UNCHANGED <<writeBuf, accepted, closed, callbackFd>>
    BY <1>3 DEF FlushSend
  <2>4. StreamInv' /\ Len(wire'[c]) = Len(wire[c]) + n /\ wire'[c] \in Seq(Nat \X Nat)
    <3>1. UNCHANGED <<writeBuf, accepted, closed>>
      BY <2>3
    <3> QED
      BY <1>0, <2>1, <2>2, <3>1, SoundSent
  <2>5. PICK m \in Nat : m = Len(wire'[c])
    BY <2>4, LenProperties
  <2>6. m \in Len(wire[c]) + 1 .. accepted[c] * FrameLen
    <3>1. Len(wire[c]) \in Nat /\ Remaining(c) \in Nat
      BY <1>0, QueueType, LenProperties
    <3>2. PICK p : p = accepted[c] * FrameLen /\ Len(wire[c]) + Remaining(c) = p
      BY <2>1 DEF StreamInv, Sound
    <3> QED
      BY <2>4, <2>5, <3>1, <3>2
  <2>7. wire'[c] = Channel!Stream(m)
    <3>1. \A i \in 1..Len(wire'[c]) : wire'[c][0 + i] = Channel!Byte(0 + i)
      BY <2>4 DEF StreamInv, Sound, Continues, Channel!Byte
    <3>2. PICK s \in Seq(Nat \X Nat) : s = wire'[c]
      BY <2>4
    <3>3. Continues(s, 0, m, 0) /\ Len(s) = m
      BY <2>5, <3>1, <3>2 DEF Continues
    <3> QED
      BY <3>2, <3>3, StreamIs
  <2>8. wire' = [wire EXCEPT ![c] = Channel!Stream(m)]
    <3>1. wire'[c] = wire[c] \o SubSeq(writeBuf[c], writeOffset[c] + 1, writeOffset[c] + n)
      BY <1>0, <2>2 DEF TypeOK
    <3> QED
      BY <2>2, <2>7, <3>1
  <2>9. Channel!Transmit(c)
    BY <2>1, <2>3, <2>6, <2>8 DEF Channel!Transmit, Accepted
  <2> QED
    BY <2>4, <2>9 DEF Channel!Next
<1>4. ASSUME FlushFatal PROVE StreamInv' /\ Channel!Next
  <2>1. PICK c \in Conns : c = conn[reactorAt.fd] /\ Accepted(c) /\ ~closed[c]
    BY <1>4, ReactorsConnection DEF FlushFatal
  <2>2. /\ closed' = [closed EXCEPT ![c] = TRUE] /\ QueueCleared(c)
        /\ UNCHANGED <<callbackFd, accepted, wire>>
    BY <1>4, <2>1 DEF FlushFatal
  <2> QED
    BY <1>0, <2>1, <2>2, SoundCleared, ChannelCloses
<1>5. ASSUME FlushDrained PROVE StreamInv' /\ UNCHANGED Channel!vars
  <2>1. PICK c \in Conns : c = conn[reactorAt.fd]
    BY <1>5, ReactorsConnection DEF FlushDrained
  <2>2. /\ Remaining(c) = 0 /\ QueueCleared(c)
        /\ UNCHANGED <<closed, callbackFd, accepted, wire>>
    BY <1>5, <2>1 DEF FlushDrained
  <2>3. UNCHANGED Channel!vars
    BY <2>2 DEF Channel!vars, Accepted
  <2> QED
    BY <1>0, <2>2, <2>3, SoundCleared
<1>6. ASSUME CloseShut PROVE StreamInv' /\ [Channel!Next]_(Channel!vars)
  <2>1. PICK c \in Conns : c = conn[reactorAt.fd] /\ Accepted(c)
    BY <1>6, ReactorsConnection DEF CloseShut
  <2>2. /\ closed' = [closed EXCEPT ![c] = TRUE] /\ QueueCleared(c)
        /\ UNCHANGED <<callbackFd, accepted, wire>>
    BY <1>6, <2>1 DEF CloseShut
  <2>3. StreamInv'
    BY <1>0, <2>2, SoundCleared
  <2>4. CASE closed[c]
    <3>1. closed' = closed
      BY <1>0, <2>2, <2>4 DEF TypeOK
    <3>2. UNCHANGED Channel!vars
      BY <2>2, <3>1 DEF Channel!vars, Accepted
    <3> QED
      BY <2>3, <3>2
  <2>5. CASE ~closed[c]
    BY <2>1, <2>2, <2>3, <2>5, ChannelCloses
  <2> QED
    BY <2>4, <2>5
<1>7. CASE UNCHANGED <<writeBuf, writeOffset, closed, callbackFd, accepted, wire>>
  BY <1>7, NothingSent
<1>8. ASSUME NEW s \in Senders, SendArm(s)
      PROVE  UNCHANGED <<writeBuf, writeOffset, closed, callbackFd, accepted, wire>>
  BY <1>8 DEF SendArm
<1>9. ASSUME NEW f \in Fds, PollOut(f) \/ PollError(f) \/ PollEof(f) \/ IdleTimeout(f)
      PROVE  UNCHANGED <<writeBuf, writeOffset, closed, callbackFd, accepted, wire>>
  BY <1>9 DEF PollOut, PollError, PollEof, IdleTimeout
<1>10. ASSUME FlushPending \/ FlushDisarm \/ CloseDel
       PROVE  UNCHANGED <<writeBuf, writeOffset, closed, callbackFd, accepted, wire>>
  BY <1>10 DEF FlushPending, FlushDisarm, CloseDel
<1>11. ASSUME NEW c \in Conns, PeerReads(c) \/ PeerShutdown(c) \/ PeerReset(c)
       PROVE  UNCHANGED <<writeBuf, writeOffset, closed, callbackFd, accepted, wire>>
  BY <1>11 DEF PeerReads, PeerShutdown, PeerReset
<1>12. CASE UNCHANGED vars
  BY <1>7, <1>12 DEF vars
<1> QED
  BY <1>1, <1>2, <1>3, <1>4, <1>5, <1>6, <1>7, <1>8, <1>9, <1>10, <1>11, <1>12
  DEF Next, ReactorNext, PeerNext, SenderNext, Flush

(* The connections implement the channel: the peer gets a beginning of the   *)
(* accepted frames, whole and in order, and a closed connection accepts and  *)
(* transmits nothing.                                                        *)
THEOREM Implements == Spec => ImplementsChannel
<1>1. Init => StreamInv /\ Channel!Init
  BY InitStreamInv
<1>2. Init => IInv
  BY InitIInv
<1>3. IInv /\ [Next]_vars => IInv'
  BY StepIInv
<1>4. IInv /\ StreamInv /\ [Next]_vars => StreamInv' /\ [Channel!Next]_(Channel!vars)
  BY StepImplements
<1> QED
  BY <1>1, <1>2, <1>3, <1>4, PTL DEF Spec, ImplementsChannel, Channel!Spec
===============================================================================

------------------------------ MODULE RingBuffer ------------------------------
(***************************************************************************)
(* common/include/common/ring_buffer.h: a circular buffer with blocking,   *)
(* timed and non-blocking operations, two condition variables, clear() and *)
(* close().                                                                *)
(*                                                                         *)
(* Every operation runs in one critical section, notifications included,   *)
(* so each is one step; a thread that has to wait leaves the section and   *)
(* comes back to it when it is notified, at a time-out, or for no reason.  *)
(***************************************************************************)
EXTENDS Naturals, Sequences, FiniteSets

CONSTANTS
  Threads,   (* everyone who uses the buffer *)
  Capacity,  (* _capacity *)
  MaxItems   (* bound: items ever accepted *)

ASSUME RingBufferAssumption ==
  /\ IsFiniteSet(Threads)
  /\ Capacity \in Nat \ {0} /\ MaxItems \in Nat

VARIABLES
  buffer,    (* _buffer: cells 0 to Capacity - 1; 0 is an empty cell *)
  head,      (* _head *)
  tail,      (* _tail *)
  size,      (* _size *)
  closed,    (* _closed *)
  at,        (* where a thread is: outside, before the lock, or in a wait *)
  accepted,  (* history: items accepted; an item is its number *)
  taken      (* history: the items that were popped, in their order *)

bufferVars == <<buffer, head, tail, size, closed, at, accepted, taken>>

Cells == 0..(Capacity - 1)

BufferTypeOK ==
  /\ buffer \in [Cells -> Nat]
  /\ head \in Cells /\ tail \in Cells /\ size \in 0..Capacity
  /\ closed \in BOOLEAN
  /\ at \in [Threads -> {"idle", "push", "notFull", "pop", "notEmpty",
                         "timedPop", "timedNotEmpty"}]
  /\ accepted \in Nat
  /\ taken \in Seq(Nat)

BufferInit ==
  /\ buffer = [i \in Cells |-> 0]
  /\ head = 0 /\ tail = 0 /\ size = 0
  /\ closed = FALSE
  /\ at = [t \in Threads |-> "idle"]
  /\ accepted = 0 /\ taken = <<>>

ThreadsAt(steps) == {t \in Threads : at[t] \in steps}
Poppers == ThreadsAt({"pop", "timedPop"})
PopWaiters == ThreadsAt({"notEmpty", "timedNotEmpty"})
Pushers == ThreadsAt({"push"})
PushWaiters == ThreadsAt({"notFull"})

(* The predicates of the two waits. *)
MayPop == closed \/ size > 0
MayPush == closed \/ size < Capacity

Following(i) == (i + 1) % Capacity

(* Where the wait that thread t is in brings it when it ends. *)
Awake(t) == CASE at[t] = "notFull" -> "push" [] at[t] = "notEmpty" -> "pop"
              [] at[t] = "timedNotEmpty" -> "timedPop"

(* The locations after thread t has moved to step and one of the waiters,   *)
(* or all of them, were notified.                                           *)
WakeNobody(t, step, waiters) == at' = [at EXCEPT ![t] = step] \* mutant
WakeOne(t, step, waiters) ==
  \/ waiters = {} /\ at' = [at EXCEPT ![t] = step]
  \/ \E w \in waiters : at' = [at EXCEPT ![t] = step, ![w] = Awake(w)]

WakeAll(waiters) == at' = [t \in Threads |-> IF t \in waiters THEN Awake(t) ELSE at[t]]

Goes(t, step) == at' = [at EXCEPT ![t] = step]

-------------------------------------------------------------------------------
(* The insertion that push and tryPush share, by thread t. *)
Insert(t) ==
  /\ accepted < MaxItems
  /\ accepted' = accepted + 1
  /\ buffer' = [buffer EXCEPT ![tail] = accepted']
  /\ tail' = Following(tail)
  /\ size' = size + 1
  /\ WakeOne(t, "idle", PopWaiters)
  /\ UNCHANGED <<head, closed, taken>>

(* The removal that the three kinds of pop share. *)
Remove(t) ==
  /\ taken' = Append(taken, buffer[head])
  /\ head' = Following(head)
  /\ size' = size - 1
  /\ WakeOne(t, "idle", PushWaiters)
  /\ UNCHANGED <<buffer, tail, closed, accepted>>

(* push, pop and the timed pop are called: the thread comes to the lock.    *)
Call(t, step) ==
  /\ at[t] = "idle"
  /\ Goes(t, step)
  /\ UNCHANGED <<buffer, head, tail, size, closed, accepted, taken>>

(* push(): wait, give up on a closed buffer, or insert. *)
PushWait(t) ==
  /\ at[t] = "push" /\ ~MayPush
  /\ Goes(t, "notFull")
  /\ UNCHANGED <<buffer, head, tail, size, closed, accepted, taken>>

PushRefused(t) ==
  /\ at[t] = "push" /\ MayPush
  /\ closed
  /\ Goes(t, "idle")
  /\ UNCHANGED <<buffer, head, tail, size, closed, accepted, taken>>

Push(t) == at[t] = "push" /\ MayPush /\ ~closed /\ Insert(t)

(* tryPush(): a refusal changes nothing and is no step. *)
TryPush(t) == at[t] = "idle" /\ ~closed /\ size < Capacity /\ Insert(t)

(* pop(): wait, give up on a buffer that is closed and empty, or remove. *)
PopWait(t) ==
  /\ at[t] = "pop" /\ ~MayPop
  /\ Goes(t, "notEmpty")
  /\ UNCHANGED <<buffer, head, tail, size, closed, accepted, taken>>

PopEmpty(t) ==
  /\ at[t] \in {"pop", "timedPop"} /\ MayPop
  /\ size = 0
  /\ Goes(t, "idle")
  /\ UNCHANGED <<buffer, head, tail, size, closed, accepted, taken>>

Pop(t) == at[t] \in {"pop", "timedPop"} /\ MayPop /\ size # 0 /\ Remove(t)

(* pop(timeoutMs): the same, but the wait ends when the time is over.  The  *)
(* call then takes what there is, or returns false.                         *)
TimedPopWait(t) ==
  /\ at[t] = "timedPop" /\ ~MayPop
  /\ Goes(t, "timedNotEmpty")
  /\ UNCHANGED <<buffer, head, tail, size, closed, accepted, taken>>

TimeOut(t) ==
  /\ at[t] = "timedNotEmpty"
  /\ \/ size # 0 /\ Remove(t)
     \/ /\ size = 0
        /\ Goes(t, "idle")
        /\ UNCHANGED <<buffer, head, tail, size, closed, accepted, taken>>

(* tryPop() *)
TryPop(t) == at[t] = "idle" /\ size # 0 /\ Remove(t)

(* A wait that ends by itself. *)
SpuriousReturn(t) ==
  /\ t \in PopWaiters \cup PushWaiters
  /\ Goes(t, Awake(t))
  /\ UNCHANGED <<buffer, head, tail, size, closed, accepted, taken>>

(* clear() *)
ClearTailKept == \* mutant: _tail is not reset
  /\ head' = 0 /\ size' = 0
  /\ WakeAll(PushWaiters)
  /\ UNCHANGED <<buffer, tail, closed, accepted, taken>>
Clear ==
  /\ head' = 0 /\ tail' = 0 /\ size' = 0
  /\ WakeAll(PushWaiters)
  /\ UNCHANGED <<buffer, closed, accepted, taken>>

(* close() *)
CloseNotEmptyOnly == \* mutant: producers are not woken
  /\ closed' = TRUE
  /\ WakeAll(PopWaiters)
  /\ UNCHANGED <<buffer, head, tail, size, accepted, taken>>
Close ==
  /\ closed' = TRUE
  /\ WakeAll(PopWaiters \cup PushWaiters)
  /\ UNCHANGED <<buffer, head, tail, size, accepted, taken>>

-------------------------------------------------------------------------------
(* What a thread does at the lock. *)
Locked(t) ==
  \/ PushWait(t) \/ PushRefused(t) \/ Push(t)
  \/ PopWait(t) \/ TimedPopWait(t) \/ PopEmpty(t) \/ Pop(t)

BufferNext ==
  \/ \E t \in Threads :
       \/ \E step \in {"push", "pop", "timedPop"} : Call(t, step)
       \/ Locked(t) \/ TryPush(t) \/ TryPop(t) \/ TimeOut(t) \/ SpuriousReturn(t)
  \/ Clear \/ Close

BufferSpec == BufferInit /\ [][BufferNext]_bufferVars

(* A thread that can go on at the lock gets it in the end.  Nobody has to   *)
(* call an operation, and no time-out has to come.                          *)
BufferFairness == \A t \in Threads : WF_bufferVars(Locked(t))

FairBufferSpec == BufferSpec /\ BufferFairness

-------------------------------------------------------------------------------
(* Properties.                                                              *)

(* The items inside, oldest first, read as pop() would find them. *)
Contents == [i \in 1..size |-> buffer[(head + i - 1) % Capacity]]

Fifo == INSTANCE BoundedQueue WITH queue <- Contents

(* The buffer implements a bounded FIFO queue: items come out in the order  *)
(* in which they went in, once each, whatever the threads and wherever the  *)
(* indices have wrapped, and only clear() drops any.                        *)
ImplementsQueue == Fifo!Spec

(* No lost wakeup, on either side: while a consumer waits, every item has a *)
(* consumer of its own on the way to it; while a producer waits, so has     *)
(* every free cell; and nobody waits on a closed buffer.                    *)
NobodyWaitsInVain ==
  /\ PopWaiters # {} => size <= Cardinality(Poppers)
  /\ PushWaiters # {} => Capacity - size <= Cardinality(Pushers)
  /\ closed => PopWaiters = {} /\ PushWaiters = {}

(* close() releases everyone: a push or pop that has begun comes to its end *)
(* once the buffer is closed.  Stopping a stream relies on it.              *)
CloseReleases == \A t \in Threads : (closed /\ at[t] # "idle") ~> (at[t] = "idle")
===============================================================================

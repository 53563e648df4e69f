----------------------------- MODULE BoundedQueue -----------------------------
(***************************************************************************)
(* What a common::RingBuffer promises to the threads around it: a bounded  *)
(* FIFO queue.  Items are numbered in the order in which they were         *)
(* accepted; each leaves once, at the front, or is dropped by clear(), and *)
(* nothing is accepted after close().  Cells, indices, waiting and waking  *)
(* are not visible here.                                                   *)
(***************************************************************************)
EXTENDS Naturals, Sequences

CONSTANTS
  Capacity,  (* how many items fit *)
  MaxItems   (* bound: items ever accepted *)

VARIABLES
  queue,     (* the items inside, oldest first *)
  accepted,  (* how many were accepted so far *)
  taken,     (* the items that were taken out, in their order *)
  closed     (* nothing is accepted any more *)

queueVars == <<queue, accepted, taken, closed>>

Init ==
  /\ queue = <<>> /\ taken = <<>>
  /\ accepted = 0
  /\ closed = FALSE

Put ==
  /\ ~closed
  /\ Len(queue) < Capacity /\ accepted < MaxItems
  /\ accepted' = accepted + 1
  /\ queue' = Append(queue, accepted')
  /\ UNCHANGED <<taken, closed>>

Get ==
  /\ queue # <<>>
  /\ taken' = Append(taken, Head(queue))
  /\ queue' = Tail(queue)
  /\ UNCHANGED <<accepted, closed>>

Clear ==
  /\ queue' = <<>>
  /\ UNCHANGED <<accepted, taken, closed>>

Close ==
  /\ closed' = TRUE
  /\ UNCHANGED <<queue, accepted, taken>>

Next == Put \/ Get \/ Clear \/ Close

Spec == Init /\ [][Next]_queueVars
===============================================================================

---------------------------- MODULE OutputChannel ----------------------------
(***************************************************************************)
(* What a Connection promises to the threads that send through it: the     *)
(* frames accepted by sendData reach the peer as one byte stream, whole,   *)
(* in the order in which they were accepted, without loss, repetition or   *)
(* interleaving, until the connection is closed; after that nothing is     *)
(* accepted and nothing is transmitted.  How the bytes are buffered, when  *)
(* the reactor is woken and which descriptor carries them is not visible   *)
(* here.                                                                   *)
(***************************************************************************)
EXTENDS Naturals, Sequences

CONSTANTS
  Conns,      (* the connections *)
  FrameLen,   (* bytes in a frame *)
  MaxFrames   (* bound: frames accepted by one connection *)

VARIABLES
  status,     (* "new", "open" or "closed", per connection *)
  accepted,   (* number of frames accepted so far *)
  wire        (* the bytes handed to the peer so far *)

vars == <<status, accepted, wire>>

(* Byte number i of the stream: which frame it belongs to, and where in it. *)
Byte(i) == <<((i - 1) \div FrameLen) + 1, ((i - 1) % FrameLen) + 1>>

(* The first n bytes of the stream. *)
Stream(n) == [i \in 1..n |-> Byte(i)]

Init ==
  /\ status = [c \in Conns |-> "new"]
  /\ accepted = [c \in Conns |-> 0]
  /\ wire = [c \in Conns |-> <<>>]

Open(c) ==
  /\ status[c] = "new"
  /\ status' = [status EXCEPT ![c] = "open"]
  /\ UNCHANGED <<accepted, wire>>

Enqueue(c) ==
  /\ status[c] = "open"
  /\ accepted[c] < MaxFrames
  /\ accepted' = [accepted EXCEPT ![c] = @ + 1]
  /\ UNCHANGED <<status, wire>>

Transmit(c) ==
  /\ status[c] = "open"
  /\ \E n \in Len(wire[c]) + 1 .. accepted[c] * FrameLen :
       wire' = [wire EXCEPT ![c] = Stream(n)]
  /\ UNCHANGED <<status, accepted>>

Close(c) ==
  /\ status[c] = "open"
  /\ status' = [status EXCEPT ![c] = "closed"]
  /\ UNCHANGED <<accepted, wire>>

Next == \E c \in Conns : Open(c) \/ Enqueue(c) \/ Transmit(c) \/ Close(c)

Spec == Init /\ [][Next]_vars
==============================================================================

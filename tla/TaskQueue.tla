------------------------------ MODULE TaskQueue -------------------------------
(***************************************************************************)
(* What the reactor may rely on when it hands work to the thread pool      *)
(* (server/src/thread_pool.cc): a bounded queue that starts tasks in the   *)
(* order it accepted them, runs each of them once, at most Parallel at a   *)
(* time, refuses a task only when it is full or shut, and loses none when  *)
(* it is shut.  How threads sleep and are woken is not visible here.       *)
(***************************************************************************)
EXTENDS Naturals, Sequences, FiniteSets

CONSTANTS
  Tasks,      (* everything that may be submitted, each at most once *)
  Parallel,   (* how many tasks may run at the same time *)
  Capacity    (* how many accepted tasks may wait *)

VARIABLES
  pending,    (* accepted and not started, oldest first *)
  running,    (* started and not finished *)
  done,       (* finished *)
  refused,    (* turned away *)
  shut        (* no task is accepted any more *)

queueVars == <<pending, running, done, refused, shut>>

Waiting == {pending[i] : i \in DOMAIN pending}
Known == Waiting \cup running \cup done \cup refused

Init ==
  /\ pending = <<>>
  /\ running = {} /\ done = {} /\ refused = {}
  /\ shut = FALSE

Submit(t) ==
  /\ t \notin Known
  /\ ~shut /\ Len(pending) < Capacity
  /\ pending' = Append(pending, t)
  /\ UNCHANGED <<running, done, refused, shut>>

Refuse(t) ==
  /\ t \notin Known
  /\ shut \/ Len(pending) = Capacity
  /\ refused' = refused \cup {t}
  /\ UNCHANGED <<pending, running, done, shut>>

Start(t) ==
  /\ pending # <<>> /\ t = Head(pending)
  /\ Cardinality(running) < Parallel
  /\ pending' = Tail(pending)
  /\ running' = running \cup {t}
  /\ UNCHANGED <<done, refused, shut>>

Finish(t) ==
  /\ t \in running
  /\ running' = running \ {t}
  /\ done' = done \cup {t}
  /\ UNCHANGED <<pending, refused, shut>>

Shut ==
  /\ ~shut
  /\ shut' = TRUE
  /\ UNCHANGED <<pending, running, done, refused>>

Next ==
  \/ Shut
  \/ \E t \in Tasks : Submit(t) \/ Refuse(t) \/ Start(t) \/ Finish(t)

Spec == Init /\ [][Next]_queueVars
===============================================================================

------------------------------ MODULE ThreadPool ------------------------------
(***************************************************************************)
(* server/src/thread_pool.cc: worker threads that sleep on one condition   *)
(* variable, producers that push and notify, and stop().                   *)
(*                                                                         *)
(* Every critical section of _mtx is one step, since nothing in it blocks  *)
(* and all shared state is touched under it.  notify_one and notify_all    *)
(* come after the mutex is released, so they are steps of their own, and a *)
(* wait may end without a notification.                                    *)
(***************************************************************************)
EXTENDS Naturals, Sequences, FiniteSets

CONSTANTS
  Workers,      (* the threads of _threads *)
  Producers,    (* threads that call addTask *)
  Stoppers,     (* threads that call stop(), the destructor's caller included *)
  Tasks,        (* tasks, each offered at most once *)
  NoTask,
  TaskCapacity  (* _capacity *)

ASSUME ThreadPoolAssumption ==
  /\ IsFiniteSet(Workers) /\ Workers # {}
  /\ IsFiniteSet(Producers)
  /\ NoTask \notin Tasks
  /\ TaskCapacity \in Nat

VARIABLES
  taskQueue,  (* _taskQueue *)
  stopFlag,   (* _stopFlag *)
  workerAt,   (* where a worker is: at the lock, in _cv.wait, in a task, gone *)
  task,       (* the task a worker runs *)
  producerAt, (* where a producer is: outside, or before its notify_one *)
  stopperAt,  (* where a caller of stop() is *)
  done,       (* history: the tasks that were run to their end *)
  refused     (* history: the tasks addTask returned false for *)

vars == <<taskQueue, stopFlag, workerAt, task, producerAt, stopperAt, done, refused>>

TypeOK ==
  /\ taskQueue \in Seq(Tasks)
  /\ stopFlag \in BOOLEAN
  /\ workerAt \in [Workers -> {"lock", "wait", "run", "gone"}]
  /\ task \in [Workers -> Tasks \cup {NoTask}]
  /\ producerAt \in [Producers -> {"idle", "notify"}]
  /\ stopperAt \in [Stoppers -> {"idle", "notify", "join", "joined", "skipped"}]
  /\ done \subseteq Tasks
  /\ refused \subseteq Tasks

Init ==
  /\ taskQueue = <<>>
  /\ stopFlag = FALSE
  /\ workerAt = [w \in Workers |-> "lock"]
  /\ task = [w \in Workers |-> NoTask]
  /\ producerAt = [p \in Producers |-> "idle"]
  /\ stopperAt = [s \in Stoppers |-> "idle"]
  /\ done = {}
  /\ refused = {}

WorkersAt(step) == {w \in Workers : workerAt[w] = step}
NotifiersPending == {p \in Producers : producerAt[p] = "notify"}

Queued == {taskQueue[i] : i \in DOMAIN taskQueue}
Running == {task[w] : w \in WorkersAt("run")}
Offered == Queued \cup Running \cup done \cup refused

WorkerGoes(w, step) == workerAt' = [workerAt EXCEPT ![w] = step]

(* The predicate of _cv.wait. *)
WakeStopForgotten == taskQueue # <<>> \* mutant
WakeCondition == stopFlag \/ taskQueue # <<>>

-------------------------------------------------------------------------------
(* loop(): the worker holds the mutex and the predicate is false.           *)
Wait(w) ==
  /\ workerAt[w] = "lock"
  /\ ~WakeCondition
  /\ WorkerGoes(w, "wait")
  /\ UNCHANGED <<taskQueue, stopFlag, task, producerAt, stopperAt, done, refused>>

(* A wait that ends by itself; the predicate is evaluated again.            *)
SpuriousWakeup(w) ==
  /\ workerAt[w] = "wait"
  /\ WorkerGoes(w, "lock")
  /\ UNCHANGED <<taskQueue, stopFlag, task, producerAt, stopperAt, done, refused>>

(* loop(): the front of the queue is taken; with _stopFlag set as well.     *)
TakeNewest(w) == \* mutant: a stack instead of a queue
  /\ workerAt[w] = "lock" /\ WakeCondition /\ taskQueue # <<>>
  /\ task' = [task EXCEPT ![w] = taskQueue[Len(taskQueue)]]
  /\ taskQueue' = SubSeq(taskQueue, 1, Len(taskQueue) - 1)
  /\ WorkerGoes(w, "run")
  /\ UNCHANGED <<stopFlag, producerAt, stopperAt, done, refused>>
Take(w) ==
  /\ workerAt[w] = "lock"
  /\ WakeCondition /\ taskQueue # <<>>
  /\ task' = [task EXCEPT ![w] = Head(taskQueue)]
  /\ taskQueue' = Tail(taskQueue)
  /\ WorkerGoes(w, "run")
  /\ UNCHANGED <<stopFlag, producerAt, stopperAt, done, refused>>

(* loop(): task() returns; it ran without the mutex.                        *)
Finish(w) ==
  /\ workerAt[w] = "run"
  /\ done' = done \cup {task[w]}
  /\ task' = [task EXCEPT ![w] = NoTask]
  /\ WorkerGoes(w, "lock")
  /\ UNCHANGED <<taskQueue, stopFlag, producerAt, stopperAt, refused>>

(* loop(): stopped and nothing left, the thread returns.                    *)
ExitAtOnce(w) == \* mutant: tasks that wait when stop() is called are dropped
  /\ workerAt[w] = "lock" /\ stopFlag
  /\ WorkerGoes(w, "gone")
  /\ UNCHANGED <<taskQueue, stopFlag, task, producerAt, stopperAt, done, refused>>
Exit(w) ==
  /\ workerAt[w] = "lock"
  /\ stopFlag /\ taskQueue = <<>>
  /\ WorkerGoes(w, "gone")
  /\ UNCHANGED <<taskQueue, stopFlag, task, producerAt, stopperAt, done, refused>>

-------------------------------------------------------------------------------
(* addTask(t) by producer p: refused, or pushed with the notify to come.    *)
AddTaskRefused(p, t) ==
  /\ producerAt[p] = "idle" /\ t \notin Offered
  /\ stopFlag \/ Len(taskQueue) = TaskCapacity
  /\ refused' = refused \cup {t}
  /\ UNCHANGED <<taskQueue, stopFlag, workerAt, task, producerAt, stopperAt, done>>

AddTaskUnsignalled(p, t) == \* mutant: notify only when the queue was empty
  /\ producerAt[p] = "idle" /\ t \notin Offered
  /\ ~stopFlag /\ Len(taskQueue) # TaskCapacity
  /\ taskQueue' = Append(taskQueue, t)
  /\ producerAt' = [producerAt EXCEPT ![p] = IF taskQueue = <<>> THEN "notify" ELSE @]
  /\ UNCHANGED <<stopFlag, workerAt, task, stopperAt, done, refused>>
AddTask(p, t) ==
  /\ producerAt[p] = "idle" /\ t \notin Offered
  /\ ~stopFlag /\ Len(taskQueue) # TaskCapacity
  /\ taskQueue' = Append(taskQueue, t)
  /\ producerAt' = [producerAt EXCEPT ![p] = "notify"]
  /\ UNCHANGED <<stopFlag, workerAt, task, stopperAt, done, refused>>

(* _cv.notify_one(): any one of the sleeping workers, if there is one.      *)
NotifyNobody(p) == \* mutant: the notify is missing
  /\ producerAt[p] = "notify"
  /\ producerAt' = [producerAt EXCEPT ![p] = "idle"]
  /\ UNCHANGED <<taskQueue, stopFlag, workerAt, task, stopperAt, done, refused>>
NotifyOne(p) ==
  /\ producerAt[p] = "notify"
  /\ producerAt' = [producerAt EXCEPT ![p] = "idle"]
  /\ \/ WorkersAt("wait") = {} /\ UNCHANGED workerAt
     \/ \E w \in WorkersAt("wait") : WorkerGoes(w, "lock")
  /\ UNCHANGED <<taskQueue, stopFlag, task, stopperAt, done, refused>>

-------------------------------------------------------------------------------
(* stop(): the first caller raises the flag, any later one returns.         *)
StopFlag(s) ==
  /\ stopperAt[s] = "idle"
  /\ IF stopFlag
     THEN stopperAt' = [stopperAt EXCEPT ![s] = "skipped"] /\ UNCHANGED stopFlag
     ELSE /\ stopperAt' = [stopperAt EXCEPT ![s] = "notify"]
          /\ stopFlag' = TRUE
  /\ UNCHANGED <<taskQueue, workerAt, task, producerAt, done, refused>>

(* _cv.notify_all() *)
NotifyAll(s) ==
  /\ stopperAt[s] = "notify"
  /\ stopperAt' = [stopperAt EXCEPT ![s] = "join"]
  /\ workerAt' = [w \in Workers |-> IF workerAt[w] = "wait" THEN "lock" ELSE workerAt[w]]
  /\ UNCHANGED <<taskQueue, stopFlag, task, producerAt, done, refused>>

(* Every th.join() has returned. *)
Join(s) ==
  /\ stopperAt[s] = "join"
  /\ \A w \in Workers : workerAt[w] = "gone"
  /\ stopperAt' = [stopperAt EXCEPT ![s] = "joined"]
  /\ UNCHANGED <<taskQueue, stopFlag, workerAt, task, producerAt, done, refused>>

-------------------------------------------------------------------------------
WorkerStep(w) == Wait(w) \/ Take(w) \/ Exit(w)
ProducerNext(p) == NotifyOne(p) \/ \E t \in Tasks : AddTask(p, t) \/ AddTaskRefused(p, t)
StopperNext(s) == StopFlag(s) \/ NotifyAll(s) \/ Join(s)

Next ==
  \/ \E w \in Workers : WorkerStep(w) \/ Finish(w) \/ SpuriousWakeup(w)
  \/ \E p \in Producers : ProducerNext(p)
  \/ \E s \in Stoppers : StopperNext(s)

Spec == Init /\ [][Next]_vars

(* A thread that may run does run, and a task returns.  Nobody has to add a *)
(* task or to call stop(), and no wakeup is spurious by duty.               *)
Fairness ==
  /\ \A w \in Workers : WF_vars(WorkerStep(w)) /\ WF_vars(Finish(w))
  /\ \A p \in Producers : WF_vars(NotifyOne(p))
  /\ \A s \in Stoppers : WF_vars(NotifyAll(s) \/ Join(s))

FairSpec == Spec /\ Fairness

-------------------------------------------------------------------------------
(* Properties.                                                              *)

(* No lost wakeup: while a worker sleeps, every waiting task has a worker   *)
(* of its own that is about to look at the queue, or a notify_one that is   *)
(* still to come.  The notification is given after the mutex is released,   *)
(* so it may find nobody asleep, and several may be under way.              *)
WakeupsCoverQueue ==
  WorkersAt("wait") # {} =>
    Len(taskQueue) <= Cardinality(WorkersAt("lock")) + Cardinality(NotifiersPending)

(* No task runs on two workers, and none is run again after it was run.     *)
RunsOnce ==
  /\ \A v, w \in WorkersAt("run") : task[v] = task[w] => v = w
  /\ Running \cap (Queued \cup done \cup refused) = {}
  /\ Queued \cap (done \cup refused) = {} /\ done \cap refused = {}

(* stop() returns to the caller that joined only when every task that was   *)
(* accepted has been run, and every thread is gone: the destructor of the   *)
(* pool then frees nothing that is in use.                                  *)
StopDrains ==
  \A s \in Stoppers : stopperAt[s] = "joined" =>
    /\ taskQueue = <<>>
    /\ \A w \in Workers : workerAt[w] = "gone"
    /\ Offered = done \cup refused

(* The pool implements the bounded queue the reactor relies on.             *)
Queue == INSTANCE TaskQueue WITH
  pending <- taskQueue, running <- Running, shut <- stopFlag,
  Parallel <- Cardinality(Workers), Capacity <- TaskCapacity

ImplementsTaskQueue == Queue!Spec

(* Every accepted task is run in the end, whatever the order of pushes,     *)
(* notifications and sleeps, and also when stop() comes in between.         *)
EventuallyRun == \A t \in Tasks : (t \in Queued) ~> (t \in done)

(* stop() returns: no worker sleeps through the end of the pool.            *)
StopReturns ==
  \A s \in Stoppers : (stopperAt[s] = "notify") ~> (stopperAt[s] = "joined")
===============================================================================

--------------------------- MODULE ThreadPoolProofs ---------------------------
(***************************************************************************)
(* Proofs about ThreadPool, for any finite number of workers and producers,*)
(* any number of tasks and any capacity.  RunsOnce and StopDrains are not  *)
(* inductive by themselves: they need that the queue holds no task twice,  *)
(* that a worker has a task exactly while it runs one, and that a worker   *)
(* leaves only when no task can come any more.                             *)
(***************************************************************************)
EXTENDS ThreadPool, FiniteSetTheorems, TLAPS

QueueDistinct ==
  \A i, j \in 1..Len(taskQueue) : taskQueue[i] = taskQueue[j] => i = j

ControlInv ==
  /\ Len(taskQueue) <= TaskCapacity
  /\ \A w \in Workers : workerAt[w] = "run" <=> task[w] # NoTask
  /\ \A w \in Workers : workerAt[w] = "gone" => stopFlag /\ taskQueue = <<>>
  /\ \A s \in Stoppers : stopperAt[s] = "joined" => \A w \in Workers : workerAt[w] = "gone"

IInv == TypeOK /\ QueueDistinct /\ RunsOnce /\ ControlInv /\ WakeupsCoverQueue

-------------------------------------------------------------------------------
(* Lemmas about the queue and about the sets that are counted.              *)

(* Pushing adds one task at the end. *)
LEMMA Pushed ==
  ASSUME taskQueue \in Seq(Tasks), NEW t \in Tasks, taskQueue' = Append(taskQueue, t)
  PROVE  /\ taskQueue' \in Seq(Tasks)
         /\ Len(taskQueue') = Len(taskQueue) + 1
         /\ Queued' = Queued \cup {t}
         /\ QueueDistinct /\ t \notin Queued => QueueDistinct'
<1>1. /\ taskQueue' \in Seq(Tasks) /\ Len(taskQueue') = Len(taskQueue) + 1
      /\ \A i \in 1..Len(taskQueue) : taskQueue'[i] = taskQueue[i]
      /\ taskQueue'[Len(taskQueue) + 1] = t
  OBVIOUS
<1>2. /\ DOMAIN taskQueue = 1..Len(taskQueue)
      /\ DOMAIN taskQueue' = 1..Len(taskQueue')
      /\ Len(taskQueue) \in Nat
  BY <1>1
<1>3. Queued' = Queued \cup {t}
  BY <1>1, <1>2 DEF Queued
<1>4. QueueDistinct /\ t \notin Queued => QueueDistinct'
  BY <1>1, <1>2 DEF Queued, QueueDistinct
<1> QED
  BY <1>1, <1>3, <1>4

(* Popping takes the oldest task, which is then no longer in the queue. *)
LEMMA Popped ==
  ASSUME taskQueue \in Seq(Tasks), taskQueue # <<>>, taskQueue' = Tail(taskQueue)
  PROVE  /\ taskQueue' \in Seq(Tasks)
         /\ Len(taskQueue') = Len(taskQueue) - 1
         /\ Head(taskQueue) \in Tasks
         /\ Queued = Queued' \cup {Head(taskQueue)}
         /\ QueueDistinct => QueueDistinct' /\ Head(taskQueue) \notin Queued'
<1>1. /\ taskQueue' \in Seq(Tasks) /\ Len(taskQueue') = Len(taskQueue) - 1
      /\ Len(taskQueue) \in Nat /\ Len(taskQueue) > 0
      /\ \A i \in 1..Len(taskQueue') : taskQueue'[i] = taskQueue[i + 1]
      /\ Head(taskQueue) = taskQueue[1] /\ Head(taskQueue) \in Tasks
  OBVIOUS
<1>2. /\ DOMAIN taskQueue = 1..Len(taskQueue)
      /\ DOMAIN taskQueue' = 1..Len(taskQueue')
      /\ \A i \in 1..Len(taskQueue') : i + 1 \in 1..Len(taskQueue) /\ i + 1 # 1
      /\ \A i \in 1..Len(taskQueue) : i # 1 => i - 1 \in 1..Len(taskQueue')
      /\ \A i \in 1..Len(taskQueue) : (i - 1) + 1 = i
      /\ 1 \in 1..Len(taskQueue)
  BY <1>1
<1>3. Queued' \subseteq Queued /\ Head(taskQueue) \in Queued
  BY <1>1, <1>2 DEF Queued
<1>4. Queued \subseteq Queued' \cup {Head(taskQueue)}
  <2>1. ASSUME NEW i \in 1..Len(taskQueue), i # 1
        PROVE  i - 1 \in 1..Len(taskQueue') /\ taskQueue'[i - 1] = taskQueue[i]
    BY <1>1, <1>2, <2>1
  <2>2. ASSUME NEW i \in 1..Len(taskQueue)
        PROVE  taskQueue[i] \in Queued' \cup {Head(taskQueue)}
    <3>1. CASE i = 1
      BY <1>1, <3>1
    <3>2. CASE i # 1
      BY <1>2, <2>1, <3>2 DEF Queued
    <3> QED
      BY <3>1, <3>2
  <2> QED
    BY <1>2, <2>2 DEF Queued
<1>5. QueueDistinct => QueueDistinct'
  BY <1>1, <1>2 DEF QueueDistinct
<1>6. QueueDistinct => Head(taskQueue) \notin Queued'
  BY <1>1, <1>2 DEF QueueDistinct, Queued
<1> QED
  BY <1>1, <1>3, <1>4, <1>5, <1>6

LEMMA QueuedTasks ==
  ASSUME taskQueue \in Seq(Tasks)
  PROVE  Queued \subseteq Tasks /\ Len(taskQueue) \in Nat /\ (taskQueue = <<>> => Queued = {})
BY DEF Queued

(* A worker that goes to another step moves from one set to the other. *)
LEMMA WorkerMoved ==
  ASSUME TypeOK, NEW w \in Workers, NEW step, WorkerGoes(w, step)
  PROVE  /\ WorkersAt(step)' = WorkersAt(step) \cup {w}
         /\ \A s : s # step => WorkersAt(s)' = WorkersAt(s) \ {w}
         /\ workerAt'[w] = step
         /\ \A v \in Workers : v # w => workerAt'[v] = workerAt[v]
BY DEF WorkerGoes, WorkersAt, TypeOK

LEMMA Counted ==
  /\ \A s : IsFiniteSet(WorkersAt(s)) /\ Cardinality(WorkersAt(s)) \in Nat
  /\ IsFiniteSet(NotifiersPending) /\ Cardinality(NotifiersPending) \in Nat
<1>1. ASSUME NEW s
      PROVE  IsFiniteSet(WorkersAt(s)) /\ Cardinality(WorkersAt(s)) \in Nat
  <2>1. WorkersAt(s) \in SUBSET Workers
    BY DEF WorkersAt
  <2> QED
    BY <2>1, ThreadPoolAssumption, FS_Subset, FS_CardinalityType
<1>2. NotifiersPending \in SUBSET Producers
  BY DEF NotifiersPending
<1> QED
  BY <1>1, <1>2, ThreadPoolAssumption, FS_Subset, FS_CardinalityType

LEMMA CountedNext ==
  /\ Cardinality(WorkersAt("lock")') \in Nat
  /\ Cardinality(NotifiersPending') \in Nat
<1>1. WorkersAt("lock")' \in SUBSET Workers /\ NotifiersPending' \in SUBSET Producers
  BY DEF WorkersAt, NotifiersPending
<1> QED
  BY <1>1, ThreadPoolAssumption, FS_Subset, FS_CardinalityType

(* One worker more at the lock, nobody else moves. *)
LEMMA LockGrows ==
  ASSUME TypeOK, NEW w \in Workers, workerAt[w] # "lock", WorkerGoes(w, "lock")
  PROVE  /\ Cardinality(WorkersAt("lock")') = Cardinality(WorkersAt("lock")) + 1
         /\ WorkersAt("wait")' \subseteq WorkersAt("wait")
<1>1. w \notin WorkersAt("lock")
  BY DEF WorkersAt
<1>2. Cardinality(WorkersAt("lock") \cup {w}) = Cardinality(WorkersAt("lock")) + 1
  BY <1>1, Counted, FS_AddElement
<1> QED
  BY <1>2, WorkerMoved

(* A worker leaves the lock for a step other than the wait. *)
LEMMA LockShrinks ==
  ASSUME TypeOK, NEW w \in Workers, workerAt[w] = "lock",
         NEW step \in {"run", "gone"}, WorkerGoes(w, step)
  PROVE  /\ Cardinality(WorkersAt("lock")') = Cardinality(WorkersAt("lock")) - 1
         /\ WorkersAt("wait")' = WorkersAt("wait")
<1>1. w \in WorkersAt("lock") /\ w \notin WorkersAt("wait")
  BY DEF WorkersAt
<1>2. Cardinality(WorkersAt("lock") \ {w}) = Cardinality(WorkersAt("lock")) - 1
  BY <1>1, Counted, FS_RemoveElement
<1>3. \A s : s # step => WorkersAt(s)' = WorkersAt(s) \ {w}
  BY WorkerMoved
<1>4. WorkersAt("lock")' = WorkersAt("lock") \ {w} /\ WorkersAt("wait")' = WorkersAt("wait") \ {w}
  BY <1>3
<1> QED
  BY <1>1, <1>2, <1>4

-------------------------------------------------------------------------------
THEOREM InitIInv == Init => IInv
<1> SUFFICES ASSUME Init PROVE IInv
  OBVIOUS
<1>1. TypeOK
  <2>1. <<>> \in Seq(Tasks)
    OBVIOUS
  <2> QED
    BY <2>1 DEF Init, TypeOK
<1>2. Queued = {} /\ Running = {} /\ WorkersAt("wait") = {}
  BY DEF Init, Queued, Running, WorkersAt
<1>3. QueueDistinct /\ RunsOnce /\ WakeupsCoverQueue
  BY <1>2 DEF Init, QueueDistinct, RunsOnce, WakeupsCoverQueue, WorkersAt
<1>4. ControlInv
  BY ThreadPoolAssumption DEF Init, ControlInv
<1> QED
  BY <1>1, <1>3, <1>4 DEF IInv

THEOREM StepIInv == IInv /\ [Next]_vars => IInv'
<1> SUFFICES ASSUME IInv, [Next]_vars PROVE IInv'
  OBVIOUS
<1> USE DEF IInv
<1>1. ASSUME NEW w \in Workers, Wait(w) PROVE IInv'
  <2> USE <1>1 DEF Wait
  <2>1. TypeOK' BY DEF TypeOK, WorkerGoes
  <2>2. WorkersAt("run")' = WorkersAt("run") /\ workerAt'[w] = "wait"
        /\ \A v \in Workers : v # w => workerAt'[v] = workerAt[v]
    BY WorkerMoved DEF WorkersAt
  <2>3. QueueDistinct' /\ RunsOnce'
    BY <2>2 DEF QueueDistinct, RunsOnce, Queued, Running
  <2>4. ControlInv'
    BY <2>2 DEF ControlInv
  <2>5. WakeupsCoverQueue'
    <3>1. Len(taskQueue') = 0
      BY DEF WakeCondition
    <3>2. /\ Cardinality(WorkersAt("lock")') \in Nat
          /\ Cardinality(NotifiersPending') \in Nat
      BY CountedNext
    <3> QED
      BY <3>1, <3>2 DEF WakeupsCoverQueue
  <2> QED
    BY <2>1, <2>3, <2>4, <2>5
<1>2. ASSUME NEW w \in Workers, SpuriousWakeup(w) PROVE IInv'
  <2> USE <1>2 DEF SpuriousWakeup
  <2>1. TypeOK' BY DEF TypeOK, WorkerGoes
  <2>2. WorkersAt("run")' = WorkersAt("run") /\ workerAt'[w] = "lock"
        /\ \A v \in Workers : v # w => workerAt'[v] = workerAt[v]
    BY WorkerMoved DEF WorkersAt
  <2>3. QueueDistinct' /\ RunsOnce'
    BY <2>2 DEF QueueDistinct, RunsOnce, Queued, Running
  <2>4. ControlInv'
    BY <2>2 DEF ControlInv
  <2>5. WakeupsCoverQueue'
    BY LockGrows, Counted, QueuedTasks DEF WakeupsCoverQueue, NotifiersPending, TypeOK
  <2> QED
    BY <2>1, <2>3, <2>4, <2>5
<1>3. ASSUME NEW w \in Workers, Take(w) PROVE IInv'
  <2> USE <1>3 DEF Take
  <2> DEFINE t == Head(taskQueue)
  <2>1. /\ taskQueue' \in Seq(Tasks) /\ Len(taskQueue') = Len(taskQueue) - 1
        /\ t \in Tasks /\ Queued = Queued' \cup {t}
        /\ QueueDistinct' /\ t \notin Queued'
    BY Popped DEF TypeOK
  <2>2. /\ WorkersAt("run")' = WorkersAt("run") \cup {w} /\ workerAt'[w] = "run"
        /\ \A v \in Workers : v # w => workerAt'[v] = workerAt[v]
        /\ w \notin WorkersAt("run")
    BY WorkerMoved DEF WorkersAt
  <2>3. /\ task'[w] = t /\ \A v \in Workers : v # w => task'[v] = task[v]
    BY DEF TypeOK
  <2>4. Running' = Running \cup {t}
    BY <2>2, <2>3 DEF Running, WorkersAt
  <2>5. TypeOK'
    BY <2>1 DEF TypeOK, WorkerGoes
  <2>6. RunsOnce'
    <3>1. t \notin Running \cup done \cup refused
      BY <2>1 DEF RunsOnce
    <3>2. \A v \in WorkersAt("run") : task'[v] = task[v] /\ task[v] # t
      BY <2>2, <2>3, <3>1 DEF Running, WorkersAt
    <3>3. \A u, v \in WorkersAt("run")' : task'[u] = task'[v] => u = v
      BY <2>2, <2>3, <3>2 DEF RunsOnce
    <3>4. /\ Running' \cap (Queued' \cup done' \cup refused') = {}
          /\ Queued' \cap (done' \cup refused') = {} /\ done' \cap refused' = {}
      BY <2>1, <2>4, <3>1 DEF RunsOnce
    <3> QED
      BY <3>3, <3>4 DEF RunsOnce
  <2>7. ControlInv'
    <3>1. t # NoTask
      BY <2>1, ThreadPoolAssumption
    <3>2. Len(taskQueue') <= TaskCapacity
      BY <2>1, ThreadPoolAssumption, QueuedTasks DEF ControlInv, TypeOK
    <3>3. \A v \in Workers : workerAt'[v] # "gone"
      BY <2>2 DEF ControlInv
    <3>4. \A s \in Stoppers : stopperAt[s] # "joined"
      BY DEF ControlInv
    <3>5. \A v \in Workers : workerAt'[v] = "run" <=> task'[v] # NoTask
      BY <2>2, <2>3, <3>1 DEF ControlInv
    <3> QED
      BY <3>2, <3>3, <3>4, <3>5 DEF ControlInv
  <2>8. WakeupsCoverQueue'
    BY <2>1, LockShrinks, Counted, QueuedTasks DEF WakeupsCoverQueue, NotifiersPending, TypeOK
  <2> QED
    BY <2>1, <2>5, <2>6, <2>7, <2>8
<1>4. ASSUME NEW w \in Workers, Finish(w) PROVE IInv'
  <2> USE <1>4 DEF Finish
  <2> DEFINE t == task[w]
  <2>1. t \in Tasks /\ t \in Running
    BY DEF ControlInv, TypeOK, Running, WorkersAt
  <2>2. /\ WorkersAt("run")' = WorkersAt("run") \ {w} /\ workerAt'[w] = "lock"
        /\ \A v \in Workers : v # w => workerAt'[v] = workerAt[v]
        /\ w \in WorkersAt("run")
    BY WorkerMoved DEF WorkersAt
  <2>3. /\ task'[w] = NoTask /\ \A v \in Workers : v # w => task'[v] = task[v]
    BY DEF TypeOK
  <2>4. Running' = Running \ {t}
    <3>1. \A v \in WorkersAt("run")' : v \in WorkersAt("run") /\ v # w
      BY <2>2
    <3>2. \A v \in WorkersAt("run") : v # w => task[v] # t /\ task'[v] = task[v]
      BY <2>2, <2>3 DEF RunsOnce, WorkersAt
    <3>3. Running' \subseteq Running \ {t}
      BY <3>1, <3>2 DEF Running
    <3>4. Running \ {t} \subseteq Running'
      <4>1. ASSUME NEW v \in WorkersAt("run"), task[v] # t
            PROVE  v \in WorkersAt("run")' /\ task'[v] = task[v]
        BY <2>2, <3>2, <4>1
      <4> QED
        BY <4>1 DEF Running
    <3> QED
      BY <3>3, <3>4
  <2>5. TypeOK'
    BY <2>1 DEF TypeOK, WorkerGoes
  <2>6. QueueDistinct' /\ Queued' = Queued
    BY DEF QueueDistinct, Queued
  <2>7. RunsOnce'
    <3>1. \A u, v \in WorkersAt("run")' : task'[u] = task'[v] => u = v
      BY <2>2, <2>3 DEF RunsOnce, WorkersAt
    <3>2. /\ Running' \cap (Queued' \cup done' \cup refused') = {}
          /\ Queued' \cap (done' \cup refused') = {} /\ done' \cap refused' = {}
      BY <2>1, <2>4, <2>6 DEF RunsOnce
    <3> QED
      BY <3>1, <3>2 DEF RunsOnce
  <2>8. ControlInv'
    <3>1. \A v \in Workers : workerAt'[v] = "run" <=> task'[v] # NoTask
      BY <2>2, <2>3 DEF ControlInv
    <3> QED
      BY <2>2, <3>1 DEF ControlInv
  <2>9. WakeupsCoverQueue'
    BY LockGrows, Counted, QueuedTasks DEF WakeupsCoverQueue, NotifiersPending, TypeOK
  <2> QED
    BY <2>5, <2>6, <2>7, <2>8, <2>9
<1>5. ASSUME NEW w \in Workers, Exit(w) PROVE IInv'
  <2> USE <1>5 DEF Exit
  <2>1. TypeOK' BY DEF TypeOK, WorkerGoes
  <2>2. WorkersAt("run")' = WorkersAt("run") /\ workerAt'[w] = "gone"
        /\ \A v \in Workers : v # w => workerAt'[v] = workerAt[v]
    BY WorkerMoved DEF WorkersAt
  <2>3. QueueDistinct' /\ RunsOnce'
    BY <2>2 DEF QueueDistinct, RunsOnce, Queued, Running
  <2>4. ControlInv'
    BY <2>2 DEF ControlInv
  <2>5. WakeupsCoverQueue'
    <3>1. Len(taskQueue') = 0
      OBVIOUS
    <3>2. /\ Cardinality(WorkersAt("lock")') \in Nat
          /\ Cardinality(NotifiersPending') \in Nat
      BY CountedNext
    <3> QED
      BY <3>1, <3>2 DEF WakeupsCoverQueue
  <2> QED
    BY <2>1, <2>3, <2>4, <2>5
<1>6. ASSUME NEW p \in Producers, NEW t \in Tasks, AddTask(p, t) PROVE IInv'
  <2> USE <1>6 DEF AddTask
  <2>1. /\ taskQueue' \in Seq(Tasks) /\ Len(taskQueue') = Len(taskQueue) + 1
        /\ Queued' = Queued \cup {t} /\ QueueDistinct'
    BY Pushed DEF TypeOK, Offered
  <2>2. TypeOK'
    BY <2>1 DEF TypeOK
  <2>3. WorkersAt("run")' = WorkersAt("run") /\ Running' = Running
    BY DEF WorkersAt, Running
  <2>4. RunsOnce'
    BY <2>1, <2>3 DEF RunsOnce, Offered
  <2>5. ControlInv'
    BY <2>1, ThreadPoolAssumption, QueuedTasks DEF ControlInv, TypeOK
  <2>6. WakeupsCoverQueue'
    <3>1. NotifiersPending' = NotifiersPending \cup {p} /\ p \notin NotifiersPending
      BY DEF NotifiersPending, TypeOK
    <3>2. Cardinality(NotifiersPending') = Cardinality(NotifiersPending) + 1
      BY <3>1, Counted, FS_AddElement
    <3>3. \A s : WorkersAt(s)' = WorkersAt(s)
      BY DEF WorkersAt
    <3> QED
      BY <2>1, <3>2, <3>3, Counted, QueuedTasks DEF WakeupsCoverQueue, TypeOK
  <2> QED
    BY <2>1, <2>2, <2>4, <2>5, <2>6
<1>7. ASSUME NEW p \in Producers, NEW t \in Tasks, AddTaskRefused(p, t) PROVE IInv'
  <2> USE <1>7 DEF AddTaskRefused
  <2>1. TypeOK' /\ QueueDistinct' /\ ControlInv' /\ WakeupsCoverQueue'
    BY DEF TypeOK, QueueDistinct, ControlInv, WakeupsCoverQueue, WorkersAt, NotifiersPending
  <2>2. WorkersAt("run")' = WorkersAt("run") /\ Running' = Running /\ Queued' = Queued
    BY DEF WorkersAt, Running, Queued
  <2>3. RunsOnce'
    BY <2>2 DEF RunsOnce, Offered
  <2> QED
    BY <2>1, <2>3
<1>8. ASSUME NEW p \in Producers, NotifyOne(p) PROVE IInv'
  <2> USE <1>8 DEF NotifyOne
  <2>1. NotifiersPending' = NotifiersPending \ {p} /\ p \in NotifiersPending
    BY DEF NotifiersPending, TypeOK
  <2>2. Cardinality(NotifiersPending') = Cardinality(NotifiersPending) - 1
    BY <2>1, Counted, FS_RemoveElement
  <2>3. CASE WorkersAt("wait") = {} /\ UNCHANGED workerAt
    <3>1. WorkersAt("run")' = WorkersAt("run") /\ WorkersAt("wait")' = {}
          /\ Running' = Running /\ Queued' = Queued
      BY <2>3 DEF WorkersAt, Running, Queued
    <3> QED
      BY <2>3, <3>1 DEF TypeOK, QueueDistinct, RunsOnce, ControlInv, WakeupsCoverQueue
  <2>4. ASSUME NEW w \in WorkersAt("wait"), WorkerGoes(w, "lock") PROVE IInv'
    <3>1. w \in Workers /\ workerAt[w] = "wait"
      BY DEF WorkersAt
    <3>2. TypeOK'
      BY <2>4, <3>1 DEF TypeOK, WorkerGoes
    <3>3. WorkersAt("run")' = WorkersAt("run") /\ workerAt'[w] = "lock"
          /\ \A v \in Workers : v # w => workerAt'[v] = workerAt[v]
      BY <2>4, <3>1, WorkerMoved DEF WorkersAt
    <3>4. QueueDistinct' /\ RunsOnce'
      BY <3>3 DEF QueueDistinct, RunsOnce, Queued, Running
    <3>5. ControlInv'
      BY <3>1, <3>3 DEF ControlInv
    <3>6. /\ Cardinality(WorkersAt("lock")') = Cardinality(WorkersAt("lock")) + 1
          /\ WorkersAt("wait")' \subseteq WorkersAt("wait")
      BY <2>4, <3>1, LockGrows
    <3>7. WakeupsCoverQueue'
      BY <2>2, <3>6, Counted, QueuedTasks DEF WakeupsCoverQueue, TypeOK
    <3> QED
      BY <3>2, <3>4, <3>5, <3>7
  <2> QED
    BY <2>3, <2>4
<1>9. ASSUME NEW s \in Stoppers, StopFlag(s) PROVE IInv'
  <2> USE <1>9 DEF StopFlag
  <2>1. TypeOK' /\ QueueDistinct' /\ WakeupsCoverQueue'
    BY DEF TypeOK, QueueDistinct, WakeupsCoverQueue, WorkersAt, NotifiersPending
  <2>2. WorkersAt("run")' = WorkersAt("run") /\ Running' = Running /\ Queued' = Queued
    BY DEF WorkersAt, Running, Queued
  <2>3. RunsOnce'
    BY <2>2 DEF RunsOnce
  <2>4. ControlInv'
    BY DEF ControlInv, TypeOK
  <2> QED
    BY <2>1, <2>3, <2>4
<1>10. ASSUME NEW s \in Stoppers, NotifyAll(s) PROVE IInv'
  <2> USE <1>10 DEF NotifyAll
  <2>1. TypeOK' /\ QueueDistinct'
    BY DEF TypeOK, QueueDistinct
  <2>2. /\ WorkersAt("run")' = WorkersAt("run") /\ WorkersAt("wait")' = {}
        /\ Queued' = Queued
    BY DEF WorkersAt, Queued
  <2>3. Running' = Running
    BY <2>2 DEF Running
  <2>4. RunsOnce' /\ WakeupsCoverQueue'
    BY <2>2, <2>3 DEF RunsOnce, WakeupsCoverQueue
  <2>5. ControlInv'
    BY DEF ControlInv, TypeOK
  <2> QED
    BY <2>1, <2>4, <2>5
<1>11. ASSUME NEW s \in Stoppers, Join(s) PROVE IInv'
  <2> USE <1>11 DEF Join
  <2>1. TypeOK' /\ QueueDistinct' /\ WakeupsCoverQueue'
    BY DEF TypeOK, QueueDistinct, WakeupsCoverQueue, WorkersAt, NotifiersPending
  <2>2. WorkersAt("run")' = WorkersAt("run") /\ Running' = Running /\ Queued' = Queued
    BY DEF WorkersAt, Running, Queued
  <2>3. RunsOnce'
    BY <2>2 DEF RunsOnce
  <2>4. ControlInv'
    BY DEF ControlInv, TypeOK
  <2> QED
    BY <2>1, <2>3, <2>4
<1>12. ASSUME UNCHANGED vars PROVE IInv'
  <2>1. /\ \A s : WorkersAt(s)' = WorkersAt(s)
        /\ NotifiersPending' = NotifiersPending /\ Queued' = Queued
    BY <1>12 DEF vars, WorkersAt, NotifiersPending, Queued
  <2>2. Running' = Running
    BY <1>12, <2>1 DEF vars, Running
  <2> QED
    BY <1>12, <2>1, <2>2 DEF vars, TypeOK, QueueDistinct, RunsOnce, ControlInv, WakeupsCoverQueue
<1> QED
  BY <1>1, <1>2, <1>3, <1>4, <1>5, <1>6, <1>7, <1>8, <1>9, <1>10, <1>11, <1>12
     DEF Next, WorkerStep, ProducerNext, StopperNext

THEOREM Invariance == Spec => []IInv
BY InitIInv, StepIInv, PTL DEF Spec

-------------------------------------------------------------------------------
(* The ranges of the pool's variables; a task that was run or refused is a  *)
(* task, never the absence of one.                                          *)
THEOREM TypeCorrect == Spec => []TypeOK
<1>1. IInv => TypeOK
  BY DEF IInv
<1> QED
  BY <1>1, Invariance, PTL

(* No wakeup is lost, for any number of workers and producers: see          *)
(* WakeupsCoverQueue.                                                       *)
THEOREM NoLostWakeup == Spec => []WakeupsCoverQueue
<1>1. IInv => WakeupsCoverQueue
  BY DEF IInv
<1> QED
  BY <1>1, Invariance, PTL

(* Each task is in one place, and run on one worker: see RunsOnce.          *)
THEOREM EachTaskOnce == Spec => []RunsOnce
<1>1. IInv => RunsOnce
  BY DEF IInv
<1> QED
  BY <1>1, Invariance, PTL

(* stop() returns with every accepted task run: see StopDrains.             *)
THEOREM StopRunsEverything == Spec => []StopDrains
<1>1. IInv /\ Workers # {} => StopDrains
  <2> SUFFICES ASSUME IInv, Workers # {}, NEW s \in Stoppers, stopperAt[s] = "joined"
               PROVE  /\ taskQueue = <<>>
                      /\ \A w \in Workers : workerAt[w] = "gone"
                      /\ Offered = done \cup refused
    BY DEF StopDrains
  <2>1. taskQueue = <<>> /\ \A w \in Workers : workerAt[w] = "gone"
    BY DEF IInv, ControlInv
  <2>2. Running = {} /\ Queued = {}
    BY <2>1 DEF Running, WorkersAt, Queued
  <2> QED
    BY <2>1, <2>2 DEF Offered
<1> QED
  BY <1>1, Invariance, ThreadPoolAssumption, PTL

-------------------------------------------------------------------------------
(* The pool implements the task queue. *)

(* While a worker is at the lock, fewer tasks run than there are workers.   *)
LEMMA SpareWorker ==
  ASSUME TypeOK, NEW w \in Workers, workerAt[w] = "lock"
  PROVE  Cardinality(Running) < Cardinality(Workers)
<1> DEFINE R == WorkersAt("run")
           f == [v \in R |-> task[v]]
<1>1. f \in Surjection(R, Running)
  BY DEF Surjection, Running
<1>2. IsFiniteSet(Running) /\ Cardinality(Running) <= Cardinality(R)
  BY <1>1, Counted, FS_Surjection
<1>3. R \in SUBSET Workers /\ R # Workers
  BY DEF WorkersAt
<1>4. Cardinality(R) <= Cardinality(Workers) /\ Cardinality(R) # Cardinality(Workers)
  BY <1>3, ThreadPoolAssumption, FS_Subset
<1>5. Cardinality(R) \in Nat /\ Cardinality(Workers) \in Nat /\ Cardinality(Running) \in Nat
  BY <1>2, Counted, ThreadPoolAssumption, FS_CardinalityType
<1> QED
  BY <1>2, <1>4, <1>5

(* Every step of the pool is a step of the queue or leaves it alone: see    *)
(* ImplementsTaskQueue.                                                     *)
THEOREM PoolImplementsTaskQueue == Spec => ImplementsTaskQueue
<1>1. Init => Queue!Init
  BY DEF Init, Queue!Init, Running, WorkersAt
<1>2. IInv /\ IInv' /\ [Next]_vars => [Queue!Next]_Queue!queueVars
  <2> SUFFICES ASSUME IInv, IInv', [Next]_vars
               PROVE  [Queue!Next]_Queue!queueVars
    OBVIOUS
  <2> USE DEF IInv
  <2>0. Queue!Known = Offered
    BY DEF Queue!Known, Queue!Waiting, Offered, Queued
  <2>1. ASSUME NEW w \in Workers, Wait(w) \/ SpuriousWakeup(w) \/ Exit(w)
        PROVE  UNCHANGED Queue!queueVars
    <3>1. WorkersAt("run")' = WorkersAt("run") /\ UNCHANGED task
      BY <2>1, WorkerMoved DEF Wait, SpuriousWakeup, Exit, WorkersAt
    <3> QED
      BY <2>1, <3>1 DEF Wait, SpuriousWakeup, Exit, Running, Queue!queueVars
  <2>2. ASSUME NEW w \in Workers, Take(w)
        PROVE  Queue!Start(Head(taskQueue)) /\ Head(taskQueue) \in Tasks
    <3>1. /\ WorkersAt("run")' = WorkersAt("run") \cup {w}
          /\ w \notin WorkersAt("run")
          /\ task'[w] = Head(taskQueue)
          /\ \A v \in Workers : v # w => task'[v] = task[v]
      BY <2>2, WorkerMoved DEF Take, WorkersAt, TypeOK
    <3>2. Running' = Running \cup {Head(taskQueue)}
      BY <3>1 DEF Running, WorkersAt
    <3>3. Head(taskQueue) \in Tasks
      BY <2>2, Popped DEF Take, TypeOK
    <3>4. Cardinality(Running) < Cardinality(Workers)
      BY <2>2, SpareWorker DEF Take
    <3>5. /\ taskQueue # <<>> /\ taskQueue' = Tail(taskQueue)
          /\ UNCHANGED <<done, refused, stopFlag>>
      BY <2>2 DEF Take
    <3>6. Queue!Cardinality(Running) = Cardinality(Running)
      BY DEF Cardinality, Queue!Cardinality
    <3>7. Queue!Start(Head(taskQueue))
      BY <3>2, <3>4, <3>5, <3>6 DEF Queue!Start
    <3> QED
      BY <3>3, <3>7
  <2>3. ASSUME NEW w \in Workers, Finish(w)
        PROVE  Queue!Finish(task[w]) /\ task[w] \in Tasks
    <3>1. task[w] \in Running /\ task[w] \in Tasks
      BY <2>3 DEF Finish, Running, WorkersAt, ControlInv, TypeOK
    <3>2. /\ WorkersAt("run")' = WorkersAt("run") \ {w}
          /\ w \in WorkersAt("run")
          /\ \A v \in WorkersAt("run") : v # w => task'[v] = task[v] /\ task[v] # task[w]
      BY <2>3, WorkerMoved DEF Finish, WorkersAt, TypeOK, RunsOnce
    <3>3. Running' = Running \ {task[w]}
      <4>1. Running' = {task'[v] : v \in WorkersAt("run") \ {w}}
        BY <3>2 DEF Running
      <4>2. Running' = {task[v] : v \in WorkersAt("run") \ {w}}
        BY <3>2, <4>1
      <4> QED
        BY <3>2, <4>2 DEF Running
    <3> QED
      BY <2>3, <3>1, <3>3 DEF Finish, Queue!Finish
  <2>4. ASSUME NEW p \in Producers, NEW t \in Tasks, AddTask(p, t)
        PROVE  Queue!Submit(t)
    <3>1. Len(taskQueue) < TaskCapacity
      BY <2>4, ThreadPoolAssumption, QueuedTasks DEF AddTask, ControlInv, TypeOK
    <3>2. Running' = Running
      BY <2>4 DEF AddTask, Running, WorkersAt
    <3> QED
      BY <2>0, <2>4, <3>1, <3>2 DEF AddTask, Queue!Submit
  <2>5. ASSUME NEW p \in Producers, NEW t \in Tasks, AddTaskRefused(p, t)
        PROVE  Queue!Refuse(t)
    <3>1. Running' = Running
      BY <2>5 DEF AddTaskRefused, Running, WorkersAt
    <3> QED
      BY <2>0, <2>5, <3>1 DEF AddTaskRefused, Queue!Refuse
  <2>6. ASSUME NEW p \in Producers, NotifyOne(p)
        PROVE  UNCHANGED Queue!queueVars
    <3>1. WorkersAt("run")' = WorkersAt("run")
      <4>1. ASSUME NEW w \in WorkersAt("wait"), WorkerGoes(w, "lock")
            PROVE  WorkersAt("run")' = WorkersAt("run")
        BY <4>1, WorkerMoved DEF WorkersAt
      <4> QED
        BY <2>6, <4>1 DEF NotifyOne, WorkersAt
    <3> QED
      BY <2>6, <3>1 DEF NotifyOne, Running, Queue!queueVars
  <2>7. ASSUME NEW s \in Stoppers, StopFlag(s)
        PROVE  Queue!Shut \/ UNCHANGED Queue!queueVars
    <3>1. Running' = Running
      BY <2>7 DEF StopFlag, Running, WorkersAt
    <3> QED
      BY <2>7, <3>1 DEF StopFlag, Queue!Shut, Queue!queueVars
  <2>8. ASSUME NEW s \in Stoppers, NotifyAll(s) \/ Join(s)
        PROVE  UNCHANGED Queue!queueVars
    <3>1. WorkersAt("run")' = WorkersAt("run")
      BY <2>8 DEF NotifyAll, Join, WorkersAt
    <3> QED
      BY <2>8, <3>1 DEF NotifyAll, Join, Running, Queue!queueVars
  <2>9. ASSUME UNCHANGED vars PROVE UNCHANGED Queue!queueVars
    BY <2>9 DEF vars, Running, WorkersAt, Queue!queueVars
  <2> QED
    BY <2>1, <2>2, <2>3, <2>4, <2>5, <2>6, <2>7, <2>8, <2>9
       DEF Next, WorkerStep, ProducerNext, StopperNext, Queue!Next
<1> QED
  BY <1>1, <1>2, Invariance, PTL DEF Spec, ImplementsTaskQueue, Queue!Spec
===============================================================================

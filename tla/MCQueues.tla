------------------------------ MODULE MCQueues --------------------------------
(* Small instances of the two bounded queues that are shared by threads: the *)
(* thread pool's and the ring buffer.  A behaviour uses one and leaves the   *)
(* other as it was created, so that their state spaces add up.  The pool has *)
(* as many tasks as threads, a queue that can be full, and a second caller   *)
(* of stop(); the buffer has three threads, any of which may push or pop,    *)
(* and two cells, so that the indices wrap.                                  *)
EXTENDS ThreadPool, RingBuffer

CONSTANTS w1, w2, w3, p1, p2, s1, s2, t1, t2, t3

MCWorkers == {w1, w2, w3}
MCProducers == {p1, p2}
MCStoppers == {s1, s2}
MCTasks == {t1, t2, t3}
MCThreads == {w1, w2, w3}

VARIABLE part

InPool == part = "pool"
InBuffer == part = "buffer"

PartsInit == part \in {"pool", "buffer"} /\ Init /\ BufferInit

PartsNext ==
  /\ UNCHANGED part
  /\ \/ InPool /\ Next /\ UNCHANGED bufferVars
     \/ InBuffer /\ BufferNext /\ UNCHANGED vars

(* Fairness and BufferFairness, each in its part. *)
PartsFairness ==
  /\ \A w \in Workers : WF_vars(InPool /\ WorkerStep(w)) /\ WF_vars(InPool /\ Finish(w))
  /\ \A p \in Producers : WF_vars(InPool /\ NotifyOne(p))
  /\ \A s \in Stoppers : WF_vars(InPool /\ (NotifyAll(s) \/ Join(s)))
  /\ \A t \in Threads : WF_bufferVars(InBuffer /\ Locked(t))

PartsSpec == PartsInit /\ [][PartsNext]_<<part, vars, bufferVars>> /\ PartsFairness
===============================================================================

---------------------------- MODULE MCThreadPool ----------------------------
(***************************************************************************)
(* The thread pool under names that a module about channels does not have,  *)
(* so that one module can hold the proofs about both.                       *)
(***************************************************************************)
CONSTANTS Workers, Clients, Tasks, InitCapacity, NoTask, Nobody
VARIABLES slots, first, last, running, owner, pc, job, client, fate, missed

Pool == INSTANCE ThreadPool WITH head <- first, tail <- last

ASSUME PoolAssumption == Pool!PoolAssumption

PoolSpec == Pool!FairSpec

(* The growing ring is a queue: no task is lost, duplicated or overtaken,  *)
(* also when it wraps around and grows.                                    *)
PoolImplementsFifo == Pool!ImplementsFifo

(* When thread_pool_wait_completion returns, every task added so far has   *)
(* been taken by a worker.                                                 *)
WaitMeansTaken == Pool!WaitMeansTaken

(* An accepted task is run, unless the pool is destroyed first.            *)
TasksRun == Pool!TasksRun

(* thread_pool_destroy returns, unless its broadcast is missed.            *)
DestroyReturns == Pool!DestroyReturns
=============================================================================

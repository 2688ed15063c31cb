----------------------------- MODULE MCAsyncQueue -----------------------------
(***************************************************************************)
(* The queue of the asynchronous loop under names that modules about        *)
(* channels and the thread pool do not have, so that one module can hold    *)
(* the proofs about all three.                                             *)
(***************************************************************************)
CONSTANTS Adders, Pollers, LoopTasks, Weak, Stalled, Dummy, NoNode
VARIABLES next, oldest, newest, size, dispatched, at, node, seen, seenTail, seenNext, due

Loop == INSTANCE AsyncQueue WITH
  Tasks <- LoopTasks, Null <- NoNode, head <- oldest, tail <- newest, count <- size, pc <- at

ASSUME LoopAssumption == Loop!QueueAssumption

LoopSpec == Loop!FairSpec

(* A poll that returns 0 has not overlooked a task whose add had returned   *)
(* before the poll began: another poll took it.                            *)
EmptyMeansTaken == Loop!EmptyMeansTaken

(* The lock-free list is a queue: no task is lost, duplicated or overtaken, *)
(* whatever compare-and-swaps fail.                                        *)
LoopImplementsFifo == Loop!ImplementsFifo

(* Every task that was linked is given to the thread pool in the end, and   *)
(* every add, and every poll that has taken a task, returns.               *)
TasksDispatched == Loop!TasksDispatched
=============================================================================

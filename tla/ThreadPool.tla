------------------------------ MODULE ThreadPool ------------------------------
(***************************************************************************)
(* The thread pool of the standard library                                 *)
(* (src/std/concurrent/concurrent.c): workers that take tasks from a ring  *)
(* that doubles when it is full, clients that add tasks and wait for the   *)
(* ring to become empty, and one client that destroys the pool.            *)
(*                                                                         *)
(* running is an atomic that destroy stores without the mutex, so every    *)
(* test of it is a step of its own; add_task, which holds the mutex from   *)
(* beginning to end, is one step.                                          *)
(***************************************************************************)
EXTENDS Integers, FiniteSets

CONSTANTS
  Workers,
  Clients,
  Tasks,         (* what is added, each at most once                       *)
  InitCapacity,  (* task_capacity of a new pool (1024)                     *)
  NoTask,        (* a slot that was never written                          *)
  Nobody         (* the mutex is free                                      *)

PoolAssumption ==
  /\ InitCapacity \in Nat \ {0, 1}
  /\ NoTask \notin Tasks
  /\ Nobody \notin Workers
  /\ IsFiniteSet(Workers) /\ IsFiniteSet(Tasks)

VARIABLES
  slots, head, tail,  (* tasks, task_head, task_tail; the capacity is the  *)
                      (* number of slots                                   *)
  running,
  owner,              (* the worker that holds the mutex between its steps *)
  pc,                 (* where each worker is                              *)
  job,                (* the task each worker runs, local to one turn      *)
  client,             (* what each client is doing                         *)
  fate,               (* what became of each task                          *)
  missed              (* history: workers about to wait at the broadcast   *)

ring == <<slots, head, tail>>
vars == <<ring, running, owner, pc, job, client, fate, missed>>

Capacity == Cardinality(DOMAIN slots)
Pending  == (tail - head) % Capacity

In(place) == {w \in Workers : pc[w] = place}

Init ==
  /\ slots = [i \in 0 .. InitCapacity - 1 |-> NoTask]
  /\ head = 0 /\ tail = 0
  /\ running = TRUE
  /\ owner = Nobody
  /\ pc = [w \in Workers |-> "top"]
  /\ job = [w \in Workers |-> NoTask]
  /\ client = [c \in Clients |-> "idle"]
  /\ fate = [t \in Tasks |-> "new"]
  /\ missed = {}

Goto(w, l) == pc' = [pc EXCEPT ![w] = l]

-----------------------------------------------------------------------------
(* thread_pool_worker.                                                     *)

(* while (running)                                                         *)
Top(w) ==
  /\ pc[w] = "top"
  /\ Goto(w, IF running THEN "lock" ELSE "done")
  /\ UNCHANGED <<ring, running, owner, job, client, fate, missed>>

(* mutex_lock, or the reacquisition that ends condition_wait.              *)
AfterLock(w) == "test"

Lock(w) ==
  /\ pc[w] \in {"lock", "woken"}
  /\ owner = Nobody
  /\ owner' = w
  /\ Goto(w, AfterLock(w))
  /\ UNCHANGED <<ring, running, job, client, fate, missed>>

(* while (task_head == task_tail && running)                               *)
RunningIgnored == head = tail   \* fault: a stopped pool waits for tasks
MustWait == head = tail /\ running

Test(w) ==
  /\ pc[w] = "test"
  /\ Goto(w, IF MustWait THEN "wait" ELSE "check")
  /\ UNCHANGED <<ring, running, owner, job, client, fate, missed>>

(* condition_wait releases the mutex and blocks in one step.               *)
Wait(w) ==
  /\ pc[w] = "wait"
  /\ owner' = Nobody
  /\ Goto(w, "blocked")
  /\ UNCHANGED <<ring, running, job, client, fate, missed>>

Spurious(w) ==
  /\ pc[w] = "blocked"
  /\ Goto(w, "woken")
  /\ UNCHANGED <<ring, running, owner, job, client, fate, missed>>

SlotKept(i, cap) == i   \* fault: the index is not advanced
SlotPast(i, cap) == (i + 1) % (cap + 1)   \* fault: one slot too many
NextSlot(i, cap) == (i + 1) % cap

(* if (!running) break; otherwise take the task at the head.               *)
Check(w) ==
  /\ pc[w] = "check"
  /\ owner' = Nobody
  /\ IF running
     THEN /\ job' = [job EXCEPT ![w] = slots[head]]
          /\ head' = NextSlot(head, Capacity)
          /\ Goto(w, "run")
     ELSE Goto(w, "done") /\ UNCHANGED <<job, head>>
  /\ UNCHANGED <<slots, tail, running, client, fate, missed>>

(* task.func(task.arg) has returned, and task goes out of scope.           *)
Run(w) ==
  /\ pc[w] = "run"
  /\ fate' = [fate EXCEPT ![job[w]] = "run"]
  /\ job' = [job EXCEPT ![w] = NoTask]
  /\ Goto(w, "top")
  /\ UNCHANGED <<ring, running, owner, client, missed>>

-----------------------------------------------------------------------------
(* The clients.                                                            *)

Destroying == \E c \in Clients : client[c] \in {"stopped", "joining", "destroyed"}

(* condition_signal wakes one blocked worker, if there is one.             *)
NoSignal == UNCHANGED pc   \* fault: no signal
Signal ==
  IF In("blocked") = {} THEN UNCHANGED pc
  ELSE \E w \in In("blocked") : Goto(w, "woken")

RingFullLate == FALSE   \* fault: never grows
RingFull == NextSlot(tail, Capacity) = head

(* The ring is copied into the beginning of one twice as long.             *)
CopiedInPlace ==   \* fault: copies from the first slot, not from the head
  [i \in 0 .. 2 * Capacity - 1 |-> IF i < Pending THEN slots[i] ELSE NoTask]

Copied ==
  [i \in 0 .. 2 * Capacity - 1 |->
     IF i < Pending THEN slots[(head + i) % Capacity] ELSE NoTask]

(* thread_pool_add_task; a task is lost without notice when the ring must  *)
(* grow and malloc fails.                                                  *)
AddTask(c, t) ==
  /\ client[c] = "idle" /\ ~Destroying
  /\ fate[t] = "new"
  /\ owner = Nobody
  /\ \/ /\ ~RingFull
        /\ slots' = [slots EXCEPT ![tail] = t]
        /\ tail' = NextSlot(tail, Capacity)
        /\ UNCHANGED head
        /\ fate' = [fate EXCEPT ![t] = "added"]
        /\ Signal
     \/ /\ RingFull
        /\ slots' = [Copied EXCEPT ![Pending] = t]
        /\ head' = 0
        /\ tail' = Pending + 1
        /\ fate' = [fate EXCEPT ![t] = "added"]
        /\ Signal
     \/ /\ RingFull
        /\ fate' = [fate EXCEPT ![t] = "lost"]
        /\ UNCHANGED <<ring, pc>>
  /\ UNCHANGED <<running, owner, job, client, missed>>

(* thread_pool_wait_completion polls until the ring is empty.              *)
WaitCompletion(c) ==
  /\ client[c] = "idle" /\ ~Destroying
  /\ client' = [client EXCEPT ![c] = "waiting"]
  /\ UNCHANGED <<ring, running, owner, pc, job, fate, missed>>

WaitReturns(c) ==
  /\ client[c] = "waiting"
  /\ owner = Nobody
  /\ head = tail
  /\ client' = [client EXCEPT ![c] = "idle"]
  /\ UNCHANGED <<ring, running, owner, pc, job, fate, missed>>

(* thread_pool_destroy, when no other client uses the pool.                *)
Stop(c) ==
  /\ \A d \in Clients : client[d] = "idle"
  /\ running' = FALSE
  /\ client' = [client EXCEPT ![c] = "stopped"]
  /\ UNCHANGED <<ring, owner, pc, job, fate, missed>>

Broadcast(c) ==
  /\ client[c] = "stopped"
  /\ client' = [client EXCEPT ![c] = "joining"]
  /\ pc' = [w \in Workers |-> IF pc[w] = "blocked" THEN "woken" ELSE pc[w]]
  /\ missed' = In("wait")
  /\ UNCHANGED <<ring, running, owner, job, fate>>

(* Every worker has been joined.                                           *)
Join(c) ==
  /\ client[c] = "joining"
  /\ \A w \in Workers : pc[w] = "done"
  /\ client' = [client EXCEPT ![c] = "destroyed"]
  /\ UNCHANGED <<ring, running, owner, pc, job, fate, missed>>

Work(w) == Top(w) \/ Lock(w) \/ Test(w) \/ Wait(w) \/ Check(w) \/ Run(w)

Next ==
  \/ \E w \in Workers : Work(w) \/ Spurious(w)
  \/ \E c \in Clients :
       \/ \E t \in Tasks : AddTask(c, t)
       \/ WaitCompletion(c) \/ WaitReturns(c)
       \/ Stop(c) \/ Broadcast(c) \/ Join(c)

Spec == Init /\ [][Next]_vars

(* Tasks return, the mutex is not withheld from a worker for ever, and a   *)
(* destroy under way goes on.  No wait ends spuriously on its own account. *)
FairSpec ==
  /\ Spec
  /\ \A w \in Workers : WF_vars(Work(w)) /\ SF_vars(Lock(w))
  /\ \A c \in Clients : WF_vars(Broadcast(c)) /\ WF_vars(Join(c)) /\ SF_vars(WaitReturns(c))

-----------------------------------------------------------------------------
(* Properties.                                                             *)

TypeOK ==
  /\ slots \in [0 .. Capacity - 1 -> Tasks \union {NoTask}]
  /\ head \in DOMAIN slots
  /\ tail \in DOMAIN slots
  /\ running \in BOOLEAN
  /\ owner \in Workers \union {Nobody}
  /\ pc \in [Workers -> {"top", "lock", "test", "wait", "blocked", "woken", "check", "run", "done"}]
  /\ job \in [Workers -> Tasks \union {NoTask}]
  /\ client \in [Clients -> {"idle", "waiting", "stopped", "joining", "destroyed"}]
  /\ fate \in [Tasks -> {"new", "added", "run", "lost"}]
  /\ missed \subseteq Workers

(* The growing ring is a queue: no task is lost, duplicated or overtaken,  *)
(* also when it wraps around and grows.                                    *)
Queue == INSTANCE BoundedFifo WITH
  Capacity <- Cardinality(Tasks),
  Messages <- Tasks,
  queue <- [i \in 1 .. Pending |-> slots[(head + i - 1) % Capacity]],
  closed <- FALSE
ImplementsFifo == Queue!Spec

(* thread_pool_wait_completion looks at the ring only.  When it returns,   *)
(* the tasks added so far are not all finished, but each of them has been  *)
(* taken: the unfinished ones are in the hands of a worker.                *)
WaitMeansTaken ==
  [][\A c \in Clients : client[c] = "waiting" /\ client'[c] = "idle" =>
       \A t \in Tasks : fate[t] = "added" => \E w \in In("run") : job[w] = t]_vars

(* An accepted task is run, unless the pool is destroyed first.            *)
TasksRun == \A t \in Tasks : fate[t] = "added" ~> fate[t] = "run" \/ Destroying

(* thread_pool_destroy returns, unless its broadcast, made without the     *)
(* mutex, is missed by a worker that has found running set and has not yet *)
(* gone to sleep.                                                          *)
DestroyReturns ==
  \A c \in Clients :
    client[c] = "stopped" ~> client[c] = "destroyed" \/ missed # {}

=============================================================================

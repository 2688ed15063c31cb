------------------------------ MODULE AsyncQueue ------------------------------
(***************************************************************************)
(* The queue of the asynchronous loop (src/std/async/async.c): a linked    *)
(* list with a dummy node at its head, which threads add to and poll with  *)
(* compare-and-swap only.  Each load, CAS and increment is a step, in any  *)
(* interleaving; the memory order of the atomics is taken as sequential.   *)
(*                                                                         *)
(* A task stands for the node allocated for it: nodes are never freed, so  *)
(* an address never comes back.  batch_poll is a sequence of polls; start  *)
(* and stop set a flag that add and poll do not read.                      *)
(***************************************************************************)
EXTENDS Integers, Sequences, FiniteSets

CONSTANTS
  Adders,     (* threads that call light_async_loop_add                    *)
  Pollers,    (* threads that call light_async_loop_poll                   *)
  Tasks,      (* bound: each is added at most once                         *)
  Weak,       (* whether compare_exchange_weak may fail without a cause    *)
  Stalled,    (* threads that may stop anywhere (fairness only)            *)
  Dummy, Null

Threads == Adders \union Pollers

(* Assumed by the modules that instantiate this one.                       *)
QueueAssumption ==
  /\ IsFiniteSet(Tasks)
  /\ Dummy \notin Tasks /\ Null \notin Tasks \union {Dummy}
  /\ Weak \in BOOLEAN
  /\ Stalled \subseteq Threads

Nodes == Tasks \union {Dummy}

VARIABLES
  next,       (* per node: the one after it                                *)
  head,       (* node before the oldest task                               *)
  tail,       (* last node, or the one before while an add is under way    *)
  count,
  dispatched, (* tasks given to the thread pool, in that order             *)
  pc,
  node,       (* locals: the node add links, or poll has taken             *)
  seen,       (* locals: the head or tail that was loaded                  *)
  seenTail,   (* locals of poll                                            *)
  seenNext,
  due         (* history: tasks whose add had returned when poll began     *)

locals == <<node, seen, seenTail, seenNext, due>>
vars == <<next, head, tail, count, dispatched, pc, locals>>

Init ==
  /\ next = [n \in Nodes |-> Null]
  /\ head = Dummy /\ tail = Dummy
  /\ count = 0
  /\ dispatched = << >>
  /\ pc = [t \in Threads |-> "idle"]
  /\ node = [t \in Threads |-> Null]
  /\ seen = [t \in Threads |-> Null]
  /\ seenTail = [t \in Threads |-> Null]
  /\ seenNext = [t \in Threads |-> Null]
  /\ due = [t \in Threads |-> {}]

(* The tasks in the list, oldest first: where the links lead from the head. *)
Listed(s) ==
  /\ \A i \in 1 .. Len(s) : s[i] = next[IF i = 1 THEN head ELSE s[i - 1]]
  /\ next[IF s = << >> THEN head ELSE s[Len(s)]] = Null
Queue == CHOOSE s \in UNION {[1 .. n -> Tasks] : n \in 0 .. Cardinality(Tasks)} : Listed(s)

Queued == {Queue[i] : i \in 1 .. Len(Queue)}

At(t, place) == pc[t] = place
Goto(t, place) == pc' = [pc EXCEPT ![t] = place]

(* A call returns and its locals are gone.                                 *)
Returns(t) ==
  /\ Goto(t, "idle")
  /\ node' = [node EXCEPT ![t] = Null]
  /\ seen' = [seen EXCEPT ![t] = Null]
  /\ seenTail' = [seenTail EXCEPT ![t] = Null]
  /\ seenNext' = [seenNext EXCEPT ![t] = Null]
  /\ due' = [due EXCEPT ![t] = {}]

Retries(t, place) ==
  /\ Goto(t, place)
  /\ UNCHANGED <<next, head, tail, count, dispatched, locals>>

-----------------------------------------------------------------------------
(* light_async_loop_add                                                    *)

Dispatched == {dispatched[i] : i \in 1 .. Len(dispatched)}
Fresh == Tasks \ (Queued \union Dispatched \union {node[t] : t \in Threads})

Add(t) ==
  /\ t \in Adders /\ At(t, "idle")
  /\ \E m \in Fresh : node' = [node EXCEPT ![t] = m]
  /\ Goto(t, "load tail")
  /\ UNCHANGED <<next, head, tail, count, dispatched, seen, seenTail, seenNext, due>>

LoadTail(t) ==
  /\ At(t, "load tail")
  /\ seen' = [seen EXCEPT ![t] = tail]
  /\ Goto(t, "link")
  /\ UNCHANGED <<next, head, tail, count, dispatched, node, seenTail, seenNext, due>>

(* CAS of the link of the node that was last.                              *)
NotAsked(t) == TRUE    \* fault: a plain store instead of the CAS
LastSeen(t) == next[seen[t]] = Null

Link(t) ==
  /\ At(t, "link") /\ LastSeen(t)
  /\ next' = [next EXCEPT ![seen[t]] = node[t]]
  /\ Goto(t, "swing")
  /\ UNCHANGED <<head, tail, count, dispatched, locals>>

LinkFails(t) ==
  /\ At(t, "link") /\ (~LastSeen(t) \/ Weak)
  /\ Retries(t, "help")

(* The helping step: the tail is exchanged for the node it already is.     *)
AddHelps(t) ==
  /\ At(t, "help")
  /\ Retries(t, "load tail")

(* Whether it fails, because a poll was faster or without a cause, or not. *)
TailAsSeen(t) == tail = seen[t]

Swing(t) ==
  /\ At(t, "swing")
  /\ \/ TailAsSeen(t) /\ tail' = node[t]
     \/ (~TailAsSeen(t) \/ Weak) /\ UNCHANGED tail
  /\ Goto(t, "count")
  /\ UNCHANGED <<next, head, count, dispatched, locals>>

Count(t) ==
  /\ At(t, "count")
  /\ count' = count + 1
  /\ Returns(t)
  /\ UNCHANGED <<next, head, tail, dispatched>>

-----------------------------------------------------------------------------
(* light_async_loop_poll                                                   *)

(* The tasks whose add has returned and that no poll has taken.            *)
Added == {m \in Queued : \A t \in Threads : node[t] # m}

Poll(t) ==
  /\ t \in Pollers /\ At(t, "idle")
  /\ due' = [due EXCEPT ![t] = Added]
  /\ Goto(t, "load head")
  /\ UNCHANGED <<next, head, tail, count, dispatched, node, seen, seenTail, seenNext>>

LoadHead(t) ==
  /\ At(t, "load head")
  /\ seen' = [seen EXCEPT ![t] = head]
  /\ seenTail' = [seenTail EXCEPT ![t] = Null]
  /\ seenNext' = [seenNext EXCEPT ![t] = Null]
  /\ Goto(t, "load end")
  /\ UNCHANGED <<next, head, tail, count, dispatched, node, due>>

LoadEnd(t) ==
  /\ At(t, "load end")
  /\ seenTail' = [seenTail EXCEPT ![t] = tail]
  /\ Goto(t, "load next")
  /\ UNCHANGED <<next, head, tail, count, dispatched, node, seen, seenNext, due>>

LoadNext(t) ==
  /\ At(t, "load next")
  /\ seenNext' = [seenNext EXCEPT ![t] = next[seen[t]]]
  /\ Goto(t, "look")
  /\ UNCHANGED <<next, head, tail, count, dispatched, node, seen, seenTail, due>>

HeadMoved(t) ==
  /\ At(t, "look") /\ head # seen[t]
  /\ Retries(t, "load head")

AtTail(t)  == seenTail[t] = seen[t]   \* fault: empty when head and tail meet
NoNext(t)  == seenNext[t] = Null

PollEmpty(t) ==
  /\ At(t, "look") /\ head = seen[t] /\ NoNext(t)
  /\ Returns(t)
  /\ UNCHANGED <<next, head, tail, count, dispatched>>

Never(t)   == FALSE     \* fault: the tail is left behind
Behind(t)  == seenTail[t] = seen[t]

Look(t) ==
  /\ At(t, "look") /\ head = seen[t] /\ ~NoNext(t)
  /\ Retries(t, IF Behind(t) THEN "help tail" ELSE "take")

PollHelps(t) ==
  /\ At(t, "help tail")
  /\ \/ tail = seenTail[t] /\ tail' = seenNext[t]
     \/ (tail # seenTail[t] \/ Weak) /\ UNCHANGED tail
  /\ Goto(t, "load head")
  /\ UNCHANGED <<next, head, count, dispatched, locals>>

Any(t) == TRUE          \* fault: a plain store instead of the CAS
HeadAsSeen(t) == head = seen[t]

Take(t) ==
  /\ At(t, "take") /\ HeadAsSeen(t)
  /\ head' = seenNext[t]
  /\ node' = [node EXCEPT ![t] = seenNext[t]]
  /\ Goto(t, "uncount")
  /\ UNCHANGED <<next, tail, count, dispatched, seen, seenTail, seenNext, due>>

TakeFails(t) ==
  /\ At(t, "take") /\ (~HeadAsSeen(t) \/ Weak)
  /\ Retries(t, "load head")

Uncount(t) ==
  /\ At(t, "uncount")
  /\ count' = count - 1
  /\ Goto(t, "dispatch")
  /\ UNCHANGED <<next, head, tail, dispatched, locals>>

(* thread_pool_add_task                                                    *)
Dispatch(t) ==
  /\ At(t, "dispatch")
  /\ dispatched' = Append(dispatched, node[t])
  /\ Returns(t)
  /\ UNCHANGED <<next, head, tail, count>>

AddStep(t) ==
  \/ LoadTail(t) \/ Link(t) \/ LinkFails(t) \/ AddHelps(t) \/ Swing(t) \/ Count(t)

PollStep(t) ==
  \/ LoadHead(t) \/ LoadEnd(t) \/ LoadNext(t) \/ HeadMoved(t) \/ PollEmpty(t) \/ Look(t)
  \/ PollHelps(t) \/ Take(t) \/ TakeFails(t) \/ Uncount(t) \/ Dispatch(t)

(* The CAS that lets a call come to its end.                               *)
Swaps(t) == Link(t) \/ Take(t) \/ (PollHelps(t) /\ tail' # tail)

Next == \E t \in Threads : Add(t) \/ AddStep(t) \/ Poll(t) \/ PollStep(t)

Spec == Init /\ [][Next]_vars

(* Threads that do not stall go on, poll again when they have nothing to   *)
(* do, and a CAS does not fail without a cause for ever.                   *)
FairSpec ==
  /\ Spec
  /\ \A t \in Threads \ Stalled :
       /\ WF_vars(AddStep(t) \/ Poll(t) \/ PollStep(t))
       /\ SF_vars(Swaps(t))

-----------------------------------------------------------------------------
(* Properties.                                                             *)

Places == {"idle", "load tail", "link", "help", "swing", "count", "load head", "load end",
           "load next", "look", "help tail", "take", "uncount", "dispatch"}

TypeOK ==
  /\ next \in [Nodes -> Tasks \union {Null}]
  /\ head \in Nodes /\ tail \in Nodes
  /\ count \in -Cardinality(Pollers) .. Cardinality(Tasks)
  /\ dispatched \in Seq(Tasks)
  /\ pc \in [Threads -> Places]
  /\ node \in [Threads -> Tasks \union {Null}]
  /\ seen \in [Threads -> Nodes \union {Null}]
  /\ seenTail \in [Threads -> Nodes \union {Null}]
  /\ seenNext \in [Threads -> Tasks \union {Null}]
  /\ due \in [Threads -> SUBSET Tasks]

(* A poll that returns 0 has not overlooked a task whose add had returned  *)
(* before the poll began: another poll took it.                            *)
EmptyMeansTaken ==
  [][\A t \in Threads : PollEmpty(t) => due[t] \intersect Queued = {}]_vars

(* The list is a first-in first-out queue: a task enters it when its node  *)
(* is linked and leaves it when the head moves.                            *)
Fifo == INSTANCE BoundedFifo WITH
  Capacity <- Cardinality(Tasks), Messages <- Tasks, queue <- Queue, closed <- FALSE
ImplementsFifo == Fifo!Spec

(* Every task that was linked is given to the thread pool in the end, and  *)
(* every add, and every poll that has taken a task, returns, although      *)
(* threads overtake each other, links and swings fail and the adders' own  *)
(* helping step does nothing: a poll moves the tail.                       *)
TasksDispatched ==
  /\ \A m \in Tasks : m \in Queued ~> m \in Dispatched
  /\ \A t \in Threads : node[t] # Null ~> node[t] = Null

(* "Lock-free Michael-Scott queue": a thread that stops anywhere does not  *)
(* keep another one from finishing its add.  The code does not keep this:  *)
(* with Stalled = {t1} and Weak = FALSE TLC stops t1 between its two CAS    *)
(* operations, and the helping step at line 82 moves nothing.              *)
LockFreeAdd ==
  \A t \in Threads \ Stalled : pc[t] = "load tail" ~> pc[t] = "idle"

=============================================================================

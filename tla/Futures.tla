------------------------------- MODULE Futures -------------------------------
(***************************************************************************)
(* Promises and futures of std.concurrent (src/std/concurrent/concurrent.c):*)
(* a promise is a result under a mutex with a condition; future_map and     *)
(* future_all are detached threads that wait for futures and set another.   *)
(*                                                                          *)
(* A promise is only touched with its mutex held, except for the test of    *)
(* done in future_all, which never turns back; so the code between two      *)
(* blocking points is one step.                                             *)
(***************************************************************************)
EXTENDS Naturals, Sequences

CONSTANTS
  Inputs,        \* the promises that the program sets, once each
  Mapped, MapOf, \* the outputs of future_map, and the future each maps
  Group, Whole,  \* the futures given to future_all, and its output
  AllWorkers,    \* the threads of future_all, one for every member of the group
  Callers,       \* threads of the program that wait for futures
  Values, Func,  \* what the program sets, and the function that future_map applies
  Null

Promises == Inputs \cup Mapped \cup {Whole}
\* The thread of a map has the name of its output.
Getters == Callers \cup Mapped \cup AllWorkers

VARIABLES
  promise,    \* done, has_error and result of every promise
  get,        \* the call of future_get or future_get_timeout that a thread is in
  completed,  \* indices of the group that have been handed out
  index,      \* the one each worker of the group has
  results     \* the slots of the group

vars == <<promise, get, completed, index, results>>

Places == {"idle", "called", "blocked", "woken", "expired", "got", "ended"}
Idle == [of |-> Null, timed |-> FALSE, at |-> "idle", answer |-> Null]

Results == Values \cup {Func[v] : v \in Values} \cup {Null}

TypeOK ==
  /\ promise \in [Promises -> [done: BOOLEAN, error: BOOLEAN, result: Results \cup {Whole}]]
  /\ get \in [Getters -> [of: Promises \cup {Null}, timed: BOOLEAN, at: Places,
                          answer: Results \cup {Whole}]]
  /\ completed \in 0..Len(Group)
  /\ index \in [AllWorkers -> 0..Len(Group)]
  /\ results \in [DOMAIN Group -> Results]

Init ==
  /\ promise = [p \in Promises |-> [done |-> FALSE, error |-> FALSE, result |-> Null]]
  /\ get = [g \in Getters |-> Idle]
  /\ completed = 0 /\ index = [w \in AllWorkers |-> 0]
  /\ results = [i \in DOMAIN Group |-> Null]
-----------------------------------------------------------------------------
\* future_get and future_get_timeout
Calls(g, p, timed) == [get EXCEPT ![g] = [of |-> p, timed |-> timed, at |-> "called", answer |-> Null]]

Call(c) ==
  /\ get[c].at = "idle"
  /\ \E p \in Promises, timed \in BOOLEAN : get' = Calls(c, p, timed)
  /\ UNCHANGED <<promise, completed, index, results>>

\* A caller may call again, a worker goes on with the answer.
Returned(g, answer) ==
  [get EXCEPT ![g] = IF g \in Callers THEN Idle ELSE [@ EXCEPT !.at = "got", !.answer = answer]]

Test(g) ==
  /\ get[g].at \in {"called", "woken"}
  /\ get' = IF promise[get[g].of].done THEN Returned(g, promise[get[g].of].result)
            ELSE [get EXCEPT ![g].at = "blocked"]
  /\ UNCHANGED <<promise, completed, index, results>>

Expire(g) ==
  /\ get[g].at = "blocked" /\ get[g].timed
  /\ get' = [get EXCEPT ![g].at = "expired"]
  /\ UNCHANGED <<promise, completed, index, results>>

\* The wait timed out: NULL, or the result if it has come by now.
GivesUp(g) ==
  /\ get[g].at = "expired"
  /\ get' = Returned(g, IF promise[get[g].of].done THEN promise[get[g].of].result ELSE Null)
  /\ UNCHANGED <<promise, completed, index, results>>

Spurious(g) ==
  /\ get[g].at = "blocked"
  /\ get' = [get EXCEPT ![g].at = "woken"]
  /\ UNCHANGED <<promise, completed, index, results>>

\* fault: one of the waiting threads is woken.
WakeOne(p) ==
  LET waiting == {g \in Getters : get[g].of = p /\ get[g].at = "blocked"}
  IN IF waiting = {} THEN get
     ELSE [get EXCEPT ![CHOOSE g \in waiting : TRUE].at = "woken"]
Broadcast(p) ==
  [g \in Getters |-> IF get[g].of = p /\ get[g].at = "blocked"
                     THEN [get[g] EXCEPT !.at = "woken"] ELSE get[g]]

\* What promise_set_result does to a promise p that the thread g sets as it ends.
Publish(p, v) == promise' = [promise EXCEPT ![p].done = TRUE, ![p].result = v]
Ends(g, woken) == get' = [woken EXCEPT ![g].at = "ended"]

SetResult(p) ==
  /\ ~promise[p].done
  /\ \E v \in Values : Publish(p, v)
  /\ get' = Broadcast(p)
  /\ UNCHANGED <<completed, index, results>>

SetError(p) ==
  /\ ~promise[p].done
  /\ promise' = [promise EXCEPT ![p].done = TRUE, ![p].error = TRUE]
  /\ get' = Broadcast(p)
  /\ UNCHANGED <<completed, index, results>>

\* future_map starts its thread.
Map(m) ==
  /\ get[m].at = "idle"
  /\ get' = Calls(m, MapOf[m], FALSE)
  /\ UNCHANGED <<promise, completed, index, results>>

\* The result NULL, which a failed input has too, is not mapped.
MapEnds(m) ==
  /\ get[m].at = "got"
  /\ IF get[m].answer = Null THEN Ends(m, get) /\ UNCHANGED promise
     ELSE Publish(m, Func[get[m].answer]) /\ Ends(m, Broadcast(m))
  /\ UNCHANGED <<completed, index, results>>

\* A thread of future_all takes the next index, whichever thread it is.
TakeIndex(w) ==
  /\ get[w].at = "idle"
  /\ completed' = completed + 1
  /\ index' = [index EXCEPT ![w] = completed']
  /\ get' = Calls(w, Group[completed'], FALSE)
  /\ UNCHANGED <<promise, results>>

\* fault: complete when all indices are handed out.
AllTaken == completed = Len(Group)
AllDone == \A i \in DOMAIN Group : promise[Group[i]].done

Collect(w) ==
  /\ get[w].at = "got"
  /\ results' = [results EXCEPT ![index[w]] = get[w].answer]
  /\ IF AllDone THEN Publish(Whole, Whole) /\ Ends(w, Broadcast(Whole))
     ELSE Ends(w, get) /\ UNCHANGED promise
  /\ UNCHANGED <<completed, index>>

Step(g) ==
  \/ Test(g) \/ GivesUp(g)
  \/ g \in Mapped /\ MapEnds(g)
  \/ g \in AllWorkers /\ Collect(g)

Next ==
  \/ \E c \in Callers : Call(c)
  \/ \E g \in Getters : Step(g) \/ Expire(g) \/ Spurious(g)
  \/ \E p \in Inputs : SetResult(p) \/ SetError(p)
  \/ \E m \in Mapped : Map(m)
  \/ \E w \in AllWorkers : TakeIndex(w)

\* A thread that is not blocked goes on; nothing makes the program set a promise,
\* call, or wait no longer.
Fairness == \A g \in Getters : WF_vars(Step(g))

FairSpec == Init /\ [][Next]_vars /\ Fairness
-----------------------------------------------------------------------------
GroupDone == \A i \in DOMAIN Group : promise[Group[i]].done

(***************************************************************************)
(* The output of a map is set after its input, from its result, and the     *)
(* output of future_all after all futures of the group; a slot has nothing  *)
(* but the result of its own future, and is empty only while a thread is on *)
(* its way to it.  (future_map_worker, all_worker.)                         *)
(***************************************************************************)
NothingEarly ==
  /\ \A m \in Mapped : promise[m].done =>
       /\ promise[MapOf[m]].done
       /\ promise[m].result = Func[promise[MapOf[m]].result]
  /\ promise[Whole].done => GroupDone
  /\ \A i \in DOMAIN Group :
       \/ results[i] = promise[Group[i]].result
       \/ results[i] = Null /\ \E w \in AllWorkers : index[w] \in {0, i} /\ get[w].at # "ended"

(***************************************************************************)
(* A thread that waits for a promise that is set returns; a mapped future   *)
(* completes when its input has a result; and when the whole group is done  *)
(* and its threads run, the output of future_all is set and every slot has  *)
(* its result in the end, nothing of it early.  (The broadcasts, and the    *)
(* last worker's test.)                                                     *)
(***************************************************************************)
FuturesComplete ==
  /\ []NothingEarly
  /\ \A g \in Getters : get[g].at \in {"called", "blocked", "woken"} /\ promise[get[g].of].done
       ~> get[g].at \in {"idle", "ended"}
  /\ \A m \in Mapped : get[m].at # "idle" /\ promise[MapOf[m]].result # Null ~> promise[m].done
  /\ GroupDone /\ completed = Len(Group)
       ~> promise[Whole].done /\ \A i \in DOMAIN Group : results[i] = promise[Group[i]].result
=============================================================================

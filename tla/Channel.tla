------------------------------- MODULE Channel -------------------------------
(***************************************************************************)
(* Channels of the standard library (src/std/concurrent/concurrent.c): a   *)
(* ring of messages under one mutex, with a condition for "not full" and   *)
(* one for "not empty".                                                    *)
(*                                                                         *)
(* The ring is only touched with the mutex held, so the code between two   *)
(* blocking points is one step.  A thread inside a call is about to test   *)
(* the loop condition, blocked on the condition, or back from it because   *)
(* it was signalled or because its time is up.                             *)
(***************************************************************************)
EXTENDS Integers, FiniteSets

CONSTANTS
  Threads,
  Messages,
  Capacity,   (* slots of the ring                                         *)
  Null        (* an empty slot                                             *)

ASSUME ChannelAssumption ==
  /\ Capacity \in Nat \ {0}
  /\ Null \notin Messages
  /\ IsFiniteSet(Threads)

VARIABLES
  buffer,     (* the slots, 0 .. Capacity - 1                              *)
  head, tail, count,
  closed,
  call        (* the call each thread is in, and where it is in it         *)

ring == <<buffer, head, tail, count>>
vars == <<ring, closed, call>>

Sends    == {"send", "send_timeout"}
Receives == {"receive", "receive_timeout"}
Timed    == {"send_timeout", "receive_timeout"}
Places   == {"called", "blocked", "woken", "expired"}

Idle == [op |-> "none", at |-> "idle"]

In(ops, place) == {t \in Threads : call[t].op \in ops /\ call[t].at = place}

Init ==
  /\ buffer = [i \in 0 .. Capacity - 1 |-> Null]
  /\ head = 0 /\ tail = 0 /\ count = 0
  /\ closed = FALSE
  /\ call = [t \in Threads |-> Idle]

Call(t) ==
  /\ call[t] = Idle
  /\ \E o \in Sends \union Receives : call' = [call EXCEPT ![t] = [op |-> o, at |-> "called"]]
  /\ UNCHANGED <<ring, closed>>

(* t returns; condition_signal wakes one of the threads blocked in the     *)
(* calls ops, if there is one.                                             *)
Unsignalled(t, ops) ==   \* fault: no signal
  call' = [call EXCEPT ![t] = Idle]

ReturnAndSignal(t, ops) ==
  IF In(ops, "blocked") = {}
  THEN call' = [call EXCEPT ![t] = Idle]
  ELSE \E u \in In(ops, "blocked") : call' = [call EXCEPT ![t] = Idle, ![u].at = "woken"]

FullOffByOne == count > Capacity   \* fault: accepts one message too many
Full == count >= Capacity

SlotKept(i) == i   \* fault: the index is not advanced
NextSlot(i) == (i + 1) % Capacity

(* Nothing looks at the message of a send before it is stored.             *)
Put(t) ==
  /\ \E m \in Messages : buffer' = [buffer EXCEPT ![tail] = m]
  /\ tail' = NextSlot(tail)
  /\ count' = count + 1
  /\ UNCHANGED head
  /\ ReturnAndSignal(t, Receives)

Take(t) ==
  /\ head' = NextSlot(head)
  /\ count' = count - 1
  /\ UNCHANGED <<buffer, tail>>
  /\ ReturnAndSignal(t, Sends)

Return(t) == call' = [call EXCEPT ![t] = Idle] /\ UNCHANGED ring
Block(t)  == call' = [call EXCEPT ![t].at = "blocked"] /\ UNCHANGED ring

Testing(t) == call[t].at \in {"called", "woken"}

(* channel_send and channel_send_timeout: the loop test and what follows.  *)
(* On a closed channel both return without sending; send_timeout reports   *)
(* success there.                                                          *)
SendStep(t) ==
  /\ Testing(t) /\ call[t].op \in Sends
  /\ \/ closed /\ Return(t)
     \/ ~closed /\ Full /\ Block(t)
     \/ ~closed /\ ~Full /\ Put(t)
  /\ UNCHANGED closed

(* channel_receive and channel_receive_timeout.                            *)
ReceiveStep(t) ==
  /\ Testing(t) /\ call[t].op \in Receives
  /\ \/ count > 0 /\ Take(t)
     \/ count = 0 /\ closed /\ Return(t)
     \/ count = 0 /\ ~closed /\ Block(t)
  /\ UNCHANGED closed

(* condition_timedwait returned false: a send gives up even if there is    *)
(* room by now, a receive takes a message if there is one.                 *)
Expired(t) ==
  /\ call[t].at = "expired"
  /\ IF call[t].op \in Receives /\ count > 0 THEN Take(t) ELSE Return(t)
  /\ UNCHANGED closed

(* channel_try_receive; when the mutex is taken or the ring is empty it    *)
(* changes nothing.                                                        *)
TryReceive(t) ==
  /\ call[t] = Idle
  /\ count > 0
  /\ Take(t)
  /\ UNCHANGED closed

(* A timed wait ends without a signal.                                     *)
Expire(t) ==
  /\ call[t].at = "blocked" /\ call[t].op \in Timed
  /\ call' = [call EXCEPT ![t].at = "expired"]
  /\ UNCHANGED <<ring, closed>>

(* A wait may also end spuriously.                                         *)
Spurious(t) ==
  /\ call[t].at = "blocked"
  /\ call' = [call EXCEPT ![t].at = "woken"]
  /\ UNCHANGED <<ring, closed>>

(* channel_close broadcasts on both conditions.                            *)
OnlyReceives == Receives   \* fault: senders are not woken
Woken == Sends \union Receives

Close(t) ==
  /\ call[t] = Idle
  /\ closed' = TRUE
  /\ call' = [u \in Threads |->
                IF u \in In(Woken, "blocked") THEN [call[u] EXCEPT !.at = "woken"] ELSE call[u]]
  /\ UNCHANGED ring

Next ==
  \E t \in Threads :
    \/ Call(t) \/ SendStep(t) \/ ReceiveStep(t) \/ Expired(t) \/ TryReceive(t)
    \/ Expire(t) \/ Spurious(t) \/ Close(t)

Spec == Init /\ [][Next]_vars

(* A thread that holds or can get the mutex goes on.  Nothing makes a      *)
(* thread call, a wait expire, or the channel close.                       *)
Fairness == \A t \in Threads : WF_vars(SendStep(t) \/ ReceiveStep(t) \/ Expired(t))

FairSpec == Spec /\ Fairness

-----------------------------------------------------------------------------
(* Properties.                                                             *)

TypeOK ==
  /\ buffer \in [0 .. Capacity - 1 -> Messages \union {Null}]
  /\ head \in 0 .. Capacity - 1
  /\ tail \in 0 .. Capacity - 1
  /\ count \in 0 .. Capacity
  /\ closed \in BOOLEAN
  /\ call \in [Threads -> {Idle} \union [op : Sends \union Receives, at : Places]]

(* One signal per message and per free slot: while receivers are blocked,  *)
(* every message in the ring has a receiver on its way to it, and while    *)
(* senders are blocked, every free slot a sender, whoever barges in, times *)
(* out or wakes up for nothing.                                            *)
NobodyStranded ==
  /\ In(Receives, "blocked") # {} => count <= Cardinality(In(Receives, "woken"))
  /\ In(Sends, "blocked") # {} => Capacity - count <= Cardinality(In(Sends, "woken"))

(* channel_close: a thread still inside a call returns.                    *)
CloseReleases == \A t \in Threads : closed /\ call[t] # Idle ~> call[t] = Idle

(* The ring is a bounded first-in first-out queue.                         *)
Fifo == INSTANCE BoundedFifo WITH
  queue <- [i \in 1 .. count |-> buffer[(head + i - 1) % Capacity]]
ImplementsFifo == Fifo!Spec

=============================================================================

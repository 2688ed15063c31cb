-------------------------- MODULE Concurrent_proofs --------------------------
(***************************************************************************)
(* Proofs about channels, for any number of threads, messages and slots:   *)
(* the ring is a bounded first-in first-out queue, and no blocked thread   *)
(* is left without a wake-up on its way.  Then about the thread pool, for  *)
(* any number of workers, clients and tasks: its growing ring is such a    *)
(* queue too, and wait_completion returns when every task has been taken.  *)
(* Last about the lock-free list of the asynchronous loop, for any number  *)
(* of threads: it is such a queue, and a poll overlooks nothing.           *)
(***************************************************************************)
EXTENDS Channel, MCThreadPool, MCAsyncQueue, FiniteSetTheorems, SequenceTheorems,
        WellFoundedInduction, TLAPS

CallKinds == {Sends, Receives}

Blocked(k) == In(k, "blocked")
OnWay(k) == In(k, "woken")

CallRecords == [op : Sends \union Receives, at : Places]
CallsOK == call \in [Threads -> {Idle} \union CallRecords]

RingOK ==
  /\ buffer \in [0 .. Capacity - 1 -> Messages \union {Null}]
  /\ head \in 0 .. Capacity - 1
  /\ tail \in 0 .. Capacity - 1
  /\ count \in 0 .. Capacity
  /\ closed \in BOOLEAN

LEMMA TypeParts == TypeOK <=> RingOK /\ CallsOK
<1>1. CallsOK <=> call \in [Threads -> {Idle} \union [op : Sends \union Receives, at : Places]]
  BY DEF CallsOK, CallRecords
<1>2. QED BY <1>1 DEF TypeOK, RingOK

LEMMA TypePartsThen == TypeOK' <=> RingOK' /\ CallsOK'
<1>1. CallsOK' <=> call' \in [Threads -> {Idle} \union [op : Sends \union Receives, at : Places]]
  BY DEF CallsOK, CallRecords
<1>2. QED BY <1>1 DEF TypeOK, RingOK

LEMMA InitTypeOK == Init => TypeOK
<1> SUFFICES ASSUME Init PROVE TypeOK
  OBVIOUS
<1>1. RingOK
  <2>1. buffer \in [0 .. Capacity - 1 -> Messages \union {Null}]
    BY DEF Init
  <2>2. 0 \in 0 .. Capacity - 1 /\ 0 \in 0 .. Capacity
    BY ChannelAssumption
  <2>3. head = 0 /\ tail = 0 /\ count = 0 /\ closed = FALSE
    BY DEF Init
  <2>4. QED BY <2>1, <2>2, <2>3 DEF RingOK
<1>2. CallsOK
  BY DEF Init, CallsOK
<1>3. QED BY <1>1, <1>2, TypeParts

-----------------------------------------------------------------------------
(* Arithmetic of the ring.                                                 *)

LEMMA ModuloStep ==
  ASSUME NEW x \in Nat, x < 2 * Capacity
  PROVE  x % Capacity = IF x < Capacity THEN x ELSE x - Capacity
<1>1. Capacity \in Nat /\ Capacity > 0
  BY ChannelAssumption
<1>2. CASE x < Capacity
  BY <1>1, <1>2
<1>3. CASE x >= Capacity
  <2>1. x = Capacity + (x - Capacity) /\ x - Capacity \in 0 .. Capacity - 1
    BY <1>1, <1>3
  <2>2. x \div Capacity = 1
    BY <1>1, <2>1
  <2>3. QED BY <1>1, <1>3, <2>1, <2>2
<1>4. QED BY <1>2, <1>3, <1>1

LEMMA NextSlotOK == ASSUME NEW i \in 0 .. Capacity - 1 PROVE NextSlot(i) \in 0 .. Capacity - 1
BY ChannelAssumption DEF NextSlot

-----------------------------------------------------------------------------
(* Types, step by step.  A thread that moves is in a call of a kind.        *)

LEMMA InCall ==
  ASSUME CallsOK, NEW t \in Threads, call[t] # Idle
  PROVE  call[t] \in CallRecords
BY DEF CallsOK

LEMMA PlacesMove ==
  ASSUME NEW c \in CallRecords, NEW p \in Places
  PROVE  [c EXCEPT !.at = p] \in CallRecords
BY DEF CallRecords

LEMMA ReturnAndSignalOK ==
  ASSUME CallsOK, NEW t \in Threads, NEW k, ReturnAndSignal(t, k)
  PROVE  CallsOK'
<1>1. CASE call' = [call EXCEPT ![t] = Idle]
  BY <1>1 DEF CallsOK
<1>2. ASSUME NEW u \in In(k, "blocked"), call' = [call EXCEPT ![t] = Idle, ![u].at = "woken"]
      PROVE  CallsOK'
  <2>1. u \in Threads /\ call[u] # Idle
    BY <1>2 DEF In, Idle
  <2>2. [call[u] EXCEPT !.at = "woken"] \in CallRecords
    BY <2>1, InCall, PlacesMove DEF Places
  <2>3. CASE u = t
    BY <1>2, <2>1, <2>2, <2>3 DEF CallsOK
  <2>4. CASE u # t
    BY <1>2, <2>1, <2>2, <2>4 DEF CallsOK
  <2>5. QED BY <2>3, <2>4
<1>3. QED BY <1>1, <1>2 DEF ReturnAndSignal

LEMMA OneCall ==
  ASSUME CallsOK, NEW t \in Threads, NEW c \in {Idle} \union CallRecords,
         call' = [call EXCEPT ![t] = c]
  PROVE  CallsOK'
BY DEF CallsOK

LEMMA Moved ==
  ASSUME CallsOK, NEW t \in Threads, NEW p \in Places, call[t] # Idle,
         call' = [call EXCEPT ![t].at = p]
  PROVE  CallsOK'
<1>1. [call[t] EXCEPT !.at = p] \in CallRecords
  BY InCall, PlacesMove
<1>2. call' = [call EXCEPT ![t] = [call[t] EXCEPT !.at = p]]
  OBVIOUS
<1>3. QED BY <1>1, <1>2, OneCall

LEMMA PutOK ==
  ASSUME TypeOK, NEW t \in Threads, ~Full, Put(t), UNCHANGED closed PROVE TypeOK'
<1>1. RingOK
  BY TypeParts
<1>2. CallsOK'
  BY TypeParts, ReturnAndSignalOK DEF Put
<1>3. tail' \in 0 .. Capacity - 1
  BY <1>1, NextSlotOK DEF Put, RingOK
<1>4. count' \in 0 .. Capacity
  BY <1>1, ChannelAssumption DEF Put, RingOK, Full
<1>5. buffer' \in [0 .. Capacity - 1 -> Messages \union {Null}]
  BY <1>1 DEF Put, RingOK
<1>6. RingOK'
  BY <1>1, <1>3, <1>4, <1>5 DEF Put, RingOK
<1>7. QED BY <1>2, <1>6, TypePartsThen

LEMMA TakeOK ==
  ASSUME TypeOK, NEW t \in Threads, count > 0, Take(t), UNCHANGED closed PROVE TypeOK'
<1>1. RingOK
  BY TypeParts
<1>2. CallsOK'
  BY TypeParts, ReturnAndSignalOK DEF Take
<1>3. head' \in 0 .. Capacity - 1
  BY <1>1, NextSlotOK DEF Take, RingOK
<1>4. count' \in 0 .. Capacity
  BY <1>1, ChannelAssumption DEF Take, RingOK
<1>5. RingOK'
  BY <1>1, <1>3, <1>4 DEF Take, RingOK
<1>6. QED BY <1>2, <1>5, TypePartsThen

LEMMA CallsOnly ==
  ASSUME TypeOK, UNCHANGED ring, closed' \in BOOLEAN, CallsOK' PROVE TypeOK'
<1>1. RingOK'
  BY TypeParts DEF RingOK, ring
<1>2. QED BY <1>1, TypePartsThen

LEMMA NextTypeOK == ASSUME TypeOK, [Next]_vars PROVE TypeOK'
<1>1. CallsOK /\ closed \in BOOLEAN
  BY TypeParts DEF RingOK
<1>2. ASSUME NEW t \in Threads, Call(t) PROVE TypeOK'
  <2>1. PICK o \in Sends \union Receives : call' = [call EXCEPT ![t] = [op |-> o, at |-> "called"]]
    BY <1>2 DEF Call
  <2>2. [op |-> o, at |-> "called"] \in CallRecords
    BY DEF CallRecords, Places
  <2>3. CallsOK'
    BY <1>1, <2>1, <2>2, OneCall
  <2>4. QED BY <1>1, <1>2, <2>3, CallsOnly DEF Call
<1>3. ASSUME NEW t \in Threads, call[t] # Idle, Return(t), closed' = closed PROVE TypeOK'
  <2>1. CallsOK'
    BY <1>1, <1>3, OneCall DEF Return
  <2>2. QED BY <1>1, <1>3, <2>1, CallsOnly DEF Return
<1>4. ASSUME NEW t \in Threads, call[t] # Idle, Block(t), closed' = closed PROVE TypeOK'
  <2>1. CallsOK'
    BY <1>1, <1>4, Moved DEF Block, Places
  <2>2. QED BY <1>1, <1>4, <2>1, CallsOnly DEF Block
<1>5. ASSUME NEW t \in Threads, SendStep(t) PROVE TypeOK'
  <2>1. call[t] # Idle
    BY <1>5 DEF SendStep, Testing, Idle
  <2>2. QED BY <1>3, <1>4, <1>5, <2>1, PutOK DEF SendStep
<1>6. ASSUME NEW t \in Threads, ReceiveStep(t) PROVE TypeOK'
  <2>1. call[t] # Idle
    BY <1>6 DEF ReceiveStep, Testing, Idle
  <2>2. QED BY <1>3, <1>4, <1>6, <2>1, TakeOK DEF ReceiveStep
<1>7. ASSUME NEW t \in Threads, Expired(t) PROVE TypeOK'
  <2>1. call[t] # Idle
    BY <1>7 DEF Expired, Idle
  <2>2. QED BY <1>3, <1>7, <2>1, TakeOK DEF Expired
<1>8. ASSUME NEW t \in Threads, TryReceive(t) PROVE TypeOK'
  BY <1>8, TakeOK DEF TryReceive
<1>9. ASSUME NEW t \in Threads, Expire(t) PROVE TypeOK'
  <2>1. call[t] # Idle
    BY <1>9 DEF Expire, Idle
  <2>2. CallsOK'
    BY <1>1, <1>9, <2>1, Moved DEF Expire, Places
  <2>3. QED BY <1>1, <1>9, <2>2, CallsOnly DEF Expire
<1>10. ASSUME NEW t \in Threads, Spurious(t) PROVE TypeOK'
  <2>1. call[t] # Idle
    BY <1>10 DEF Spurious, Idle
  <2>2. CallsOK'
    BY <1>1, <1>10, <2>1, Moved DEF Spurious, Places
  <2>3. QED BY <1>1, <1>10, <2>2, CallsOnly DEF Spurious
<1>11. ASSUME NEW t \in Threads, Close(t) PROVE TypeOK'
  <2>1. ASSUME NEW u \in Threads, u \in In(Woken, "blocked")
        PROVE  [call[u] EXCEPT !.at = "woken"] \in CallRecords
    <3>1. call[u] # Idle
      BY <2>1 DEF In, Idle
    <3>2. QED BY <1>1, <3>1, InCall, PlacesMove DEF Places
  <2>2. CallsOK'
    BY <1>1, <1>11, <2>1 DEF Close, CallsOK
  <2>3. QED BY <1>11, <2>2, CallsOnly DEF Close
<1>12. CASE UNCHANGED vars
  BY <1>12 DEF vars, ring, TypeOK
<1>13. QED BY <1>2, <1>5, <1>6, <1>7, <1>8, <1>9, <1>10, <1>11, <1>12 DEF Next

-----------------------------------------------------------------------------
(* Wake-ups.  Whatever blocks a call of kind k is there n times at most     *)
(* while n calls of that kind are on their way.                             *)

Enough(k, n) == Blocked(k) # {} => n <= Cardinality(OnWay(k))
EnoughThen(k, n) == Blocked(k)' # {} => n <= Cardinality(OnWay(k)')

LEMMA OnWayFinite ==
  ASSUME NEW k
  PROVE  /\ IsFiniteSet(OnWay(k)) /\ Cardinality(OnWay(k)) \in Nat
         /\ IsFiniteSet(OnWay(k)') /\ Cardinality(OnWay(k)') \in Nat
<1>1. OnWay(k) \in SUBSET Threads /\ OnWay(k)' \in SUBSET Threads
  BY DEF OnWay, In
<1>2. IsFiniteSet(Threads)
  BY ChannelAssumption
<1>3. IsFiniteSet(OnWay(k)) /\ IsFiniteSet(OnWay(k)')
  BY <1>1, <1>2, FS_Subset
<1>4. QED BY <1>3, FS_CardinalityType

(* A signal makes up for one more.                                          *)
LEMMA SignalledKind ==
  ASSUME CallsOK, NEW t \in Threads, NEW k \in CallKinds, NEW n \in Int,
         call[t].op \notin k, ReturnAndSignal(t, k), Enough(k, n)
  PROVE  EnoughThen(k, n + 1)
<1>1. CASE Blocked(k) = {}
  <2>1. call' = [call EXCEPT ![t] = Idle]
    BY <1>1 DEF ReturnAndSignal, Blocked
  <2>2. Blocked(k)' = {}
    BY <1>1, <2>1 DEF Blocked, In, Idle, CallsOK
  <2>3. QED BY <2>2 DEF Enough, EnoughThen
<1>2. CASE Blocked(k) # {}
  <2>1. PICK u \in Blocked(k) : call' = [call EXCEPT ![t] = Idle, ![u].at = "woken"]
    BY <1>2 DEF ReturnAndSignal, Blocked
  <2>2. u \in Threads /\ u # t /\ call[u].op \in k /\ call[u].at = "blocked"
    BY DEF Blocked, In
  <2>3. call[u] \in CallRecords
    BY <2>2, InCall DEF Idle
  <2>4. call'[u] = [call[u] EXCEPT !.at = "woken"]
    BY <2>1, <2>2 DEF CallsOK
  <2>5. call'[u].op = call[u].op /\ call'[u].at = "woken"
    BY <2>3, <2>4 DEF CallRecords
  <2>6. \A w \in Threads \ {t, u} : call'[w] = call[w]
    BY <2>1, <2>2 DEF CallsOK
  <2>7. call'[t] = Idle
    BY <2>1, <2>2 DEF CallsOK
  <2>8. OnWay(k)' = OnWay(k) \cup {u}
    BY <2>2, <2>5, <2>6, <2>7 DEF OnWay, In, Idle, CallKinds, Sends, Receives
  <2>9. u \notin OnWay(k)
    BY <2>2 DEF OnWay, In
  <2>10. Cardinality(OnWay(k)') = Cardinality(OnWay(k)) + 1
    BY <2>8, <2>9, OnWayFinite, FS_AddElement
  <2>11. n <= Cardinality(OnWay(k))
    BY <1>2 DEF Enough, EnoughThen
  <2>12. QED BY <2>10, <2>11, OnWayFinite DEF Enough, EnoughThen
<1>3. QED BY <1>1, <1>2

(* A call that returns leaves one less on the way.                          *)
LEMMA LeavingKind ==
  ASSUME CallsOK, NEW t \in Threads, NEW k \in CallKinds, NEW o \in CallKinds, k # o,
         call[t].at # "blocked", ReturnAndSignal(t, o)
  PROVE  Blocked(k)' = Blocked(k) /\ OnWay(k)' = OnWay(k) \ {t}
<1>1. k \cap o = {} /\ "none" \notin k
  BY DEF CallKinds, Sends, Receives
<1>2. CASE call' = [call EXCEPT ![t] = Idle]
  BY <1>1, <1>2 DEF CallsOK, Blocked, OnWay, In, Idle
<1>3. ASSUME NEW u \in In(o, "blocked"), call' = [call EXCEPT ![t] = Idle, ![u].at = "woken"]
      PROVE  Blocked(k)' = Blocked(k) /\ OnWay(k)' = OnWay(k) \ {t}
  <2>1. u \in Threads /\ u # t /\ call[u].op \in o /\ call[u] # Idle
    BY <1>3 DEF In, Idle
  <2>2. call[u] \in CallRecords
    BY <2>1, InCall
  <2>3. call'[u] = [call[u] EXCEPT !.at = "woken"]
    BY <1>3, <2>1 DEF CallsOK
  <2>4. call'[u].op = call[u].op
    BY <2>2, <2>3 DEF CallRecords
  <2>5. \A w \in Threads \ {t, u} : call'[w] = call[w]
    BY <1>3, <2>1 DEF CallsOK
  <2>6. call'[t] = Idle
    BY <1>3, <2>1 DEF CallsOK
  <2>7. QED BY <1>1, <2>1, <2>4, <2>5, <2>6 DEF Blocked, OnWay, In, Idle
<1>4. QED BY <1>2, <1>3 DEF ReturnAndSignal

LEMMA LeftKind ==
  ASSUME CallsOK, NEW t \in Threads, NEW k \in CallKinds, NEW o \in CallKinds, k # o,
         call[t].at # "blocked", ReturnAndSignal(t, o), NEW n \in Int, Enough(k, n)
  PROVE  EnoughThen(k, n - 1)
<1>1. Blocked(k)' = Blocked(k) /\ OnWay(k)' = OnWay(k) \ {t}
  BY LeavingKind
<1>2. Cardinality(OnWay(k) \ {t}) >= Cardinality(OnWay(k)) - 1
  <2>1. Cardinality(OnWay(k) \ {t}) = IF t \in OnWay(k) THEN Cardinality(OnWay(k)) - 1
                                                        ELSE Cardinality(OnWay(k))
    BY OnWayFinite, FS_RemoveElement
  <2>2. QED BY <2>1, OnWayFinite
<1>3. QED BY <1>1, <1>2, OnWayFinite DEF Enough, EnoughThen

(* Nobody blocks, and nobody on the way is lost.                            *)
LEMMA GrownKind ==
  ASSUME NEW k, NEW n \in Int, Blocked(k)' \subseteq Blocked(k), OnWay(k) \subseteq OnWay(k)',
         Enough(k, n)
  PROVE  EnoughThen(k, n)
<1>1. Cardinality(OnWay(k)) <= Cardinality(OnWay(k)')
  BY OnWayFinite, FS_Subset
<1>2. QED BY <1>1, OnWayFinite DEF Enough, EnoughThen

-----------------------------------------------------------------------------
(* After close nobody sleeps, which lets the calls on their way return      *)
(* without a signal.                                                        *)
NoneSleeps == closed => \A k \in CallKinds : Blocked(k) = {}

IInv == TypeOK /\ NobodyStranded /\ NoneSleeps

LEMMA StrandedKinds == NobodyStranded <=> Enough(Receives, count) /\ Enough(Sends, Capacity - count)
BY DEF NobodyStranded, Enough, Blocked, OnWay

LEMMA StrandedKindsThen ==
  NobodyStranded' <=> EnoughThen(Receives, count') /\ EnoughThen(Sends, Capacity - count')
BY DEF NobodyStranded, EnoughThen, Blocked, OnWay

LEMMA InitIInv == Init => IInv
<1> SUFFICES ASSUME Init PROVE IInv
  OBVIOUS
<1>1. \A k \in CallKinds : Blocked(k) = {}
  BY DEF Init, Blocked, In, Idle
<1>2. NobodyStranded
  BY <1>1, StrandedKinds DEF Enough, CallKinds
<1>3. QED BY <1>1, <1>2, InitTypeOK DEF IInv, NoneSleeps

Numbers == count \in Int /\ Capacity \in Int /\ Capacity - count \in Int

LEMMA IInvFacts ==
  ASSUME IInv
  PROVE  /\ CallsOK /\ Numbers
         /\ Enough(Receives, count) /\ Enough(Sends, Capacity - count)
<1>1. RingOK /\ CallsOK
  BY TypeParts DEF IInv
<1>2. QED BY <1>1, StrandedKinds, ChannelAssumption DEF IInv, RingOK, Numbers

(* No call falls asleep, none on its way is lost.                           *)
Undisturbed == \A k \in CallKinds : Blocked(k)' \subseteq Blocked(k) /\ OnWay(k) \subseteq OnWay(k)'

LEMMA Kinds == Sends \in CallKinds /\ Receives \in CallKinds /\ Sends # Receives
<1>1. "send" \in Sends /\ "send" \notin Receives
  BY DEF Sends, Receives
<1>2. QED BY <1>1 DEF CallKinds

LEMMA UndisturbedFlows ==
  ASSUME IInv, UNCHANGED ring, Undisturbed
  PROVE  NobodyStranded'
<1>1. Numbers /\ count' = count
  BY IInvFacts DEF ring
<1>2. EnoughThen(Receives, count) /\ EnoughThen(Sends, Capacity - count)
  BY <1>1, IInvFacts, GrownKind, Kinds DEF Numbers, Undisturbed
<1>3. QED BY <1>1, <1>2, StrandedKindsThen

(* A thread that is not on its way moves without falling asleep.            *)
LEMMA OneMoves ==
  ASSUME CallsOK, NEW t \in Threads, NEW c, call[t].at # "woken", c.at # "blocked",
         call' = [call EXCEPT ![t] = c]
  PROVE  Undisturbed
BY DEF CallsOK, Blocked, OnWay, In, Undisturbed

LEMMA PutFlows ==
  ASSUME IInv, NEW t \in Threads, call[t].op \in Sends, call[t].at # "blocked", Put(t)
  PROVE  NobodyStranded'
<1>1. CallsOK /\ Numbers
  BY IInvFacts
<1>2. count' = count + 1 /\ ReturnAndSignal(t, Receives)
  BY DEF Put
<1>3. call[t].op \notin Receives
  BY DEF Sends, Receives
<1>4. EnoughThen(Receives, count + 1)
  BY <1>1, <1>2, <1>3, IInvFacts, Kinds, SignalledKind DEF Numbers
<1>5. EnoughThen(Sends, (Capacity - count) - 1)
  BY <1>1, <1>2, IInvFacts, Kinds, LeftKind DEF Numbers
<1>6. Capacity - count' = (Capacity - count) - 1
  BY <1>1, <1>2 DEF Numbers
<1>7. QED BY <1>2, <1>4, <1>5, <1>6, StrandedKindsThen

LEMMA TakeFlows ==
  ASSUME IInv, NEW t \in Threads, call[t].op \notin Sends, call[t].at # "blocked", Take(t)
  PROVE  NobodyStranded'
<1>1. CallsOK /\ Numbers
  BY IInvFacts
<1>2. count' = count - 1 /\ ReturnAndSignal(t, Sends)
  BY DEF Take
<1>3. EnoughThen(Receives, count - 1)
  BY <1>1, <1>2, IInvFacts, Kinds, LeftKind DEF Numbers
<1>4. EnoughThen(Sends, (Capacity - count) + 1)
  BY <1>1, <1>2, IInvFacts, Kinds, SignalledKind DEF Numbers
<1>5. Capacity - count' = (Capacity - count) + 1
  BY <1>1, <1>2 DEF Numbers
<1>6. QED BY <1>2, <1>3, <1>4, <1>5, StrandedKindsThen

(* The signals of a step wake, they put nobody to sleep.                    *)
LEMMA SignalsWake ==
  ASSUME CallsOK, NEW t \in Threads, NEW o, ReturnAndSignal(t, o)
  PROVE  \A k \in CallKinds : Blocked(k)' \subseteq Blocked(k)
<1>1. CASE call' = [call EXCEPT ![t] = Idle]
  BY <1>1 DEF CallsOK, Blocked, In, Idle
<1>2. ASSUME NEW u \in In(o, "blocked"), call' = [call EXCEPT ![t] = Idle, ![u].at = "woken"],
             NEW k \in CallKinds, NEW w \in Blocked(k)'
      PROVE  w \in Blocked(k)
  <2>1. u \in Threads /\ call[u] # Idle /\ call[u].at = "blocked"
    BY <1>2 DEF In, Idle
  <2>2. w \in Threads /\ call'[w].op \in k /\ call'[w].at = "blocked"
    BY <1>2 DEF Blocked, In
  <2>3. w # t
    <3>1. CASE u = t
      <4>1. call'[t] = [Idle EXCEPT !.at = "woken"]
        BY <1>2, <2>1, <3>1 DEF CallsOK
      <4>2. QED BY <2>2, <4>1 DEF Idle
    <3>2. CASE u # t
      <4>1. call'[t] = Idle
        BY <1>2, <2>1, <3>2 DEF CallsOK
      <4>2. QED BY <2>2, <4>1 DEF Idle
    <3>3. QED BY <3>1, <3>2
  <2>4. w # u
    <3>1. SUFFICES ASSUME w = u PROVE FALSE
      OBVIOUS
    <3>2. call'[u] = [call[u] EXCEPT !.at = "woken"] /\ call[u] \in CallRecords
      BY <1>2, <2>1, <2>3, <3>1, InCall DEF CallsOK
    <3>3. call'[u].at = "woken"
      BY <3>2 DEF CallRecords
    <3>4. QED BY <2>2, <3>1, <3>3
  <2>5. call'[w] = call[w]
    BY <1>2, <2>1, <2>2, <2>3, <2>4 DEF CallsOK
  <2>6. QED BY <2>2, <2>5 DEF Blocked, In
<1>3. QED BY <1>1, <1>2 DEF ReturnAndSignal

(* A call returns without a signal when its time is up, or after close.     *)
LEMMA ReturnFlows ==
  ASSUME IInv, NEW t \in Threads, call[t].at # "blocked", closed \/ call[t].at = "expired",
         Return(t)
  PROVE  NobodyStranded' /\ \A k \in CallKinds : Blocked(k)' \subseteq Blocked(k)
<1>1. CallsOK /\ call' = [call EXCEPT ![t] = Idle]
  BY IInvFacts DEF Return
<1>2. \A k \in CallKinds : Blocked(k)' \subseteq Blocked(k)
  BY <1>1 DEF CallsOK, Blocked, In, Idle
<1>3. CASE closed
  <2>1. \A k \in CallKinds : Blocked(k)' = {}
    BY <1>2, <1>3 DEF IInv, NoneSleeps
  <2>2. QED BY <2>1, Kinds, StrandedKindsThen DEF EnoughThen
<1>4. CASE call[t].at = "expired"
  <2>1. Undisturbed
    BY <1>1, <1>4, OneMoves DEF Idle
  <2>2. QED BY <1>2, <2>1, UndisturbedFlows DEF Return
<1>5. QED BY <1>3, <1>4

(* A call blocks only when there is nothing for it, and then any number on  *)
(* its way is enough; a call that was on its way is the one that blocks.    *)
LEMMA BlockFlows ==
  ASSUME IInv, NEW t \in Threads, NEW k \in CallKinds, NEW o \in CallKinds, k # o,
         Testing(t), call[t].op \in k, Block(t), NEW n \in Int, Enough(o, n)
  PROVE  EnoughThen(o, n) /\ (\A z \in Int : z <= 0 => EnoughThen(k, z))
<1>1. CallsOK /\ call' = [call EXCEPT ![t].at = "blocked"]
  BY IInvFacts DEF Block
<1>2. call[t] \in CallRecords
  BY <1>1, InCall DEF Testing, Idle
<1>3. call'[t] = [call[t] EXCEPT !.at = "blocked"]
  BY <1>1 DEF CallsOK
<1>4. call'[t].op \in k /\ k \cap o = {}
  BY <1>2, <1>3 DEF CallRecords, CallKinds, Sends, Receives
<1>5. \A u \in Threads \ {t} : call'[u] = call[u]
  BY <1>1 DEF CallsOK
<1>6. Blocked(o)' = Blocked(o) /\ OnWay(o)' = OnWay(o)
  BY <1>4, <1>5 DEF Blocked, OnWay, In
<1>7. \A z \in Int : z <= 0 => EnoughThen(k, z)
  BY OnWayFinite DEF EnoughThen
<1>8. QED BY <1>6, <1>7 DEF Enough, EnoughThen

LEMMA NextIInv == ASSUME IInv, [Next]_vars PROVE IInv'
<1>1. TypeOK'
  BY NextTypeOK DEF IInv
<1>2. CallsOK /\ Numbers
  BY IInvFacts
<1> DEFINE Kept == NobodyStranded' /\ NoneSleeps'
           Awake == \A k \in CallKinds : Blocked(k)' \subseteq Blocked(k)
<1>3. ASSUME Awake, closed' = closed PROVE NoneSleeps'
  BY <1>3 DEF IInv, NoneSleeps
<1>4. ASSUME Undisturbed, UNCHANGED ring, closed' = closed PROVE Kept
  BY <1>3, <1>4, UndisturbedFlows DEF Undisturbed
<1>5. ASSUME NEW t \in Threads, NEW o, ReturnAndSignal(t, o), closed' = closed PROVE NoneSleeps'
  BY <1>2, <1>3, <1>5, SignalsWake
<1>6. ASSUME NEW t \in Threads, Call(t) PROVE Kept
  <2>1. PICK o \in Sends \union Receives : call' = [call EXCEPT ![t] = [op |-> o, at |-> "called"]]
    BY <1>6 DEF Call
  <2>2. call[t].at # "woken"
    BY <1>6 DEF Call, Idle
  <2>3. Undisturbed
    BY <1>2, <2>1, <2>2, OneMoves
  <2>4. QED BY <1>4, <1>6, <2>3 DEF Call
<1>7. ASSUME NEW t \in Threads, SendStep(t) PROVE Kept
  <2>1. call[t].at # "blocked" /\ closed' = closed /\ call[t].op \in Sends /\ Testing(t)
    BY <1>7 DEF SendStep, Testing
  <2>2. CASE closed /\ Return(t)
    BY <1>3, <2>1, <2>2, ReturnFlows
  <2>3. CASE ~closed /\ Full /\ Block(t)
    <3>1. Capacity - count <= 0 /\ count' = count
      BY <1>2, <2>3 DEF Full, Numbers, Block, ring
    <3>2. EnoughThen(Receives, count) /\ EnoughThen(Sends, Capacity - count)
      BY <1>2, <2>1, <2>3, <3>1, IInvFacts, Kinds, BlockFlows DEF Numbers
    <3>3. QED BY <2>1, <2>3, <3>1, <3>2, StrandedKindsThen DEF NoneSleeps
  <2>4. CASE ~closed /\ ~Full /\ Put(t)
    BY <1>5, <2>1, <2>4, PutFlows DEF Put
  <2>5. QED BY <1>7, <2>2, <2>3, <2>4 DEF SendStep
<1>8. ASSUME NEW t \in Threads, call[t].op \notin Sends, call[t].at # "blocked", Take(t), closed' = closed
      PROVE  Kept
  BY <1>5, <1>8, TakeFlows DEF Take
<1>9. ASSUME NEW t \in Threads, ReceiveStep(t) PROVE Kept
  <2>1. call[t].at # "blocked" /\ closed' = closed /\ call[t].op \in Receives /\ Testing(t)
    BY <1>9 DEF ReceiveStep, Testing
  <2>2. CASE count > 0 /\ Take(t)
    BY <1>8, <2>1, <2>2 DEF Sends, Receives
  <2>3. CASE count = 0 /\ closed /\ Return(t)
    BY <1>3, <2>1, <2>3, ReturnFlows
  <2>4. CASE count = 0 /\ ~closed /\ Block(t)
    <3>1. count <= 0 /\ count' = count
      BY <1>2, <2>4 DEF Numbers, Block, ring
    <3>2. EnoughThen(Receives, count) /\ EnoughThen(Sends, Capacity - count)
      BY <1>2, <2>1, <2>4, <3>1, IInvFacts, Kinds, BlockFlows DEF Numbers
    <3>3. QED BY <2>1, <2>4, <3>1, <3>2, StrandedKindsThen DEF NoneSleeps
  <2>5. QED BY <1>9, <2>2, <2>3, <2>4 DEF ReceiveStep
<1>10. ASSUME NEW t \in Threads, Expired(t) PROVE Kept
  <2>1. call[t].at = "expired" /\ closed' = closed
    BY <1>10 DEF Expired
  <2>2. CASE call[t].op \in Receives /\ count > 0 /\ Take(t)
    BY <1>8, <2>1, <2>2 DEF Sends, Receives
  <2>3. CASE Return(t)
    BY <1>3, <2>1, <2>3, ReturnFlows
  <2>4. QED BY <1>10, <2>2, <2>3 DEF Expired
<1>11. ASSUME NEW t \in Threads, TryReceive(t) PROVE Kept
  <2>1. call[t].op \notin Sends /\ call[t].at # "blocked"
    BY <1>11 DEF TryReceive, Idle, Sends
  <2>2. QED BY <1>8, <1>11, <2>1 DEF TryReceive
<1>12. ASSUME NEW t \in Threads, NEW p \in {"expired", "woken"}, call[t].at = "blocked",
              call' = [call EXCEPT ![t].at = p]
       PROVE  Undisturbed
  <2>1. call[t] \in CallRecords
    BY <1>2, <1>12, InCall DEF Idle
  <2>2. [call[t] EXCEPT !.at = p].at = p
    BY <2>1 DEF CallRecords
  <2>3. call' = [call EXCEPT ![t] = [call[t] EXCEPT !.at = p]]
    BY <1>12
  <2>4. QED BY <1>2, <1>12, <2>2, <2>3, OneMoves
<1>13. ASSUME NEW t \in Threads, Expire(t) \/ Spurious(t) PROVE Kept
  BY <1>4, <1>12, <1>13 DEF Expire, Spurious
<1>14. ASSUME NEW t \in Threads, Close(t) PROVE Kept
  <2>1. \A k \in CallKinds : Blocked(k)' = {}
    <3>1. SUFFICES ASSUME NEW k \in CallKinds, NEW u \in Blocked(k)' PROVE FALSE
      OBVIOUS
    <3>2. u \in Threads /\ call'[u].op \in k /\ call'[u].at = "blocked"
      BY DEF Blocked, In
    <3>3. CASE u \in In(Woken, "blocked")
      <4>1. call'[u] = [call[u] EXCEPT !.at = "woken"] /\ call[u] # Idle
        BY <1>14, <3>2, <3>3 DEF Close, In, Idle
      <4>2. call[u] \in CallRecords
        BY <1>2, <3>2, <4>1, InCall
      <4>3. call'[u].at = "woken"
        BY <4>1, <4>2 DEF CallRecords
      <4>4. QED BY <3>2, <4>3
    <3>4. CASE u \notin In(Woken, "blocked")
      <4>1. call'[u] = call[u]
        BY <1>14, <3>2, <3>4 DEF Close
      <4>2. call[u].op \in Woken
        BY <3>2, <4>1 DEF CallKinds, Woken
      <4>3. QED BY <3>2, <3>4, <4>1, <4>2 DEF In
    <3>5. QED BY <3>3, <3>4
  <2>2. QED BY <2>1, Kinds, StrandedKindsThen DEF EnoughThen, NoneSleeps
<1>15. ASSUME UNCHANGED vars PROVE Kept
  <2>1. UNCHANGED ring /\ call' = call /\ closed' = closed
    BY <1>15 DEF vars
  <2>2. Undisturbed
    BY <2>1 DEF Undisturbed, Blocked, OnWay, In
  <2>3. QED BY <1>4, <2>1, <2>2
<1>16. Kept
  BY <1>6, <1>7, <1>9, <1>10, <1>11, <1>13, <1>14, <1>15 DEF Next
<1>17. QED BY <1>1, <1>16 DEF IInv

(* The invariant holds in every state, for any number of threads and slots. *)
LEMMA Invariant == Spec => []IInv
BY InitIInv, NextIInv, PTL DEF Spec

(* The ring of channel_create and every call on it keep their shapes.       *)
THEOREM ChannelTypeOK == Spec => []TypeOK
<1>1. IInv => TypeOK
  BY DEF IInv
<1>2. QED BY <1>1, Invariant, PTL

(* channel_send, channel_receive and their timed forms: while a receiver is *)
(* blocked every message has a receiver on its way to it, and while a       *)
(* sender is blocked every free slot a sender, whoever barges in between    *)
(* the signal and the wake-up, gives up, or wakes up for nothing.           *)
THEOREM NeverStranded == Spec => []NobodyStranded
<1>1. IInv => NobodyStranded
  BY DEF IInv
<1>2. QED BY <1>1, Invariant, PTL

-----------------------------------------------------------------------------
(* The ring is a queue: the messages lie in the slots from head on, and     *)
(* tail is the slot after the last of them.                                 *)

Slot(i) == (head + i - 1) % Capacity
Queue == [i \in 1 .. count |-> buffer[(head + i - 1) % Capacity]]
Follows == tail = (head + count) % Capacity

(* Where a position not beyond the ring's end, or once around it, lies.     *)
Wrapped(x) == IF x < Capacity THEN x ELSE x - Capacity

LEMMA RingFacts ==
  ASSUME TypeOK
  PROVE  /\ Capacity \in Nat /\ Capacity > 0
         /\ head \in Nat /\ head < Capacity /\ tail \in Nat /\ tail < Capacity
         /\ count \in Nat /\ count <= Capacity
         /\ buffer \in [0 .. Capacity - 1 -> Messages \union {Null}]
BY ChannelAssumption, TypeParts DEF RingOK

LEMMA WrappedOK ==
  ASSUME NEW h \in Nat, h < Capacity, NEW n \in Nat, n <= Capacity
  PROVE  (h + n) % Capacity = Wrapped(h + n)
<1>1. h + n \in Nat /\ h + n < 2 * Capacity
  BY ChannelAssumption
<1>2. QED BY <1>1, ModuloStep DEF Wrapped

LEMMA SlotOK ==
  ASSUME TypeOK, NEW i \in 1 .. Capacity
  PROVE  Slot(i) = Wrapped(head + (i - 1)) /\ Slot(i) \in 0 .. Capacity - 1
<1>1. i - 1 \in Nat /\ i - 1 <= Capacity /\ head + i - 1 = head + (i - 1)
  BY RingFacts
<1>2. Slot(i) = Wrapped(head + (i - 1))
  BY <1>1, RingFacts, WrappedOK DEF Slot
<1>3. QED BY <1>1, <1>2, RingFacts DEF Wrapped

LEMMA QueueSeq ==
  ASSUME TypeOK
  PROVE  Queue \in Seq(Messages \union {Null}) /\ Len(Queue) = count
<1>1. \A i \in 1 .. count : buffer[Slot(i)] \in Messages \union {Null}
  BY SlotOK, RingFacts
<1>2. Queue \in [1 .. count -> Messages \union {Null}]
  BY <1>1 DEF Queue, Slot
<1>3. QED BY <1>2, RingFacts

LEMMA PutQueue ==
  ASSUME TypeOK, Follows, ~Full, NEW m \in Messages,
         buffer' = [buffer EXCEPT ![tail] = m], tail' = NextSlot(tail), count' = count + 1, head' = head
  PROVE  Follows' /\ Queue' = Append(Queue, m)
<1>1. count < Capacity /\ count + 1 \in 1 .. Capacity
  BY RingFacts DEF Full
<1>2. tail = Wrapped(head + count)
  BY RingFacts, WrappedOK DEF Follows
<1>3. Follows'
  <2>1. (head + (count + 1)) % Capacity = Wrapped(head + (count + 1))
    BY <1>1, RingFacts, WrappedOK
  <2>2. (tail + 1) % Capacity = Wrapped(tail + 1)
    BY RingFacts, WrappedOK
  <2>3. Wrapped(tail + 1) = Wrapped(head + (count + 1))
    BY <1>1, <1>2, RingFacts DEF Wrapped
  <2>4. QED BY <2>1, <2>2, <2>3 DEF Follows, NextSlot
<1>4. \A i \in 1 .. count + 1 : buffer'[Slot(i)] = IF i = count + 1 THEN m ELSE buffer[Slot(i)]
  <2>1. TAKE i \in 1 .. count + 1
  <2>2. i \in 1 .. Capacity
    BY <1>1, RingFacts
  <2>3. Slot(i) = Wrapped(head + (i - 1)) /\ Slot(i) \in 0 .. Capacity - 1
    BY <2>2, SlotOK
  <2>4. Slot(i) = tail <=> i = count + 1
    BY <1>1, <1>2, <2>2, <2>3, RingFacts DEF Wrapped
  <2>5. QED BY <2>3, <2>4, RingFacts
<1>5. Queue' = [i \in 1 .. count + 1 |-> buffer'[Slot(i)]]
  BY DEF Queue, Slot
<1>6. Queue' = Append(Queue, m)
  <2> DEFINE S == Messages \union {Null}
  <2>1. Append(Queue, m) \in Seq(S) /\ Len(Append(Queue, m)) = count + 1
    BY QueueSeq, AppendProperties
  <2>2. \A i \in 1 .. count : Append(Queue, m)[i] = Queue[i]
    BY QueueSeq, AppendProperties
  <2>3. Append(Queue, m)[count + 1] = m
    BY QueueSeq, AppendProperties
  <2>4. \A i \in 1 .. count : Queue[i] = buffer[Slot(i)]
    BY DEF Queue, Slot
  <2>5. \A i \in 1 .. count + 1 : i # count + 1 => i \in 1 .. count
    BY RingFacts
  <2>6. \A i \in 1 .. count + 1 : Queue'[i] = Append(Queue, m)[i]
    BY <1>4, <1>5, <2>2, <2>3, <2>4, <2>5
  <2>7. Append(Queue, m) \in [1 .. count + 1 -> S]
    BY <2>1, LenProperties
  <2>8. QED BY <1>5, <2>6, <2>7
<1>7. QED BY <1>3, <1>6

LEMMA TakeQueue ==
  ASSUME TypeOK, Follows, count > 0,
         head' = NextSlot(head), count' = count - 1, buffer' = buffer, tail' = tail
  PROVE  Follows' /\ Queue # << >> /\ Queue' = Tail(Queue)
<1>1. head' = Wrapped(head + 1)
  BY RingFacts, WrappedOK DEF NextSlot
<1>2. head' \in Nat /\ head' < Capacity
  BY <1>1, RingFacts DEF Wrapped
<1>3. Follows'
  <2>1. (head + count) % Capacity = Wrapped(head + count)
    BY RingFacts, WrappedOK
  <2>2. count - 1 \in Nat /\ count - 1 <= Capacity
    BY RingFacts
  <2>3. (head' + (count - 1)) % Capacity = Wrapped(head' + (count - 1))
    BY <1>2, <2>2, WrappedOK
  <2>4. Wrapped(head' + (count - 1)) = Wrapped(head + count)
    BY <1>1, RingFacts DEF Wrapped
  <2>5. QED BY <2>1, <2>3, <2>4 DEF Follows
<1>4. \A i \in 1 .. count - 1 : (head' + i - 1) % Capacity = Slot(i + 1)
  <2>1. TAKE i \in 1 .. count - 1
  <2>2. i + 1 \in 1 .. Capacity /\ (i + 1) - 1 = i /\ i - 1 \in Nat /\ i - 1 <= Capacity
    BY RingFacts
  <2>3. Slot(i + 1) = Wrapped(head + i)
    BY <2>2, SlotOK
  <2>4. (head' + (i - 1)) % Capacity = Wrapped(head' + (i - 1))
    BY <1>2, <2>2, WrappedOK
  <2>5. head' + i - 1 = head' + (i - 1)
    BY <1>2, <2>2
  <2>6. Wrapped(head' + (i - 1)) = Wrapped(head + i)
    BY <1>1, <2>2, RingFacts DEF Wrapped
  <2>7. QED BY <2>3, <2>4, <2>5, <2>6
<1>5. Queue' = [i \in 1 .. count - 1 |-> Queue[i + 1]]
  <2>1. \A i \in 1 .. count - 1 : i + 1 \in 1 .. count
    BY RingFacts
  <2>2. QED BY <1>4, <2>1 DEF Queue, Slot
<1>6. Tail(Queue) = [i \in 1 .. count - 1 |-> Queue[i + 1]]
  <2>1. Queue # << >> /\ Queue \in Seq(Messages \union {Null})
    BY QueueSeq
  <2>2. Tail(Queue) \in Seq(Messages \union {Null}) /\ Len(Tail(Queue)) = count - 1
    BY <2>1, QueueSeq, HeadTailProperties
  <2>3. \A i \in 1 .. count - 1 : Tail(Queue)[i] = Queue[i + 1]
    BY <2>1, <2>2, HeadTailProperties
  <2>4. Tail(Queue) \in [1 .. count - 1 -> Messages \union {Null}]
    BY <2>2, LenProperties
  <2>5. QED BY <2>3, <2>4
<1>7. Queue # << >>
  BY QueueSeq
<1>8. QED BY <1>3, <1>5, <1>6, <1>7

QInv == TypeOK /\ Follows

LEMMA InitQInv == Init => QInv /\ Queue = << >>
<1> SUFFICES ASSUME Init PROVE QInv /\ Queue = << >>
  OBVIOUS
<1>1. TypeOK
  BY InitTypeOK
<1>2. (head + count) % Capacity = Wrapped(head + count)
  BY <1>1, RingFacts, WrappedOK
<1>3. Follows
  BY <1>1, <1>2, RingFacts DEF Init, Follows, Wrapped
<1>4. Queue = << >>
  BY <1>1, QueueSeq, EmptySeq DEF Init
<1>5. QED BY <1>1, <1>3, <1>4 DEF QInv

(* What a step does to the queue: the promises of BoundedFifo.              *)
Sent == ~closed /\ count < Capacity /\ (\E m \in Messages : Queue' = Append(Queue, m)) /\ closed' = closed
Received == Queue # << >> /\ Queue' = Tail(Queue) /\ closed' = closed
Closed == closed' = TRUE /\ Queue' = Queue
Untouched == Queue' = Queue /\ closed' = closed

LEMMA QueueSteps ==
  ASSUME QInv, [Next]_vars
  PROVE  Follows' /\ (Sent \/ Received \/ Closed \/ Untouched)
<1> DEFINE Goal == Follows' /\ (Sent \/ Received \/ Closed \/ Untouched)
<1>1. ASSUME UNCHANGED ring PROVE Follows' /\ Queue' = Queue
  BY <1>1 DEF ring, QInv, Follows, Queue
<1>2. ASSUME NEW t \in Threads, Put(t), ~closed, ~Full, closed' = closed PROVE Goal
  <2>1. PICK m \in Messages : buffer' = [buffer EXCEPT ![tail] = m]
    BY <1>2 DEF Put
  <2>2. Follows' /\ Queue' = Append(Queue, m)
    BY <1>2, <2>1, PutQueue DEF Put, QInv
  <2>3. count < Capacity
    BY <1>2, RingFacts DEF Full, QInv
  <2>4. QED BY <1>2, <2>2, <2>3 DEF Sent
<1>3. ASSUME NEW t \in Threads, Take(t), count > 0, closed' = closed PROVE Goal
  BY <1>3, TakeQueue DEF Take, QInv, Received
<1>4. ASSUME UNCHANGED ring, closed' = closed PROVE Goal
  BY <1>1, <1>4 DEF Untouched
<1>5. ASSUME NEW t \in Threads, SendStep(t) PROVE Goal
  BY <1>2, <1>4, <1>5 DEF SendStep, Return, Block
<1>6. ASSUME NEW t \in Threads, ReceiveStep(t) PROVE Goal
  BY <1>3, <1>4, <1>6 DEF ReceiveStep, Return, Block
<1>7. ASSUME NEW t \in Threads, Expired(t) PROVE Goal
  BY <1>3, <1>4, <1>7 DEF Expired, Return
<1>8. ASSUME NEW t \in Threads, TryReceive(t) PROVE Goal
  BY <1>3, <1>8 DEF TryReceive
<1>9. ASSUME NEW t \in Threads, Close(t) PROVE Goal
  BY <1>1, <1>9 DEF Close, Closed
<1>10. ASSUME NEW t \in Threads, Call(t) \/ Expire(t) \/ Spurious(t) PROVE Goal
  BY <1>4, <1>10 DEF Call, Expire, Spurious
<1>11. ASSUME UNCHANGED vars PROVE Goal
  BY <1>4, <1>11 DEF vars
<1>12. QED BY <1>5, <1>6, <1>7, <1>8, <1>9, <1>10, <1>11 DEF Next

(* channel_send, channel_receive, channel_try_receive, channel_close: the   *)
(* ring hands every accepted message out once, oldest first, holds Capacity *)
(* at most, takes nothing after close and keeps what it holds.              *)
THEOREM ChannelIsFifo == Spec => ImplementsFifo
<1>1. Init => Fifo!Init
  BY InitQInv DEF Init, Fifo!Init, Queue
<1>2. ASSUME QInv, [Next]_vars PROVE [Fifo!Next]_(Fifo!vars)
  <2>1. CASE Sent
    <3>1. Len(Queue) = count
      BY <1>2, QueueSeq DEF QInv
    <3>2. QED BY <2>1, <3>1 DEF Sent, Queue, Fifo!Next, Fifo!Send
  <2>2. CASE Received
    BY <2>2 DEF Received, Queue, Fifo!Next, Fifo!Receive
  <2>3. CASE Closed
    BY <2>3 DEF Closed, Queue, Fifo!Next, Fifo!Close
  <2>4. CASE Untouched
    BY <2>4 DEF Untouched, Queue, Fifo!vars
  <2>5. QED BY <1>2, <2>1, <2>2, <2>3, <2>4, QueueSteps
<1>3. QInv /\ [Next]_vars => QInv'
  BY NextTypeOK, QueueSteps DEF QInv
<1>4. QED BY InitQInv, <1>1, <1>2, <1>3, PTL DEF Spec, ImplementsFifo, Fifo!Spec

-----------------------------------------------------------------------------
(* The thread pool: what it promises is about Pool!Spec.                    *)

(* An instance has a FiniteSets of its own.                                *)
LEMMA SameSize == \A S : Pool!Cardinality(S) = Cardinality(S) /\ Pool!IsFiniteSet(S) = IsFiniteSet(S)
BY DEF Pool!Cardinality, Cardinality, Pool!IsFiniteSet, IsFiniteSet

LEMMA PoolConstants ==
  /\ InitCapacity \in Nat \ {0, 1} /\ NoTask \notin Tasks /\ Nobody \notin Workers
  /\ IsFiniteSet(Tasks)
BY SameSize, PoolAssumption DEF Pool!PoolAssumption

(* Arithmetic in a ring of c slots.                                        *)

Between(h, t, c) == IF h <= t THEN t - h ELSE t - h + c
Position(h, i, c) == IF h + i - 1 < c THEN h + i - 1 ELSE h + i - 1 - c

LEMMA Once ==
  ASSUME NEW c \in Nat, c > 0, NEW x \in Nat, x < c
  PROVE  x % c = x
OBVIOUS

LEMMA Around ==
  ASSUME NEW c \in Nat, c > 0, NEW x \in Nat, x < c
  PROVE  (c + x) % c = x
<1>1. (c + x) \div c = 1
  OBVIOUS
<1>2. QED BY <1>1

LEMMA Below ==
  ASSUME NEW c \in Nat, c > 0, NEW x \in Nat, x < c, x > 0
  PROVE  (x - c) % c = x
<1>1. (x - c) \div c = -1
  OBVIOUS
<1>2. QED BY <1>1

LEMMA BetweenIs ==
  ASSUME NEW c \in Nat, NEW h \in 0 .. c - 1, NEW t \in 0 .. c - 1
  PROVE  (t - h) % c = Between(h, t, c) /\ Between(h, t, c) \in 0 .. c - 1
<1>1. CASE h <= t
  <2>1. t - h \in Nat /\ t - h < c /\ c > 0
    BY <1>1
  <2>2. QED BY <1>1, <2>1, Once DEF Between
<1>2. CASE h > t
  <2> DEFINE x == t - h + c
  <2>1. x \in Nat /\ x < c /\ x > 0 /\ c > 0
    BY <1>2
  <2>2. (x - c) % c = x
    BY <2>1, Below
  <2>3. x - c = t - h
    OBVIOUS
  <2>4. QED BY <1>2, <2>1, <2>2, <2>3 DEF Between
<1>3. QED BY <1>1, <1>2

LEMMA PlaceIs ==
  ASSUME NEW c \in Nat, NEW h \in 0 .. c - 1, NEW i \in 1 .. c
  PROVE  (h + i - 1) % c = Position(h, i, c) /\ Position(h, i, c) \in 0 .. c - 1
<1>1. CASE h + i - 1 < c
  <2>1. h + i - 1 \in Nat /\ c > 0
    OBVIOUS
  <2>2. QED BY <1>1, <2>1, Once DEF Position
<1>2. CASE h + i - 1 >= c
  <2> DEFINE x == h + i - 1 - c
  <2>1. x \in Nat /\ x < c /\ c > 0
    BY <1>2
  <2>2. (c + x) % c = x
    BY <2>1, Around
  <2>3. c + x = h + i - 1
    OBVIOUS
  <2>4. QED BY <1>2, <2>1, <2>2, <2>3 DEF Position
<1>3. QED BY <1>1, <1>2

LEMMA NextIs ==
  ASSUME NEW c \in Nat, NEW i \in 0 .. c - 1
  PROVE  (i + 1) % c = (IF i + 1 < c THEN i + 1 ELSE 0) /\ (i + 1) % c \in 0 .. c - 1
<1>1. CASE i + 1 < c
  BY <1>1, Once
<1>2. CASE i + 1 = c
  <2>1. (c + 0) % c = 0
    BY Around
  <2>2. QED BY <1>2, <2>1
<1>3. QED BY <1>1, <1>2

-----------------------------------------------------------------------------
(* The tasks in the ring, oldest first.                                    *)
Contents == [i \in 1 .. Pool!Pending |-> slots[(first + i - 1) % Pool!Capacity]]


TasksOK ==
  /\ \E c \in Nat : slots \in [0 .. c - 1 -> Tasks \union {NoTask}]
  /\ first \in DOMAIN slots
  /\ last \in DOMAIN slots

LEMMA CapacityOf ==
  ASSUME NEW c \in Nat, NEW S, NEW f \in [0 .. c - 1 -> S]
  PROVE  Cardinality(DOMAIN f) = c
<1>1. 0 \in Int /\ c - 1 \in Int
  OBVIOUS
<1>2. Cardinality(0 .. c - 1) = c
  BY <1>1, FS_Interval
<1>3. QED BY <1>2

LEMMA TasksRing ==
  ASSUME TasksOK
  PROVE  /\ Pool!Capacity \in Nat /\ Pool!Capacity > 0
         /\ slots \in [0 .. Pool!Capacity - 1 -> Tasks \union {NoTask}]
         /\ first \in 0 .. Pool!Capacity - 1 /\ last \in 0 .. Pool!Capacity - 1
         /\ Pool!Pending = Between(first, last, Pool!Capacity) /\ Pool!Pending \in 0 .. Pool!Capacity - 1
         /\ Contents = [i \in 1 .. Pool!Pending |-> slots[Position(first, i, Pool!Capacity)]]
         /\ \A i \in 1 .. Pool!Pending : Position(first, i, Pool!Capacity) \in 0 .. Pool!Capacity - 1
         /\ Contents \in Seq(Tasks \union {NoTask}) /\ Len(Contents) = Pool!Pending
<1>1. PICK c \in Nat : slots \in [0 .. c - 1 -> Tasks \union {NoTask}]
  BY DEF TasksOK
<1>2. Pool!Capacity = c
  BY <1>1, CapacityOf, SameSize DEF Pool!Capacity
<1>3. first \in 0 .. Pool!Capacity - 1 /\ last \in 0 .. Pool!Capacity - 1 /\ Pool!Capacity > 0
  BY <1>1, <1>2 DEF TasksOK
<1>4. Pool!Pending = Between(first, last, Pool!Capacity) /\ Pool!Pending \in 0 .. Pool!Capacity - 1
  BY <1>2, <1>3, BetweenIs DEF Pool!Pending
<1>5. \A i \in 1 .. Pool!Pending :
        /\ (first + i - 1) % Pool!Capacity = Position(first, i, Pool!Capacity)
        /\ Position(first, i, Pool!Capacity) \in 0 .. Pool!Capacity - 1
  <2>1. \A i \in 1 .. Pool!Pending : i \in 1 .. Pool!Capacity
    BY <1>2, <1>4
  <2>2. QED BY <1>2, <1>3, <2>1, PlaceIs
<1>6. Contents = [i \in 1 .. Pool!Pending |-> slots[Position(first, i, Pool!Capacity)]]
  BY <1>5 DEF Contents
<1>7. \A i \in 1 .. Pool!Pending : slots[Position(first, i, Pool!Capacity)] \in Tasks \union {NoTask}
  BY <1>1, <1>2, <1>5
<1>8. Contents \in [1 .. Pool!Pending -> Tasks \union {NoTask}] /\ Pool!Pending \in Nat
  BY <1>4, <1>6, <1>7
<1>9. Contents \in Seq(Tasks \union {NoTask}) /\ Len(Contents) = Pool!Pending
  BY <1>8
<1>10. QED BY <1>1, <1>2, <1>3, <1>4, <1>5, <1>6, <1>9

(* A sequence with one more at the end, and one without its first.         *)
LEMMA OneMore ==
  ASSUME NEW S, NEW q \in Seq(S), NEW x \in S, NEW n \in Nat, Len(q) = n,
         NEW r \in [1 .. n + 1 -> S],
         \A i \in 1 .. n : r[i] = q[i],  r[n + 1] = x
  PROVE  r = Append(q, x)
<1>1. Append(q, x) \in Seq(S) /\ Len(Append(q, x)) = n + 1
  BY AppendProperties
<1>2. \A i \in 1 .. n : Append(q, x)[i] = q[i]
  BY AppendProperties
<1>3. Append(q, x)[n + 1] = x
  BY AppendProperties
<1>4. \A i \in 1 .. n + 1 : i # n + 1 => i \in 1 .. n
  OBVIOUS
<1>5. Append(q, x) \in [1 .. n + 1 -> S]
  BY <1>1, LenProperties
<1>6. \A i \in 1 .. n + 1 : r[i] = Append(q, x)[i]
  BY <1>2, <1>3, <1>4
<1>7. QED BY <1>5, <1>6

LEMMA OneLess ==
  ASSUME NEW S, NEW q \in Seq(S), NEW n \in Nat, Len(q) = n + 1,
         NEW r \in [1 .. n -> S],
         \A i \in 1 .. n : r[i] = q[i + 1]
  PROVE  q # << >> /\ r = Tail(q)
<1>1. q # << >>
  BY EmptySeq
<1>2. Tail(q) \in Seq(S) /\ Len(Tail(q)) = n
  BY <1>1, HeadTailProperties
<1>3. \A i \in 1 .. n : Tail(q)[i] = q[i + 1]
  BY <1>1, <1>2, HeadTailProperties
<1>4. Tail(q) \in [1 .. n -> S]
  BY <1>2, LenProperties
<1>5. QED BY <1>1, <1>3, <1>4

-----------------------------------------------------------------------------
(* What the steps do to the ring.                                          *)

LEMMA PutTask ==
  ASSUME TasksOK, ~Pool!RingFull, NEW t \in Tasks,
         slots' = [slots EXCEPT ![last] = t], last' = Pool!NextSlot(last, Pool!Capacity), first' = first
  PROVE  TasksOK' /\ Contents' = Append(Contents, t)
<1> DEFINE c == Pool!Capacity
           n == Pool!Pending
           S == Tasks \union {NoTask}
<1>1. /\ c \in Nat /\ slots \in [0 .. c - 1 -> S] /\ first \in 0 .. c - 1 /\ last \in 0 .. c - 1
      /\ n = Between(first, last, c) /\ n \in 0 .. c - 1
      /\ \A i \in 1 .. n : Position(first, i, c) \in 0 .. c - 1
      /\ Contents = [i \in 1 .. n |-> slots[Position(first, i, c)]]
      /\ Contents \in Seq(S) /\ Len(Contents) = n
  BY TasksRing
<1>2. last' = (IF last + 1 < c THEN last + 1 ELSE 0) /\ last' \in 0 .. c - 1
  BY <1>1, NextIs DEF Pool!NextSlot
<1>3. last' # first
  BY DEF Pool!RingFull
<1>4. slots' \in [0 .. c - 1 -> S] /\ DOMAIN slots' = DOMAIN slots
  BY <1>1
<1>5. TasksOK'
  BY <1>1, <1>2, <1>4 DEF TasksOK
<1>6. Pool!Capacity' = c
  BY <1>4 DEF Pool!Capacity
<1>7. Pool!Pending' = Between(first, last', c)
  BY <1>1, <1>2, <1>6, BetweenIs DEF Pool!Pending
<1> HIDE DEF c, n, S
<1>8. Pool!Pending' = n + 1
  BY <1>1, <1>2, <1>3, <1>7 DEF Between
<1>9. \A i \in 1 .. n + 1 : /\ (first + i - 1) % c = Position(first, i, c)
                            /\ Position(first, i, c) \in 0 .. c - 1
  <2>1. \A i \in 1 .. n + 1 : i \in 1 .. c
    BY <1>1
  <2>2. QED BY <1>1, <2>1, PlaceIs
<1>10. Contents' = [i \in 1 .. n + 1 |-> slots'[Position(first, i, c)]]
  BY <1>6, <1>8, <1>9 DEF Contents
<1>11. \A i \in 1 .. n : Position(first, i, c) # last
  BY <1>1 DEF Between, Position
<1>12. Position(first, n + 1, c) = last
  BY <1>1 DEF Between, Position
<1>13. \A i \in 1 .. n : i \in 1 .. n + 1
  BY <1>1
<1>14. \A i \in 1 .. n : Contents'[i] = Contents[i]
  BY <1>1, <1>10, <1>11, <1>13
<1>15. n + 1 \in 1 .. n + 1 /\ n \in Nat
  BY <1>1
<1>16. Contents'[n + 1] = t
  BY <1>1, <1>10, <1>12, <1>15
<1>17. t \in S
  BY DEF S
<1>18. Contents' \in [1 .. n + 1 -> S]
  BY <1>4, <1>9, <1>10 DEF S
<1>19. Contents' = Append(Contents, t)
  BY <1>1, <1>14, <1>15, <1>16, <1>17, <1>18, OneMore
<1>20. QED BY <1>5, <1>19

LEMMA Grow ==
  ASSUME TasksOK, Pool!RingFull, NEW t \in Tasks,
         slots' = [Pool!Copied EXCEPT ![Pool!Pending] = t], last' = Pool!Pending + 1, first' = 0
  PROVE  TasksOK' /\ Contents' = Append(Contents, t)
<1> DEFINE c == Pool!Capacity
           n == Pool!Pending
           S == Tasks \union {NoTask}
           d == 2 * c
<1>1. /\ c \in Nat /\ slots \in [0 .. c - 1 -> S] /\ first \in 0 .. c - 1 /\ last \in 0 .. c - 1
      /\ n = Between(first, last, c) /\ n \in 0 .. c - 1
      /\ \A i \in 1 .. n : Position(first, i, c) \in 0 .. c - 1
      /\ Contents = [i \in 1 .. n |-> slots[Position(first, i, c)]]
      /\ Contents \in Seq(S) /\ Len(Contents) = n
  BY TasksRing
<1>2. \A i \in 0 .. n - 1 : (first + i) % c = Position(first, i + 1, c) /\ Position(first, i + 1, c) \in 0 .. c - 1
  <2>1. TAKE i \in 0 .. n - 1
  <2>2. i + 1 \in 1 .. c /\ first + (i + 1) - 1 = first + i
    BY <1>1
  <2>3. QED BY <1>1, <2>2, PlaceIs
<1>3. Pool!Copied = [i \in 0 .. d - 1 |-> IF i < n THEN slots[(first + i) % c] ELSE NoTask]
  BY DEF Pool!Copied
<1>4. Pool!Copied \in [0 .. d - 1 -> S]
  <2>1. \A i \in 0 .. d - 1 : i < n => i \in 0 .. n - 1
    BY <1>1
  <2>2. \A i \in 0 .. d - 1 : i < n => slots[(first + i) % c] \in S
    BY <1>1, <1>2, <2>1
  <2>3. QED BY <1>3, <2>2
<1>5. slots' \in [0 .. d - 1 -> S]
  BY <1>4
<1>6. d \in Nat /\ 0 \in 0 .. d - 1 /\ n \in 0 .. d - 1 /\ n + 1 \in 0 .. d - 1
  BY <1>1
<1>7. TasksOK'
  BY <1>5, <1>6 DEF TasksOK
<1>8. Pool!Capacity' = d
  BY <1>5, <1>6, CapacityOf, SameSize DEF Pool!Capacity
<1>9. Pool!Pending' = n + 1
  <2>1. Pool!Pending' = Between(0, n + 1, d)
    BY <1>6, <1>8, BetweenIs DEF Pool!Pending
  <2>2. QED BY <1>1, <2>1 DEF Between
<1>10. \A i \in 1 .. n + 1 : (0 + i - 1) % d = i - 1 /\ i - 1 \in 0 .. d - 1
  <2>1. TAKE i \in 1 .. n + 1
  <2>2. i - 1 \in Nat /\ i - 1 < d /\ d > 0 /\ 0 + i - 1 = i - 1
    BY <1>1
  <2>3. QED BY <1>6, <2>2, Once
<1>11. Contents' = [i \in 1 .. n + 1 |-> slots'[i - 1]]
  BY <1>8, <1>9, <1>10 DEF Contents
<1>12. \A i \in 1 .. n : slots'[i - 1] = slots[Position(first, i, c)]
  <2>1. TAKE i \in 1 .. n
  <2>2. i - 1 \in 0 .. n - 1 /\ i - 1 \in 0 .. d - 1 /\ (i - 1) + 1 = i /\ i - 1 # n /\ i - 1 < n
    BY <1>1
  <2>3. slots'[i - 1] = Pool!Copied[i - 1]
    BY <1>4, <2>2
  <2>4. Pool!Copied[i - 1] = slots[(first + (i - 1)) % c]
    BY <1>3, <2>2
  <2>5. QED BY <1>2, <2>2, <2>3, <2>4
<1> HIDE DEF c, n, S, d
<1>13. \A i \in 1 .. n : i \in 1 .. n + 1
  BY <1>1
<1>14. \A i \in 1 .. n : Contents'[i] = Contents[i]
  BY <1>1, <1>11, <1>12, <1>13
<1>15. n + 1 \in 1 .. n + 1 /\ n \in Nat /\ (n + 1) - 1 = n
  BY <1>1
<1>16. slots'[n] = t
  BY <1>4, <1>6 DEF n
<1>17. Contents'[n + 1] = t
  BY <1>11, <1>15, <1>16
<1>18. t \in S
  BY DEF S
<1>19. Contents' \in [1 .. n + 1 -> S]
  BY <1>5, <1>10, <1>11
<1>20. Contents' = Append(Contents, t)
  BY <1>1, <1>14, <1>15, <1>17, <1>18, <1>19, OneMore
<1>21. QED BY <1>7, <1>20

LEMMA TakeTask ==
  ASSUME TasksOK, first # last, slots' = slots, last' = last, first' = Pool!NextSlot(first, Pool!Capacity)
  PROVE  TasksOK' /\ Contents # << >> /\ Contents' = Tail(Contents) /\ slots[first] = Contents[1]
<1> DEFINE c == Pool!Capacity
           n == Pool!Pending
           S == Tasks \union {NoTask}
<1>1. /\ c \in Nat /\ slots \in [0 .. c - 1 -> S] /\ first \in 0 .. c - 1 /\ last \in 0 .. c - 1
      /\ n = Between(first, last, c) /\ n \in 0 .. c - 1
      /\ \A i \in 1 .. n : Position(first, i, c) \in 0 .. c - 1
      /\ Contents = [i \in 1 .. n |-> slots[Position(first, i, c)]]
      /\ Contents \in Seq(S) /\ Len(Contents) = n
  BY TasksRing
<1>2. first' = (IF first + 1 < c THEN first + 1 ELSE 0) /\ first' \in 0 .. c - 1
  BY <1>1, NextIs DEF Pool!NextSlot
<1>3. TasksOK'
  BY <1>1, <1>2 DEF TasksOK
<1>4. Pool!Capacity' = c
  BY DEF Pool!Capacity
<1>5. Pool!Pending' = Between(first', last, c)
  BY <1>1, <1>2, <1>4, BetweenIs DEF Pool!Pending
<1> HIDE DEF c, n, S
<1>6. n - 1 \in Nat /\ Pool!Pending' = n - 1
  BY <1>1, <1>2, <1>5 DEF Between
<1>7. \A i \in 1 .. n - 1 : (first' + i - 1) % c = Position(first', i, c)
  <2>1. \A i \in 1 .. n - 1 : i \in 1 .. c
    BY <1>1
  <2>2. QED BY <1>1, <1>2, <2>1, PlaceIs
<1>8. \A i \in 1 .. n - 1 : Position(first', i, c) = Position(first, i + 1, c)
  BY <1>1, <1>2 DEF Position
<1>9. Contents' = [i \in 1 .. n - 1 |-> slots[Position(first, i + 1, c)]]
  BY <1>4, <1>6, <1>7, <1>8 DEF Contents
<1>10. \A i \in 1 .. n - 1 : i + 1 \in 1 .. n
  BY <1>1
<1>11. \A i \in 1 .. n - 1 : Contents'[i] = Contents[i + 1]
  BY <1>1, <1>9, <1>10
<1>12. Contents' \in [1 .. n - 1 -> S]
  BY <1>1, <1>9, <1>10
<1>13. Contents # << >> /\ Contents' = Tail(Contents)
  <2>1. Len(Contents) = (n - 1) + 1
    BY <1>1
  <2>2. QED BY <1>1, <1>6, <1>11, <1>12, <2>1, OneLess, SMTT(30)
<1>14. Position(first, 1, c) = first /\ 1 \in 1 .. n
  BY <1>1, <1>6 DEF Position
<1>15. QED BY <1>1, <1>3, <1>13, <1>14

-----------------------------------------------------------------------------
(* The invariant.  A worker between two of its steps holds the mutex, and   *)
(* what it has found in the ring stays there.                               *)
Locations == {"top", "lock", "test", "wait", "blocked", "woken", "check", "run", "done"}

ControlTypes ==
  /\ running \in BOOLEAN
  /\ owner \in Workers \union {Nobody}
  /\ pc \in [Workers -> Locations]
  /\ job \in [Workers -> Tasks \union {NoTask}]
  /\ client \in [Clients -> {"idle", "waiting", "stopped", "joining", "destroyed"}]
  /\ fate \in [Tasks -> {"new", "added", "run", "lost"}]
  /\ missed \subseteq Workers

MutexHeld == \A w \in Workers : pc[w] \in {"test", "wait", "check"} <=> owner = w
TaskFound == \A w \in Workers : pc[w] = "check" /\ running => first # last

Control == ControlTypes /\ MutexHeld /\ TaskFound

(* The ring holds tasks that were added, each once and none that a worker   *)
(* runs; a task that was added is in the ring or in the hands of a worker.  *)
Elements(q) == {q[i] : i \in 1 .. Len(q)}
Distinct(q) == \A i, j \in 1 .. Len(q) : q[i] = q[j] => i = j
AcceptedTasks == {t \in Tasks : fate[t] = "added"}

InRing == TasksOK /\ Elements(Contents) \subseteq AcceptedTasks /\ Distinct(Contents)
InHand ==
  \A w \in Pool!In("run") : job[w] \in Tasks /\ fate[job[w]] # "new" /\ job[w] \notin Elements(Contents)
Somewhere ==
  \A t \in AcceptedTasks : t \in Elements(Contents) \/ \E w \in Pool!In("run") : job[w] = t

PoolInv == Control /\ InRing /\ InHand /\ Somewhere

LEMMA AppendElements ==
  ASSUME NEW S, NEW q \in Seq(S), NEW x \in S
  PROVE  /\ Elements(Append(q, x)) = Elements(q) \union {x}
         /\ Distinct(q) /\ x \notin Elements(q) => Distinct(Append(q, x))
<1> DEFINE n == Len(q)
           r == Append(q, x)
<1>1. n \in Nat /\ Len(r) = n + 1 /\ r[n + 1] = x /\ \A i \in 1 .. n : r[i] = q[i]
  BY AppendProperties, LenProperties
<1>2. \A i \in 1 .. n + 1 : i \in 1 .. n \/ i = n + 1
  BY <1>1
<1>3. n + 1 \in 1 .. n + 1 /\ \A i \in 1 .. n : i \in 1 .. n + 1
  BY <1>1
<1> HIDE DEF n, r
<1>4. Elements(r) = {r[i] : i \in 1 .. n + 1} /\ Elements(q) = {q[i] : i \in 1 .. n}
  BY <1>1 DEF Elements, n
<1>5. Elements(r) = Elements(q) \union {x}
  BY <1>1, <1>2, <1>3, <1>4
<1>6. ASSUME Distinct(q), x \notin Elements(q) PROVE Distinct(r)
  <2>1. \A i, j \in 1 .. n : q[i] = q[j] => i = j
    BY <1>6 DEF Distinct, n
  <2>2. \A i \in 1 .. n : q[i] # x
    BY <1>4, <1>6
  <2>3. \A i, j \in 1 .. n + 1 : r[i] = r[j] => i = j
    BY <1>1, <1>2, <2>1, <2>2
  <2>4. QED BY <1>1, <2>3 DEF Distinct
<1>7. QED BY <1>5, <1>6 DEF r

LEMMA TailElements ==
  ASSUME NEW S, NEW q \in Seq(S), q # << >>
  PROVE  /\ q[1] \in Elements(q) /\ Elements(Tail(q)) \subseteq Elements(q)
         /\ Elements(q) = Elements(Tail(q)) \union {q[1]}
         /\ Distinct(q) => Distinct(Tail(q)) /\ q[1] \notin Elements(Tail(q))
<1> DEFINE n == Len(q) - 1
           r == Tail(q)
<1>1. n \in Nat /\ Len(q) = n + 1 /\ Len(r) = n
  BY EmptySeq, HeadTailProperties, LenProperties
<1>2. \A i \in 1 .. n : r[i] = q[i + 1]
  BY <1>1, HeadTailProperties
<1>3. \A i \in 1 .. n : i + 1 \in 1 .. n + 1 /\ i + 1 # 1
  BY <1>1
<1>4. 1 \in 1 .. n + 1 /\ \A i \in 1 .. n + 1 : i # 1 => i - 1 \in 1 .. n /\ (i - 1) + 1 = i
  BY <1>1
<1> HIDE DEF n, r
<1>5. Elements(q) = {q[i] : i \in 1 .. n + 1} /\ Elements(r) = {r[i] : i \in 1 .. n}
  BY <1>1 DEF Elements
<1>6. q[1] \in Elements(q) /\ Elements(r) \subseteq Elements(q)
  BY <1>2, <1>3, <1>4, <1>5
<1>7. Elements(q) = Elements(r) \union {q[1]}
  <2>1. \A i \in 1 .. n + 1 : i # 1 => q[i] = r[i - 1]
    BY <1>2, <1>4
  <2>2. \A i \in 1 .. n + 1 : q[i] \in Elements(r) \union {q[1]}
    BY <1>4, <1>5, <2>1
  <2>3. QED BY <1>5, <1>6, <2>2
<1>8. ASSUME Distinct(q) PROVE Distinct(r) /\ q[1] \notin Elements(r)
  <2>1. \A i, j \in 1 .. n + 1 : q[i] = q[j] => i = j
    BY <1>1, <1>8 DEF Distinct
  <2>2. \A i \in 1 .. n : q[i + 1] # q[1]
    BY <1>3, <1>4, <2>1
  <2>3. \A i, j \in 1 .. n : q[i + 1] = q[j + 1] => i = j
    <3>1. TAKE i, j \in 1 .. n
    <3>2. i + 1 = j + 1 => i = j
      OBVIOUS
    <3>3. QED BY <1>3, <2>1, <3>2
  <2>4. QED BY <1>1, <1>2, <1>5, <2>2, <2>3 DEF Distinct
<1>9. QED BY <1>6, <1>7, <1>8 DEF r

-----------------------------------------------------------------------------
(* The steps.                                                              *)

LEMMA InitPoolInv ==
  ASSUME Pool!Init
  PROVE  PoolInv /\ Contents = << >>
<1>1. InitCapacity \in Nat /\ 0 \in 0 .. InitCapacity - 1 /\ NoTask \notin Tasks /\ Nobody \notin Workers
  BY PoolConstants
<1>2. slots \in [0 .. InitCapacity - 1 -> Tasks \union {NoTask}] /\ first = 0 /\ last = 0
  BY DEF Pool!Init
<1>3. TasksOK
  BY <1>1, <1>2 DEF TasksOK
<1>4. Pool!Pending = 0
  BY <1>2, <1>3, TasksRing DEF Between
<1>5. Contents = << >>
  BY <1>3, <1>4, TasksRing, EmptySeq
<1>6. Elements(Contents) = {} /\ Distinct(Contents)
  <2>1. 1 .. Len(Contents) = {}
    BY <1>3, <1>4, TasksRing
  <2>2. QED BY <2>1 DEF Elements, Distinct
<1>7. Control
  BY <1>1 DEF Pool!Init, Control, ControlTypes, MutexHeld, TaskFound, Locations
<1>8. Pool!In("run") = {} /\ AcceptedTasks = {}
  BY DEF Pool!Init, Pool!In, AcceptedTasks
<1>9. QED BY <1>3, <1>5, <1>6, <1>7, <1>8 DEF PoolInv, InRing, InHand, Somewhere

(* Steps that leave the ring and the tasks alone.                          *)
Quiet ==
  /\ UNCHANGED <<Pool!ring, fate>>
  /\ \A w \in Workers : /\ pc'[w] = "run" <=> pc[w] = "run"
                        /\ pc[w] = "run" => job'[w] = job[w]

LEMMA QuietKeeps ==
  ASSUME PoolInv, Quiet
  PROVE  InRing' /\ InHand' /\ Somewhere' /\ Contents' = Contents
<1>1. Contents' = Contents /\ TasksOK' /\ AcceptedTasks' = AcceptedTasks
  BY DEF Quiet, Pool!ring, Contents, Pool!Pending, Pool!Capacity, TasksOK, AcceptedTasks, PoolInv, InRing
<1>2. Pool!In("run")' = Pool!In("run") /\ \A w \in Pool!In("run") : job'[w] = job[w]
  BY DEF Quiet, Pool!In
<1>3. fate' = fate
  BY DEF Quiet
<1>4. InRing'
  BY <1>1 DEF PoolInv, InRing, Elements, Distinct
<1>5. Elements(Contents)' = Elements(Contents)
  BY <1>1 DEF Elements
<1>6. InHand'
  BY <1>2, <1>3, <1>5 DEF PoolInv, InHand
<1>7. Somewhere'
  BY <1>1, <1>2, <1>5 DEF PoolInv, Somewhere
<1>8. QED BY <1>1, <1>4, <1>6, <1>7

LEMMA RunStep ==
  ASSUME PoolInv, NEW w \in Workers, Pool!Run(w)
  PROVE  InRing' /\ InHand' /\ Somewhere' /\ Contents' = Contents
<1>1. /\ pc[w] = "run" /\ job[w] \in Tasks /\ job[w] \notin Elements(Contents)
      /\ fate \in [Tasks -> {"new", "added", "run", "lost"}] /\ pc \in [Workers -> Locations]
  BY DEF Pool!Run, PoolInv, InHand, Pool!In, Control, ControlTypes
<1>2. fate' = [fate EXCEPT ![job[w]] = "run"] /\ pc' = [pc EXCEPT ![w] = "top"]
  BY DEF Pool!Run, Pool!Goto
<1>3. Contents' = Contents /\ TasksOK'
  BY DEF Pool!Run, Pool!ring, Contents, Pool!Pending, Pool!Capacity, TasksOK, PoolInv, InRing
<1>4. Elements(Contents)' = Elements(Contents) /\ Distinct(Contents)'
  BY <1>3 DEF Elements, Distinct, PoolInv, InRing
<1>5. AcceptedTasks' = AcceptedTasks \ {job[w]}
  BY <1>1, <1>2 DEF AcceptedTasks
<1>6. Pool!In("run")' = Pool!In("run") \ {w}
  BY <1>1, <1>2 DEF Pool!In
<1>7. \A v \in Pool!In("run") \ {w} : job'[v] = job[v]
  BY DEF Pool!Run, Pool!In, PoolInv, Control, ControlTypes
<1>8. InRing'
  BY <1>1, <1>3, <1>4, <1>5 DEF PoolInv, InRing
<1>9. InHand'
  BY <1>1, <1>2, <1>4, <1>6, <1>7 DEF PoolInv, InHand
<1>10. Somewhere'
  BY <1>2, <1>4, <1>5, <1>6, <1>7 DEF PoolInv, Somewhere
<1>11. QED BY <1>3, <1>8, <1>9, <1>10

LEMMA CheckStep ==
  ASSUME PoolInv, NEW w \in Workers, Pool!Check(w), running
  PROVE  InRing' /\ InHand' /\ Somewhere' /\ Contents # << >> /\ Contents' = Tail(Contents)
<1>1. /\ pc[w] = "check" /\ first # last /\ TasksOK
      /\ job \in [Workers -> Tasks \union {NoTask}] /\ pc \in [Workers -> Locations]
  BY DEF Pool!Check, PoolInv, InRing, Control, ControlTypes, TaskFound
<1>2. /\ job' = [job EXCEPT ![w] = slots[first]] /\ pc' = [pc EXCEPT ![w] = "run"] /\ fate' = fate
      /\ slots' = slots /\ last' = last /\ first' = Pool!NextSlot(first, Pool!Capacity)
  BY DEF Pool!Check, Pool!Goto
<1>3. TasksOK' /\ Contents # << >> /\ Contents' = Tail(Contents) /\ slots[first] = Contents[1]
  BY <1>1, <1>2, TakeTask
<1>4. Contents \in Seq(Tasks \union {NoTask})
  BY <1>1, TasksRing
<1> DEFINE x == Contents[1]
<1>5. /\ x \in Elements(Contents) /\ Elements(Contents') \subseteq Elements(Contents)
      /\ Elements(Contents) = Elements(Contents') \union {x}
      /\ Distinct(Contents') /\ x \notin Elements(Contents')
  BY <1>3, <1>4, TailElements DEF PoolInv, InRing
<1>6. AcceptedTasks' = AcceptedTasks /\ x \in Tasks /\ fate[x] = "added"
  BY <1>2, <1>5 DEF AcceptedTasks, PoolInv, InRing
<1> HIDE DEF x
<1>7. Pool!In("run")' = Pool!In("run") \union {w}
  BY <1>1, <1>2 DEF Pool!In
<1>8. /\ job'[w] = x
      /\ \A v \in Pool!In("run") : job'[v] = job[v]
  BY <1>1, <1>2, <1>3 DEF Pool!In, x
<1>9. InRing'
  BY <1>3, <1>5, <1>6 DEF PoolInv, InRing, Elements, Distinct
<1>10. Elements(Contents)' = Elements(Contents')
  BY DEF Elements
<1>11. InHand'
  BY <1>2, <1>5, <1>6, <1>7, <1>8, <1>10 DEF PoolInv, InHand
<1>12. Somewhere'
  BY <1>5, <1>6, <1>7, <1>8, <1>10 DEF PoolInv, Somewhere
<1>13. QED BY <1>3, <1>9, <1>11, <1>12

(* A signal and a broadcast only wake.                                     *)
OnlyWakes == \A w \in Workers : pc'[w] = pc[w] \/ (pc[w] = "blocked" /\ pc'[w] = "woken")

LEMMA SignalWakes ==
  ASSUME pc \in [Workers -> Locations], Pool!Signal
  PROVE  OnlyWakes /\ pc' \in [Workers -> Locations]
<1>1. CASE Pool!In("blocked") = {}
  BY <1>1 DEF Pool!Signal, OnlyWakes
<1>2. CASE Pool!In("blocked") # {}
  BY <1>2 DEF Pool!Signal, OnlyWakes, Pool!Goto, Pool!In, Locations
<1>3. QED BY <1>1, <1>2

LEMMA AddStep ==
  ASSUME PoolInv, NEW t \in Tasks, fate[t] = "new",
         TasksOK', Contents' = Append(Contents, t), fate' = [fate EXCEPT ![t] = "added"], OnlyWakes, job' = job
  PROVE  InRing' /\ InHand' /\ Somewhere'
<1>1. fate \in [Tasks -> {"new", "added", "run", "lost"}] /\ TasksOK
  BY DEF PoolInv, Control, ControlTypes, InRing
<1>2. AcceptedTasks' = AcceptedTasks \union {t} /\ t \notin AcceptedTasks
  BY <1>1 DEF AcceptedTasks
<1>3. t \notin Elements(Contents) /\ Distinct(Contents)
  BY <1>2 DEF PoolInv, InRing
<1>4. Contents \in Seq(Tasks \union {NoTask})
  BY <1>1, TasksRing
<1>5. Elements(Contents') = Elements(Contents) \union {t} /\ Distinct(Contents')
  BY <1>3, <1>4, AppendElements
<1>6. Elements(Contents)' = Elements(Contents') /\ Distinct(Contents)' = Distinct(Contents')
  BY DEF Elements, Distinct
<1>7. Pool!In("run")' = Pool!In("run")
  BY DEF OnlyWakes, Pool!In
<1>8. InRing'
  BY <1>2, <1>5, <1>6 DEF PoolInv, InRing
<1>9. \A w \in Pool!In("run") : job[w] # t
  BY DEF PoolInv, InHand
<1>10. InHand'
  BY <1>1, <1>5, <1>6, <1>7, <1>9 DEF PoolInv, InHand
<1>11. Somewhere'
  BY <1>2, <1>5, <1>6, <1>7 DEF PoolInv, Somewhere
<1>12. QED BY <1>8, <1>10, <1>11

(* A task is lost when the ring cannot grow.                               *)
LEMMA LoseStep ==
  ASSUME PoolInv, NEW t \in Tasks, fate[t] = "new",
         fate' = [fate EXCEPT ![t] = "lost"], UNCHANGED <<Pool!ring, pc, job>>
  PROVE  InRing' /\ InHand' /\ Somewhere' /\ Contents' = Contents
<1>1. fate \in [Tasks -> {"new", "added", "run", "lost"}]
  BY DEF PoolInv, Control, ControlTypes
<1>2. AcceptedTasks' = AcceptedTasks /\ Pool!In("run")' = Pool!In("run")
  BY <1>1 DEF AcceptedTasks, Pool!In
<1>3. Contents' = Contents /\ TasksOK'
  BY DEF Pool!ring, Contents, Pool!Pending, Pool!Capacity, TasksOK, PoolInv, InRing
<1>4. Elements(Contents)' = Elements(Contents) /\ Distinct(Contents)' = Distinct(Contents)
  BY <1>3 DEF Elements, Distinct
<1>5. InRing' /\ Somewhere'
  BY <1>2, <1>3, <1>4 DEF PoolInv, InRing, Somewhere
<1>6. \A u \in Tasks : fate[u] # "new" => fate'[u] # "new"
  BY <1>1
<1>7. InHand'
  BY <1>2, <1>4, <1>6 DEF PoolInv, InHand
<1>8. QED BY <1>3, <1>5, <1>7

LEMMA AddTaskStep ==
  ASSUME PoolInv, NEW c \in Clients, NEW t \in Tasks, Pool!AddTask(c, t)
  PROVE  /\ InRing' /\ InHand' /\ Somewhere'
         /\ Contents' = Contents \/ (t \notin AcceptedTasks /\ Contents' = Append(Contents, t))
<1>1. /\ TasksOK /\ pc \in [Workers -> Locations] /\ fate[t] = "new" /\ job' = job
      /\ t \notin AcceptedTasks
  BY DEF Pool!AddTask, PoolInv, InRing, Control, ControlTypes, AcceptedTasks
<1>2. CASE /\ ~Pool!RingFull
           /\ slots' = [slots EXCEPT ![last] = t]
           /\ last' = Pool!NextSlot(last, Pool!Capacity)
           /\ UNCHANGED first
           /\ fate' = [fate EXCEPT ![t] = "added"]
           /\ Pool!Signal
  BY <1>1, <1>2, PutTask, AddStep, SignalWakes
<1>3. CASE /\ Pool!RingFull
           /\ slots' = [Pool!Copied EXCEPT ![Pool!Pending] = t]
           /\ first' = 0
           /\ last' = Pool!Pending + 1
           /\ fate' = [fate EXCEPT ![t] = "added"]
           /\ Pool!Signal
  BY <1>1, <1>3, Grow, AddStep, SignalWakes
<1>4. CASE fate' = [fate EXCEPT ![t] = "lost"] /\ UNCHANGED <<Pool!ring, pc>>
  BY <1>1, <1>4, LoseStep DEF Pool!ring
<1>5. QED BY <1>2, <1>3, <1>4 DEF Pool!AddTask

(* The promises of BoundedFifo, step by step.                              *)
Added == \E t \in Tasks \ AcceptedTasks : Contents' = Append(Contents, t)
Removed == Contents # << >> /\ Contents' = Tail(Contents)

LEMMA HeldSteps ==
  ASSUME PoolInv, [Pool!Next]_(Pool!vars)
  PROVE  InRing' /\ InHand' /\ Somewhere' /\ (Contents' = Contents \/ Added \/ Removed)
<1> DEFINE Goal == InRing' /\ InHand' /\ Somewhere' /\ (Contents' = Contents \/ Added \/ Removed)
<1>1. pc \in [Workers -> Locations]
  BY DEF PoolInv, Control, ControlTypes
<1>2. ASSUME NEW w \in Workers, Pool!Top(w) \/ Pool!Lock(w) \/ Pool!Test(w) \/ Pool!Wait(w) \/ Pool!Spurious(w) PROVE Goal
  <2>1. Quiet
    BY <1>1, <1>2 DEF Pool!Top, Pool!Lock, Pool!AfterLock, Pool!Test, Pool!Wait, Pool!Spurious, Pool!Goto, Quiet
  <2>2. QED BY <2>1, QuietKeeps
<1>3. ASSUME NEW w \in Workers, Pool!Check(w) PROVE Goal
  <2>1. CASE running
    BY <1>3, <2>1, CheckStep DEF Removed
  <2>2. CASE ~running
    <3>1. Quiet
      BY <1>1, <1>3, <2>2 DEF Pool!Check, Pool!Goto, Quiet, Pool!ring
    <3>2. QED BY <3>1, QuietKeeps
  <2>3. QED BY <2>1, <2>2
<1>4. ASSUME NEW w \in Workers, Pool!Run(w) PROVE Goal
  BY <1>4, RunStep
<1>5. ASSUME NEW c \in Clients, NEW t \in Tasks, Pool!AddTask(c, t) PROVE Goal
  BY <1>5, AddTaskStep DEF Added
<1>6. ASSUME NEW c \in Clients, Pool!WaitCompletion(c) \/ Pool!WaitReturns(c) \/ Pool!Stop(c) \/ Pool!Broadcast(c) \/ Pool!Join(c)
      PROVE Goal
  <2>1. Quiet
    BY <1>1, <1>6 DEF Pool!WaitCompletion, Pool!WaitReturns, Pool!Stop, Pool!Broadcast, Pool!Join, Quiet, Pool!ring
  <2>2. QED BY <2>1, QuietKeeps
<1>7. ASSUME UNCHANGED Pool!vars PROVE Goal
  <2>1. Quiet
    BY <1>7 DEF Pool!vars, Quiet
  <2>2. QED BY <2>1, QuietKeeps
<1>8. QED BY <1>2, <1>3, <1>4, <1>5, <1>6, <1>7 DEF Pool!Next, Pool!Work

(* What the workers rely on between their steps.                           *)
LEMMA NextControl ==
  ASSUME PoolInv, [Pool!Next]_(Pool!vars)
  PROVE  Control'
<1>1. ControlTypes /\ MutexHeld /\ TaskFound /\ Nobody \notin Workers /\ TasksOK
  BY PoolConstants DEF PoolInv, Control, InRing
<1>2. slots[first] \in Tasks \union {NoTask}
  BY <1>1, TasksRing
<1>3. ASSUME NEW w \in Workers, Pool!Top(w) \/ Pool!Lock(w) \/ Pool!Wait(w) \/ Pool!Spurious(w) PROVE Control'
  BY <1>1, <1>3 DEF Pool!Top, Pool!Lock, Pool!AfterLock, Pool!Wait, Pool!Spurious, Pool!Goto, Pool!ring,
       Control, ControlTypes, MutexHeld, TaskFound, Locations
<1>4. ASSUME NEW w \in Workers, Pool!Test(w) PROVE Control'
  <2>1. CASE Pool!MustWait
    BY <1>1, <1>4, <2>1 DEF Pool!Test, Pool!Goto, Pool!ring, Control, ControlTypes, MutexHeld, TaskFound, Locations
  <2>2. CASE ~Pool!MustWait
    BY <1>1, <1>4, <2>2
       DEF Pool!Test, Pool!MustWait, Pool!Goto, Pool!ring, Control, ControlTypes, MutexHeld, TaskFound, Locations
  <2>3. QED BY <2>1, <2>2
<1>5. ASSUME NEW w \in Workers, Pool!Check(w) PROVE Control'
  <2>1. owner = w /\ \A v \in Workers : v # w => pc[v] # "check"
    BY <1>1, <1>5 DEF Pool!Check, MutexHeld
  <2>2. CASE running
    BY <1>1, <1>2, <1>5, <2>1, <2>2
       DEF Pool!Check, Pool!Goto, Control, ControlTypes, MutexHeld, TaskFound, Locations
  <2>3. CASE ~running
    BY <1>1, <1>5, <2>1, <2>3 DEF Pool!Check, Pool!Goto, Control, ControlTypes, MutexHeld, TaskFound, Locations
  <2>4. QED BY <2>2, <2>3
<1>6. ASSUME NEW w \in Workers, Pool!Run(w) PROVE Control'
  BY <1>1, <1>6 DEF Pool!Run, Pool!Goto, Pool!ring, Control, ControlTypes, MutexHeld, TaskFound, Locations
<1>7. ASSUME NEW c \in Clients, NEW t \in Tasks, Pool!AddTask(c, t) PROVE Control'
  <2>1. OnlyWakes /\ pc' \in [Workers -> Locations]
    <3>1. CASE UNCHANGED pc
      BY <1>1, <3>1 DEF OnlyWakes, ControlTypes
    <3>2. CASE Pool!Signal
      BY <1>1, <3>2, SignalWakes DEF ControlTypes
    <3>3. QED BY <1>7, <3>1, <3>2 DEF Pool!AddTask
  <2>2. owner = Nobody /\ UNCHANGED <<running, owner, job, client, missed>>
    BY <1>7 DEF Pool!AddTask
  <2>3. fate' \in [Tasks -> {"new", "added", "run", "lost"}]
    BY <1>1, <1>7 DEF Pool!AddTask, ControlTypes
  <2>4. \A w \in Workers : pc[w] \notin {"test", "wait", "check"}
    BY <1>1, <2>2 DEF MutexHeld
  <2>5. \A w \in Workers : pc'[w] \notin {"test", "wait", "check"}
    BY <2>1, <2>4 DEF OnlyWakes
  <2>6. QED BY <1>1, <2>1, <2>2, <2>3, <2>5 DEF Control, ControlTypes, MutexHeld, TaskFound
<1>8. ASSUME NEW c \in Clients, Pool!WaitCompletion(c) \/ Pool!WaitReturns(c) \/ Pool!Stop(c) \/ Pool!Join(c) PROVE Control'
  <2>1. client' \in [Clients -> {"idle", "waiting", "stopped", "joining", "destroyed"}]
    BY <1>1, <1>8 DEF Pool!WaitCompletion, Pool!WaitReturns, Pool!Stop, Pool!Join, ControlTypes
  <2>2. /\ first' = first /\ last' = last /\ UNCHANGED <<owner, pc, job, fate, missed>>
        /\ running' = running \/ running' = FALSE
    BY <1>8 DEF Pool!WaitCompletion, Pool!WaitReturns, Pool!Stop, Pool!Join, Pool!ring
  <2>3. ControlTypes'
    BY <1>1, <2>1, <2>2 DEF ControlTypes
  <2>4. MutexHeld'
    BY <1>1, <2>2 DEF MutexHeld
  <2>5. TaskFound'
    BY <1>1, <2>2 DEF TaskFound
  <2>6. QED BY <2>3, <2>4, <2>5 DEF Control
<1>9. ASSUME NEW c \in Clients, Pool!Broadcast(c) PROVE Control'
  BY <1>1, <1>9 DEF Pool!Broadcast, Pool!ring, Pool!In, Control, ControlTypes, MutexHeld, TaskFound, Locations
<1>10. CASE UNCHANGED Pool!vars
  BY <1>1, <1>10 DEF Pool!vars, Pool!ring, Control, ControlTypes, MutexHeld, TaskFound
<1>11. QED BY <1>3, <1>4, <1>5, <1>6, <1>7, <1>8, <1>9, <1>10 DEF Pool!Next, Pool!Work

LEMMA PoolInvariant == Pool!Spec => []PoolInv
<1>1. Pool!Init => PoolInv
  BY InitPoolInv
<1>2. PoolInv /\ [Pool!Next]_(Pool!vars) => PoolInv'
  BY NextControl, HeldSteps DEF PoolInv
<1>3. QED BY <1>1, <1>2, PTL DEF Pool!Spec

(* Type correctness of the pool: head and tail stay in the ring, which is  *)
(* never empty of slots, and workers and clients are where the code is.    *)
THEOREM PoolTypeOK == Pool!Spec => []Pool!TypeOK
<1>1. ASSUME PoolInv PROVE Pool!TypeOK
  <2>1. TasksOK
    BY <1>1 DEF PoolInv, InRing
  <2>2. slots \in [0 .. Pool!Capacity - 1 -> Tasks \union {NoTask}] /\ first \in DOMAIN slots /\ last \in DOMAIN slots
    BY <2>1, TasksRing
  <2>3. QED BY <1>1, <2>2 DEF PoolInv, Control, ControlTypes, Pool!TypeOK, Locations
<1>2. QED BY <1>1, PoolInvariant, PTL

(* There is room in the queue of BoundedFifo: the tasks in the ring are     *)
(* different ones, and the new one is not among them.                       *)
LEMMA RoomForAll ==
  ASSUME PoolInv, NEW t \in Tasks, t \notin AcceptedTasks
  PROVE  Len(Contents) < Cardinality(Tasks)
<1> DEFINE n == Len(Contents)
           T == Tasks \ {t}
<1>1. n \in Nat /\ Contents \in [1 .. n -> Tasks \union {NoTask}]
  BY TasksRing, LenProperties DEF PoolInv, InRing
<1>2. \A i \in 1 .. n : Contents[i] \in T
  BY <1>1 DEF PoolInv, InRing, Elements, AcceptedTasks
<1>3. Contents \in [1 .. n -> T]
  BY <1>1, <1>2
<1>4. \A i, j \in 1 .. n : Contents[i] = Contents[j] => i = j
  BY DEF PoolInv, InRing, Distinct
<1>5. IsFiniteSet(T) /\ Cardinality(T) = Cardinality(Tasks) - 1 /\ Cardinality(Tasks) \in Nat
  BY PoolConstants, FS_RemoveElement, FS_CardinalityType
<1>6. IsFiniteSet(1 .. n) /\ Cardinality(1 .. n) = n
  <2>1. 1 \in Int /\ n \in Int
    BY <1>1
  <2>2. Cardinality(1 .. n) = (IF 1 > n THEN 0 ELSE n - 1 + 1) /\ IsFiniteSet(1 .. n)
    BY <2>1, FS_Interval
  <2>3. QED BY <1>1, <2>2
<1> HIDE DEF n, T
<1>7. ~(Cardinality(T) < Cardinality(1 .. n))
  <2>1. SUFFICES ASSUME Cardinality(T) < Cardinality(1 .. n) PROVE FALSE
    OBVIOUS
  <2>2. \E i, j \in 1 .. n : i # j /\ Contents[i] = Contents[j]
    BY <1>3, <1>5, <1>6, <2>1, FS_PigeonHole
  <2>3. QED BY <1>4, <2>2
<1>8. n < Cardinality(Tasks)
  BY <1>1, <1>5, <1>6, <1>7
<1>9. QED BY <1>8 DEF n

(* thread_pool_add_task and the worker's loop: whatever the number of       *)
(* workers, clients and tasks and however often the ring wraps and grows,   *)
(* tasks are taken in the order they were added, none twice and none lost   *)
(* once it was accepted.                                                   *)
THEOREM PoolIsFifo == Pool!Spec => PoolImplementsFifo
<1>1. Pool!Init => Pool!Queue!Init
  BY InitPoolInv DEF Contents, Pool!Queue!Init
<1>2. ASSUME PoolInv, [Pool!Next]_(Pool!vars) PROVE [Pool!Queue!Next]_(Pool!Queue!vars)
  <2>1. CASE Contents' = Contents
    BY <2>1 DEF Contents, Pool!Queue!vars
  <2>2. CASE Added
    <3>1. PICK t \in Tasks : t \notin AcceptedTasks /\ Contents' = Append(Contents, t)
      BY <2>2 DEF Added
    <3>2. Len(Contents) < Cardinality(Tasks)
      BY <1>2, <3>1, RoomForAll
    <3>3. QED BY <3>1, <3>2, SameSize DEF Contents, Pool!Queue!Next, Pool!Queue!Send
  <2>3. CASE Removed
    BY <2>3 DEF Removed, Contents, Pool!Queue!Next, Pool!Queue!Receive
  <2>4. QED BY <1>2, <2>1, <2>2, <2>3, HeldSteps
<1>3. QED BY PoolInvariant, <1>1, <1>2, PTL DEF Pool!Spec, PoolImplementsFifo, Pool!ImplementsFifo, Pool!Queue!Spec

(* thread_pool_wait_completion: when it returns, every task that was added  *)
(* and has not finished is in the hands of a worker.                        *)
THEOREM WaitedTasksAreTaken == Pool!Spec => WaitMeansTaken
<1>1. ASSUME PoolInv, [Pool!Next]_(Pool!vars), NEW c \in Clients, client[c] = "waiting", client'[c] = "idle",
             NEW t \in Tasks, fate[t] = "added"
      PROVE  \E w \in Pool!In("run") : job[w] = t
  <2>1. client \in [Clients -> {"idle", "waiting", "stopped", "joining", "destroyed"}] /\ TasksOK
    BY <1>1 DEF PoolInv, Control, ControlTypes, InRing
  <2>2. first = last
    <3>1. client' # client
      BY <1>1
    <3>2. ASSUME NEW w \in Workers PROVE ~Pool!Work(w) /\ ~Pool!Spurious(w)
      BY <3>1 DEF Pool!Work, Pool!Top, Pool!Lock, Pool!Test, Pool!Wait, Pool!Check, Pool!Run, Pool!Spurious
    <3>3. ASSUME NEW d \in Clients, NEW u \in Tasks PROVE ~Pool!AddTask(d, u)
      BY <3>1 DEF Pool!AddTask
    <3>4. ASSUME NEW d \in Clients PROVE ~Pool!WaitCompletion(d) /\ ~Pool!Stop(d) /\ ~Pool!Broadcast(d) /\ ~Pool!Join(d)
      BY <1>1, <2>1 DEF Pool!WaitCompletion, Pool!Stop, Pool!Broadcast, Pool!Join
    <3>5. QED BY <1>1, <3>1, <3>2, <3>3, <3>4 DEF Pool!Next, Pool!vars, Pool!WaitReturns
  <2>3. Len(Contents) = 0
    BY <2>1, <2>2, TasksRing DEF Between
  <2>4. Elements(Contents) = {}
    BY <2>3 DEF Elements
  <2>5. t \in AcceptedTasks
    BY <1>1 DEF AcceptedTasks
  <2>6. QED BY <1>1, <2>4, <2>5 DEF PoolInv, Somewhere
<1>2. ASSUME PoolInv, [Pool!Next]_(Pool!vars)
      PROVE  \A c \in Clients : client[c] = "waiting" /\ client'[c] = "idle" =>
               \A t \in Tasks : fate[t] = "added" => \E w \in Pool!In("run") : job[w] = t
  BY <1>1, <1>2
<1>3. QED BY PoolInvariant, <1>2, PTL DEF Pool!Spec, WaitMeansTaken, Pool!WaitMeansTaken

-----------------------------------------------------------------------------
(* The list of the asynchronous loop: what it promises is about Loop!Spec.  *)

LEMMA SameSizes == \A S : Loop!Cardinality(S) = Cardinality(S) /\ Loop!IsFiniteSet(S) = IsFiniteSet(S)
BY DEF Loop!Cardinality, Cardinality, Loop!IsFiniteSet, IsFiniteSet

LEMMA LoopFacts ==
  /\ IsFiniteSet(LoopTasks)
  /\ Dummy \notin LoopTasks /\ NoNode \notin LoopTasks \union {Dummy}
BY SameSizes, LoopAssumption DEF Loop!QueueAssumption

(* A set of numbers has a least one.                                        *)
Smaller == {p \in Nat \X Nat : p[1] < p[2]}
LEMMA SmallerIsWellFounded == IsWellFoundedOn(Smaller, Nat)
BY NatLessThanWellFounded DEF OpToRel, Smaller

LEMMA LeastIs ==
  ASSUME NEW S \in SUBSET Nat, S # {}
  PROVE  \E m \in S : \A k \in S : m <= k
<1>1. PICK m \in S : \A k \in S : ~(<<k, m>> \in Smaller)
  BY SmallerIsWellFounded, WFMin
<1>2. ASSUME NEW k \in S PROVE m <= k
  <2>1. m \in Nat /\ k \in Nat /\ <<k, m>> \notin Smaller
    BY <1>1
  <2>2. ~(k < m)
    BY <2>1 DEF Smaller
  <2>3. QED BY <2>1, <2>2
<1>3. QED BY <1>2

(* The nodes that were ever linked, oldest first: a chain from the dummy    *)
(* node, without repetition, whose last node leads nowhere.                *)
On(c) == {c[i] : i \in 1 .. Len(c)}
Path(c) ==
  /\ c \in Seq(Loop!Nodes) /\ Len(c) >= 1 /\ c[1] = Dummy
  /\ \A i, j \in 1 .. Len(c) : c[i] = c[j] => i = j
Chain(nx, c) ==
  /\ Path(c)
  /\ \A i \in 1 .. Len(c) - 1 : nx[c[i]] = c[i + 1]
  /\ nx[c[Len(c)]] = NoNode
Links == [Loop!Nodes -> LoopTasks \union {NoNode}]

(* What Queue reads, of any links and any head.                            *)
ListedIn(nx, h, s) ==
  /\ \A i \in 1 .. Len(s) : s[i] = nx[IF i = 1 THEN h ELSE s[i - 1]]
  /\ nx[IF s = << >> THEN h ELSE s[Len(s)]] = NoNode
Lists == UNION {[1 .. n -> LoopTasks] : n \in 0 .. Cardinality(LoopTasks)}
After(c, h) == [i \in 1 .. Len(c) - h |-> c[h + i]]

LEMMA ListType == ASSUME NEW s \in Lists PROVE s \in Seq(LoopTasks)
<1>1. PICK n \in 0 .. Cardinality(LoopTasks) : s \in [1 .. n -> LoopTasks]
  BY DEF Lists
<1>2. n \in Nat
  BY LoopFacts, FS_CardinalityType
<1>3. QED BY <1>1, <1>2, SeqDef

LEMMA AfterType ==
  ASSUME NEW c, Path(c), NEW h \in 1 .. Len(c)
  PROVE  /\ After(c, h) \in Seq(LoopTasks) /\ Len(After(c, h)) = Len(c) - h
         /\ \A i \in 1 .. Len(c) - h : After(c, h)[i] = c[h + i]
<1>1. c \in Seq(Loop!Nodes) /\ Len(c) \in Nat
  BY DEF Path
<1>2. ASSUME NEW i \in 1 .. Len(c) - h PROVE c[h + i] \in LoopTasks
  <2>1. h + i \in 1 .. Len(c) /\ 1 \in 1 .. Len(c) /\ h + i # 1
    BY <1>1
  <2>2. c[h + i] # c[1] /\ c[1] = Dummy /\ c[h + i] \in Loop!Nodes
    BY <1>1, <2>1 DEF Path
  <2>3. QED BY <2>2 DEF Loop!Nodes
<1>3. Len(c) - h \in Nat
  BY <1>1
<1>4. After(c, h) \in [1 .. Len(c) - h -> LoopTasks]
  BY <1>2 DEF After
<1>5. \A i \in 1 .. Len(c) - h : After(c, h)[i] = c[h + i]
  BY DEF After
<1> DEFINE n == Len(c) - h
           s == After(c, h)
<1>6. n \in Nat /\ s \in [1 .. n -> LoopTasks]
  BY <1>3, <1>4
<1> HIDE DEF n, s
<1>7. s \in Seq(LoopTasks) /\ Len(s) = n
  BY <1>6
<1>8. QED BY <1>5, <1>7 DEF n, s

(* As many tasks as there are fit into the chain.                          *)
LEMMA AtMost ==
  ASSUME NEW T, IsFiniteSet(T), NEW n \in Nat, NEW s \in [1 .. n -> T],
         \A i, j \in 1 .. n : s[i] = s[j] => i = j
  PROVE  n <= Cardinality(T)
<1>1. Cardinality(T) \in Nat
  BY FS_CardinalityType
<1>2. IsFiniteSet(1 .. n) /\ Cardinality(1 .. n) = n
  <2>1. 1 \in Int /\ n \in Int
    OBVIOUS
  <2>2. Cardinality(1 .. n) = (IF 1 > n THEN 0 ELSE n - 1 + 1) /\ IsFiniteSet(1 .. n)
    BY <2>1, FS_Interval
  <2>3. QED BY <2>2
<1>3. ~(Cardinality(T) < Cardinality(1 .. n))
  <2>1. SUFFICES ASSUME Cardinality(T) < Cardinality(1 .. n) PROVE FALSE
    OBVIOUS
  <2>2. \E i, j \in 1 .. n : i # j /\ s[i] = s[j]
    BY <1>2, <2>1, FS_PigeonHole
  <2>3. QED BY <2>2
<1>4. QED BY <1>1, <1>2, <1>3

LEMMA AfterIsList ==
  ASSUME NEW nx, NEW c, Chain(nx, c), NEW h \in 1 .. Len(c)
  PROVE  After(c, h) \in Lists /\ ListedIn(nx, c[h], After(c, h))
<1> DEFINE n == Len(c) - h
           s == After(c, h)
<1>1. s \in Seq(LoopTasks) /\ Len(s) = n /\ n \in Nat /\ \A i \in 1 .. n : s[i] = c[h + i]
  <2>1. Len(c) \in Nat
    BY DEF Chain, Path
  <2>2. QED BY <2>1, AfterType DEF Chain
<1>2. s \in [1 .. n -> LoopTasks]
  BY <1>1, LenProperties
<1>3. ASSUME NEW i \in 1 .. n, NEW j \in 1 .. n, s[i] = s[j] PROVE i = j
  <2>1. h + i \in 1 .. Len(c) /\ h + j \in 1 .. Len(c) /\ c[h + i] = c[h + j]
    BY <1>1, <1>3 DEF Chain, Path
  <2>2. h + i = h + j
    BY <2>1 DEF Chain, Path
  <2>3. QED BY <1>1, <2>2
<1>4. n <= Cardinality(LoopTasks) /\ Cardinality(LoopTasks) \in Nat
  BY <1>1, <1>2, <1>3, AtMost, LoopFacts, FS_CardinalityType
<1>5. n \in 0 .. Cardinality(LoopTasks)
  BY <1>1, <1>4
<1>6. s \in Lists
  BY <1>2, <1>5 DEF Lists
<1>7. ASSUME NEW i \in 1 .. n PROVE s[i] = nx[IF i = 1 THEN c[h] ELSE s[i - 1]]
  <2>1. h + i - 1 \in 1 .. Len(c) - 1 /\ nx[c[h + i - 1]] = c[h + i - 1 + 1]
    BY <1>1 DEF Chain, Path
  <2>2. h + i - 1 + 1 = h + i
    BY <1>1
  <2>3. CASE i = 1
    BY <1>1, <2>1, <2>2, <2>3
  <2>4. CASE i # 1
    <3>1. i - 1 \in 1 .. n /\ h + (i - 1) = h + i - 1
      BY <1>1, <2>4
    <3>2. s[i - 1] = c[h + i - 1]
      BY <1>1, <3>1
    <3>3. QED BY <1>1, <2>1, <2>2, <2>4, <3>2
  <2>5. QED BY <2>3, <2>4
<1>8. nx[IF s = << >> THEN c[h] ELSE s[Len(s)]] = NoNode
  <2>1. CASE n = 0
    <3>1. s = << >> /\ h = Len(c)
      BY <1>1, <2>1, EmptySeq
    <3>2. QED BY <3>1 DEF Chain, Path
  <2>2. CASE n # 0
    <3>1. s # << >> /\ n \in 1 .. n /\ h + n = Len(c)
      BY <1>1, <2>2 DEF Chain, Path
    <3>2. s[Len(s)] = c[Len(c)]
      BY <1>1, <3>1
    <3>3. QED BY <3>1, <3>2 DEF Chain, Path
  <2>3. QED BY <2>1, <2>2
<1> HIDE DEF s, n
<1>9. ListedIn(nx, c[h], s)
  BY <1>1, <1>7, <1>8 DEF ListedIn
<1>10. QED BY <1>6, <1>9 DEF s

(* Nothing else can be read from there.                                    *)
LEMMA ListIsAfter ==
  ASSUME NEW nx, NEW c, Chain(nx, c), NEW h \in 1 .. Len(c), NEW s \in Lists, ListedIn(nx, c[h], s)
  PROVE  s = After(c, h)
<1> DEFINE Wrong == {i \in 1 .. Len(s) : ~(h + i <= Len(c) /\ s[i] = c[h + i])}
<1>1. s \in Seq(LoopTasks) /\ Len(s) \in Nat /\ Len(c) \in Nat
  BY ListType DEF Chain, Path
<1>2. \A i \in 1 .. Len(s) : s[i] # NoNode
  BY <1>1, LoopFacts
<1>3. ASSUME NEW k \in 1 .. Len(c), nx[c[k]] # NoNode PROVE k < Len(c) /\ nx[c[k]] = c[k + 1]
  <2>1. k # Len(c)
    BY <1>3 DEF Chain, Path
  <2>2. k \in 1 .. Len(c) - 1
    BY <1>1, <2>1
  <2>3. QED BY <1>1, <2>2 DEF Chain, Path
<1>4. Wrong = {}
  <2>1. SUFFICES ASSUME Wrong # {} PROVE FALSE
    OBVIOUS
  <2>2. Wrong \in SUBSET Nat
    OBVIOUS
  <2>3. PICK i \in Wrong : \A k \in Wrong : i <= k
    BY <2>1, <2>2, LeastIs
  <2>4. i \in 1 .. Len(s) /\ ~(h + i <= Len(c) /\ s[i] = c[h + i])
    OBVIOUS
  <2>5. s[i] = nx[IF i = 1 THEN c[h] ELSE s[i - 1]] /\ s[i] # NoNode
    BY <1>2, <2>4 DEF ListedIn
  <2>6. CASE i = 1
    <3>1. s[i] = nx[c[h]]
      BY <2>5, <2>6
    <3>2. h < Len(c) /\ s[i] = c[h + 1]
      BY <1>3, <2>5, <3>1
    <3>3. QED BY <1>1, <2>4, <2>6, <3>2
  <2>7. CASE i # 1
    <3>1. i - 1 \in 1 .. Len(s) /\ ~(i <= i - 1)
      BY <1>1, <2>4, <2>7
    <3>2. i - 1 \notin Wrong
      BY <2>3, <3>1
    <3>3. h + (i - 1) <= Len(c) /\ s[i - 1] = c[h + (i - 1)]
      BY <3>1, <3>2
    <3>4. h + (i - 1) \in 1 .. Len(c) /\ s[i] = nx[c[h + (i - 1)]]
      BY <1>1, <2>5, <2>7, <3>1, <3>3
    <3>5. h + (i - 1) < Len(c) /\ s[i] = c[h + (i - 1) + 1]
      BY <1>3, <2>5, <3>4
    <3>6. h + (i - 1) + 1 = h + i
      BY <1>1, <2>4
    <3>7. QED BY <1>1, <2>4, <3>5, <3>6
  <2>8. QED BY <2>6, <2>7
<1>5. \A i \in 1 .. Len(s) : h + i <= Len(c) /\ s[i] = c[h + i]
  BY <1>4
<1> HIDE DEF Wrong
<1>6. Len(s) = Len(c) - h
  <2>1. CASE s = << >>
    <3>1. nx[c[h]] = NoNode
      BY <2>1 DEF ListedIn
    <3>2. h = Len(c)
      <4>1. SUFFICES ASSUME h # Len(c) PROVE FALSE
        OBVIOUS
      <4>2. h \in 1 .. Len(c) - 1 /\ h + 1 \in 1 .. Len(c)
        BY <1>1, <4>1
      <4>3. c[h + 1] = NoNode /\ c[h + 1] \in Loop!Nodes
        BY <3>1, <4>2 DEF Chain, Path
      <4>4. QED BY <4>3, LoopFacts DEF Loop!Nodes
    <3>3. QED BY <1>1, <2>1, <3>2
  <2>2. CASE s # << >>
    <3>1. Len(s) \in 1 .. Len(s)
      BY <1>1, <2>2, EmptySeq
    <3>2. nx[s[Len(s)]] = NoNode
      BY <2>2 DEF ListedIn
    <3>3. h + Len(s) <= Len(c) /\ nx[c[h + Len(s)]] = NoNode
      BY <1>5, <3>1, <3>2
    <3>4. h + Len(s) = Len(c)
      <4>1. SUFFICES ASSUME h + Len(s) # Len(c) PROVE FALSE
        OBVIOUS
      <4>2. h + Len(s) \in 1 .. Len(c) - 1 /\ h + Len(s) + 1 \in 1 .. Len(c)
        BY <1>1, <3>3, <4>1
      <4>3. c[h + Len(s) + 1] = NoNode /\ c[h + Len(s) + 1] \in Loop!Nodes
        BY <3>3, <4>2 DEF Chain, Path
      <4>4. QED BY <4>3, LoopFacts DEF Loop!Nodes
    <3>5. QED BY <1>1, <3>4
  <2>3. QED BY <2>1, <2>2
<1>7. s \in [1 .. Len(s) -> LoopTasks]
  BY <1>1, LenProperties
<1>8. QED BY <1>5, <1>6, <1>7 DEF After

QueueIn(nx, h) == CHOOSE s \in Lists : ListedIn(nx, h, s)

LEMMA QueueIs == Loop!Queue = QueueIn(next, oldest)
BY SameSizes DEF Loop!Queue, QueueIn, Lists, ListedIn, Loop!Listed

LEMMA QueueIsThen == Loop!Queue' = QueueIn(next', oldest')
BY SameSizes DEF Loop!Queue, QueueIn, Lists, ListedIn, Loop!Listed

LEMMA QueueOfChain ==
  ASSUME NEW nx, NEW c, Chain(nx, c), NEW h \in 1 .. Len(c)
  PROVE  QueueIn(nx, c[h]) = After(c, h)
<1>1. \E s \in Lists : ListedIn(nx, c[h], s)
  BY AfterIsList
<1>2. QueueIn(nx, c[h]) \in Lists /\ ListedIn(nx, c[h], QueueIn(nx, c[h]))
  BY <1>1 DEF QueueIn
<1> HIDE DEF QueueIn
<1>3. QED BY <1>2, ListIsAfter

-----------------------------------------------------------------------------
(* What each thread may rely on, given the links and the chain.            *)
Linking == {"load tail", "link", "help"}
Holding == {"uncount", "dispatch"}
Knowing == {"link", "load end", "load next", "look", "take", "help tail"}
Decided == {"look", "take", "help tail"}
InPoll == {"load head", "load end", "load next", "look", "take", "help tail"}

NotAfter(c, m, n) == \A i, j \in 1 .. Len(c) : c[i] = m /\ c[j] = n => i <= j

ThreadOK(nx, c, p, nd, sn, sx, du) ==
  /\ p \in Linking => nd \in LoopTasks \ On(c)
  /\ p = "swing" => nd \in On(c)
  /\ p \in Holding => nd \in LoopTasks
  /\ p \in Knowing => sn \in On(c)
  /\ p \in Decided => sx = NoNode \/ sx = nx[sn]
  /\ p \in {"take", "help tail"} => sx # NoNode
  /\ p \in InPoll => du \subseteq On(c)
  /\ p = "look" /\ sx = NoNode => \A m \in du : NotAfter(c, m, sn)

LoopTypes ==
  /\ next \in Links
  /\ size \in Int
  /\ dispatched \in Seq(LoopTasks)
  /\ at \in [Loop!Threads -> Loop!Places]
  /\ node \in [Loop!Threads -> LoopTasks \union {NoNode}]
  /\ seen \in [Loop!Threads -> Loop!Nodes \union {NoNode}]
  /\ seenTail \in [Loop!Threads -> Loop!Nodes \union {NoNode}]
  /\ seenNext \in [Loop!Threads -> LoopTasks \union {NoNode}]
  /\ due \in [Loop!Threads -> SUBSET LoopTasks]

(* Who adds a node adds it alone.                                          *)
AddersApart ==
  \A t, u \in Loop!Threads : at[t] \in Linking /\ at[u] \in Linking /\ node[t] = node[u] => t = u

(* What the head has passed was taken.                                     *)
Passed(c) ==
  \A i, h \in 1 .. Len(c) :
    1 < i /\ i <= h /\ c[h] = oldest =>
      c[i] \in Loop!Dispatched \/ \E t \in Loop!Threads : at[t] \in Holding /\ node[t] = c[i]

Holds(c) ==
  /\ Chain(next, c)
  /\ \A n \in Loop!Nodes \ On(c) : next[n] = NoNode
  /\ oldest \in On(c) /\ newest \in On(c)
  /\ \A t \in Loop!Threads : ThreadOK(next, c, at[t], node[t], seen[t], seenNext[t], due[t])
  /\ Passed(c)

LoopInv == LoopTypes /\ AddersApart /\ \E c \in Seq(Loop!Nodes) : Holds(c)

LEMMA OnNodes ==
  ASSUME NEW c \in Seq(Loop!Nodes)
  PROVE  On(c) \in SUBSET Loop!Nodes
BY DEF On

LEMMA InitLoop == Loop!Init => LoopInv /\ Loop!Queue = << >>
<1> SUFFICES ASSUME Loop!Init PROVE LoopInv /\ Loop!Queue = << >>
  OBVIOUS
<1> DEFINE c == <<Dummy>>
<1>1. c \in Seq(Loop!Nodes) /\ Len(c) = 1 /\ c[1] = Dummy /\ On(c) = {Dummy}
  BY DEF Loop!Nodes, On
<1>2. LoopTypes
  BY DEF Loop!Init, LoopTypes, Links, Loop!Places
<1>3. \A t \in Loop!Threads : at[t] = "idle"
  BY DEF Loop!Init
<1>4. AddersApart
  BY <1>3 DEF AddersApart, Linking
<1>5. Chain(next, c)
  BY <1>1 DEF Loop!Init, Chain, Path, Loop!Nodes
<1>6. \A n \in Loop!Nodes : next[n] = NoNode
  BY DEF Loop!Init
<1>7. oldest = Dummy /\ newest = Dummy
  BY DEF Loop!Init
<1> HIDE DEF c
<1>8. Passed(c)
  BY <1>1 DEF Passed
<1>9. ASSUME NEW t \in Loop!Threads
      PROVE  ThreadOK(next, c, at[t], node[t], seen[t], seenNext[t], due[t])
  BY <1>3 DEF ThreadOK, Linking, Holding, Knowing, Decided, InPoll
<1>10. Holds(c)
  BY <1>1, <1>5, <1>6, <1>7, <1>8, <1>9 DEF Holds
<1>11. Loop!Queue = After(c, 1)
  BY <1>1, <1>5, <1>7, QueueIs, QueueOfChain
<1>12. After(c, 1) = << >>
  <2>1. 1 \in 1 .. Len(c)
    BY <1>1
  <2>2. After(c, 1) \in Seq(LoopTasks) /\ Len(After(c, 1)) = Len(c) - 1
    BY <1>5, <2>1, AfterType DEF Chain
  <2>3. QED BY <1>1, <2>2, EmptySeq
<1>13. QED BY <1>1, <1>2, <1>4, <1>10, <1>11, <1>12 DEF LoopInv

(* The queue is what the chain has after the head.                         *)
LEMMA QueueFollows ==
  ASSUME NEW c, Holds(c)
  PROVE  \E h \in 1 .. Len(c) : c[h] = oldest /\ Loop!Queue = After(c, h)
<1>1. Chain(next, c) /\ oldest \in On(c)
  BY DEF Holds
<1>2. PICK h \in 1 .. Len(c) : c[h] = oldest
  BY <1>1 DEF On
<1>3. QED BY <1>1, <1>2, QueueIs, QueueOfChain

(* Where a link leads to.                                                  *)
LEMMA LinkLeads ==
  ASSUME NEW nx, NEW c, Chain(nx, c), NEW k \in 1 .. Len(c)
  PROVE  IF nx[c[k]] = NoNode THEN k = Len(c) ELSE k < Len(c) /\ nx[c[k]] = c[k + 1] /\ k + 1 \in 1 .. Len(c)
<1>1. Len(c) \in Nat /\ c \in Seq(Loop!Nodes)
  BY DEF Chain, Path
<1>2. CASE k = Len(c)
  BY <1>1, <1>2 DEF Chain, Path
<1>3. CASE k # Len(c)
  <2>1. k \in 1 .. Len(c) - 1 /\ k + 1 \in 1 .. Len(c) /\ k < Len(c)
    BY <1>1, <1>3
  <2>2. nx[c[k]] = c[k + 1] /\ c[k + 1] \in Loop!Nodes
    BY <1>1, <2>1 DEF Chain, Path
  <2>3. nx[c[k]] # NoNode
    BY <2>2, LoopFacts DEF Loop!Nodes
  <2>4. QED BY <2>1, <2>2, <2>3
<1>4. QED BY <1>2, <1>3

(* A step of one thread that links nothing and takes nothing.              *)
MovesAlone(t) ==
  /\ next' = next
  /\ \A u \in Loop!Threads \ {t} :
       /\ at'[u] = at[u] /\ node'[u] = node[u] /\ seen'[u] = seen[u]
       /\ seenNext'[u] = seenNext[u] /\ due'[u] = due[u]

LEMMA Unlinked ==
  ASSUME NEW c, Holds(c), NEW t \in Loop!Threads, MovesAlone(t), oldest' = oldest, newest' \in On(c),
         ThreadOK(next, c, at'[t], node'[t], seen'[t], seenNext'[t], due'[t]),
         Passed(c)'
  PROVE  Holds(c)'
<1>1. ASSUME NEW u \in Loop!Threads
      PROVE  ThreadOK(next, c, at'[u], node'[u], seen'[u], seenNext'[u], due'[u])
  <2>1. CASE u = t
    BY <2>1
  <2>2. CASE u # t
    BY <2>2 DEF MovesAlone, Holds
  <2>3. QED BY <2>1, <2>2
<1>2. next' = next
  BY DEF MovesAlone
<1>3. QED BY <1>1, <1>2 DEF Holds

(* Whoever had taken a node has it still, or has handed it over.           *)
Handed ==
  /\ oldest' = oldest
  /\ Loop!Dispatched \subseteq Loop!Dispatched'
  /\ \A u \in Loop!Threads : at[u] \in Holding => (at'[u] \in Holding /\ node'[u] = node[u]) \/ node[u] \in Loop!Dispatched'

LEMMA PassedStays == ASSUME NEW c, Passed(c), Handed PROVE Passed(c)'
<1> SUFFICES ASSUME NEW i \in 1 .. Len(c), NEW h \in 1 .. Len(c), 1 < i, i <= h, c[h] = oldest'
             PROVE  c[i] \in Loop!Dispatched' \/ \E t \in Loop!Threads : at'[t] \in Holding /\ node'[t] = c[i]
  BY DEF Passed
<1>1. CASE c[i] \in Loop!Dispatched
  BY <1>1 DEF Handed
<1>2. CASE \E t \in Loop!Threads : at[t] \in Holding /\ node[t] = c[i]
  BY <1>2 DEF Handed
<1>3. QED BY <1>1, <1>2 DEF Passed, Handed

LEMMA ApartStays ==
  ASSUME AddersApart, \A u \in Loop!Threads : at'[u] \in Linking => at[u] \in Linking /\ node'[u] = node[u]
  PROVE  AddersApart'
BY DEF AddersApart

(* A step of one thread that leaves the list and the head alone.           *)
Aside(t) ==
  /\ MovesAlone(t) /\ oldest' = oldest
  /\ Loop!Dispatched \subseteq Loop!Dispatched'
  /\ at'[t] \in Linking => at[t] \in Linking /\ node'[t] = node[t]
  /\ at[t] \in Holding => (at'[t] \in Holding /\ node'[t] = node[t]) \/ node[t] \in Loop!Dispatched'

Local(c, t) == ThreadOK(next, c, at'[t], node'[t], seen'[t], seenNext'[t], due'[t])

LEMMA AsideHolds ==
  ASSUME AddersApart, NEW c \in Seq(Loop!Nodes), Holds(c), NEW t \in Loop!Threads, Aside(t),
         newest' \in On(c), Local(c, t), LoopTypes'
  PROVE  LoopInv' /\ Loop!Queue' = Loop!Queue
<1>1. Handed
  BY DEF Aside, MovesAlone, Handed
<1>2. Passed(c)'
  BY <1>1, PassedStays DEF Holds
<1>3. Holds(c)'
  BY <1>2, Unlinked DEF Aside, Local
<1>4. AddersApart'
  BY ApartStays DEF Aside, MovesAlone
<1>5. Loop!Queue' = Loop!Queue
  BY QueueIs, QueueIsThen DEF Aside, MovesAlone
<1>6. QED BY <1>3, <1>4, <1>5 DEF LoopInv

LEMMA Goes ==
  ASSUME LoopTypes, NEW t \in Loop!Threads, NEW p \in Loop!Places, Loop!Goto(t, p)
  PROVE  /\ at' \in [Loop!Threads -> Loop!Places] /\ at'[t] = p
         /\ \A u \in Loop!Threads \ {t} : at'[u] = at[u]
BY DEF LoopTypes, Loop!Goto

LEMMA RetryAside ==
  ASSUME LoopTypes, NEW t \in Loop!Threads, NEW p \in Loop!Places, Loop!Retries(t, p), at[t] \notin Holding,
         p \in Linking => at[t] \in Linking
  PROVE  /\ LoopTypes' /\ Aside(t) /\ newest' = newest
         /\ at'[t] = p /\ node'[t] = node[t] /\ seen'[t] = seen[t] /\ seenNext'[t] = seenNext[t] /\ due'[t] = due[t]
<1>1. /\ at' \in [Loop!Threads -> Loop!Places] /\ at'[t] = p
      /\ \A u \in Loop!Threads \ {t} : at'[u] = at[u]
  BY Goes DEF Loop!Retries
<1>2. UNCHANGED <<next, oldest, newest, size, dispatched, node, seen, seenTail, seenNext, due>>
  BY DEF Loop!Retries, Loop!locals
<1>3. LoopTypes'
  BY <1>1, <1>2 DEF LoopTypes
<1>4. Loop!Dispatched' = Loop!Dispatched
  BY <1>2 DEF Loop!Dispatched
<1>5. QED BY <1>1, <1>2, <1>3, <1>4 DEF Aside, MovesAlone

LEMMA ReturnMoves ==
  ASSUME LoopTypes, NEW t \in Loop!Threads, Loop!Returns(t), next' = next
  PROVE  /\ MovesAlone(t) /\ at'[t] = "idle"
         /\ at' \in [Loop!Threads -> Loop!Places]
         /\ node' \in [Loop!Threads -> LoopTasks \union {NoNode}]
         /\ seen' \in [Loop!Threads -> Loop!Nodes \union {NoNode}]
         /\ seenTail' \in [Loop!Threads -> Loop!Nodes \union {NoNode}]
         /\ seenNext' \in [Loop!Threads -> LoopTasks \union {NoNode}]
         /\ due' \in [Loop!Threads -> SUBSET LoopTasks]
<1>1. at' \in [Loop!Threads -> Loop!Places] /\ at'[t] = "idle" /\ \A u \in Loop!Threads \ {t} : at'[u] = at[u]
  <2>1. "idle" \in Loop!Places /\ Loop!Goto(t, "idle")
    BY DEF Loop!Places, Loop!Returns
  <2>2. QED BY <2>1, Goes
<1>2. QED BY <1>1 DEF LoopTypes, Loop!Returns, MovesAlone

(* Each step, by itself.                                                   *)
LEMMA IdleLocal ==
  ASSUME NEW c, NEW t \in Loop!Threads, at'[t] \in {"idle", "count"} PROVE Local(c, t)
BY DEF Local, ThreadOK, Linking, Holding, Knowing, Decided, InPoll

(* The current state seen from one thread.                                 *)
LEMMA OneOf ==
  ASSUME NEW c, Holds(c), NEW t \in Loop!Threads
  PROVE  ThreadOK(next, c, at[t], node[t], seen[t], seenNext[t], due[t])
BY DEF Holds

LEMMA LoadTailStep ==
  ASSUME LoopInv, NEW c \in Seq(Loop!Nodes), Holds(c), NEW t \in Loop!Threads, Loop!LoadTail(t)
  PROVE  LoopInv' /\ Loop!Queue' = Loop!Queue
<1>1. LoopTypes /\ AddersApart
  BY DEF LoopInv
<1>2. at' \in [Loop!Threads -> Loop!Places] /\ at'[t] = "link" /\ \A u \in Loop!Threads \ {t} : at'[u] = at[u]
  <2>1. "link" \in Loop!Places /\ Loop!Goto(t, "link")
    BY DEF Loop!Places, Loop!LoadTail
  <2>2. QED BY <1>1, <2>1, Goes
<1>3. newest \in On(c) /\ On(c) \in SUBSET Loop!Nodes
  BY OnNodes DEF Holds
<1>4. LoopTypes'
  BY <1>1, <1>2, <1>3 DEF LoopTypes, Loop!LoadTail
<1>5. Loop!Dispatched' = Loop!Dispatched /\ at[t] = "load tail" /\ newest' = newest /\ seen'[t] = newest /\ node'[t] = node[t]
  BY <1>1 DEF Loop!Dispatched, Loop!LoadTail, Loop!At, LoopTypes
<1>6. Aside(t)
  BY <1>1, <1>2, <1>5 DEF Aside, MovesAlone, Loop!LoadTail, LoopTypes, Linking, Holding
<1>7. Local(c, t)
  <2>1. node[t] \in LoopTasks \ On(c)
    BY <1>5, OneOf DEF ThreadOK, Linking
  <2>2. QED BY <1>2, <1>3, <1>5, <2>1 DEF Local, ThreadOK, Linking, Holding, Knowing, Decided, InPoll
<1>8. QED BY <1>1, <1>3, <1>4, <1>5, <1>6, <1>7, AsideHolds

LEMMA LinkFailsStep ==
  ASSUME LoopInv, NEW c \in Seq(Loop!Nodes), Holds(c), NEW t \in Loop!Threads, Loop!LinkFails(t) \/ Loop!AddHelps(t)
  PROVE  LoopInv' /\ Loop!Queue' = Loop!Queue
<1>1. LoopTypes /\ AddersApart /\ newest \in On(c)
  BY DEF LoopInv, Holds
<1>2. PICK p \in {"help", "load tail"} : Loop!Retries(t, p)
  BY DEF Loop!LinkFails, Loop!AddHelps
<1>3. at[t] \in {"link", "help"} /\ p \in Loop!Places
  BY DEF Loop!LinkFails, Loop!AddHelps, Loop!At, Loop!Places
<1>4. /\ LoopTypes' /\ Aside(t) /\ newest' = newest
      /\ at'[t] = p /\ node'[t] = node[t]
  BY <1>1, <1>2, <1>3, RetryAside DEF Linking, Holding
<1>5. node[t] \in LoopTasks \ On(c)
  BY <1>3, OneOf DEF ThreadOK, Linking
<1>6. Local(c, t)
  BY <1>4, <1>5 DEF Local, ThreadOK, Linking, Holding, Knowing, Decided, InPoll
<1>7. QED BY <1>1, <1>4, <1>6, AsideHolds

LEMMA SwingStep ==
  ASSUME LoopInv, NEW c \in Seq(Loop!Nodes), Holds(c), NEW t \in Loop!Threads, Loop!Swing(t)
  PROVE  LoopInv' /\ Loop!Queue' = Loop!Queue
<1>1. LoopTypes /\ AddersApart
  BY DEF LoopInv
<1>2. at' \in [Loop!Threads -> Loop!Places] /\ at'[t] = "count" /\ \A u \in Loop!Threads \ {t} : at'[u] = at[u]
  <2>1. "count" \in Loop!Places /\ Loop!Goto(t, "count")
    BY DEF Loop!Places, Loop!Swing
  <2>2. QED BY <1>1, <2>1, Goes
<1>3. at[t] = "swing"
  BY DEF Loop!Swing, Loop!At
<1>4. newest' \in On(c)
  <2>1. node[t] \in On(c)
    BY <1>3, OneOf DEF ThreadOK
  <2>2. QED BY <2>1 DEF Loop!Swing, Holds
<1>5. Loop!Dispatched' = Loop!Dispatched
  BY DEF Loop!Dispatched, Loop!Swing
<1>6. LoopTypes'
  BY <1>1, <1>2 DEF LoopTypes, Loop!Swing, Loop!locals
<1>7. Aside(t)
  BY <1>2, <1>3, <1>5 DEF Aside, MovesAlone, Loop!Swing, Loop!locals, Linking, Holding
<1>8. QED BY <1>1, <1>2, <1>4, <1>6, <1>7, IdleLocal, AsideHolds

LEMMA ReturnStep ==
  ASSUME LoopInv, NEW c \in Seq(Loop!Nodes), Holds(c), NEW t \in Loop!Threads, Loop!Count(t) \/ Loop!PollEmpty(t) \/ Loop!Dispatch(t)
  PROVE  LoopInv' /\ Loop!Queue' = Loop!Queue
<1>1. LoopTypes /\ AddersApart /\ newest \in On(c)
  BY DEF LoopInv, Holds
<1>2. Loop!Returns(t) /\ next' = next /\ oldest' = oldest /\ newest' = newest
  BY DEF Loop!Count, Loop!PollEmpty, Loop!Dispatch
<1>3. at[t] \in {"count", "look", "dispatch"} /\ (at[t] = "dispatch" => Loop!Dispatch(t))
  BY DEF Loop!Count, Loop!PollEmpty, Loop!Dispatch, Loop!At
<1>4. /\ MovesAlone(t) /\ at'[t] = "idle" /\ at' \in [Loop!Threads -> Loop!Places]
      /\ node' \in [Loop!Threads -> LoopTasks \union {NoNode}] /\ seen' \in [Loop!Threads -> Loop!Nodes \union {NoNode}]
      /\ seenTail' \in [Loop!Threads -> Loop!Nodes \union {NoNode}] /\ seenNext' \in [Loop!Threads -> LoopTasks \union {NoNode}]
      /\ due' \in [Loop!Threads -> SUBSET LoopTasks]
  BY <1>1, <1>2, ReturnMoves
<1>5. /\ dispatched' \in Seq(LoopTasks) /\ Loop!Dispatched \subseteq Loop!Dispatched'
      /\ at[t] = "dispatch" => node[t] \in Loop!Dispatched'
  <2>1. CASE Loop!Dispatch(t)
    <3>1. at[t] = "dispatch" /\ dispatched' = Append(dispatched, node[t])
      BY <2>1 DEF Loop!Dispatch, Loop!At
    <3>2. node[t] \in LoopTasks /\ dispatched \in Seq(LoopTasks)
      BY <1>1, <3>1, OneOf DEF ThreadOK, Holding, LoopTypes
    <3>3. dispatched' \in Seq(LoopTasks) /\ Len(dispatched') = Len(dispatched) + 1 /\ Len(dispatched) \in Nat
      BY <3>1, <3>2
    <3>4. \A i \in 1 .. Len(dispatched) : dispatched'[i] = dispatched[i]
      BY <3>1, <3>2
    <3>5. dispatched'[Len(dispatched) + 1] = node[t]
      BY <3>1, <3>2
    <3>6. QED BY <3>3, <3>4, <3>5 DEF Loop!Dispatched
  <2>2. CASE Loop!Count(t) \/ Loop!PollEmpty(t)
    <3>1. dispatched' = dispatched /\ at[t] # "dispatch"
      BY <2>2 DEF Loop!Count, Loop!PollEmpty, Loop!At
    <3>2. QED BY <1>1, <3>1 DEF Loop!Dispatched, LoopTypes
  <2>3. QED BY <2>1, <2>2
<1>6. size' \in Int /\ next' \in Links
  BY <1>1, <1>2 DEF LoopTypes, Loop!Count, Loop!PollEmpty, Loop!Dispatch
<1>7. LoopTypes'
  BY <1>4, <1>5, <1>6 DEF LoopTypes
<1>8. Aside(t)
  BY <1>2, <1>3, <1>4, <1>5 DEF Aside, Linking, Holding
<1>9. QED BY <1>1, <1>2, <1>4, <1>7, <1>8, IdleLocal, AsideHolds

LEMMA PollStart ==
  ASSUME LoopInv, NEW c \in Seq(Loop!Nodes), Holds(c), NEW t \in Loop!Threads, Loop!Poll(t)
  PROVE  LoopInv' /\ Loop!Queue' = Loop!Queue
<1>1. LoopTypes /\ AddersApart /\ newest \in On(c)
  BY DEF LoopInv, Holds
<1>2. at' \in [Loop!Threads -> Loop!Places] /\ at'[t] = "load head" /\ \A u \in Loop!Threads \ {t} : at'[u] = at[u]
  <2>1. "load head" \in Loop!Places /\ Loop!Goto(t, "load head")
    BY DEF Loop!Places, Loop!Poll
  <2>2. QED BY <1>1, <2>1, Goes
<1>3. Loop!Added \subseteq On(c) /\ Loop!Added \subseteq LoopTasks
  <2>1. PICK h \in 1 .. Len(c) : Loop!Queue = After(c, h)
    BY QueueFollows
  <2>0. Chain(next, c) /\ Len(c) \in Nat
    BY DEF Holds, Chain, Path
  <2>2. /\ After(c, h) \in Seq(LoopTasks) /\ Len(After(c, h)) = Len(c) - h
        /\ \A i \in 1 .. Len(c) - h : After(c, h)[i] = c[h + i]
    BY <2>0, <2>1, AfterType DEF Chain
  <2>3. ASSUME NEW i \in 1 .. Len(Loop!Queue) PROVE Loop!Queue[i] \in LoopTasks \cap On(c)
    <3>1. h + i \in 1 .. Len(c) /\ Loop!Queue[i] = c[h + i] /\ Loop!Queue[i] \in LoopTasks
      BY <2>0, <2>1, <2>2
    <3>2. QED BY <3>1 DEF On
  <2>4. QED BY <2>3 DEF Loop!Added, Loop!Queued
<1>4. LoopTypes' /\ due'[t] = Loop!Added /\ \A u \in Loop!Threads \ {t} : due'[u] = due[u]
  BY <1>1, <1>2, <1>3 DEF LoopTypes, Loop!Poll
<1>5. Loop!Dispatched' = Loop!Dispatched /\ at[t] = "idle" /\ newest' = newest
  BY DEF Loop!Dispatched, Loop!Poll, Loop!At
<1>6. Aside(t)
  BY <1>2, <1>4, <1>5 DEF Aside, MovesAlone, Loop!Poll, Linking, Holding
<1>7. Local(c, t)
  BY <1>2, <1>3, <1>4 DEF Local, ThreadOK, Linking, Holding, Knowing, Decided, InPoll
<1>8. QED BY <1>1, <1>4, <1>5, <1>6, <1>7, AsideHolds

LEMMA LoadHeadStep ==
  ASSUME LoopInv, NEW c \in Seq(Loop!Nodes), Holds(c), NEW t \in Loop!Threads, Loop!LoadHead(t)
  PROVE  LoopInv' /\ Loop!Queue' = Loop!Queue
<1>1. LoopTypes /\ AddersApart /\ newest \in On(c) /\ oldest \in On(c) /\ On(c) \subseteq Loop!Nodes
  BY OnNodes DEF LoopInv, Holds
<1>2. at' \in [Loop!Threads -> Loop!Places] /\ at'[t] = "load end" /\ \A u \in Loop!Threads \ {t} : at'[u] = at[u]
  <2>1. "load end" \in Loop!Places /\ Loop!Goto(t, "load end")
    BY DEF Loop!Places, Loop!LoadHead
  <2>2. QED BY <1>1, <2>1, Goes
<1>3. LoopTypes' /\ seen'[t] = oldest
  BY <1>1, <1>2 DEF LoopTypes, Loop!LoadHead
<1>4. Loop!Dispatched' = Loop!Dispatched /\ at[t] = "load head" /\ newest' = newest /\ due' = due
  BY DEF Loop!Dispatched, Loop!LoadHead, Loop!At
<1>5. Aside(t)
  BY <1>1, <1>2, <1>4 DEF Aside, MovesAlone, Loop!LoadHead, Linking, Holding, LoopTypes
<1>6. Local(c, t)
  <2>1. due[t] \subseteq On(c)
    BY <1>4, OneOf DEF ThreadOK, InPoll
  <2>2. QED BY <1>1, <1>2, <1>3, <1>4, <2>1 DEF Local, ThreadOK, Linking, Holding, Knowing, Decided, InPoll
<1>7. QED BY <1>1, <1>3, <1>4, <1>5, <1>6, AsideHolds

LEMMA LoadEndStep ==
  ASSUME LoopInv, NEW c \in Seq(Loop!Nodes), Holds(c), NEW t \in Loop!Threads, Loop!LoadEnd(t)
  PROVE  LoopInv' /\ Loop!Queue' = Loop!Queue
<1>1. LoopTypes /\ AddersApart /\ newest \in On(c) /\ On(c) \subseteq Loop!Nodes
  BY OnNodes DEF LoopInv, Holds
<1>2. at' \in [Loop!Threads -> Loop!Places] /\ at'[t] = "load next" /\ \A u \in Loop!Threads \ {t} : at'[u] = at[u]
  <2>1. "load next" \in Loop!Places /\ Loop!Goto(t, "load next")
    BY DEF Loop!Places, Loop!LoadEnd
  <2>2. QED BY <1>1, <2>1, Goes
<1>3. LoopTypes'
  BY <1>1, <1>2 DEF LoopTypes, Loop!LoadEnd
<1>4. Loop!Dispatched' = Loop!Dispatched /\ at[t] = "load end" /\ newest' = newest /\ due' = due /\ seen' = seen
  BY DEF Loop!Dispatched, Loop!LoadEnd, Loop!At
<1>5. Aside(t)
  BY <1>1, <1>2, <1>4 DEF Aside, MovesAlone, Loop!LoadEnd, Linking, Holding
<1>6. Local(c, t)
  <2>1. due[t] \subseteq On(c) /\ seen[t] \in On(c)
    BY <1>4, OneOf DEF ThreadOK, InPoll, Knowing
  <2>2. QED BY <1>2, <1>4, <2>1 DEF Local, ThreadOK, Linking, Holding, Knowing, Decided, InPoll
<1>7. QED BY <1>1, <1>3, <1>4, <1>5, <1>6, AsideHolds

LEMMA LoadNextStep ==
  ASSUME LoopInv, NEW c \in Seq(Loop!Nodes), Holds(c), NEW t \in Loop!Threads, Loop!LoadNext(t)
  PROVE  LoopInv' /\ Loop!Queue' = Loop!Queue
<1>1. LoopTypes /\ AddersApart /\ newest \in On(c) /\ On(c) \subseteq Loop!Nodes /\ Chain(next, c)
  BY OnNodes DEF LoopInv, Holds
<1>2. at' \in [Loop!Threads -> Loop!Places] /\ at'[t] = "look" /\ \A u \in Loop!Threads \ {t} : at'[u] = at[u]
  <2>1. "look" \in Loop!Places /\ Loop!Goto(t, "look")
    BY DEF Loop!Places, Loop!LoadNext
  <2>2. QED BY <1>1, <2>1, Goes
<1>3. Loop!Dispatched' = Loop!Dispatched /\ at[t] = "load next" /\ newest' = newest /\ due' = due /\ seen' = seen
  BY DEF Loop!Dispatched, Loop!LoadNext, Loop!At
<1>4. due[t] \subseteq On(c) /\ seen[t] \in On(c)
  BY <1>3, OneOf DEF ThreadOK, InPoll, Knowing
<1>5. LoopTypes' /\ seenNext'[t] = next[seen[t]]
  BY <1>1, <1>2, <1>4 DEF LoopTypes, Loop!LoadNext, Links
<1>6. Aside(t)
  BY <1>1, <1>2, <1>3 DEF Aside, MovesAlone, Loop!LoadNext, Linking, Holding, LoopTypes
<1>7. ASSUME next[seen[t]] = NoNode, NEW n PROVE NotAfter(c, n, seen[t])
  <2>1. SUFFICES ASSUME NEW i \in 1 .. Len(c), NEW j \in 1 .. Len(c), c[i] = n, c[j] = seen[t] PROVE i <= j
    BY DEF NotAfter
  <2>2. j = Len(c)
    BY <1>1, <1>7, <2>1, LinkLeads
  <2>3. QED BY <2>2
<1>8. Local(c, t)
  BY <1>2, <1>3, <1>4, <1>5, <1>7 DEF Local, ThreadOK, Linking, Holding, Knowing, Decided, InPoll
<1>9. QED BY <1>1, <1>3, <1>5, <1>6, <1>8, AsideHolds

LEMMA LookStep ==
  ASSUME LoopInv, NEW c \in Seq(Loop!Nodes), Holds(c), NEW t \in Loop!Threads, Loop!HeadMoved(t) \/ Loop!Look(t) \/ Loop!TakeFails(t)
  PROVE  LoopInv' /\ Loop!Queue' = Loop!Queue
<1>1. LoopTypes /\ AddersApart /\ newest \in On(c)
  BY DEF LoopInv, Holds
<1>2. PICK p \in {"load head", "help tail", "take"} : Loop!Retries(t, p) /\ (p # "load head" => Loop!Look(t))
  BY DEF Loop!HeadMoved, Loop!Look, Loop!TakeFails
<1>3. at[t] \in {"look", "take"} /\ p \in Loop!Places
  BY DEF Loop!HeadMoved, Loop!Look, Loop!TakeFails, Loop!At, Loop!Places
<1>4. /\ LoopTypes' /\ Aside(t) /\ newest' = newest
      /\ at'[t] = p /\ node'[t] = node[t] /\ seen'[t] = seen[t] /\ seenNext'[t] = seenNext[t] /\ due'[t] = due[t]
  BY <1>1, <1>2, <1>3, RetryAside DEF Linking, Holding
<1>5. /\ due[t] \subseteq On(c) /\ seen[t] \in On(c)
      /\ seenNext[t] = NoNode \/ seenNext[t] = next[seen[t]]
      /\ p # "load head" => seenNext[t] # NoNode
  BY <1>2, <1>3, OneOf DEF ThreadOK, InPoll, Knowing, Decided, Loop!Look, Loop!NoNext
<1>6. Local(c, t)
  BY <1>4, <1>5 DEF Local, ThreadOK, Linking, Holding, Knowing, Decided, InPoll
<1>7. QED BY <1>1, <1>4, <1>6, AsideHolds

LEMMA PollHelpsStep ==
  ASSUME LoopInv, NEW c \in Seq(Loop!Nodes), Holds(c), NEW t \in Loop!Threads, Loop!PollHelps(t)
  PROVE  LoopInv' /\ Loop!Queue' = Loop!Queue
<1>1. LoopTypes /\ AddersApart /\ newest \in On(c) /\ Chain(next, c)
  BY DEF LoopInv, Holds
<1>2. at' \in [Loop!Threads -> Loop!Places] /\ at'[t] = "load head" /\ \A u \in Loop!Threads \ {t} : at'[u] = at[u]
  <2>1. "load head" \in Loop!Places /\ Loop!Goto(t, "load head")
    BY DEF Loop!Places, Loop!PollHelps
  <2>2. QED BY <1>1, <2>1, Goes
<1>3. Loop!Dispatched' = Loop!Dispatched /\ at[t] = "help tail"
  BY DEF Loop!Dispatched, Loop!PollHelps, Loop!At
<1>4. due[t] \subseteq On(c) /\ seen[t] \in On(c) /\ seenNext[t] # NoNode /\ seenNext[t] = next[seen[t]]
  BY <1>3, OneOf DEF ThreadOK, InPoll, Knowing, Decided
<1>5. seenNext[t] \in On(c)
  <2>1. PICK k \in 1 .. Len(c) : c[k] = seen[t]
    BY <1>4 DEF On
  <2>2. next[c[k]] = c[k + 1] /\ k + 1 \in 1 .. Len(c)
    BY <1>1, <1>4, <2>1, LinkLeads
  <2>3. QED BY <1>4, <2>1, <2>2 DEF On
<1>6. newest' \in On(c)
  BY <1>1, <1>5 DEF Loop!PollHelps
<1>7. LoopTypes'
  BY <1>1, <1>2 DEF LoopTypes, Loop!PollHelps, Loop!locals
<1>8. Aside(t)
  BY <1>2, <1>3 DEF Aside, MovesAlone, Loop!PollHelps, Loop!locals, Linking, Holding
<1>9. Local(c, t)
  BY <1>2, <1>4 DEF Local, ThreadOK, Linking, Holding, Knowing, Decided, InPoll, Loop!PollHelps, Loop!locals
<1>10. QED BY <1>1, <1>6, <1>7, <1>8, <1>9, AsideHolds

LEMMA UncountStep ==
  ASSUME LoopInv, NEW c \in Seq(Loop!Nodes), Holds(c), NEW t \in Loop!Threads, Loop!Uncount(t)
  PROVE  LoopInv' /\ Loop!Queue' = Loop!Queue
<1>1. LoopTypes /\ AddersApart /\ newest \in On(c)
  BY DEF LoopInv, Holds
<1>2. at' \in [Loop!Threads -> Loop!Places] /\ at'[t] = "dispatch" /\ \A u \in Loop!Threads \ {t} : at'[u] = at[u]
  <2>1. "dispatch" \in Loop!Places /\ Loop!Goto(t, "dispatch")
    BY DEF Loop!Places, Loop!Uncount
  <2>2. QED BY <1>1, <2>1, Goes
<1>3. Loop!Dispatched' = Loop!Dispatched /\ at[t] = "uncount" /\ newest' = newest /\ node' = node
  BY DEF Loop!Dispatched, Loop!Uncount, Loop!At, Loop!locals
<1>4. node[t] \in LoopTasks
  BY <1>3, OneOf DEF ThreadOK, Holding
<1>5. LoopTypes'
  BY <1>1, <1>2 DEF LoopTypes, Loop!Uncount, Loop!locals
<1>6. Aside(t)
  BY <1>2, <1>3 DEF Aside, MovesAlone, Loop!Uncount, Loop!locals, Linking, Holding
<1>7. Local(c, t)
  BY <1>2, <1>3, <1>4 DEF Local, ThreadOK, Linking, Holding, Knowing, Decided, InPoll
<1>8. QED BY <1>1, <1>3, <1>5, <1>6, <1>7, AsideHolds

-----------------------------------------------------------------------------
(* An add that begins, a link, a take.                                     *)
LEMMA AddStart ==
  ASSUME LoopInv, NEW c \in Seq(Loop!Nodes), Holds(c), NEW t \in Loop!Threads, Loop!Add(t)
  PROVE  LoopInv' /\ Loop!Queue' = Loop!Queue
<1>1. LoopTypes /\ AddersApart /\ newest \in On(c)
  BY DEF LoopInv, Holds
<1>2. at' \in [Loop!Threads -> Loop!Places] /\ at'[t] = "load tail" /\ \A u \in Loop!Threads \ {t} : at'[u] = at[u]
  <2>1. "load tail" \in Loop!Places /\ Loop!Goto(t, "load tail")
    BY DEF Loop!Places, Loop!Add
  <2>2. QED BY <1>1, <2>1, Goes
<1>3. PICK m \in Loop!Fresh : node' = [node EXCEPT ![t] = m]
  BY DEF Loop!Add
<1>4. m \in LoopTasks /\ m \notin Loop!Queued /\ m \notin Loop!Dispatched /\ \A u \in Loop!Threads : node[u] # m
  BY <1>3 DEF Loop!Fresh
<1>5. m \notin On(c)
  <2>1. SUFFICES ASSUME NEW i \in 1 .. Len(c), c[i] = m PROVE FALSE
    BY DEF On
  <2>2. Chain(next, c) /\ Len(c) \in Nat /\ c[1] = Dummy /\ Passed(c)
    BY DEF Holds, Chain, Path
  <2>3. PICK h \in 1 .. Len(c) : c[h] = oldest /\ Loop!Queue = After(c, h)
    BY QueueFollows
  <2>4. i # 1
    BY <1>4, <2>1, <2>2, LoopFacts
  <2>5. CASE i <= h
    BY <1>4, <2>1, <2>2, <2>3, <2>4, <2>5 DEF Passed
  <2>6. CASE ~(i <= h)
    <3>1. i - h \in 1 .. Len(c) - h /\ h + (i - h) = i
      BY <2>2, <2>6
    <3>0. /\ Len(After(c, h)) = Len(c) - h
          /\ \A k \in 1 .. Len(c) - h : After(c, h)[k] = c[h + k]
      BY <2>2, <2>3, AfterType DEF Chain
    <3>2. Len(Loop!Queue) = Len(c) - h /\ Loop!Queue[i - h] = c[h + (i - h)]
      BY <2>3, <3>0, <3>1
    <3>3. m \in Loop!Queued
      BY <2>1, <3>1, <3>2 DEF Loop!Queued
    <3>4. QED BY <1>4, <3>3
  <2>7. QED BY <2>5, <2>6
<1>6. LoopTypes' /\ node'[t] = m /\ \A u \in Loop!Threads \ {t} : node'[u] = node[u]
  BY <1>1, <1>2, <1>3, <1>4 DEF LoopTypes, Loop!Add
<1>7. /\ Loop!Dispatched' = Loop!Dispatched /\ at[t] = "idle" /\ newest' = newest /\ next' = next /\ oldest' = oldest
      /\ seen' = seen /\ seenNext' = seenNext /\ due' = due
  BY DEF Loop!Dispatched, Loop!Add, Loop!At
<1>8. Local(c, t)
  BY <1>2, <1>4, <1>5, <1>6 DEF Local, ThreadOK, Linking, Holding, Knowing, Decided, InPoll
<1>9. MovesAlone(t)
  BY <1>2, <1>6, <1>7 DEF MovesAlone
<1>10. Handed
  BY <1>2, <1>6, <1>7 DEF Handed, Holding
<1>11. Holds(c)'
  BY <1>1, <1>7, <1>8, <1>9, <1>10, PassedStays, Unlinked DEF Local, Holds
<1>12. AddersApart'
  <2>1. ASSUME NEW u \in Loop!Threads, u # t, at'[u] \in Linking PROVE at[u] \in Linking /\ node'[u] = node[u] /\ node'[u] # node'[t]
    BY <1>2, <1>4, <1>6, <2>1
  <2>2. QED BY <1>1, <2>1 DEF AddersApart
<1>13. Loop!Queue' = Loop!Queue
  BY <1>7, QueueIs, QueueIsThen
<1>14. QED BY <1>6, <1>11, <1>12, <1>13 DEF LoopInv

(* What a longer chain keeps.                                              *)
Longer(nx, c, m, nx2, c2) ==
  /\ nx \in Links /\ Chain(nx, c) /\ m \in LoopTasks \ On(c) /\ nx[m] = NoNode
  /\ nx2 = [nx EXCEPT ![c[Len(c)]] = m] /\ c2 = Append(c, m)

LEMMA ChainLonger ==
  ASSUME NEW nx, NEW c, NEW m, NEW nx2, NEW c2, Longer(nx, c, m, nx2, c2)
  PROVE  /\ Chain(nx2, c2) /\ nx2 \in Links
         /\ On(c2) = On(c) \cup {m}
         /\ c2 \in Seq(Loop!Nodes) /\ Len(c2) = Len(c) + 1 /\ c2[Len(c) + 1] = m /\ \A i \in 1 .. Len(c) : c2[i] = c[i]
         /\ \A n \in Loop!Nodes : n # c[Len(c)] => nx2[n] = nx[n]
<1> DEFINE L == Len(c)
<1>1. /\ c \in Seq(Loop!Nodes) /\ L \in Nat /\ L >= 1 /\ c[1] = Dummy /\ nx[c[L]] = NoNode
      /\ \A i \in 1 .. L - 1 : nx[c[i]] = c[i + 1]
      /\ \A i, j \in 1 .. L : c[i] = c[j] => i = j
      /\ m \in Loop!Nodes /\ m \in LoopTasks \ On(c) /\ nx[m] = NoNode /\ nx \in Links
      /\ nx2 = [nx EXCEPT ![c[L]] = m] /\ c2 = Append(c, m)
  BY DEF Longer, Chain, Path, Loop!Nodes
<1>2. c2 \in Seq(Loop!Nodes) /\ Len(c2) = L + 1 /\ c2[L + 1] = m /\ \A i \in 1 .. L : c2[i] = c[i]
  BY <1>1
<1>3. c[L] \in Loop!Nodes /\ \A i \in 1 .. L : c[i] \in On(c)
  BY <1>1 DEF On
<1>4. nx2 \in Links /\ nx2[c[L]] = m /\ \A n \in Loop!Nodes : n # c[L] => nx2[n] = nx[n]
  BY <1>1, <1>3 DEF Links
<1>5. On(c2) = On(c) \cup {m}
  <2>1. ASSUME NEW n \in On(c2) PROVE n \in On(c) \cup {m}
    BY <1>1, <1>2 DEF On
  <2>2. On(c) \subseteq On(c2)
    BY <1>1, <1>2 DEF On
  <2>3. m \in On(c2)
    BY <1>1, <1>2 DEF On
  <2>4. QED BY <2>1, <2>2, <2>3
<1>6. ASSUME NEW i \in 1 .. L PROVE nx2[c2[i]] = c2[i + 1]
  <2>1. CASE i = L
    BY <1>2, <1>4, <2>1
  <2>2. CASE i # L
    <3>1. i \in 1 .. L - 1 /\ L \in 1 .. L /\ i + 1 \in 1 .. L
      BY <1>1, <2>2
    <3>2. c[i] # c[L] /\ c[i] \in Loop!Nodes
      BY <1>1, <2>2, <3>1
    <3>3. QED BY <1>1, <1>2, <1>4, <3>1, <3>2
  <2>3. QED BY <2>1, <2>2
<1>7. nx2[c2[L + 1]] = NoNode
  <2>1. m # c[L]
    BY <1>1, <1>3
  <2>2. QED BY <1>1, <1>2, <1>4, <2>1
<1>8. ASSUME NEW i \in 1 .. L + 1, NEW j \in 1 .. L + 1, c2[i] = c2[j] PROVE i = j
  <2>1. CASE i \in 1 .. L /\ j \in 1 .. L
    BY <1>1, <1>2, <1>8, <2>1
  <2>2. CASE i = L + 1 /\ j \in 1 .. L
    BY <1>1, <1>2, <1>3, <1>8, <2>2
  <2>3. CASE j = L + 1 /\ i \in 1 .. L
    BY <1>1, <1>2, <1>3, <1>8, <2>3
  <2>4. (i \in 1 .. L \/ i = L + 1) /\ (j \in 1 .. L \/ j = L + 1)
    BY <1>1
  <2>5. QED BY <2>1, <2>2, <2>3, <2>4
<1> HIDE DEF L
<1>9. c2[1] = Dummy /\ L + 1 - 1 = L
  BY <1>1, <1>2
<1>10. Chain(nx2, c2)
  <2>0. Len(c2) - 1 = L
    BY <1>1, <1>2
  <2>1. \A i \in 1 .. Len(c2) - 1 : nx2[c2[i]] = c2[i + 1]
    BY <1>6, <2>0
  <2>2. Len(c2) >= 1 /\ nx2[c2[Len(c2)]] = NoNode
    BY <1>1, <1>2, <1>7
  <2>3. \A i, j \in 1 .. Len(c2) : c2[i] = c2[j] => i = j
    BY <1>2, <1>8
  <2>4. QED BY <1>2, <1>9, <2>1, <2>2, <2>3 DEF Chain, Path
<1>11. QED BY <1>2, <1>4, <1>5, <1>10 DEF L

LEMMA ThreadLonger ==
  ASSUME NEW nx, NEW c, NEW m, NEW nx2, NEW c2, Longer(nx, c, m, nx2, c2),
         NEW p, NEW nd, NEW sn, NEW sx, NEW du, ThreadOK(nx, c, p, nd, sn, sx, du),
         p \in Linking => nd # m
  PROVE  ThreadOK(nx2, c2, p, nd, sn, sx, du)
<1>1. /\ On(c2) = On(c) \cup {m}
      /\ Len(c2) = Len(c) + 1 /\ c2[Len(c) + 1] = m
      /\ \A i \in 1 .. Len(c) : c2[i] = c[i]
      /\ \A n \in Loop!Nodes : n # c[Len(c)] => nx2[n] = nx[n]
  BY ChainLonger
<1>2. nx[c[Len(c)]] = NoNode /\ Len(c) \in Nat /\ c \in Seq(Loop!Nodes) /\ m \notin On(c)
  BY DEF Longer, Chain, Path
<1>3. p \in Decided /\ sx # NoNode => sx = nx2[sn]
  <2>1. SUFFICES ASSUME p \in Decided, sx # NoNode PROVE sx = nx2[sn]
    OBVIOUS
  <2>2. sx = nx[sn] /\ sn \in On(c)
    BY <2>1 DEF ThreadOK, Decided, Knowing
  <2>3. sn \in Loop!Nodes /\ sn # c[Len(c)]
    BY <1>2, <2>1, <2>2, OnNodes
  <2>4. QED BY <1>1, <2>2, <2>3
<1>4. ASSUME NEW n \in On(c), sn \in On(c), NotAfter(c, n, sn) PROVE NotAfter(c2, n, sn)
  <2>1. SUFFICES ASSUME NEW i \in 1 .. Len(c2), NEW j \in 1 .. Len(c2), c2[i] = n, c2[j] = sn PROVE i <= j
    BY DEF NotAfter
  <2>2. i # Len(c) + 1 /\ j # Len(c) + 1
    BY <1>1, <1>2, <1>4, <2>1
  <2>3. i \in 1 .. Len(c) /\ j \in 1 .. Len(c)
    BY <1>1, <1>2, <2>2
  <2>4. QED BY <1>1, <1>4, <2>1, <2>3 DEF NotAfter
<1>5. p \in Linking => nd \in LoopTasks \ On(c2)
  BY <1>1, <1>2 DEF ThreadOK
<1>6. p \in Knowing => sn \in On(c)
  BY DEF ThreadOK
<1>7. p = "look" /\ sx = NoNode => \A n \in du : NotAfter(c2, n, sn)
  <2>1. SUFFICES ASSUME p = "look", sx = NoNode, NEW n \in du PROVE NotAfter(c2, n, sn)
    OBVIOUS
  <2>2. n \in On(c) /\ sn \in On(c) /\ NotAfter(c, n, sn)
    BY <2>1 DEF ThreadOK, InPoll, Knowing
  <2>3. QED BY <1>4, <2>2
<1>8. QED BY <1>1, <1>3, <1>5, <1>6, <1>7 DEF ThreadOK

LEMMA LinkStep ==
  ASSUME LoopInv, NEW c \in Seq(Loop!Nodes), Holds(c), NEW t \in Loop!Threads, Loop!Link(t)
  PROVE  /\ LoopInv'
         /\ Len(Loop!Queue) < Cardinality(LoopTasks) /\ \E m \in LoopTasks : Loop!Queue' = Append(Loop!Queue, m)
<1> DEFINE L == Len(c)
<1>0. PICK m, d : m = node[t] /\ d = Append(c, m)
  OBVIOUS
<1>1. LoopTypes /\ AddersApart /\ newest \in On(c) /\ oldest \in On(c) /\ Chain(next, c) /\ Passed(c)
      /\ \A n \in Loop!Nodes \ On(c) : next[n] = NoNode
  BY DEF LoopInv, Holds
<1>2. at' \in [Loop!Threads -> Loop!Places] /\ at'[t] = "swing" /\ \A u \in Loop!Threads \ {t} : at'[u] = at[u]
  <2>1. "swing" \in Loop!Places /\ Loop!Goto(t, "swing")
    BY DEF Loop!Places, Loop!Link
  <2>2. QED BY <1>1, <2>1, Goes
<1>3. at[t] = "link" /\ next[seen[t]] = NoNode
  BY DEF Loop!Link, Loop!At, Loop!LastSeen
<1>4. m \in LoopTasks \ On(c) /\ seen[t] \in On(c)
  BY <1>0, <1>3, OneOf DEF ThreadOK, Linking, Knowing
<1>5. seen[t] = c[L] /\ L \in 1 .. L
  <2>1. PICK k \in 1 .. Len(c) : c[k] = seen[t]
    BY <1>4 DEF On
  <2>2. QED BY <1>1, <1>3, <2>1, LinkLeads
<1>6. next' = [next EXCEPT ![c[L]] = m]
  BY <1>0, <1>5 DEF Loop!Link
<1>7. next[m] = NoNode
  BY <1>1, <1>4 DEF Loop!Nodes
<1>8. Longer(next, c, m, next', d)
  BY <1>0, <1>1, <1>4, <1>6, <1>7 DEF Longer, LoopTypes
<1>9. /\ Chain(next', d) /\ next' \in Links
      /\ On(d) = On(c) \cup {m}
      /\ d \in Seq(Loop!Nodes) /\ Len(d) = L + 1 /\ d[L + 1] = m
      /\ \A i \in 1 .. L : d[i] = c[i]
      /\ \A n \in Loop!Nodes : n # c[L] => next'[n] = next[n]
  BY <1>8, ChainLonger
<1>10. /\ oldest' = oldest /\ newest' = newest /\ node' = node /\ seen' = seen /\ seenNext' = seenNext /\ due' = due
       /\ dispatched' = dispatched /\ size' = size /\ seenTail' = seenTail /\ Loop!Dispatched' = Loop!Dispatched
  BY DEF Loop!Link, Loop!locals, Loop!Dispatched
<1>11. LoopTypes'
  BY <1>1, <1>2, <1>9, <1>10 DEF LoopTypes
<1>12. AddersApart'
  BY <1>1, <1>2, <1>10 DEF AddersApart, Linking
<1>13. ASSUME NEW u \in Loop!Threads
       PROVE  ThreadOK(next', d, at'[u], node'[u], seen'[u], seenNext'[u], due'[u])
  <2>1. CASE u = t
    BY <1>0, <1>2, <1>9, <1>10, <2>1 DEF ThreadOK, Linking, Holding, Knowing, Decided, InPoll
  <2>2. CASE u # t
    <3>1. ThreadOK(next, c, at[u], node[u], seen[u], seenNext[u], due[u])
      BY OneOf
    <3>2. at[u] \in Linking => node[u] # m
      BY <1>0, <1>1, <1>3, <2>2 DEF AddersApart, Linking
    <3>3. ThreadOK(next', d, at[u], node[u], seen[u], seenNext[u], due[u])
      BY <1>8, <3>1, <3>2, ThreadLonger
    <3>4. QED BY <1>2, <1>10, <2>2, <3>3
  <2>3. QED BY <2>1, <2>2
<1>14. Len(c) \in Nat
  BY <1>1 DEF Chain, Path
<1>15. Passed(d)'
  <2>1. SUFFICES ASSUME NEW i \in 1 .. Len(d), NEW h \in 1 .. Len(d), 1 < i, i <= h, d[h] = oldest
                 PROVE  d[i] \in Loop!Dispatched \/ \E u \in Loop!Threads : at'[u] \in Holding /\ node[u] = d[i]
    BY <1>10 DEF Passed
  <2>2. h # L + 1
    BY <1>1, <1>4, <1>9, <2>1
  <2>3. h \in 1 .. L /\ i \in 1 .. L
    BY <1>9, <1>14, <2>1, <2>2
  <2>4. d[i] = c[i] /\ c[h] = oldest
    BY <1>9, <2>1, <2>3
  <2>5. c[i] \in Loop!Dispatched \/ \E u \in Loop!Threads : at[u] \in Holding /\ node[u] = c[i]
    BY <1>1, <2>1, <2>3, <2>4 DEF Passed
  <2>6. \A u \in Loop!Threads : at[u] \in Holding => at'[u] \in Holding
    BY <1>2, <1>3 DEF Holding
  <2>7. QED BY <2>4, <2>5, <2>6
<1>16. \A n \in Loop!Nodes \ On(d) : next'[n] = NoNode
  <2>1. c[L] \in On(c)
    BY <1>5 DEF On
  <2>2. QED BY <1>1, <1>9, <2>1
<1>17. Holds(d)'
  BY <1>1, <1>9, <1>10, <1>13, <1>15, <1>16 DEF Holds
<1>18. LoopInv'
  BY <1>9, <1>11, <1>12, <1>17 DEF LoopInv
<1>19. PICK h \in 1 .. L : c[h] = oldest /\ Loop!Queue = After(c, h)
  BY QueueFollows
<1>20. /\ After(c, h) \in Seq(LoopTasks) /\ Len(After(c, h)) = L - h
       /\ \A i \in 1 .. L - h : After(c, h)[i] = c[h + i]
  BY <1>1, <1>19, AfterType DEF Chain
<1>21. Loop!Queue' = After(d, h)
  <2>1. h \in 1 .. Len(d) /\ d[h] = oldest'
    BY <1>9, <1>10, <1>14, <1>19
  <2>2. QED BY <1>9, <2>1, QueueIsThen, QueueOfChain
<1>22. After(d, h) = Append(After(c, h), m)
  <2>1. h \in 1 .. Len(d) /\ Path(d)
    BY <1>9, <1>14, <1>19 DEF Chain
  <2>2. PICK n \in Nat : n = L - h
    BY <1>14, <1>19
  <2>3. Len(d) - h = n + 1
    BY <1>9, <1>14, <1>19, <2>2
  <2>4. /\ After(d, h) \in Seq(LoopTasks) /\ Len(After(d, h)) = n + 1
        /\ \A i \in 1 .. n + 1 : After(d, h)[i] = d[h + i]
    BY <2>1, <2>3, AfterType
  <2>5. /\ After(c, h) \in Seq(LoopTasks) /\ Len(After(c, h)) = n
        /\ \A i \in 1 .. n : After(c, h)[i] = c[h + i]
    BY <1>20, <2>2
  <2>6. ASSUME NEW i \in 1 .. n PROVE After(d, h)[i] = After(c, h)[i]
    <3>1. h + i \in 1 .. L /\ i \in 1 .. n + 1
      BY <1>14, <1>19, <2>2
    <3>2. QED BY <1>9, <2>4, <2>5, <3>1
  <2>7. After(d, h)[n + 1] = m
    <3>1. n + 1 \in 1 .. n + 1 /\ h + (n + 1) = L + 1
      BY <1>14, <1>19, <2>2
    <3>2. After(d, h)[n + 1] = d[h + (n + 1)]
      BY <2>4, <3>1
    <3>3. QED BY <1>9, <3>1, <3>2
  <2>8. After(d, h) \in [1 .. n + 1 -> LoopTasks]
    BY <2>4, LenProperties
  <2>9. QED BY <1>4, <2>5, <2>6, <2>7, <2>8, OneMore
<1>23. Len(Loop!Queue) < Cardinality(LoopTasks)
  <2>1. ASSUME NEW i \in 1 .. L - h PROVE c[h + i] \in LoopTasks \ {m}
    <3>1. h + i \in 1 .. L /\ c[h + i] \in LoopTasks
      <4>1. h + i \in 1 .. L /\ After(c, h)[i] \in LoopTasks
        BY <1>14, <1>19, <1>20
      <4>2. QED BY <1>20, <4>1
    <3>2. c[h + i] \in On(c)
      BY <3>1 DEF On
    <3>3. QED BY <1>4, <3>1, <3>2
  <2>2. After(c, h) \in [1 .. L - h -> LoopTasks \ {m}]
    BY <1>20, <2>1, LenProperties
  <2>3. ASSUME NEW i \in 1 .. L - h, NEW j \in 1 .. L - h, After(c, h)[i] = After(c, h)[j] PROVE i = j
    <3>1. h + i \in 1 .. L /\ h + j \in 1 .. L /\ c[h + i] = c[h + j]
      BY <1>14, <1>19, <1>20, <2>3
    <3>2. h + i = h + j
      BY <1>1, <3>1 DEF Chain, Path
    <3>3. QED BY <1>19, <3>2
  <2>4. IsFiniteSet(LoopTasks \ {m}) /\ Cardinality(LoopTasks \ {m}) = Cardinality(LoopTasks) - 1 /\ Cardinality(LoopTasks) \in Nat
    BY <1>4, LoopFacts, FS_RemoveElement, FS_CardinalityType
  <2>5. L - h \in Nat
    BY <1>14, <1>19
  <2>6. L - h <= Cardinality(LoopTasks \ {m})
    BY <2>2, <2>3, <2>4, <2>5, AtMost
  <2>7. QED BY <1>19, <1>20, <2>4, <2>5, <2>6
<1>24. QED BY <1>4, <1>18, <1>19, <1>21, <1>22, <1>23

LEMMA TakeStep ==
  ASSUME LoopInv, NEW c \in Seq(Loop!Nodes), Holds(c), NEW t \in Loop!Threads, Loop!Take(t)
  PROVE  LoopInv' /\ Loop!Queue # << >> /\ Loop!Queue' = Tail(Loop!Queue)
<1>1. LoopTypes /\ AddersApart /\ newest \in On(c) /\ oldest \in On(c) /\ Chain(next, c) /\ Passed(c)
  BY DEF LoopInv, Holds
<1>2. at' \in [Loop!Threads -> Loop!Places] /\ at'[t] = "uncount" /\ \A u \in Loop!Threads \ {t} : at'[u] = at[u]
  <2>1. "uncount" \in Loop!Places /\ Loop!Goto(t, "uncount")
    BY DEF Loop!Places, Loop!Take
  <2>2. QED BY <1>1, <2>1, Goes
<1>3. at[t] = "take" /\ oldest = seen[t] /\ oldest' = seenNext[t]
  BY DEF Loop!Take, Loop!At, Loop!HeadAsSeen
<1>4. seenNext[t] # NoNode /\ seenNext[t] = next[oldest]
  BY <1>3, OneOf DEF ThreadOK, Decided
<1>5. PICK h \in 1 .. Len(c) : c[h] = oldest /\ Loop!Queue = After(c, h)
  BY QueueFollows
<1>6. h < Len(c) /\ oldest' = c[h + 1] /\ h + 1 \in 1 .. Len(c) /\ Len(c) \in Nat
  <2>1. Len(c) \in Nat
    BY <1>1 DEF Chain, Path
  <2>2. h < Len(c) /\ oldest' = c[h + 1]
    BY <1>1, <1>3, <1>4, <1>5, LinkLeads
  <2>3. QED BY <2>1, <2>2
<1>7. /\ After(c, h) \in Seq(LoopTasks) /\ Len(After(c, h)) = Len(c) - h
      /\ \A i \in 1 .. Len(c) - h : After(c, h)[i] = c[h + i]
  BY <1>1, <1>5, AfterType DEF Chain
<1>8. /\ After(c, h + 1) \in Seq(LoopTasks) /\ Len(After(c, h + 1)) = Len(c) - (h + 1)
      /\ \A i \in 1 .. Len(c) - (h + 1) : After(c, h + 1)[i] = c[h + 1 + i]
  BY <1>1, <1>6, AfterType DEF Chain
<1>9. /\ next' = next /\ newest' = newest /\ dispatched' = dispatched /\ size' = size /\ seen' = seen
      /\ seenTail' = seenTail /\ seenNext' = seenNext /\ due' = due /\ Loop!Dispatched' = Loop!Dispatched
      /\ node' = [node EXCEPT ![t] = seenNext[t]]
  BY DEF Loop!Take, Loop!Dispatched
<1>10. seenNext[t] \in LoopTasks /\ oldest' \in On(c)
  BY <1>1, <1>4, <1>6 DEF LoopTypes, On
<1>11. node'[t] = oldest' /\ \A u \in Loop!Threads \ {t} : node'[u] = node[u]
  BY <1>1, <1>3, <1>9 DEF LoopTypes
<1>12. LoopTypes'
  BY <1>1, <1>2, <1>9, <1>10 DEF LoopTypes
<1>13. AddersApart'
  BY <1>2, <1>1, <1>11, ApartStays DEF Linking
<1>14. MovesAlone(t)
  BY <1>2, <1>9, <1>11 DEF MovesAlone
<1>15. Local(c, t)
  BY <1>2, <1>3, <1>10, <1>11 DEF Local, ThreadOK, Linking, Holding, Knowing, Decided, InPoll
<1>16. ASSUME NEW u \in Loop!Threads
       PROVE  ThreadOK(next, c, at'[u], node'[u], seen'[u], seenNext'[u], due'[u])
  <2>1. CASE u = t
    BY <1>15, <2>1 DEF Local
  <2>2. CASE u # t
    BY <1>14, <2>2, OneOf DEF MovesAlone
  <2>3. QED BY <2>1, <2>2
<1>17. Passed(c)'
  <2>1. SUFFICES ASSUME NEW i \in 1 .. Len(c), NEW k \in 1 .. Len(c), 1 < i, i <= k, c[k] = oldest'
                 PROVE  c[i] \in Loop!Dispatched \/ \E u \in Loop!Threads : at'[u] \in Holding /\ node'[u] = c[i]
    BY <1>9 DEF Passed
  <2>2. k = h + 1
    BY <1>1, <1>6, <2>1 DEF Chain, Path
  <2>3. CASE i = h + 1
    BY <1>2, <1>6, <1>11, <2>3 DEF Holding
  <2>4. CASE i # h + 1
    <3>1. i <= h
      BY <2>1, <2>2, <2>4, <1>6
    <3>2. c[i] \in Loop!Dispatched \/ \E u \in Loop!Threads : at[u] \in Holding /\ node[u] = c[i]
      BY <1>1, <1>5, <2>1, <3>1 DEF Passed
    <3>3. \A u \in Loop!Threads : at[u] \in Holding => at'[u] \in Holding /\ node'[u] = node[u]
      BY <1>2, <1>3, <1>11 DEF Holding
    <3>4. QED BY <3>2, <3>3
  <2>5. QED BY <2>3, <2>4
<1>18. Holds(c)'
  BY <1>1, <1>9, <1>10, <1>16, <1>17 DEF Holds
<1>19. LoopInv'
  BY <1>12, <1>13, <1>18 DEF LoopInv
<1>20. Loop!Queue' = After(c, h + 1)
  BY <1>1, <1>6, <1>9, QueueIsThen, QueueOfChain
<1>21. Loop!Queue # << >> /\ After(c, h + 1) = Tail(Loop!Queue)
  <2>1. Len(After(c, h)) = (Len(c) - (h + 1)) + 1 /\ Len(c) - (h + 1) \in Nat
    BY <1>5, <1>6, <1>7
  <2>2. ASSUME NEW i \in 1 .. Len(c) - (h + 1) PROVE After(c, h + 1)[i] = After(c, h)[i + 1]
    <3>1. i + 1 \in 1 .. Len(c) - h /\ h + (i + 1) = h + 1 + i
      BY <1>5, <1>6
    <3>2. QED BY <1>7, <1>8, <3>1
  <2>3. After(c, h + 1) \in [1 .. Len(c) - (h + 1) -> LoopTasks]
    BY <1>8, LenProperties
  <2>4. QED BY <1>5, <1>7, <2>1, <2>2, <2>3, OneLess
<1>22. QED BY <1>19, <1>20, <1>21

-----------------------------------------------------------------------------
(* Every step does one of three things to the queue.                       *)
Linked == Len(Loop!Queue) < Cardinality(LoopTasks) /\ \E m \in LoopTasks : Loop!Queue' = Append(Loop!Queue, m)
Unqueued == Loop!Queue # << >> /\ Loop!Queue' = Tail(Loop!Queue)

LEMMA NextLoop ==
  ASSUME LoopInv, [Loop!Next]_(Loop!vars)
  PROVE  LoopInv' /\ (Linked \/ Unqueued \/ Loop!Queue' = Loop!Queue)
<1>1. PICK c \in Seq(Loop!Nodes) : Holds(c)
  BY DEF LoopInv
<1>2. CASE UNCHANGED Loop!vars
  <2>1. /\ next' = next /\ oldest' = oldest /\ newest' = newest /\ node' = node /\ seen' = seen /\ seenNext' = seenNext
        /\ due' = due /\ dispatched' = dispatched /\ size' = size /\ seenTail' = seenTail /\ at' = at
    BY <1>2 DEF Loop!vars, Loop!locals
  <2>2. LoopTypes' /\ AddersApart' /\ Passed(c)'
    BY <1>1, <2>1 DEF LoopInv, LoopTypes, AddersApart, Holds, Passed, Loop!Dispatched
  <2>3. Holds(c)'
    BY <1>1, <2>1, <2>2 DEF Holds
  <2>4. Loop!Queue' = Loop!Queue
    BY <2>1, QueueIs, QueueIsThen
  <2>5. QED BY <2>2, <2>3, <2>4 DEF LoopInv
<1>3. ASSUME NEW t \in Loop!Threads, Loop!Add(t) \/ Loop!AddStep(t) \/ Loop!Poll(t) \/ Loop!PollStep(t)
      PROVE  LoopInv' /\ (Linked \/ Unqueued \/ Loop!Queue' = Loop!Queue)
  <2>1. CASE Loop!Add(t)
    BY <1>1, <2>1, AddStart
  <2>2. CASE Loop!AddStep(t)
    <3>1. CASE Loop!LoadTail(t)
      BY <1>1, <3>1, LoadTailStep
    <3>2. CASE Loop!Link(t)
      BY <1>1, <3>2, LinkStep DEF Linked
    <3>3. CASE Loop!LinkFails(t) \/ Loop!AddHelps(t)
      BY <1>1, <3>3, LinkFailsStep
    <3>4. CASE Loop!Swing(t)
      BY <1>1, <3>4, SwingStep
    <3>5. CASE Loop!Count(t)
      BY <1>1, <3>5, ReturnStep
    <3>6. QED BY <2>2, <3>1, <3>2, <3>3, <3>4, <3>5 DEF Loop!AddStep
  <2>3. CASE Loop!Poll(t)
    BY <1>1, <2>3, PollStart
  <2>4. CASE Loop!PollStep(t)
    <3>1. CASE Loop!LoadHead(t)
      BY <1>1, <3>1, LoadHeadStep
    <3>2. CASE Loop!LoadEnd(t)
      BY <1>1, <3>2, LoadEndStep
    <3>3. CASE Loop!LoadNext(t)
      BY <1>1, <3>3, LoadNextStep
    <3>4. CASE Loop!HeadMoved(t) \/ Loop!Look(t) \/ Loop!TakeFails(t)
      BY <1>1, <3>4, LookStep
    <3>5. CASE Loop!PollEmpty(t) \/ Loop!Dispatch(t)
      BY <1>1, <3>5, ReturnStep
    <3>6. CASE Loop!PollHelps(t)
      BY <1>1, <3>6, PollHelpsStep
    <3>7. CASE Loop!Take(t)
      BY <1>1, <3>7, TakeStep DEF Unqueued
    <3>8. CASE Loop!Uncount(t)
      BY <1>1, <3>8, UncountStep
    <3>9. QED BY <2>4, <3>1, <3>2, <3>3, <3>4, <3>5, <3>6, <3>7, <3>8 DEF Loop!PollStep
  <2>5. QED BY <1>3, <2>1, <2>2, <2>3, <2>4
<1>4. QED BY <1>2, <1>3 DEF Loop!Next

LEMMA QueueInvariant == Loop!Spec => []LoopInv
<1>1. QED BY InitLoop, NextLoop, PTL DEF Loop!Spec

(* light_async_loop_add and light_async_loop_poll: whatever the number of   *)
(* threads and tasks and whatever compare-and-swaps fail, a task enters the *)
(* queue when its node is linked and leaves it when the head moves, in      *)
(* order, none twice and none overtaken.                                   *)
THEOREM LoopIsFifo == Loop!Spec => LoopImplementsFifo
<1>1. Loop!Init => Loop!Fifo!Init
  BY InitLoop DEF Loop!Fifo!Init
<1>2. ASSUME LoopInv, [Loop!Next]_(Loop!vars) PROVE [Loop!Fifo!Next]_(Loop!Fifo!vars)
  <2>1. CASE Linked
    BY <2>1, SameSizes DEF Linked, Loop!Fifo!Next, Loop!Fifo!Send
  <2>2. CASE Unqueued
    BY <2>2 DEF Unqueued, Loop!Fifo!Next, Loop!Fifo!Receive
  <2>3. CASE Loop!Queue' = Loop!Queue
    BY <2>3 DEF Loop!Fifo!vars
  <2>4. QED BY <1>2, <2>1, <2>2, <2>3, NextLoop
<1>3. QED BY QueueInvariant, <1>1, <1>2, PTL DEF Loop!Spec, LoopImplementsFifo, Loop!ImplementsFifo, Loop!Fifo!Spec

(* light_async_loop_poll: when it finds the list empty, every task whose    *)
(* add had returned before this poll began was taken by another one.       *)
THEOREM EmptyIsEmpty == Loop!Spec => EmptyMeansTaken
<1>1. ASSUME LoopInv, [Loop!Next]_(Loop!vars), NEW t \in Loop!Threads, Loop!PollEmpty(t) PROVE due[t] \intersect Loop!Queued = {}
  <2>1. PICK c \in Seq(Loop!Nodes) : Holds(c)
    BY <1>1 DEF LoopInv
  <2>2. PICK h \in 1 .. Len(c) : c[h] = oldest /\ Loop!Queue = After(c, h)
    BY <2>1, QueueFollows
  <2>3. at[t] = "look" /\ oldest = seen[t] /\ seenNext[t] = NoNode
    BY <1>1 DEF Loop!PollEmpty, Loop!At, Loop!NoNext
  <2>4. \A m \in due[t] : NotAfter(c, m, oldest)
    BY <2>1, <2>3, OneOf DEF ThreadOK
  <2>5. Chain(next, c) /\ Len(c) \in Nat
    BY <2>1 DEF Holds, Chain, Path
  <2>6. /\ Len(After(c, h)) = Len(c) - h
        /\ \A i \in 1 .. Len(c) - h : After(c, h)[i] = c[h + i]
    BY <2>2, <2>5, AfterType DEF Chain
  <2>7. ASSUME NEW i \in 1 .. Len(Loop!Queue) PROVE Loop!Queue[i] \notin due[t]
    <3>1. h + i \in 1 .. Len(c) /\ Loop!Queue[i] = c[h + i] /\ ~(h + i <= h)
      BY <2>2, <2>5, <2>6
    <3>2. ~NotAfter(c, Loop!Queue[i], oldest)
      BY <2>2, <3>1 DEF NotAfter
    <3>3. QED BY <2>4, <3>2
  <2>8. QED BY <2>7 DEF Loop!Queued
<1>2. ASSUME LoopInv, [Loop!Next]_(Loop!vars) PROVE \A t \in Loop!Threads : Loop!PollEmpty(t) => due[t] \intersect Loop!Queued = {}
  BY <1>1, <1>2
<1>3. QED BY QueueInvariant, <1>2, PTL DEF Loop!Spec, EmptyMeansTaken, Loop!EmptyMeansTaken
=============================================================================

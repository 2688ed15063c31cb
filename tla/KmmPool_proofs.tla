---------------------------- MODULE KmmPool_proofs ----------------------------
(***************************************************************************)
(* The concurrent refill of the KMM pool, for every number of threads and  *)
(* every size of the regions: the state is well-typed, the chain has one   *)
(* modifier at a time, no two thread heaps overlap, each lies in one       *)
(* region, is committed before it is used, and the pool implements         *)
(* BlockPool.                                                              *)
(***************************************************************************)
EXTENDS KmmPool, SequenceTheorems, TLAPS

USE PoolAssumption

-----------------------------------------------------------------------------
(* The extension chain.                                                    *)

LEMMA ChainAppended ==
  ASSUME NEW es \in Seq(Nat), NEW x \in Nat
  PROVE  LET fs == Append(es, x) IN
         /\ fs \in Seq(Nat) /\ Len(fs) = Len(es) + 1 /\ fs # << >>
         /\ ChainEnd(fs) = x
         /\ SegBegin(fs, Len(fs)) = ChainEnd(es)
         /\ \A i \in DOMAIN es : fs[i] = es[i] /\ SegBegin(fs, i) = SegBegin(es, i)
         /\ DOMAIN es = 1 .. Len(es) /\ DOMAIN fs = 1 .. Len(es) + 1
<1> DEFINE fs == Append(es, x)
<1>1. /\ fs \in Seq(Nat) /\ fs # << >> /\ Len(fs) = Len(es) + 1 /\ Len(es) \in Nat
      /\ \A i \in 1 .. Len(es) : fs[i] = es[i]
      /\ fs[Len(es) + 1] = x
  BY AppendProperties, LenProperties
<1>2. DOMAIN es = 1 .. Len(es) /\ DOMAIN fs = 1 .. Len(es) + 1
  BY <1>1, LenProperties
<1> HIDE DEF fs
<1>3. ChainEnd(fs) = x
  BY <1>1 DEF ChainEnd
<1>4. SegBegin(fs, Len(fs)) = ChainEnd(es)
  <2>1. CASE es = << >>
    BY <1>1, <2>1, EmptySeq DEF ChainEnd, SegBegin
  <2>2. CASE es # << >>
    <3>1. Len(es) \in 1 .. Len(es) /\ Len(es) + 1 # 1
      BY <1>1, <2>2, EmptySeq
    <3>2. QED BY <1>1, <2>2, <3>1 DEF ChainEnd, SegBegin
  <2>3. QED BY <2>1, <2>2
<1>5. ASSUME NEW i \in DOMAIN es PROVE fs[i] = es[i] /\ SegBegin(fs, i) = SegBegin(es, i)
  <2>1. i \in 1 .. Len(es)
    BY <1>2
  <2>2. i # 1 => i - 1 \in 1 .. Len(es)
    BY <1>1, <2>1
  <2>3. QED BY <1>1, <2>1, <2>2 DEF SegBegin
<1>6. QED BY <1>1, <1>2, <1>3, <1>4, <1>5 DEF fs

LEMMA ChainEndNat == ASSUME NEW es \in Seq(Nat) PROVE ChainEnd(es) \in Nat
<1>1. CASE es = << >>
  BY <1>1 DEF ChainEnd
<1>2. CASE es # << >>
  <2>1. Len(es) \in 1 .. Len(es)
    BY <1>2, EmptySeq
  <2>2. QED BY <1>2, <2>1, LenProperties DEF ChainEnd
<1>3. QED BY <1>1, <1>2

LEMMA SegSizesNat == ASSUME NEW n \in Nat, NEW s \in SegSizes(n) PROVE s \in Nat
  BY DEF SegSizes, Larger

LEMMA ChainCut ==
  ASSUME NEW es \in Seq(Nat), NEW n \in 0 .. Len(es)
  PROVE  LET fs == SubSeq(es, 1, n) IN
         /\ fs \in Seq(Nat)
         /\ DOMAIN fs = 1 .. n
         /\ \A i \in 1 .. n : fs[i] = es[i] /\ SegBegin(fs, i) = SegBegin(es, i)
<1> DEFINE fs == SubSeq(es, 1, n)
<1>1. Len(es) \in Nat /\ n \in Int /\ 1 \in Int
  BY LenProperties
<1>2. \A i \in 1 .. n : es[i] \in Nat
  BY <1>1, LenProperties
<1>3. /\ fs \in Seq(Nat)
      /\ Len(fs) = IF 1 <= n THEN n - 1 + 1 ELSE 0
      /\ \A i \in 1 .. n - 1 + 1 : fs[i] = es[1 + i - 1]
  BY <1>1, <1>2, SubSeqProperties
<1> HIDE DEF fs
<1>4. Len(fs) = n /\ \A i \in 1 .. n : fs[i] = es[i]
  BY <1>1, <1>3
<1>5. DOMAIN fs = 1 .. n
  BY <1>3, <1>4, LenProperties
<1>6. ASSUME NEW i \in 1 .. n PROVE SegBegin(fs, i) = SegBegin(es, i)
  <2>1. i # 1 => i - 1 \in 1 .. n
    BY <1>1
  <2>2. QED BY <1>4, <2>1 DEF SegBegin
<1>7. QED BY <1>3, <1>4, <1>5, <1>6 DEF fs

-----------------------------------------------------------------------------
(* Types and the chain's lock.                                             *)

(* g_grow_flag is set whenever a thread is between the two CASes on it.    *)
FlagHeld == level = 1 /\ growFlag = 0 => Growing = {}

(* At level 0 the threads but one stay out of refill.                      *)
Alone == level = 0 => \A t \in Threads \ {Single} : pc[t] = "idle"

OneGrows == \A t, u \in Growing : t = u

(* The published capacity is the chain's, but for the segment linked last  *)
(* while its thread is about to publish it.                                *)
Published ==
  /\ Growing = {} => extraCap = ChainEnd(ends)
  /\ \A t \in Threads :
       /\ pc[t] \in {"recheck", "append", "release"} => extraCap = ChainEnd(ends)
       /\ pc[t] = "publish" =>
            /\ ends # << >>
            /\ extraCap = SegBegin(ends, Len(ends))
            /\ extraCap <= ChainEnd(ends)

Chained == TypeOK /\ FlagHeld /\ OneGrows /\ Published
CInv == Chained /\ Alone

LEMMA InitCInv == ASSUME Init PROVE CInv
<1>1. TypeOK
  BY EmptySeq DEF Init, TypeOK, PCs
<1>2. Growing = {} /\ ends = << >> /\ extraCap = 0
  BY DEF Init, Growing
<1>3. Alone
  BY DEF Init, Alone
<1>4. QED BY <1>1, <1>2, <1>3 DEF CInv, Chained, FlagHeld, OneGrows, Published, ChainEnd, Growing

(* A step that leaves the chain alone and moves one thread between places  *)
(* outside the section keeps all of it.                                    *)
LEMMA OutsideChained ==
  ASSUME Chained, TypeOK', UNCHANGED <<level, chain>>, Growing' = Growing,
         \A t \in Growing : pc'[t] = pc[t]
  PROVE  Chained'
<1>1. \A t \in Threads : pc'[t] \in {"recheck", "append", "publish", "release"} =>
        pc'[t] = pc[t]
  BY DEF Growing
<1>2. FlagHeld' /\ OneGrows'
  BY DEF Chained, FlagHeld, OneGrows, chain
<1>3. Published'
  BY <1>1 DEF Chained, Published, chain
<1>4. QED BY <1>2, <1>3 DEF Chained

(* Entering the section takes the flag, and at level 0 there is no one     *)
(* else.                                                                   *)
LEMMA EnterChained == ASSUME Chained, Alone, TypeOK', NEW t \in Threads, GrowEnter(t) PROVE Chained'
<1> USE DEF Chained, GrowEnter, Goto
<1>1. pc \in [Threads -> PCs] /\ UNCHANGED <<ends, extraCap>> /\ t \notin Growing
  BY DEF TypeOK, Growing
<1>2. CASE FlagFree
  <2>1. Growing = {}
    BY <1>1, <1>2 DEF FlagFree, FlagHeld, Growing, Alone, TypeOK
  <2>2. Growing' = {t} /\ pc'[t] \in {"recheck", "append"}
    BY <1>1, <1>2, <2>1 DEF Growing
  <2>3. Published'
    BY <1>1, <2>1, <2>2 DEF Published, Growing
  <2>4. FlagHeld' /\ OneGrows'
    BY <1>1, <1>2, <2>2 DEF FlagHeld, OneGrows
  <2>5. QED BY <2>3, <2>4
<1>3. CASE ~FlagFree
  <2>1. Growing' = Growing /\ UNCHANGED <<level, chain>> /\ \A u \in Growing : pc'[u] = pc[u]
    BY <1>1, <1>3 DEF Growing, chain
  <2>2. QED BY <2>1, OutsideChained
<1>4. QED BY <1>2, <1>3

(* Inside the section: the flag stays set and the thread stays alone.      *)
LEMMA InsideGrowing ==
  ASSUME Chained, NEW t \in Growing, NEW l \in PCs, Goto(t, l)
  PROVE  /\ Growing = {t}
         /\ Growing' = IF l \in {"recheck", "append", "publish", "release"} THEN {t} ELSE {}
         /\ pc'[t] = l
         /\ \A u \in Threads : u # t => pc'[u] = pc[u] /\ u \notin Growing
<1>1. pc \in [Threads -> PCs] /\ t \in Threads
  BY DEF Chained, TypeOK, Growing
<1>2. Growing = {t}
  BY DEF Chained, OneGrows
<1>3. pc'[t] = l /\ \A u \in Threads : u # t => pc'[u] = pc[u]
  BY <1>1 DEF Goto
<1>4. QED BY <1>1, <1>2, <1>3 DEF Growing

LEMMA StaysChained ==
  ASSUME Chained, TypeOK', NEW t \in Growing, NEW l \in {"append", "release"}, Goto(t, l),
         UNCHANGED <<level, growFlag>>, extraCap' = ChainEnd(ends')
  PROVE  Chained'
<1>1. /\ Growing = {t} /\ Growing' = {t} /\ pc'[t] = l
      /\ \A u \in Threads : u # t => pc'[u] = pc[u] /\ u \notin Growing
  BY InsideGrowing DEF PCs
<1>2. Published'
  BY <1>1 DEF Published, Growing
<1>3. QED BY <1>1, <1>2 DEF Chained, FlagHeld, OneGrows

LEMMA LeavesChained ==
  ASSUME Chained, TypeOK', NEW t \in Growing, NEW l \in {"fit", "idle"}, Goto(t, l),
         UNCHANGED <<level, ends, extraCap>>, extraCap = ChainEnd(ends)
  PROVE  Chained'
<1>1. /\ Growing = {t} /\ Growing' = {} /\ pc'[t] = l
      /\ \A u \in Threads : u # t => pc'[u] = pc[u] /\ u \notin Growing
  BY InsideGrowing DEF PCs
<1>2. Published'
  BY <1>1 DEF Published, Growing
<1>3. QED BY <1>1, <1>2 DEF Chained, FlagHeld, OneGrows

(* The new segment ends the chain; its capacity is not published yet.      *)
LEMMA LinkChained == ASSUME Chained, NEW t \in Threads, LinkSegment(t) PROVE Chained'
<1>1. PICK s \in SegSizes(IF level = 1 THEN Need ELSE HeapSize) :
        ends' = Append(ends, ChainEnd(ends) + s)
  BY DEF LinkSegment
<1>2. /\ pc[t] = "append" /\ Goto(t, "publish") /\ t \in Growing
      /\ UNCHANGED <<level, offset, committed, extraCap, growFlag, local, heap, grants>>
  BY DEF LinkSegment, Growing
<1>3. s \in Nat /\ ChainEnd(ends) \in Nat
  <2>1. offset \in Nat /\ extraCap \in Nat /\ ends \in Seq(Nat)
    BY DEF Chained, TypeOK
  <2>2. Need \in Nat
    BY <2>1 DEF Need, Larger, ExtraUsed
  <2>3. QED BY <1>1, <2>1, <2>2, SegSizesNat, ChainEndNat
<1>4. /\ ends' \in Seq(Nat) /\ ends' # << >>
      /\ ChainEnd(ends') = ChainEnd(ends) + s
      /\ SegBegin(ends', Len(ends')) = ChainEnd(ends)
  BY <1>1, <1>3, ChainAppended, SMTT(30) DEF Chained, TypeOK
<1>5. extraCap = ChainEnd(ends)
  BY <1>2 DEF Chained, Published
<1>6. /\ Growing = {t} /\ Growing' = {t} /\ pc'[t] = "publish"
      /\ \A u \in Threads : u # t => pc'[u] = pc[u] /\ u \notin Growing
  BY <1>2, InsideGrowing DEF PCs
<1>7. TypeOK'
  BY <1>2, <1>4 DEF Chained, TypeOK, Goto, PCs, local
<1>8. Published'
  BY <1>2, <1>3, <1>4, <1>5, <1>6 DEF Published, Growing
<1>9. QED BY <1>2, <1>6, <1>7, <1>8 DEF Chained, FlagHeld, OneGrows

LEMMA PublishChained == ASSUME Chained, NEW t \in Threads, Publish(t) PROVE Chained'
<1>1. /\ pc[t] = "publish" /\ Goto(t, "release") /\ t \in Growing
      /\ extraCap' = extraCap + SegCap(ends, Len(ends))
      /\ UNCHANGED <<level, offset, committed, ends, growFlag, local, heap, grants>>
  BY DEF Publish, Growing
<1>2. /\ ends \in Seq(Nat) /\ ends # << >> /\ ChainEnd(ends) = ends[Len(ends)]
      /\ extraCap = SegBegin(ends, Len(ends)) /\ ChainEnd(ends) \in Nat
      /\ extraCap \in Nat
  BY <1>1, ChainEndNat DEF Chained, TypeOK, Published, ChainEnd
<1>3. extraCap' = ChainEnd(ends')
  BY <1>1, <1>2 DEF SegCap
<1>4. TypeOK'
  BY <1>1, <1>2, <1>3 DEF Chained, TypeOK, Goto, PCs, local
<1>5. QED BY <1>1, <1>3, <1>4, StaysChained

(* Trim and reset run while no refill is under way.                        *)
LEMMA IdleChained ==
  ASSUME Chained, TypeOK', UNCHANGED <<pc, growFlag>>, \A t \in Threads : pc[t] = "idle",
         extraCap' = ChainEnd(ends')
  PROVE  Chained'
<1>1. Growing = {} /\ Growing' = {}
  BY DEF Growing
<1>2. QED BY <1>1 DEF Chained, FlagHeld, OneGrows, Published

LEMMA TrimChained == ASSUME Chained, Alone, NEW t \in Threads, PopTrim(t) PROVE Chained'
<1>1. /\ \A u \in Threads : pc[u] = "idle"
      /\ extraCap' = ChainEnd(ends')
      /\ UNCHANGED <<level, offset, committed, growFlag, pc, local, heap, grants>>
  BY DEF PopTrim, Alone
<1>2. ends' \in Seq(Nat)
  BY ChainCut DEF PopTrim, Chained, TypeOK
<1>3. ChainEnd(ends') \in Nat
  BY <1>2, ChainEndNat
<1>4. TypeOK'
  BY <1>1, <1>2, <1>3 DEF Chained, TypeOK, local
<1>5. QED BY <1>1, <1>4, IdleChained

LEMMA ResetChained == ASSUME Chained, NEW t \in Threads, Reset(t) PROVE Chained'
<1>1. TypeOK'
  BY EmptySeq DEF Chained, Reset, TypeOK, local
<1>2. extraCap' = ChainEnd(ends')
  BY DEF Reset, ChainEnd
<1>3. QED BY <1>1, <1>2, IdleChained DEF Reset

(* The steps of a refill that do not touch the chain.                      *)
Apace(t) ==
  \/ Refill(t) \/ FitFound(t) \/ FitMissing(t) \/ CasTake(t) \/ CasFail(t)
  \/ GrowSpin(t) \/ Commit(t) \/ CommitCas(t) \/ Install(t) \/ Invalidate(t)

LEMMA ApaceChained == ASSUME Chained, NEW t \in Threads, Apace(t) PROVE Chained'
<1>1. /\ UNCHANGED <<level, chain>>
      /\ t \notin Growing
      /\ \/ UNCHANGED pc
         \/ \E l \in {"fit", "cas", "grow", "commit", "commitCas", "install", "idle"} : Goto(t, l)
  BY DEF Apace, Refill, FitFound, FitMissing, CasTake, CasFail, GrowSpin, Commit,
     CommitCas, Install, Invalidate, Growing
<1>2. Growing' = Growing /\ \A u \in Growing : pc'[u] = pc[u]
  BY <1>1 DEF Chained, TypeOK, Growing, Goto
<1>3. pc' \in [Threads -> PCs]
  BY <1>1 DEF Chained, TypeOK, Goto, PCs
<1>4. TypeOK'
  <2> USE <1>1, <1>3 DEF Chained, TypeOK, chain, local
  <2>1. CASE Refill(t) \/ CasFail(t)
    BY <2>1 DEF Refill, CasFail
  <2>2. CASE FitFound(t)
    <3>1. PICK b \in Fits(seen[t]) : fit' = [fit EXCEPT ![t] = b]
      BY <2>2 DEF FitFound
    <3>2. b \in Nat
      <4>1. ASSUME NEW i \in DOMAIN ends PROVE SegBegin(ends, i) \in Nat
        <5>1. DOMAIN ends = 1 .. Len(ends) /\ \A j \in 1 .. Len(ends) : ends[j] \in Nat
          BY LenProperties
        <5>2. i # 1 => i - 1 \in 1 .. Len(ends)
          BY <5>1
        <5>3. QED BY <5>1, <5>2 DEF SegBegin
      <4>2. QED BY <4>1 DEF Fits, Starts
    <3>3. QED BY <2>2, <3>1, <3>2 DEF FitFound
  <2>3. CASE FitMissing(t) \/ GrowSpin(t)
    BY <2>3 DEF FitMissing, GrowSpin
  <2>4. CASE CasTake(t)
    <3>1. offset' \in Nat /\ grants' \subseteq [by : Threads, start : Nat]
      BY <2>4, SMTT(30) DEF CasTake
    <3>2. QED BY <2>4, <3>1 DEF CasTake
  <2>5. CASE Commit(t)
    BY <2>5 DEF Commit
  <2>6. CASE CommitCas(t)
    <3>1. CASE committed = snap[t]
      <4>1. PICK c \in CommitEnds(fit[t] + HeapSize) : committed' = c
        BY <2>6, <3>1 DEF CommitCas
      <4>2. c \in Nat
        <5>1. fit[t] \in Nat
          OBVIOUS
        <5>2. QED BY <4>1, <5>1 DEF CommitEnds
      <4>3. QED BY <2>6, <3>1, <4>1, <4>2 DEF CommitCas
    <3>2. CASE committed # snap[t]
      BY <2>6, <3>2 DEF CommitCas
    <3>3. QED BY <3>1, <3>2
  <2>7. CASE Install(t) \/ Invalidate(t)
    BY <2>7 DEF Install, Invalidate
  <2>8. QED BY <2>1, <2>2, <2>3, <2>4, <2>5, <2>6, <2>7 DEF Apace
<1>5. QED BY <1>1, <1>2, <1>4, OutsideChained

LEMMA NextChained == ASSUME Chained, Alone, [Next]_vars PROVE Chained'
<1>1. CASE UNCHANGED vars
  BY <1>1 DEF Chained, TypeOK, FlagHeld, OneGrows, Published, Growing, vars, chain, local
<1>2. ASSUME NEW t \in Threads, Apace(t) PROVE Chained'
  BY <1>2, ApaceChained
<1>3. ASSUME NEW t \in Threads, GrowEnter(t) PROVE Chained'
  <2>1. TypeOK'
    BY <1>3 DEF Chained, TypeOK, GrowEnter, Goto, PCs, local
  <2>2. QED BY <1>3, <2>1, EnterChained
<1>4. ASSUME NEW t \in Threads, Recheck(t) PROVE Chained'
  <2>1. TypeOK'
    BY <1>4 DEF Chained, TypeOK, Recheck, Goto, PCs, chain, local
  <2>2. t \in Growing /\ extraCap' = ChainEnd(ends')
    BY <1>4 DEF Chained, Published, Recheck, Growing, chain
  <2>3. UNCHANGED <<level, growFlag>> /\ \E l \in {"append", "release"} : Goto(t, l)
    BY <1>4 DEF Recheck, chain
  <2>4. QED BY <2>1, <2>2, <2>3, StaysChained
<1>5. ASSUME NEW t \in Threads, GrowFails(t) \/ Release(t) PROVE Chained'
  <2>1. TypeOK'
    BY <1>5 DEF Chained, TypeOK, GrowFails, Release, Goto, PCs, local
  <2>2. t \in Growing /\ extraCap = ChainEnd(ends) /\ UNCHANGED <<level, ends, extraCap>>
    BY <1>5 DEF Chained, Published, GrowFails, Release, Growing
  <2>3. \E l \in {"fit", "idle"} : Goto(t, l)
    BY <1>5 DEF GrowFails, Release
  <2>4. QED BY <2>1, <2>2, <2>3, LeavesChained
<1>6. QED BY <1>1, <1>2, <1>3, <1>4, <1>5, LinkChained, PublishChained, TrimChained, ResetChained
            DEF Next, Apace

(* Only the thread of a level 0 program leaves idle.                       *)
LEMMA NextAlone == ASSUME TypeOK, Alone, [Next]_vars PROVE Alone'
<1> SUFFICES ASSUME level' = 0, NEW u \in Threads \ {Single} PROVE pc'[u] = "idle"
  BY DEF Alone
<1>1. CASE UNCHANGED vars
  BY <1>1 DEF Alone, vars
<1>2. ASSUME NEW t \in Threads, Refill(t) PROVE pc'[u] = "idle"
  BY <1>2 DEF Refill, Goto, Alone, TypeOK
<1>3. ASSUME NEW t \in Threads, Invalidate(t) \/ PopTrim(t) \/ Reset(t) PROVE pc'[u] = "idle"
  BY <1>3 DEF Invalidate, PopTrim, Reset, Alone
<1>4. ASSUME NEW t \in Threads,
             FitFound(t) \/ FitMissing(t) \/ CasTake(t) \/ CasFail(t) \/ GrowEnter(t)
  PROVE  pc'[u] = "idle"
  <2>1. pc[t] # "idle" /\ UNCHANGED level /\ \E l \in PCs : Goto(t, l)
    BY <1>4 DEF FitFound, FitMissing, CasTake, CasFail, GrowEnter, PCs
  <2>2. QED BY <2>1 DEF Goto, Alone, TypeOK
<1>5. ASSUME NEW t \in Threads,
             GrowSpin(t) \/ Recheck(t) \/ LinkSegment(t) \/ GrowFails(t) \/ Publish(t)
  PROVE  pc'[u] = "idle"
  <2>1. pc[t] # "idle" /\ UNCHANGED level /\ \E l \in PCs : Goto(t, l)
    BY <1>5 DEF GrowSpin, Recheck, LinkSegment, GrowFails, Publish, PCs
  <2>2. QED BY <2>1 DEF Goto, Alone, TypeOK
<1>6. ASSUME NEW t \in Threads, Release(t) \/ Commit(t) \/ CommitCas(t) \/ Install(t)
  PROVE  pc'[u] = "idle"
  <2>1. pc[t] # "idle" /\ UNCHANGED level /\ \E l \in PCs : Goto(t, l)
    BY <1>6 DEF Release, Commit, CommitCas, Install, PCs
  <2>2. QED BY <2>1 DEF Goto, Alone, TypeOK
<1>7. QED BY <1>1, <1>2, <1>3, <1>4, <1>5, <1>6 DEF Next

LEMMA NextCInv == ASSUME CInv, [Next]_vars PROVE CInv'
  BY NextChained, NextAlone DEF CInv, Chained

(* Every variable keeps its type: no size ever becomes negative.           *)
THEOREM PoolTypeOK == Spec => []TypeOK
<1>1. CInv => TypeOK
  BY DEF CInv, Chained
<1>2. QED BY InitCInv, NextCInv, <1>1, PTL DEF Spec

(* g_grow_flag: one thread at a time modifies the extension chain, and     *)
(* when none does the published capacity is the chain's.                   *)
THEOREM ChainSafe == Spec => []ChainGuarded
<1>1. CInv => ChainGuarded
  BY DEF CInv, Chained, OneGrows, Published, ChainGuarded
<1>2. QED BY InitCInv, NextCInv, <1>1, PTL DEF Spec

-----------------------------------------------------------------------------
(* The blocks that are out.                                                *)

Grant(t, b) == [by |-> t, start |-> b]

(* A heap, and a block a thread has taken and not installed yet, are out.  *)
HeapsGranted == \A t \in Threads : heap[t] # None => Grant(t, heap[t]) \in grants
FitsGranted ==
  \A t \in Threads :
    pc[t] \in {"commit", "commitCas", "install"} => Grant(t, fit[t]) \in grants

(* The block a thread is after lies at or above the offset it has seen,    *)
(* every block that is out below the current one.                          *)
FitsAhead   == \A t \in Threads : pc[t] = "cas" => fit[t] >= seen[t]
GrantsBelow == \A g \in grants : g.start + HeapSize <= offset
GrantsApart == \A g, h \in grants : g # h => Apart(g.start, h.start)

GInv == HeapsGranted /\ FitsGranted /\ FitsAhead /\ GrantsBelow /\ GrantsApart

LEMMA InitGInv == ASSUME Init PROVE GInv
  BY DEF Init, GInv, HeapsGranted, FitsGranted, FitsAhead, GrantsBelow, GrantsApart

(* The CAS found the offset it expected, so the block is above all others. *)
LEMMA TakeGrant ==
  ASSUME TypeOK, TypeOK', GInv, NEW t \in Threads, CasTake(t)
  PROVE  GInv' /\ \A g \in grants : Apart(fit[t], g.start)
<1> USE DEF GInv
<1>1. /\ pc[t] = "cas" /\ offset = seen[t] /\ offset' = fit[t] + HeapSize
      /\ grants' = grants \union {Grant(t, fit[t])}
      /\ \E l \in {"commit", "install"} : Goto(t, l)
      /\ UNCHANGED <<fit, seen, heap>>
  BY DEF CasTake, CasSucceeds, Grant, local
<1>2. /\ fit[t] >= offset /\ fit[t] \in Nat /\ offset \in Nat
      /\ \A g \in grants : g.start \in Nat /\ g.start + HeapSize <= offset
  BY <1>1 DEF FitsAhead, GrantsBelow, TypeOK
<1>3. \A g \in grants : Apart(fit[t], g.start) /\ Apart(g.start, fit[t])
  BY <1>2 DEF Apart
<1>4. Grant(t, fit[t]).start = fit[t]
  BY DEF Grant
<1>5. pc'[t] \in {"commit", "install"} /\ \A u \in Threads : u # t => pc'[u] = pc[u]
  BY <1>1 DEF Goto, TypeOK
<1>6. GrantsBelow'
  BY <1>1, <1>2, <1>4 DEF GrantsBelow
<1>7. GrantsApart'
  BY <1>1, <1>3, <1>4 DEF GrantsApart
<1>8. HeapsGranted' /\ FitsGranted' /\ FitsAhead'
  BY <1>1, <1>5 DEF HeapsGranted, FitsGranted, FitsAhead
<1>9. QED BY <1>3, <1>6, <1>7, <1>8

(* Steps that move no block and no local copy.                             *)
Quiet(t) ==
  /\ UNCHANGED <<offset, grants, fit, seen, heap>>
  /\ \/ UNCHANGED pc
     \/ \E l \in PCs \ {"cas", "commit"} :
          /\ Goto(t, l)
          /\ l \in {"commitCas", "install"} => pc[t] \in {"commit", "commitCas"}

LEMMA QuietGInv == ASSUME TypeOK, GInv, NEW t \in Threads, Quiet(t) PROVE GInv'
<1> USE DEF GInv
<1>1. GrantsBelow' /\ GrantsApart' /\ HeapsGranted'
  BY DEF Quiet, GrantsBelow, GrantsApart, HeapsGranted
<1>2. CASE UNCHANGED pc
  BY <1>1, <1>2 DEF Quiet, FitsGranted, FitsAhead
<1>3. ASSUME NEW l \in PCs \ {"cas", "commit"}, Goto(t, l),
             l \in {"commitCas", "install"} => pc[t] \in {"commit", "commitCas"}
      PROVE  GInv'
  <2>1. pc'[t] = l /\ \A u \in Threads : u # t => pc'[u] = pc[u]
    BY <1>3 DEF Goto, TypeOK
  <2>2. FitsGranted' /\ FitsAhead'
    BY <1>3, <2>1 DEF Quiet, FitsGranted, FitsAhead
  <2>3. QED BY <1>1, <2>2
<1>4. QED BY <1>2, <1>3 DEF Quiet

LEMMA QuietSteps ==
  ASSUME NEW t \in Threads,
         \/ FitMissing(t) \/ GrowEnter(t) \/ GrowSpin(t) \/ Recheck(t) \/ LinkSegment(t)
         \/ GrowFails(t) \/ Publish(t) \/ Release(t) \/ Commit(t) \/ CommitCas(t) \/ PopTrim(t)
  PROVE  Quiet(t)
<1> USE DEF Quiet, PCs, local, chain
<1>1. CASE FitMissing(t) \/ GrowEnter(t) \/ GrowSpin(t) \/ Recheck(t)
  BY <1>1 DEF FitMissing, GrowEnter, GrowSpin, Recheck
<1>2. CASE LinkSegment(t) \/ GrowFails(t) \/ Publish(t) \/ Release(t) \/ PopTrim(t)
  BY <1>2 DEF LinkSegment, GrowFails, Publish, Release, PopTrim
<1>3. CASE Commit(t) \/ CommitCas(t)
  BY <1>3 DEF Commit, CommitCas
<1>4. QED BY <1>1, <1>2, <1>3

LEMMA NextGInv == ASSUME TypeOK, TypeOK', GInv, [Next]_vars PROVE GInv'
<1> USE DEF GInv
<1>1. CASE UNCHANGED vars
  BY <1>1 DEF HeapsGranted, FitsGranted, FitsAhead, GrantsBelow, GrantsApart, vars, local
<1>2. ASSUME NEW t \in Threads, Reset(t) PROVE GInv'
  <2>1. grants' = {} /\ \A u \in Threads : heap'[u] = None /\ pc'[u] = "idle"
    BY <1>2 DEF Reset, TypeOK
  <2>2. QED BY <2>1 DEF HeapsGranted, FitsGranted, FitsAhead, GrantsBelow, GrantsApart
<1>3. ASSUME NEW t \in Threads, Refill(t) \/ CasFail(t) PROVE GInv'
  <2>1. /\ UNCHANGED <<offset, grants, fit, heap>> /\ pc'[t] = "fit"
        /\ \A u \in Threads : u # t => pc'[u] = pc[u] /\ seen'[u] = seen[u]
    BY <1>3 DEF Refill, CasFail, Goto, TypeOK
  <2>2. QED BY <2>1 DEF HeapsGranted, FitsGranted, FitsAhead, GrantsBelow, GrantsApart
<1>4. ASSUME NEW t \in Threads, FitFound(t) PROVE GInv'
  <2>1. /\ UNCHANGED <<offset, grants, seen, heap>> /\ pc'[t] = "cas"
        /\ \A u \in Threads : u # t => pc'[u] = pc[u] /\ fit'[u] = fit[u]
    BY <1>4 DEF FitFound, Goto, TypeOK
  <2>2. PICK b \in Fits(seen[t]) : fit' = [fit EXCEPT ![t] = b]
    BY <1>4 DEF FitFound
  <2>3. fit'[t] = b /\ b >= seen[t]
    BY <2>2 DEF Fits, TypeOK
  <2>4. QED BY <2>1, <2>3 DEF HeapsGranted, FitsGranted, FitsAhead, GrantsBelow, GrantsApart
<1>5. ASSUME NEW t \in Threads, Install(t) \/ Invalidate(t) PROVE GInv'
  <2>1. /\ UNCHANGED <<offset, grants, seen, fit>>
        /\ \A u \in Threads : u # t => pc'[u] = pc[u] /\ heap'[u] = heap[u]
        /\ pc'[t] = "idle"
    BY <1>5 DEF Install, Invalidate, Goto, TypeOK, local
  <2>2. heap'[t] = None \/ Grant(t, heap'[t]) \in grants
    BY <1>5 DEF Install, Invalidate, FitsGranted, TypeOK
  <2>3. QED BY <2>1, <2>2 DEF HeapsGranted, FitsGranted, FitsAhead, GrantsBelow, GrantsApart
<1>6. QED BY <1>1, <1>2, <1>3, <1>4, <1>5, TakeGrant, QuietSteps, QuietGInv DEF Next

(* The refill CAS: no two thread heaps ever overlap, however many threads  *)
(* refill, grow, commit and reset in whatever order.                       *)
THEOREM ThreadHeapsApart == Spec => []HeapsApart
<1>1. CInv => TypeOK
  BY DEF CInv, Chained
<1>2. GInv => HeapsApart
  BY DEF GInv, HeapsGranted, GrantsApart, HeapsApart, Grant
<1>3. QED BY InitCInv, NextCInv, InitGInv, NextGInv, <1>1, <1>2, PTL DEF Spec

(* The pool implements BlockPool: a successful CAS hands out a block that  *)
(* overlaps none of those that are out, a reset takes all of them back,    *)
(* and no other step of any thread changes what is out.                    *)
THEOREM PoolImplementsBlockPool == Spec => ImplementsBlockPool
<1>1. Init => Blocks!Init
  BY DEF Init, Blocks!Init
<1>2. ASSUME TypeOK, TypeOK', GInv, [Next]_vars PROVE [Blocks!Next]_grants
  <2>1. ASSUME NEW t \in Threads, CasTake(t) PROVE [Blocks!Next]_grants
    <3>1. \A g \in grants : Apart(fit[t], g.start)
      BY <1>2, <2>1, TakeGrant
    <3>2. grants' = grants \union {Grant(t, fit[t])} /\ Grant(t, fit[t]).start = fit[t]
      BY <2>1 DEF CasTake, Grant
    <3>3. CASE Grant(t, fit[t]) \in grants
      BY <3>2, <3>3
    <3>4. CASE Grant(t, fit[t]) \notin grants
      <4>1. Blocks!Grant
        BY <3>1, <3>2, <3>4 DEF Blocks!Grant, Blocks!Disjoint, Apart
      <4>2. QED BY <4>1 DEF Blocks!Next
    <3>5. QED BY <3>3, <3>4
  <2>2. ASSUME NEW t \in Threads, Reset(t) PROVE [Blocks!Next]_grants
    BY <2>2 DEF Reset, Blocks!Next, Blocks!Clear
  <2>3. ASSUME NEW t \in Threads,
               \/ Refill(t) \/ FitFound(t) \/ CasFail(t) \/ Install(t) \/ Invalidate(t)
               \/ Quiet(t)
        PROVE  UNCHANGED grants
    BY <2>3 DEF Refill, FitFound, CasFail, Install, Invalidate, Quiet
  <2>4. QED BY <1>2, <2>1, <2>2, <2>3, QuietSteps DEF Next, vars
<1>3. CInv => TypeOK
  BY DEF CInv, Chained
<1>4. QED BY InitCInv, NextCInv, InitGInv, NextGInv, <1>1, <1>2, <1>3, PTL
       DEF Spec, ImplementsBlockPool, Blocks!Spec

-----------------------------------------------------------------------------
(* Regions: no block straddles two, and trimming frees none that is used.  *)

FitsBacked == \A t \in Threads : pc[t] = "cas" => Backed(ends, fit[t])
BInv == GrantsBacked /\ FitsBacked

(* Appending a segment keeps what was backed.                              *)
LEMMA BackedAppended ==
  ASSUME TypeOK, NEW x \in Nat, ends' = Append(ends, x), NEW b, Backed(ends, b)
  PROVE  Backed(ends', b)
  BY ChainAppended DEF TypeOK, Backed, InSegment

(* Trimming at the offset keeps what lies below the offset.                *)
LEMMA BackedTrimmed ==
  ASSUME TypeOK, NEW t \in Threads, PopTrim(t), NEW b \in Nat, b + HeapSize <= offset,
         Backed(ends, b)
  PROVE  Backed(ends', b)
<1>1. PICK n \in 0 .. Len(ends) : 1 .. n = Kept(ends, offset) /\ ends' = SubSeq(ends, 1, n)
  BY DEF PopTrim
<1>2. /\ DOMAIN ends' = 1 .. n
      /\ \A i \in 1 .. n : ends'[i] = ends[i] /\ SegBegin(ends', i) = SegBegin(ends, i)
  BY <1>1, ChainCut DEF TypeOK
<1>3. ASSUME NEW i \in DOMAIN ends, b >= PrimaryCap, InSegment(ends, i, b - PrimaryCap)
      PROVE  i \in 1 .. n
  <2>1. offset \in Nat /\ SegBegin(ends, i) <= b - PrimaryCap
    BY <1>3 DEF InSegment, TypeOK
  <2>2. ends[i] \in Nat /\ SegBegin(ends, i) \in Nat
    <3>1. DOMAIN ends = 1 .. Len(ends) /\ \A j \in 1 .. Len(ends) : ends[j] \in Nat
      BY LenProperties, SMTT(30) DEF TypeOK
    <3>2. i # 1 => i - 1 \in 1 .. Len(ends)
      BY <3>1
    <3>3. QED BY <3>1, <3>2 DEF SegBegin
  <2>3. SegBegin(ends, i) < ExtraUsed(offset)
    BY <1>3, <2>1, <2>2 DEF ExtraUsed
  <2>4. QED BY <1>1, <2>3 DEF Kept
<1>4. QED BY <1>2, <1>3 DEF Backed, InSegment

LEMMA NextBInv ==
  ASSUME CInv, TypeOK', GInv, BInv, [Next]_vars PROVE BInv'
<1> USE DEF BInv
<1>0. TypeOK
  BY DEF CInv, Chained
<1>1. CASE UNCHANGED vars
  BY <1>1 DEF GrantsBacked, FitsBacked, vars, local, chain
<1>2. ASSUME NEW t \in Threads, Reset(t) PROVE BInv'
  BY <1>2 DEF Reset, GrantsBacked, FitsBacked
<1>3. ASSUME NEW t \in Threads, PopTrim(t) PROVE BInv'
  <2>1. UNCHANGED <<grants, pc>> /\ \A u \in Threads : pc[u] = "idle"
    BY <1>3 DEF PopTrim, CInv, Alone
  <2>2. ASSUME NEW g \in grants PROVE Backed(ends', g.start)
    <3>1. g.start \in Nat /\ g.start + HeapSize <= offset /\ Backed(ends, g.start)
      BY <1>0 DEF TypeOK, GInv, GrantsBelow, GrantsBacked
    <3>2. QED BY <1>0, <1>3, <3>1, BackedTrimmed
  <2>3. QED BY <2>1, <2>2 DEF GrantsBacked, FitsBacked
<1>4. ASSUME NEW t \in Threads, LinkSegment(t) PROVE BInv'
  <2>1. PICK s \in SegSizes(IF level = 1 THEN Need ELSE HeapSize) :
          ends' = Append(ends, ChainEnd(ends) + s)
    BY <1>4 DEF LinkSegment
  <2>2. ChainEnd(ends) + s \in Nat
    <3>1. Need \in Nat
      BY <1>0 DEF TypeOK, Need, Larger, ExtraUsed
    <3>2. s \in Nat
      <4>1. (IF level = 1 THEN Need ELSE HeapSize) \in Nat
        BY <3>1
      <4>2. QED BY <2>1, <4>1, SegSizesNat
    <3>3. ChainEnd(ends) \in Nat
      BY <1>0, ChainEndNat DEF TypeOK
    <3>4. QED BY <3>2, <3>3
  <2>3. \A b : Backed(ends, b) => Backed(ends', b)
    BY <1>0, <2>1, <2>2, BackedAppended
  <2>4. /\ UNCHANGED <<grants, fit>> /\ pc'[t] = "publish"
        /\ \A u \in Threads : u # t => pc'[u] = pc[u]
    BY <1>0, <1>4 DEF LinkSegment, Goto, TypeOK, local
  <2>5. QED BY <2>3, <2>4 DEF GrantsBacked, FitsBacked
<1>5. ASSUME NEW t \in Threads, FitFound(t) PROVE BInv'
  <2>1. PICK b \in Fits(seen[t]) : fit' = [fit EXCEPT ![t] = b]
    BY <1>5 DEF FitFound
  <2>2. Backed(ends, b) /\ fit'[t] = b /\ \A u \in Threads : u # t => fit'[u] = fit[u]
    BY <1>0, <2>1 DEF Fits, TypeOK
  <2>3. UNCHANGED <<ends, grants>> /\ \A u \in Threads : u # t => pc'[u] = pc[u]
    BY <1>0, <1>5 DEF FitFound, Goto, TypeOK, chain
  <2>4. QED BY <2>2, <2>3 DEF GrantsBacked, FitsBacked
<1>6. ASSUME NEW t \in Threads, CasTake(t) PROVE BInv'
  <2>1. /\ UNCHANGED <<ends, fit>> /\ pc[t] = "cas" /\ pc'[t] # "cas"
        /\ \A u \in Threads : u # t => pc'[u] = pc[u]
        /\ grants' = grants \union {[by |-> t, start |-> fit[t]]}
    BY <1>0, <1>6 DEF CasTake, Goto, TypeOK, chain, local
  <2>2. QED BY <2>1 DEF GrantsBacked, FitsBacked
<1>7. ASSUME NEW t \in Threads,
             \/ Refill(t) \/ FitMissing(t) \/ CasFail(t) \/ GrowEnter(t) \/ GrowSpin(t)
             \/ Recheck(t) \/ GrowFails(t) \/ Publish(t) \/ Release(t) \/ Commit(t)
             \/ CommitCas(t) \/ Install(t) \/ Invalidate(t)
      PROVE  BInv'
  <2>1. /\ UNCHANGED <<ends, fit, grants>>
        /\ \/ UNCHANGED pc
           \/ \E l \in PCs \ {"cas"} : Goto(t, l)
    BY <1>7 DEF Refill, FitMissing, CasFail, GrowEnter, GrowSpin, Recheck, GrowFails,
       Publish, Release, Commit, CommitCas, Install, Invalidate, PCs, chain, local
  <2>2. \A u \in Threads : pc'[u] = "cas" => pc[u] = "cas"
    BY <1>0, <2>1 DEF Goto, TypeOK
  <2>3. QED BY <2>1, <2>2 DEF GrantsBacked, FitsBacked
<1>8. QED BY <1>1, <1>2, <1>3, <1>4, <1>5, <1>6, <1>7 DEF Next

(* pool_fit_offset and pool_trim_tail: every block that is out lies inside *)
(* the primary region or inside one segment that is still in the chain.    *)
THEOREM BlocksBacked == Spec => []GrantsBacked
<1>1. Init => BInv
  BY DEF Init, BInv, GrantsBacked, FitsBacked
<1>2. CInv => TypeOK
  BY DEF CInv, Chained
<1>3. BInv => GrantsBacked
  BY DEF BInv
<1>4. QED BY InitCInv, NextCInv, InitGInv, NextGInv, NextBInv, <1>1, <1>2, <1>3, PTL DEF Spec

-----------------------------------------------------------------------------
(* Commitment of the primary region.                                       *)

(* A thread commits only past the bytes it saw committed, so that the      *)
(* number of committed bytes never decreases.                              *)
SnapsBehind == \A t \in Threads : pc[t] = "commitCas" => snap[t] < fit[t] + HeapSize
InstallsCommitted ==
  \A t \in Threads :
    pc[t] = "install" /\ fit[t] + HeapSize <= PrimaryCap => fit[t] + HeapSize <= committed

KInv == SnapsBehind /\ InstallsCommitted /\ CommittedBeforeUse

LEMMA CommitGrows ==
  ASSUME TypeOK, TypeOK', KInv, NEW t \in Threads, CommitCas(t) PROVE KInv'
<1> USE DEF KInv
<1>1. /\ UNCHANGED <<fit, heap>> /\ pc[t] = "commitCas"
      /\ pc' \in [Threads -> PCs] /\ snap \in [Threads -> Nat] /\ snap' \in [Threads -> Nat]
      /\ \A u \in Threads : u # t => pc'[u] = pc[u] /\ snap'[u] = snap[u]
      /\ fit \in [Threads -> Nat] /\ heap \in [Threads -> Nat \union {None}]
      /\ committed \in Nat /\ committed' \in Nat
  BY DEF CommitCas, Goto, TypeOK
<1>2. CASE committed = snap[t]
  <2>1. /\ fit[t] + HeapSize <= committed' /\ pc'[t] = "install"
        /\ UNCHANGED snap
    BY <1>1, <1>2 DEF CommitCas, CommitEnds, Goto
  <2>2. committed <= committed'
    BY <1>1, <1>2, <2>1 DEF SnapsBehind
  <2>3. SnapsBehind'
    BY <1>1, <2>1 DEF SnapsBehind
  <2>4. InstallsCommitted'
    BY <1>1, <2>1, <2>2 DEF InstallsCommitted
  <2>5. CommittedBeforeUse'
    <3> SUFFICES ASSUME NEW u \in Threads, heap[u] # None, heap[u] + HeapSize <= PrimaryCap
                 PROVE  heap[u] + HeapSize <= committed'
      BY <1>1 DEF CommittedBeforeUse
    <3>1. heap[u] \in Nat /\ heap[u] + HeapSize <= committed
      BY <1>1 DEF CommittedBeforeUse
    <3>2. QED BY <1>1, <2>2, <3>1
  <2>6. QED BY <2>3, <2>4, <2>5
<1>3. CASE committed # snap[t]
  <2>1. /\ UNCHANGED committed /\ snap'[t] = committed
        /\ pc'[t] = IF fit[t] + HeapSize <= committed THEN "install" ELSE "commitCas"
    BY <1>1, <1>3 DEF CommitCas, Goto, TypeOK
  <2>2. SnapsBehind' /\ InstallsCommitted' /\ CommittedBeforeUse'
    BY <1>1, <2>1 DEF SnapsBehind, InstallsCommitted, CommittedBeforeUse
  <2>3. QED BY <2>2
<1>4. QED BY <1>2, <1>3

LEMMA NextKInv == ASSUME TypeOK, TypeOK', KInv, [Next]_vars PROVE KInv'
<1> USE DEF KInv
<1>1. CASE UNCHANGED vars
  BY <1>1 DEF SnapsBehind, InstallsCommitted, CommittedBeforeUse, vars, local
<1>2. ASSUME NEW t \in Threads, Reset(t) PROVE KInv'
  <2>1. \A u \in Threads : heap'[u] = None /\ pc'[u] = "idle"
    BY <1>2 DEF Reset, TypeOK
  <2>2. QED BY <2>1 DEF SnapsBehind, InstallsCommitted, CommittedBeforeUse
<1>3. ASSUME NEW t \in Threads, Install(t) \/ Invalidate(t) PROVE KInv'
  <2>1. /\ UNCHANGED <<committed, fit, snap>> /\ pc'[t] = "idle"
        /\ \A u \in Threads : u # t => pc'[u] = pc[u] /\ heap'[u] = heap[u]
        /\ heap'[t] = None \/ (heap'[t] = fit[t] /\ pc[t] = "install")
    BY <1>3 DEF Install, Invalidate, Goto, TypeOK, local
  <2>2. QED BY <2>1 DEF SnapsBehind, InstallsCommitted, CommittedBeforeUse
<1>4. ASSUME NEW t \in Threads, CasTake(t) PROVE KInv'
  <2>1. /\ UNCHANGED <<committed, fit, snap, heap>>
        /\ pc'[t] = IF fit[t] + HeapSize <= PrimaryCap THEN "commit" ELSE "install"
        /\ \A u \in Threads : u # t => pc'[u] = pc[u]
    BY <1>4 DEF CasTake, Goto, TypeOK, local
  <2>2. QED BY <2>1 DEF SnapsBehind, InstallsCommitted, CommittedBeforeUse
<1>5. ASSUME NEW t \in Threads, Commit(t) PROVE KInv'
  <2>1. /\ UNCHANGED <<committed, fit, heap>> /\ snap'[t] = committed
        /\ pc'[t] = IF fit[t] + HeapSize <= committed THEN "install" ELSE "commitCas"
        /\ \A u \in Threads : u # t => pc'[u] = pc[u] /\ snap'[u] = snap[u]
    BY <1>5 DEF Commit, Goto, TypeOK
  <2>2. committed \in Nat /\ fit[t] \in Nat
    BY DEF TypeOK
  <2>3. QED BY <2>1, <2>2 DEF SnapsBehind, InstallsCommitted, CommittedBeforeUse
<1>6. ASSUME NEW t \in Threads,
             \/ Refill(t) \/ FitFound(t) \/ FitMissing(t) \/ CasFail(t) \/ GrowEnter(t)
             \/ GrowSpin(t) \/ Recheck(t) \/ LinkSegment(t) \/ GrowFails(t) \/ Publish(t)
             \/ Release(t) \/ PopTrim(t)
      PROVE  KInv'
  <2>1. /\ UNCHANGED <<committed, snap, heap>>
        /\ \/ UNCHANGED <<pc, fit>>
           \/ pc[t] = "fit" /\ Goto(t, "cas") /\ \E b : fit' = [fit EXCEPT ![t] = b]
           \/ UNCHANGED fit /\ \E l \in PCs \ {"commitCas", "install"} : Goto(t, l)
    BY <1>6 DEF Refill, FitFound, FitMissing, CasFail, GrowEnter, GrowSpin, Recheck,
       LinkSegment, GrowFails, Publish, Release, PopTrim, PCs, chain, local
  <2>2. \A u \in Threads : pc'[u] \in {"commitCas", "install"} =>
           pc'[u] = pc[u] /\ fit'[u] = fit[u]
    BY <2>1 DEF Goto, TypeOK
  <2>3. QED BY <2>1, <2>2 DEF SnapsBehind, InstallsCommitted, CommittedBeforeUse
<1>7. QED BY <1>1, <1>2, <1>3, <1>4, <1>5, <1>6, CommitGrows DEF Next

(* pool_commit_up_to under contention: a primary block is committed before *)
(* it becomes a thread's heap, and stays so.                               *)
THEOREM CommittedFirst == Spec => []CommittedBeforeUse
<1>1. Init => KInv
  BY DEF Init, KInv, SnapsBehind, InstallsCommitted, CommittedBeforeUse
<1>2. CInv => TypeOK
  BY DEF CInv, Chained
<1>3. KInv => CommittedBeforeUse
  BY DEF KInv
<1>4. QED BY InitCInv, NextCInv, NextKInv, <1>1, <1>2, <1>3, PTL DEF Spec

=============================================================================

--------------------------- MODULE CodeGen_proofs ---------------------------
(***************************************************************************)
(* Proofs about the statement side of the code generator, for any bound on *)
(* the constructs that are open, on the functions that wait and on the     *)
(* instances of generic functions: the counters of the generator are those *)
(* of the open constructs, a return pops what its function opened and      *)
(* emits the value its function declares, and what was promoted survives.  *)
(***************************************************************************)
EXTENDS CodeGen, FiniteSetTheorems, SequenceTheorems, WellFoundedInduction, TLAPS

(* What one frame needs of those below it: a scope that was entered with   *)
(* no stack scope open has none below; bodies nest; only what is inside a  *)
(* body is lifted; main and methods are outermost; a lambda holds the      *)
(* return type of the function around it.                                  *)

Bodies == {"function", "bare"}
Setters == FunctionKinds \ {"prefix"}

\* Inside the body of a function statement, with the first n frames open.
BodyAt(s, n) == n > 0 /\ (s[n].kind \in Bodies \/ s[n].body)

\* Somebody has set the return type.
SetBelow(s, n) == \E i \in 1 .. n : s[i].kind \in Setters

\* r is the return type of the innermost function that sets one, unless that
\* function has been disturbed.
Holds(s, n, r) ==
  \A i \in 1 .. n :
    /\ s[i].kind \in Setters
    /\ ~s[i].disturbed
    /\ \A j \in i + 1 .. n : s[j].kind \notin Setters
    => r = s[i].value

FrameOK(s, i) ==
  /\ s[i].entered = 0 => \A j \in 1 .. i - 1 : s[j].scope # "stack"
  /\ s[i].body = BodyAt(s, i - 1)
  /\ s[i].place = "lifted" => s[i].body
  /\ s[i].kind \in {"main", "method"} => i = 1
  /\ s[i].kind = "lambda" => Holds(s, i - 1, s[i].ret) /\ (s[i].ret => SetBelow(s, i - 1))

\* What a function has promoted is known, or another one is open inside it.
Promised(s, p) ==
  \A i \in 1 .. Len(s) :
    s[i].kind \in FunctionKinds /\ s[i].promoted /\ ~s[i].disturbed
      => p \/ \E j \in i + 1 .. Len(s) : s[j].kind \in Bodies

ScopeSet(s, kind) == {i \in 1 .. Len(s) : s[i].scope = kind}
TableSet(s) == {i \in 1 .. Len(s) : s[i].tables > 0}
DoubleSet(s) == {i \in 1 .. Len(s) : s[i].tables = 2}
LiftedSet(s) == {i \in 1 .. Len(s) : s[i].place = "lifted"}

StackOK == stack \in Seq(Frames) /\ Len(stack) <= MaxDepth

FlagsOK ==
  /\ promotes \in BOOLEAN /\ checkpoint \in BOOLEAN /\ ret \in BOOLEAN
  /\ inBody \in BOOLEAN /\ instantiated \in BOOLEAN
  /\ pending \in Nat

Counters ==
  /\ kmm = Cardinality(ScopeSet(stack, "stack")) /\ kmm <= 1
  /\ offset = Cardinality(ScopeSet(stack, "offset"))
  /\ depth = Cardinality(TableSet(stack)) + Cardinality(DoubleSet(stack))
  /\ pending + Cardinality(LiftedSet(stack)) <= MaxPending

FramesOK == \A i \in 1 .. Len(stack) : FrameOK(stack, i)

Fields ==
  /\ inBody = BodyAt(stack, Len(stack))
  /\ pending > 0 => inBody
  /\ ret => SetBelow(stack, Len(stack))
  /\ Holds(stack, Len(stack), ret)

EmittedOK ==
  /\ emitted \in Emissions
  /\ ReturnsPopOwn
  /\ PromotedSurvives
  /\ ValuesReturned

IInv ==
  /\ StackOK
  /\ FlagsOK
  /\ Counters
  /\ FramesOK
  /\ Fields
  /\ Promised(stack, promotes)
  /\ EmittedOK
-----------------------------------------------------------------------------
(* Frames and sequences of frames.                                         *)

LEMMA FrameFields ==
  ASSUME NEW f \in Frames
  PROVE  /\ f.kind \in FunctionKinds \cup BlockKinds /\ f.scope \in Scopes
         /\ f.tables \in 0 .. 2 /\ f.place \in Places /\ f.entered \in 0 .. MaxDepth
         /\ f.value \in BOOLEAN /\ f.body \in BOOLEAN /\ f.ret \in BOOLEAN
         /\ f.promoted \in BOOLEAN /\ f.disturbed \in BOOLEAN
BY DEF Frames

LEMMA Basics ==
  ASSUME NEW s \in Seq(Frames)
  PROVE  Len(s) \in Nat /\ DOMAIN s = 1 .. Len(s) /\ \A i \in 1 .. Len(s) : s[i] \in Frames
BY LenProperties

\* The first n frames of t are those of s, but for what has been promoted and
\* for functions that have been disturbed since.
Kept(s, t, n) ==
  \A i \in 1 .. n :
    /\ t[i].kind = s[i].kind /\ t[i].scope = s[i].scope /\ t[i].tables = s[i].tables
    /\ t[i].place = s[i].place /\ t[i].value = s[i].value /\ t[i].body = s[i].body
    /\ t[i].ret = s[i].ret /\ t[i].entered = s[i].entered
    /\ s[i].disturbed => t[i].disturbed

LEMMA Pushed ==
  ASSUME NEW s \in Seq(Frames), NEW f \in Frames
  PROVE  LET t == Append(s, f) IN
           /\ t \in Seq(Frames) /\ Len(t) = Len(s) + 1 /\ t[Len(s) + 1] = f
           /\ \A i \in 1 .. Len(s) : t[i] = s[i]
           /\ Kept(s, t, Len(s))
<1>1. /\ Append(s, f) \in Seq(Frames)
      /\ Len(Append(s, f)) = Len(s) + 1 /\ Append(s, f)[Len(s) + 1] = f
      /\ \A i \in 1 .. Len(s) : Append(s, f)[i] = s[i]
  BY AppendProperties
<1>2. QED BY <1>1 DEF Kept

LEMMA Popped ==
  ASSUME NEW s \in Seq(Frames), s # << >>
  PROVE  LET t == SubSeq(s, 1, Len(s) - 1) IN
           /\ t \in Seq(Frames) /\ Len(t) = Len(s) - 1 /\ Len(s) > 0
           /\ \A i \in 1 .. Len(t) : t[i] = s[i]
           /\ Kept(s, t, Len(t))
<1>1. Len(s) \in Nat /\ Len(s) > 0 /\ \A i \in 1 .. Len(s) - 1 : s[i] \in Frames
  BY Basics, EmptySeq
<1> DEFINE t == SubSeq(s, 1, Len(s) - 1)
<1>2. /\ t \in Seq(Frames) /\ Len(t) = IF 1 <= Len(s) - 1 THEN Len(s) - 1 - 1 + 1 ELSE 0
  BY <1>1, SubSeqProperties
<1>3. \A i \in 1 .. Len(s) - 1 - 1 + 1 : t[i] = s[1 + i - 1]
  BY <1>1, SubSeqProperties
<1> HIDE DEF t
<1>4. Len(t) = Len(s) - 1
  <2>1. \A n \in Nat : n > 0 => (IF 1 <= n - 1 THEN n - 1 - 1 + 1 ELSE 0) = n - 1
    OBVIOUS
  <2>2. QED BY <1>1, <1>2, <2>1
<1>5. ASSUME NEW i \in 1 .. Len(t) PROVE t[i] = s[i]
  <2>1. i \in 1 .. Len(s) - 1 - 1 + 1 /\ 1 + i - 1 = i
    BY <1>1, <1>4
  <2>2. QED BY <1>3, <2>1
<1>6. Kept(s, t, Len(t))
  BY <1>5 DEF Kept
<1>7. QED BY <1>1, <1>2, <1>4, <1>5, <1>6 DEF t

\* Disturbing and marking change only what history records.
LEMMA Disturbed ==
  ASSUME NEW s \in Seq(Frames)
  PROVE  LET t == Disturb(s) IN
           /\ t \in Seq(Frames) /\ Len(t) = Len(s) /\ Kept(s, t, Len(s))
           /\ \A i \in 1 .. Len(s) : s[i].kind \in FunctionKinds => t[i].disturbed
<1> DEFINE t == Disturb(s)
<1>1. Len(s) \in Nat /\ DOMAIN s = 1 .. Len(s) /\ \A i \in 1 .. Len(s) : s[i] \in Frames
  BY Basics
<1>2. \A i \in 1 .. Len(s) :
        t[i] = IF s[i].kind \in FunctionKinds THEN [s[i] EXCEPT !.disturbed = TRUE] ELSE s[i]
  BY <1>1 DEF Disturb
<1>3. \A f \in Frames :
        /\ [f EXCEPT !.disturbed = TRUE] \in Frames
        /\ [f EXCEPT !.disturbed = TRUE].disturbed = TRUE
        /\ LET g == [f EXCEPT !.disturbed = TRUE] IN
             /\ g.kind = f.kind /\ g.scope = f.scope /\ g.tables = f.tables
             /\ g.place = f.place /\ g.value = f.value /\ g.body = f.body
             /\ g.ret = f.ret /\ g.entered = f.entered
  BY DEF Frames
<1>4. t \in [1 .. Len(s) -> Frames]
  BY <1>1, <1>3 DEF Disturb
<1>5. t \in Seq(Frames)
  BY <1>1, <1>4, SeqDef
<1>6. Len(t) = Len(s)
  BY <1>1, <1>4, <1>5, LenProperties
<1> HIDE DEF t
<1>7. ASSUME NEW i \in 1 .. Len(s)
      PROVE  /\ t[i].kind = s[i].kind /\ t[i].scope = s[i].scope /\ t[i].tables = s[i].tables
             /\ t[i].place = s[i].place /\ t[i].value = s[i].value /\ t[i].body = s[i].body
             /\ t[i].ret = s[i].ret /\ t[i].entered = s[i].entered
             /\ s[i].disturbed => t[i].disturbed
             /\ s[i].kind \in FunctionKinds => t[i].disturbed
  <2>1. CASE s[i].kind \in FunctionKinds
    <3>1. t[i] = [s[i] EXCEPT !.disturbed = TRUE] /\ s[i] \in Frames
      BY <1>1, <1>2, <2>1
    <3>2. QED BY <1>3, <3>1
  <2>2. CASE s[i].kind \notin FunctionKinds
    <3>1. t[i] = s[i]
      BY <1>2, <2>2
    <3>2. QED BY <2>2, <3>1
  <2>3. QED BY <2>1, <2>2
<1>8. Kept(s, t, Len(s)) /\ \A i \in 1 .. Len(s) : s[i].kind \in FunctionKinds => t[i].disturbed
  BY <1>7 DEF Kept
<1>9. QED BY <1>5, <1>6, <1>8 DEF t

LEMMA Marking ==
  ASSUME NEW s \in Seq(Frames), NEW o \in 1 .. Len(s)
  PROVE  LET t == [s EXCEPT ![o].promoted = TRUE] IN
           /\ t \in Seq(Frames) /\ Len(t) = Len(s) /\ Kept(s, t, Len(s))
           /\ \A i \in 1 .. Len(s) : /\ t[i].disturbed = s[i].disturbed
                                     /\ i # o => t[i] = s[i]
<1> DEFINE e == [s[o] EXCEPT !.promoted = TRUE]
           t == [s EXCEPT ![o].promoted = TRUE]
<1>1. s[o] \in Frames /\ Len(s) \in Nat
  BY Basics
<1>2. /\ e \in Frames /\ e.disturbed = s[o].disturbed
      /\ e.kind = s[o].kind /\ e.scope = s[o].scope /\ e.tables = s[o].tables
      /\ e.place = s[o].place /\ e.value = s[o].value /\ e.body = s[o].body
      /\ e.ret = s[o].ret /\ e.entered = s[o].entered
  BY <1>1 DEF Frames
<1>3. t = [s EXCEPT ![o] = e]
  OBVIOUS
<1> HIDE DEF e
<1>4. /\ [s EXCEPT ![o] = e] \in Seq(Frames) /\ Len([s EXCEPT ![o] = e]) = Len(s)
      /\ \A j \in 1 .. Len(s) : [s EXCEPT ![o] = e][j] = IF j = o THEN e ELSE s[j]
  BY <1>2, ExceptSeq
<1> HIDE DEF t
<1>5. ASSUME NEW i \in 1 .. Len(s)
      PROVE  /\ t[i].kind = s[i].kind /\ t[i].scope = s[i].scope /\ t[i].tables = s[i].tables
             /\ t[i].place = s[i].place /\ t[i].value = s[i].value /\ t[i].body = s[i].body
             /\ t[i].ret = s[i].ret /\ t[i].entered = s[i].entered
             /\ t[i].disturbed = s[i].disturbed
             /\ i # o => t[i] = s[i]
  <2>1. CASE i = o
    BY <1>2, <1>3, <1>4, <2>1
  <2>2. CASE i # o
    <3>1. t[i] = s[i]
      BY <1>3, <1>4, <2>2
    <3>2. QED BY <2>2, <3>1
  <2>3. QED BY <2>1, <2>2
<1>6. Kept(s, t, Len(s)) /\ \A i \in 1 .. Len(s) : t[i].disturbed = s[i].disturbed /\ (i # o => t[i] = s[i])
  BY <1>5 DEF Kept
<1>7. t \in Seq(Frames) /\ Len(t) = Len(s)
  BY <1>3, <1>4
<1>8. QED BY <1>6, <1>7 DEF t

-----------------------------------------------------------------------------
(* What is said of the first n frames stays true while they are kept.      *)

LEMMA BodyStays ==
  ASSUME NEW s, NEW t, NEW n \in Nat, Kept(s, t, n)
  PROVE  BodyAt(t, n) = BodyAt(s, n)
BY DEF Kept, BodyAt

LEMMA SetterStays ==
  ASSUME NEW s, NEW t, NEW n \in Nat, Kept(s, t, n), SetBelow(s, n)
  PROVE  SetBelow(t, n)
BY DEF Kept, SetBelow

LEMMA HoldsStays ==
  ASSUME NEW s, NEW t, NEW n \in Nat, Kept(s, t, n), NEW r, Holds(s, n, r)
  PROVE  Holds(t, n, r)
<1> SUFFICES ASSUME NEW i \in 1 .. n, t[i].kind \in Setters, ~t[i].disturbed,
                    \A j \in i + 1 .. n : t[j].kind \notin Setters
             PROVE  r = t[i].value
  BY DEF Holds
<1>1. s[i].kind \in Setters /\ ~s[i].disturbed /\ t[i].value = s[i].value
  BY DEF Kept
<1>2. \A j \in i + 1 .. n : s[j].kind \notin Setters
  BY DEF Kept
<1>3. QED BY <1>1, <1>2 DEF Holds

LEMMA KeptBelow ==
  ASSUME NEW s, NEW t, NEW n \in Nat, Kept(s, t, n), NEW m \in 0 .. n
  PROVE  Kept(s, t, m)
BY DEF Kept

LEMMA FrameStays ==
  ASSUME NEW s \in Seq(Frames), NEW t, NEW n \in Nat, Kept(s, t, n), NEW i \in 1 .. n, n <= Len(s),
         FrameOK(s, i)
  PROVE  FrameOK(t, i)
<1>1. i - 1 \in 0 .. n /\ i - 1 \in Nat
  OBVIOUS
<1>2. Kept(s, t, i - 1)
  BY <1>1, KeptBelow
<1>3. /\ t[i].kind = s[i].kind /\ t[i].place = s[i].place /\ t[i].body = s[i].body
      /\ t[i].ret = s[i].ret /\ t[i].entered = s[i].entered
  BY DEF Kept
<1>4. t[i].entered = 0 => \A j \in 1 .. i - 1 : t[j].scope # "stack"
  BY <1>2, <1>3 DEF FrameOK, Kept
<1>5. t[i].body = BodyAt(t, i - 1)
  BY <1>1, <1>2, <1>3, BodyStays DEF FrameOK
<1>6. /\ t[i].place = "lifted" => t[i].body
      /\ t[i].kind \in {"main", "method"} => i = 1
  BY <1>3 DEF FrameOK
<1>7. ASSUME t[i].kind = "lambda"
      PROVE  Holds(t, i - 1, t[i].ret) /\ (t[i].ret => SetBelow(t, i - 1))
  <2>1. Holds(s, i - 1, t[i].ret) /\ (t[i].ret => SetBelow(s, i - 1))
    BY <1>3, <1>7 DEF FrameOK
  <2>2. QED BY <1>1, <1>2, <2>1, HoldsStays, SetterStays
<1>8. QED BY <1>4, <1>5, <1>6, <1>7 DEF FrameOK

-----------------------------------------------------------------------------
(* The innermost function.                                                 *)

FunctionSet(s) == {i \in 1 .. Len(s) : s[i].kind \in FunctionKinds}
Greatest(S) == IF S = {} THEN 0 ELSE CHOOSE i \in S : \A j \in S : j <= i
Innermost(s) == Greatest(FunctionSet(s))

LEMMA OwnIs == Own = Innermost(stack)
BY DEF Own, Indices, Innermost, Greatest, FunctionSet

LEMMA OwnThenIs == Own' = Innermost(stack')
BY DEF Own, Indices, Innermost, Greatest, FunctionSet

LEMMA Largest ==
  ASSUME NEW n \in Nat, NEW T \in SUBSET (1 .. n), T # {}
  PROVE  \E m \in T : \A j \in T : j <= m
<1> DEFINE Above(m) == {j \in T : j > m}
           W == {Above(m) : m \in T}
<1>1. IsFiniteSet(1 .. n)
  BY FS_Interval
<1>2. IsFiniteSet(T)
  BY <1>1, FS_Subset
<1>3. FiniteSubsetsOf(T) = SUBSET T
  BY <1>2, FS_FiniteSubsetsOfFinite
<1>4. IsWellFoundedOn(StrictSubsetOrdering(T), SUBSET T)
  BY <1>3, FS_StrictSubsetOrderingWellFounded
<1>5. W \subseteq SUBSET T /\ W # {}
  OBVIOUS
<1> HIDE DEF W
<1>6. \E x \in W : \A y \in W : ~(<<y, x>> \in StrictSubsetOrdering(T))
  BY <1>4, <1>5, WFMin
<1>7. PICK m \in T : \A y \in W : ~(<<y, Above(m)>> \in StrictSubsetOrdering(T))
  BY <1>6 DEF W
<1>8. ASSUME NEW k \in T, k > m PROVE FALSE
  <2>1. Above(k) \in W /\ Above(k) \in SUBSET T /\ Above(m) \in SUBSET T
    BY DEF W
  <2>2. ASSUME NEW j \in T, j > k PROVE j > m
    <3>1. j \in Int /\ k \in Int /\ m \in Int
      OBVIOUS
    <3>2. QED BY <1>8, <2>2, <3>1
  <2>3. k \in Int /\ ~(k > k)
    OBVIOUS
  <2>4. k \in Above(m) /\ k \notin Above(k) /\ Above(k) \subseteq Above(m)
    BY <1>8, <2>2, <2>3
  <2>5. <<Above(k), Above(m)>> \in StrictSubsetOrdering(T)
    BY <2>1, <2>4 DEF StrictSubsetOrdering
  <2>6. QED BY <1>7, <2>1, <2>5
<1>9. QED BY <1>8

LEMMA InnermostIs ==
  ASSUME NEW s \in Seq(Frames)
  PROVE  LET o == Innermost(s) IN
           /\ o \in 0 .. Len(s)
           /\ o > 0 => s[o].kind \in FunctionKinds
           /\ \A j \in o + 1 .. Len(s) : s[j].kind \notin FunctionKinds
<1> DEFINE fs == FunctionSet(s)
           o == Innermost(s)
<1>1. Len(s) \in Nat
  BY Basics
<1>2. CASE fs = {}
  <2>1. o = 0
    BY <1>2 DEF Innermost, Greatest
  <2>2. QED BY <1>1, <1>2, <2>1 DEF FunctionSet
<1>3. CASE fs # {}
  <2>1. \E m \in fs : \A j \in fs : j <= m
    BY <1>1, <1>3, Largest DEF FunctionSet
  <2>2. o = CHOOSE i \in fs : \A j \in fs : j <= i
    BY <1>3 DEF Innermost, Greatest
  <2> HIDE DEF o
  <2>3. o \in fs /\ \A j \in fs : j <= o
    BY <2>1, <2>2
  <2>4. QED BY <1>1, <2>3 DEF o, FunctionSet
<1>4. QED BY <1>2, <1>3

-----------------------------------------------------------------------------
(* What the counters count, as constructs open and close.                  *)

LEMMA Bounded ==
  ASSUME NEW n \in Nat, NEW T \in SUBSET (1 .. n)
  PROVE  IsFiniteSet(T) /\ Cardinality(T) \in Nat /\ Cardinality(T) <= n
<1>1. IsFiniteSet(1 .. n) /\ Cardinality(1 .. n) = IF 1 > n THEN 0 ELSE n - 1 + 1
  BY FS_Interval
<1>2. Cardinality(1 .. n) = n
  BY <1>1
<1>3. IsFiniteSet(T) /\ Cardinality(T) <= Cardinality(1 .. n)
  BY <1>1, FS_Subset
<1>4. Cardinality(T) \in Nat
  BY <1>3, FS_CardinalityType
<1>5. QED BY <1>2, <1>3, <1>4

LEMMA SetsBounded ==
  ASSUME NEW s \in Seq(Frames)
  PROVE  /\ \A k \in Scopes : ScopeSet(s, k) \in SUBSET (1 .. Len(s))
         /\ TableSet(s) \in SUBSET (1 .. Len(s)) /\ DoubleSet(s) \in SUBSET (1 .. Len(s))
         /\ LiftedSet(s) \in SUBSET (1 .. Len(s))
BY DEF ScopeSet, TableSet, DoubleSet, LiftedSet

LEMMA Added ==
  ASSUME NEW n \in Nat, NEW T \in SUBSET (1 .. n)
  PROVE  Cardinality(T \cup {n + 1}) = Cardinality(T) + 1
<1>1. IsFiniteSet(T) /\ n + 1 \notin T
  BY Bounded
<1>2. QED BY <1>1, FS_AddElement

LEMMA Removed ==
  ASSUME NEW n \in Nat, n > 0, NEW T \in SUBSET (1 .. n)
  PROVE  /\ n \in T => Cardinality(T \ {n}) = Cardinality(T) - 1 /\ Cardinality(T) > 0
         /\ n \notin T => Cardinality(T \ {n}) = Cardinality(T)
<1>1. IsFiniteSet(T) /\ Cardinality(T) \in Nat
  BY Bounded
<1>2. Cardinality(T \ {n}) = IF n \in T THEN Cardinality(T) - 1 ELSE Cardinality(T)
  BY <1>1, FS_RemoveElement
<1>3. n \in T => Cardinality(T) # 0
  BY <1>1, FS_EmptySet
<1>4. QED BY <1>1, <1>2, <1>3

Top1(b, n) == IF b THEN {n} ELSE {}

LEMMA SetsGrow ==
  ASSUME NEW s \in Seq(Frames), NEW t \in Seq(Frames), NEW f \in Frames,
         Len(t) = Len(s) + 1, t[Len(s) + 1] = f, Kept(s, t, Len(s))
  PROVE  /\ \A k \in Scopes : ScopeSet(t, k) = ScopeSet(s, k) \cup Top1(f.scope = k, Len(s) + 1)
         /\ TableSet(t) = TableSet(s) \cup Top1(f.tables > 0, Len(s) + 1)
         /\ DoubleSet(t) = DoubleSet(s) \cup Top1(f.tables = 2, Len(s) + 1)
         /\ LiftedSet(t) = LiftedSet(s) \cup Top1(f.place = "lifted", Len(s) + 1)
<1>1. Len(s) \in Nat /\ 1 .. Len(t) = (1 .. Len(s)) \cup {Len(s) + 1}
  BY Basics
<1>2. \A i \in 1 .. Len(s) : t[i].scope = s[i].scope /\ t[i].tables = s[i].tables /\ t[i].place = s[i].place
  BY DEF Kept
<1>3. ASSUME NEW k \in Scopes
      PROVE  ScopeSet(t, k) = ScopeSet(s, k) \cup Top1(f.scope = k, Len(s) + 1)
  BY <1>1, <1>2 DEF ScopeSet, Top1
<1>4. TableSet(t) = TableSet(s) \cup Top1(f.tables > 0, Len(s) + 1)
  BY <1>1, <1>2 DEF TableSet, Top1
<1>5. DoubleSet(t) = DoubleSet(s) \cup Top1(f.tables = 2, Len(s) + 1)
  BY <1>1, <1>2 DEF DoubleSet, Top1
<1>6. LiftedSet(t) = LiftedSet(s) \cup Top1(f.place = "lifted", Len(s) + 1)
  BY <1>1, <1>2 DEF LiftedSet, Top1
<1>7. QED BY <1>3, <1>4, <1>5, <1>6

LEMMA SetsShrink ==
  ASSUME NEW s \in Seq(Frames), NEW t \in Seq(Frames),
         Len(s) > 0, Len(t) = Len(s) - 1, Kept(s, t, Len(t))
  PROVE  /\ \A k \in Scopes : ScopeSet(t, k) = ScopeSet(s, k) \ {Len(s)}
         /\ TableSet(t) = TableSet(s) \ {Len(s)} /\ DoubleSet(t) = DoubleSet(s) \ {Len(s)}
         /\ LiftedSet(t) = LiftedSet(s) \ {Len(s)}
<1>1. Len(s) \in Nat /\ 1 .. Len(t) = (1 .. Len(s)) \ {Len(s)}
  BY Basics
<1>2. \A i \in 1 .. Len(t) : t[i].scope = s[i].scope /\ t[i].tables = s[i].tables /\ t[i].place = s[i].place
  BY DEF Kept
<1>3. ASSUME NEW k \in Scopes PROVE ScopeSet(t, k) = ScopeSet(s, k) \ {Len(s)}
  BY <1>1, <1>2 DEF ScopeSet
<1>4. TableSet(t) = TableSet(s) \ {Len(s)}
  BY <1>1, <1>2 DEF TableSet
<1>5. DoubleSet(t) = DoubleSet(s) \ {Len(s)}
  BY <1>1, <1>2 DEF DoubleSet
<1>6. LiftedSet(t) = LiftedSet(s) \ {Len(s)}
  BY <1>1, <1>2 DEF LiftedSet
<1>7. QED BY <1>3, <1>4, <1>5, <1>6

LEMMA SetsStay ==
  ASSUME NEW s \in Seq(Frames), NEW t \in Seq(Frames), Len(t) = Len(s), Kept(s, t, Len(s))
  PROVE  /\ \A k \in Scopes : ScopeSet(t, k) = ScopeSet(s, k)
         /\ TableSet(t) = TableSet(s) /\ DoubleSet(t) = DoubleSet(s) /\ LiftedSet(t) = LiftedSet(s)
<1>1. \A i \in 1 .. Len(t) : t[i].scope = s[i].scope /\ t[i].tables = s[i].tables /\ t[i].place = s[i].place
  BY DEF Kept
<1>2. QED BY <1>1 DEF ScopeSet, TableSet, DoubleSet, LiftedSet

LEMMA CountersStay ==
  ASSUME Counters, StackOK, stack' \in Seq(Frames), Len(stack') = Len(stack),
         Kept(stack, stack', Len(stack)), UNCHANGED <<kmm, offset, depth, pending>>
  PROVE  Counters'
<1>1. /\ \A k \in Scopes : ScopeSet(stack', k) = ScopeSet(stack, k)
      /\ TableSet(stack') = TableSet(stack) /\ DoubleSet(stack') = DoubleSet(stack)
      /\ LiftedSet(stack') = LiftedSet(stack)
  BY SetsStay DEF StackOK
<1>2. {"stack", "offset"} \subseteq Scopes
  BY DEF Scopes
<1>3. ScopeSet(stack', "stack") = ScopeSet(stack, "stack") /\ ScopeSet(stack', "offset") = ScopeSet(stack, "offset")
  BY <1>1, <1>2
<1>4. QED BY <1>1, <1>3 DEF Counters

\* Open with a frame that asks for a stack scope only when none is open.
LEMMA CountersOpen ==
  ASSUME Counters, StackOK, NEW f \in Frames, Open(f), pending' = pending, pending \in Nat,
         f.scope = "stack" => MayPush,
         f.place = "lifted" => MayWait
  PROVE  Counters'
<1> DEFINE n == Len(stack)
<1>1. /\ stack \in Seq(Frames) /\ stack' \in Seq(Frames) /\ Len(stack') = n + 1
      /\ stack'[n + 1] = f /\ Kept(stack, stack', n) /\ n \in Nat
  BY Pushed, Basics DEF StackOK, Open
<1>2. /\ \A k \in Scopes : ScopeSet(stack', k) = ScopeSet(stack, k) \cup Top1(f.scope = k, n + 1)
      /\ TableSet(stack') = TableSet(stack) \cup Top1(f.tables > 0, n + 1)
      /\ DoubleSet(stack') = DoubleSet(stack) \cup Top1(f.tables = 2, n + 1)
      /\ LiftedSet(stack') = LiftedSet(stack) \cup Top1(f.place = "lifted", n + 1)
  BY <1>1, SetsGrow
<1>3. /\ \A k \in Scopes : ScopeSet(stack, k) \in SUBSET (1 .. n)
      /\ TableSet(stack) \in SUBSET (1 .. n) /\ DoubleSet(stack) \in SUBSET (1 .. n)
      /\ LiftedSet(stack) \in SUBSET (1 .. n)
  BY <1>1, SetsBounded
<1> HIDE DEF n
<1>4. ASSUME NEW T \in SUBSET (1 .. n), NEW b \in BOOLEAN
      PROVE  /\ Cardinality(T) \in Nat
             /\ Cardinality(T \cup Top1(b, n + 1)) = Cardinality(T) + (IF b THEN 1 ELSE 0)
  <2>1. Cardinality(T) \in Nat
    BY <1>1, Bounded
  <2>2. CASE b
    <3>1. T \cup Top1(b, n + 1) = T \cup {n + 1}
      BY <2>2 DEF Top1
    <3>2. QED BY <1>1, <2>1, <2>2, <3>1, Added
  <2>3. CASE ~b
    <3>1. T \cup Top1(b, n + 1) = T
      BY <2>3 DEF Top1
    <3>2. QED BY <2>1, <2>3, <3>1
  <2>4. QED BY <2>2, <2>3
<1>5. ASSUME NEW k \in Scopes
      PROVE  /\ Cardinality(ScopeSet(stack, k)) \in Nat
             /\ Cardinality(ScopeSet(stack', k)) = Cardinality(ScopeSet(stack, k)) + (IF f.scope = k THEN 1 ELSE 0)
  BY <1>2, <1>3, <1>4
<1>6. "stack" \in Scopes /\ "offset" \in Scopes
  BY DEF Scopes
<1>7. kmm' = Cardinality(ScopeSet(stack', "stack")) /\ kmm' <= 1
  <2>1. /\ kmm = Cardinality(ScopeSet(stack, "stack")) /\ kmm <= 1 /\ kmm \in Nat
        /\ Cardinality(ScopeSet(stack', "stack")) = kmm + (IF f.scope = "stack" THEN 1 ELSE 0)
    BY <1>5, <1>6 DEF Counters
  <2>2. kmm' = kmm + (IF f.scope = "stack" THEN 1 ELSE 0)
    BY DEF Open, Counted
  <2>3. f.scope = "stack" => kmm = 0
    BY DEF MayPush
  <2>4. QED BY <2>1, <2>2, <2>3
<1>8. offset' = Cardinality(ScopeSet(stack', "offset"))
  BY <1>5, <1>6 DEF Counters, Open, Counted
<1>9. depth' = Cardinality(TableSet(stack')) + Cardinality(DoubleSet(stack'))
  <2>1. /\ Cardinality(TableSet(stack)) \in Nat
        /\ Cardinality(TableSet(stack')) = Cardinality(TableSet(stack)) + (IF f.tables > 0 THEN 1 ELSE 0)
    <3> DEFINE T == TableSet(stack)
               b == f.tables > 0
    <3>1. b \in BOOLEAN
      BY FrameFields
    <3>2. T \in SUBSET (1 .. n) /\ TableSet(stack') = T \cup Top1(b, n + 1)
      BY <1>2, <1>3
    <3> HIDE DEF T, b
    <3>3. /\ Cardinality(T) \in Nat
          /\ Cardinality(TableSet(stack')) = Cardinality(T) + (IF b THEN 1 ELSE 0)
      BY <1>4, <3>1, <3>2
    <3>4. QED BY <3>3 DEF T, b
  <2>2. /\ Cardinality(DoubleSet(stack)) \in Nat
        /\ Cardinality(DoubleSet(stack')) = Cardinality(DoubleSet(stack)) + (IF f.tables = 2 THEN 1 ELSE 0)
    BY <1>2, <1>3, <1>4
  <2>3. depth' = Cardinality(TableSet(stack)) + Cardinality(DoubleSet(stack)) + f.tables
    BY DEF Counters, Open
  <2>4. f.tables \in 0 .. 2
    BY FrameFields
  <2>5. QED BY <2>1, <2>2, <2>3, <2>4
<1>10. pending' + Cardinality(LiftedSet(stack')) <= MaxPending
  <2>1. /\ Cardinality(LiftedSet(stack)) \in Nat
        /\ Cardinality(LiftedSet(stack')) = Cardinality(LiftedSet(stack)) + (IF f.place = "lifted" THEN 1 ELSE 0)
    BY <1>2, <1>3, <1>4
  <2>2. f.place = "lifted" => pending + Cardinality(LiftedSet(stack)) < MaxPending
    BY DEF MayWait, Indices, LiftedSet
  <2>3. QED BY <2>1, <2>2, Bounds DEF Counters
<1>11. QED BY <1>7, <1>8, <1>9, <1>10 DEF Counters

\* Whichever way a construct closes; wait is what is queued after it.
Closing(below) ==
  /\ stack # << >>
  /\ below \in Seq(Frames)
  /\ Len(below) = Len(stack) - 1 /\ Len(stack) \in Nat /\ Len(stack) > 0
  /\ Kept(stack, below, Len(below))

LEMMA RestCloses ==
  ASSUME StackOK, stack # << >>
  PROVE  Closing(Rest) /\ \A i \in 1 .. Len(Rest) : Rest[i] = stack[i]
BY Popped, Basics DEF StackOK, Rest, Closing

LEMMA DisturbedCloses ==
  ASSUME StackOK, stack # << >>
  PROVE  /\ Closing(Disturb(Rest))
         /\ \A i \in 1 .. Len(Disturb(Rest)) : stack[i].kind \in FunctionKinds => Disturb(Rest)[i].disturbed
<1>1. Closing(Rest) /\ \A i \in 1 .. Len(Rest) : Rest[i] = stack[i]
  BY RestCloses
<1> DEFINE t == Disturb(Rest)
<1>2. /\ t \in Seq(Frames) /\ Len(t) = Len(Rest) /\ Kept(Rest, t, Len(Rest))
      /\ \A i \in 1 .. Len(Rest) : Rest[i].kind \in FunctionKinds => t[i].disturbed
  BY <1>1, Disturbed DEF Closing
<1> HIDE DEF t
<1>3. Kept(stack, t, Len(t)) /\ \A i \in 1 .. Len(t) : stack[i].kind \in FunctionKinds => t[i].disturbed
  BY <1>1, <1>2 DEF Kept
<1>4. QED BY <1>1, <1>2, <1>3 DEF t, Closing

LEMMA CountersClose ==
  ASSUME Counters, StackOK, NEW below, Closing(below), Close(below), pending \in Nat, pending' \in Nat,
         \/ Top.place # "lifted" /\ pending' <= pending
         \/ Top.place = "lifted" /\ pending' <= pending + 1
  PROVE  Counters'
<1> DEFINE n == Len(stack)
<1>1. /\ stack \in Seq(Frames) /\ stack' = below /\ below \in Seq(Frames) /\ Len(below) = n - 1
      /\ Kept(stack, below, Len(below)) /\ n \in Nat /\ n > 0 /\ Top = stack[n] /\ n \in 1 .. Len(stack)
  BY Basics DEF StackOK, Close, Closing, Top
<1>2. /\ \A k \in Scopes : ScopeSet(below, k) = ScopeSet(stack, k) \ {n}
      /\ TableSet(below) = TableSet(stack) \ {n} /\ DoubleSet(below) = DoubleSet(stack) \ {n}
      /\ LiftedSet(below) = LiftedSet(stack) \ {n}
  BY <1>1, SetsShrink
<1>3. /\ \A k \in Scopes : ScopeSet(stack, k) \in SUBSET (1 .. n)
      /\ TableSet(stack) \in SUBSET (1 .. n) /\ DoubleSet(stack) \in SUBSET (1 .. n)
      /\ LiftedSet(stack) \in SUBSET (1 .. n)
  BY <1>1, SetsBounded
<1>4. /\ \A k \in Scopes : n \in ScopeSet(stack, k) <=> Top.scope = k
      /\ n \in TableSet(stack) <=> Top.tables > 0
      /\ n \in DoubleSet(stack) <=> Top.tables = 2
      /\ n \in LiftedSet(stack) <=> Top.place = "lifted"
  BY <1>1 DEF ScopeSet, TableSet, DoubleSet, LiftedSet
<1>5. stack[n] \in Frames
  BY <1>1, Basics
<1> HIDE DEF n
<1>6. ASSUME NEW T \in SUBSET (1 .. n)
      PROVE  /\ Cardinality(T) \in Nat
             /\ n \in T => Cardinality(T \ {n}) = Cardinality(T) - 1 /\ Cardinality(T) > 0
             /\ n \notin T => Cardinality(T \ {n}) = Cardinality(T)
  BY <1>1, Bounded, Removed
<1>7. "stack" \in Scopes /\ "offset" \in Scopes
  BY DEF Scopes
<1>8. kmm' = Cardinality(ScopeSet(stack', "stack")) /\ kmm' <= 1
  <2> DEFINE T == ScopeSet(stack, "stack")
  <2>1. T \in SUBSET (1 .. n) /\ ScopeSet(stack', "stack") = T \ {n} /\ (n \in T <=> Top.scope = "stack")
    BY <1>1, <1>2, <1>3, <1>4, <1>7
  <2>2. kmm = Cardinality(T) /\ kmm <= 1 /\ kmm' = IF Top.scope = "stack" /\ kmm > 0 THEN kmm - 1 ELSE kmm
    BY DEF Counters, Close, Uncounted
  <2> HIDE DEF T
  <2>3. CASE n \in T
    BY <1>6, <2>1, <2>2, <2>3
  <2>4. CASE n \notin T
    BY <1>6, <2>1, <2>2, <2>4
  <2>5. QED BY <2>3, <2>4
<1>9. offset' = Cardinality(ScopeSet(stack', "offset"))
  <2> DEFINE T == ScopeSet(stack, "offset")
  <2>1. T \in SUBSET (1 .. n) /\ ScopeSet(stack', "offset") = T \ {n} /\ (n \in T <=> Top.scope = "offset")
    BY <1>1, <1>2, <1>3, <1>4, <1>7
  <2>2. offset = Cardinality(T) /\ offset' = IF Top.scope = "offset" /\ offset > 0 THEN offset - 1 ELSE offset
    BY DEF Counters, Close, Uncounted
  <2> HIDE DEF T
  <2>3. CASE n \in T
    BY <1>6, <2>1, <2>2, <2>3
  <2>4. CASE n \notin T
    BY <1>6, <2>1, <2>2, <2>4
  <2>5. QED BY <2>3, <2>4
<1>10. depth' = Cardinality(TableSet(stack')) + Cardinality(DoubleSet(stack'))
  <2> DEFINE T == TableSet(stack)
             D == DoubleSet(stack)
  <2>1. /\ T \in SUBSET (1 .. n) /\ TableSet(stack') = T \ {n} /\ (n \in T <=> Top.tables > 0)
        /\ D \in SUBSET (1 .. n) /\ DoubleSet(stack') = D \ {n} /\ (n \in D <=> Top.tables = 2)
    BY <1>1, <1>2, <1>3, <1>4
  <2>2. depth = Cardinality(T) + Cardinality(D) /\ depth' = depth - Top.tables
    BY DEF Counters, Close
  <2>3. Top.tables \in 0 .. 2
    BY <1>1, <1>5, FrameFields
  <2> HIDE DEF T, D
  <2>4. /\ Cardinality(T) \in Nat /\ Cardinality(D) \in Nat
        /\ Cardinality(T \ {n}) = Cardinality(T) - (IF Top.tables > 0 THEN 1 ELSE 0)
        /\ Cardinality(D \ {n}) = Cardinality(D) - (IF Top.tables = 2 THEN 1 ELSE 0)
    <3>1. /\ Cardinality(T) \in Nat
          /\ Cardinality(T \ {n}) = Cardinality(T) - (IF Top.tables > 0 THEN 1 ELSE 0)
      BY <1>6, <2>1
    <3>2. /\ Cardinality(D) \in Nat
          /\ Cardinality(D \ {n}) = Cardinality(D) - (IF Top.tables = 2 THEN 1 ELSE 0)
      BY <1>6, <2>1
    <3>3. QED BY <3>1, <3>2
  <2>5. QED BY <2>1, <2>2, <2>3, <2>4
<1>11. pending' + Cardinality(LiftedSet(stack')) <= MaxPending
  <2> DEFINE T == LiftedSet(stack)
  <2>1. T \in SUBSET (1 .. n) /\ LiftedSet(stack') = T \ {n} /\ (n \in T <=> Top.place = "lifted")
    BY <1>1, <1>2, <1>3, <1>4
  <2>2. pending + Cardinality(T) <= MaxPending
    BY DEF Counters
  <2> HIDE DEF T
  <2>3. CASE n \in T
    BY <1>6, <2>1, <2>2, <2>3, Bounds
  <2>4. CASE n \notin T
    BY <1>6, <2>1, <2>2, <2>4, Bounds
  <2>5. QED BY <2>3, <2>4
<1>12. QED BY <1>8, <1>9, <1>10, <1>11 DEF Counters

-----------------------------------------------------------------------------
(* The frames, as constructs open and close.                               *)

LEMMA FramesStay ==
  ASSUME StackOK, FramesOK, Len(stack') \in Nat, Len(stack') <= Len(stack),
         Kept(stack, stack', Len(stack'))
  PROVE  FramesOK'
<1>1. stack \in Seq(Frames) /\ Len(stack) \in Nat
  BY Basics DEF StackOK
<1>2. ASSUME NEW i \in 1 .. Len(stack') PROVE FrameOK(stack', i)
  <2>1. i \in 1 .. Len(stack)
    BY <1>1
  <2>2. FrameOK(stack, i)
    BY <2>1 DEF FramesOK
  <2>3. QED BY <1>1, <2>2, FrameStays
<1>3. QED BY <1>2 DEF FramesOK

\* A frame as Frame(_) makes it.
FrameFits(f) ==
  /\ f \in Frames
  /\ f.entered = kmm /\ f.body = inBody /\ f.ret = ret
  /\ ~f.promoted /\ ~f.disturbed
  /\ f.place = "lifted" => inBody
  /\ f.kind \in {"main", "method"} => stack = << >>

LEMMA Opened ==
  ASSUME StackOK, NEW f \in Frames, Open(f)
  PROVE  /\ stack \in Seq(Frames) /\ stack' \in Seq(Frames) /\ Len(stack') = Len(stack) + 1
         /\ stack'[Len(stack) + 1] = f /\ Kept(stack, stack', Len(stack)) /\ Len(stack) \in Nat
         /\ \A i \in 1 .. Len(stack) : stack'[i] = stack[i]
         /\ StackOK'
<1>1. stack' = Append(stack, f) /\ Len(stack) < MaxDepth /\ stack \in Seq(Frames)
  BY DEF Open, StackOK
<1>2. /\ stack' \in Seq(Frames) /\ Len(stack') = Len(stack) + 1
      /\ stack'[Len(stack) + 1] = f /\ Kept(stack, stack', Len(stack)) /\ Len(stack) \in Nat
      /\ \A i \in 1 .. Len(stack) : stack'[i] = stack[i]
  BY <1>1, Pushed, Basics
<1>3. QED BY <1>1, <1>2, Bounds DEF StackOK

LEMMA NoScope ==
  ASSUME StackOK, Counters, kmm = 0
  PROVE  \A j \in 1 .. Len(stack) : stack[j].scope # "stack"
<1>1. ScopeSet(stack, "stack") \in SUBSET (1 .. Len(stack)) /\ Len(stack) \in Nat
  BY Basics DEF StackOK, ScopeSet
<1>2. IsFiniteSet(ScopeSet(stack, "stack"))
  BY <1>1, Bounded
<1>3. ScopeSet(stack, "stack") = {}
  BY <1>2, FS_EmptySet DEF Counters
<1>4. QED BY <1>3 DEF ScopeSet

LEMMA FramesOpen ==
  ASSUME StackOK, Counters, FramesOK, Fields, NEW f, FrameFits(f), Open(f)
  PROVE  FramesOK'
<1> DEFINE n == Len(stack)
           t == stack'
<1>1. /\ stack \in Seq(Frames) /\ t \in Seq(Frames) /\ Len(t) = n + 1
      /\ t[n + 1] = f /\ Kept(stack, t, n) /\ n \in Nat
  BY Opened DEF FrameFits
<1>2. ASSUME NEW i \in 1 .. n PROVE FrameOK(t, i)
  BY <1>1, <1>2, FrameStays DEF FramesOK
<1>3. FrameOK(t, n + 1)
  <2>1. n + 1 - 1 = n /\ Len(t) \in Nat
    BY <1>1
  <2>2. f.entered = 0 => \A j \in 1 .. n : t[j].scope # "stack"
    BY <1>1, NoScope DEF FrameFits, Kept
  <2>3. f.body = BodyAt(t, n)
    BY <1>1, BodyStays DEF FrameFits, Fields
  <2>4. f.place = "lifted" => f.body
    BY DEF FrameFits
  <2>5. f.kind \in {"main", "method"} => n + 1 = 1
    BY <1>1 DEF FrameFits
  <2>6. Holds(t, n, f.ret) /\ (f.ret => SetBelow(t, n))
    BY <1>1, HoldsStays, SetterStays DEF FrameFits, Fields
  <2> HIDE DEF t, n
  <2>7. QED BY <1>1, <2>1, <2>2, <2>3, <2>4, <2>5, <2>6 DEF FrameOK
<1>4. 1 .. Len(t) = (1 .. n) \cup {n + 1}
  BY <1>1
<1>5. QED BY <1>2, <1>3, <1>4 DEF FramesOK

\* What was promised stays so while the frames stay, or when a body opens.
LEMMA PromisedOpen ==
  ASSUME StackOK, Promised(stack, promotes), NEW f, FrameFits(f), Open(f),
         \/ promotes' = promotes
         \/ f.kind \in Bodies
         \/ stack = << >>
  PROVE  Promised(stack', promotes')
<1> DEFINE n == Len(stack)
           t == stack'
<1>1. /\ stack \in Seq(Frames) /\ t \in Seq(Frames) /\ Len(t) = n + 1
      /\ t[n + 1] = f /\ n \in Nat /\ \A i \in 1 .. n : t[i] = stack[i]
  BY Opened DEF FrameFits
<1>2. ~f.promoted
  BY DEF FrameFits
<1>3. stack = << >> => n = 0
  OBVIOUS
<1> HIDE DEF t, n
<1>4. SUFFICES ASSUME NEW i \in 1 .. Len(t), t[i].kind \in FunctionKinds, t[i].promoted, ~t[i].disturbed
               PROVE  promotes' \/ \E j \in i + 1 .. Len(t) : t[j].kind \in Bodies
  BY DEF Promised, t
<1>5. i \in 1 .. n /\ t[i] = stack[i]
  BY <1>1, <1>2, <1>4
<1>6. CASE f.kind \in Bodies
  BY <1>1, <1>5, <1>6
<1>7. CASE promotes' = promotes
  <2>1. promotes \/ \E j \in i + 1 .. n : stack[j].kind \in Bodies
    BY <1>4, <1>5 DEF Promised, n
  <2>2. QED BY <1>1, <1>5, <1>7, <2>1
<1>8. CASE n = 0
  BY <1>5, <1>8
<1>9. QED BY <1>3, <1>6, <1>7, <1>8

LEMMA PromisedRest ==
  ASSUME StackOK, Promised(stack, promotes), stack # << >>, stack' = Rest, promotes' = promotes,
         Top.kind \notin Bodies
  PROVE  Promised(stack', promotes')
<1>1. Closing(Rest) /\ \A i \in 1 .. Len(Rest) : Rest[i] = stack[i]
  BY RestCloses
<1> DEFINE n == Len(stack)
           t == stack'
<1>2. Len(t) = n - 1 /\ n \in Nat /\ n > 0 /\ (\A i \in 1 .. Len(t) : t[i] = stack[i]) /\ stack[n].kind \notin Bodies
  BY <1>1 DEF Closing, Top
<1> HIDE DEF t, n
<1>3. SUFFICES ASSUME NEW i \in 1 .. Len(t), t[i].kind \in FunctionKinds, t[i].promoted, ~t[i].disturbed
               PROVE  promotes' \/ \E j \in i + 1 .. Len(t) : t[j].kind \in Bodies
  BY DEF Promised, t
<1>4. promotes \/ \E j \in i + 1 .. n : stack[j].kind \in Bodies
  BY <1>2, <1>3 DEF Promised, n
<1>5. QED BY <1>2, <1>4

LEMMA PromisedDisturbed ==
  ASSUME StackOK, stack # << >>, stack' = Disturb(Rest)
  PROVE  Promised(stack', promotes')
<1>1. /\ Closing(Disturb(Rest))
      /\ \A i \in 1 .. Len(stack') : stack[i].kind \in FunctionKinds => stack'[i].disturbed
  BY DisturbedCloses
<1>2. \A i \in 1 .. Len(stack') : stack'[i].kind = stack[i].kind
  BY <1>1 DEF Closing, Kept
<1>3. QED BY <1>1, <1>2 DEF Promised

-----------------------------------------------------------------------------
(* The fields of the generator.                                            *)

LEMMA FieldsOpen ==
  ASSUME StackOK, FlagsOK, Fields, NEW f, FrameFits(f), Open(f), pending' = pending,
         inBody' = (inBody \/ f.kind \in Bodies),
         \/ f.kind \in Setters /\ ret' = f.value
         \/ f.kind \notin Setters /\ ret' = ret
  PROVE  Fields'
<1> DEFINE n == Len(stack)
           t == stack'
<1>1. /\ stack \in Seq(Frames) /\ t \in Seq(Frames) /\ Len(t) = n + 1
      /\ t[n + 1] = f /\ Kept(stack, t, n) /\ n \in Nat
  BY Opened DEF FrameFits
<1>2. /\ inBody = BodyAt(stack, n)
      /\ pending > 0 => inBody
      /\ ret => SetBelow(stack, n)
      /\ Holds(stack, n, ret)
  BY DEF Fields
<1>3. f.body = inBody
  BY DEF FrameFits
<1> HIDE DEF t, n
<1>4. inBody' = BodyAt(t, n + 1)
  BY <1>1, <1>3 DEF BodyAt
<1>5. pending' > 0 => inBody'
  BY <1>2
<1>6. ASSUME ret' PROVE SetBelow(t, n + 1)
  <2>1. CASE f.kind \in Setters
    BY <1>1, <2>1 DEF SetBelow
  <2>2. CASE f.kind \notin Setters
    <3>1. SetBelow(t, n)
      BY <1>1, <1>2, <1>6, <2>2, SetterStays
    <3>2. QED BY <1>1, <3>1 DEF SetBelow
  <2>3. QED BY <2>1, <2>2
<1>7. Holds(t, n + 1, ret')
  <2> SUFFICES ASSUME NEW i \in 1 .. n + 1, t[i].kind \in Setters, ~t[i].disturbed,
                      \A j \in i + 1 .. n + 1 : t[j].kind \notin Setters
               PROVE  ret' = t[i].value
    BY DEF Holds
  <2>1. CASE f.kind \in Setters
    <3>1. i = n + 1
      BY <1>1, <2>1
    <3>2. QED BY <1>1, <2>1, <3>1
  <2>2. CASE f.kind \notin Setters
    <3>1. i \in 1 .. n /\ \A j \in i + 1 .. n : t[j].kind \notin Setters
      BY <1>1, <2>2
    <3>2. Holds(t, n, ret)
      BY <1>1, <1>2, HoldsStays
    <3>3. QED BY <2>2, <3>1, <3>2 DEF Holds
  <2>3. QED BY <2>1, <2>2
<1>8. Len(stack') = n + 1
  BY <1>1 DEF t
<1>9. QED BY <1>4, <1>5, <1>6, <1>7, <1>8 DEF Fields, t

\* Below the innermost frame the fields are what that frame has recorded.
LEMMA FieldsBelow ==
  ASSUME StackOK, FramesOK, Fields, stack # << >>
  PROVE  LET n == Len(stack) IN
           /\ n \in Nat /\ n > 0 /\ Top = stack[n] /\ FrameOK(stack, n)
           /\ Top.body = BodyAt(stack, n - 1)
           /\ Top.kind \notin Bodies => inBody = BodyAt(stack, n - 1)
           /\ Top.place = "lifted" => Top.body
           /\ Top.kind \in {"main", "method"} => n = 1
           /\ Top.kind \notin Setters /\ ret => SetBelow(stack, n - 1)
           /\ Top.kind \notin Setters => Holds(stack, n - 1, ret)
           /\ Top.kind = "lambda" => Holds(stack, n - 1, Top.ret) /\ (Top.ret => SetBelow(stack, n - 1))
<1> DEFINE n == Len(stack)
<1>1. stack \in Seq(Frames) /\ n \in Nat /\ n > 0 /\ Top = stack[n]
  BY RestCloses DEF Closing, Top, StackOK
<1>2. FrameOK(stack, n)
  BY <1>1 DEF FramesOK
<1>3. stack[n] \in Frames
  BY <1>1, Basics
<1>4. Top.kind \notin Bodies => inBody = BodyAt(stack, n - 1)
  BY <1>1, <1>2 DEF Fields, BodyAt, FrameOK
<1>5. Top.kind \notin Setters /\ ret => SetBelow(stack, n - 1)
  BY <1>1 DEF Fields, SetBelow
<1>6. ASSUME Top.kind \notin Setters PROVE Holds(stack, n - 1, ret)
  <2>1. Holds(stack, n, ret)
    BY DEF Fields
  <2> HIDE DEF n
  <2>2. SUFFICES ASSUME NEW i \in 1 .. n - 1, stack[i].kind \in Setters, ~stack[i].disturbed,
                        \A j \in i + 1 .. n - 1 : stack[j].kind \notin Setters
                 PROVE  ret = stack[i].value
    BY DEF Holds
  <2>3. i \in 1 .. n /\ \A j \in i + 1 .. n : stack[j].kind \notin Setters
    BY <1>1, <1>6, <2>2
  <2>4. QED BY <2>1, <2>2, <2>3 DEF Holds
<1>7. /\ Top.body = BodyAt(stack, n - 1)
      /\ Top.place = "lifted" => Top.body
      /\ Top.kind \in {"main", "method"} => n = 1
      /\ Top.kind = "lambda" => Holds(stack, n - 1, Top.ret) /\ (Top.ret => SetBelow(stack, n - 1))
  BY <1>1, <1>2 DEF FrameOK
<1>8. QED BY <1>1, <1>2, <1>4, <1>5, <1>6, <1>7

LEMMA FieldsClose ==
  ASSUME NEW below, Closing(below), stack' = below,
         inBody' = BodyAt(stack, Len(stack) - 1), pending' > 0 => inBody',
         ret' => SetBelow(stack, Len(stack) - 1), Holds(below, Len(stack) - 1, ret')
  PROVE  Fields'
<1> DEFINE m == Len(stack) - 1
<1>1. Len(stack') = m /\ m \in Nat /\ Kept(stack, below, m)
  BY DEF Closing
<1> HIDE DEF m
<1>2. inBody' = BodyAt(stack', m) /\ (ret' => SetBelow(stack', m)) /\ Holds(stack', m, ret')
  BY <1>1, BodyStays, SetterStays DEF m
<1>3. QED BY <1>1, <1>2 DEF Fields

LEMMA FieldsStay ==
  ASSUME StackOK, Fields, Len(stack') = Len(stack), Kept(stack, stack', Len(stack)),
         UNCHANGED <<inBody, pending, ret>>
  PROVE  Fields'
<1>1. Len(stack) \in Nat
  BY Basics DEF StackOK
<1>2. QED BY <1>1, BodyStays, SetterStays, HoldsStays DEF Fields

-----------------------------------------------------------------------------
(* What is emitted.                                                        *)

LEMMA NothingEmitted ==
  ASSUME emitted' = Nothing
  PROVE  EmittedOK'
<1>1. emitted'.kind = "nothing" /\ emitted' \in Emissions
  BY DEF Nothing, Emissions
<1>2. QED BY <1>1 DEF EmittedOK, ReturnsPopOwn, PromotedSurvives, ValuesReturned, Returned

LEMMA LeaveEmitted ==
  ASSUME emitted' = [kind |-> "leave"]
  PROVE  EmittedOK'
<1>1. emitted'.kind = "leave" /\ emitted' \in Emissions
  BY DEF Emissions
<1>2. QED BY <1>1 DEF EmittedOK, ReturnsPopOwn, PromotedSurvives, ValuesReturned, Returned

\* The end of a function that has promoted something does not rewind.
LEMMA EndEmitted ==
  ASSUME StackOK, FlagsOK, Promised(stack, promotes), stack # << >>, Top.kind \in FunctionKinds,
         emitted' = EndOf(Top)
  PROVE  EmittedOK'
<1> DEFINE n == Len(stack)
<1>1. stack \in Seq(Frames) /\ n \in Nat /\ n > 0 /\ Top = stack[n]
  BY RestCloses DEF Closing, Top, StackOK
<1>2. stack[n] \in Frames
  BY <1>1, Basics
<1>3. Top.promoted \in BOOLEAN /\ Top.disturbed \in BOOLEAN
  BY <1>1, <1>2, FrameFields
<1>4. Top.promoted /\ ~Top.disturbed => promotes
  BY <1>1 DEF Promised
<1>5. /\ emitted'.kind = "end" /\ emitted'.promoted = Top.promoted /\ emitted'.disturbed = Top.disturbed
      /\ emitted'.rewind = RewindAtEnd(Top)
  BY DEF EndOf
<1>6. RewindAtEnd(Top) \in BOOLEAN /\ (RewindAtEnd(Top) => ~promotes)
  BY DEF RewindAtEnd
<1>7. emitted' \in Emissions
  BY <1>3, <1>6 DEF EndOf, Emissions
<1>8. emitted'.rewind => ~emitted'.promoted \/ emitted'.disturbed
  BY <1>3, <1>4, <1>5, <1>6
<1>9. QED BY <1>5, <1>7, <1>8 DEF EmittedOK, ReturnsPopOwn, PromotedSurvives, ValuesReturned, Returned

\* A statement that promotes marks the innermost function, nothing else.
LEMMA Marks ==
  ASSUME StackOK, stack' \in {stack, Marked}
  PROVE  /\ stack \in Seq(Frames) /\ stack' \in Seq(Frames) /\ Len(stack) \in Nat
         /\ Len(stack') = Len(stack) /\ Kept(stack, stack', Len(stack))
         /\ \A i \in 1 .. Len(stack) : stack'[i].disturbed = stack[i].disturbed
         /\ StackOK'
<1>1. stack \in Seq(Frames) /\ Len(stack) \in Nat /\ Len(stack) <= MaxDepth
  BY Basics DEF StackOK
<1>2. CASE stack' = stack
  <2>1. Kept(stack, stack', Len(stack))
    BY <1>2 DEF Kept
  <2>2. QED BY <1>1, <1>2, <2>1 DEF StackOK
<1>3. CASE Own # 0 /\ stack' = [stack EXCEPT ![Own].promoted = TRUE]
  <2>1. Own \in 1 .. Len(stack)
    BY <1>1, <1>3, OwnIs, InnermostIs
  <2> DEFINE t == [stack EXCEPT ![Own].promoted = TRUE]
  <2>2. /\ t \in Seq(Frames) /\ Len(t) = Len(stack) /\ Kept(stack, t, Len(stack))
        /\ \A i \in 1 .. Len(stack) : t[i].disturbed = stack[i].disturbed
    BY <1>1, <2>1, Marking
  <2>3. stack' = t
    BY <1>3
  <2> HIDE DEF t
  <2>4. QED BY <1>1, <2>2, <2>3 DEF StackOK
<1>4. QED BY <1>2, <1>3 DEF Marked

LEMMA InnermostStays ==
  ASSUME StackOK, stack' \in {stack, Marked}
  PROVE  /\ Own' = Own /\ Own \in 0 .. Len(stack)
         /\ Own > 0 => stack'[Own].kind \in FunctionKinds
         /\ \A j \in Own + 1 .. Len(stack) : stack[j].kind \notin FunctionKinds /\ stack'[j].kind \notin FunctionKinds
<1>1. /\ stack \in Seq(Frames) /\ stack' \in Seq(Frames) /\ Len(stack) \in Nat
      /\ Len(stack') = Len(stack) /\ Kept(stack, stack', Len(stack))
  BY Marks
<1>2. \A i \in 1 .. Len(stack) : stack'[i].kind = stack[i].kind
  BY <1>1 DEF Kept
<1>3. Own' = Own
  <2>1. FunctionSet(stack') = FunctionSet(stack)
    BY <1>1, <1>2 DEF FunctionSet
  <2>2. QED BY <2>1, OwnIs, OwnThenIs DEF Innermost
<1>4. /\ Own \in 0 .. Len(stack)
      /\ Own > 0 => stack[Own].kind \in FunctionKinds
      /\ \A j \in Own + 1 .. Len(stack) : stack[j].kind \notin FunctionKinds
  BY <1>1, OwnIs, InnermostIs
<1>5. Own > 0 => stack'[Own].kind \in FunctionKinds
  BY <1>1, <1>2, <1>4
<1>6. \A j \in Own + 1 .. Len(stack) : stack'[j].kind \notin FunctionKinds
  BY <1>1, <1>2, <1>4
<1>7. QED BY <1>3, <1>4, <1>5, <1>6

\* All three properties of a return, from the frames and the fields.
LEMMA ReturnEmitted ==
  ASSUME IInv, NEW promoted \in BOOLEAN,
         stack' = IF promoted THEN Marked ELSE stack,
         emitted' = [kind |-> "return", pops |-> Pops, rewind |-> RewindOnReturn(promoted), value |-> ret]
  PROVE  EmittedOK'
<1> USE DEF IInv
<1>1. stack' \in {stack, Marked}
  OBVIOUS
<1>2. /\ stack \in Seq(Frames) /\ stack' \in Seq(Frames) /\ Len(stack) \in Nat
      /\ Len(stack') = Len(stack) /\ Kept(stack, stack', Len(stack))
      /\ \A i \in 1 .. Len(stack) : stack'[i].disturbed = stack[i].disturbed
  BY <1>1, Marks
<1>3. /\ Own' = Own /\ Own \in 0 .. Len(stack)
      /\ Own > 0 => stack'[Own].kind \in FunctionKinds
      /\ \A j \in Own + 1 .. Len(stack) : stack[j].kind \notin FunctionKinds /\ stack'[j].kind \notin FunctionKinds
  BY <1>1, InnermostStays
<1>4. /\ emitted'.kind = "return" /\ emitted'.pops = kmm /\ emitted'.value = ret
      /\ emitted'.rewind = RewindOnReturn(promoted)
  BY DEF Pops
<1>5. RewindOnReturn(promoted) \in BOOLEAN /\ (RewindOnReturn(promoted) => ~promotes /\ ~promoted)
  BY DEF RewindOnReturn
<1>6. kmm = Cardinality(ScopeSet(stack, "stack")) /\ kmm \in Nat /\ kmm <= 1
  <2>1. ScopeSet(stack, "stack") \in SUBSET (1 .. Len(stack))
    BY DEF ScopeSet
  <2>2. QED BY <1>2, <2>1, Bounded DEF Counters
<1>7. emitted' \in Emissions
  <2>1. ret \in BOOLEAN
    BY DEF FlagsOK
  <2>2. kmm \in 0 .. MaxDepth
    <3>1. ScopeSet(stack, "stack") \in SUBSET (1 .. Len(stack))
      BY DEF ScopeSet
    <3>2. Cardinality(ScopeSet(stack, "stack")) <= Len(stack)
      BY <1>2, <3>1, Bounded
    <3>3. QED BY <1>2, <1>6, <3>2, Bounds DEF StackOK
  <2>3. QED BY <1>5, <2>1, <2>2 DEF Pops, Emissions
<1>8. ReturnsPopOwn'
  <2> SUFFICES ASSUME Own > 0, stack'[Own].entered = 0
               PROVE  kmm = Cardinality({i \in Own .. Len(stack') \ {0} : stack'[i].scope = "stack"})
    BY <1>3, <1>4 DEF ReturnsPopOwn, OwnFrame, OwnScopes
  <2>1. FrameOK(stack, Own) /\ stack[Own].entered = 0 /\ Own \in 1 .. Len(stack)
    BY <1>2, <1>3 DEF FramesOK, Kept
  <2>2. \A j \in 1 .. Own - 1 : stack[j].scope # "stack"
    BY <2>1 DEF FrameOK
  <2>3. \A i \in 1 .. Len(stack) : stack'[i].scope = stack[i].scope
    BY <1>2 DEF Kept
  <2>4. {i \in Own .. Len(stack') \ {0} : stack'[i].scope = "stack"} = ScopeSet(stack, "stack")
    BY <1>2, <2>1, <2>2, <2>3 DEF ScopeSet
  <2>5. QED BY <1>6, <2>4
<1>9. PromotedSurvives'
  <2> SUFFICES ASSUME emitted'.rewind, Own > 0
               PROVE  ~stack'[Own].promoted \/ stack'[Own].disturbed
    BY <1>3, <1>4 DEF PromotedSurvives, Returned, OwnFrame
  <2>1. ~promotes /\ stack' = stack
    BY <1>4, <1>5
  <2>2. Own \in 1 .. Len(stack) /\ stack[Own].kind \in FunctionKinds
    BY <1>2, <1>3, <2>1
  <2>3. \A j \in Own + 1 .. Len(stack) : stack[j].kind \notin Bodies
    BY <1>3 DEF FunctionKinds, Bodies
  <2>4. QED BY <2>1, <2>2, <2>3 DEF Promised
<1>10. ValuesReturned'
  <2> SUFFICES ASSUME Own > 0, stack'[Own].kind # "prefix", ~stack'[Own].disturbed
               PROVE  ret = stack'[Own].value
    BY <1>3, <1>4 DEF ValuesReturned, Returned, OwnFrame
  <2>1. Own \in 1 .. Len(stack)
    BY <1>2, <1>3
  <2>2. stack[Own].kind = stack'[Own].kind /\ stack[Own].value = stack'[Own].value /\ ~stack[Own].disturbed
    BY <1>2, <2>1 DEF Kept
  <2>3. stack[Own].kind \in Setters
    BY <1>3, <2>2 DEF Setters
  <2>4. \A j \in Own + 1 .. Len(stack) : stack[j].kind \notin Setters
    BY <1>3 DEF Setters
  <2>5. Holds(stack, Len(stack), ret)
    BY DEF Fields
  <2>6. QED BY <2>1, <2>2, <2>3, <2>4, <2>5 DEF Holds
<1>11. QED BY <1>7, <1>8, <1>9, <1>10 DEF EmittedOK

-----------------------------------------------------------------------------
(* Every step keeps the invariant.                                         *)

LEMMA FrameMade ==
  ASSUME IInv, NEW kind \in FunctionKinds \cup BlockKinds, NEW scope \in Scopes, NEW tables \in 0 .. 2,
         NEW value \in BOOLEAN, NEW place \in Places,
         place = "lifted" => inBody,
         kind \in {"main", "method"} => stack = << >>
  PROVE  LET f == Frame(kind, scope, tables, value, place) IN
           /\ FrameFits(f) /\ f \in Frames /\ f.kind = kind /\ f.scope = scope /\ f.value = value
           /\ f.place = place
<1>1. ScopeSet(stack, "stack") \in SUBSET (1 .. Len(stack)) /\ Len(stack) \in Nat /\ Len(stack) <= MaxDepth
  BY Basics DEF ScopeSet, IInv, StackOK
<1>2. Cardinality(ScopeSet(stack, "stack")) \in Nat /\ Cardinality(ScopeSet(stack, "stack")) <= Len(stack)
  BY <1>1, Bounded
<1>3. kmm \in 0 .. MaxDepth
  BY <1>1, <1>2, Bounds DEF IInv, Counters
<1>4. inBody \in BOOLEAN /\ ret \in BOOLEAN
  BY DEF IInv, FlagsOK
<1>5. Frame(kind, scope, tables, value, place) \in Frames
  BY <1>3, <1>4 DEF Frame, Frames
<1>6. QED BY <1>5 DEF Frame, FrameFits

LEMMA OpenIInv ==
  ASSUME IInv, NEW kind \in FunctionKinds \cup BlockKinds, NEW scope \in Scopes, NEW tables \in 0 .. 2,
         NEW value \in BOOLEAN, NEW place \in Places,
         place = "lifted" => inBody /\ MayWait,
         scope = "stack" => MayPush,
         kind \in {"main", "method"} => stack = << >>,
         Open(Frame(kind, scope, tables, value, place)),
         pending' = pending, checkpoint' = checkpoint, instantiated' = instantiated,
         promotes' \in BOOLEAN, ret' \in BOOLEAN, inBody' \in BOOLEAN,
         promotes' = promotes \/ kind \in Bodies \/ stack = << >>,
         inBody' = (inBody \/ kind \in Bodies),
         \/ kind \in Setters /\ ret' = value
         \/ kind \notin Setters /\ ret' = ret
  PROVE  IInv'
<1> DEFINE f == Frame(kind, scope, tables, value, place)
<1>1. /\ FrameFits(f) /\ f \in Frames /\ f.kind = kind /\ f.scope = scope /\ f.value = value
      /\ f.place = place
  BY FrameMade
<1>2. Open(f) /\ StackOK /\ FlagsOK /\ Counters /\ FramesOK /\ Fields /\ Promised(stack, promotes)
  BY DEF IInv
<1>3. emitted' = Nothing
  BY DEF Open
<1>4. pending \in Nat
  BY <1>2 DEF FlagsOK
<1> HIDE DEF f
<1>5. StackOK'
  BY <1>1, <1>2, Opened
<1>6. FlagsOK'
  BY <1>2 DEF FlagsOK
<1>7. Counters'
  BY <1>1, <1>2, <1>4, CountersOpen
<1>8. FramesOK'
  BY <1>1, <1>2, FramesOpen
<1>9. Fields'
  BY <1>1, <1>2, FieldsOpen
<1>10. Promised(stack', promotes')
  BY <1>1, <1>2, PromisedOpen
<1>11. EmittedOK'
  BY <1>3, NothingEmitted
<1>12. QED BY <1>5, <1>6, <1>7, <1>8, <1>9, <1>10, <1>11 DEF IInv

LEMMA PlaceFits ==
  /\ Place \in Places
  /\ Place = "lifted" => inBody
BY DEF Place, Places

LEMMA ScopesAre ==
  /\ \A scope \in FunctionScopes \cup MainScopes \cup BodyScopes : scope \in Scopes /\ (scope = "stack" => MayPush)
  /\ \A scope \in BlockScopes : scope \in Scopes /\ scope # "stack"
BY DEF FunctionScopes, MainScopes, BodyScopes, OffsetScopes, BlockScopes, Scopes

LEMMA KindsAre ==
  /\ Bodies \subseteq Setters /\ Setters \subseteq FunctionKinds
  /\ \A kind \in BlockKinds : kind \notin FunctionKinds
BY DEF Bodies, Setters, FunctionKinds, BlockKinds

LEMMA BodyOfIInv ==
  ASSUME IInv, NEW kind \in Bodies, NEW scope \in Scopes, NEW value \in BOOLEAN, NEW place \in Places,
         place = "lifted" => inBody /\ MayWait, scope = "stack" => MayPush,
         BodyOf(kind, scope, value, place)
  PROVE  IInv'
<1>1. kind \in Setters /\ kind \in FunctionKinds /\ kind \notin {"main", "method"}
  BY KindsAre DEF Bodies
<1>2. /\ Open(Frame(kind, scope, 1, value, place)) /\ ret' = value /\ inBody' = TRUE
      /\ pending' = pending /\ checkpoint' = checkpoint /\ instantiated' = instantiated
  BY DEF BodyOf
<1>3. promotes' \in BOOLEAN
  BY DEF BodyOf
<1>4. ret' \in BOOLEAN /\ inBody' \in BOOLEAN /\ inBody' = (inBody \/ kind \in Bodies)
  BY <1>2
<1>5. 1 \in 0 .. 2
  OBVIOUS
<1>6. QED BY <1>1, <1>2, <1>3, <1>4, <1>5, OpenIInv

LEMMA FunctionIInv == ASSUME IInv, Function PROVE IInv'
<1>1. PICK value \in BOOLEAN :
        \/ \E scope \in FunctionScopes : BodyOf("function", scope, value, Place)
        \/ BodyOf("bare", "none", value, Place)
  BY DEF Function
<1>2. MayWait
  BY DEF Function
<1>3. "function" \in Bodies /\ "bare" \in Bodies /\ "none" \in Scopes
  BY DEF Bodies, Scopes
<1>4. CASE \E scope \in FunctionScopes : BodyOf("function", scope, value, Place)
  <2>1. PICK scope \in FunctionScopes : BodyOf("function", scope, value, Place)
    BY <1>4
  <2>2. scope \in Scopes /\ (scope = "stack" => MayPush)
    BY ScopesAre
  <2>3. QED BY <1>2, <1>3, <2>1, <2>2, PlaceFits, BodyOfIInv
<1>5. CASE BodyOf("bare", "none", value, Place)
  BY <1>2, <1>3, <1>5, PlaceFits, BodyOfIInv
<1>6. QED BY <1>1, <1>4, <1>5

LEMMA InstanceIInv == ASSUME IInv, Instance PROVE IInv'
<1>1. PICK value \in BOOLEAN :
        \/ \E scope \in FunctionScopes : BodyOf("function", scope, value, "instance")
        \/ BodyOf("bare", "none", value, "instance")
  BY DEF Instance
<1>2. "function" \in Bodies /\ "bare" \in Bodies /\ "none" \in Scopes /\ "instance" \in Places
  BY DEF Bodies, Scopes, Places
<1>3. CASE \E scope \in FunctionScopes : BodyOf("function", scope, value, "instance")
  <2>1. PICK scope \in FunctionScopes : BodyOf("function", scope, value, "instance")
    BY <1>3
  <2>2. scope \in Scopes /\ (scope = "stack" => MayPush)
    BY ScopesAre
  <2>3. QED BY <1>2, <2>1, <2>2, BodyOfIInv
<1>4. CASE BodyOf("bare", "none", value, "instance")
  BY <1>2, <1>4, BodyOfIInv
<1>5. QED BY <1>1, <1>3, <1>4

\* Functions outside the statements, and lambdas: they set the return type.
LEMMA SetterIInv ==
  ASSUME IInv, NEW kind \in {"main", "method", "lambda"}, NEW scope \in Scopes, NEW tables \in 0 .. 2,
         NEW value \in BOOLEAN,
         kind # "lambda" => stack = << >>, scope = "stack" => MayPush,
         Open(Frame(kind, scope, tables, value, "file")), ret' = value,
         promotes' = promotes \/ (stack = << >> /\ promotes' = FALSE),
         UNCHANGED <<checkpoint, inBody, pending, instantiated>>
  PROVE  IInv'
<1>1. kind \in FunctionKinds \cup BlockKinds /\ kind \in Setters /\ kind \notin Bodies /\ "file" \in Places
  BY DEF FunctionKinds, Setters, Bodies, Places
<1>2. promotes \in BOOLEAN /\ inBody \in BOOLEAN
  BY DEF IInv, FlagsOK
<1>3. promotes' \in BOOLEAN /\ inBody' \in BOOLEAN /\ ret' \in BOOLEAN
  BY <1>2
<1>4. inBody' = (inBody \/ kind \in Bodies)
  BY <1>1, <1>2
<1>5. QED BY <1>1, <1>3, <1>4, OpenIInv

LEMMA MainIInv == ASSUME IInv, Main PROVE IInv'
<1>1. PICK scope \in MainScopes : Open(Frame("main", scope, 1, TRUE, "file"))
  BY DEF Main
<1>2. scope \in Scopes /\ (scope = "stack" => MayPush) /\ 1 \in 0 .. 2
  BY ScopesAre
<1>3. QED BY <1>1, <1>2, SetterIInv DEF Main

LEMMA MethodIInv == ASSUME IInv, Method \/ Constructor PROVE IInv'
<1>1. "none" \in Scopes /\ "none" # "stack" /\ 1 \in 0 .. 2 /\ 2 \in 0 .. 2
  BY DEF Scopes
<1>2. CASE Method
  BY <1>1, <1>2, SetterIInv DEF Method
<1>3. CASE Constructor
  BY <1>1, <1>3, SetterIInv DEF Constructor
<1>4. QED BY <1>2, <1>3

LEMMA LambdaIInv == ASSUME IInv, Lambda PROVE IInv'
<1>1. "none" \in Scopes /\ "none" # "stack" /\ 1 \in 0 .. 2
  BY DEF Scopes
<1>2. QED BY <1>1, SetterIInv DEF Lambda

\* Constructs that set no field.
LEMMA PlainIInv ==
  ASSUME IInv, NEW kind \in {"prefix"} \cup BlockKinds, NEW scope \in Scopes, NEW tables \in 0 .. 2,
         NEW value \in BOOLEAN, NEW place \in Places,
         place = "lifted" => inBody /\ MayWait, scope = "stack" => MayPush,
         Open(Frame(kind, scope, tables, value, place)),
         UNCHANGED <<promotes, checkpoint, ret, inBody, pending, instantiated>>
  PROVE  IInv'
<1>1. /\ kind \in FunctionKinds \cup BlockKinds /\ kind \notin Setters /\ kind \notin Bodies
      /\ kind \notin {"main", "method"}
  BY DEF FunctionKinds, BlockKinds, Setters, Bodies
<1>2. promotes \in BOOLEAN /\ inBody \in BOOLEAN /\ ret \in BOOLEAN
  BY DEF IInv, FlagsOK
<1>3. inBody' = (inBody \/ kind \in Bodies)
  BY <1>1, <1>2
<1>4. promotes' \in BOOLEAN /\ inBody' \in BOOLEAN /\ ret' \in BOOLEAN
  BY <1>2
<1>5. QED BY <1>1, <1>3, <1>4, OpenIInv

LEMMA PrefixIInv == ASSUME IInv, Prefix PROVE IInv'
<1>1. "none" \in Scopes /\ "none" # "stack" /\ 1 \in 0 .. 2
  BY DEF Scopes
<1>2. QED BY <1>1, PlaceFits, PlainIInv DEF Prefix

LEMMA BlockIInv ==
  ASSUME IInv, NEW kind \in BlockKinds, NEW scopes, NEW tables \in 0 .. 2, Block(kind, scopes, tables),
         \A scope \in scopes : scope \in Scopes /\ (scope = "stack" => MayPush)
  PROVE  IInv'
<1>1. PICK scope \in scopes : Open(Frame(kind, scope, tables, FALSE, "inline"))
  BY DEF Block
<1>2. "inline" \in Places /\ "inline" # "lifted"
  BY DEF Places
<1>3. QED BY <1>1, <1>2, PlainIInv DEF Block

Opens ==
  \/ Then \/ Else \/ While \/ ForIn \/ ArmBlock
  \/ MatchStatement \/ MatchExpression \/ StringMatch
  \/ SpendEnum \/ SpendArray \/ PrefixCall \/ Tree

LEMMA OpensIInv == ASSUME IInv, Opens PROVE IInv'
<1>1. PICK kind \in BlockKinds, tables \in 0 .. 2, scopes \in {BodyScopes, BlockScopes, {"none"}} :
        Block(kind, scopes, tables)
  <2>1. 0 \in 0 .. 2 /\ 1 \in 0 .. 2
    OBVIOUS
  <2>2. {"branch", "loop", "block", "switch", "arms", "braces"} \subseteq BlockKinds
    BY DEF BlockKinds
  <2>3. CASE Then \/ Else \/ While \/ ForIn
    BY <2>1, <2>2, <2>3 DEF Then, Else, While, ForIn
  <2>4. CASE ArmBlock
    BY <2>1, <2>2, <2>4 DEF ArmBlock
  <2>5. CASE MatchStatement \/ MatchExpression \/ StringMatch
    BY <2>1, <2>2, <2>5 DEF MatchStatement, MatchExpression, StringMatch
  <2>6. CASE SpendEnum \/ SpendArray \/ PrefixCall \/ Tree
    BY <2>1, <2>2, <2>6 DEF SpendEnum, SpendArray, PrefixCall, Tree
  <2>7. QED BY <2>3, <2>4, <2>5, <2>6 DEF Opens
<1>2. \A scope \in scopes : scope \in Scopes /\ (scope = "stack" => MayPush)
  <2>1. "none" \in Scopes
    BY DEF Scopes
  <2>2. QED BY <2>1, ScopesAre
<1>3. QED BY <1>1, <1>2, BlockIInv

\* A construct that closes, from what it does to the fields.
LEMMA CloseIInv ==
  ASSUME IInv, NEW below, Closing(below), Close(below), FlagsOK',
         \/ Top.place # "lifted" /\ pending' <= pending
         \/ Top.place = "lifted" /\ pending' <= pending + 1,
         inBody' = BodyAt(stack, Len(stack) - 1), pending' > 0 => inBody',
         ret' => SetBelow(stack, Len(stack) - 1), Holds(below, Len(stack) - 1, ret'),
         Promised(stack', promotes'), EmittedOK'
  PROVE  IInv'
<1>1. /\ StackOK /\ FlagsOK /\ Counters /\ FramesOK /\ Fields
      /\ Len(below) = Len(stack) - 1 /\ Len(stack) \in Nat /\ Len(stack) > 0
      /\ below \in Seq(Frames) /\ Kept(stack, below, Len(below)) /\ stack' = below
  BY DEF IInv, Closing, Close
<1>2. StackOK'
  BY <1>1, Bounds DEF StackOK
<1>3. Counters'
  BY <1>1, CountersClose DEF FlagsOK
<1>4. FramesOK'
  BY <1>1, FramesStay
<1>5. Fields'
  BY <1>1, FieldsClose
<1>6. QED BY <1>2, <1>3, <1>4, <1>5 DEF IInv

LEMMA EndFunctionIInv == ASSUME IInv, EndFunction PROVE IInv'
<1> DEFINE below == Disturb(Rest)
           n == Len(stack)
<1>1. stack # << >> /\ Top.kind \in Bodies /\ Close(below) /\ inBody' = Top.body /\ ret' = FALSE
  BY DEF EndFunction, Bodies
<1>2. StackOK /\ FlagsOK /\ FramesOK /\ Fields /\ Promised(stack, promotes)
  BY DEF IInv
<1>3. /\ Closing(below)
      /\ \A i \in 1 .. Len(below) : stack[i].kind \in FunctionKinds => below[i].disturbed
  BY <1>1, <1>2, DisturbedCloses
<1>4. /\ Top.body = BodyAt(stack, n - 1)
      /\ Top.place = "lifted" => Top.body
      /\ Top = stack[n] /\ n \in Nat /\ n > 0
  BY <1>1, <1>2, FieldsBelow
<1>5. stack' = below
  BY <1>1 DEF Close
<1>6. Top.kind \in FunctionKinds
  BY <1>1, KindsAre
<1>7. Promised(stack', promotes')
  BY <1>1, <1>2, <1>5, PromisedDisturbed
<1>8. EmittedOK'
  BY <1>1, <1>2, <1>6, EndEmitted DEF EndFunction
<1>9. stack[n] \in Frames
  BY <1>2, <1>4, Basics DEF StackOK
<1> HIDE DEF below, n
<1>10. Holds(below, n - 1, ret')
  <2>1. \A i \in 1 .. n - 1 : below[i].kind = stack[i].kind
    BY <1>3 DEF Closing, Kept, n
  <2>2. n - 1 = Len(below)
    BY <1>3 DEF Closing, n
  <2>3. ASSUME NEW i \in 1 .. n - 1, below[i].kind \in Setters PROVE below[i].disturbed
    BY <1>3, <2>1, <2>2, <2>3, KindsAre
  <2>4. QED BY <2>3 DEF Holds
<1>11. /\ pending' \in Nat
       /\ pending' > 0 => inBody'
       /\ \/ Top.place # "lifted" /\ pending' <= pending
          \/ Top.place = "lifted" /\ pending' <= pending + 1
  <2>1. pending' = IF Top.place = "lifted" THEN 1 ELSE 0
    BY DEF EndFunction, Flushed
  <2>2. pending \in Nat
    BY <1>2 DEF FlagsOK
  <2>3. CASE Top.place = "lifted"
    BY <1>1, <1>4, <2>1, <2>2, <2>3
  <2>4. CASE Top.place # "lifted"
    BY <2>1, <2>2, <2>4
  <2>5. QED BY <2>3, <2>4
<1>12. FlagsOK'
  <2>1. Top.body \in BOOLEAN
    BY <1>4, <1>9, FrameFields
  <2>2. promotes' = promotes /\ checkpoint' \in BOOLEAN /\ instantiated' \in BOOLEAN
    BY <1>2 DEF EndFunction, FlagsOK
  <2>3. QED BY <1>1, <1>2, <1>11, <2>1, <2>2 DEF FlagsOK
<1>13. ~ret' /\ inBody' = BodyAt(stack, n - 1)
  BY <1>1, <1>4
<1>14. QED BY <1>1, <1>3, <1>7, <1>8, <1>10, <1>11, <1>12, <1>13, CloseIInv DEF n

\* The others leave what is below as it is.
LEMMA EndIInv ==
  ASSUME IInv, stack # << >>, Close(Rest), Top.kind \notin Bodies,
         checkpoint' \in BOOLEAN, UNCHANGED <<promotes, inBody, instantiated>>,
         \/ Top.kind \notin Setters /\ ret' = ret
         \/ Top.kind = "lambda" /\ ret' = Top.ret
         \/ Top.kind \in {"main", "method"} /\ ret' = FALSE,
         \/ pending' = pending
         \/ Top.place = "lifted" /\ pending' = pending + 1,
         EmittedOK'
  PROVE  IInv'
<1> DEFINE n == Len(stack)
<1>1. StackOK /\ FlagsOK /\ FramesOK /\ Fields /\ Promised(stack, promotes)
  BY DEF IInv
<1>2. Closing(Rest) /\ stack' = Rest
  BY <1>1, RestCloses DEF Close
<1>3. /\ Top = stack[n] /\ n \in Nat /\ n > 0
      /\ inBody = BodyAt(stack, n - 1) /\ Top.body = BodyAt(stack, n - 1)
      /\ Top.place = "lifted" => Top.body
      /\ Top.kind \in {"main", "method"} => n = 1
      /\ Top.kind \notin Setters /\ ret => SetBelow(stack, n - 1)
      /\ Top.kind \notin Setters => Holds(stack, n - 1, ret)
      /\ Top.kind = "lambda" => Holds(stack, n - 1, Top.ret) /\ (Top.ret => SetBelow(stack, n - 1))
  BY <1>1, FieldsBelow
<1>4. Promised(stack', promotes')
  BY <1>1, <1>2, PromisedRest
<1>5. Kept(stack, Rest, n - 1) /\ n - 1 \in Nat
  BY <1>2 DEF Closing
<1>6. stack[n] \in Frames
  BY <1>1, <1>3, Basics DEF StackOK
<1> HIDE DEF n
<1>7. (ret' => SetBelow(stack, n - 1)) /\ Holds(stack, n - 1, ret') /\ ret' \in BOOLEAN
  <2>1. CASE Top.kind \notin Setters /\ ret' = ret
    BY <1>1, <1>3, <2>1 DEF FlagsOK
  <2>2. CASE Top.kind = "lambda" /\ ret' = Top.ret
    BY <1>3, <1>6, <2>2, FrameFields
  <2>3. CASE Top.kind \in {"main", "method"} /\ ret' = FALSE
    <3>1. n - 1 = 0
      BY <1>3, <2>3
    <3>2. Holds(stack, 0, ret')
      BY DEF Holds
    <3>3. ret' = FALSE
      BY <2>3
    <3>4. QED BY <3>1, <3>2, <3>3
  <2>4. QED BY <2>1, <2>2, <2>3
<1>8. Holds(Rest, n - 1, ret')
  BY <1>5, <1>7, HoldsStays
<1>9. pending \in Nat
  BY <1>1 DEF FlagsOK
<1>10. /\ pending' > 0 => inBody'
       /\ pending' \in Nat
  <2>1. pending > 0 => inBody
    BY <1>1 DEF Fields
  <2>2. Top.place = "lifted" => inBody
    BY <1>3
  <2>3. QED BY <1>9, <2>1, <2>2
<1>11. FlagsOK'
  BY <1>1, <1>7, <1>10 DEF FlagsOK
<1>12. \/ Top.place # "lifted" /\ pending' <= pending
       \/ Top.place = "lifted" /\ pending' <= pending + 1
  BY <1>9
<1>13. inBody' = BodyAt(stack, n - 1)
  BY <1>3
<1>14. QED BY <1>2, <1>4, <1>7, <1>8, <1>10, <1>11, <1>12, <1>13, CloseIInv DEF n

Ends == EndMain \/ EndPrefix \/ EndMethod \/ EndLambda \/ EndBlock

LEMMA EndsIInv == ASSUME IInv, Ends PROVE IInv'
<1>1. checkpoint \in BOOLEAN
  BY DEF IInv, FlagsOK
<1>2. CASE EndMain
  <2>1. EmittedOK'
    BY <1>2, EndEmitted DEF EndMain, IInv, FunctionKinds
  <2>2. Top.kind \notin Bodies
    BY <1>2 DEF EndMain, Bodies
  <2>3. QED BY <1>2, <2>1, <2>2, EndIInv DEF EndMain
<1>3. CASE EndPrefix
  <2>1. EmittedOK'
    BY <1>3, NothingEmitted DEF EndPrefix
  <2>2. Top.kind \notin Bodies /\ Top.kind \notin Setters
    BY <1>3 DEF EndPrefix, Bodies, Setters
  <2>3. QED BY <1>1, <1>3, <2>1, <2>2, EndIInv DEF EndPrefix
<1>4. CASE EndMethod
  <2>1. EmittedOK'
    BY <1>4, NothingEmitted DEF EndMethod
  <2>2. Top.kind \notin Bodies
    BY <1>4 DEF EndMethod, Bodies
  <2>3. QED BY <1>1, <1>4, <2>1, <2>2, EndIInv DEF EndMethod
<1>5. CASE EndLambda
  <2>1. EmittedOK'
    BY <1>5, NothingEmitted DEF EndLambda
  <2>2. Top.kind \notin Bodies
    BY <1>5 DEF EndLambda, Bodies
  <2>3. QED BY <1>1, <1>5, <2>1, <2>2, EndIInv DEF EndLambda, AfterLambda
<1>6. CASE EndBlock
  <2>1. EmittedOK'
    BY <1>6, NothingEmitted DEF EndBlock
  <2>2. Top.kind \notin Bodies /\ Top.kind \notin Setters
    BY <1>6, KindsAre DEF EndBlock
  <2>3. QED BY <1>1, <1>6, <2>1, <2>2, EndIInv DEF EndBlock
<1>7. QED BY <1>2, <1>3, <1>4, <1>5, <1>6 DEF Ends

\* A statement that promotes, or returns, changes no counter and no field.
LEMMA MarkIInv ==
  ASSUME IInv, stack' \in {stack, Marked}, promotes' \in BOOLEAN,
         promotes' \/ (stack' = stack /\ promotes' = promotes), EmittedOK',
         UNCHANGED <<kmm, offset, depth, checkpoint, ret, inBody, pending, instantiated>>
  PROVE  IInv'
<1>1. StackOK /\ FlagsOK /\ Counters /\ FramesOK /\ Fields /\ Promised(stack, promotes)
  BY DEF IInv
<1>2. /\ stack' \in Seq(Frames) /\ Len(stack) \in Nat
      /\ Len(stack') = Len(stack) /\ Kept(stack, stack', Len(stack)) /\ StackOK'
  BY <1>1, Marks
<1>3. FlagsOK'
  BY <1>1 DEF FlagsOK
<1>4. Counters'
  BY <1>1, <1>2, CountersStay
<1>5. FramesOK'
  BY <1>1, <1>2, FramesStay
<1>6. Fields'
  BY <1>1, <1>2, FieldsStay
<1>7. Promised(stack', promotes')
  <2>1. CASE promotes'
    BY <2>1 DEF Promised
  <2>2. CASE stack' = stack /\ promotes' = promotes
    BY <1>1, <2>2
  <2>3. QED BY <2>1, <2>2
<1>8. QED BY <1>2, <1>3, <1>4, <1>5, <1>6, <1>7 DEF IInv

Moves == Yield \/ Extract \/ PassOwned \/ Return \/ LeaveLoop

LEMMA MovesIInv == ASSUME IInv, Moves PROVE IInv'
<1>1. CASE Promote
  BY <1>1, NothingEmitted, MarkIInv DEF Promote
<1>2. CASE Return
  <2>1. PICK promoted \in BOOLEAN :
          /\ promotes' = (promotes \/ promoted)
          /\ stack' = IF promoted THEN Marked ELSE stack
          /\ emitted' = [kind |-> "return", pops |-> Pops, rewind |-> RewindOnReturn(promoted), value |-> ret]
    BY <1>2 DEF Return
  <2>2. EmittedOK'
    BY <2>1, ReturnEmitted
  <2>3. promotes \in BOOLEAN /\ promotes' \in BOOLEAN
    BY <2>1 DEF IInv, FlagsOK
  <2>4. stack' \in {stack, Marked}
    BY <2>1
  <2>5. promotes' \/ (stack' = stack /\ promotes' = promotes)
    BY <2>1, <2>3
  <2>6. QED BY <1>2, <2>2, <2>3, <2>4, <2>5, MarkIInv DEF Return
<1>3. CASE LeaveLoop
  <2>1. EmittedOK'
    BY <1>3, LeaveEmitted DEF LeaveLoop
  <2>2. promotes \in BOOLEAN
    BY DEF IInv, FlagsOK
  <2>3. QED BY <1>3, <2>1, <2>2, MarkIInv DEF LeaveLoop
<1>4. QED BY <1>1, <1>2, <1>3 DEF Moves, Yield, Extract, PassOwned

LEMMA StutterIInv == ASSUME IInv, UNCHANGED vars PROVE IInv'
<1>1. EmittedOK'
  BY DEF IInv, EmittedOK, ReturnsPopOwn, PromotedSurvives, ValuesReturned, Returned, OwnFrame, OwnScopes,
         Own, Indices, vars
<1>2. promotes \in BOOLEAN
  BY DEF IInv, FlagsOK
<1>3. QED BY <1>1, <1>2, MarkIInv DEF vars

LEMMA NextIInv == ASSUME IInv, [Next]_vars PROVE IInv'
<1>1. Next => \/ Function \/ Instance \/ Main \/ Prefix \/ (Method \/ Constructor) \/ Lambda
              \/ Opens \/ EndFunction \/ Ends \/ Moves
  BY DEF Next, Opens, Ends, Moves
<1>2. QED
  BY <1>1, FunctionIInv, InstanceIInv, MainIInv, PrefixIInv, MethodIInv, LambdaIInv, OpensIInv,
     EndFunctionIInv, EndsIInv, MovesIInv, StutterIInv

LEMMA InitIInv == ASSUME Init PROVE IInv
<1>1. stack = << >> /\ Len(stack) = 0 /\ stack \in Seq(Frames)
  BY EmptySeq DEF Init
<1>2. StackOK
  BY <1>1, Bounds DEF StackOK
<1>3. Counters
  <2>1. /\ ScopeSet(stack, "stack") = {} /\ ScopeSet(stack, "offset") = {}
        /\ TableSet(stack) = {} /\ DoubleSet(stack) = {} /\ LiftedSet(stack) = {}
    BY <1>1 DEF ScopeSet, TableSet, DoubleSet, LiftedSet
  <2>2. Cardinality({}) = 0
    BY FS_EmptySet
  <2>3. kmm = 0 /\ offset = 0 /\ depth = 0 /\ pending = 0
    BY DEF Init
  <2>4. 0 <= 1 /\ 0 + 0 = 0 /\ 0 <= MaxPending
    BY Bounds
  <2>5. QED BY <2>1, <2>2, <2>3, <2>4 DEF Counters
<1>4. FramesOK /\ Promised(stack, promotes)
  BY <1>1 DEF FramesOK, Promised
<1>5. Fields
  <2>1. BodyAt(stack, 0) = FALSE /\ Holds(stack, 0, ret)
    BY DEF BodyAt, Holds
  <2>2. inBody = FALSE /\ ret = FALSE /\ ~(pending > 0)
    BY DEF Init
  <2>3. QED BY <1>1, <2>1, <2>2 DEF Fields
<1>6. EmittedOK
  <2>1. emitted.kind = "nothing" /\ emitted \in Emissions
    BY DEF Init, Nothing, Emissions
  <2>2. QED BY <2>1 DEF EmittedOK, ReturnsPopOwn, PromotedSurvives, ValuesReturned, Returned
<1>7. FlagsOK
  BY DEF Init, FlagsOK
<1>8. QED BY <1>2, <1>3, <1>4, <1>5, <1>6, <1>7 DEF IInv

THEOREM Invariance == Spec => []IInv
<1>1. Init => IInv
  BY InitIInv
<1>2. IInv /\ [Next]_vars => IInv'
  BY NextIInv
<1>3. QED BY <1>1, <1>2, PTL DEF Spec

-----------------------------------------------------------------------------
(* The theorems.                                                           *)

LEMMA EmptyFields ==
  ASSUME IInv, stack = << >>
  PROVE  ~ret /\ ~inBody /\ pending = 0
<1>1. Len(stack) = 0
  OBVIOUS
<1>2. /\ inBody = BodyAt(stack, 0)
      /\ pending > 0 => inBody
      /\ ret => SetBelow(stack, 0)
  BY <1>1 DEF IInv, Fields
<1>3. ~inBody /\ ~ret
  <2>1. ~BodyAt(stack, 0) /\ ~SetBelow(stack, 0)
    BY DEF BodyAt, SetBelow
  <2>2. QED BY <1>2, <2>1
<1>4. pending \in Nat
  BY DEF IInv, FlagsOK
<1>5. QED BY <1>2, <1>3, <1>4

LEMMA CountersAre ==
  CountersMatch <=>
    /\ kmm = Cardinality(ScopeSet(stack, "stack")) /\ kmm <= 1
    /\ offset = Cardinality(ScopeSet(stack, "offset"))
    /\ depth = Cardinality(TableSet(stack)) + Cardinality(DoubleSet(stack))
    /\ stack = << >> => ~ret /\ ~inBody /\ pending = 0
BY DEF CountersMatch, Indices, ScopeSet, TableSet, DoubleSet

\* The variables have their types, for any bounds: the counters never leave the
\* range that the number of open constructs gives them, and no more nested
\* functions wait than the queue was given room for.
THEOREM GeneratorTypeOK == Spec => []TypeOK
<1>1. ASSUME IInv PROVE TypeOK
  <2>1. /\ stack \in Seq(Frames) /\ Len(stack) <= MaxDepth /\ Len(stack) \in Nat
    BY <1>1, Basics DEF IInv, StackOK
  <2>2. /\ \A k \in Scopes : ScopeSet(stack, k) \in SUBSET (1 .. Len(stack))
        /\ TableSet(stack) \in SUBSET (1 .. Len(stack)) /\ DoubleSet(stack) \in SUBSET (1 .. Len(stack))
        /\ LiftedSet(stack) \in SUBSET (1 .. Len(stack))
    BY <2>1, SetsBounded
  <2>3. ASSUME NEW T \in SUBSET (1 .. Len(stack))
        PROVE  Cardinality(T) \in Nat /\ Cardinality(T) <= MaxDepth
    BY <2>1, Bounded, Bounds
  <2>4. "stack" \in Scopes /\ "offset" \in Scopes
    BY DEF Scopes
  <2>5. kmm \in 0 .. MaxDepth /\ offset \in 0 .. MaxDepth
    BY <1>1, <2>2, <2>3, <2>4, Bounds DEF IInv, Counters
  <2>6. depth \in 0 .. 2 * MaxDepth
    <3>1. /\ Cardinality(TableSet(stack)) \in Nat /\ Cardinality(TableSet(stack)) <= MaxDepth
          /\ Cardinality(DoubleSet(stack)) \in Nat /\ Cardinality(DoubleSet(stack)) <= MaxDepth
      BY <2>2, <2>3
    <3>2. depth = Cardinality(TableSet(stack)) + Cardinality(DoubleSet(stack))
      BY <1>1 DEF IInv, Counters
    <3>3. QED BY <3>1, <3>2, Bounds
  <2>7. pending \in 0 .. MaxPending
    <3>1. Cardinality(LiftedSet(stack)) \in Nat
      BY <2>2, <2>3
    <3>2. pending + Cardinality(LiftedSet(stack)) <= MaxPending /\ pending \in Nat
      BY <1>1 DEF IInv, Counters, FlagsOK
    <3>3. QED BY <3>1, <3>2, Bounds
  <2>8. {promotes, checkpoint, ret, inBody, instantiated} \subseteq BOOLEAN
    BY <1>1 DEF IInv, FlagsOK
  <2>9. emitted \in Emissions
    BY <1>1 DEF IInv, EmittedOK
  <2>10. QED BY <2>1, <2>5, <2>6, <2>7, <2>8, <2>9 DEF TypeOK
<1>2. QED BY <1>1, Invariance, PTL

\* What the generated code opens it closes: the counters are those of the open
\* constructs, at most one stack scope is open on any path, a return pops the
\* stack scopes of its function, and no field or queue outlives the outermost
\* construct, however functions, lambdas and instances are nested.
THEOREM OpenedIsClosed == Spec => []ScopesBalanced
<1>1. ASSUME IInv PROVE ScopesBalanced
  <2>1. stack = << >> => ~ret /\ ~inBody /\ pending = 0
    BY <1>1, EmptyFields
  <2>2. CountersMatch
    BY <1>1, <2>1, CountersAre DEF IInv, Counters
  <2>3. QED BY <1>1, <2>2 DEF IInv, EmittedOK, ScopesBalanced
<1>2. QED BY <1>1, Invariance, PTL

\* Neither a return nor the end of a function gives back the survivors of a
\* function that has promoted something to its caller.
THEOREM PromotionsKept == Spec => []PromotedSurvives
<1>1. IInv => PromotedSurvives
  BY DEF IInv, EmittedOK
<1>2. QED BY <1>1, Invariance, PTL

\* A return in a function that declares a value emits one, after any nesting of
\* lambdas: the type that a lambda saves is that of the function around it.
THEOREM ReturnsAsDeclared == Spec => []ValuesReturned
<1>1. IInv => ValuesReturned
  BY DEF IInv, EmittedOK
<1>2. QED BY <1>1, Invariance, PTL
=============================================================================

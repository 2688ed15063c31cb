----------------------------- MODULE Sema_proofs -----------------------------
(***************************************************************************)
(* Proofs about the semantic analyser.  However deep constructs nest and    *)
(* however many names and declarations there are, a name means what the     *)
(* text means or comes from a block that has ended, what is dereferenced    *)
(* was compared with null and what is reported unused was not read, but for *)
(* the cases that the properties name (Sema); a spend statement that the    *)
(* analyser accepts meets a check of the runtime only in a clause that it   *)
(* overlooks, and over an array consumes every element (MCSpend).           *)
(***************************************************************************)
EXTENDS Sema, MCSpend, FiniteSetTheorems, SequenceTheorems,
        WellFoundedInduction, TLAPS

-----------------------------------------------------------------------------
(* Numbers: a set of them has a least one, and one that is bounded has the  *)
(* largest that Where and Visible choose.                                   *)
Smaller == {p \in Nat \X Nat : p[1] < p[2]}
LEMMA SmallerIsWellFounded == IsWellFoundedOn(Smaller, Nat)
BY NatLessThanWellFounded DEF OpToRel, Smaller

LEMMA LeastIs ==
  ASSUME NEW S \in SUBSET Nat, S # {}
  PROVE  \E m \in S : \A k \in S : m <= k
<1>1. PICK m \in S : \A k \in S : ~(<<k, m>> \in Smaller)
  BY SmallerIsWellFounded, WFMin
<1>2. ASSUME NEW k \in S PROVE m <= k
  <2>1. m \in Nat /\ k \in Nat /\ <<k, m>> \notin Smaller
    BY <1>1
  <2>2. ~(k < m)
    BY <2>1 DEF Smaller
  <2>3. QED BY <2>1, <2>2
<1>3. QED BY <1>2

LEMMA LargestIs ==
  ASSUME NEW N \in Nat, NEW S \in SUBSET (1..N), S # {}
  PROVE  Largest(S) \in S /\ \A j \in S : j <= Largest(S)
<1> DEFINE U == {N - i : i \in S}
<1>1. U # {}
  OBVIOUS
<1>0. U \in SUBSET Nat
  <2>1. ASSUME NEW i \in S PROVE N - i \in Nat
    OBVIOUS
  <2>2. QED BY <2>1
<1>2. PICK m \in U : \A k \in U : m <= k
  BY <1>0, <1>1, LeastIs
<1>3. PICK i \in S : m = N - i
  BY <1>2
<1>4. ASSUME NEW j \in S PROVE j <= i
  <2>1. m <= N - j
    BY <1>2
  <2>2. i \in 1..N /\ j \in 1..N
    BY <1>3
  <2>3. QED BY <1>3, <2>1, <2>2
<1>5. \E l \in S : \A j \in S : j <= l
  BY <1>4
<1>6. QED BY <1>5 DEF Largest

-----------------------------------------------------------------------------
(* The table that belongs to a construct: one more for each construct with  *)
(* a table among the first j of o.                                          *)
WithTable(o, j) == {i \in 1..j : o[i].kind \in TableKinds}
Level(o, j) == 1 + Cardinality(WithTable(o, j))

LEMMA LevelType ==
  ASSUME NEW o, NEW j \in Nat
  PROVE  IsFiniteSet(WithTable(o, j)) /\ Level(o, j) \in Nat /\ Level(o, j) >= 1
<1>1. IsFiniteSet(1..j) /\ WithTable(o, j) \in SUBSET (1..j)
  BY FS_Interval DEF WithTable
<1>2. IsFiniteSet(WithTable(o, j))
  BY <1>1, FS_Subset
<1>3. Cardinality(WithTable(o, j)) \in Nat
  BY <1>2, FS_CardinalityType
<1>4. QED BY <1>2, <1>3 DEF Level

LEMMA LevelOfNone == ASSUME NEW o PROVE Level(o, 0) = 1
<1>1. WithTable(o, 0) = {}
  BY DEF WithTable
<1>2. QED BY <1>1, FS_EmptySet DEF Level

LEMMA LevelSame ==
  ASSUME NEW o, NEW p, NEW j \in Nat, \A i \in 1..j : p[i].kind = o[i].kind
  PROVE  Level(p, j) = Level(o, j)
<1>1. WithTable(p, j) = WithTable(o, j)
  BY DEF WithTable
<1>2. QED BY <1>1 DEF Level

LEMMA LevelStep ==
  ASSUME NEW o, NEW j \in Nat
  PROVE  Level(o, j + 1) = IF o[j + 1].kind \in TableKinds THEN Level(o, j) + 1 ELSE Level(o, j)
<1>0. j + 1 \notin WithTable(o, j)
  BY DEF WithTable
<1>1. IsFiniteSet(WithTable(o, j)) /\ Cardinality(WithTable(o, j)) \in Nat
  BY LevelType, FS_CardinalityType
<1>2. CASE o[j + 1].kind \in TableKinds
  <2>1. WithTable(o, j + 1) = WithTable(o, j) \cup {j + 1}
    BY <1>2 DEF WithTable
  <2>2. Cardinality(WithTable(o, j + 1)) = Cardinality(WithTable(o, j)) + 1
    BY <1>0, <1>1, <2>1, FS_AddElement
  <2>3. QED BY <1>1, <1>2, <2>2 DEF Level
<1>3. CASE o[j + 1].kind \notin TableKinds
  <2>1. WithTable(o, j + 1) = WithTable(o, j)
    BY <1>3 DEF WithTable
  <2>2. QED BY <1>3, <2>1 DEF Level
<1>4. QED BY <1>2, <1>3

LEMMA LevelGrows ==
  ASSUME NEW o, NEW j \in Nat, NEW k \in Nat, j <= k
  PROVE  Level(o, j) <= Level(o, k)
<1>1. WithTable(o, j) \in SUBSET WithTable(o, k)
  BY DEF WithTable
<1>2. IsFiniteSet(WithTable(o, k)) /\ IsFiniteSet(WithTable(o, j))
  BY LevelType
<1>3. Cardinality(WithTable(o, j)) <= Cardinality(WithTable(o, k))
  BY <1>1, <1>2, FS_Subset
<1>4. Cardinality(WithTable(o, j)) \in Nat /\ Cardinality(WithTable(o, k)) \in Nat
  BY <1>2, FS_CardinalityType
<1>5. QED BY <1>3, <1>4 DEF Level

-----------------------------------------------------------------------------
(* What the tables and the blocks say, as far as the first tables and       *)
(* constructs go.                                                           *)
FoundAt(t, L, n, i) ==
  /\ i \in 1..L
  /\ t[i][n].id # 0
  /\ \A k \in i + 1..L : t[k][n].id = 0
VisibleAt(o, g, j, n, d) ==
  \/ d # 0 /\ \E i \in 1..j : o[i].block[n] = d /\ \A k \in i + 1..j : o[k].block[n] = 0
  \/ d = g[n] /\ \A k \in 1..j : o[k].block[n] = 0

LEMMA SymbolType ==
  ASSUME NEW t \in Seq(Tables), NEW i \in 1..Len(t), NEW n \in Names
  PROVE  /\ t[i][n] \in Symbols \cup {NoSymbol}
         /\ t[i][n].id = 0 <=> t[i][n] = NoSymbol
         /\ t[i][n].id # 0 => t[i][n] \in Symbols /\ t[i][n].id \in Ids
<1>1. t[i] \in Tables
  OBVIOUS
<1>2. t[i][n] \in Symbols \cup {NoSymbol}
  BY <1>1 DEF Tables
<1>3. NoSymbol.id = 0
  BY DEF NoSymbol
<1>4. ASSUME NEW s \in Symbols PROVE s.id \in Ids /\ s.id # 0
  BY DEF Symbols, Ids
<1>5. CASE t[i][n] = NoSymbol
  BY <1>2, <1>3, <1>5
<1>6. CASE t[i][n] \in Symbols
  BY <1>2, <1>3, <1>4, <1>6
<1>7. QED BY <1>2, <1>5, <1>6

(* What Where and Visible are, for any tables and constructs.               *)
WhereIn(t, n) ==
  LET is == {i \in 1..Len(t) : t[i][n] # NoSymbol}
  IN  IF is = {} THEN 0 ELSE Largest(is)
VisibleIn(o, g, n) ==
  LET is == {i \in 1..Len(o) : o[i].block[n] # 0}
  IN  IF is = {} THEN g[n] ELSE o[Largest(is)].block[n]

LEMMA WhereIs ==
  ASSUME tables \in Seq(Tables), NEW n \in Names
  PROVE  /\ Where(n) # 0 => FoundAt(tables, Len(tables), n, Where(n))
         /\ Where(n) \in 0..Len(tables)
<1> DEFINE is == {i \in 1..Len(tables) : tables[i][n] # NoSymbol}
<1>0. Len(tables) \in Nat /\ is \in SUBSET (1..Len(tables))
  OBVIOUS
<1>1. Where(n) = IF is = {} THEN 0 ELSE Largest(is)
  BY DEF Where
<1>2. CASE is = {}
  BY <1>0, <1>1, <1>2
<1>3. CASE is # {}
  <2>1. Where(n) \in is /\ \A j \in is : j <= Where(n)
    BY <1>0, <1>1, <1>3, LargestIs
  <2>2. ASSUME NEW k \in Where(n) + 1..Len(tables) PROVE tables[k][n].id = 0
    <3>1. k \in 1..Len(tables) /\ ~(k <= Where(n))
      BY <1>0, <2>1
    <3>2. k \notin is
      BY <2>1, <3>1
    <3>3. tables[k][n] = NoSymbol
      BY <3>1, <3>2
    <3>4. QED BY <3>1, <3>3, SymbolType
  <2>3. Where(n) \in 1..Len(tables) /\ tables[Where(n)][n] # NoSymbol
    BY <2>1
  <2>4. tables[Where(n)][n].id # 0
    BY <2>3, SymbolType
  <2>5. QED BY <1>0, <2>2, <2>3, <2>4 DEF FoundAt
<1>4. QED BY <1>2, <1>3

LEMMA VisibleIs ==
  ASSUME open \in Seq(Frames), globals \in Blocks, NEW n \in Names, NEW d, VisibleAt(open, globals, Len(open), n, d)
  PROVE  d = Visible(n)
<1> DEFINE is == {i \in 1..Len(open) : open[i].block[n] # 0}
<1>1. Visible(n) = IF is = {} THEN globals[n] ELSE open[Largest(is)].block[n]
  BY DEF Visible
<1>2. CASE \A k \in 1..Len(open) : open[k].block[n] = 0
  <2>1. is = {} /\ d = globals[n]
    BY <1>2 DEF VisibleAt
  <2>2. QED BY <1>1, <2>1
<1>3. CASE \E k \in 1..Len(open) : open[k].block[n] # 0
  <2>1. PICK i \in 1..Len(open) : d # 0 /\ open[i].block[n] = d /\ \A k \in i + 1..Len(open) : open[k].block[n] = 0
    BY <1>3 DEF VisibleAt
  <2>2. is \in SUBSET (1..Len(open)) /\ Len(open) \in Nat /\ i \in is
    BY <2>1
  <2>3. Largest(is) \in is /\ \A j \in is : j <= Largest(is)
    BY <2>2, LargestIs
  <2>4. i <= Largest(is) /\ ~(Largest(is) \in i + 1..Len(open))
    BY <2>1, <2>2, <2>3
  <2>5. Largest(is) = i
    BY <2>2, <2>3, <2>4
  <2>6. QED BY <1>1, <2>1, <2>2, <2>5
<1>4. QED BY <1>2, <1>3

-----------------------------------------------------------------------------
(* The constructs after which the next one has a table, and the last: one   *)
(* for each table.  There, what is found is what is visible.                *)
Ends(o) == {j \in 0..Len(o) : j = Len(o) \/ o[j + 1].kind \in TableKinds}
Scoped(o, t, g, ds, j) ==
  \A n \in Names : \A i \in 1..Len(t) : FoundAt(t, Level(o, j), n, i) =>
    VisibleAt(o, g, j, n, t[i][n].id) \/ ds[t[i][n].id].closed
Lexical(o, t, g, ds) == \A j \in Ends(o) : Scoped(o, t, g, ds, j)

LEMMA LowerEnds ==
  ASSUME NEW o \in Seq(Frames), NEW j \in Ends(o)
  PROVE  /\ j \in Nat /\ Level(o, j) \in Nat /\ Level(o, Len(o)) \in Nat
         /\ Level(o, j) <= Level(o, Len(o))
         /\ j # Len(o) => Level(o, j) < Level(o, Len(o))
<1>1. j \in Nat /\ j <= Len(o) /\ Len(o) \in Nat
  BY DEF Ends
<1>2. Level(o, j) \in Nat /\ Level(o, Len(o)) \in Nat /\ Level(o, j) <= Level(o, Len(o))
  BY <1>1, LevelType, LevelGrows
<1>3. CASE j # Len(o)
  <2>1. o[j + 1].kind \in TableKinds /\ j + 1 <= Len(o) /\ j + 1 \in Nat
    BY <1>1, <1>3 DEF Ends
  <2>2. Level(o, j + 1) = Level(o, j) + 1
    BY <1>1, <2>1, LevelStep
  <2>3. Level(o, j + 1) <= Level(o, Len(o)) /\ Level(o, j + 1) \in Nat
    BY <1>1, <2>1, LevelGrows, LevelType
  <2>4. QED BY <1>1, <1>2, <2>2, <2>3
<1>4. QED BY <1>1, <1>2, <1>3

LEMMA VisibleSame ==
  ASSUME NEW o, NEW p, NEW g, NEW h, NEW j \in Nat, NEW n, NEW d, h[n] = g[n],
         \A k \in 1..j : p[k].block[n] = o[k].block[n], VisibleAt(o, g, j, n, d)
  PROVE  VisibleAt(p, h, j, n, d)
<1>1. ASSUME NEW i \in 1..j, \A k \in i + 1..j : o[k].block[n] = 0
      PROVE  \A k \in i + 1..j : p[k].block[n] = 0
  <2>1. \A k \in i + 1..j : k \in 1..j
    OBVIOUS
  <2>2. QED BY <1>1, <2>1
<1>2. CASE d # 0 /\ \E i \in 1..j : o[i].block[n] = d /\ \A k \in i + 1..j : o[k].block[n] = 0
  <2>1. PICK i \in 1..j : o[i].block[n] = d /\ \A k \in i + 1..j : o[k].block[n] = 0
    BY <1>2
  <2>2. \A k \in i + 1..j : p[k].block[n] = 0
    BY <1>1, <2>1
  <2>3. p[i].block[n] = d
    BY <2>1
  <2>4. QED BY <1>2, <2>2, <2>3 DEF VisibleAt
<1>3. CASE d = g[n] /\ \A k \in 1..j : o[k].block[n] = 0
  BY <1>3 DEF VisibleAt
<1>4. QED BY <1>2, <1>3 DEF VisibleAt

(* A name changes in the table and in the block that are last, the marks of *)
(* the rest as they like: declarations, nonlocal, uses.                     *)
OnlyLast(o, o1, t, t1, g, g1, ds, ds1, n, id) ==
  /\ o \in Seq(Frames) /\ o1 \in Seq(Frames) /\ Len(o1) = Len(o)
  /\ t \in Seq(Tables) /\ t1 \in Seq(Tables) /\ Len(t1) = Len(t) /\ Len(t) = Level(o, Len(o))
  /\ \A i \in 1..Len(o) : o1[i].kind = o[i].kind
  /\ \A i \in 1..Len(o), m \in Names : i # Len(o) \/ m # n => o1[i].block[m] = o[i].block[m]
  /\ \A m \in Names : Len(o) # 0 \/ m # n => g1[m] = g[m]
  /\ id # 0 /\ t1[Len(t)][n].id = id
  /\ \A i \in 1..Len(t), m \in Names : i # Len(t) \/ m # n => t1[i][m].id = t[i][m].id
  /\ \A i \in 1..Len(t), m \in Names : t[i][m].id # 0 /\ ds[t[i][m].id].closed => ds1[t[i][m].id].closed
  /\ VisibleAt(o1, g1, Len(o), n, id) \/ ds1[id].closed

LEMMA LexicalLast ==
  ASSUME NEW o, NEW o1, NEW t, NEW t1, NEW g, NEW g1, NEW ds, NEW ds1, NEW n \in Names, NEW id,
         OnlyLast(o, o1, t, t1, g, g1, ds, ds1, n, id), Lexical(o, t, g, ds)
  PROVE  Lexical(o1, t1, g1, ds1)
<1> USE DEF OnlyLast
<1>1. SUFFICES ASSUME NEW j \in Ends(o1), NEW m \in Names, NEW i \in 1..Len(t1), FoundAt(t1, Level(o1, j), m, i)
               PROVE  VisibleAt(o1, g1, j, m, t1[i][m].id) \/ ds1[t1[i][m].id].closed
  BY DEF Lexical, Scoped
<1>2. j \in Ends(o) /\ j \in 0..Len(o) /\ j \in Nat /\ Len(o) \in Nat /\ Len(t) \in Nat
  BY DEF Ends
<1>3. Level(o1, j) = Level(o, j)
  BY <1>2, LevelSame
<1>4. /\ Level(o, j) \in Nat /\ Level(o, j) <= Len(t)
      /\ j # Len(o) => Level(o, j) < Len(t)
  BY <1>2, LowerEnds
<1>5. CASE j = Len(o) /\ m = n
  <2>1. i = Len(t)
    <3>1. i \in 1..Len(t) /\ \A k \in i + 1..Len(t) : t1[k][n].id = 0
      BY <1>1, <1>3, <1>5 DEF FoundAt
    <3>2. Len(t) \notin i + 1..Len(t)
      BY <3>1
    <3>3. QED BY <1>2, <3>1, <3>2
  <2>2. QED BY <1>5, <2>1
<1>6. CASE ~(j = Len(o) /\ m = n)
  <2>1. \A k \in 1..Level(o, j) : t1[k][m].id = t[k][m].id
    BY <1>2, <1>4, <1>6
  <2>2. FoundAt(t, Level(o, j), m, i) /\ t1[i][m].id = t[i][m].id /\ i \in 1..Len(t) /\ t[i][m].id # 0
    <3>1. /\ i \in 1..Level(o, j) /\ t1[i][m].id # 0
          /\ \A k \in i + 1..Level(o, j) : t1[k][m].id = 0
      BY <1>1, <1>3 DEF FoundAt
    <3>2. i \in Nat /\ i >= 1 /\ i \in 1..Len(t) /\ \A k \in i + 1..Level(o, j) : k \in 1..Level(o, j)
      BY <1>2, <1>4, <3>1
    <3>3. \A k \in i + 1..Level(o, j) : t[k][m].id = 0
      BY <2>1, <3>1, <3>2
    <3>4. t1[i][m].id = t[i][m].id
      BY <2>1, <3>1
    <3>5. QED BY <3>1, <3>2, <3>3, <3>4 DEF FoundAt
  <2>3. VisibleAt(o, g, j, m, t[i][m].id) \/ ds[t[i][m].id].closed
    BY <1>2, <2>2 DEF Lexical, Scoped
  <2>4. \A k \in 1..j : o1[k].block[m] = o[k].block[m]
    BY <1>2, <1>6
  <2>5. g1[m] = g[m]
    BY <1>2, <1>6
  <2>6. VisibleAt(o, g, j, m, t[i][m].id) => VisibleAt(o1, g1, j, m, t[i][m].id)
    BY <1>2, <2>4, <2>5, VisibleSame, SMTT(30)
  <2>7. QED BY <2>2, <2>3, <2>6
<1>7. QED BY <1>5, <1>6

(* Constructs that open.                                                    *)
LEMMA VisiblePushed ==
  ASSUME NEW o \in Seq(Frames), NEW f, NEW g, NEW n, NEW d, f.block[n] = 0,
         VisibleAt(o, g, Len(o), n, d)
  PROVE  VisibleAt(Append(o, f), g, Len(o) + 1, n, d)
<1> DEFINE o1 == Append(o, f)
<1>1. Len(o) \in Nat /\ o1[Len(o) + 1] = f /\ \A k \in 1..Len(o) : o1[k] = o[k]
  OBVIOUS
<1> HIDE DEF o1
<1>2. ASSUME NEW i \in 0..Len(o), \A k \in i + 1..Len(o) : o[k].block[n] = 0
      PROVE  \A k \in i + 1..Len(o) + 1 : o1[k].block[n] = 0
  BY <1>1, <1>2
<1>3. CASE d # 0 /\ \E i \in 1..Len(o) : o[i].block[n] = d /\ \A k \in i + 1..Len(o) : o[k].block[n] = 0
  <2>1. PICK i \in 1..Len(o) : o[i].block[n] = d /\ \A k \in i + 1..Len(o) : o[k].block[n] = 0
    BY <1>3
  <2>2. i \in 0..Len(o) /\ i \in 1..Len(o) + 1 /\ o1[i].block[n] = d
    BY <1>1, <2>1
  <2>3. \A k \in i + 1..Len(o) + 1 : o1[k].block[n] = 0
    BY <1>2, <2>1, <2>2
  <2>4. VisibleAt(o1, g, Len(o) + 1, n, d)
    BY <1>3, <2>2, <2>3 DEF VisibleAt
  <2>5. QED BY <2>4 DEF o1
<1>4. CASE d = g[n] /\ \A k \in 1..Len(o) : o[k].block[n] = 0
  <2>1. \A k \in 1..Len(o) + 1 : o1[k].block[n] = 0
    BY <1>1, <1>4
  <2>2. VisibleAt(o1, g, Len(o) + 1, n, d)
    BY <1>4, <2>1 DEF VisibleAt
  <2>3. QED BY <2>2 DEF o1
<1>5. QED BY <1>3, <1>4 DEF VisibleAt

LEMMA TablesOpened ==
  ASSUME NEW o \in Seq(Frames), NEW t \in Seq(Tables), NEW f, Len(t) = Level(o, Len(o)), NEW t1,
         t1 = IF f.kind \in TableKinds THEN Append(t, Empty) ELSE t
  PROVE  Len(t1) = Level(Append(o, f), Len(o) + 1)
<1> DEFINE o1 == Append(o, f)
<1>1. Len(o) \in Nat /\ Len(t) \in Nat /\ o1[Len(o) + 1] = f /\ \A k \in 1..Len(o) : o1[k] = o[k]
  OBVIOUS
<1> HIDE DEF o1
<1>2. Level(o1, Len(o)) = Level(o, Len(o))
  BY <1>1, LevelSame
<1>3. Level(o1, Len(o) + 1) = IF f.kind \in TableKinds THEN Len(t) + 1 ELSE Len(t)
  BY <1>1, <1>2, LevelStep
<1>4. Len(t1) = IF f.kind \in TableKinds THEN Len(t) + 1 ELSE Len(t)
  BY <1>1
<1>5. QED BY <1>3, <1>4 DEF o1

LEMMA LexicalOpen ==
  ASSUME NEW o \in Seq(Frames), NEW t \in Seq(Tables), NEW g, NEW ds, NEW f \in Frames, f.block = NoNames,
         Len(t) = Level(o, Len(o)), NEW t1 \in Seq(Tables),
         t1 = IF f.kind \in TableKinds THEN Append(t, Empty) ELSE t,
         Lexical(o, t, g, ds)
  PROVE  Lexical(Append(o, f), t1, g, ds)
<1> DEFINE o1 == Append(o, f)
<1>1. Len(o) \in Nat /\ Len(t) \in Nat /\ o1 \in Seq(Frames) /\ Len(o1) = Len(o) + 1
      /\ o1[Len(o) + 1] = f /\ \A k \in 1..Len(o) : o1[k] = o[k]
  OBVIOUS
<1>2. Len(t1) = Level(o1, Len(o) + 1)
  BY TablesOpened
<1> HIDE DEF o1
<1>4. \A k \in 1..Len(t) : t1[k] = t[k]
  BY <1>1
<1>5. ASSUME NEW n \in Names, NEW i \in 1..Len(t1), FoundAt(t1, Len(t1), n, i)
      PROVE  i \in 1..Len(t) /\ FoundAt(t, Len(t), n, i)
  <2>1. CASE f.kind \in TableKinds
    <3>1. t1[Len(t) + 1] = Empty /\ Len(t1) = Len(t) + 1
      BY <1>1, <2>1
    <3>2. t1[Len(t) + 1][n].id = 0
      BY <3>1 DEF Empty, NoSymbol
    <3>3. i # Len(t) + 1
      BY <1>5, <3>2 DEF FoundAt
    <3>4. QED BY <1>1, <1>4, <1>5, <3>1, <3>3 DEF FoundAt
  <2>2. CASE f.kind \notin TableKinds
    BY <1>5, <2>2
  <2>3. QED BY <2>1, <2>2
<1>6. SUFFICES ASSUME NEW j \in Ends(o1), NEW n \in Names, NEW i \in 1..Len(t1), FoundAt(t1, Level(o1, j), n, i)
               PROVE  VisibleAt(o1, g, j, n, t1[i][n].id) \/ ds[t1[i][n].id].closed
  BY DEF Lexical, Scoped, o1
<1>7. CASE j = Len(o) + 1
  <2>1. i \in 1..Len(t) /\ FoundAt(t, Len(t), n, i) /\ t1[i] = t[i]
    BY <1>2, <1>4, <1>5, <1>6, <1>7
  <2>2. Len(o) \in Ends(o)
    BY <1>1 DEF Ends
  <2>3. VisibleAt(o, g, Len(o), n, t[i][n].id) \/ ds[t[i][n].id].closed
    BY <2>1, <2>2 DEF Lexical, Scoped
  <2>4. f.block[n] = 0
    BY DEF NoNames
  <2>5. VisibleAt(o, g, Len(o), n, t[i][n].id) => VisibleAt(o1, g, Len(o) + 1, n, t[i][n].id)
    BY <2>4, VisiblePushed DEF o1
  <2>6. QED BY <1>7, <2>1, <2>3, <2>5
<1>8. CASE j # Len(o) + 1
  <2>1. j \in 0..Len(o) /\ j \in Nat
    BY <1>1, <1>8 DEF Ends
  <2>2. j \in Ends(o)
    BY <1>1, <2>1 DEF Ends
  <2>3. Level(o1, j) = Level(o, j) /\ Level(o, j) <= Len(t) /\ Level(o, j) \in Nat
    <3>1. \A k \in 1..j : o1[k].kind = o[k].kind
      BY <1>1, <2>1
    <3>2. Level(o1, j) = Level(o, j)
      BY <2>1, <3>1, LevelSame
    <3>3. QED BY <2>2, <3>2, LowerEnds
  <2>4. FoundAt(t, Level(o, j), n, i) /\ i \in 1..Len(t) /\ t1[i] = t[i]
    BY <1>1, <1>4, <1>6, <2>3 DEF FoundAt
  <2>5. VisibleAt(o, g, j, n, t[i][n].id) \/ ds[t[i][n].id].closed
    BY <2>2, <2>4 DEF Lexical, Scoped
  <2>6. VisibleAt(o, g, j, n, t[i][n].id) => VisibleAt(o1, g, j, n, t[i][n].id)
    <3>1. \A k \in 1..j : o1[k].block[n] = o[k].block[n]
      BY <1>1, <2>1
    <3>2. QED BY <2>1, <3>1, VisibleSame
  <2>7. QED BY <2>4, <2>5, <2>6
<1>9. QED BY <1>7, <1>8

(* Constructs that close.                                                   *)
LEMMA Popped ==
  ASSUME NEW S, NEW s \in Seq(S), s # <<>>
  PROVE  /\ Len(s) \in Nat \ {0} /\ Len(s) - 1 \in Nat
         /\ SubSeq(s, 1, Len(s) - 1) \in Seq(S)
         /\ Len(SubSeq(s, 1, Len(s) - 1)) = Len(s) - 1
         /\ \A k \in 1..Len(s) - 1 : SubSeq(s, 1, Len(s) - 1)[k] = s[k]
<1>1. Len(s) \in Nat /\ Len(s) # 0
  OBVIOUS
<1>2. SubSeq(s, 1, Len(s) - 1) = [k \in 1..Len(s) - 1 |-> s[k]]
  BY <1>1
<1>3. /\ 1 \in Int /\ Len(s) - 1 \in Int
      /\ \A k \in 1..Len(s) - 1 : s[k] \in S
  BY <1>1
<1>4. SubSeq(s, 1, Len(s) - 1) \in Seq(S)
  BY <1>3, SubSeqProperties
<1>5. Len(SubSeq(s, 1, Len(s) - 1)) = Len(s) - 1
  <2>1. Len(SubSeq(s, 1, Len(s) - 1)) = IF 1 <= Len(s) - 1 THEN Len(s) - 1 - 1 + 1 ELSE 0
    BY <1>3, SubSeqProperties
  <2> DEFINE l == Len(SubSeq(s, 1, Len(s) - 1))
             N == Len(s)
  <2>2. l = IF 1 <= N - 1 THEN N - 1 - 1 + 1 ELSE 0
    BY <2>1
  <2>3. N \in Nat /\ N # 0
    BY <1>1
  <2> HIDE DEF l, N
  <2>4. l = N - 1
    BY <2>2, <2>3
  <2>5. QED BY <2>4 DEF l, N
<1>6. QED BY <1>1, <1>2, <1>4, <1>5

LEMMA VisiblePopped ==
  ASSUME NEW o, NEW g, NEW N \in Nat \ {0}, NEW n, NEW d, VisibleAt(o, g, N, n, d), o[N].block[n] # d \/ d = 0
  PROVE  VisibleAt(o, g, N - 1, n, d)
<1>1. ASSUME d # 0, NEW i \in 1..N, o[i].block[n] = d, \A k \in i + 1..N : o[k].block[n] = 0
      PROVE  VisibleAt(o, g, N - 1, n, d)
  <2>1. i \in 1..N - 1
    BY <1>1
  <2>2. \A k \in i + 1..N - 1 : o[k].block[n] = 0
    BY <1>1
  <2>3. QED BY <1>1, <2>1, <2>2 DEF VisibleAt
<1>2. ASSUME d = g[n], \A k \in 1..N : o[k].block[n] = 0
      PROVE  VisibleAt(o, g, N - 1, n, d)
  BY <1>2 DEF VisibleAt
<1>3. QED BY <1>1, <1>2 DEF VisibleAt

LEMMA TablesClosed ==
  ASSUME NEW o \in Seq(Frames), o # <<>>, NEW t \in Seq(Tables), Len(t) = Level(o, Len(o)), NEW t1,
         t1 = IF o[Len(o)].kind \in TableKinds THEN SubSeq(t, 1, Len(t) - 1) ELSE t
  PROVE  Len(t1) = Level(SubSeq(o, 1, Len(o) - 1), Len(o) - 1)
<1> DEFINE o1 == SubSeq(o, 1, Len(o) - 1)
           N == Len(o)
<1>1. N \in Nat \ {0} /\ N - 1 \in Nat /\ Len(t) \in Nat /\ \A k \in 1..N - 1 : o1[k] = o[k]
  BY Popped
<1> HIDE DEF o1, N
<1>2. Level(o1, N - 1) = Level(o, N - 1) /\ Level(o, N - 1) \in Nat /\ Level(o, N - 1) >= 1
  BY <1>1, LevelSame, LevelType
<1>3. Len(t) = IF o[N].kind \in TableKinds THEN Level(o, N - 1) + 1 ELSE Level(o, N - 1)
  <2>1. N - 1 + 1 = N
    BY <1>1
  <2>2. Level(o, N - 1 + 1) = IF o[N - 1 + 1].kind \in TableKinds THEN Level(o, N - 1) + 1 ELSE Level(o, N - 1)
    BY <1>1, LevelStep
  <2>3. QED BY <2>1, <2>2 DEF N
<1>4. CASE o[N].kind \in TableKinds
  <2>1. t1 = SubSeq(t, 1, Len(t) - 1)
    BY <1>4 DEF N
  <2>2. Len(t) - 1 = Level(o1, N - 1) /\ t # <<>>
    BY <1>1, <1>2, <1>3, <1>4
  <2>3. Len(t1) = Len(t) - 1
    BY <2>1, <2>2, Popped
  <2>4. QED BY <2>2, <2>3 DEF o1, N
<1>5. CASE o[N].kind \notin TableKinds
  <2>1. t1 = t
    BY <1>5 DEF N
  <2>2. Len(t) = Level(o1, N - 1)
    BY <1>2, <1>3, <1>5
  <2>3. QED BY <2>1, <2>2 DEF o1, N
<1>6. QED BY <1>4, <1>5

LEMMA LexicalClose ==
  ASSUME NEW o \in Seq(Frames), o # <<>>, NEW t \in Seq(Tables), NEW g, NEW ds, NEW ds1,
         Len(t) = Level(o, Len(o)), NEW t1 \in Seq(Tables),
         t1 = IF o[Len(o)].kind \in TableKinds THEN SubSeq(t, 1, Len(t) - 1) ELSE t,
         \A i \in 1..Len(t), m \in Names : t[i][m].id # 0 /\ ds[t[i][m].id].closed => ds1[t[i][m].id].closed,
         o[Len(o)].kind \notin TableKinds =>
           \A m \in Names : o[Len(o)].block[m] # 0 => ds1[o[Len(o)].block[m]].closed,
         Lexical(o, t, g, ds)
  PROVE  Lexical(SubSeq(o, 1, Len(o) - 1), t1, g, ds1)
<1> DEFINE o1 == SubSeq(o, 1, Len(o) - 1)
           N == Len(o)
<1>1. N \in Nat \ {0} /\ N - 1 \in Nat /\ Len(t) \in Nat /\ o1 \in Seq(Frames) /\ Len(o1) = N - 1
      /\ \A k \in 1..N - 1 : o1[k] = o[k]
  BY Popped
<1> HIDE DEF o1, N
<1>2. \A j \in 0..N - 1 : Level(o1, j) = Level(o, j) /\ Level(o, j) \in Nat /\ Level(o, j) >= 1
  <2> TAKE j \in 0..N - 1
  <2>1. j \in Nat /\ \A k \in 1..j : o1[k].kind = o[k].kind
    BY <1>1
  <2>2. QED BY <2>1, LevelSame, LevelType
<1>3. Len(t) = IF o[N].kind \in TableKinds THEN Level(o, N - 1) + 1 ELSE Level(o, N - 1)
  <2>1. N - 1 + 1 = N
    BY <1>1
  <2>2. Level(o, N - 1 + 1) = IF o[N - 1 + 1].kind \in TableKinds THEN Level(o, N - 1) + 1 ELSE Level(o, N - 1)
    BY <1>1, LevelStep
  <2>3. QED BY <2>1, <2>2 DEF N
<1>4. Len(t1) = Level(o1, N - 1) /\ \A k \in 1..Len(t1) : k \in 1..Len(t) /\ t1[k] = t[k]
  <2>1. N - 1 \in 0..N - 1
    BY <1>1
  <2>2. Level(o1, N - 1) = Level(o, N - 1) /\ Level(o, N - 1) \in Nat /\ Level(o, N - 1) >= 1
    BY <1>2, <2>1
  <2>3. CASE o[N].kind \in TableKinds
    <3>1. t1 = SubSeq(t, 1, Len(t) - 1)
      BY <2>3 DEF N
    <3>2. QED BY <1>1, <1>3, <2>2, <2>3, <3>1
  <2>4. CASE o[N].kind \notin TableKinds
    <3>1. t1 = t
      BY <2>4 DEF N
    <3>2. QED BY <1>1, <1>3, <2>2, <2>4, <3>1
  <2>5. QED BY <2>3, <2>4
<1>5. SUFFICES ASSUME NEW j \in Ends(o1), NEW n \in Names, NEW i \in 1..Len(t1), FoundAt(t1, Level(o1, j), n, i)
               PROVE  VisibleAt(o1, g, j, n, t1[i][n].id) \/ ds1[t1[i][n].id].closed
  BY DEF Lexical, Scoped, o1, N
<1>6. j \in 0..N - 1 /\ j \in Nat
  BY <1>1 DEF Ends
<1>7. Level(o1, j) = Level(o, j) /\ Level(o, j) <= Len(t1) /\ Level(o, j) \in Nat
  <2>1. Level(o1, j) <= Level(o1, N - 1)
    BY <1>1, <1>5, LowerEnds
  <2>2. QED BY <1>2, <1>4, <1>6, <2>1
<1>8. FoundAt(t, Level(o, j), n, i) /\ i \in 1..Len(t) /\ t1[i] = t[i] /\ t[i][n].id # 0
  <2>1. \A k \in 1..Level(o, j) : t1[k] = t[k]
    BY <1>4, <1>7
  <2>2. QED BY <1>4, <1>5, <1>7, <2>1 DEF FoundAt
<1>9. SUFFICES VisibleAt(o, g, j, n, t[i][n].id) \/ ds1[t[i][n].id].closed
  <2>1. \A k \in 1..j : o1[k].block[n] = o[k].block[n]
    BY <1>1, <1>6
  <2>2. VisibleAt(o, g, j, n, t[i][n].id) => VisibleAt(o1, g, j, n, t[i][n].id)
    BY <1>6, <2>1, VisibleSame
  <2>3. QED BY <1>8, <2>2
<1>10. ASSUME j \in Ends(o)
       PROVE  VisibleAt(o, g, j, n, t[i][n].id) \/ ds1[t[i][n].id].closed
  <2>1. VisibleAt(o, g, j, n, t[i][n].id) \/ ds[t[i][n].id].closed
    BY <1>8, <1>10 DEF Lexical, Scoped
  <2>2. QED BY <1>8, <2>1
<1>11. CASE j # N - 1 \/ o[N].kind \in TableKinds
  <2>1. j \in Ends(o)
    <3>1. CASE j = N - 1
      <4>1. j + 1 = N /\ j \in 0..Len(o) /\ o[j + 1].kind \in TableKinds
        BY <1>1, <1>6, <1>11, <3>1 DEF N
      <4>2. QED BY <4>1 DEF Ends
    <3>2. CASE j # N - 1
      <4>1. o1[j + 1].kind \in TableKinds
        BY <1>1, <1>5, <3>2 DEF Ends
      <4>2. o1[j + 1] = o[j + 1] /\ j \in 0..Len(o)
        BY <1>1, <1>6, <3>2 DEF N
      <4>3. QED BY <4>1, <4>2 DEF Ends
    <3>3. QED BY <3>1, <3>2
  <2>2. QED BY <1>10, <2>1
<1>12. CASE j = N - 1 /\ o[N].kind \notin TableKinds
  <2>1. N \in Ends(o) /\ Level(o, N) = Level(o, j)
    BY <1>1, <1>3, <1>12 DEF Ends, N
  <2>2. FoundAt(t, Level(o, N), n, i)
    BY <1>8, <2>1
  <2>3. VisibleAt(o, g, N, n, t[i][n].id) \/ ds[t[i][n].id].closed
    BY <1>8, <2>1, <2>2 DEF Lexical, Scoped
  <2>4. CASE ds[t[i][n].id].closed
    BY <1>8, <2>4
  <2>5. CASE VisibleAt(o, g, N, n, t[i][n].id) /\ o[N].block[n] = t[i][n].id
    BY <1>8, <1>12, <2>5 DEF N
  <2>6. CASE VisibleAt(o, g, N, n, t[i][n].id) /\ o[N].block[n] # t[i][n].id
    BY <1>1, <1>12, <2>6, VisiblePopped
  <2>7. QED BY <2>3, <2>4, <2>5, <2>6
<1>13. QED BY <1>11, <1>12

-----------------------------------------------------------------------------
(* What the symbols say of the declarations they stand for; a declaration   *)
(* has one symbol, unless a nested function bound it by nonlocal.           *)
HeldIn(o, t, g, d) ==
  \/ \E i \in 1..Len(t), n \in Names : t[i][n].id = d
  \/ \E i \in 1..Len(o), n \in Names : o[i].block[n] = d
  \/ \E n \in Names : g[n] = d
Declared(o, t, g, ds) == \A d \in Ids : HeldIn(o, t, g, d) => ds[d] \in Decls

Fits(s, d) ==
  /\ d.nullable => s.type = "nullable" \/ d.kind = "untyped"
  /\ s.checked => d.checked \/ d.closed
  /\ s.scope = "nonlocal" => d.nonlocal
  /\ s.scope = "local" /\ d.read => s.referenced \/ d.nonlocal \/ d.eclipsed
SymbolsFit(t, ds) == \A i \in 1..Len(t), n \in Names : t[i][n].id # 0 => Fits(t[i][n], ds[t[i][n].id])
OneSymbol(t, ds) ==
  \A i, k \in 1..Len(t) : \A n, m \in Names :
    t[i][n].id # 0 /\ t[i][n].id = t[k][m].id => (i = k /\ n = m) \/ ds[t[i][n].id].nonlocal

Sound(o, t, g, ds) ==
  /\ o \in Seq(Frames) /\ t \in Seq(Tables) /\ g \in Blocks
  /\ ds \in [Ids -> Decls \cup {NoDecl}]
  /\ Len(t) = Level(o, Len(o))
  /\ Declared(o, t, g, ds)
  /\ Lexical(o, t, g, ds)
  /\ SymbolsFit(t, ds)
  /\ OneSymbol(t, ds)

LEMMA Undeclared == NoDecl \notin Decls
<1>1. ASSUME NEW d \in Decls PROVE "closed" \in DOMAIN d
  BY DEF Decls
<1>2. "closed" \notin DOMAIN NoDecl
  BY DEF NoDecl
<1>3. QED BY <1>1, <1>2

LEMMA SoundTables ==
  ASSUME NEW o, NEW t, NEW g, NEW ds, Sound(o, t, g, ds)
  PROVE  /\ Len(t) \in Nat /\ Len(t) >= 1 /\ Len(o) \in Nat /\ Len(o) \in Ends(o)
         /\ \A i \in 1..Len(t), n \in Names : t[i][n].id # 0 =>
              t[i][n] \in Symbols /\ t[i][n].id \in Ids /\ ds[t[i][n].id] \in Decls
<1>1. Len(t) \in Nat /\ Len(t) >= 1 /\ Len(o) \in Nat /\ Len(o) \in Ends(o)
  BY LevelType DEF Sound, Ends
<1>2. ASSUME NEW i \in 1..Len(t), NEW n \in Names, t[i][n].id # 0
      PROVE  t[i][n] \in Symbols /\ t[i][n].id \in Ids /\ ds[t[i][n].id] \in Decls
  <2>1. t[i][n] \in Symbols /\ t[i][n].id \in Ids
    BY <1>2, SymbolType DEF Sound
  <2>2. HeldIn(o, t, g, t[i][n].id)
    BY DEF HeldIn
  <2>3. QED BY <2>1, <2>2 DEF Sound, Declared
<1>3. QED BY <1>1, <1>2

Change(t, w, n, s) == [t EXCEPT ![w] = [t[w] EXCEPT ![n] = s]]
LEMMA OneChange ==
  ASSUME NEW t \in Seq(Tables), NEW w \in 1..Len(t), NEW n \in Names, NEW s \in Symbols
  PROVE  /\ Change(t, w, n, s) \in Seq(Tables) /\ Len(Change(t, w, n, s)) = Len(t) /\ Change(t, w, n, s)[w][n] = s
         /\ \A i \in 1..Len(t), m \in Names : i # w \/ m # n => Change(t, w, n, s)[i][m] = t[i][m]
<1>1. t[w] \in Tables
  OBVIOUS
<1> DEFINE r == [t[w] EXCEPT ![n] = s]
           t1 == Change(t, w, n, s)
<1>2. r \in Tables /\ r[n] = s /\ \A m \in Names : m # n => r[m] = t[w][m]
  BY <1>1 DEF Tables
<1> HIDE DEF r
<1>3. t1 = [t EXCEPT ![w] = r]
  BY DEF r, Change
<1>4. t1 \in Seq(Tables) /\ Len(t1) = Len(t) /\ t1[w] = r /\ \A i \in 1..Len(t) : i # w => t1[i] = t[i]
  BY <1>2, <1>3
<1>5. QED BY <1>2, <1>4

OnlyChanged(t, t1, w, n, s) ==
  /\ t1 \in Seq(Tables) /\ Len(t1) = Len(t) /\ t1[w][n] = s
  /\ \A i \in 1..Len(t), m \in Names : i # w \/ m # n => t1[i][m] = t[i][m]
LEMMA OnlyOneChange ==
  ASSUME NEW t \in Seq(Tables), NEW w \in 1..Len(t), NEW n \in Names, NEW s \in Symbols
  PROVE  OnlyChanged(t, Change(t, w, n, s), w, n, s)
BY OneChange DEF OnlyChanged

(* The declarations that nothing holds do not matter.                       *)
LEMMA SoundForgotten ==
  ASSUME NEW o, NEW t, NEW g, NEW ds, NEW ds1 \in [Ids -> Decls \cup {NoDecl}], Sound(o, t, g, ds),
         \A d \in Ids : HeldIn(o, t, g, d) => ds1[d] = ds[d]
  PROVE  Sound(o, t, g, ds1)
<1>1. ASSUME NEW i \in 1..Len(t), NEW n \in Names, t[i][n].id # 0
      PROVE  ds1[t[i][n].id] = ds[t[i][n].id]
  <2>1. t[i][n].id \in Ids
    BY <1>1, SoundTables
  <2>2. HeldIn(o, t, g, t[i][n].id)
    BY DEF HeldIn
  <2>3. QED BY <2>1, <2>2
<1>2. Declared(o, t, g, ds1)
  BY DEF Sound, Declared
<1>3. Lexical(o, t, g, ds1)
  <2>1. SUFFICES ASSUME NEW j \in Ends(o), NEW n \in Names, NEW i \in 1..Len(t), FoundAt(t, Level(o, j), n, i)
                 PROVE  VisibleAt(o, g, j, n, t[i][n].id) \/ ds1[t[i][n].id].closed
    BY DEF Lexical, Scoped
  <2>2. VisibleAt(o, g, j, n, t[i][n].id) \/ ds[t[i][n].id].closed
    BY <2>1 DEF Sound, Lexical, Scoped
  <2>3. t[i][n].id # 0
    BY <2>1 DEF FoundAt
  <2>4. QED BY <1>1, <2>2, <2>3
<1>4. SymbolsFit(t, ds1)
  BY <1>1 DEF Sound, SymbolsFit
<1>5. OneSymbol(t, ds1)
  BY <1>1 DEF Sound, OneSymbol
<1>6. QED BY <1>2, <1>3, <1>4, <1>5 DEF Sound

LEMMA SoundKept ==
  ASSUME NEW ds, Sound(open', tables', globals', ds)
  PROVE  Sound(open', tables', globals', Kept(ds))
<1>1. Kept(ds) = [d \in Ids |-> IF d \in Held' THEN ds[d] ELSE NoDecl]
  BY DEF Kept
<1>2. ds \in [Ids -> Decls \cup {NoDecl}]
  BY DEF Sound
<1>3. Kept(ds) \in [Ids -> Decls \cup {NoDecl}]
  BY <1>1, <1>2
<1>4. ASSUME NEW d \in Ids, HeldIn(open', tables', globals', d) PROVE d \in Held'
  BY <1>4 DEF HeldIn, Held
<1>5. \A d \in Ids : HeldIn(open', tables', globals', d) => Kept(ds)[d] = ds[d]
  BY <1>1, <1>4
<1>6. QED BY <1>3, <1>5, SoundForgotten

(* The marks of symbols and declarations.                                   *)
LEMMA SoundMarked ==
  ASSUME NEW o, NEW t, NEW g, NEW ds, NEW t1 \in Seq(Tables), NEW ds1 \in [Ids -> Decls \cup {NoDecl}],
         Sound(o, t, g, ds), Len(t1) = Len(t),
         \A i \in 1..Len(t), n \in Names : t1[i][n].id = t[i][n].id,
         \A d \in Ids : ds[d] \in Decls =>
           ds1[d] \in Decls /\ ds1[d].closed = ds[d].closed /\ ds1[d].nonlocal = ds[d].nonlocal,
         SymbolsFit(t1, ds1)
  PROVE  Sound(o, t1, g, ds1)
<1>1. Declared(o, t1, g, ds1)
  <2>1. ASSUME NEW d \in Ids, HeldIn(o, t1, g, d) PROVE HeldIn(o, t, g, d)
    BY <2>1 DEF HeldIn
  <2>2. QED BY <2>1 DEF Declared, Sound
<1>2. \A i \in 1..Len(t), n \in Names : t[i][n].id # 0 =>
        t[i][n].id \in Ids /\ ds[t[i][n].id] \in Decls
  BY SoundTables
<1>3. OneSymbol(t1, ds1)
  <2>1. SUFFICES ASSUME NEW i \in 1..Len(t1), NEW k \in 1..Len(t1), NEW n \in Names, NEW m \in Names,
                        t1[i][n].id # 0, t1[i][n].id = t1[k][m].id
                 PROVE  (i = k /\ n = m) \/ ds1[t1[i][n].id].nonlocal
    BY DEF OneSymbol
  <2>2. t[i][n].id # 0 /\ t[i][n].id = t[k][m].id /\ i \in 1..Len(t) /\ k \in 1..Len(t)
    BY <2>1
  <2>3. (i = k /\ n = m) \/ ds[t[i][n].id].nonlocal
    BY <2>2 DEF Sound, OneSymbol
  <2>4. QED BY <1>2, <2>2, <2>3
<1>4. Lexical(o, t1, g, ds1)
  <2>1. SUFFICES ASSUME NEW j \in Ends(o), NEW n \in Names, NEW i \in 1..Len(t1), FoundAt(t1, Level(o, j), n, i)
                 PROVE  VisibleAt(o, g, j, n, t1[i][n].id) \/ ds1[t1[i][n].id].closed
    BY DEF Lexical, Scoped
  <2>2. Level(o, j) <= Len(t) /\ Level(o, j) \in Nat /\ Len(t) \in Nat
    BY LowerEnds, SoundTables DEF Sound
  <2>3. FoundAt(t, Level(o, j), n, i) /\ i \in 1..Len(t)
    BY <2>1, <2>2 DEF FoundAt
  <2>4. VisibleAt(o, g, j, n, t[i][n].id) \/ ds[t[i][n].id].closed
    BY <2>3 DEF Sound, Lexical, Scoped
  <2>5. t[i][n].id # 0
    BY <2>3 DEF FoundAt
  <2>6. QED BY <1>2, <2>3, <2>4, <2>5
<1>5. QED BY <1>1, <1>3, <1>4 DEF Sound

(* A declaration in the table and the block that are last.                  *)
Suits(decl, type) ==
  /\ decl \in Decls /\ decl.closed = FALSE /\ decl.read = FALSE
  /\ decl.nullable => type = "nullable" \/ decl.kind = "untyped"
OnlyHere(o, o1, t, t1, g, g1, ds, ds1, n, id) ==
  /\ o1 \in Seq(Frames) /\ Len(o1) = Len(o) /\ t1 \in Seq(Tables) /\ Len(t1) = Len(t) /\ Len(t) >= 1
  /\ ~HeldIn(o, t, g, id)
  /\ \A i \in 1..Len(o), m \in Names : i # Len(o) \/ m # n => o1[i].block[m] = o[i].block[m]
  /\ \A m \in Names : Len(o) # 0 \/ m # n => g1[m] = g[m]
  /\ Len(o) # 0 => o1[Len(o)].block[n] = id
  /\ Len(o) = 0 => g1[n] = id
  /\ t1[Len(t)][n].id = id
  /\ \A i \in 1..Len(t), m \in Names : i # Len(t) \/ m # n => t1[i][m] = t[i][m]
  /\ \A d \in Ids : d # id => ds1[d] = ds[d]

Places(o, o1, t, t1, g, g1, n, id, type, sc) ==
  /\ t1 = Change(t, Len(t), n, NewSymbol(n, id, type, sc))
  /\ IF o = <<>> THEN g1 = [g EXCEPT ![n] = id] /\ o1 = o
     ELSE o1 = [o EXCEPT ![Len(o)].block[n] = id] /\ g1 = g
Enters(ds, ds1, id, decl, type) ==
  ds[id] = NoDecl /\ Suits(decl, type) /\ ds1 = [ds EXCEPT ![id] = decl]
Entered(o, o1, t, t1, g, g1, ds, ds1, n, id) ==
  Sound(o1, t1, g1, ds1) /\ OnlyHere(o, o1, t, t1, g, g1, ds, ds1, n, id)

LEMMA SoundDeclared ==
  ASSUME NEW o, NEW t, NEW g, NEW ds, Sound(o, t, g, ds), NEW n \in Names, NEW id \in Ids,
         NEW type \in {"value", "nullable", "function"}, NEW sc \in {"global", "local", "field"},
         NEW o1, NEW t1, NEW g1, NEW ds1, NEW decl,
         Places(o, o1, t, t1, g, g1, n, id, type, sc), Enters(ds, ds1, id, decl, type)
  PROVE  Entered(o, o1, t, t1, g, g1, ds, ds1, n, id)
<1> DEFINE s == NewSymbol(n, id, type, sc)
           L == Len(t)
           N == Len(o)
<1>1. /\ s \in Symbols /\ s.id = id /\ s.type = type /\ s.checked = FALSE /\ s.referenced = FALSE /\ s.scope = sc
  BY DEF NewSymbol, Symbols
<1>2. /\ decl \in Decls /\ decl.closed = FALSE /\ decl.read = FALSE
      /\ decl.nullable => type = "nullable" \/ decl.kind = "untyped"
  BY DEF Suits, Enters
<1>3. ds \in [Ids -> Decls \cup {NoDecl}] /\ id # 0 /\ ds[id] = NoDecl /\ ds1 = [ds EXCEPT ![id] = decl]
  BY DEF Sound, Ids, Enters
<1>4. ds1 \in [Ids -> Decls \cup {NoDecl}] /\ ds1[id] = decl /\ \A d \in Ids : d # id => ds1[d] = ds[d]
  BY <1>2, <1>3
<1>5. L \in Nat /\ L >= 1 /\ N \in Nat /\ t \in Seq(Tables) /\ o \in Seq(Frames) /\ g \in Blocks
  BY SoundTables DEF Sound
<1> HIDE DEF s, L, N
<1>6. t1 \in Seq(Tables) /\ Len(t1) = L /\ t1[L][n] = s
      /\ \A i \in 1..L, m \in Names : i # L \/ m # n => t1[i][m] = t[i][m]
  <2>1. t1 = Change(t, L, n, s) /\ L \in 1..Len(t) /\ L = Len(t)
    BY <1>5 DEF L, s, Places
  <2>2. s \in Symbols /\ t \in Seq(Tables) /\ L \in 1..Len(t)
    BY <1>1, <1>5, <2>1
  <2> HIDE DEF L, s
  <2>3. OnlyChanged(t, Change(t, L, n, s), L, n, s)
    BY <2>2, OnlyOneChange
  <2>4. QED BY <2>1, <2>3 DEF OnlyChanged
<1>7. id \in 0..MaxDecls
  BY <1>3 DEF Ids
<1>8. /\ o1 \in Seq(Frames) /\ Len(o1) = N /\ g1 \in Blocks
      /\ \A i \in 1..N : o1[i].kind = o[i].kind
      /\ \A i \in 1..N, m \in Names : i # N \/ m # n => o1[i].block[m] = o[i].block[m]
      /\ \A m \in Names : N # 0 \/ m # n => g1[m] = g[m]
      /\ N # 0 => o1[N].block[n] = id
      /\ N = 0 => g1[n] = id
  <2>1. CASE o = <<>>
    <3>1. N = 0 /\ o1 = o /\ g1 = [g EXCEPT ![n] = id]
      BY <2>1 DEF N, Places
    <3>2. g1 \in Blocks /\ g1[n] = id /\ \A m \in Names : m # n => g1[m] = g[m]
      BY <1>5, <1>7, <3>1 DEF Blocks
    <3>3. QED BY <1>5, <3>1, <3>2 DEF N
  <2>2. CASE o # <<>>
    <3>1. N # 0 /\ N \in 1..N /\ o[N] \in Frames
      BY <1>5, <2>2 DEF N
    <3>2. DEFINE f == [o[N] EXCEPT !.block = [o[N].block EXCEPT ![n] = id]]
    <3>3. f \in Frames /\ f.kind = o[N].kind /\ f.block[n] = id
          /\ \A m \in Names : m # n => f.block[m] = o[N].block[m]
      BY <1>7, <3>1 DEF Frames, Blocks
    <3>4. o1 = [o EXCEPT ![N] = f] /\ g1 = g
      BY <2>2 DEF N, Places
    <3> HIDE DEF f
    <3>5. o1 \in Seq(Frames) /\ Len(o1) = N /\ o1[N] = f /\ \A i \in 1..N : i # N => o1[i] = o[i]
      BY <1>5, <3>1, <3>3, <3>4 DEF N
    <3>6. QED BY <1>5, <3>1, <3>3, <3>4, <3>5
  <2>3. QED BY <2>1, <2>2
<1>9. ~HeldIn(o, t, g, id)
  BY <1>3, Undeclared DEF Sound, Declared
<1>10. \A i \in 1..L, m \in Names : t[i][m].id # id /\ (t[i][m].id # 0 => t[i][m].id \in Ids /\ ds1[t[i][m].id] = ds[t[i][m].id])
  <2> TAKE i \in 1..L, m \in Names
  <2>1. t[i][m].id # id
    BY <1>9 DEF HeldIn, L
  <2>2. t[i][m].id # 0 => t[i][m].id \in Ids
    BY SoundTables DEF L
  <2>3. QED BY <1>4, <2>1, <2>2
<1>11. Declared(o1, t1, g1, ds1)
  <2>1. ASSUME NEW d \in Ids, d # id, HeldIn(o1, t1, g1, d) PROVE HeldIn(o, t, g, d)
    <3>1. CASE \E i \in 1..Len(t1), m \in Names : t1[i][m].id = d
      BY <1>1, <1>6, <2>1, <3>1 DEF HeldIn, L
    <3>2. CASE \E i \in 1..Len(o1), m \in Names : o1[i].block[m] = d
      <4>1. PICK i \in 1..Len(o1), m \in Names : o1[i].block[m] = d
        BY <3>2
      <4>2. i \in 1..N /\ N # 0 /\ (i # N \/ m # n)
        BY <1>5, <1>8, <2>1, <4>1
      <4>3. QED BY <1>8, <4>1, <4>2 DEF HeldIn, N
    <3>3. CASE \E m \in Names : g1[m] = d
      <4>1. PICK m \in Names : g1[m] = d
        BY <3>3
      <4>2. N # 0 \/ m # n
        BY <1>8, <2>1, <4>1
      <4>3. QED BY <1>8, <4>1, <4>2 DEF HeldIn
    <3>4. QED BY <2>1, <3>1, <3>2, <3>3 DEF HeldIn
  <2>2. QED BY <1>2, <1>4, <2>1 DEF Declared, Sound
<1>12. Lexical(o1, t1, g1, ds1)
  <2>1. VisibleAt(o1, g1, N, n, id)
    <3>1. CASE N = 0
      <4>1. \A k \in 1..N : o1[k].block[n] = 0
        BY <3>1
      <4>2. QED BY <1>8, <3>1, <4>1 DEF VisibleAt
    <3>2. CASE N # 0
      <4>1. N \in 1..N /\ \A k \in N + 1..N : o1[k].block[n] = 0
        BY <1>5, <3>2
      <4>2. QED BY <1>3, <1>8, <3>2, <4>1 DEF VisibleAt
    <3>3. QED BY <3>1, <3>2
  <2>2. /\ L = Level(o, N) /\ Lexical(o, t, g, ds)
    BY DEF Sound, L, N
  <2>3. \A i \in 1..L, m \in Names : t[i][m].id # 0 /\ ds[t[i][m].id].closed => ds1[t[i][m].id].closed
    BY <1>10
  <2>4. t1[L][n].id = id /\ \A i \in 1..L, m \in Names : i # L \/ m # n => t1[i][m].id = t[i][m].id
    BY <1>1, <1>6
  <2>5. /\ t \in Seq(Tables) /\ t1 \in Seq(Tables) /\ o \in Seq(Frames) /\ o1 \in Seq(Frames)
        /\ Len(o1) = Len(o) /\ Len(t1) = Len(t) /\ id # 0
    BY <1>3, <1>5, <1>6, <1>8 DEF L, N
  <2>6. /\ \A i \in 1..Len(o) : o1[i].kind = o[i].kind
        /\ \A i \in 1..Len(o), m \in Names : i # Len(o) \/ m # n => o1[i].block[m] = o[i].block[m]
        /\ \A m \in Names : Len(o) # 0 \/ m # n => g1[m] = g[m]
    BY <1>8 DEF N
  <2>7. /\ Len(t) = Level(o, Len(o)) /\ t1[Len(t)][n].id = id
        /\ \A i \in 1..Len(t), m \in Names : i # Len(t) \/ m # n => t1[i][m].id = t[i][m].id
        /\ \A i \in 1..Len(t), m \in Names : t[i][m].id # 0 /\ ds[t[i][m].id].closed => ds1[t[i][m].id].closed
        /\ VisibleAt(o1, g1, Len(o), n, id) \/ ds1[id].closed
        /\ Lexical(o, t, g, ds)
    BY <2>1, <2>2, <2>3, <2>4 DEF L, N
  <2>8. OnlyLast(o, o1, t, t1, g, g1, ds, ds1, n, id)
    BY <2>5, <2>6, <2>7 DEF OnlyLast
  <2>9. QED BY <2>7, <2>8, LexicalLast
<1>13. SymbolsFit(t1, ds1)
  <2>1. ASSUME NEW i \in 1..Len(t1), NEW m \in Names, t1[i][m].id # 0
        PROVE  Fits(t1[i][m], ds1[t1[i][m].id])
    <3>1. CASE i = L /\ m = n
      <4>1. t1[i][m] = s /\ t1[i][m].id = id /\ ds1[id] = decl
        BY <1>1, <1>4, <1>6, <3>1
      <4>2. Fits(s, decl)
        BY <1>1, <1>2 DEF Fits
      <4>3. QED BY <4>1, <4>2
    <3>2. CASE ~(i = L /\ m = n)
      <4>1. t1[i][m] = t[i][m] /\ i \in 1..L /\ ds1[t[i][m].id] = ds[t[i][m].id]
        BY <1>6, <1>10, <2>1, <3>2
      <4>2. QED BY <2>1, <4>1 DEF Sound, SymbolsFit, L
    <3>3. QED BY <3>1, <3>2
  <2>2. QED BY <2>1 DEF SymbolsFit
<1>14. OneSymbol(t1, ds1)
  <2>1. SUFFICES ASSUME NEW i \in 1..Len(t1), NEW k \in 1..Len(t1), NEW p \in Names, NEW m \in Names,
                        t1[i][p].id # 0, t1[i][p].id = t1[k][m].id, ~(i = k /\ p = m)
                 PROVE  ds1[t1[i][p].id].nonlocal
    BY DEF OneSymbol
  <2>2. i \in 1..L /\ k \in 1..L
    BY <1>6
  <2>3. ~(i = L /\ p = n) /\ ~(k = L /\ m = n)
    BY <1>1, <1>6, <1>10, <2>1, <2>2
  <2>4. t1[i][p] = t[i][p] /\ t1[k][m] = t[k][m]
    BY <1>6, <2>2, <2>3
  <2>5. ds[t[i][p].id].nonlocal
    BY <2>1, <2>2, <2>4 DEF Sound, OneSymbol, L
  <2>6. QED BY <1>10, <2>1, <2>2, <2>4, <2>5
<1>15. Len(t1) = Level(o1, Len(o1))
  <2>1. Level(o1, N) = Level(o, N) /\ L = Level(o, N)
    BY <1>5, <1>8, LevelSame DEF Sound, L, N
  <2>2. QED BY <1>6, <1>8, <2>1
<1>16. Sound(o1, t1, g1, ds1)
  BY <1>4, <1>6, <1>8, <1>11, <1>12, <1>13, <1>14, <1>15 DEF Sound
<1>17. OnlyHere(o, o1, t, t1, g, g1, ds, ds1, n, id)
  BY <1>1, <1>4, <1>5, <1>6, <1>8, <1>9 DEF OnlyHere, L, N
<1>18. QED BY <1>16, <1>17 DEF Entered

(* A nested function binds a name of the functions around it.               *)
Rebound(o, t, t1, g, ds, ds1, n, id) ==
  /\ Sound(o, t1, g, ds1)
  /\ t1 \in Seq(Tables) /\ Len(t1) = Len(t) /\ t1[Len(t)][n].id = id
  /\ \A i \in 1..Len(t), m \in Names : i # Len(t) \/ m # n => t1[i][m] = t[i][m]
  /\ \A d \in Ids : ds1[d].eclipsed = ds[d].eclipsed

LEMMA SoundNonLocal ==
  ASSUME NEW o, NEW t, NEW g, NEW ds, Sound(o, t, g, ds), NEW n \in Names, NEW w \in 1..Len(t),
         FoundAt(t, Len(t), n, w), t[Len(t)][n].id = 0
  PROVE  Rebound(o, t, [t EXCEPT ![Len(t)][n] = NewSymbol(n, t[w][n].id, t[w][n].type, "nonlocal")], g,
                 ds, [ds EXCEPT ![t[w][n].id].nonlocal = TRUE], n, t[w][n].id)
<1> DEFINE id == t[w][n].id
           s == NewSymbol(n, id, t[w][n].type, "nonlocal")
           t1 == [t EXCEPT ![Len(t)][n] = s]
           ds1 == [ds EXCEPT ![id].nonlocal = TRUE]
           L == Len(t)
           N == Len(o)
<1>1. id # 0 /\ t[w][n] \in Symbols /\ id \in Ids /\ ds[id] \in Decls
  BY SoundTables DEF FoundAt
<1>2. t[w][n].type \in {"value", "nullable", "function"}
  BY <1>1 DEF Symbols
<1>3. s \in Symbols /\ s.id = id /\ s.type = t[w][n].type /\ s.checked = FALSE /\ s.scope = "nonlocal"
  BY <1>1, <1>2 DEF NewSymbol, Symbols
<1>4. ds \in [Ids -> Decls \cup {NoDecl}] /\ ds1 = [ds EXCEPT ![id] = [ds[id] EXCEPT !.nonlocal = TRUE]]
  BY DEF Sound
<1>5. /\ [ds[id] EXCEPT !.nonlocal = TRUE] \in Decls
      /\ [ds[id] EXCEPT !.nonlocal = TRUE].nonlocal = TRUE
      /\ [ds[id] EXCEPT !.nonlocal = TRUE].closed = ds[id].closed
      /\ [ds[id] EXCEPT !.nonlocal = TRUE].nullable = ds[id].nullable
      /\ [ds[id] EXCEPT !.nonlocal = TRUE].checked = ds[id].checked
      /\ [ds[id] EXCEPT !.nonlocal = TRUE].read = ds[id].read
      /\ [ds[id] EXCEPT !.nonlocal = TRUE].kind = ds[id].kind
      /\ [ds[id] EXCEPT !.nonlocal = TRUE].eclipsed = ds[id].eclipsed
  BY <1>1 DEF Decls
<1> HIDE DEF s, id, ds1
<1>6. ds1 \in [Ids -> Decls \cup {NoDecl}] /\ ds1[id] = [ds[id] EXCEPT !.nonlocal = TRUE]
      /\ \A d \in Ids : d # id => ds1[d] = ds[d]
  BY <1>1, <1>4, <1>5
<1>7. /\ ds1[id] \in Decls /\ ds1[id].nonlocal = TRUE /\ ds1[id].closed = ds[id].closed
      /\ ds1[id].nullable = ds[id].nullable /\ ds1[id].checked = ds[id].checked /\ ds1[id].read = ds[id].read
      /\ ds1[id].kind = ds[id].kind /\ ds1[id].eclipsed = ds[id].eclipsed
  BY <1>5, <1>6
<1>8. L \in Nat /\ L >= 1 /\ N \in Nat /\ N \in Ends(o) /\ t \in Seq(Tables) /\ o \in Seq(Frames) /\ L = Level(o, N)
  BY SoundTables DEF Sound
<1>18. t1 = Change(t, L, n, s) /\ L \in 1..L
  BY <1>8 DEF Change
<1> HIDE DEF t1
<1>9. t1 \in Seq(Tables) /\ Len(t1) = L /\ t1[L][n] = s
      /\ \A i \in 1..L, m \in Names : i # L \/ m # n => t1[i][m] = t[i][m]
  <2>1. t \in Seq(Tables) /\ L \in 1..Len(t) /\ s \in Symbols
    BY <1>3, <1>8, <1>18
  <2> HIDE DEF L
  <2> DEFINE c == Change(t, L, n, s)
  <2>2. c \in Seq(Tables) /\ Len(c) = Len(t) /\ c[L][n] = s
    BY <2>1, OneChange
  <2>3. \A i \in 1..Len(t), m \in Names : i # L \/ m # n => c[i][m] = t[i][m]
    BY <2>1, OneChange
  <2> HIDE DEF c
  <2>4. t1 = c
    BY <1>18 DEF c
  <2>5. QED BY <2>2, <2>3, <2>4 DEF L
<1>10. \A i \in 1..L, m \in Names : t[i][m].id # 0 => t[i][m].id \in Ids
  BY SoundTables
<1>11. \A i \in 1..L, m \in Names : t1[i][m].id = (IF i = L /\ m = n THEN id ELSE t[i][m].id)
  BY <1>3, <1>9
<1>12. Declared(o, t1, g, ds1)
  <2>1. ASSUME NEW d \in Ids, HeldIn(o, t1, g, d) PROVE ds1[d] \in Decls
    <3>1. CASE d = id
      BY <1>7, <3>1
    <3>2. CASE d # id
      <4>1. HeldIn(o, t, g, d)
        BY <1>9, <1>11, <2>1, <3>2 DEF HeldIn
      <4>2. QED BY <1>6, <3>2, <4>1 DEF Declared, Sound
    <3>3. QED BY <3>1, <3>2
  <2>2. QED BY <2>1 DEF Declared
<1>13. Lexical(o, t1, g, ds1)
  <2>1. VisibleAt(o, g, N, n, id) \/ ds[id].closed
    BY <1>8 DEF Sound, Lexical, Scoped, id
  <2>2. \A i \in 1..L, m \in Names : t[i][m].id # 0 /\ ds[t[i][m].id].closed => ds1[t[i][m].id].closed
    BY <1>6, <1>7, <1>10
  <2>3. /\ VisibleAt(o, g, N, n, id) \/ ds1[id].closed
        /\ t1[L][n].id = id /\ id # 0
        /\ \A i \in 1..L, m \in Names : i # L \/ m # n => t1[i][m].id = t[i][m].id
    BY <1>1, <1>3, <1>7, <1>9, <2>1 DEF id
  <2>4. OnlyLast(o, o, t, t1, g, g, ds, ds1, n, id)
    BY <1>8, <1>9, <2>2, <2>3 DEF OnlyLast
  <2>5. QED BY <2>4, LexicalLast DEF Sound
<1>14. SymbolsFit(t1, ds1)
  <2>1. ASSUME NEW i \in 1..L, NEW m \in Names, t1[i][m].id # 0
        PROVE  Fits(t1[i][m], ds1[t1[i][m].id])
    <3>1. Fits(t[w][n], ds[id])
      BY <1>1 DEF Sound, SymbolsFit, id
    <3>2. CASE i = L /\ m = n
      <4>1. Fits(s, ds1[id])
        BY <1>3, <1>7, <3>1 DEF Fits
      <4>2. QED BY <1>3, <1>9, <3>2, <4>1
    <3>3. CASE ~(i = L /\ m = n)
      <4>1. t1[i][m] = t[i][m] /\ Fits(t[i][m], ds[t[i][m].id]) /\ t[i][m].id \in Ids
        BY <1>9, <1>10, <2>1, <3>3 DEF Sound, SymbolsFit
      <4>2. CASE t[i][m].id = id
        BY <1>7, <4>1, <4>2 DEF Fits
      <4>3. CASE t[i][m].id # id
        BY <1>6, <4>1, <4>3
      <4>4. QED BY <4>2, <4>3
    <3>4. QED BY <3>2, <3>3
  <2>2. QED BY <1>9, <2>1 DEF SymbolsFit
<1>15. OneSymbol(t1, ds1)
  <2>1. SUFFICES ASSUME NEW i \in 1..L, NEW k \in 1..L, NEW p \in Names, NEW m \in Names,
                        t1[i][p].id # 0, t1[i][p].id = t1[k][m].id, ~(i = k /\ p = m)
                 PROVE  ds1[t1[i][p].id].nonlocal
    BY <1>9 DEF OneSymbol
  <2>2. CASE t1[i][p].id = id
    BY <1>7, <2>2
  <2>3. CASE t1[i][p].id # id
    <3>1. t1[i][p].id = t[i][p].id /\ t1[k][m].id = t[k][m].id
      BY <1>11, <2>1, <2>3
    <3>3. t[i][p].id # 0 /\ t[i][p].id # id /\ t[i][p].id = t[k][m].id /\ OneSymbol(t, ds)
      BY <2>1, <2>3, <3>1 DEF Sound
    <3>2. ds[t[i][p].id].nonlocal
      BY <2>1, <3>3 DEF OneSymbol
    <3>4. t[i][p].id \in Ids
      BY <1>10, <3>3
    <3>5. ds1[t[i][p].id] = ds[t[i][p].id]
      BY <1>6, <3>3, <3>4
    <3>6. QED BY <3>1, <3>2, <3>5
  <2>4. QED BY <2>2, <2>3
<1>16. Sound(o, t1, g, ds1)
  BY <1>6, <1>8, <1>9, <1>12, <1>13, <1>14, <1>15 DEF Sound
<1>17. \A d \in Ids : ds1[d].eclipsed = ds[d].eclipsed
  BY <1>6, <1>7
<1>19. Rebound(o, t, t1, g, ds, ds1, n, id)
  BY <1>3, <1>9, <1>16, <1>17 DEF Rebound
<1>20. QED BY <1>19 DEF t1, ds1, s, id

(* Constructs that open and close.                                          *)
LEMMA SoundOpened ==
  ASSUME NEW o, NEW t, NEW g, NEW ds, Sound(o, t, g, ds), NEW f \in Frames, f.block = NoNames, NEW t1,
         t1 = IF f.kind \in TableKinds THEN Append(t, Empty) ELSE t
  PROVE  Sound(Append(o, f), t1, g, ds)
<1> DEFINE o1 == Append(o, f)
<1>1. Len(t) \in Nat /\ Len(o) \in Nat /\ t \in Seq(Tables) /\ o \in Seq(Frames)
  BY SoundTables DEF Sound
<1>2. Empty \in Tables /\ \A n \in Names : Empty[n].id = 0
  BY DEF Empty, Tables, NoSymbol
<1>3. /\ t1 \in Seq(Tables) /\ Len(t1) >= Len(t) /\ Len(t1) \in Nat
      /\ \A i \in 1..Len(t) : t1[i] = t[i]
      /\ \A i \in 1..Len(t1), n \in Names : t1[i][n].id # 0 => i \in 1..Len(t)
  <2>1. CASE f.kind \in TableKinds
    <3>1. t1 = Append(t, Empty)
      BY <2>1
    <3>2. t1 \in Seq(Tables) /\ Len(t1) = Len(t) + 1 /\ t1[Len(t) + 1] = Empty /\ \A i \in 1..Len(t) : t1[i] = t[i]
      BY <1>1, <1>2, <3>1
    <3>3. QED BY <1>1, <1>2, <3>2
  <2>2. CASE f.kind \notin TableKinds
    BY <1>1, <2>2
  <2>3. QED BY <2>1, <2>2
<1>4. o1 \in Seq(Frames) /\ Len(o1) = Len(o) + 1 /\ o1[Len(o) + 1] = f /\ \A k \in 1..Len(o) : o1[k] = o[k]
  BY <1>1
<1>5. Lexical(o1, t1, g, ds) /\ Len(t1) = Level(o1, Len(o) + 1)
  <2>1. Lexical(o, t, g, ds) /\ Len(t) = Level(o, Len(o))
    BY DEF Sound
  <2>2. t1 \in Seq(Tables)
    BY <1>3
  <2>3. Lexical(Append(o, f), t1, g, ds)
    BY <1>1, <2>1, <2>2, LexicalOpen
  <2>4. Len(t1) = Level(Append(o, f), Len(o) + 1)
    BY <1>1, <2>1, TablesOpened
  <2>5. QED BY <2>3, <2>4
<1> HIDE DEF o1
<1>6. Declared(o1, t1, g, ds)
  <2>1. ASSUME NEW d \in Ids, HeldIn(o1, t1, g, d) PROVE HeldIn(o, t, g, d)
    <3>1. d # 0
      BY DEF Ids
    <3>2. CASE \E i \in 1..Len(t1), m \in Names : t1[i][m].id = d
      BY <1>3, <3>1, <3>2 DEF HeldIn
    <3>3. CASE \E i \in 1..Len(o1), m \in Names : o1[i].block[m] = d
      <4>1. PICK i \in 1..Len(o1), m \in Names : o1[i].block[m] = d
        BY <3>3
      <4>2. i # Len(o) + 1
        BY <1>4, <3>1, <4>1 DEF NoNames
      <4>3. i \in 1..Len(o)
        BY <1>1, <1>4, <4>1, <4>2
      <4>4. QED BY <1>4, <4>1, <4>3 DEF HeldIn
    <3>4. QED BY <2>1, <3>2, <3>3 DEF HeldIn
  <2>2. QED BY <2>1 DEF Declared, Sound
<1>7. SymbolsFit(t1, ds)
  BY <1>3 DEF Sound, SymbolsFit
<1>8. OneSymbol(t1, ds)
  BY <1>3, SMTT(30) DEF Sound, OneSymbol
<1>9. Sound(o1, t1, g, ds)
  BY <1>3, <1>4, <1>5, <1>6, <1>7, <1>8 DEF Sound
<1>10. QED BY <1>9 DEF o1

LEMMA SoundClosed ==
  ASSUME NEW o, NEW t, NEW g, NEW ds, Sound(o, t, g, ds), o # <<>>, NEW ds1, NEW t1,
         t1 = IF o[Len(o)].kind \in TableKinds THEN SubSeq(t, 1, Len(t) - 1) ELSE t,
         ds1 = IF o[Len(o)].kind \in TableKinds THEN ds
               ELSE [d \in Ids |-> IF d \in {o[Len(o)].block[n] : n \in Names}
                                   THEN [ds[d] EXCEPT !.closed = TRUE] ELSE ds[d]]
  PROVE  Sound(SubSeq(o, 1, Len(o) - 1), t1, g, ds1)
<1> DEFINE o1 == SubSeq(o, 1, Len(o) - 1)
           B == {o[Len(o)].block[n] : n \in Names}
<1>1. Len(t) \in Nat /\ Len(t) >= 1 /\ t \in Seq(Tables) /\ o \in Seq(Frames)
  BY SoundTables DEF Sound
<1>2. /\ Len(o) \in Nat \ {0} /\ Len(o) - 1 \in Nat /\ o1 \in Seq(Frames) /\ Len(o1) = Len(o) - 1
      /\ \A k \in 1..Len(o) - 1 : o1[k] = o[k]
  BY <1>1, Popped
<1>3. t1 \in Seq(Tables) /\ Len(t1) \in Nat /\ Len(t1) <= Len(t) /\ \A i \in 1..Len(t1) : t1[i] = t[i]
  <2>1. CASE o[Len(o)].kind \in TableKinds
    <3>1. t1 = SubSeq(t, 1, Len(t) - 1) /\ t # <<>>
      BY <1>1, <2>1
    <3>2. QED BY <1>1, <3>1, Popped
  <2>2. CASE o[Len(o)].kind \notin TableKinds
    BY <1>1, <2>2
  <2>3. QED BY <2>1, <2>2
<1>4. o[Len(o)] \in Frames /\ Len(o) \in 1..Len(o)
  BY <1>1, <1>2
<1>5. \A n \in Names : o[Len(o)].block[n] \in 0..MaxDecls
  BY <1>4 DEF Frames, Blocks
<1>6. ds \in [Ids -> Decls \cup {NoDecl}]
  BY DEF Sound
<1>7. \A d \in Ids : d \in B => ds[d] \in Decls
  BY <1>4 DEF Sound, Declared, HeldIn
<1> DEFINE same(d) ==
      /\ ds1[d].nullable = ds[d].nullable /\ ds1[d].checked = ds[d].checked
      /\ ds1[d].read = ds[d].read /\ ds1[d].nonlocal = ds[d].nonlocal
      /\ ds1[d].kind = ds[d].kind /\ ds1[d].eclipsed = ds[d].eclipsed
      /\ ds[d].closed => ds1[d].closed
<1>8. /\ ds1 \in [Ids -> Decls \cup {NoDecl}]
      /\ \A d \in Ids : ds[d] \in Decls => ds1[d] \in Decls
      /\ \A d \in Ids : ds[d] \in Decls => same(d)
      /\ o[Len(o)].kind \notin TableKinds => \A d \in Ids : d \in B => ds1[d].closed
  <2>1. CASE o[Len(o)].kind \in TableKinds
    BY <1>6, <2>1
  <2>2. CASE o[Len(o)].kind \notin TableKinds
    <3>1. ds1 = [d \in Ids |-> IF d \in B THEN [ds[d] EXCEPT !.closed = TRUE] ELSE ds[d]]
      BY <2>2
    <3>2. ASSUME NEW c \in Decls
          PROVE  /\ [c EXCEPT !.closed = TRUE] \in Decls
                 /\ [c EXCEPT !.closed = TRUE].closed = TRUE
                 /\ [c EXCEPT !.closed = TRUE].nullable = c.nullable
                 /\ [c EXCEPT !.closed = TRUE].checked = c.checked
                 /\ [c EXCEPT !.closed = TRUE].read = c.read
                 /\ [c EXCEPT !.closed = TRUE].nonlocal = c.nonlocal
                 /\ [c EXCEPT !.closed = TRUE].kind = c.kind
                 /\ [c EXCEPT !.closed = TRUE].eclipsed = c.eclipsed
      BY DEF Decls
    <3> HIDE DEF B
    <3>3. \A d \in Ids : d \in B => ds1[d] = [ds[d] EXCEPT !.closed = TRUE]
      BY <3>1
    <3>4. \A d \in Ids : d \notin B => ds1[d] = ds[d]
      BY <3>1
    <3>5. \A d \in Ids : ds1[d] \in Decls \cup {NoDecl}
      BY <1>6, <1>7, <3>2, <3>3, <3>4
    <3>6. ds1 \in [Ids -> Decls \cup {NoDecl}]
      BY <3>1, <3>5
    <3>7. ASSUME NEW d \in Ids, ds[d] \in Decls PROVE ds1[d] \in Decls /\ same(d)
      <4>1. CASE d \in B
        BY <1>7, <3>2, <3>3, <4>1
      <4>2. CASE d \notin B
        BY <3>4, <3>7, <4>2
      <4>3. QED BY <4>1, <4>2
    <3>8. \A d \in Ids : d \in B => ds1[d].closed
      BY <1>7, <3>2, <3>3
    <3>9. QED BY <3>6, <3>7, <3>8
  <2>3. QED BY <2>1, <2>2
<1>9. \A i \in 1..Len(t), n \in Names : t[i][n].id # 0 =>
        t[i][n].id \in Ids /\ ds[t[i][n].id] \in Decls /\ same(t[i][n].id)
  BY <1>8, SoundTables
<1> HIDE DEF same
<1>10. Lexical(o1, t1, g, ds1) /\ Len(t1) = Level(o1, Len(o) - 1)
  <2>1. \A i \in 1..Len(t), m \in Names : t[i][m].id # 0 /\ ds[t[i][m].id].closed => ds1[t[i][m].id].closed
    BY <1>9 DEF same
  <2>2. ASSUME o[Len(o)].kind \notin TableKinds, NEW m \in Names, o[Len(o)].block[m] # 0
        PROVE  ds1[o[Len(o)].block[m]].closed
    <3>1. o[Len(o)].block[m] \in Ids
      BY <1>5, <2>2 DEF Ids
    <3>2. QED BY <1>8, <2>2, <3>1
  <2>3. Len(t) = Level(o, Len(o)) /\ Lexical(o, t, g, ds)
    BY DEF Sound
  <2>4. o[Len(o)].kind \notin TableKinds =>
          \A m \in Names : o[Len(o)].block[m] # 0 => ds1[o[Len(o)].block[m]].closed
    BY <2>2
  <2>5. t1 \in Seq(Tables)
    BY <1>3
  <2> HIDE DEF o1, B
  <2>6. Lexical(SubSeq(o, 1, Len(o) - 1), t1, g, ds1)
    BY <1>1, <2>1, <2>3, <2>4, <2>5, LexicalClose
  <2>7. Len(t1) = Level(SubSeq(o, 1, Len(o) - 1), Len(o) - 1)
    BY <1>1, <2>3, TablesClosed
  <2>8. QED BY <2>6, <2>7 DEF o1
<1> HIDE DEF o1, B
<1>11. Declared(o1, t1, g, ds1)
  <2>1. ASSUME NEW d \in Ids, HeldIn(o1, t1, g, d) PROVE HeldIn(o, t, g, d)
    <3>1. CASE \E i \in 1..Len(t1), m \in Names : t1[i][m].id = d
      BY <1>1, <1>3, <3>1 DEF HeldIn
    <3>2. CASE \E i \in 1..Len(o1), m \in Names : o1[i].block[m] = d
      BY <1>2, <3>2 DEF HeldIn
    <3>3. QED BY <2>1, <3>1, <3>2 DEF HeldIn
  <2>2. QED BY <1>8, <2>1 DEF Declared, Sound
<1>12. SymbolsFit(t1, ds1)
  <2>1. ASSUME NEW i \in 1..Len(t1), NEW n \in Names, t1[i][n].id # 0
        PROVE  Fits(t1[i][n], ds1[t1[i][n].id])
    <3>1. i \in 1..Len(t) /\ t1[i][n] = t[i][n]
      BY <1>1, <1>3
    <3>2. Fits(t[i][n], ds[t[i][n].id]) /\ same(t[i][n].id)
      BY <1>9, <2>1, <3>1 DEF Sound, SymbolsFit
    <3>3. QED BY <3>1, <3>2 DEF Fits, same
  <2>2. QED BY <2>1 DEF SymbolsFit
<1>13. OneSymbol(t1, ds1)
  <2>1. SUFFICES ASSUME NEW i \in 1..Len(t1), NEW k \in 1..Len(t1), NEW p \in Names, NEW m \in Names,
                        t1[i][p].id # 0, t1[i][p].id = t1[k][m].id, ~(i = k /\ p = m)
                 PROVE  ds1[t1[i][p].id].nonlocal
    BY SMTT(30) DEF OneSymbol
  <2>2. i \in 1..Len(t) /\ k \in 1..Len(t) /\ t1[i] = t[i] /\ t1[k] = t[k]
    BY <1>1, <1>3
  <2>3. ds[t[i][p].id].nonlocal /\ same(t[i][p].id)
    BY <1>9, <2>1, <2>2, SMTT(30) DEF Sound, OneSymbol
  <2>4. QED BY <2>2, <2>3 DEF same
<1>14. Sound(o1, t1, g, ds1)
  BY <1>2, <1>3, <1>8, <1>10, <1>11, <1>12, <1>13 DEF Sound
<1>15. QED BY <1>14 DEF o1

(* Uses of a name, and the mark that a comparison with null leaves.         *)
UsedIn(t, w, n) == IF t[w][n].scope = "local" THEN [t EXCEPT ![w][n].referenced = TRUE] ELSE t
MayRead(ds, v) == {ds, [ds EXCEPT ![v].read = TRUE]}

LEMMA SoundUsed ==
  ASSUME NEW o, NEW t, NEW g, NEW ds, Sound(o, t, g, ds), NEW n \in Names, NEW w \in 1..Len(t), t[w][n].id # 0,
         NEW t1, t1 = UsedIn(t, w, n), NEW v \in Ids, ds[v] \in Decls, v = t[w][n].id \/ ds[v].eclipsed,
         NEW ds1, ds1 \in MayRead(ds, v)
  PROVE  /\ Sound(o, t1, g, ds1)
         /\ t1 \in Seq(Tables) /\ Len(t1) = Len(t)
         /\ \A i \in 1..Len(t), m \in Names : t1[i][m].id = t[i][m].id
         /\ \A d \in Ids : ds[d] \in Decls => ds1[d] \in Decls /\ ds1[d].eclipsed = ds[d].eclipsed
                                             /\ ds1[d].closed = ds[d].closed
<1> DEFINE s == t[w][n]
           id == s.id
<1>1. s \in Symbols /\ id \in Ids /\ ds[id] \in Decls
  BY SoundTables
<1>2. Len(t) \in Nat /\ t \in Seq(Tables) /\ ds \in [Ids -> Decls \cup {NoDecl}]
  BY SoundTables DEF Sound
<1>3. DEFINE s1 == [s EXCEPT !.referenced = TRUE]
             c == [ds[v] EXCEPT !.read = TRUE]
<1>4. /\ s1 \in Symbols /\ s1.id = s.id /\ s1.type = s.type /\ s1.checked = s.checked
      /\ s1.scope = s.scope /\ s1.referenced = TRUE
  BY <1>1 DEF Symbols
<1>5. /\ c \in Decls /\ c.nullable = ds[v].nullable /\ c.checked = ds[v].checked
      /\ c.closed = ds[v].closed /\ c.nonlocal = ds[v].nonlocal
      /\ c.kind = ds[v].kind /\ c.eclipsed = ds[v].eclipsed
  BY DEF Decls
<1> HIDE DEF s, id, s1, c
<1>6. /\ t1 \in Seq(Tables) /\ Len(t1) = Len(t)
      /\ t1[w][n] = IF s.scope = "local" THEN s1 ELSE s
      /\ \A i \in 1..Len(t), m \in Names : i # w \/ m # n => t1[i][m] = t[i][m]
  <2>1. CASE s.scope = "local"
    <3>1. t1 = Change(t, w, n, s1)
      BY <2>1 DEF s, s1, Change, UsedIn
    <3>2. QED BY <1>2, <1>4, <2>1, <3>1, OneChange
  <2>2. CASE s.scope # "local"
    <3>1. t1 = t
      BY <2>2 DEF s, UsedIn
    <3>2. QED BY <1>2, <2>2, <3>1 DEF s
  <2>3. QED BY <2>1, <2>2
<1>7. t1[w][n].id = id /\ id # 0
  BY <1>4, <1>6 DEF id, s
<1>8. \A i \in 1..Len(t), m \in Names : t1[i][m].id = t[i][m].id
  BY <1>6, <1>7 DEF id, s
<1>9. ds1 = ds \/ ds1 = [ds EXCEPT ![v] = c]
  BY DEF c, MayRead
<1>15. v = id \/ ds[v].eclipsed
  BY DEF s, id
<1>10. ds1 \in [Ids -> Decls \cup {NoDecl}]
  BY <1>1, <1>2, <1>5, <1>9
<1>11. \A d \in Ids : ds[d] \in Decls =>
         /\ ds1[d] \in Decls /\ ds1[d].closed = ds[d].closed /\ ds1[d].nonlocal = ds[d].nonlocal
         /\ ds1[d].nullable = ds[d].nullable /\ ds1[d].checked = ds[d].checked
         /\ ds1[d].kind = ds[d].kind /\ ds1[d].eclipsed = ds[d].eclipsed
         /\ d # v => ds1[d].read = ds[d].read
  <2> TAKE d \in Ids
  <2> HAVE ds[d] \in Decls
  <2>1. CASE ds1[d] = ds[d]
    BY <2>1
  <2>2. CASE d = v /\ ds1[d] = c
    BY <1>5, <2>2
  <2>3. QED BY <1>2, <1>9, <2>1, <2>2
<1>12. SymbolsFit(t1, ds1)
  <2>1. ASSUME NEW i \in 1..Len(t), NEW m \in Names, t1[i][m].id # 0
        PROVE  Fits(t1[i][m], ds1[t1[i][m].id])
    <3>1. t[i][m].id # 0 /\ t[i][m].id \in Ids /\ ds[t[i][m].id] \in Decls
      BY <1>8, <2>1, SoundTables
    <3>2. Fits(t[i][m], ds[t[i][m].id])
      BY <3>1 DEF Sound, SymbolsFit
    <3>3. CASE i = w /\ m = n
      <4>1. Fits(s, ds[id]) /\ t1[i][m].id = id
        BY <1>7, <3>2, <3>3 DEF s, id
      <4>2. CASE s.scope = "local"
        <5>1. t1[i][m] = s1
          BY <1>6, <3>3, <4>2
        <5>2. Fits(s1, ds1[id])
          BY <1>1, <1>4, <1>11, <4>1 DEF Fits
        <5>3. QED BY <4>1, <5>1, <5>2
      <4>3. CASE s.scope # "local"
        <5>1. t1[i][m] = s
          BY <1>6, <3>3, <4>3
        <5>2. Fits(s, ds1[id])
          BY <1>1, <1>11, <4>1, <4>3 DEF Fits
        <5>3. QED BY <4>1, <5>1, <5>2
      <4>4. QED BY <4>2, <4>3
    <3>4. CASE ~(i = w /\ m = n)
      <4>1. t1[i][m] = t[i][m]
        BY <1>6, <3>4
      <4>2. CASE t[i][m].id # v
        <5>1. Fits(t[i][m], ds1[t[i][m].id])
          BY <1>11, <3>1, <3>2, <4>2 DEF Fits
        <5>2. QED BY <4>1, <5>1
      <4>5. CASE t[i][m].id = v /\ v # id
        <5>1. ds1[t[i][m].id].eclipsed
          BY <1>11, <1>15, <3>1, <4>5
        <5>2. Fits(t[i][m], ds1[t[i][m].id])
          BY <1>11, <3>1, <3>2, <5>1 DEF Fits
        <5>3. QED BY <4>1, <5>2
      <4>3. CASE t[i][m].id = id
        <5>1. OneSymbol(t, ds) /\ t[w][n].id = t[i][m].id /\ t[w][n].id # 0 /\ ~(w = i /\ n = m)
          BY <3>4, <4>3 DEF Sound, s, id
        <5>2. ds[t[w][n].id].nonlocal
          BY <5>1 DEF OneSymbol
        <5>3. ds1[t[i][m].id].nonlocal
          BY <1>11, <3>1, <5>1, <5>2
        <5>4. Fits(t[i][m], ds1[t[i][m].id])
          BY <1>11, <3>1, <3>2, <5>3 DEF Fits
        <5>5. QED BY <4>1, <5>4
      <4>4. QED BY <4>2, <4>3, <4>5
    <3>5. QED BY <3>3, <3>4
  <2>2. QED BY <1>6, <2>1 DEF SymbolsFit
<1>13. Sound(o, t1, g, ds1)
  <2>1. \A d \in Ids : ds[d] \in Decls =>
           ds1[d] \in Decls /\ ds1[d].closed = ds[d].closed /\ ds1[d].nonlocal = ds[d].nonlocal
    BY <1>11
  <2>2. t1 \in Seq(Tables) /\ Len(t1) = Len(t)
    BY <1>6
  <2>3. QED BY <1>8, <1>10, <1>12, <2>1, <2>2, SoundMarked
<1>14. QED BY <1>6, <1>8, <1>11, <1>13

MayCheck(ds, v) == {ds, [ds EXCEPT ![v].checked = TRUE]}
CheckedAt(t, w, n) == [t EXCEPT ![w][n].checked = TRUE]
Checks(ds, ds1, id, v) ==
  /\ v \in Ids /\ ds[v] \in Decls /\ ds1 \in MayCheck(ds, v)
  /\ ds[id].closed \/ (v = id /\ ds1 = [ds EXCEPT ![v].checked = TRUE])
SoundlyChecked(o, t, t1, g, ds, ds1) ==
  /\ Sound(o, t1, g, ds1)
  /\ \A i \in 1..Len(t), m \in Names : t1[i][m].id = t[i][m].id
  /\ \A d \in Ids : ds[d] \in Decls => ds1[d].eclipsed = ds[d].eclipsed

LEMMA SoundChecked ==
  ASSUME NEW o, NEW t, NEW g, NEW ds, Sound(o, t, g, ds), NEW n \in Names, NEW w \in 1..Len(t), t[w][n].id # 0,
         NEW v \in Ids, NEW ds1, Checks(ds, ds1, t[w][n].id, v),
         NEW t1, t1 = CheckedAt(t, w, n)
  PROVE  SoundlyChecked(o, t, t1, g, ds, ds1)
<1> DEFINE s == t[w][n]
           id == s.id
<1>1. s \in Symbols /\ id \in Ids /\ ds[id] \in Decls /\ id # 0
  BY SoundTables
<1>2. Len(t) \in Nat /\ t \in Seq(Tables) /\ ds \in [Ids -> Decls \cup {NoDecl}]
  BY SoundTables DEF Sound
<1>3. DEFINE s1 == [s EXCEPT !.checked = TRUE]
             c == [ds[v] EXCEPT !.checked = TRUE]
<1>4. /\ s1 \in Symbols /\ s1.id = s.id /\ s1.type = s.type /\ s1.referenced = s.referenced /\ s1.scope = s.scope
  BY <1>1 DEF Symbols
<1>5. /\ c \in Decls /\ c.nullable = ds[v].nullable /\ c.checked = TRUE /\ c.read = ds[v].read
      /\ c.closed = ds[v].closed /\ c.nonlocal = ds[v].nonlocal
      /\ c.kind = ds[v].kind /\ c.eclipsed = ds[v].eclipsed
  <2>1. ds[v] \in Decls
    BY DEF Checks
  <2>2. QED BY <2>1 DEF Decls
<1>17. ds1 = ds \/ ds1 = [ds EXCEPT ![v] = c]
  BY DEF Checks, MayCheck
<1>15. ds[id].closed \/ (v = id /\ ds1 = [ds EXCEPT ![v] = c])
  BY DEF Checks
<1>18. t1 = Change(t, w, n, s1)
  BY DEF Change, CheckedAt
<1>6. t1 = Change(t, w, n, s1) /\ (ds1 = ds \/ ds1 = [ds EXCEPT ![v] = c])
  BY <1>17, <1>18
<1> HIDE DEF s1, c
<1>7. /\ t1 \in Seq(Tables) /\ Len(t1) = Len(t)
      /\ t1[w][n] = s1
      /\ \A i \in 1..Len(t), m \in Names : i # w \/ m # n => t1[i][m] = t[i][m]
  BY <1>2, <1>4, <1>18, OneChange
<1>8. \A i \in 1..Len(t), m \in Names : t1[i][m].id = t[i][m].id
  BY <1>4, <1>7
<1> HIDE DEF s, id
<1>9. ds1 \in [Ids -> Decls \cup {NoDecl}]
  BY <1>2, <1>5, <1>6
<1>10. \A d \in Ids : ds1[d] = ds[d] \/ (d = v /\ ds1[d] = c)
  BY <1>2, <1>6
<1>11. \A d \in Ids : ds[d] \in Decls =>
         /\ ds1[d] \in Decls /\ ds1[d].closed = ds[d].closed /\ ds1[d].nonlocal = ds[d].nonlocal
         /\ ds1[d].nullable = ds[d].nullable /\ ds1[d].read = ds[d].read
         /\ ds1[d].kind = ds[d].kind /\ ds1[d].eclipsed = ds[d].eclipsed
         /\ ds[d].checked => ds1[d].checked
  <2> TAKE d \in Ids
  <2> HAVE ds[d] \in Decls
  <2>1. CASE d = v /\ ds1[d] = c
    BY <1>5, <2>1
  <2>2. CASE ds1[d] = ds[d]
    BY <2>2
  <2>3. QED BY <1>10, <2>1, <2>2
<1>12. SymbolsFit(t1, ds1)
  <2>1. ASSUME NEW i \in 1..Len(t), NEW m \in Names, t1[i][m].id # 0
        PROVE  Fits(t1[i][m], ds1[t1[i][m].id])
    <3>1. t[i][m].id # 0 /\ t[i][m].id \in Ids /\ ds[t[i][m].id] \in Decls
      BY <1>8, <2>1, SoundTables
    <3>2. Fits(t[i][m], ds[t[i][m].id])
      BY <3>1 DEF Sound, SymbolsFit
    <3>3. CASE i = w /\ m = n
      <4>1. Fits(s, ds[id]) /\ t1[i][m] = s1 /\ t1[i][m].id = id
        BY <1>4, <1>7, <3>2, <3>3 DEF s, id
      <4>2. ds1[id].checked \/ ds1[id].closed
        <5>1. CASE ds[id].closed
          BY <1>1, <1>11, <5>1
        <5>2. CASE v = id /\ ds1 = [ds EXCEPT ![v] = c]
          BY <1>1, <1>2, <1>5, <5>2
        <5>3. QED BY <1>15, <5>1, <5>2
      <4>3. Fits(s1, ds1[id])
        BY <1>1, <1>4, <1>11, <4>1, <4>2 DEF Fits
      <4>4. QED BY <4>1, <4>3
    <3>4. CASE ~(i = w /\ m = n)
      <4>1. t1[i][m] = t[i][m]
        BY <1>7, <3>4
      <4>2. Fits(t[i][m], ds1[t[i][m].id])
        BY <1>11, <3>1, <3>2 DEF Fits
      <4>3. QED BY <4>1, <4>2
    <3>5. QED BY <3>3, <3>4
  <2>2. QED BY <1>7, <2>1 DEF SymbolsFit
<1>13. Sound(o, t1, g, ds1)
  <2>1. \A d \in Ids : ds[d] \in Decls =>
           ds1[d] \in Decls /\ ds1[d].closed = ds[d].closed /\ ds1[d].nonlocal = ds[d].nonlocal
    BY <1>11
  <2>2. t1 \in Seq(Tables) /\ Len(t1) = Len(t)
    BY <1>7
  <2>3. QED BY <1>8, <1>9, <1>12, <2>1, <2>2, SoundMarked
<1>14. \A d \in Ids : ds[d] \in Decls => ds1[d].eclipsed = ds[d].eclipsed
  BY <1>11
<1>16. QED BY <1>8, <1>13, <1>14 DEF SoundlyChecked

-----------------------------------------------------------------------------
(* Where the declaration that is found is not the one that is visible, the  *)
(* visible one is marked as eclipsed.                                       *)
Shadow(o, t, g, ds) ==
  \A n \in Names : WhereIn(t, n) # 0 /\ VisibleIn(o, g, n) # 0 =>
    t[WhereIn(t, n)][n].id = VisibleIn(o, g, n) \/ ds[VisibleIn(o, g, n)].eclipsed

LEMMA VisibleHeld ==
  ASSUME NEW o \in Seq(Frames), NEW t, NEW g \in Blocks, NEW n \in Names, VisibleIn(o, g, n) # 0
  PROVE  VisibleIn(o, g, n) \in Ids /\ HeldIn(o, t, g, VisibleIn(o, g, n))
<1> DEFINE is == {i \in 1..Len(o) : o[i].block[n] # 0}
           v == VisibleIn(o, g, n)
<1>1. v = IF is = {} THEN g[n] ELSE o[Largest(is)].block[n]
  BY DEF VisibleIn
<1>2. CASE is = {}
  <2>1. v = g[n] /\ g[n] \in 0..MaxDecls
    BY <1>1, <1>2 DEF Blocks
  <2>2. QED BY <2>1 DEF HeldIn, Ids
<1>3. CASE is # {}
  <2>1. Len(o) \in Nat /\ is \in SUBSET (1..Len(o))
    OBVIOUS
  <2>2. Largest(is) \in is
    BY <1>3, <2>1, LargestIs
  <2>3. PICK i \in 1..Len(o) : i = Largest(is)
    BY <2>1, <2>2
  <2>4. v = o[i].block[n] /\ o[i] \in Frames
    BY <1>1, <1>3, <2>3
  <2>5. v \in 0..MaxDecls
    BY <2>4 DEF Frames, Blocks
  <2>6. QED BY <2>4, <2>5 DEF HeldIn, Ids
<1>4. QED BY <1>2, <1>3

LEMMA WhereFound ==
  ASSUME NEW t \in Seq(Tables), NEW n \in Names, NEW w, FoundAt(t, Len(t), n, w)
  PROVE  WhereIn(t, n) = w
<1> DEFINE is == {i \in 1..Len(t) : t[i][n] # NoSymbol}
<1>1. Len(t) \in Nat /\ is \in SUBSET (1..Len(t))
  OBVIOUS
<1>2. w \in 1..Len(t) /\ t[w][n].id # 0 /\ \A k \in w + 1..Len(t) : t[k][n].id = 0
  BY DEF FoundAt
<1>3. w \in is
  BY <1>2, SymbolType
<1>4. Largest(is) \in is /\ w <= Largest(is)
  BY <1>1, <1>3, LargestIs
<1>5. Largest(is) \in 1..Len(t) /\ t[Largest(is)][n].id # 0
  BY <1>4, SymbolType
<1>6. Largest(is) \notin w + 1..Len(t)
  BY <1>2, <1>5
<1>7. Largest(is) = w
  BY <1>1, <1>2, <1>4, <1>5, <1>6
<1>8. QED BY <1>3, <1>7 DEF WhereIn

LEMMA WhereSame ==
  ASSUME NEW t \in Seq(Tables), NEW t1 \in Seq(Tables), Len(t1) = Len(t), NEW n \in Names,
         \A i \in 1..Len(t) : t1[i][n].id = t[i][n].id
  PROVE  WhereIn(t1, n) = WhereIn(t, n) /\ WhereIn(t, n) \in 0..Len(t)
<1> DEFINE is == {i \in 1..Len(t) : t[i][n] # NoSymbol}
<1>1. {i \in 1..Len(t1) : t1[i][n] # NoSymbol} = is
  <2>1. ASSUME NEW i \in 1..Len(t) PROVE t1[i][n] # NoSymbol <=> t[i][n] # NoSymbol
    BY SymbolType
  <2>2. QED BY <2>1
<1>2. WhereIn(t1, n) = WhereIn(t, n)
  BY <1>1 DEF WhereIn
<1>3. Len(t) \in Nat /\ is \in SUBSET (1..Len(t))
  OBVIOUS
<1>4. is # {} => Largest(is) \in is
  BY <1>3, LargestIs
<1>5. WhereIn(t, n) = IF is = {} THEN 0 ELSE Largest(is)
  BY DEF WhereIn
<1>6. QED BY <1>2, <1>3, <1>4, <1>5

LEMMA ShadowSame ==
  ASSUME NEW o \in Seq(Frames), NEW t \in Seq(Tables), NEW g \in Blocks, NEW ds, Shadow(o, t, g, ds),
         NEW t1 \in Seq(Tables), Len(t1) = Len(t), \A i \in 1..Len(t), m \in Names : t1[i][m].id = t[i][m].id,
         NEW ds1, \A d \in Ids : HeldIn(o, t, g, d) => ds1[d].eclipsed = ds[d].eclipsed
  PROVE  Shadow(o, t1, g, ds1)
<1>1. SUFFICES ASSUME NEW n \in Names, WhereIn(t1, n) # 0, VisibleIn(o, g, n) # 0
               PROVE  t1[WhereIn(t1, n)][n].id = VisibleIn(o, g, n) \/ ds1[VisibleIn(o, g, n)].eclipsed
  BY DEF Shadow
<1>2. WhereIn(t1, n) = WhereIn(t, n) /\ WhereIn(t, n) \in 1..Len(t)
  BY <1>1, WhereSame
<1>3. t[WhereIn(t, n)][n].id = VisibleIn(o, g, n) \/ ds[VisibleIn(o, g, n)].eclipsed
  BY <1>1, <1>2 DEF Shadow
<1>4. VisibleIn(o, g, n) \in Ids /\ HeldIn(o, t, g, VisibleIn(o, g, n))
  BY <1>1, VisibleHeld
<1>5. QED BY <1>2, <1>3, <1>4

LEMMA ShadowPushed ==
  ASSUME NEW o \in Seq(Frames), NEW t \in Seq(Tables), NEW g, NEW ds, Shadow(o, t, g, ds),
         NEW f, f.block = NoNames, NEW t1, t1 = IF f.kind \in TableKinds THEN Append(t, Empty) ELSE t
  PROVE  Shadow(Append(o, f), t1, g, ds)
<1> DEFINE o1 == Append(o, f)
<1>1. Len(o) \in Nat /\ Len(o1) = Len(o) + 1 /\ o1[Len(o) + 1] = f /\ \A k \in 1..Len(o) : o1[k] = o[k]
  OBVIOUS
<1>2. Len(t) \in Nat /\ (t1 # t => Len(t1) = Len(t) + 1 /\ t1[Len(t) + 1] = Empty) /\ \A k \in 1..Len(t) : t1[k] = t[k]
  OBVIOUS
<1> HIDE DEF o1
<1>3. ASSUME NEW n \in Names PROVE VisibleIn(o1, g, n) = VisibleIn(o, g, n)
  <2> DEFINE is == {i \in 1..Len(o) : o[i].block[n] # 0}
  <2>1. {i \in 1..Len(o1) : o1[i].block[n] # 0} = is
    <3>1. f.block[n] = 0
      BY DEF NoNames
    <3>2. QED BY <1>1, <3>1
  <2>2. CASE is = {}
    BY <2>1, <2>2 DEF VisibleIn
  <2>3. CASE is # {}
    <3>1. Largest(is) \in is
      BY <1>1, <2>3, LargestIs
    <3>2. o1[Largest(is)] = o[Largest(is)]
      BY <1>1, <3>1
    <3>3. QED BY <2>1, <3>2 DEF VisibleIn
  <2>4. QED BY <2>2, <2>3
<1>4. ASSUME NEW n \in Names
      PROVE  WhereIn(t1, n) = WhereIn(t, n) /\ (WhereIn(t, n) # 0 => WhereIn(t, n) \in 1..Len(t))
  <2> DEFINE is == {i \in 1..Len(t) : t[i][n] # NoSymbol}
  <2>1. {i \in 1..Len(t1) : t1[i][n] # NoSymbol} = is
    <3>1. CASE t1 = t
      BY <3>1
    <3>2. CASE t1 # t
      <4>1. t1[Len(t) + 1][n] = NoSymbol /\ Len(t1) = Len(t) + 1
        BY <1>2, <3>2 DEF Empty
      <4>2. QED BY <1>2, <4>1
    <3>3. QED BY <3>1, <3>2
  <2>2. WhereIn(t1, n) = WhereIn(t, n)
    BY <2>1 DEF WhereIn
  <2>3. is # {} => Largest(is) \in is
    BY <1>2, LargestIs
  <2>4. WhereIn(t, n) = IF is = {} THEN 0 ELSE Largest(is)
    BY DEF WhereIn
  <2>5. QED BY <2>2, <2>3, <2>4
<1>5. Shadow(o1, t1, g, ds)
  <2>1. SUFFICES ASSUME NEW n \in Names, WhereIn(t1, n) # 0, VisibleIn(o1, g, n) # 0
                 PROVE  t1[WhereIn(t1, n)][n].id = VisibleIn(o1, g, n) \/ ds[VisibleIn(o1, g, n)].eclipsed
    BY DEF Shadow
  <2>2. VisibleIn(o1, g, n) = VisibleIn(o, g, n) /\ WhereIn(t1, n) = WhereIn(t, n) /\ WhereIn(t, n) \in 1..Len(t)
    BY <1>3, <1>4, <2>1
  <2>3. t[WhereIn(t, n)][n].id = VisibleIn(o, g, n) \/ ds[VisibleIn(o, g, n)].eclipsed
    BY <2>1, <2>2 DEF Shadow
  <2>4. t1[WhereIn(t, n)] = t[WhereIn(t, n)]
    BY <1>2, <2>2
  <2>5. QED BY <2>2, <2>3, <2>4
<1>6. QED BY <1>5 DEF o1

(* A name changes in the table and in the block that are last.              *)
LEMMA ShadowDeclared ==
  ASSUME NEW o \in Seq(Frames), NEW o1, NEW t \in Seq(Tables), NEW t1, NEW g \in Blocks, NEW g1,
         NEW n \in Names, NEW id \in Ids, NEW ds, NEW ds1,
         OnlyHere(o, o1, t, t1, g, g1, ds, ds1, n, id), Shadow(o, t, g, ds)
  PROVE  Shadow(o1, t1, g1, ds1)
<1> USE DEF OnlyHere
<1>1. Len(t) \in Nat /\ Len(o) \in Nat /\ id # 0
  BY DEF Ids
<1>2. SUFFICES ASSUME NEW m \in Names, WhereIn(t1, m) # 0, VisibleIn(o1, g1, m) # 0
               PROVE  t1[WhereIn(t1, m)][m].id = VisibleIn(o1, g1, m) \/ ds1[VisibleIn(o1, g1, m)].eclipsed
  BY DEF Shadow
<1>3. CASE m = n
  <2>1. FoundAt(t1, Len(t1), n, Len(t))
    BY <1>1 DEF FoundAt
  <2>2. WhereIn(t1, n) = Len(t)
    BY <2>1, WhereFound
  <2>3. VisibleIn(o1, g1, n) = id
    <3> DEFINE is == {i \in 1..Len(o1) : o1[i].block[n] # 0}
    <3>1. CASE Len(o) = 0
      <4>1. is = {}
        BY <3>1
      <4>2. QED BY <3>1, <4>1 DEF VisibleIn
    <3>2. CASE Len(o) # 0
      <4>1. Len(o) \in is /\ is \in SUBSET (1..Len(o1)) /\ Len(o1) \in Nat
        BY <1>1, <3>2
      <4>2. Largest(is) \in is /\ Len(o) <= Largest(is)
        BY <4>1, LargestIs
      <4>3. Largest(is) = Len(o)
        BY <1>1, <4>1, <4>2
      <4>4. QED BY <3>2, <4>1, <4>3 DEF VisibleIn
    <3>3. QED BY <3>1, <3>2
  <2>4. QED BY <1>3, <2>2, <2>3
<1>4. CASE m # n
  <2>1. \A i \in 1..Len(t) : t1[i][m].id = t[i][m].id
    BY <1>4
  <2>2. WhereIn(t1, m) = WhereIn(t, m) /\ WhereIn(t, m) \in 1..Len(t)
    BY <1>2, <2>1, WhereSame
  <2>3. VisibleIn(o1, g1, m) = VisibleIn(o, g, m)
    <3> DEFINE is == {i \in 1..Len(o) : o[i].block[m] # 0}
    <3>1. \A i \in 1..Len(o) : o1[i].block[m] = o[i].block[m]
      BY <1>4
    <3>2. {i \in 1..Len(o1) : o1[i].block[m] # 0} = is
      BY <3>1
    <3>3. is # {} => Largest(is) \in is
      BY <1>1, LargestIs
    <3>4. is # {} => o1[Largest(is)].block[m] = o[Largest(is)].block[m]
      BY <3>1, <3>3
    <3>5. g1[m] = g[m]
      BY <1>4
    <3>6. QED BY <3>2, <3>4, <3>5 DEF VisibleIn
  <2>4. t[WhereIn(t, m)][m].id = VisibleIn(o, g, m) \/ ds[VisibleIn(o, g, m)].eclipsed
    BY <1>2, <2>2, <2>3 DEF Shadow
  <2>5. VisibleIn(o, g, m) \in Ids /\ VisibleIn(o, g, m) # id
    BY <1>2, <2>3, VisibleHeld
  <2>6. t1[WhereIn(t, m)][m] = t[WhereIn(t, m)][m]
    BY <1>4, <2>2
  <2>7. QED BY <2>2, <2>3, <2>4, <2>5, <2>6
<1>5. QED BY <1>3, <1>4

(* A name of the functions around is bound in the last table.               *)
LEMMA ShadowNonLocal ==
  ASSUME NEW o \in Seq(Frames), NEW t \in Seq(Tables), NEW t1 \in Seq(Tables), Len(t1) = Len(t),
         NEW g \in Blocks, NEW n \in Names, NEW w, FoundAt(t, Len(t), n, w),
         t1[Len(t)][n].id = t[w][n].id,
         \A i \in 1..Len(t), m \in Names : i # Len(t) \/ m # n => t1[i][m] = t[i][m],
         NEW ds, NEW ds1, \A d \in Ids : HeldIn(o, t, g, d) => ds1[d].eclipsed = ds[d].eclipsed, Shadow(o, t, g, ds)
  PROVE  Shadow(o, t1, g, ds1)
<1>1. Len(t) \in Nat /\ w \in 1..Len(t) /\ t[w][n].id # 0 /\ Len(t) \in 1..Len(t)
  BY DEF FoundAt
<1>2. SUFFICES ASSUME NEW m \in Names, WhereIn(t1, m) # 0, VisibleIn(o, g, m) # 0
               PROVE  t1[WhereIn(t1, m)][m].id = VisibleIn(o, g, m) \/ ds1[VisibleIn(o, g, m)].eclipsed
  BY DEF Shadow
<1>3. /\ WhereIn(t, m) \in 1..Len(t)
      /\ t1[WhereIn(t1, m)][m].id = t[WhereIn(t, m)][m].id
  <2>1. CASE m = n
    <3>1. FoundAt(t1, Len(t1), n, Len(t))
      BY <1>1 DEF FoundAt
    <3>2. WhereIn(t1, n) = Len(t) /\ WhereIn(t, n) = w
      BY <3>1, WhereFound
    <3>3. QED BY <1>1, <2>1, <3>2
  <2>2. CASE m # n
    <3>1. \A i \in 1..Len(t) : t1[i][m].id = t[i][m].id
      BY <2>2
    <3>2. WhereIn(t1, m) = WhereIn(t, m) /\ WhereIn(t, m) \in 1..Len(t)
      BY <1>2, <3>1, WhereSame
    <3>3. QED BY <2>2, <3>1, <3>2
  <2>3. QED BY <2>1, <2>2
<1>4. t[WhereIn(t, m)][m].id = VisibleIn(o, g, m) \/ ds[VisibleIn(o, g, m)].eclipsed
  BY <1>2, <1>3 DEF Shadow
<1>5. VisibleIn(o, g, m) \in Ids /\ HeldIn(o, t, g, VisibleIn(o, g, m))
  BY <1>2, VisibleHeld
<1>6. QED BY <1>3, <1>4, <1>5

(* What nothing holds does not matter.                                      *)
LEMMA ShadowKept ==
  ASSUME NEW ds, Sound(open', tables', globals', ds), Shadow(open', tables', globals', ds)
  PROVE  Shadow(open', tables', globals', Kept(ds))
<1>1. Kept(ds) = [d \in Ids |-> IF d \in Held' THEN ds[d] ELSE NoDecl]
  BY DEF Kept
<1>2. ASSUME NEW d \in Ids, HeldIn(open', tables', globals', d) PROVE d \in Held'
  BY <1>2 DEF HeldIn, Held
<1>3. \A d \in Ids : HeldIn(open', tables', globals', d) => Kept(ds)[d].eclipsed = ds[d].eclipsed
  BY <1>1, <1>2
<1>4. open' \in Seq(Frames) /\ tables' \in Seq(Tables) /\ globals' \in Blocks
  BY DEF Sound
<1>5. QED BY <1>3, <1>4, ShadowSame

(* A construct ends.                                                        *)
LEMMA SoundEclipsed ==
  ASSUME NEW ds, Sound(open', tables', globals', ds)
  PROVE  /\ Sound(open', tables', globals', Eclipsed(ds))
         /\ Shadow(open', tables', globals', Eclipsed(ds))
<1> DEFINE ds1 == Eclipsed(ds)
           over == {n \in Names : Where(n) # 0 /\ Symbol(n).id # Visible(n)}'
<1>1. ds1 = [d \in Ids |-> IF \E n \in over : d = Visible(n)' THEN [ds[d] EXCEPT !.eclipsed = TRUE] ELSE ds[d]]
  BY DEF Eclipsed
<1>2. \A n \in Names : /\ Where(n)' = WhereIn(tables', n) /\ Visible(n)' = VisibleIn(open', globals', n)
                       /\ Symbol(n)'.id = tables'[WhereIn(tables', n)][n].id
  BY DEF Where, WhereIn, Visible, VisibleIn, Symbol
<1>3. open' \in Seq(Frames) /\ tables' \in Seq(Tables) /\ globals' \in Blocks /\ ds \in [Ids -> Decls \cup {NoDecl}]
  BY DEF Sound
<1>4. ASSUME NEW d \in Ids, NEW n \in over, d = Visible(n)' PROVE ds[d] \in Decls
  <2>1. n \in Names /\ d = VisibleIn(open', globals', n) /\ d # 0
    BY <1>2, <1>4 DEF Ids
  <2>2. HeldIn(open', tables', globals', d)
    BY <1>3, <2>1, VisibleHeld
  <2>3. QED BY <2>2 DEF Sound, Declared
<1>5. ASSUME NEW c \in Decls
      PROVE  /\ [c EXCEPT !.eclipsed = TRUE] \in Decls
             /\ [c EXCEPT !.eclipsed = TRUE].eclipsed = TRUE
             /\ [c EXCEPT !.eclipsed = TRUE].closed = c.closed
             /\ [c EXCEPT !.eclipsed = TRUE].nonlocal = c.nonlocal
             /\ [c EXCEPT !.eclipsed = TRUE].nullable = c.nullable
             /\ [c EXCEPT !.eclipsed = TRUE].checked = c.checked
             /\ [c EXCEPT !.eclipsed = TRUE].read = c.read
             /\ [c EXCEPT !.eclipsed = TRUE].kind = c.kind
  BY DEF Decls
<1>6. \A d \in Ids : \/ ds1[d] = ds[d] /\ \A n \in over : d # Visible(n)'
                     \/ ds[d] \in Decls /\ ds1[d] = [ds[d] EXCEPT !.eclipsed = TRUE]
  BY <1>1, <1>4
<1>7. ds1 \in [Ids -> Decls \cup {NoDecl}]
  <2>1. \A d \in Ids : ds1[d] \in Decls \cup {NoDecl}
    BY <1>3, <1>5, <1>6
  <2>2. QED BY <1>1, <2>1
<1>10. Shadow(open', tables', globals', ds1)
  <2>1. SUFFICES ASSUME NEW n \in Names, WhereIn(tables', n) # 0, VisibleIn(open', globals', n) # 0,
                        tables'[WhereIn(tables', n)][n].id # VisibleIn(open', globals', n)
                 PROVE  ds1[VisibleIn(open', globals', n)].eclipsed
    BY DEF Shadow
  <2>2. n \in over
    BY <1>2, <2>1
  <2>3. VisibleIn(open', globals', n) \in Ids /\ VisibleIn(open', globals', n) = Visible(n)'
    BY <1>2, <1>3, <2>1, VisibleHeld
  <2>4. QED BY <1>5, <1>6, <2>2, <2>3
<1> HIDE DEF ds1, over
<1>8. \A d \in Ids : ds[d] \in Decls =>
        /\ ds1[d] \in Decls /\ ds1[d].closed = ds[d].closed /\ ds1[d].nonlocal = ds[d].nonlocal
        /\ ds1[d].nullable = ds[d].nullable /\ ds1[d].checked = ds[d].checked /\ ds1[d].read = ds[d].read
        /\ ds1[d].kind = ds[d].kind /\ (ds[d].eclipsed => ds1[d].eclipsed)
  BY <1>5, <1>6
<1>9. SymbolsFit(tables', ds1)
  <2>1. SUFFICES ASSUME NEW i \in 1..Len(tables'), NEW n \in Names, tables'[i][n].id # 0
                 PROVE  Fits(tables'[i][n], ds1[tables'[i][n].id])
    BY DEF SymbolsFit
  <2>2. Fits(tables'[i][n], ds[tables'[i][n].id]) /\ tables'[i][n].id \in Ids /\ ds[tables'[i][n].id] \in Decls
    BY <2>1, SoundTables DEF Sound, SymbolsFit
  <2>3. QED BY <1>8, <2>2 DEF Fits
<1>11. Sound(open', tables', globals', ds1)
  <2>1. \A d \in Ids : ds[d] \in Decls =>
           ds1[d] \in Decls /\ ds1[d].closed = ds[d].closed /\ ds1[d].nonlocal = ds[d].nonlocal
    BY <1>8
  <2>2. QED BY <1>3, <1>7, <1>9, <2>1, SoundMarked
<1>12. QED BY <1>10, <1>11 DEF ds1

-----------------------------------------------------------------------------
(* The function and the prefix that a construct is in.                      *)
FunctionAt(o, j, f) ==
  \/ f = 0 /\ \A k \in 1..j : o[k].kind # "function"
  \/ /\ f \in 1..j /\ o[f].kind = "function"
     /\ \A k \in f + 1..j : o[k].kind # "function"
PrefixAt(o, j) == \E k \in 1..j : o[k].kind = "prefixcall"
Nested(o, fn, cp) ==
  /\ FunctionAt(o, Len(o), fn)
  /\ \A i \in 1..Len(o) : FunctionAt(o, i - 1, o[i].function)
  /\ cp = PrefixAt(o, Len(o))
  /\ \A i \in 1..Len(o) : o[i].prefix = PrefixAt(o, i - 1)

LEMMA ContextSame ==
  ASSUME NEW o, NEW p, NEW j \in Nat, \A k \in 1..j : p[k].kind = o[k].kind, NEW f
  PROVE  /\ FunctionAt(o, j, f) => FunctionAt(p, j, f)
         /\ PrefixAt(p, j) = PrefixAt(o, j)
<1>1. PrefixAt(p, j) = PrefixAt(o, j)
  BY DEF PrefixAt
<1>2. ASSUME FunctionAt(o, j, f) PROVE FunctionAt(p, j, f)
  <2>1. CASE f = 0 /\ \A k \in 1..j : o[k].kind # "function"
    BY <2>1 DEF FunctionAt
  <2>2. CASE f \in 1..j /\ o[f].kind = "function" /\ \A k \in f + 1..j : o[k].kind # "function"
    <3>1. \A k \in f + 1..j : k \in 1..j
      BY <2>2
    <3>2. \A k \in f + 1..j : p[k].kind # "function"
      BY <2>2, <3>1
    <3>3. QED BY <2>2, <3>2 DEF FunctionAt
  <2>3. QED BY <1>2, <2>1, <2>2 DEF FunctionAt
<1>3. QED BY <1>1, <1>2

LEMMA NestedSame ==
  ASSUME NEW o, NEW p, NEW fn, NEW cp, Nested(o, fn, cp), Len(o) \in Nat, Len(p) = Len(o),
         \A k \in 1..Len(o) : p[k].kind = o[k].kind /\ p[k].function = o[k].function /\ p[k].prefix = o[k].prefix
  PROVE  Nested(p, fn, cp)
<1>1. FunctionAt(p, Len(o), fn) /\ PrefixAt(p, Len(o)) = PrefixAt(o, Len(o))
  BY ContextSame DEF Nested
<1>2. ASSUME NEW i \in 1..Len(o)
      PROVE  FunctionAt(p, i - 1, p[i].function) /\ PrefixAt(p, i - 1) = PrefixAt(o, i - 1)
  <2>1. i - 1 \in Nat /\ \A k \in 1..i - 1 : p[k].kind = o[k].kind
    OBVIOUS
  <2>2. FunctionAt(o, i - 1, o[i].function)
    BY DEF Nested
  <2>3. QED BY <2>1, <2>2, ContextSame
<1>3. QED BY <1>1, <1>2 DEF Nested

LEMMA NestedOpened ==
  ASSUME NEW o \in Seq(Frames), NEW fn, NEW cp \in BOOLEAN, Nested(o, fn, cp),
         NEW f, f.function = fn, f.prefix = cp, NEW fn1, NEW cp1,
         fn1 = IF f.kind = "function" THEN Len(o) + 1 ELSE fn,
         cp1 = IF f.kind = "prefixcall" THEN TRUE ELSE cp
  PROVE  Nested(Append(o, f), fn1, cp1)
<1> DEFINE p == Append(o, f)
           N == Len(o)
<1>1. N \in Nat /\ Len(p) = N + 1 /\ p[N + 1] = f /\ \A k \in 1..N : p[k] = o[k]
  OBVIOUS
<1> HIDE DEF p, N
<1>2. FunctionAt(p, N, fn) /\ PrefixAt(p, N) = PrefixAt(o, N)
  BY <1>1, ContextSame DEF Nested, N
<1>3. \A i \in 1..N : FunctionAt(p, i - 1, p[i].function) /\ p[i].prefix = PrefixAt(p, i - 1)
  <2> TAKE i \in 1..N
  <2>1. i - 1 \in Nat /\ \A k \in 1..i - 1 : p[k].kind = o[k].kind
    BY <1>1
  <2>2. FunctionAt(o, i - 1, o[i].function) /\ o[i].prefix = PrefixAt(o, i - 1)
    BY DEF Nested, N
  <2>3. FunctionAt(p, i - 1, o[i].function) /\ PrefixAt(p, i - 1) = PrefixAt(o, i - 1)
    BY <2>1, <2>2, ContextSame
  <2>4. QED BY <1>1, <2>2, <2>3
<1>4. FunctionAt(p, N + 1, fn1)
  <2>1. CASE f.kind = "function"
    <3>1. fn1 \in 1..N + 1 /\ p[fn1].kind = "function" /\ \A k \in fn1 + 1..N + 1 : p[k].kind # "function"
      BY <1>1, <2>1 DEF N
    <3>2. QED BY <3>1 DEF FunctionAt
  <2>2. CASE f.kind # "function"
    <3>1. CASE fn = 0 /\ \A k \in 1..N : p[k].kind # "function"
      <4>1. \A k \in 1..N + 1 : p[k].kind # "function"
        BY <1>1, <2>2, <3>1
      <4>2. QED BY <2>2, <3>1, <4>1 DEF FunctionAt
    <3>2. CASE fn \in 1..N /\ p[fn].kind = "function" /\ \A k \in fn + 1..N : p[k].kind # "function"
      <4>1. fn \in 1..N + 1 /\ \A k \in fn + 1..N + 1 : p[k].kind # "function"
        BY <1>1, <2>2, <3>2
      <4>2. QED BY <2>2, <3>2, <4>1 DEF FunctionAt
    <3>3. QED BY <1>2, <3>1, <3>2 DEF FunctionAt
  <2>3. QED BY <2>1, <2>2
<1>5. cp1 = PrefixAt(p, N + 1)
  <2>1. cp = PrefixAt(p, N)
    BY <1>2 DEF Nested, N
  <2>2. CASE f.kind = "prefixcall"
    <3>1. N + 1 \in 1..N + 1 /\ p[N + 1].kind = "prefixcall" /\ cp1 = TRUE
      BY <1>1, <2>2
    <3>2. QED BY <3>1 DEF PrefixAt
  <2>3. CASE f.kind # "prefixcall"
    <3>1. cp1 = cp
      BY <2>3
    <3>2. PrefixAt(p, N + 1) <=> PrefixAt(p, N)
      BY <1>1, <2>3 DEF PrefixAt
    <3>3. QED BY <2>1, <3>1, <3>2 DEF PrefixAt
  <2>4. QED BY <2>2, <2>3
<1>6. FunctionAt(p, N, f.function) /\ f.prefix = PrefixAt(p, N)
  BY <1>2 DEF Nested, N
<1>7. \A i \in 1..N + 1 : FunctionAt(p, i - 1, p[i].function) /\ p[i].prefix = PrefixAt(p, i - 1)
  <2> TAKE i \in 1..N + 1
  <2>1. CASE i \in 1..N
    BY <1>3, <2>1
  <2>2. CASE i = N + 1
    <3>1. i - 1 = N
      BY <1>1, <2>2
    <3>2. QED BY <1>1, <1>6, <2>2, <3>1
  <2>3. QED BY <1>1, <2>1, <2>2
<1>8. Nested(p, fn1, cp1)
  BY <1>1, <1>4, <1>5, <1>7 DEF Nested
<1>9. QED BY <1>8 DEF p

LEMMA NestedClosed ==
  ASSUME NEW o \in Seq(Frames), o # <<>>, NEW fn, NEW cp \in BOOLEAN, Nested(o, fn, cp), NEW fn1, NEW cp1,
         fn1 = IF o[Len(o)].kind = "function" THEN o[Len(o)].function ELSE fn,
         cp1 = IF o[Len(o)].kind = "prefixcall" THEN o[Len(o)].prefix ELSE cp
  PROVE  Nested(SubSeq(o, 1, Len(o) - 1), fn1, cp1)
<1> DEFINE p == SubSeq(o, 1, Len(o) - 1)
           N == Len(o)
<1>1. N \in Nat \ {0} /\ N - 1 \in Nat /\ Len(p) = N - 1 /\ \A k \in 1..N - 1 : p[k] = o[k]
  BY Popped
<1> HIDE DEF p, N
<1>2. FunctionAt(o, N - 1, fn1)
  <2>1. CASE o[N].kind = "function"
    <3>1. N \in 1..N
      BY <1>1
    <3>2. QED BY <2>1, <3>1 DEF Nested, N
  <2>2. CASE o[N].kind # "function"
    <3>1. FunctionAt(o, N, fn) /\ fn1 = fn
      BY <2>2 DEF Nested, N
    <3>2. CASE fn = 0 /\ \A k \in 1..N : o[k].kind # "function"
      <4>1. \A k \in 1..N - 1 : o[k].kind # "function"
        BY <1>1, <3>2
      <4>2. QED BY <3>1, <3>2, <4>1 DEF FunctionAt
    <3>3. CASE fn \in 1..N /\ o[fn].kind = "function" /\ \A k \in fn + 1..N : o[k].kind # "function"
      <4>1. fn \in 1..N - 1 /\ \A k \in fn + 1..N - 1 : o[k].kind # "function"
        BY <1>1, <2>2, <3>3
      <4>2. QED BY <3>1, <3>3, <4>1 DEF FunctionAt
    <3>4. QED BY <3>1, <3>2, <3>3 DEF FunctionAt
  <2>3. QED BY <2>1, <2>2
<1>3. cp1 = PrefixAt(o, N - 1)
  <2>1. CASE o[N].kind = "prefixcall"
    <3>1. N \in 1..N
      BY <1>1
    <3>2. QED BY <2>1, <3>1 DEF Nested, N
  <2>2. CASE o[N].kind # "prefixcall"
    <3>1. cp1 = cp /\ cp = PrefixAt(o, N)
      BY <2>2 DEF Nested, N
    <3>2. PrefixAt(o, N) <=> PrefixAt(o, N - 1)
      BY <1>1, <2>2 DEF PrefixAt
    <3>3. QED BY <3>1, <3>2 DEF PrefixAt
  <2>3. QED BY <2>1, <2>2
<1>4. \A j \in 0..N - 1 : \A f : /\ FunctionAt(o, j, f) => FunctionAt(p, j, f)
                                 /\ PrefixAt(p, j) = PrefixAt(o, j)
  <2> TAKE j \in 0..N - 1
  <2>1. j \in Nat /\ \A k \in 1..j : p[k].kind = o[k].kind
    BY <1>1
  <2>2. QED BY <2>1, ContextSame
<1>5. N - 1 \in 0..N - 1 /\ \A i \in 1..N - 1 : i - 1 \in 0..N - 1 /\ i \in 1..N
  BY <1>1
<1>6. FunctionAt(p, N - 1, fn1) /\ cp1 = PrefixAt(p, N - 1)
  BY <1>2, <1>3, <1>4, <1>5
<1>7. \A i \in 1..N - 1 : FunctionAt(p, i - 1, p[i].function) /\ p[i].prefix = PrefixAt(p, i - 1)
  <2> TAKE i \in 1..N - 1
  <2>1. i - 1 \in 0..N - 1 /\ i \in 1..N
    BY <1>5
  <2>2. FunctionAt(o, i - 1, o[i].function) /\ o[i].prefix = PrefixAt(o, i - 1)
    BY <2>1 DEF Nested, N
  <2>3. QED BY <1>1, <1>4, <2>1, <2>2
<1>8. Nested(p, fn1, cp1)
  BY <1>1, <1>6, <1>7 DEF Nested
<1>9. QED BY <1>8 DEF p

-----------------------------------------------------------------------------
(* The inductive invariant.                                                 *)
Context ==
  /\ Nested(open, function, currentPrefix)
  /\ Len(open) <= MaxDepth /\ function \in 0..MaxDepth /\ currentPrefix \in BOOLEAN
  /\ scope = Len(tables)
Inv ==
  /\ Sound(open, tables, globals, decls)
  /\ Shadow(open, tables, globals, decls)
  /\ Context

LEMMA FrameType ==
  ASSUME Inv, NEW kind \in TableKinds \cup BlockKinds
  PROVE  /\ Frame(kind) \in Frames /\ Frame(kind).block = NoNames /\ Frame(kind).kind = kind
         /\ Frame(kind).function = function /\ Frame(kind).prefix = currentPrefix
<1>1. NoNames \in Blocks
  BY Bounds DEF NoNames, Blocks
<1>2. QED BY <1>1 DEF Frame, Frames, Inv, Context

LEMMA NewIdFree ==
  ASSUME FreeIds # {}
  PROVE  NewId \in Ids /\ decls[NewId] = NoDecl
<1>1. FreeIds \in SUBSET Nat /\ FreeIds \in SUBSET Ids
  BY DEF FreeIds, Ids
<1>2. \E d \in FreeIds : \A e \in FreeIds : d <= e
  BY <1>1, LeastIs
<1>3. NewId \in FreeIds
  BY <1>2 DEF NewId
<1>4. QED BY <1>3 DEF FreeIds

LEMMA InitInv == Init => Inv
<1> SUFFICES ASSUME Init PROVE Inv
  OBVIOUS
<1> USE DEF Init
<1>1. Empty \in Tables /\ \A n \in Names : Empty[n].id = 0
  BY DEF Empty, Tables, NoSymbol
<1>2. open \in Seq(Frames) /\ Len(open) = 0 /\ tables \in Seq(Tables) /\ Len(tables) = 1 /\ tables[1] = Empty
  BY <1>1
<1>3. globals \in Blocks
  BY Bounds DEF NoNames, Blocks
<1>4. decls \in [Ids -> Decls \cup {NoDecl}]
  OBVIOUS
<1>5. Level(open, 0) = 1
  BY LevelOfNone
<1>6. \A i \in 1..Len(tables), n \in Names : tables[i][n].id = 0
  BY <1>1, <1>2
<1>7. Declared(open, tables, globals, decls)
  BY <1>2, <1>6 DEF Declared, HeldIn, NoNames, Ids
<1>8. Lexical(open, tables, globals, decls)
  BY <1>6 DEF Lexical, Scoped, FoundAt
<1>9. SymbolsFit(tables, decls) /\ OneSymbol(tables, decls)
  BY <1>6 DEF SymbolsFit, OneSymbol
<1>10. Sound(open, tables, globals, decls)
  BY <1>2, <1>3, <1>4, <1>5, <1>7, <1>8, <1>9 DEF Sound
<1>13. Shadow(open, tables, globals, decls)
  <2>1. \A n \in Names : {i \in 1..Len(tables) : tables[i][n] # NoSymbol} = {}
    BY <1>2, <1>6, SymbolType
  <2>2. \A n \in Names : WhereIn(tables, n) = 0
    BY <2>1 DEF WhereIn
  <2>3. QED BY <2>2 DEF Shadow
<1>11. Context
  <2>1. \A o : Len(o) = 0 => Nested(o, 0, FALSE)
    <3> TAKE o
    <3> HAVE Len(o) = 0
    <3>1. FunctionAt(o, 0, 0) /\ PrefixAt(o, 0) = FALSE
      BY DEF FunctionAt, PrefixAt
    <3>2. QED BY <3>1 DEF Nested
  <2>2. function = 0 /\ currentPrefix = FALSE /\ scope = 1
    OBVIOUS
  <2>3. Nested(open, function, currentPrefix)
    BY <1>2, <2>1, <2>2
  <2>4. Len(open) <= MaxDepth /\ function \in 0..MaxDepth
    BY <1>2, <2>2, Bounds
  <2>5. QED BY <1>2, <2>2, <2>3, <2>4 DEF Context
<1>12. QED BY <1>10, <1>11, <1>13 DEF Inv

(* Declarations.                                                            *)
LEMMA DeclarationIs ==
  ASSUME NEW kind \in {"local", "untyped", "other"}, NEW nullable \in BOOLEAN
  PROVE  /\ Declaration(kind, nullable) \in Decls
         /\ Declaration(kind, nullable).kind = kind /\ Declaration(kind, nullable).nullable = nullable
         /\ Declaration(kind, nullable).closed = FALSE /\ Declaration(kind, nullable).read = FALSE
BY DEF Declaration, Decls

LEMMA InBlockKeeps ==
  ASSUME Inv, NEW n \in Names, NEW d, InBlock(d, n)
  PROVE  /\ Nested(open', function, currentPrefix)
         /\ Len(open') = Len(open)
<1>1. Len(open) \in Nat /\ open \in Seq(Frames) /\ Nested(open, function, currentPrefix)
  BY SoundTables DEF Inv, Sound, Context
<1>2. CASE open = <<>>
  BY <1>1, <1>2 DEF InBlock
<1>3. CASE open # <<>>
  <2>1. open' = [open EXCEPT ![Len(open)] = [open[Len(open)] EXCEPT !.block = [open[Len(open)].block EXCEPT ![n] = d]]]
    BY <1>3 DEF InBlock
  <2>2. Len(open) \in 1..Len(open) /\ open[Len(open)] \in Frames
    BY <1>1, <1>3
  <2> DEFINE f == [open[Len(open)] EXCEPT !.block = [open[Len(open)].block EXCEPT ![n] = d]]
  <2>3. f.kind = open[Len(open)].kind /\ f.function = open[Len(open)].function /\ f.prefix = open[Len(open)].prefix
    BY <2>2 DEF Frames
  <2> HIDE DEF f
  <2>4. open' = [open EXCEPT ![Len(open)] = f]
    BY <2>1 DEF f
  <2>5. Len(open') = Len(open)
        /\ \A k \in 1..Len(open) : /\ open'[k].kind = open[k].kind
                                   /\ open'[k].function = open[k].function
                                   /\ open'[k].prefix = open[k].prefix
    BY <1>1, <2>3, <2>4
  <2>6. QED BY <1>1, <2>5, NestedSame
<1>4. QED BY <1>2, <1>3

LEMMA AddKeeps ==
  ASSUME Inv, NEW n \in Names, NEW type \in {"value", "nullable", "function"},
         NEW sc \in {"global", "local", "field"}, Add(n, type, sc), UNCHANGED context
  PROVE  Inv'
<1>1. NewId \in Ids /\ decls[NewId] = NoDecl
  BY NewIdFree DEF Add
<1>2. tables' = Change(tables, Len(tables), n, NewSymbol(n, NewId, type, sc))
  BY DEF Add, Change
<1>3. IF open = <<>> THEN globals' = [globals EXCEPT ![n] = NewId] /\ open' = open
      ELSE open' = [open EXCEPT ![Len(open)].block[n] = NewId] /\ globals' = globals
  BY DEF Add, InBlock
<1>4. Sound(open, tables, globals, decls)
  BY DEF Inv
<1> DEFINE decl == Declaration(KindOf(sc), type = "nullable")
           ds == [decls EXCEPT ![NewId] = decl]
<1>12. Suits(decl, type)
  BY DeclarationIs DEF KindOf, Suits
<1>13. decls' = Kept(ds)
  BY DEF Add
<1> HIDE DEF decl
<1>15. Places(open, open', tables, tables', globals, globals', n, NewId, type, sc)
  BY <1>2, <1>3 DEF Places
<1>16. Enters(decls, ds, NewId, decl, type)
  BY <1>1, <1>12 DEF Enters
<1>17. Entered(open, open', tables, tables', globals, globals', decls, ds, n, NewId)
  BY <1>1, <1>4, <1>15, <1>16, SoundDeclared
<1>5. /\ Sound(open', tables', globals', ds)
      /\ OnlyHere(open, open', tables, tables', globals, globals', decls, ds, n, NewId)
  BY <1>17 DEF Entered
<1>14. Shadow(open', tables', globals', ds)
  BY <1>1, <1>5, ShadowDeclared DEF Inv, Sound
<1> HIDE DEF ds
<1>7. Sound(open', tables', globals', decls') /\ Shadow(open', tables', globals', decls')
  BY <1>5, <1>13, <1>14, SoundKept, ShadowKept
<1>8. Nested(open', function, currentPrefix) /\ Len(open') = Len(open)
  BY InBlockKeeps DEF Add
<1>9. Len(tables') = Len(tables)
  BY SoundTables DEF Inv, Sound, Add
<1>10. Context'
  BY <1>8, <1>9 DEF Inv, Context, context
<1>11. QED BY <1>7, <1>10 DEF Inv

(* The table that has the name innermost among those that are given.        *)
LEMMA LargestFound ==
  ASSUME Inv, NEW n \in Names, NEW L, L \in {Len(tables), Len(tables) - 1}, NEW w,
         LET is == {i \in 2..L : tables[i][n] # NoSymbol} IN is # {} /\ w = Largest(is),
         L # Len(tables) => tables[Len(tables)][n] = NoSymbol
  PROVE  w \in 1..Len(tables) /\ FoundAt(tables, Len(tables), n, w)
<1> DEFINE is == {i \in 2..L : tables[i][n] # NoSymbol}
<1>1. Len(tables) \in Nat /\ Len(tables) >= 1 /\ tables \in Seq(Tables)
  BY SoundTables DEF Inv, Sound
<1>2. is \in SUBSET (1..Len(tables)) /\ is # {} /\ w = Largest(is)
  BY <1>1
<1>3. w \in is /\ \A j \in is : j <= w
  BY <1>1, <1>2, LargestIs
<1>4. w \in 1..Len(tables) /\ w \in 2..L /\ tables[w][n] # NoSymbol
  BY <1>1, <1>2, <1>3
<1>5. tables[w][n].id # 0
  BY <1>1, <1>4, SymbolType
<1>6. ASSUME NEW k \in w + 1..Len(tables) PROVE tables[k][n].id = 0
  <2>1. k \in 1..Len(tables)
    BY <1>1, <1>4
  <2>2. tables[k][n] = NoSymbol
    <3>1. CASE k \in 2..L
      <4>1. ~(k <= w)
        BY <1>1, <1>4
      <4>2. k \notin is
        BY <1>3, <4>1
      <4>3. QED BY <3>1, <4>2
    <3>2. CASE k \notin 2..L
      <4>1. k = Len(tables) /\ L # Len(tables)
        BY <1>1, <1>4, <2>1, <3>2
      <4>2. QED BY <4>1
    <3>3. QED BY <3>1, <3>2
  <2>3. QED BY <1>1, <2>1, <2>2, SymbolType
<1>7. QED BY <1>4, <1>5, <1>6 DEF FoundAt

LEMMA NonLocalKeeps == ASSUME Inv, NonLocal PROVE Inv'
<1>1. PICK n \in Names :
        LET outer == {i \in 2..Len(tables) - 1 : tables[i][n] # NoSymbol}
            found == tables[Largest(outer)][n]
        IN  /\ tables[Len(tables)][n] = NoSymbol
            /\ outer # {}
            /\ found.type # "function"
            /\ tables' = [tables EXCEPT ![Len(tables)][n] =
                            NewSymbol(n, found.id, found.type, "nonlocal")]
            /\ decls' = [decls EXCEPT ![found.id].nonlocal = TRUE]
  BY DEF NonLocal
<1> DEFINE outer == {i \in 2..Len(tables) - 1 : tables[i][n] # NoSymbol}
           w == Largest(outer)
<1>2. /\ tables[Len(tables)][n] = NoSymbol /\ outer # {}
      /\ tables' = [tables EXCEPT ![Len(tables)][n] = NewSymbol(n, tables[w][n].id, tables[w][n].type, "nonlocal")]
      /\ decls' = [decls EXCEPT ![tables[w][n].id].nonlocal = TRUE]
  BY <1>1
<1>3. w \in 1..Len(tables) /\ FoundAt(tables, Len(tables), n, w)
  <2>1. Len(tables) - 1 \in {Len(tables), Len(tables) - 1}
    OBVIOUS
  <2>2. QED BY <1>2, <2>1, LargestFound
<1> HIDE DEF w, outer
<1>4. Sound(open, tables, globals, decls)
  BY DEF Inv
<1>5. tables[Len(tables)][n].id = 0
  BY <1>2 DEF NoSymbol
<1>6. /\ Sound(open, tables', globals, decls')
      /\ tables' \in Seq(Tables) /\ Len(tables') = Len(tables) /\ tables'[Len(tables)][n].id = tables[w][n].id
      /\ \A i \in 1..Len(tables), m \in Names : i # Len(tables) \/ m # n => tables'[i][m] = tables[i][m]
      /\ \A d \in Ids : HeldIn(open, tables, globals, d) => decls'[d].eclipsed = decls[d].eclipsed
  <2>1. Rebound(open, tables, tables', globals, decls, decls', n, tables[w][n].id)
    BY <1>2, <1>3, <1>4, <1>5, SoundNonLocal
  <2>2. QED BY <2>1 DEF Rebound
<1>7. UNCHANGED <<open, globals, context>>
  BY DEF NonLocal
<1>11. open \in Seq(Frames) /\ tables \in Seq(Tables) /\ globals \in Blocks /\ Shadow(open, tables, globals, decls)
  BY DEF Inv, Sound
<1>12. Shadow(open, tables', globals, decls')
  BY <1>3, <1>6, <1>11, ShadowNonLocal
<1>8. Sound(open', tables', globals', decls') /\ Shadow(open', tables', globals', decls')
  BY <1>6, <1>7, <1>12
<1>9. Len(tables') = Len(tables)
  BY <1>2
<1>10. QED BY <1>7, <1>8, <1>9 DEF Inv, Context, context

(* Uses.                                                                    *)
LEMMA AcceptedIs ==
  ASSUME Inv, NEW n \in Names, Accepted(n)
  PROVE  /\ Where(n) \in 1..Len(tables) /\ tables[Where(n)][n].id # 0
         /\ FoundAt(tables, Len(tables), n, Where(n))
         /\ tables[Where(n)][n] \in Symbols /\ tables[Where(n)][n].id \in Ids
         /\ decls[tables[Where(n)][n].id] \in Decls
         /\ Fits(tables[Where(n)][n], decls[tables[Where(n)][n].id])
<1>1. FoundAt(tables, Len(tables), n, Where(n))
  BY WhereIs DEF Inv, Sound, Accepted
<1>2. Where(n) \in 1..Len(tables) /\ tables[Where(n)][n].id # 0
  BY <1>1 DEF FoundAt
<1>3. Fits(tables[Where(n)][n], decls[tables[Where(n)][n].id])
  BY <1>2 DEF Inv, Sound, SymbolsFit
<1>4. QED BY <1>1, <1>2, <1>3, SoundTables DEF Inv

LEMMA VisibleOf ==
  ASSUME Inv, NEW n \in Names, Visible(n) # 0
  PROVE  Visible(n) = VisibleIn(open, globals, n) /\ Visible(n) \in Ids /\ decls[Visible(n)] \in Decls
<1>1. Visible(n) = VisibleIn(open, globals, n)
  BY DEF Visible, VisibleIn
<1>2. open \in Seq(Frames) /\ globals \in Blocks /\ Declared(open, tables, globals, decls)
  BY DEF Inv, Sound
<1>3. Visible(n) \in Ids /\ HeldIn(open, tables, globals, Visible(n))
  BY <1>1, <1>2, VisibleHeld
<1>4. QED BY <1>1, <1>2, <1>3 DEF Declared

(* What the analyser finds is what is visible, or it is of a block that has *)
(* ended and the visible one is eclipsed.                                   *)
LEMMA FoundOrVisible ==
  ASSUME Inv, NEW n \in Names, Accepted(n)
  PROVE  /\ Symbol(n).id = Visible(n) \/ decls[Symbol(n).id].closed
         /\ Visible(n) # 0 => Symbol(n).id = Visible(n) \/ decls[Visible(n)].eclipsed
<1>1. FoundAt(tables, Len(tables), n, Where(n)) /\ Where(n) \in 1..Len(tables)
  BY AcceptedIs
<1>2. Len(open) \in Ends(open) /\ Len(tables) = Level(open, Len(open)) /\ Lexical(open, tables, globals, decls)
  BY SoundTables DEF Inv, Sound
<1>3. VisibleAt(open, globals, Len(open), n, Symbol(n).id) \/ decls[Symbol(n).id].closed
  BY <1>1, <1>2 DEF Lexical, Scoped, Symbol
<1>4. open \in Seq(Frames) /\ globals \in Blocks
  BY DEF Inv, Sound
<1>5. Symbol(n).id = Visible(n) \/ decls[Symbol(n).id].closed
  BY <1>3, <1>4, VisibleIs
<1>6. Where(n) = WhereIn(tables, n) /\ Visible(n) = VisibleIn(open, globals, n) /\ WhereIn(tables, n) # 0
  BY <1>1 DEF Where, WhereIn, Visible, VisibleIn
<1>7. Visible(n) # 0 => tables[Where(n)][n].id = Visible(n) \/ decls[Visible(n)].eclipsed
  BY <1>6 DEF Inv, Shadow
<1>8. QED BY <1>5, <1>7 DEF Symbol

LEMMA UseKeeps ==
  ASSUME Inv, NEW n \in Names, Accepted(n)
  PROVE  /\ Sound(open, Marked(n), globals, Read(n)) /\ Shadow(open, Marked(n), globals, Read(n))
         /\ Marked(n) \in Seq(Tables) /\ Len(Marked(n)) = Len(tables)
         /\ \A i \in 1..Len(tables), m \in Names : Marked(n)[i][m].id = tables[i][m].id
         /\ \A d \in Ids : decls[d] \in Decls => Read(n)[d] \in Decls /\ Read(n)[d].eclipsed = decls[d].eclipsed
                                                /\ Read(n)[d].closed = decls[d].closed
<1> DEFINE w == Where(n)
<1>1. w \in 1..Len(tables) /\ tables[w][n].id # 0 /\ tables[w][n].id \in Ids /\ decls[tables[w][n].id] \in Decls
  BY AcceptedIs
<1>2. Marked(n) = UsedIn(tables, w, n)
  BY <1>1 DEF Marked, Reportable, Symbol, UsedIn
<1>3. PICK v \in Ids : decls[v] \in Decls /\ (v = tables[w][n].id \/ decls[v].eclipsed) /\ Read(n) \in MayRead(decls, v)
  <2>1. CASE Visible(n) = 0
    <3>1. Read(n) = decls
      BY <2>1 DEF Read
    <3>2. QED BY <1>1, <3>1 DEF MayRead
  <2>2. CASE Visible(n) # 0
    <3>1. Visible(n) \in Ids /\ decls[Visible(n)] \in Decls
      BY <2>2, VisibleOf
    <3>2. tables[w][n].id = Visible(n) \/ decls[Visible(n)].eclipsed
      BY <2>2, FoundOrVisible DEF Symbol
    <3>3. Read(n) \in MayRead(decls, Visible(n))
      BY DEF Read, MayRead
    <3>4. QED BY <3>1, <3>2, <3>3
  <2>3. QED BY <2>1, <2>2
<1> HIDE DEF w
<1>4. Sound(open, tables, globals, decls) /\ Shadow(open, tables, globals, decls)
  BY DEF Inv
<1> DEFINE t == Marked(n)
           ds == Read(n)
<1>5. /\ Sound(open, t, globals, ds)
      /\ t \in Seq(Tables) /\ Len(t) = Len(tables)
      /\ \A i \in 1..Len(tables), m \in Names : t[i][m].id = tables[i][m].id
      /\ \A d \in Ids : decls[d] \in Decls => ds[d] \in Decls /\ ds[d].eclipsed = decls[d].eclipsed
                                             /\ ds[d].closed = decls[d].closed
  <2>1. t = UsedIn(tables, w, n) /\ ds \in MayRead(decls, v)
    BY <1>2, <1>3
  <2> HIDE DEF t, ds
  <2>2. QED BY <1>1, <1>3, <1>4, <2>1, SoundUsed
<1> HIDE DEF t, ds
<1>6. Shadow(open, t, globals, ds)
  <2>1. \A d \in Ids : HeldIn(open, tables, globals, d) => ds[d].eclipsed = decls[d].eclipsed
    BY <1>4, <1>5 DEF Sound, Declared
  <2>2. open \in Seq(Frames) /\ tables \in Seq(Tables) /\ globals \in Blocks
    BY <1>4 DEF Sound
  <2>3. QED BY <1>4, <1>5, <2>1, <2>2, ShadowSame
<1>7. QED BY <1>5, <1>6 DEF t, ds

LEMMA UseIsKept ==
  ASSUME Inv, NEW n \in Names, Accepted(n), tables' = Marked(n), decls' = Read(n),
         UNCHANGED <<open, context, globals>>
  PROVE  Inv'
<1>1. Sound(open', tables', globals', decls') /\ Shadow(open', tables', globals', decls') /\ Len(tables') = Len(tables)
  BY UseKeeps
<1>2. QED BY <1>1 DEF Inv, Context, context

(* Constructs that open.                                                    *)
LEMMA ContextOpened ==
  ASSUME Inv, NEW f, f.function = function, f.prefix = currentPrefix,
         Len(open) < MaxDepth, open' = Append(open, f),
         function' = IF f.kind = "function" THEN Len(open) + 1 ELSE function,
         currentPrefix' = IF f.kind = "prefixcall" THEN TRUE ELSE currentPrefix,
         scope' = Len(tables')
  PROVE  Context'
<1>1. /\ open \in Seq(Frames) /\ Len(open) \in Nat /\ currentPrefix \in BOOLEAN
      /\ Nested(open, function, currentPrefix)
  BY SoundTables DEF Inv, Sound, Context
<1>2. Nested(open', function', currentPrefix')
  BY <1>1, NestedOpened
<1>3. Len(open') = Len(open) + 1
  BY <1>1
<1>4. Len(open') <= MaxDepth
  BY <1>1, <1>3, Bounds
<1>5. function' \in 0..MaxDepth
  BY <1>1, Bounds DEF Inv, Context
<1>6. currentPrefix' \in BOOLEAN
  BY <1>1
<1>7. QED BY <1>2, <1>4, <1>5, <1>6 DEF Context

LEMMA AppendedOther ==
  ASSUME NEW S, NEW q \in Seq(S), NEW a \in S, NEW b \in S
  PROVE  Append(q, a)[Len(q) + 1] = a /\ [Append(q, a) EXCEPT ![Len(q) + 1] = b] = Append(q, b)
<1> DEFINE l == Append(q, a)
           r == Append(q, b)
           N == Len(q)
<1>1. /\ N \in Nat
      /\ l \in Seq(S) /\ Len(l) = N + 1 /\ l[N + 1] = a /\ \A i \in 1..N : l[i] = q[i]
      /\ r \in Seq(S) /\ Len(r) = N + 1 /\ r[N + 1] = b /\ \A i \in 1..N : r[i] = q[i]
  OBVIOUS
<1> HIDE DEF l, r, N
<1>2. [l EXCEPT ![N + 1] = b] = r
  <2>1. l = [i \in 1..N + 1 |-> l[i]] /\ r = [i \in 1..N + 1 |-> r[i]]
    BY <1>1
  <2>2. \A i \in 1..N + 1 : r[i] = IF i = N + 1 THEN b ELSE l[i]
    BY <1>1
  <2>3. [l EXCEPT ![N + 1] = b] = [i \in 1..N + 1 |-> IF i = N + 1 THEN b ELSE l[i]]
    BY <2>1
  <2>4. QED BY <2>1, <2>2, <2>3
<1>3. QED BY <1>1, <1>2 DEF l, r, N

LEMMA AppendedChange ==
  ASSUME NEW t \in Seq(Tables), NEW n \in Names, NEW s \in Symbols
  PROVE  Change(Append(t, Empty), Len(t) + 1, n, s) = Append(t, [Empty EXCEPT ![n] = s])
<1>1. Empty \in Tables
  BY DEF Empty, Tables
<1> DEFINE b == [Empty EXCEPT ![n] = s]
<1>2. b \in Tables
  BY <1>1 DEF Tables
<1> HIDE DEF b
<1>3. /\ Append(t, Empty)[Len(t) + 1] = Empty
      /\ [Append(t, Empty) EXCEPT ![Len(t) + 1] = b] = Append(t, b)
  BY <1>1, <1>2, AppendedOther
<1>4. QED BY <1>3 DEF Change, b

Bound(f, n, id) == [f EXCEPT !.block[n] = id]
BoundLast(o, n, id) == [o EXCEPT ![Len(o)].block[n] = id]
LEMMA AppendedBlock ==
  ASSUME NEW o \in Seq(Frames), NEW f \in Frames, NEW n \in Names, NEW id \in Ids
  PROVE  BoundLast(Append(o, f), n, id) = Append(o, Bound(f, n, id))
<1> DEFINE b == Bound(f, n, id)
           a == Append(o, f)
           N == Len(o) + 1
<1>1. b \in Frames
  <2>1. f.block \in Blocks /\ id \in 0..MaxDecls
    BY DEF Frames, Ids
  <2>2. [f.block EXCEPT ![n] = id] \in Blocks
    BY <2>1 DEF Blocks
  <2>3. b = [f EXCEPT !.block = [f.block EXCEPT ![n] = id]]
    BY DEF Bound
  <2>4. QED BY <2>2, <2>3 DEF Frames
<1>2. Len(a) = N /\ a[N] = f
  OBVIOUS
<1>3. BoundLast(a, n, id) = [a EXCEPT ![Len(a)] = Bound(a[Len(a)], n, id)]
  BY DEF BoundLast, Bound
<1> HIDE DEF b
<1>4. [Append(o, f) EXCEPT ![Len(o) + 1] = b] = Append(o, b)
  BY <1>1, AppendedOther
<1> HIDE DEF a, N
<1>5. BoundLast(a, n, id) = [a EXCEPT ![N] = b]
  BY <1>2, <1>3 DEF b
<1>6. QED BY <1>4, <1>5 DEF a, b, N

LEMMA OpenTableKeeps ==
  ASSUME Inv, NEW kind \in TableKinds, OpenTable(Frame(kind)), UNCHANGED globals
  PROVE  /\ Sound(open', tables', globals', decls') /\ Shadow(open', tables', globals', decls')
         /\ scope' = Len(tables') /\ Len(open) < MaxDepth
         /\ \E f : /\ open' = Append(open, f) /\ f.kind = kind
                   /\ f.function = function /\ f.prefix = currentPrefix
<1> DEFINE frame == Frame(kind)
           o1 == Append(open, frame)
           t1 == Append(tables, Empty)
<1>1. /\ frame \in Frames /\ frame.block = NoNames /\ frame.kind = kind
      /\ frame.function = function /\ frame.prefix = currentPrefix
  BY FrameType
<1>2. Sound(open, tables, globals, decls) /\ Len(tables) \in Nat /\ Len(open) \in Nat
      /\ open \in Seq(Frames) /\ tables \in Seq(Tables) /\ scope = Len(tables)
  BY SoundTables DEF Inv, Sound, Context
<1> HIDE DEF frame
<1>3. Sound(o1, t1, globals, decls)
  BY <1>1, <1>2, SoundOpened
<1>9. Shadow(o1, t1, globals, decls) /\ o1 \in Seq(Frames) /\ t1 \in Seq(Tables) /\ globals \in Blocks
  <2>1. Shadow(o1, t1, globals, decls)
    BY <1>1, <1>2, ShadowPushed DEF Inv
  <2>2. QED BY <1>3, <2>1 DEF Sound
<1>4. Len(t1) = Len(tables) + 1 /\ Len(o1) = Len(open) + 1 /\ o1 # <<>>
  BY <1>2
<1>5. scope' = scope + 1 /\ Len(open) < MaxDepth
  BY DEF OpenTable
<1>6. CASE open' = Append(open, frame) /\ tables' = Append(tables, Empty) /\ UNCHANGED decls
  BY <1>1, <1>2, <1>3, <1>4, <1>5, <1>6, <1>9
<1>7. ASSUME FreeIds # {}, NEW n \in Names, NEW nullable \in BOOLEAN, NEW type, NEW decl,
             type = ParameterType(kind, nullable), decl = Declaration(ParameterKind(kind, nullable), nullable),
             open' = Append(open, [frame EXCEPT !.block[n] = NewId]),
             tables' = Append(tables, [Empty EXCEPT ![n] = NewSymbol(n, NewId, type, "local")]),
             decls' = [decls EXCEPT ![NewId] = decl]
      PROVE  /\ Sound(open', tables', globals', decls') /\ Shadow(open', tables', globals', decls')
             /\ scope' = Len(tables')
             /\ \E f : /\ open' = Append(open, f) /\ f.kind = kind
                       /\ f.function = function /\ f.prefix = currentPrefix
  <2>1. NewId \in Ids /\ decls[NewId] = NoDecl
    BY <1>7, NewIdFree
  <2>8. type \in {"value", "nullable", "function"}
    BY <1>7 DEF ParameterType
  <2>9. Suits(decl, type)
    <3>1. ParameterKind(kind, nullable) \in {"local", "untyped", "other"}
      BY DEF ParameterKind
    <3>2. decl \in Decls /\ decl.closed = FALSE /\ decl.read = FALSE /\ decl.nullable = nullable
          /\ decl.kind = ParameterKind(kind, nullable)
      BY <1>7, <3>1, DeclarationIs
    <3>3. nullable => type = "nullable" \/ ParameterKind(kind, nullable) = "untyped"
      BY <1>7 DEF ParameterKind, ParameterType
    <3>4. QED BY <3>2, <3>3 DEF Suits
  <2>2. tables' = Change(t1, Len(t1), n, NewSymbol(n, NewId, type, "local"))
    <3>1. NewSymbol(n, NewId, type, "local") \in Symbols
      BY <2>1, <2>8 DEF NewSymbol, Symbols
    <3>2. QED BY <1>2, <1>4, <1>7, <3>1, AppendedChange
  <2>3. open' = [o1 EXCEPT ![Len(o1)].block[n] = NewId]
    <3>1. BoundLast(o1, n, NewId) = Append(open, Bound(frame, n, NewId))
      BY <1>1, <1>2, <2>1, AppendedBlock
    <3>2. Bound(frame, n, NewId) = [frame EXCEPT !.block[n] = NewId]
      BY DEF Bound
    <3>3. BoundLast(o1, n, NewId) = [o1 EXCEPT ![Len(o1)].block[n] = NewId]
      BY DEF BoundLast
    <3>4. QED BY <1>7, <3>1, <3>2, <3>3
  <2> HIDE DEF o1, t1
  <2>12. Places(o1, open', t1, tables', globals, globals', n, NewId, type, "local")
    BY <1>3, <1>4, <2>2, <2>3 DEF Places
  <2>13. Enters(decls, decls', NewId, decl, type)
    BY <1>7, <2>1, <2>9 DEF Enters
  <2>14. Entered(o1, open', t1, tables', globals, globals', decls, decls', n, NewId)
    BY <1>3, <2>1, <2>8, <2>12, <2>13, SoundDeclared
  <2>11. Sound(open', tables', globals', decls')
    BY <2>14 DEF Entered
  <2>10. OnlyHere(o1, open', t1, tables', globals, globals', decls, decls', n, NewId)
    BY <2>14 DEF Entered
  <2>4. Sound(open', tables', globals', decls') /\ Shadow(open', tables', globals', decls')
    BY <1>9, <2>1, <2>10, <2>11, ShadowDeclared
  <2>5. Len(tables') = Len(tables) + 1
    BY <1>2, <1>7
  <2> DEFINE f == [frame EXCEPT !.block[n] = NewId]
  <2>6. open' = Append(open, f) /\ f.kind = kind /\ f.function = function /\ f.prefix = currentPrefix
    BY <1>1, <1>7 DEF Frames
  <2>7. QED BY <1>2, <1>5, <2>4, <2>5, <2>6
<1>8. QED
  <2>1. \/ open' = Append(open, frame) /\ tables' = Append(tables, Empty) /\ UNCHANGED decls
        \/ /\ FreeIds # {}
           /\ \E n \in Names, nullable \in BOOLEAN :
                /\ open' = Append(open, [frame EXCEPT !.block[n] = NewId])
                /\ tables' = Append(tables, [Empty EXCEPT ![n] =
                      NewSymbol(n, NewId, ParameterType(kind, nullable), "local")])
                /\ decls' = [decls EXCEPT ![NewId] = Declaration(ParameterKind(kind, nullable), nullable)]
    BY <1>1 DEF OpenTable, frame
  <2>2. QED BY <1>5, <1>6, <1>7, <2>1

LEMMA BodyKeeps == ASSUME Inv, Body PROVE Inv'
<1>1. /\ Sound(open', tables', globals', decls') /\ Shadow(open', tables', globals', decls')
      /\ scope' = Len(tables') /\ Len(open) < MaxDepth
      /\ \E f : /\ open' = Append(open, f) /\ f.kind = "function"
                /\ f.function = function /\ f.prefix = currentPrefix
  BY OpenTableKeeps DEF Body, TableKinds
<1>2. PICK f : /\ open' = Append(open, f) /\ f.kind = "function"
               /\ f.function = function /\ f.prefix = currentPrefix
  BY <1>1
<1>3. function' = Len(open) + 1 /\ currentPrefix' = currentPrefix
  BY DEF Body
<1>4. Context'
  BY <1>1, <1>2, <1>3, ContextOpened
<1>5. QED BY <1>1, <1>4 DEF Inv

LEMMA MemberKeeps ==
  ASSUME Inv, NEW kind \in {"member", "lambda"}, OpenTable(Frame(kind)), UNCHANGED <<function, currentPrefix, globals>>
  PROVE  Inv'
<1>1. /\ Sound(open', tables', globals', decls') /\ Shadow(open', tables', globals', decls')
      /\ scope' = Len(tables') /\ Len(open) < MaxDepth
      /\ \E f : /\ open' = Append(open, f) /\ f.kind = kind
                /\ f.function = function /\ f.prefix = currentPrefix
  BY OpenTableKeeps DEF TableKinds
<1>2. PICK f : /\ open' = Append(open, f) /\ f.kind = kind
               /\ f.function = function /\ f.prefix = currentPrefix
  BY <1>1
<1>3. f.kind # "function" /\ f.kind # "prefixcall"
  BY <1>2
<1>4. Context'
  BY <1>1, <1>2, <1>3, ContextOpened
<1>5. QED BY <1>1, <1>4 DEF Inv

(* A construct that opens without a declaration.                            *)
LEMMA PushKeeps ==
  ASSUME Inv, NEW kind \in {"prefix", "prefixcall", "inner"}, Len(open) < MaxDepth,
         open' = Append(open, Frame(kind)), UNCHANGED function,
         currentPrefix' = IF kind = "prefixcall" THEN TRUE ELSE currentPrefix,
         scope' = Len(tables')
  PROVE  Context'
<1>1. Frame(kind).kind = kind /\ Frame(kind).function = function /\ Frame(kind).prefix = currentPrefix
  BY FrameType DEF TableKinds, BlockKinds
<1>2. QED BY <1>1, ContextOpened

LEMMA PushedBlock ==
  ASSUME NEW t, NEW ds, Sound(open, t, globals, ds), Shadow(open, t, globals, ds), Inv, NEW kind \in BlockKinds
  PROVE  /\ Sound(Append(open, Frame(kind)), t, globals, ds)
         /\ Shadow(Append(open, Frame(kind)), t, globals, ds)
<1>1. Frame(kind) \in Frames /\ Frame(kind).block = NoNames /\ Frame(kind).kind = kind
  BY FrameType
<1>2. Frame(kind).kind \notin TableKinds
  BY <1>1 DEF BlockKinds, TableKinds
<1>3. Sound(Append(open, Frame(kind)), t, globals, ds)
  BY <1>1, <1>2, SoundOpened
<1>4. open \in Seq(Frames) /\ t \in Seq(Tables)
  BY DEF Sound
<1>5. QED BY <1>1, <1>2, <1>3, <1>4, ShadowPushed

LEMMA PrefixKeeps == ASSUME Inv, Prefix PROVE Inv'
<1>1. Frame("prefix") \in Frames /\ Frame("prefix").block = NoNames /\ Frame("prefix").kind \in TableKinds
  BY FrameType DEF TableKinds
<1>2. Sound(open, tables, globals, decls) /\ tables \in Seq(Tables) /\ scope = Len(tables)
      /\ Shadow(open, tables, globals, decls) /\ open \in Seq(Frames)
  BY DEF Inv, Sound, Context
<1>3. Sound(Append(open, Frame("prefix")), Append(tables, Empty), globals, decls)
      /\ Shadow(Append(open, Frame("prefix")), Append(tables, Empty), globals, decls)
  BY <1>1, <1>2, SoundOpened, ShadowPushed
<1>4. /\ open' = Append(open, Frame("prefix")) /\ tables' = Append(tables, Empty)
      /\ Len(open) < MaxDepth /\ scope' = scope + 1
      /\ UNCHANGED <<function, currentPrefix, globals, decls>>
  BY DEF Prefix
<1>5. Sound(open', tables', globals', decls') /\ Shadow(open', tables', globals', decls')
  BY <1>3, <1>4
<1>6. scope' = Len(tables')
  BY <1>2, <1>4
<1>7. Context'
  BY <1>4, <1>6, PushKeeps
<1>8. QED BY <1>5, <1>7 DEF Inv

LEMMA PrefixCallKeeps == ASSUME Inv, PrefixCall PROVE Inv'
<1>1. PICK found \in BOOLEAN : /\ Open(IF found THEN "prefixcall" ELSE "inner")
                               /\ currentPrefix' = (found \/ currentPrefix)
  BY DEF PrefixCall
<1> DEFINE kind == IF found THEN "prefixcall" ELSE "inner"
<1>2. kind \in {"prefix", "prefixcall", "inner"} /\ kind \in BlockKinds
  BY DEF BlockKinds
<1>3. Len(open) < MaxDepth /\ open' = Append(open, Frame(kind))
  BY <1>1 DEF Open
<1>4. currentPrefix \in BOOLEAN /\ scope = Len(tables)
  BY DEF Inv, Context
<1>5. currentPrefix' = IF kind = "prefixcall" THEN TRUE ELSE currentPrefix
  BY <1>1, <1>4
<1>6. UNCHANGED <<function, scope, tables, globals, decls>>
  BY DEF PrefixCall
<1> HIDE DEF kind
<1>7. Context'
  BY <1>2, <1>3, <1>4, <1>5, <1>6, PushKeeps
<1>8. Sound(open, tables, globals, decls) /\ Shadow(open, tables, globals, decls)
  BY DEF Inv
<1>9. /\ Sound(Append(open, Frame(kind)), tables, globals, decls)
      /\ Shadow(Append(open, Frame(kind)), tables, globals, decls)
  BY <1>2, <1>8, PushedBlock
<1>10. QED BY <1>3, <1>6, <1>7, <1>9 DEF Inv

LEMMA InnerBlockKeeps == ASSUME Inv, InnerBlock PROVE Inv'
<1>1. Len(open) < MaxDepth /\ open' = Append(open, Frame("inner")) /\ UNCHANGED <<tables, context, globals, decls>>
  BY DEF InnerBlock, Open
<1>2. scope = Len(tables) /\ UNCHANGED <<scope, function, currentPrefix>>
  BY <1>1 DEF Inv, Context, context
<1>3. Context'
  BY <1>1, <1>2, PushKeeps
<1>4. Sound(open, tables, globals, decls) /\ Shadow(open, tables, globals, decls)
  BY DEF Inv
<1>5. /\ Sound(Append(open, Frame("inner")), tables, globals, decls)
      /\ Shadow(Append(open, Frame("inner")), tables, globals, decls)
  BY <1>4, PushedBlock DEF BlockKinds
<1>6. QED BY <1>1, <1>3, <1>5 DEF Inv

LEMMA IfNotNullKeeps == ASSUME Inv, IfNotNull PROVE Inv'
<1>1. PICK n \in Names :
        /\ Accepted(n)
        /\ tables' = [Marked(n) EXCEPT ![Where(n)][n].checked = TRUE]
        /\ decls' = IF Visible(n) = 0 THEN decls ELSE [Read(n) EXCEPT ![Visible(n)].checked = TRUE]
  BY DEF IfNotNull
<1>2. Len(open) < MaxDepth /\ open' = Append(open, Frame("inner")) /\ UNCHANGED <<scope, function, currentPrefix, globals>>
  BY DEF IfNotNull, Open
<1> DEFINE t == Marked(n)
           ds == Read(n)
           w == Where(n)
<1>3. /\ Sound(open, t, globals, ds) /\ Shadow(open, t, globals, ds) /\ t \in Seq(Tables) /\ Len(t) = Len(tables)
      /\ \A i \in 1..Len(tables), m \in Names : t[i][m].id = tables[i][m].id
      /\ \A d \in Ids : decls[d] \in Decls => ds[d] \in Decls /\ ds[d].closed = decls[d].closed
  BY <1>1, UseKeeps
<1>4. w \in 1..Len(t) /\ t[w][n].id # 0 /\ t[w][n].id = Symbol(n).id /\ t[w][n].id \in Ids /\ decls[t[w][n].id] \in Decls
  BY <1>1, <1>3, AcceptedIs DEF Symbol
<1>5. Symbol(n).id = Visible(n) \/ decls[Symbol(n).id].closed
  BY <1>1, FoundOrVisible
<1>11. tables' = CheckedAt(t, w, n)
  BY <1>1 DEF CheckedAt
<1>12. PICK v \in Ids : Checks(ds, decls', t[w][n].id, v)
  <2>1. CASE Visible(n) = 0
    <3>1. decls' = ds
      BY <1>1, <2>1 DEF Read
    <3>2. ds[t[w][n].id].closed /\ ds[t[w][n].id] \in Decls
      BY <1>3, <1>4, <1>5, <2>1
    <3>3. QED BY <1>4, <3>1, <3>2 DEF MayCheck, Checks
  <2>2. CASE Visible(n) # 0
    <3>1. Visible(n) \in Ids /\ ds[Visible(n)] \in Decls
      BY <1>3, <2>2, VisibleOf
    <3>2. decls' = [ds EXCEPT ![Visible(n)].checked = TRUE]
      BY <1>1, <2>2
    <3>3. Visible(n) = t[w][n].id \/ ds[t[w][n].id].closed
      BY <1>3, <1>4, <1>5
    <3> HIDE DEF t, ds, w
    <3>4. QED BY <3>1, <3>2, <3>3 DEF MayCheck, Checks
  <2>3. QED BY <2>1, <2>2
<1> HIDE DEF t, ds, w
<1>13. /\ Sound(open, tables', globals, decls')
       /\ \A i \in 1..Len(t), m \in Names : tables'[i][m].id = t[i][m].id
       /\ \A d \in Ids : ds[d] \in Decls => decls'[d].eclipsed = ds[d].eclipsed
  <2>1. SoundlyChecked(open, t, tables', globals, ds, decls')
    BY <1>3, <1>4, <1>11, <1>12, SoundChecked
  <2>2. QED BY <2>1 DEF SoundlyChecked
<1>14. Len(tables') = Len(t)
  BY <1>3, <1>11 DEF CheckedAt
<1>15. Shadow(open, tables', globals, decls')
  <2>1. \A d \in Ids : HeldIn(open, t, globals, d) => decls'[d].eclipsed = ds[d].eclipsed
    BY <1>3, <1>13 DEF Sound, Declared
  <2>2. open \in Seq(Frames) /\ globals \in Blocks /\ tables' \in Seq(Tables)
    BY <1>13 DEF Sound
  <2>3. QED BY <1>3, <1>13, <1>14, <2>1, <2>2, ShadowSame
<1>7. /\ Sound(Append(open, Frame("inner")), tables', globals, decls')
      /\ Shadow(Append(open, Frame("inner")), tables', globals, decls')
  BY <1>13, <1>15, PushedBlock DEF BlockKinds
<1>8. Len(tables') = Len(tables) /\ scope = Len(tables)
  BY <1>3, <1>14 DEF Inv, Context
<1>9. Context'
  BY <1>2, <1>8, PushKeeps
<1>10. QED BY <1>2, <1>7, <1>9 DEF Inv

LEMMA ForInKeeps == ASSUME Inv, ForIn PROVE Inv'
<1> DEFINE frame == Frame("inner")
           o1 == Append(open, frame)
<1>1. Len(open) < MaxDepth /\ UNCHANGED <<context, globals>>
  BY DEF ForIn
<1>2. /\ frame \in Frames /\ frame.kind = "inner" /\ frame.function = function /\ frame.prefix = currentPrefix
  BY FrameType DEF BlockKinds
<1>3. Sound(open, tables, globals, decls) /\ scope = Len(tables) /\ open \in Seq(Frames) /\ Len(open) \in Nat
      /\ Shadow(open, tables, globals, decls) /\ tables \in Seq(Tables) /\ globals \in Blocks
  BY SoundTables DEF Inv, Context, Sound
<1>4. Sound(o1, tables, globals, decls) /\ Shadow(o1, tables, globals, decls) /\ o1 \in Seq(Frames)
  <2>1. Sound(o1, tables, globals, decls) /\ Shadow(o1, tables, globals, decls)
    BY <1>3, PushedBlock DEF BlockKinds
  <2>2. QED BY <2>1 DEF Sound
<1> HIDE DEF frame
<1>5. CASE open' = o1 /\ UNCHANGED <<tables, decls>>
  <2>1. Context'
    BY <1>1, <1>3, <1>5, PushKeeps DEF context, frame
  <2>2. QED BY <1>1, <1>4, <1>5, <2>1 DEF Inv
<1>6. ASSUME FreeIds # {}, NEW n \in Names, open' = Append(open, [frame EXCEPT !.block[n] = NewId]),
             tables' = [tables EXCEPT ![Len(tables)][n] = NewSymbol(n, NewId, "value", "local")],
             decls' = Kept([decls EXCEPT ![NewId] = Declaration("local", FALSE)])
      PROVE  Inv'
  <2>1. NewId \in Ids /\ decls[NewId] = NoDecl
    BY <1>6, NewIdFree
  <2>2. tables' = Change(tables, Len(tables), n, NewSymbol(n, NewId, "value", "local"))
    BY <1>6 DEF Change
  <2>3. open' = [o1 EXCEPT ![Len(o1)].block[n] = NewId] /\ o1 # <<>>
    <3>1. BoundLast(o1, n, NewId) = Append(open, Bound(frame, n, NewId))
      BY <1>2, <1>3, <2>1, AppendedBlock
    <3>2. Bound(frame, n, NewId) = [frame EXCEPT !.block[n] = NewId]
      BY DEF Bound
    <3>3. BoundLast(o1, n, NewId) = [o1 EXCEPT ![Len(o1)].block[n] = NewId]
      BY DEF BoundLast
    <3>4. o1 # <<>>
      BY <1>3
    <3>5. QED BY <1>6, <3>1, <3>2, <3>3, <3>4
  <2> HIDE DEF o1
  <2> DEFINE decl == Declaration("local", FALSE)
             ds == [decls EXCEPT ![NewId] = decl]
  <2>11. Suits(decl, "value")
    BY DeclarationIs DEF Suits
  <2>12. decls' = Kept(ds)
    BY <1>6
  <2> HIDE DEF decl
  <2>15. Places(o1, open', tables, tables', globals, globals', n, NewId, "value", "local")
    BY <1>1, <2>2, <2>3 DEF Places
  <2>16. Enters(decls, ds, NewId, decl, "value")
    BY <2>1, <2>11 DEF Enters
  <2>17. Entered(o1, open', tables, tables', globals, globals', decls, ds, n, NewId)
    BY <1>4, <2>1, <2>15, <2>16, SoundDeclared
  <2>4. Sound(open', tables', globals', ds)
    BY <2>17 DEF Entered
  <2>14. OnlyHere(o1, open', tables, tables', globals, globals', decls, ds, n, NewId)
    BY <2>17 DEF Entered
  <2>13. Shadow(open', tables', globals', ds)
    BY <1>3, <1>4, <2>1, <2>14, ShadowDeclared
  <2> HIDE DEF ds
  <2>5. Sound(open', tables', globals', decls') /\ Shadow(open', tables', globals', decls')
    BY <2>4, <2>12, <2>13, SoundKept, ShadowKept
  <2>6. Len(tables') = Len(tables)
    BY <1>6
  <2> DEFINE f == [frame EXCEPT !.block[n] = NewId]
  <2>7. open' = Append(open, f) /\ f.kind = "inner" /\ f.function = function /\ f.prefix = currentPrefix
    BY <1>2, <1>6 DEF Frames
  <2> HIDE DEF f
  <2>8. UNCHANGED <<scope, function, currentPrefix>>
    BY <1>1 DEF context
  <2>9. Context'
    BY <1>1, <1>3, <2>6, <2>7, <2>8, ContextOpened
  <2>10. QED BY <2>5, <2>9 DEF Inv
<1>7. \/ open' = o1 /\ UNCHANGED <<tables, decls>>
      \/ /\ FreeIds # {}
         /\ \E n \in Names :
              /\ open' = Append(open, [frame EXCEPT !.block[n] = NewId])
              /\ tables' = [tables EXCEPT ![Len(tables)][n] = NewSymbol(n, NewId, "value", "local")]
              /\ decls' = Kept([decls EXCEPT ![NewId] = Declaration("local", FALSE)])
  BY DEF ForIn, frame
<1>8. QED BY <1>5, <1>6, <1>7

(* Constructs that close.                                                   *)
LEMMA CloseBlockKeeps == ASSUME Inv, CloseBlock PROVE Inv'
<1>1. /\ open # <<>> /\ open[Len(open)].kind \in BlockKinds /\ open' = SubSeq(open, 1, Len(open) - 1)
      /\ currentPrefix' = (IF open[Len(open)].kind = "prefixcall" THEN open[Len(open)].prefix ELSE currentPrefix)
      /\ UNCHANGED <<tables, scope, function, globals>>
      /\ decls' = Kept(Eclipsed(Closed(open[Len(open)].block)))
  BY DEF CloseBlock, Top, Shut
<1>2. open[Len(open)].kind \notin TableKinds /\ open[Len(open)].kind # "function"
  BY <1>1 DEF BlockKinds, TableKinds
<1>3. Sound(open, tables, globals, decls) /\ open \in Seq(Frames)
  BY DEF Inv, Sound
<1>4. Sound(SubSeq(open, 1, Len(open) - 1), tables, globals, Closed(open[Len(open)].block))
  BY <1>1, <1>2, <1>3, SoundClosed DEF Closed
<1>5. Sound(open', tables', globals', Closed(open[Len(open)].block))
  BY <1>1, <1>4
<1>6. Sound(open', tables', globals', decls') /\ Shadow(open', tables', globals', decls')
  BY <1>1, <1>5, SoundEclipsed, SoundKept, ShadowKept
<1>7. Nested(open, function, currentPrefix) /\ currentPrefix \in BOOLEAN
  BY DEF Inv, Context
<1>8. Nested(SubSeq(open, 1, Len(open) - 1), function, currentPrefix')
  BY <1>1, <1>2, <1>3, <1>7, NestedClosed
<1>9. Len(open') = Len(open) - 1 /\ Len(open) \in Nat \ {0} /\ open[Len(open)] \in Frames
  BY <1>1, <1>3, Popped
<1>10. currentPrefix' \in BOOLEAN
  BY <1>1, <1>7, <1>9 DEF Frames
<1>11. Len(open') <= MaxDepth
  BY <1>9, Bounds DEF Inv, Context
<1>12. Context'
  BY <1>1, <1>8, <1>10, <1>11 DEF Inv, Context
<1>13. QED BY <1>6, <1>12 DEF Inv

LEMMA CloseTableKeeps ==
  ASSUME Inv, NEW kind \in TableKinds, CloseTable(kind), UNCHANGED currentPrefix,
         function' = IF kind = "function" THEN Top.function ELSE function
  PROVE  Inv'
<1>1. /\ open # <<>> /\ open[Len(open)].kind = kind /\ open' = SubSeq(open, 1, Len(open) - 1)
      /\ tables' = SubSeq(tables, 1, Len(tables) - 1) /\ scope' = scope - 1
      /\ UNCHANGED globals /\ decls' = Kept(Eclipsed(decls))
      /\ function' = IF open[Len(open)].kind = "function" THEN open[Len(open)].function ELSE function
  BY DEF CloseTable, Top, Shut, TablesLeft
<1>2. open[Len(open)].kind \in TableKinds /\ open[Len(open)].kind # "prefixcall"
  BY <1>1 DEF TableKinds
<1>3. /\ Sound(open, tables, globals, decls) /\ open \in Seq(Frames) /\ tables \in Seq(Tables)
      /\ Len(tables) \in Nat /\ Len(tables) >= 1
  BY SoundTables DEF Inv, Sound
<1>4. Sound(SubSeq(open, 1, Len(open) - 1), SubSeq(tables, 1, Len(tables) - 1), globals, decls)
  BY <1>1, <1>2, <1>3, SoundClosed
<1>5. Sound(open', tables', globals', decls)
  BY <1>1, <1>4
<1>6. Sound(open', tables', globals', decls') /\ Shadow(open', tables', globals', decls')
  BY <1>1, <1>5, SoundEclipsed, SoundKept, ShadowKept
<1>7. Nested(open, function, currentPrefix) /\ currentPrefix \in BOOLEAN
  BY DEF Inv, Context
<1>8. Nested(SubSeq(open, 1, Len(open) - 1), function', currentPrefix)
  BY <1>1, <1>2, <1>3, <1>7, NestedClosed
<1>9. Len(open') = Len(open) - 1 /\ Len(open) \in Nat \ {0} /\ open[Len(open)] \in Frames
  BY <1>1, <1>3, Popped
<1>10. function' \in 0..MaxDepth
  BY <1>1, <1>9 DEF Frames, Inv, Context
<1>11. Len(open') <= MaxDepth
  BY <1>9, Bounds DEF Inv, Context
<1>12. scope' = Len(tables')
  <2>1. tables # <<>>
    BY <1>3
  <2>2. Len(tables') = Len(tables) - 1
    BY <1>1, <1>3, <2>1, Popped
  <2>3. QED BY <1>1, <2>2 DEF Inv, Context
<1>13. Context'
  BY <1>1, <1>7, <1>8, <1>10, <1>11, <1>12 DEF Context
<1>14. QED BY <1>6, <1>13 DEF Inv

LEMMA NextInv == Inv /\ [Next]_vars => Inv'
<1> SUFFICES ASSUME Inv, [Next]_vars PROVE Inv'
  OBVIOUS
<1>1. CASE Variable
  <2>1. PICK n \in Names, type \in {"value", "nullable"} : Add(n, type, DeclScope)
    BY <1>1 DEF Variable
  <2>2. DeclScope \in {"global", "local", "field"} /\ type \in {"value", "nullable", "function"}
    BY DEF DeclScope
  <2>3. QED BY <1>1, <2>1, <2>2, AddKeeps DEF Variable
<1>2. CASE Extern
  BY <1>2, AddKeeps DEF Extern
<1>3. CASE ClassField
  BY <1>3, AddKeeps DEF ClassField
<1>4. CASE FunctionName
  BY <1>4, AddKeeps DEF FunctionName
<1>5. CASE NonLocal
  BY <1>5, NonLocalKeeps
<1>6. CASE Use
  BY <1>6, UseIsKept DEF Use
<1>7. CASE Dereference
  BY <1>7, UseIsKept DEF Dereference, MayDereference
<1>8. CASE NestedFunction \/ NextFunction
  BY <1>8, BodyKeeps DEF NestedFunction, NextFunction
<1>9. CASE NextMember
  BY <1>9, MemberKeeps DEF NextMember
<1>10. CASE Lambda
  BY <1>10, MemberKeeps DEF Lambda
<1>11. CASE Prefix
  BY <1>11, PrefixKeeps
<1>12. CASE PrefixCall
  BY <1>12, PrefixCallKeeps
<1>13. CASE If \/ While \/ MatchArm \/ Tree
  BY <1>13, InnerBlockKeeps DEF If, While, MatchArm, Tree
<1>14. CASE IfNotNull
  BY <1>14, IfNotNullKeeps
<1>15. CASE ForIn
  BY <1>15, ForInKeeps
<1>16. CASE CloseBlock
  BY <1>16, CloseBlockKeeps
<1>17. CASE EndFunction
  BY <1>17, CloseTableKeeps DEF EndFunction, TableKinds, OldFunction
<1>18. CASE EndMember
  BY <1>18, CloseTableKeeps DEF EndMember, TableKinds
<1>19. CASE EndPrefix
  BY <1>19, CloseTableKeeps DEF EndPrefix, TableKinds
<1>20. CASE EndLambda
  BY <1>20, CloseTableKeeps DEF EndLambda, TableKinds
<1>21. CASE SecondPass
  BY <1>21 DEF SecondPass, Inv, Context, context
<1>22. CASE UNCHANGED vars
  BY <1>22 DEF vars, Inv, Context, context
<1>23. QED
  BY <1>1, <1>2, <1>3, <1>4, <1>5, <1>6, <1>7, <1>8, <1>9, <1>10, <1>11, <1>12, <1>13, <1>14, <1>15,
     <1>16, <1>17, <1>18, <1>19, <1>20, <1>21, <1>22 DEF Next
-----------------------------------------------------------------------------
LEMMA InvContext == Inv => ContextMatchesNesting
<1> SUFFICES ASSUME Inv PROVE ContextMatchesNesting
  OBVIOUS
<1> DEFINE fs == {i \in 1..Len(open) : open[i].kind = "function"}
           ps == {i \in 1..Len(open) : open[i].kind = "prefixcall"}
<1>1. Len(open) \in Nat /\ Nested(open, function, currentPrefix) /\ scope = Len(tables)
      /\ Len(tables) = Level(open, Len(open)) /\ currentPrefix \in BOOLEAN
  BY SoundTables DEF Inv, Sound, Context
<1>2. Len(tables) = 1 + Count(LAMBDA f : f.kind \in TableKinds)
  BY <1>1 DEF Count, Level, WithTable
<1>3. function = IF fs = {} THEN 0 ELSE Largest(fs)
  <2>1. FunctionAt(open, Len(open), function)
    BY <1>1 DEF Nested
  <2>2. CASE function = 0 /\ \A k \in 1..Len(open) : open[k].kind # "function"
    BY <2>2
  <2>3. CASE function \in 1..Len(open) /\ open[function].kind = "function" /\ \A k \in function + 1..Len(open) : open[k].kind # "function"
    <3>1. function \in fs /\ fs \in SUBSET (1..Len(open)) /\ fs # {}
      BY <2>3
    <3>2. Largest(fs) \in fs /\ function <= Largest(fs)
      BY <1>1, <3>1, LargestIs
    <3>3. Largest(fs) \in 1..Len(open) /\ Largest(fs) \notin function + 1..Len(open)
      BY <2>3, <3>2
    <3>4. Largest(fs) = function
      BY <1>1, <2>3, <3>2, <3>3
    <3>5. QED BY <3>1, <3>4
  <2>4. QED BY <2>1, <2>2, <2>3 DEF FunctionAt
<1>4. currentPrefix <=> Some(LAMBDA f : f.kind = "prefixcall")
  <2>1. Some(LAMBDA f : f.kind = "prefixcall") <=> Cardinality(ps) > 0
    BY DEF Some, Count
  <2>2. IsFiniteSet(ps) /\ Cardinality(ps) \in Nat /\ (Cardinality(ps) = 0 <=> ps = {})
    <3>1. IsFiniteSet(1..Len(open)) /\ ps \in SUBSET (1..Len(open))
      BY <1>1, FS_Interval
    <3>2. IsFiniteSet(ps)
      BY <3>1, FS_Subset
    <3>3. QED BY <3>2, FS_CardinalityType, FS_EmptySet
  <2>3. currentPrefix <=> ps # {}
    <3>1. currentPrefix = PrefixAt(open, Len(open))
      BY <1>1 DEF Nested
    <3>2. PrefixAt(open, Len(open)) <=> ps # {}
      BY DEF PrefixAt
    <3>3. QED BY <3>1, <3>2
  <2> HIDE DEF ps
  <2>4. QED BY <2>1, <2>2, <2>3
<1>5. QED BY <1>1, <1>2, <1>3, <1>4 DEF ContextMatchesNesting

LEMMA InvResolves == Inv => ResolvesLexically
<1> SUFFICES ASSUME Inv PROVE ResolvesLexically
  OBVIOUS
<1>1. ASSUME NEW n \in Names, Accepted(n)
      PROVE  Symbol(n).id = Visible(n) \/ decls[Symbol(n).id].closed
  BY <1>1, FoundOrVisible
<1>2. QED BY <1>1, InvContext DEF ResolvesLexically

LEMMA InvChecked == Inv => DereferenceWasChecked
<1> SUFFICES ASSUME Inv, NEW n \in Names, MayDereference(n), Visible(n) # 0,
                    decls[Visible(n)].nullable, ~decls[Visible(n)].checked,
                    ~decls[Symbol(n).id].closed
             PROVE  decls[Visible(n)].kind = "untyped"
  BY DEF DereferenceWasChecked
<1>1. Accepted(n) /\ (Symbol(n).type = "nullable" => Symbol(n).checked)
  BY DEF MayDereference
<1>2. Fits(Symbol(n), decls[Symbol(n).id])
  BY <1>1, AcceptedIs DEF Symbol
<1>3. Symbol(n).id = Visible(n)
  BY <1>1, FoundOrVisible
<1>4. QED BY <1>1, <1>2, <1>3 DEF Fits

LEMMA InvUnread == Inv => WarnedIsUnread
<1> SUFFICES ASSUME Inv, NEW s \in Unused, s.scope = "local", decls[s.id].read
             PROVE  decls[s.id].nonlocal \/ decls[s.id].eclipsed
  BY DEF WarnedIsUnread
<1>1. PICK n \in Names : s = tables[Len(tables)][n] /\ s # NoSymbol /\ ~s.referenced
  BY DEF Unused
<1>2. Len(tables) \in 1..Len(tables) /\ tables \in Seq(Tables) /\ SymbolsFit(tables, decls)
  BY SoundTables DEF Inv, Sound
<1>3. s.id # 0
  BY <1>1, <1>2, SymbolType
<1>4. Fits(s, decls[s.id])
  BY <1>1, <1>2, <1>3 DEF SymbolsFit
<1>5. QED BY <1>1, <1>4 DEF Fits

LEMMA SpecInv == Spec => []Inv
BY InitInv, NextInv, PTL DEF Spec

(* A name that is accepted means the declaration that the blocks of the     *)
(* text give it, or one of a block that has ended, and the fields that      *)
(* analyseFunctionBody and the others restore by hand are those of the      *)
(* constructs that are open (sema.go, symbol.go).                           *)
THEOREM NamesResolve == Spec => []ResolvesLexically
BY SpecInv, InvResolves, PTL

(* A variable that the text declares nullable and that may be dereferenced  *)
(* (checkNullableDereference) was compared with null after its own          *)
(* declaration: unless it is a parameter of a function or a lambda, or the  *)
(* analyser holds a declaration of a block that has ended against null.     *)
THEOREM NullIsChecked == Spec => []DereferenceWasChecked
BY SpecInv, InvChecked, PTL

(* What checkUnusedSymbols reports was not read by any use that means it,   *)
(* but for a declaration that a nested function reads through nonlocal and  *)
(* one that a construct inside its block hid after its end.                 *)
THEOREM UnusedIsUnread == Spec => []WarnedIsUnread
BY SpecInv, InvUnread, PTL

-----------------------------------------------------------------------------
(* A spend statement.                                                       *)
IsDefault(i) == clauses[i].index.kind = "default"
Indexed(i) == clauses[i].index.kind \notin {"default", "none"}

(* The elements that the first n clauses name.                              *)
Elements(n) == {clauses[i].index.value : i \in {k \in 1..n : Indexed(k)}}

(* What is known when the first n clauses were analysed without an error.   *)
Analysed(n) ==
  /\ used = Elements(n)
  /\ hasDefault <=> \E i \in 1..n : IsDefault(i)
  /\ \A i \in 1..n : Indexed(i) => clauses[i].index.value \in 1..maxIndex
  /\ \A i, j \in 1..n : Indexed(i) /\ Indexed(j) /\ i # j
                          => clauses[i].index.value # clauses[j].index.value
  /\ \A i \in 1..n : clauses[i].index.kind
                       \in IF Stmt!EnumMode THEN Stmt!Enums \cup {"none"}
                                           ELSE {"number", "default", "none"}
  /\ \A i \in 1..n : ~Stmt!EarlyExit(i)

Proved == Analysed(Len(clauses)) /\ Stmt!Covered

AnalysisOK ==
  /\ stage = "generated" => pos = 1
  /\ stage = "analysis" /\ ~errors => Analysed(pos - 1)
  /\ stage \notin {"analysis", "rejected"} => Proved

(* The counter is the number of elements that are not marked.               *)
CountOK ==
  /\ stage \in {"analysis", "generated"} => consumed = {} /\ remaining = 0
  /\ stage \in {"clauses", "body"} => remaining = Cardinality((1..target.length) \ consumed)
  /\ stage \in {"body", "dispatched"} => pos <= Len(clauses)

(* What the first n clauses have consumed.                                  *)
Consumed(n) ==
  consumed = IF \E i \in 1..n : IsDefault(i) THEN 1..target.length ELSE Elements(n)

RunOK ==
  Stmt!Known =>
    /\ ran \cap Stmt!Overlooked = {}
    /\ stage = "body" => pos \notin Stmt!Overlooked
    /\ stage \in {"analysis", "generated"} => ran = {}
    /\ stage \in {"clauses", "body"} => ran = 1..pos - 1
    /\ stage = "clauses" => Consumed(pos - 1)
    /\ stage = "body" => Consumed(pos)
    /\ stage = "done" => ran = 1..Len(clauses) /\ Consumed(Len(clauses))
    /\ stage = "left" => pos <= Len(clauses) /\ ran = 1..pos /\ Consumed(pos)
    /\ stage = "left" => clauses[pos].exit # "none"
    /\ stage # "dispatched"

Calm == stage = "panic" => Stmt!Overlooked # {}

SpendInv == Stmt!TypeOK /\ CountOK /\ AnalysisOK /\ RunOK /\ Calm

USE SpendBounds DEF Stmt!Bounds
-----------------------------------------------------------------------------
LEMMA TargetTyped ==
  ASSUME target \in Stmt!Targets
  PROVE  /\ target.length \in Nat /\ target.actual \in Nat
         /\ target.kind \in {"literal", "name", "unknown", "enum"}
         /\ ~Stmt!Known => target.length = 0
<1> DEFINE L == [kind: {"literal"}, length: Stmt!Lengths, actual: Stmt!Lengths, data: {FALSE}]
           N == [kind: {"name"}, length: Stmt!Lengths, actual: Stmt!Lengths, data: {FALSE}]
           U == [kind: {"unknown"}, length: {0}, actual: {0}, data: {FALSE}]
           E == [kind: {"enum"}, length: {0}, actual: {0}, data: BOOLEAN]
<1>1. target \in L \/ target \in N \/ target \in U \/ target \in E BY DEF Stmt!Targets
<1>2. CASE target \in L BY <1>2 DEF Stmt!Lengths, Stmt!Known
<1>3. CASE target \in N BY <1>3 DEF Stmt!Lengths, Stmt!Known
<1>4. CASE target \in U BY <1>4
<1>5. CASE target \in E BY <1>5
<1>6. QED BY <1>1, <1>2, <1>3, <1>4, <1>5

LEMMA ClauseTyped ==
  ASSUME Stmt!TypeOK, NEW i \in 1..Len(clauses)
  PROVE  /\ clauses[i].index.value \in Nat
         /\ clauses[i].index.kind \in {"number", "own", "foreign", "default", "other", "none"}
         /\ clauses[i].exit \in Stmt!Exits
<1>1. clauses[i] \in Stmt!Clauses BY DEF Stmt!TypeOK
<1>2. clauses[i].index \in Stmt!Indices /\ clauses[i].exit \in Stmt!Exits BY <1>1 DEF Stmt!Clauses
<1>3. QED BY <1>2 DEF Stmt!Indices, Stmt!Enums

LEMMA LengthTyped == ASSUME Stmt!TypeOK PROVE Len(clauses) \in Nat /\ pos \in Nat \ {0}
BY DEF Stmt!TypeOK

LEMMA IntervalSize ==
  ASSUME NEW n \in Nat PROVE IsFiniteSet(1..n) /\ Cardinality(1..n) = n
<1>1. IsFiniteSet(1..n) /\ Cardinality(1..n) = IF 1 > n THEN 0 ELSE n - 1 + 1
  BY FS_Interval
<1>2. QED BY <1>1

(* Marking an element that is not marked takes one from the counter.        *)
LEMMA OneLess ==
  ASSUME Stmt!TypeOK, NEW i \in (1..target.length) \ consumed
  PROVE  /\ Cardinality((1..target.length) \ consumed) \in 1..target.length
         /\ Cardinality((1..target.length) \ (consumed \cup {i}))
              = Cardinality((1..target.length) \ consumed) - 1
<1> DEFINE S == (1..target.length) \ consumed
<1>1. target.length \in Nat BY TargetTyped DEF Stmt!TypeOK
<1>2. IsFiniteSet(1..target.length) /\ Cardinality(1..target.length) = target.length
  BY <1>1, IntervalSize
<1>3. S \subseteq 1..target.length OBVIOUS
<1>4. IsFiniteSet(S) /\ Cardinality(S) <= target.length
  BY <1>2, <1>3, FS_Subset, ZenonT(30)
<1>5. Cardinality(S) \in Nat BY <1>4, FS_CardinalityType
<1>6. Cardinality(S \ {i}) = Cardinality(S) - 1
  BY <1>4, FS_RemoveElement
<1>7. Cardinality(S \ {i}) \in Nat
  BY <1>4, FS_RemoveElement, FS_CardinalityType
<1>8. S \ {i} = (1..target.length) \ (consumed \cup {i}) OBVIOUS
<1>9. QED BY <1>1, <1>4, <1>5, <1>6, <1>7, <1>8

LEMMA InitSpend == ASSUME Stmt!Init PROVE SpendInv
<1>1. PICK n \in 0..MaxClauses : clauses \in [1..n -> Stmt!Clauses] BY DEF Stmt!Init
<1>2. n \in Nat BY <1>1
<1>3. clauses \in Seq(Stmt!Clauses) /\ Len(clauses) \in Nat BY <1>1, <1>2
<1>4. target \in Stmt!Targets BY DEF Stmt!Init
<1>5. target.length \in Nat BY <1>4, TargetTyped
<1>a. /\ stage = "analysis" /\ pos = 1 /\ used = {} /\ hasDefault = FALSE /\ maxIndex = 0
      /\ errors = FALSE /\ consumed = {} /\ remaining = 0 /\ ran = {}
  BY DEF Stmt!Init
<1>6. Stmt!TypeOK
  <2>1. stage \in Stmt!Stages BY <1>a DEF Stmt!Stages
  <2>2. pos \in 1..Len(clauses) + 1 BY <1>3, <1>a
  <2>3. used \subseteq Nat \ {0} /\ maxIndex \in Nat /\ hasDefault \in BOOLEAN /\ errors \in BOOLEAN BY <1>a
  <2>4. remaining \in 0..target.length BY <1>5, <1>a
  <2>5. consumed \subseteq 1..target.length /\ ran \subseteq 1..Len(clauses) BY <1>a
  <2>6. QED BY <1>3, <1>4, <2>1, <2>2, <2>3, <2>4, <2>5 DEF Stmt!TypeOK
<1>7. AnalysisOK BY DEF Stmt!Init, AnalysisOK, Analysed, Elements
<1>8. QED BY <1>6, <1>7 DEF Stmt!Init, SpendInv, CountOK, RunOK, Calm

USE DEF Stmt!statement, Stmt!analysis, Stmt!spendable
LEMMA NextTypeOK ==
  ASSUME Stmt!TypeOK, CountOK, [Stmt!Next]_(Stmt!vars)
  PROVE  Stmt!TypeOK'
<1> USE LengthTyped DEF Stmt!TypeOK, Stmt!Stages
<1>1. CASE Stmt!AnalyseClause
  <2>1. pos \in 1..Len(clauses) BY <1>1 DEF Stmt!AnalyseClause
  <2>2. clauses[pos].index.value \in Nat BY <2>1, ClauseTyped
  <2>3. pos' \in 1..Len(clauses) + 1 /\ UNCHANGED <<Stmt!statement, stage, Stmt!spendable, ran>>
    BY <1>1, <2>1 DEF Stmt!AnalyseClause
  <2>4. CASE Stmt!AnalyseDefault(pos) BY <2>3, <2>4 DEF Stmt!AnalyseDefault
  <2>5. CASE Stmt!AnalyseIndex(pos)
    <3> DEFINE index == clauses[pos].index
    <3>0. /\ used' = IF Stmt!Accepts(index) THEN used \cup {index.value} ELSE used
          /\ maxIndex' = IF Stmt!Accepts(index) /\ index.value > maxIndex THEN index.value ELSE maxIndex
          /\ Stmt!Accepts(index) => index.value >= 1
      BY <2>5 DEF Stmt!AnalyseIndex, Stmt!Accepts, Stmt!Fresh
    <3>1. used' \subseteq Nat \ {0} /\ maxIndex' \in Nat
      BY <2>2, <3>0
    <3>2. errors' \in BOOLEAN /\ hasDefault' \in BOOLEAN
      BY <2>5 DEF Stmt!AnalyseIndex
    <3>3. QED BY <2>3, <3>1, <3>2
  <2>6. CASE Stmt!AnalyseNoIndex(pos) BY <2>3, <2>6 DEF Stmt!AnalyseNoIndex
  <2>7. QED BY <1>1, <2>4, <2>5, <2>6 DEF Stmt!AnalyseClause
<1>2. CASE Stmt!Conclude BY <1>2 DEF Stmt!Conclude
<1>3. CASE Stmt!Lock BY <1>3, TargetTyped DEF Stmt!Lock
<1>4. CASE Stmt!ConsumeAll BY <1>4, TargetTyped DEF Stmt!ConsumeAll
<1>5. CASE Stmt!Call
  <2> DEFINE i == Stmt!Generated(clauses[pos].index)
  <2>1. UNCHANGED <<Stmt!statement, pos, Stmt!analysis, ran>> /\ stage' \in Stmt!Stages BY <1>5 DEF Stmt!Call
  <2>2. CASE i \in 1..target.length /\ i \notin consumed
    <3>1. consumed' = consumed \cup {i} /\ remaining' = remaining - 1 BY <1>5, <2>2 DEF Stmt!Call
    <3>2. remaining \in 1..target.length BY <1>5, <2>2, OneLess DEF Stmt!Call, CountOK
    <3>3. target.length \in Nat BY TargetTyped
    <3>4. remaining' \in 0..target.length BY <3>1, <3>2, <3>3
    <3>5. consumed' \subseteq 1..target.length BY <2>2, <3>1
    <3>6. QED BY <2>1, <3>4, <3>5
  <2>3. CASE ~(i \in 1..target.length /\ i \notin consumed)
    <3>1. UNCHANGED <<consumed, remaining>> BY <1>5, <2>3 DEF Stmt!Call
    <3>2. QED BY <2>1, <3>1
  <2>4. QED BY <2>2, <2>3
<1>6. CASE Stmt!BodyEnds BY <1>6 DEF Stmt!BodyEnds, CountOK
<1>7. CASE Stmt!BodyLeaves BY <1>7 DEF Stmt!BodyLeaves, CountOK
<1>8. CASE Stmt!Unlock BY <1>8 DEF Stmt!Unlock
<1>9. CASE Stmt!OnlyDefaults BY <1>9 DEF Stmt!OnlyDefaults
<1>10. CASE Stmt!Skip BY <1>10 DEF Stmt!Skip
<1>11. CASE Stmt!RunDefault BY <1>11 DEF Stmt!RunDefault
<1>12. CASE Stmt!Dispatch
  <2>1. PICK v \in 1..Variants :
          LET labelled == {i \in 1..Len(clauses) : clauses[i].index = [kind |-> "own", value |-> v]}
          IN  \/ \E i \in labelled : pos' = i /\ stage' = "dispatched"
              \/ labelled = {} /\ stage' = "panic" /\ UNCHANGED pos
    BY <1>12 DEF Stmt!Dispatch
  <2>2. pos' \in 1..Len(clauses) + 1 /\ stage' \in Stmt!Stages BY <2>1
  <2>3. UNCHANGED <<Stmt!statement, Stmt!analysis, Stmt!spendable, ran>> BY <1>12 DEF Stmt!Dispatch
  <2>4. QED BY <2>2, <2>3
<1>13. CASE Stmt!ArmEnds BY <1>13 DEF Stmt!ArmEnds, CountOK
<1>14. CASE UNCHANGED Stmt!vars
  <2>1. UNCHANGED <<target, clauses, stage, pos, used, hasDefault, maxIndex, errors, consumed,
                    remaining, ran>>
    BY <1>14 DEF Stmt!vars
  <2>2. QED BY <2>1
<1>15. QED BY <1>1, <1>2, <1>3, <1>4, <1>5, <1>6, <1>7, <1>8, <1>9, <1>10, <1>11, <1>12,
              <1>13, <1>14 DEF Stmt!Next

LEMMA NextCountOK ==
  ASSUME Stmt!TypeOK, CountOK, [Stmt!Next]_(Stmt!vars)
  PROVE  CountOK'
<1> USE LengthTyped, TargetTyped DEF CountOK
<1>1. CASE Stmt!AnalyseClause BY <1>1 DEF Stmt!AnalyseClause
<1>2. CASE Stmt!Conclude BY <1>2 DEF Stmt!Conclude
<1>3. CASE Stmt!Lock
  <2>1. /\ stage' = "clauses" /\ consumed' = {} /\ remaining' = target.length
        /\ UNCHANGED <<target, clauses, pos>>
    BY <1>3 DEF Stmt!Lock
  <2>2. target.length \in Nat BY TargetTyped DEF Stmt!TypeOK
  <2>3. (1..target.length) \ {} = 1..target.length OBVIOUS
  <2>4. QED BY <2>1, <2>2, <2>3, IntervalSize
<1>4. CASE Stmt!ConsumeAll BY <1>4, FS_EmptySet DEF Stmt!ConsumeAll, Stmt!TypeOK
<1>5. CASE Stmt!Call BY <1>5, OneLess DEF Stmt!Call, Stmt!Generated
<1>6. CASE Stmt!BodyEnds BY <1>6 DEF Stmt!BodyEnds
<1>7. CASE Stmt!BodyLeaves BY <1>7 DEF Stmt!BodyLeaves
<1>8. CASE Stmt!Unlock BY <1>8 DEF Stmt!Unlock
<1>9. CASE Stmt!OnlyDefaults BY <1>9, IntervalSize, FS_EmptySet, ZenonT(30) DEF Stmt!OnlyDefaults, Stmt!TypeOK, Stmt!Known
<1>10. CASE Stmt!Skip BY <1>10 DEF Stmt!Skip
<1>11. CASE Stmt!RunDefault BY <1>11 DEF Stmt!RunDefault
<1>12. CASE Stmt!Dispatch BY <1>12 DEF Stmt!Dispatch
<1>13. CASE Stmt!ArmEnds BY <1>13 DEF Stmt!ArmEnds
<1>14. CASE UNCHANGED Stmt!vars BY <1>14 DEF Stmt!vars, Stmt!statement, Stmt!analysis, Stmt!spendable
<1>15. QED BY <1>1, <1>2, <1>3, <1>4, <1>5, <1>6, <1>7, <1>8, <1>9, <1>10, <1>11, <1>12,
              <1>13, <1>14 DEF Stmt!Next


(* One more clause without an error: its element is none of those before.   *)
LEMMA OneMoreAnalysed ==
  ASSUME Stmt!TypeOK, Analysed(pos - 1), Stmt!AnalyseClause, ~errors'
  PROVE  Analysed(pos - 1)' /\ ~errors
<1>1. pos \in 1..Len(clauses) /\ Len(clauses) \in Nat BY LengthTyped DEF Stmt!AnalyseClause
<1>2. pos' - 1 = pos /\ UNCHANGED Stmt!statement BY <1>1 DEF Stmt!AnalyseClause
<1>3. (1..pos' - 1) = (1..pos - 1) \cup {pos} BY <1>1, <1>2
<1>4. \A i : (IsDefault(i)' <=> IsDefault(i)) /\ (Indexed(i)' <=> Indexed(i))
  BY <1>2 DEF IsDefault, Indexed
<1>5. Stmt!EnumMode' <=> Stmt!EnumMode BY <1>2 DEF Stmt!EnumMode
<1>6. \A i : Stmt!EarlyExit(i)' <=> Stmt!EarlyExit(i) BY <1>2 DEF Stmt!EarlyExit
<1>7. CASE Stmt!AnalyseDefault(pos)
  <2>1. /\ IsDefault(pos) /\ ~errors /\ ~Stmt!EnumMode /\ ~Stmt!EarlyExit(pos)
        /\ hasDefault' /\ UNCHANGED <<used, maxIndex>>
    BY <1>7 DEF Stmt!AnalyseDefault, IsDefault
  <2>2. Elements(pos - 1)' = Elements(pos - 1)
    BY <1>2, <1>3, <1>4, <2>1 DEF Elements, IsDefault, Indexed
  <2>3. QED BY <1>2, <1>3, <1>4, <1>5, <1>6, <2>1, <2>2 DEF Analysed, IsDefault, Indexed
<1>b. CASE Stmt!AnalyseNoIndex(pos)
  <2>1. /\ ~IsDefault(pos) /\ ~Indexed(pos) /\ clauses[pos].index.kind = "none"
        /\ ~errors /\ ~Stmt!EarlyExit(pos)
        /\ UNCHANGED <<used, hasDefault, maxIndex>>
    BY <1>b DEF Stmt!AnalyseNoIndex, IsDefault, Indexed
  <2>2. Elements(pos - 1)' = Elements(pos - 1)
    BY <1>2, <1>3, <1>4, <2>1 DEF Elements
  <2>3. QED BY <1>2, <1>3, <1>4, <1>5, <1>6, <2>1, <2>2 DEF Analysed
<1>8. CASE Stmt!AnalyseIndex(pos)
  <2> DEFINE v == clauses[pos].index.value
  <2>1. /\ ~IsDefault(pos) /\ Indexed(pos)
        /\ ~errors /\ Stmt!Accepts(clauses[pos].index) /\ ~Stmt!EarlyExit(pos)
        /\ used' = used \cup {v} /\ UNCHANGED hasDefault
        /\ maxIndex' = IF v > maxIndex THEN v ELSE maxIndex
    BY <1>8 DEF Stmt!AnalyseIndex, IsDefault, Indexed
  <2>2. v >= 1 /\ v \notin used /\ v \in Nat
    BY <1>1, <2>1, ClauseTyped DEF Stmt!Accepts, Stmt!Fresh
  <2>3. Elements(pos - 1)' = Elements(pos - 1) \cup {v}
    BY <1>2, <1>3, <1>4, <2>1 DEF Elements
  <2>4. \A i \in 1..pos - 1 : Indexed(i) => clauses[i].index.value # v
    BY <2>2 DEF Analysed, Elements
  <2>5. maxIndex \in Nat BY DEF Stmt!TypeOK
  <2>6. v \in 1..maxIndex' /\ 1..maxIndex \subseteq 1..maxIndex'
    BY <2>1, <2>2, <2>5
  <2>7. clauses[pos].index.kind \in IF Stmt!EnumMode THEN Stmt!Enums \cup {"none"}
                                                   ELSE {"number", "default", "none"}
    BY <2>1 DEF Stmt!Accepts
  <2>a. used' = Elements(pos - 1)' BY <2>1, <2>3 DEF Analysed
  <2>b. hasDefault' <=> \E i \in 1..pos' - 1 : IsDefault(i)'
    BY <1>3, <1>4, <2>1 DEF Analysed
  <2>c. \A i \in 1..pos' - 1 : Indexed(i)' => clauses'[i].index.value \in 1..maxIndex'
    BY <1>2, <1>3, <1>4, <2>6 DEF Analysed
  <2>d. \A i, j \in 1..pos' - 1 : Indexed(i)' /\ Indexed(j)' /\ i # j
          => clauses'[i].index.value # clauses'[j].index.value
    BY <1>2, <1>3, <1>4, <2>4 DEF Analysed
  <2>e. \A i \in 1..pos' - 1 : clauses'[i].index.kind
          \in IF Stmt!EnumMode' THEN Stmt!Enums \cup {"none"} ELSE {"number", "default", "none"}
    BY <1>2, <1>3, <1>5, <2>7 DEF Analysed
  <2>f. \A i \in 1..pos' - 1 : ~Stmt!EarlyExit(i)'
    BY <1>3, <1>6, <2>1 DEF Analysed
  <2>g. QED BY <2>a, <2>b, <2>c, <2>d, <2>e, <2>f, <2>1 DEF Analysed
<1>9. QED BY <1>7, <1>8, <1>b DEF Stmt!AnalyseClause

LEMMA NothingForgotten ==
  ASSUME UNCHANGED <<target, clauses, used, hasDefault, maxIndex>>
  PROVE  Proved' <=> Proved
BY DEF Proved, Analysed, Elements, IsDefault, Indexed, Stmt!EnumMode, Stmt!EarlyExit, Stmt!Covered, Stmt!Known

LEMMA NextAnalysisOK ==
  ASSUME Stmt!TypeOK, AnalysisOK, [Stmt!Next]_(Stmt!vars)
  PROVE  AnalysisOK'
<1>1. CASE Stmt!AnalyseClause
  <2>1. stage' = "analysis" BY <1>1 DEF Stmt!AnalyseClause
  <2>2. errors => errors' BY <1>1 DEF Stmt!AnalyseClause, Stmt!AnalyseDefault, Stmt!AnalyseNoIndex,
                                                Stmt!AnalyseIndex, Stmt!TypeOK
  <2>3. ~errors' => Analysed(pos - 1)
    BY <1>1, <2>2 DEF AnalysisOK, Stmt!AnalyseClause
  <2>4. ~errors' => Analysed(pos - 1)' BY <1>1, <2>3, OneMoreAnalysed
  <2>5. QED BY <2>1, <2>4 DEF AnalysisOK
<1>2. CASE Stmt!Conclude
  <2>1. /\ stage = "analysis" /\ pos = Len(clauses) + 1 /\ pos' = 1
        /\ UNCHANGED <<target, clauses, used, hasDefault, maxIndex>>
        /\ errors' = (errors \/ ~Stmt!Covered)
        /\ stage' = IF errors' THEN "rejected" ELSE "generated"
    BY <1>2 DEF Stmt!Conclude
  <2>2. pos - 1 = Len(clauses) BY <2>1, LengthTyped
  <2>3. ~errors' => Proved BY <2>1, <2>2 DEF AnalysisOK, Proved
  <2>4. Proved' <=> Proved BY <2>1, NothingForgotten
  <2>5. QED BY <2>1, <2>3, <2>4 DEF AnalysisOK
<1>3. CASE Stmt!Lock \/ Stmt!ConsumeAll \/ Stmt!Call \/ Stmt!BodyEnds \/ Stmt!BodyLeaves \/ Stmt!Unlock \/ Stmt!OnlyDefaults \/ Stmt!Skip
            \/ Stmt!RunDefault \/ Stmt!Dispatch \/ Stmt!ArmEnds
  <2>1. /\ stage \notin {"analysis", "rejected"} /\ stage' \notin {"analysis", "generated"}
        /\ UNCHANGED <<target, clauses, used, hasDefault, maxIndex>>
    BY <1>3 DEF Stmt!Lock, Stmt!ConsumeAll, Stmt!Call, Stmt!BodyEnds, Stmt!BodyLeaves, Stmt!Unlock, Stmt!OnlyDefaults, Stmt!Skip,
                Stmt!RunDefault, Stmt!Dispatch, Stmt!ArmEnds
  <2>2. Proved' BY <2>1, NothingForgotten DEF AnalysisOK
  <2>3. QED BY <2>1, <2>2 DEF AnalysisOK
<1>4. CASE UNCHANGED Stmt!vars
  <2>1. UNCHANGED <<target, clauses, used, hasDefault, maxIndex, stage, pos, errors>>
    BY <1>4 DEF Stmt!vars
  <2>2. Proved' <=> Proved BY <2>1, NothingForgotten
  <2>3. Analysed(pos - 1)' <=> Analysed(pos - 1)
    BY <2>1 DEF Analysed, Elements, IsDefault, Indexed, Stmt!EnumMode, Stmt!EarlyExit
  <2>4. QED BY <2>1, <2>2, <2>3 DEF AnalysisOK
<1>5. QED BY <1>1, <1>2, <1>3, <1>4 DEF Stmt!Next

-----------------------------------------------------------------------------
(* Over an array a clause that is not overlooked names an element that no   *)
(* clause before it has.                                                    *)
LEMMA OnArrays ==
  ASSUME Stmt!TypeOK, Stmt!Known, Proved, pos <= Len(clauses), ~IsDefault(pos),
         pos \notin Stmt!Overlooked
  PROVE  /\ ~\E i \in 1..pos : IsDefault(i)
         /\ clauses[pos].index.kind = "number"
         /\ clauses[pos].index.value \in 1..target.length
         /\ clauses[pos].index.value \notin Elements(pos - 1)
         /\ Elements(pos) = Elements(pos - 1) \cup {clauses[pos].index.value}
<1> USE LengthTyped
<1>1. pos \in 1..Len(clauses) OBVIOUS
<1>2. /\ clauses[pos].index.kind \notin Stmt!Enums \cup {"none"}
      /\ ~Stmt!AfterDefault(pos)
  BY <1>1 DEF Stmt!Overlooked, Stmt!Indexless, Stmt!NamesVariant
<1>3. ~\E i \in 1..pos : IsDefault(i)
  BY <1>1, <1>2 DEF Stmt!AfterDefault, IsDefault
<1>4. clauses[pos].index.kind = "number" /\ ~Stmt!EnumMode /\ Indexed(pos)
  BY <1>1, <1>2 DEF Proved, Analysed, IsDefault, Indexed
<1>5. clauses[pos].index.value \in 1..maxIndex /\ maxIndex <= target.length
  BY <1>1, <1>4 DEF Proved, Analysed, Stmt!Covered
<1>6. target.length \in Nat /\ maxIndex \in Nat BY TargetTyped DEF Stmt!TypeOK
<1>7. clauses[pos].index.value \in 1..target.length BY <1>5, <1>6
<1>8. \A i \in 1..pos - 1 : Indexed(i) => clauses[i].index.value # clauses[pos].index.value
  BY <1>1, <1>4 DEF Proved, Analysed
<1>9. clauses[pos].index.value \notin Elements(pos - 1) BY <1>8 DEF Elements
<1>10. 1..pos = (1..pos - 1) \cup {pos} BY <1>1
<1>11. Elements(pos) = Elements(pos - 1) \cup {clauses[pos].index.value}
  BY <1>4, <1>10 DEF Elements
<1>12. QED BY <1>3, <1>4, <1>7, <1>9, <1>11

(* What the clauses of an accepted statement consume is everything, when    *)
(* none of them is overlooked.                                              *)
LEMMA AllConsumed ==
  ASSUME Stmt!TypeOK, Stmt!Known, Proved, Consumed(Len(clauses)), Stmt!Overlooked = {}
  PROVE  consumed = 1..target.length
<1>1. ~Stmt!EnumMode
  BY DEF Stmt!Known, Stmt!EnumMode, Stmt!Overlooked, Stmt!NamesVariant
<1>2. CASE \E i \in 1..Len(clauses) : IsDefault(i) BY <1>2 DEF Consumed
<1>3. CASE ~\E i \in 1..Len(clauses) : IsDefault(i)
  <2>1. consumed = used BY <1>3 DEF Consumed, Proved, Analysed
  <2>2. ~hasDefault BY <1>3 DEF Proved, Analysed
  <2>3. 1..target.length \subseteq used BY <1>1, <2>2 DEF Proved, Stmt!Covered
  <2>4. consumed \subseteq 1..target.length BY DEF Stmt!TypeOK
  <2>5. QED BY <2>1, <2>3, <2>4
<1>4. QED BY <1>2, <1>3

(* When all clauses have run, none is overlooked.                           *)
LEMMA NoneOverlooked ==
  ASSUME ran = 1..Len(clauses), ran \cap Stmt!Overlooked = {}
  PROVE  Stmt!Overlooked = {}
BY DEF Stmt!Overlooked

LEMMA DefaultIsNot ==
  ASSUME Stmt!Known, IsDefault(pos) PROVE pos \notin Stmt!Overlooked
BY DEF Stmt!Overlooked, Stmt!Indexless, Stmt!NamesVariant, Stmt!AfterDefault, Stmt!Enums,
       IsDefault, Stmt!Known

LEMMA NextRunOK ==
  ASSUME Stmt!TypeOK, CountOK, AnalysisOK, RunOK, [Stmt!Next]_(Stmt!vars)
  PROVE  RunOK'
<1> SUFFICES ASSUME Stmt!Known' PROVE RunOK'
  BY DEF RunOK
<1>1. UNCHANGED Stmt!statement
  BY DEF Stmt!Next, Stmt!vars, Stmt!AnalyseClause, Stmt!Conclude, Stmt!Lock, Stmt!ConsumeAll, Stmt!Call, Stmt!BodyEnds, Stmt!BodyLeaves,
         Stmt!Unlock, Stmt!OnlyDefaults, Stmt!Skip, Stmt!RunDefault, Stmt!Dispatch, Stmt!ArmEnds
<1>2. Stmt!Known /\ Stmt!Overlooked' = Stmt!Overlooked
  BY <1>1 DEF Stmt!Known, Stmt!Overlooked, Stmt!Indexless, Stmt!NamesVariant, Stmt!AfterDefault
<1>3. \A n : Elements(n)' = Elements(n) BY <1>1 DEF Elements, Indexed
<1>4. \A i : IsDefault(i)' <=> IsDefault(i) BY <1>1 DEF IsDefault
<1>5. pos \in Nat \ {0} /\ Len(clauses) \in Nat BY LengthTyped
<1>0. ran \cap Stmt!Overlooked = {} BY <1>2 DEF RunOK
<1> USE <1>2, <1>5, <1>0
<1>6. CASE Stmt!AnalyseClause BY <1>6 DEF Stmt!AnalyseClause, RunOK
<1>7. CASE Stmt!Conclude BY <1>7 DEF Stmt!Conclude, RunOK
<1>8. CASE Stmt!Lock
  <2>1. /\ stage' = "clauses" /\ consumed' = {} /\ pos = 1 /\ pos' = 1 /\ ran' = {}
    BY <1>8 DEF Stmt!Lock, RunOK, AnalysisOK
  <2>2. Elements(0) = {} BY DEF Elements
  <2>3. Consumed(pos - 1)' BY <1>3, <2>1, <2>2 DEF Consumed
  <2>4. QED BY <2>1, <2>3 DEF RunOK
<1>9. CASE Stmt!ConsumeAll
  <2>1. /\ stage = "clauses" /\ stage' = "body" /\ UNCHANGED <<pos, ran>>
        /\ IsDefault(pos) /\ consumed' = 1..target.length
    BY <1>9 DEF Stmt!ConsumeAll, IsDefault
  <2>2. Consumed(pos)' BY <1>1, <1>4, <2>1 DEF Consumed
  <2>3. pos \notin Stmt!Overlooked BY <2>1, DefaultIsNot
  <2>4. QED BY <2>1, <2>2, <2>3 DEF RunOK
<1>10. CASE Stmt!Call
  <2>1. /\ stage = "clauses" /\ UNCHANGED <<pos, ran>> /\ pos <= Len(clauses) /\ ~IsDefault(pos)
        /\ stage' \in {"body", "panic"}
        /\ stage' = "body" => /\ Stmt!Generated(clauses[pos].index) \in 1..target.length
                              /\ Stmt!Generated(clauses[pos].index) \notin consumed
                              /\ consumed' = consumed \cup {Stmt!Generated(clauses[pos].index)}
    BY <1>10 DEF Stmt!Call, IsDefault
  <2>2. Proved /\ Consumed(pos - 1) BY <2>1 DEF AnalysisOK, RunOK
  <2>3. CASE stage' = "panic" BY <2>1, <2>3 DEF RunOK
  <2>4. CASE stage' = "body"
    <3>1. pos \in 1..Len(clauses) BY <2>1
    <3>2. clauses[pos].index.kind = "number"
      <4>1. Stmt!Generated(clauses[pos].index) # 0 BY <2>1, <2>4
      <4>2. QED BY <4>1 DEF Stmt!Generated
    <3>3. ~Stmt!AfterDefault(pos)
      <4>1. CASE \E j \in 1..pos - 1 : IsDefault(j)
        BY <2>1, <2>2, <2>4, <4>1 DEF Consumed
      <4>2. CASE ~\E j \in 1..pos - 1 : IsDefault(j)
        BY <4>2 DEF Stmt!AfterDefault, IsDefault
      <4>3. QED BY <4>1, <4>2
    <3>4. pos \notin Stmt!Overlooked
      BY <3>2, <3>3 DEF Stmt!Overlooked, Stmt!Indexless, Stmt!NamesVariant, Stmt!Enums, Stmt!Known
    <3>5. /\ ~\E i \in 1..pos : IsDefault(i)
          /\ Stmt!Generated(clauses[pos].index) = clauses[pos].index.value
          /\ Elements(pos) = Elements(pos - 1) \cup {clauses[pos].index.value}
      BY <2>1, <2>2, <3>2, <3>4, OnArrays DEF Stmt!Generated
    <3>6. consumed = Elements(pos - 1) BY <2>2, <3>5 DEF Consumed
    <3>7. Consumed(pos)' BY <1>3, <1>4, <2>1, <2>4, <3>5, <3>6 DEF Consumed
    <3>8. QED BY <2>1, <2>4, <3>4, <3>7 DEF RunOK
  <2>5. QED BY <2>1, <2>3, <2>4
<1>11. CASE Stmt!BodyEnds
  <2>1. /\ stage = "body" /\ stage' = "clauses" /\ pos' = pos + 1 /\ ran' = ran \cup {pos}
        /\ UNCHANGED consumed
    BY <1>11 DEF Stmt!BodyEnds
  <2>2. pos' - 1 = pos /\ ran' = 1..pos BY <2>1 DEF RunOK
  <2>3. Consumed(pos - 1)' BY <1>1, <1>3, <1>4, <2>1, <2>2 DEF RunOK, Consumed
  <2>4. ran' \cap Stmt!Overlooked = {} BY <2>1 DEF RunOK
  <2>5. QED BY <2>1, <2>2, <2>3, <2>4 DEF RunOK
<1>12. CASE Stmt!BodyLeaves
  <2>1. /\ stage = "body" /\ stage' = "left" /\ UNCHANGED <<pos, consumed>>
        /\ ran' = ran \cup {pos} /\ clauses[pos].exit # "none"
    BY <1>12 DEF Stmt!BodyLeaves, RunOK
  <2>2. ran' = 1..pos /\ pos <= Len(clauses) BY <2>1 DEF RunOK, CountOK
  <2>3. Consumed(pos)' BY <1>1, <1>3, <1>4, <2>1 DEF RunOK, Consumed
  <2>4. ran' \cap Stmt!Overlooked = {} BY <2>1 DEF RunOK
  <2>5. QED BY <1>1, <2>1, <2>2, <2>3, <2>4 DEF RunOK
<1>13. CASE Stmt!Unlock
  <2>1. /\ stage = "clauses" /\ stage' \in {"done", "panic"} /\ pos - 1 = Len(clauses)
        /\ UNCHANGED <<consumed, ran>>
    BY <1>13 DEF Stmt!Unlock
  <2>2. ran' = 1..Len(clauses) /\ Consumed(Len(clauses)) BY <2>1 DEF RunOK
  <2>3. Consumed(Len(clauses))' BY <1>1, <1>3, <1>4, <2>1, <2>2 DEF Consumed
  <2>4. QED BY <1>1, <2>1, <2>2, <2>3 DEF RunOK
<1>14. CASE Stmt!OnlyDefaults \/ Stmt!Skip \/ Stmt!RunDefault \/ Stmt!Dispatch \/ Stmt!ArmEnds
  BY <1>14 DEF Stmt!OnlyDefaults, Stmt!Skip, Stmt!RunDefault, Stmt!Dispatch, Stmt!ArmEnds, Stmt!Known, RunOK
<1>15. CASE UNCHANGED Stmt!vars
  BY <1>1, <1>3, <1>4, <1>15 DEF Stmt!vars, RunOK, Consumed
<1>16. QED BY <1>6, <1>7, <1>8, <1>9, <1>10, <1>11, <1>12, <1>13, <1>14, <1>15 DEF Stmt!Next

(* Every variant of the target has its label, when no clause names another  *)
(* enumeration.                                                             *)
LEMMA Labelled ==
  ASSUME Stmt!TypeOK, Stmt!Overlooked = {}, Proved, target.kind = "enum", NEW v \in 1..Variants
  PROVE  \E i \in 1..Len(clauses) : clauses[i].index = [kind |-> "own", value |-> v]
<1>1. Stmt!EnumMode BY DEF Stmt!EnumMode
<1>2. v \in Elements(Len(clauses)) BY <1>1 DEF Proved, Stmt!Covered, Analysed
<1>3. PICK i \in 1..Len(clauses) : clauses[i].index.value = v /\ Indexed(i)
  BY <1>2 DEF Elements
<1>4. clauses[i].index.kind \in Stmt!Enums BY <1>1, <1>3 DEF Proved, Analysed, Indexed
<1>5. clauses[i].index.kind = "own" BY <1>4 DEF Stmt!Overlooked, Stmt!Enums
<1>6. clauses[i] \in Stmt!Clauses BY DEF Stmt!TypeOK
<1>7. clauses[i].index \in Stmt!Indices BY <1>6 DEF Stmt!Clauses
<1>8. clauses[i].index \in [kind: Stmt!Enums, value: 1..Variants]
  BY <1>5, <1>7 DEF Stmt!Indices, Stmt!Enums
<1>9. clauses[i].index = [kind |-> "own", value |-> v]
  BY <1>3, <1>5, <1>8
<1>10. QED BY <1>9

LEMMA NextCalm ==
  ASSUME Stmt!TypeOK, CountOK, AnalysisOK, RunOK, Calm, [Stmt!Next]_(Stmt!vars)
  PROVE  Calm'
<1> SUFFICES ASSUME stage' = "panic", Stmt!Overlooked' = {} PROVE FALSE
  BY DEF Calm
<1>1. UNCHANGED Stmt!statement
  BY DEF Stmt!Next, Stmt!vars, Stmt!AnalyseClause, Stmt!Conclude, Stmt!Lock, Stmt!ConsumeAll, Stmt!Call, Stmt!BodyEnds, Stmt!BodyLeaves,
         Stmt!Unlock, Stmt!OnlyDefaults, Stmt!Skip, Stmt!RunDefault, Stmt!Dispatch, Stmt!ArmEnds
<1>2. Stmt!Overlooked = {} /\ stage # "panic"
  BY <1>1 DEF Stmt!Known, Stmt!Overlooked, Stmt!Indexless, Stmt!NamesVariant, Stmt!AfterDefault, Calm
<1>3. CASE Stmt!Call
  <2>1. /\ stage = "clauses" /\ Stmt!Known /\ pos <= Len(clauses) /\ ~IsDefault(pos)
        /\ ~(Stmt!Generated(clauses[pos].index) \in (1..target.length) \ consumed)
    BY <1>3 DEF Stmt!Call, IsDefault
  <2>2. Proved /\ Consumed(pos - 1) BY <2>1 DEF AnalysisOK, RunOK
  <2>3. /\ ~\E i \in 1..pos : IsDefault(i)
        /\ Stmt!Generated(clauses[pos].index) \in 1..target.length
        /\ Stmt!Generated(clauses[pos].index) \notin Elements(pos - 1)
    BY <1>2, <2>1, <2>2, OnArrays DEF Stmt!Generated
  <2>4. consumed = Elements(pos - 1) BY <2>2, <2>3, LengthTyped DEF Consumed
  <2>5. QED BY <2>1, <2>3, <2>4
<1>4. CASE Stmt!Unlock
  <2>1. /\ stage = "clauses" /\ Stmt!Known /\ remaining # 0 /\ pos - 1 = Len(clauses)
    BY <1>4, LengthTyped DEF Stmt!Unlock
  <2>2. Proved /\ Consumed(Len(clauses)) BY <2>1 DEF AnalysisOK, RunOK
  <2>3. consumed = 1..target.length BY <1>2, <2>1, <2>2, AllConsumed
  <2>4. (1..target.length) \ consumed = {} BY <2>3
  <2>5. remaining = Cardinality((1..target.length) \ consumed) BY <2>1 DEF CountOK
  <2>6. QED BY <2>1, <2>4, <2>5, FS_EmptySet
<1>5. CASE Stmt!Dispatch
  <2>1. stage = "generated" /\ target.kind = "enum" BY <1>5 DEF Stmt!Dispatch
  <2>2. Proved BY <2>1 DEF AnalysisOK
  <2>3. PICK v \in 1..Variants :
          ~\E i \in 1..Len(clauses) : clauses[i].index = [kind |-> "own", value |-> v]
    BY <1>5 DEF Stmt!Dispatch
  <2>4. QED BY <1>2, <2>1, <2>2, <2>3, Labelled
<1>6. CASE Stmt!AnalyseClause \/ Stmt!Conclude \/ Stmt!Lock \/ Stmt!ConsumeAll \/ Stmt!BodyEnds \/ Stmt!BodyLeaves
            \/ Stmt!OnlyDefaults \/ Stmt!Skip \/ Stmt!RunDefault \/ Stmt!ArmEnds \/ UNCHANGED Stmt!vars
  BY <1>2, <1>6 DEF Stmt!vars, Stmt!AnalyseClause, Stmt!Conclude, Stmt!Lock, Stmt!ConsumeAll, Stmt!BodyEnds, Stmt!BodyLeaves,
                    Stmt!OnlyDefaults, Stmt!Skip, Stmt!RunDefault, Stmt!ArmEnds
<1>7. QED BY <1>3, <1>4, <1>5, <1>6 DEF Stmt!Next

LEMMA NextSpend == ASSUME SpendInv, [Stmt!Next]_(Stmt!vars) PROVE SpendInv'
BY NextTypeOK, NextCountOK, NextAnalysisOK, NextRunOK, NextCalm DEF SpendInv

(* A check of the runtime (spend_call.c) fails in an accepted statement     *)
(* only when the analyser overlooks one of its clauses, and over an array   *)
(* the body of such a clause never runs, for any number of elements,        *)
(* clauses and variants.                                                    *)
THEOREM PanicsAreOverlooked == Stmt!Spec => []OnlyOverlookedPanics
<1>1. Stmt!Init => SpendInv
  BY InitSpend
<1>2. SpendInv /\ [Stmt!Next]_(Stmt!vars) => SpendInv'
  BY NextSpend
<1>3. SpendInv => OnlyOverlookedPanics
  BY DEF SpendInv, Calm, RunOK, OnlyOverlookedPanics, Stmt!OnlyOverlookedPanics
<1>4. QED BY <1>1, <1>2, <1>3, PTL DEF Stmt!Spec

(* However an accepted statement over an array ends, but for an exit inside *)
(* a statement of a body, every clause has run, and every element was       *)
(* consumed exactly when the recorded length is right (sema.go,             *)
(* spend_call.c).                                                           *)
THEOREM AcceptedConsumesAll == Stmt!Spec => []ConsumesAll
<1>1. Stmt!Init => SpendInv
  BY InitSpend
<1>2. SpendInv /\ [Stmt!Next]_(Stmt!vars) => SpendInv'
  BY NextSpend
<1>3. SpendInv => ConsumesAll
  <2> SUFFICES ASSUME SpendInv, Stmt!Known, ~Stmt!LeftUnseen, stage \in {"done", "left"}
               PROVE  /\ ran = 1..Len(clauses)
                      /\ consumed = 1..target.actual <=> Stmt!LengthIsRight
    BY DEF ConsumesAll, Stmt!ConsumesAll
  <2>1. Stmt!TypeOK /\ Proved /\ ran \cap Stmt!Overlooked = {}
    BY DEF SpendInv, AnalysisOK, RunOK
  <2>2. ran = 1..Len(clauses) /\ Consumed(Len(clauses))
    <3>1. CASE stage = "done" BY <3>1 DEF SpendInv, RunOK
    <3>2. CASE stage = "left"
      <4>1. /\ pos <= Len(clauses) /\ ran = 1..pos /\ Consumed(pos)
            /\ clauses[pos].exit # "none"
        BY <3>2 DEF SpendInv, RunOK
      <4>2. pos \in 1..Len(clauses) /\ Len(clauses) \in Nat BY <2>1, <4>1, LengthTyped
      <4>3. clauses[pos].exit \in {"break", "return"}
        BY <2>1, <3>2, <4>1, <4>2, ClauseTyped DEF Stmt!LeftUnseen, Stmt!Exits
      <4>4. ~Stmt!EarlyExit(pos) BY <2>1, <4>2 DEF Proved, Analysed
      <4>5. pos = Len(clauses) BY <4>2, <4>3, <4>4 DEF Stmt!EarlyExit
      <4>6. QED BY <4>1, <4>5
    <3>3. QED BY <3>1, <3>2
  <2>3. Stmt!Overlooked = {} BY <2>1, <2>2, NoneOverlooked
  <2>4. consumed = 1..target.length BY <2>1, <2>2, <2>3, AllConsumed
  <2>5. target.length \in Nat /\ target.actual \in Nat BY <2>1, TargetTyped DEF Stmt!TypeOK
  <2>6. 1..target.length = 1..target.actual <=> target.length = target.actual
    BY <2>5, IntervalSize
  <2>7. QED BY <2>2, <2>4, <2>6 DEF Stmt!LengthIsRight
<1>4. QED BY <1>1, <1>2, <1>3, PTL DEF Stmt!Spec

=============================================================================

-------------------------- MODULE SorOwnership_proofs --------------------------
(***************************************************************************)
(* Proofs about the ownership tracker, for any number of names, objects,   *)
(* element positions and scopes: a value has one owner at most, shared     *)
(* values have none, and resources are not forgotten.  Then about the      *)
(* memory of a function that the analysis decides about, module Reclaim,   *)
(* which MCSorOwnership names R: for functions of any length and nesting   *)
(* over any variables, the emitted frees free what is the function's own,  *)
(* and what it hands out outlives it.                                      *)
(***************************************************************************)
EXTENDS MCSorOwnership, FiniteSetTheorems, SequenceTheorems, WellFoundedInduction, TLAPS

Values == Seq(Nat \union Paths)

(* An object, whatever its children are.                                   *)
Objects == [name : NameSet, state : States, composite : BOOLEAN, resource : BOOLEAN,
            value : Values, children : [Paths -> Int]]

ObjectsOK == objects \in Seq(Objects)

Child(i, p) == objects[i].children[p]

ChildrenOK == \A i \in Ids, p \in Paths : Child(i, p) \in {Hollow, Absent} \union Ids

ScopesOK ==
  /\ depth \in 0 .. MaxDepth
  /\ scopeObjects \in [0 .. MaxDepth -> SUBSET Ids]
  /\ edges \subseteq Ids \X Ids
  /\ errors \subseteq Kinds

-----------------------------------------------------------------------------
(* The inductive invariant.                                                *)

(* The value of an object starts with the number of a declared object.     *)
ValuesRooted == \A i \in Ids : objects[i].value # << >> /\ objects[i].value[1] \in Ids

(* Elements have no elements and are no resources.                         *)
Leaf(i) ==
  /\ ~objects[i].composite /\ ~objects[i].resource
  /\ \A p \in Paths : Child(i, p) \in {Hollow, Absent}

PartsAreLeaves == \A i \in Ids, p \in Paths : Child(i, p) \in Ids => Leaf(Child(i, p))

OneOwner ==
  \A i, j \in Ids : Owned(i) /\ Owned(j) /\ objects[i].value = objects[j].value => i = j

Gone(i) == objects[i].state \in {"Extracted", "Moved"}

(* Who owns an element while another owns the whole: the object that the   *)
(* whole has in that position; or the position is hollow, or its object    *)
(* spent, and no other extract succeeds.                                   *)
PartsTaken ==
  \A i, j \in Ids, p \in Paths :
    Owned(i) /\ objects[i].composite /\ Owned(j) /\ objects[j].value = Append(objects[i].value, p) =>
      \/ Child(i, p) = Hollow
      \/ Child(i, p) \in Ids /\ (Child(i, p) = j \/ Gone(Child(i, p)))

OwnersListed == \A i \in Ids : Owned(i) => \E s \in 0 .. depth : i \in scopeObjects[s]

Typing == ObjectsOK /\ ChildrenOK /\ ScopesOK

IInv == Typing /\ ValuesRooted /\ PartsAreLeaves /\ OwnersListed /\ SharedIsReadOnly
UInv == IInv /\ OneOwner /\ PartsTaken

-----------------------------------------------------------------------------
(* Types.                                                                  *)

ObjectRecords(n) ==
  [name : NameSet, state : States, composite : BOOLEAN, resource : BOOLEAN,
   value : Values, children : [Paths -> {Hollow, Absent} \union 1 .. n]]

LEMMA Member ==
  ASSUME ObjectsOK, NEW i \in Ids
  PROVE  objects[i] \in Objects
BY ElementOfSeq DEF ObjectsOK, Ids

LEMMA FieldsOK ==
  ASSUME NEW o \in Objects
  PROVE  /\ o.name \in NameSet /\ o.state \in States
         /\ o.composite \in BOOLEAN /\ o.resource \in BOOLEAN
         /\ o.value \in Values /\ o.children \in [Paths -> Int]
BY DEF Objects

LEMMA RecordIs ==
  ASSUME NEW o \in Objects, NEW n \in Nat
  PROVE  o \in ObjectRecords(n) <=> \A p \in Paths : o.children[p] \in {Hollow, Absent} \union 1 .. n
<1>1. ASSUME \A p \in Paths : o.children[p] \in {Hollow, Absent} \union 1 .. n
      PROVE  o \in ObjectRecords(n)
  <2>1. o.children \in [Paths -> {Hollow, Absent} \union 1 .. n]
    BY <1>1 DEF Objects
  <2>2. QED BY <2>1 DEF Objects, ObjectRecords
<1>2. ASSUME o \in ObjectRecords(n)
      PROVE  \A p \in Paths : o.children[p] \in {Hollow, Absent} \union 1 .. n
  BY <1>2 DEF ObjectRecords
<1>3. QED BY <1>1, <1>2

LEMMA RecordsAreObjects == \A n \in Nat : ObjectRecords(n) \subseteq Objects
<1> SUFFICES ASSUME NEW n \in Nat, NEW o \in ObjectRecords(n) PROVE o \in Objects
  OBVIOUS
<1>1. o.children \in [Paths -> Int]
  BY DEF ObjectRecords, Hollow, Absent
<1>2. QED BY <1>1 DEF ObjectRecords, Objects

(* What the two type statements say of a sequence of objects.              *)
LEMMA SequenceParts ==
  ASSUME NEW objs
  PROVE  objs \in Seq(ObjectRecords(Len(objs))) <=>
           /\ objs \in Seq(Objects)
           /\ \A i \in 1 .. Len(objs), p \in Paths : objs[i].children[p] \in {Hollow, Absent} \union 1 .. Len(objs)
<1>1. ASSUME objs \in Seq(ObjectRecords(Len(objs)))
      PROVE  /\ objs \in Seq(Objects)
             /\ \A i \in 1 .. Len(objs), p \in Paths : objs[i].children[p] \in {Hollow, Absent} \union 1 .. Len(objs)
  <2>1. Len(objs) \in Nat
    BY <1>1, LenProperties
  <2>2. objs \in Seq(Objects)
    BY <1>1, <2>1, RecordsAreObjects, SeqMonotonic
  <2>3. \A i \in 1 .. Len(objs) : objs[i] \in ObjectRecords(Len(objs))
    BY <1>1, ElementOfSeq
  <2>4. QED BY <2>2, <2>3 DEF ObjectRecords
<1>2. ASSUME objs \in Seq(Objects),
             \A i \in 1 .. Len(objs), p \in Paths : objs[i].children[p] \in {Hollow, Absent} \union 1 .. Len(objs)
      PROVE  objs \in Seq(ObjectRecords(Len(objs)))
  <2>1. Len(objs) \in Nat /\ objs \in [1 .. Len(objs) -> Objects]
    BY <1>2, LenProperties
  <2>2. \A i \in 1 .. Len(objs) : objs[i] \in ObjectRecords(Len(objs))
    BY <1>2, <2>1, RecordIs
  <2>3. objs \in [1 .. Len(objs) -> ObjectRecords(Len(objs))]
    BY <2>1, <2>2
  <2>4. QED BY <2>1, <2>3, SeqDef
<1>3. QED BY <1>1, <1>2

LEMMA TypingIsTypeOK == TypeOK <=> Typing
<1>1. objects \in Seq(ObjectRecords(Len(objects))) <=> ObjectsOK /\ ChildrenOK
  BY SequenceParts DEF ObjectsOK, ChildrenOK, Child, Ids
<1>2. QED BY <1>1 DEF TypeOK, Typing, ScopesOK, ObjectRecords, Values, Ids

LEMMA InitIInv == Init => UInv
<1> SUFFICES ASSUME Init PROVE UInv
  OBVIOUS
<1>1. objects = << >> /\ Len(objects) = 0 /\ Ids = {}
  BY EmptySeq DEF Init, Ids
<1>2. ObjectsOK
  BY <1>1, EmptySeq DEF ObjectsOK
<1>3. ScopesOK
  BY SorAssumption DEF Init, ScopesOK
<1>4. ChildrenOK /\ ValuesRooted /\ PartsAreLeaves /\ OwnersListed /\ OneOwner /\ PartsTaken
  BY <1>1 DEF ChildrenOK, ValuesRooted, PartsAreLeaves, OwnersListed, OneOwner, PartsTaken
<1>5. SharedIsReadOnly
  BY DEF Init, SharedIsReadOnly
<1>6. QED BY <1>2, <1>3, <1>4, <1>5 DEF UInv, IInv, Typing

-----------------------------------------------------------------------------
(* What a statement does to the objects that were there.                   *)

(* They keep their value and kind, own nothing they did not own, and do    *)
(* not come back; their positions stay, or become hollow.                  *)
Old(i) ==
  /\ objects'[i].value = objects[i].value
  /\ objects'[i].composite = objects[i].composite
  /\ objects'[i].resource = objects[i].resource
  /\ objects'[i].state = "Owned" => Owned(i)
  /\ Gone(i) => objects'[i].state \in {"Extracted", "Moved"}
  /\ \A p \in Paths : objects'[i].children[p] \in {objects[i].children[p], Hollow}

LeafThen(i) ==
  /\ ~objects'[i].composite /\ ~objects'[i].resource
  /\ \A p \in Paths : objects'[i].children[p] \in {Hollow, Absent}

(* What a new object must be like.                                         *)
Fresh(i) ==
  /\ objects'[i].value # << >> /\ objects'[i].value[1] \in 1 .. Len(objects')
  /\ \A p \in Paths :
       LET c == objects'[i].children[p] IN
         /\ c \in {Hollow, Absent} \union 1 .. Len(objects')
         /\ c \in 1 .. Len(objects') => LeafThen(c)

Grows ==
  /\ objects' \in Seq(Objects)
  /\ Len(objects') >= Len(objects)
  /\ \A i \in Ids : Old(i)
  /\ \A i \in 1 .. Len(objects') : i \notin Ids => Fresh(i)

LEMMA LeafStays == \A i : Old(i) /\ Leaf(i) => LeafThen(i)
BY DEF Old, Leaf, LeafThen, Child

LEMMA GrownOK ==
  ASSUME Typing, ValuesRooted, PartsAreLeaves, Grows
  PROVE  ObjectsOK' /\ ChildrenOK' /\ ValuesRooted' /\ PartsAreLeaves'
<1>1. Len(objects) \in Nat /\ Len(objects') \in Nat /\ Ids = 1 .. Len(objects) /\ Ids' = 1 .. Len(objects')
  BY LenProperties DEF Typing, ObjectsOK, Grows, Ids
<1>2. Ids \subseteq Ids'
  BY <1>1 DEF Grows
<1>3. ObjectsOK'
  BY DEF Grows, ObjectsOK
<1>4. ValuesRooted'
  <2> SUFFICES ASSUME NEW i \in Ids' PROVE objects'[i].value # << >> /\ objects'[i].value[1] \in Ids'
    BY DEF ValuesRooted
  <2>1. CASE i \in Ids
    BY <1>2, <2>1 DEF Grows, Old, ValuesRooted
  <2>2. CASE i \notin Ids
    BY <1>1, <2>2 DEF Grows, Fresh
  <2>3. QED BY <2>1, <2>2
<1>5. ASSUME NEW i \in Ids', NEW p \in Paths
      PROVE  LET c == objects'[i].children[p] IN
               /\ c \in {Hollow, Absent} \union Ids'
               /\ c \in Ids' => LeafThen(c)
  <2> DEFINE c == objects'[i].children[p]
  <2>1. CASE i \notin Ids
    BY <1>1, <2>1 DEF Grows, Fresh
  <2>2. CASE i \in Ids /\ c = Hollow
    BY <1>1, <2>2 DEF Hollow
  <2>3. CASE i \in Ids /\ c # Hollow
    <3>1. c = Child(i, p)
      BY <2>3 DEF Grows, Old, Child
    <3>2. c \in {Hollow, Absent} \union Ids
      BY <2>3, <3>1 DEF Typing, ChildrenOK
    <3>3. c \in Ids' => c \in Ids
      BY <1>1, <3>2 DEF Hollow, Absent
    <3>4. c \in Ids => LeafThen(c)
      BY <2>3, <3>1, LeafStays DEF PartsAreLeaves, Grows
    <3>5. QED BY <1>2, <3>2, <3>3, <3>4
  <2>4. QED BY <2>1, <2>2, <2>3
<1>6. ChildrenOK' /\ PartsAreLeaves'
  BY <1>5 DEF ChildrenOK, PartsAreLeaves, Child, Leaf, LeafThen
<1>7. QED BY <1>3, <1>4, <1>6

(* Where nobody becomes an owner, nobody's ownership is disturbed.         *)
LEMMA NoNewOwner ==
  ASSUME Typing, OneOwner, PartsTaken, Grows,
         \A i \in 1 .. Len(objects') : i \notin Ids => objects'[i].state # "Owned"
  PROVE  OneOwner' /\ PartsTaken'
<1>1. \A i \in Ids' : objects'[i].state = "Owned" => i \in Ids /\ Owned(i) /\ objects'[i].value = objects[i].value
  BY DEF Ids, Grows, Old
<1>2. OneOwner'
  BY <1>1 DEF OneOwner, Owned
<1>3. PartsTaken'
  <2> SUFFICES ASSUME NEW i \in Ids', NEW j \in Ids', NEW p \in Paths,
                      Owned(i)', objects'[i].composite, Owned(j)',
                      objects'[j].value = Append(objects'[i].value, p)
               PROVE  \/ Child(i, p)' = Hollow
                      \/ Child(i, p)' \in Ids' /\ (Child(i, p)' = j \/ Gone(Child(i, p))')
    BY DEF PartsTaken
  <2>1. i \in Ids /\ j \in Ids /\ Owned(i) /\ Owned(j) /\ Old(i) /\ Old(j)
    BY <1>1 DEF Owned, Grows
  <2>2. \/ Child(i, p) = Hollow
        \/ Child(i, p) \in Ids /\ (Child(i, p) = j \/ Gone(Child(i, p)))
    BY <2>1 DEF PartsTaken, Old
  <2>3. Child(i, p)' \in {Child(i, p), Hollow}
    BY <2>1 DEF Old, Child
  <2>4. Ids \subseteq Ids' /\ \A c \in Ids : Gone(c) => Gone(c)'
    BY LenProperties DEF Ids, Grows, Old, Gone, Typing, ObjectsOK
  <2>5. QED BY <2>2, <2>3, <2>4
<1>4. QED BY <1>2, <1>3

-----------------------------------------------------------------------------
(* The statements that change objects, one lemma for each.                 *)

LEMMA Basics ==
  ASSUME Typing
  PROVE  /\ Len(objects) \in Nat /\ Ids = 1 .. Len(objects)
         /\ \A i \in Ids : /\ objects[i] \in Objects
                           /\ objects[i].state \in States
                           /\ objects[i].value \in Values
                           /\ objects[i].children \in [Paths -> Int]
BY LenProperties, Member, FieldsOK DEF Typing, ObjectsOK, Ids

LEMMA Same == ASSUME Typing, NEW i \in Ids, objects'[i] = objects[i] PROVE Old(i)
BY DEF Old, Owned, Gone

LEMMA StateChanges ==
  ASSUME Typing, NEW i \in Ids, NEW state \in States \ {"Owned"}, Gone(i) => state \in {"Extracted", "Moved"}
  PROVE  LET o == [objects[i] EXCEPT !.state = state] IN
           /\ o \in Objects
           /\ o.state = state /\ o.value = objects[i].value /\ o.composite = objects[i].composite
           /\ o.resource = objects[i].resource /\ o.children = objects[i].children
           /\ objects'[i] = o => Old(i)
<1>1. objects[i] \in Objects
  BY Basics
<1> DEFINE o == [objects[i] EXCEPT !.state = state]
<1>2. o \in Objects /\ o.state = state /\ o.value = objects[i].value /\ o.composite = objects[i].composite
           /\ o.resource = objects[i].resource /\ o.children = objects[i].children
  BY <1>1 DEF Objects
<1> HIDE DEF o
<1>3. objects'[i] = o => Old(i)
  BY <1>2 DEF Old
<1>4. QED BY <1>2, <1>3 DEF o

(* An object that inherits its elements.                                   *)
LEMMA InheritedOK ==
  ASSUME Typing, PartsAreLeaves, NEW i \in Ids
  PROVE  /\ Inherited(objects[i]) \in [Paths -> Int]
         /\ \A p \in Paths : LET c == Inherited(objects[i])[p] IN
              /\ c \in {Hollow, Absent} \union Ids
              /\ c \in Ids => Leaf(c)
<1>1. NoChildren \in [Paths -> Int] /\ \A p \in Paths : NoChildren[p] = Absent
  BY DEF NoChildren, Absent
<1>2. Absent \notin Ids
  BY Basics DEF Absent
<1>3. CASE ~objects[i].composite
  BY <1>1, <1>2, <1>3 DEF Inherited
<1>4. CASE objects[i].composite
  BY <1>4, Basics DEF Inherited, PartsAreLeaves, Child, Typing, ChildrenOK
<1>5. QED BY <1>3, <1>4

(* A new object with the value of i and elements it inherits from i.       *)
LEMMA HeirFresh ==
  ASSUME Typing, ValuesRooted, PartsAreLeaves, NEW i \in Ids, NEW n \in Nat,
         Len(objects') >= Len(objects), Len(objects') \in Nat,
         \A j \in Ids : Old(j),
         objects'[n].value = objects[i].value,
         objects'[n].children \in {NoChildren, Inherited(objects[i])}
  PROVE  Fresh(n)
<1>1. Ids = 1 .. Len(objects) /\ Len(objects) \in Nat
  BY Basics
<1>2. objects'[n].value # << >> /\ objects'[n].value[1] \in 1 .. Len(objects')
  BY <1>1 DEF ValuesRooted
<1>3. ASSUME NEW p \in Paths
      PROVE  LET c == objects'[n].children[p] IN
               /\ c \in {Hollow, Absent} \union 1 .. Len(objects')
               /\ c \in 1 .. Len(objects') => LeafThen(c)
  <2> DEFINE c == objects'[n].children[p]
  <2>1. c \in {Hollow, Absent} \union Ids /\ (c \in Ids => Leaf(c))
    <3>1. CASE objects'[n].children = NoChildren
      <4>1. c = Absent
        BY <3>1 DEF NoChildren
      <4>2. QED BY <1>1, <4>1 DEF Absent
    <3>2. CASE objects'[n].children = Inherited(objects[i])
      BY <3>2, InheritedOK
    <3>3. QED BY <3>1, <3>2
  <2>2. c \in 1 .. Len(objects') => c \in Ids
    BY <1>1, <2>1 DEF Hollow, Absent
  <2>3. c \in Ids => LeafThen(c)
    BY <2>1, LeafStays
  <2>4. QED BY <1>1, <2>1, <2>2, <2>3
<1>4. QED BY <1>2, <1>3 DEF Fresh

(* Append and a change of one object.                                      *)
LEMMA ChangedAndAppended ==
  ASSUME Typing, NEW i \in Ids, NEW o \in Objects, NEW new \in Objects,
         objects' = Append([objects EXCEPT ![i] = o], new)
  PROVE  /\ objects' \in Seq(Objects)
         /\ Len(objects') = Len(objects) + 1
         /\ objects'[i] = o
         /\ \A j \in Ids : j # i => objects'[j] = objects[j]
         /\ objects'[Len(objects) + 1] = new
<1> DEFINE changed == [objects EXCEPT ![i] = o]
<1>1. /\ changed \in Seq(Objects) /\ Len(changed) = Len(objects)
      /\ \A j \in Ids : changed[j] = IF j = i THEN o ELSE objects[j]
  BY ExceptSeq DEF Typing, ObjectsOK, Ids
<1> HIDE DEF changed
<1>2. /\ Append(changed, new) \in Seq(Objects)
      /\ Len(Append(changed, new)) = Len(objects) + 1
      /\ \A j \in Ids : Append(changed, new)[j] = changed[j]
      /\ Append(changed, new)[Len(objects) + 1] = new
  BY <1>1, AppendProperties DEF Ids
<1>3. QED BY <1>1, <1>2 DEF changed

LEMMA ChangedOnly ==
  ASSUME Typing, NEW i \in Ids, NEW o \in Objects, objects' = [objects EXCEPT ![i] = o]
  PROVE  /\ objects' \in Seq(Objects)
         /\ Len(objects') = Len(objects)
         /\ objects'[i] = o
         /\ \A j \in Ids : j # i => objects'[j] = objects[j]
BY ExceptSeq DEF Typing, ObjectsOK, Ids

LEMMA AppendedOnly ==
  ASSUME Typing, NEW new \in Objects, objects' = Append(objects, new)
  PROVE  /\ objects' \in Seq(Objects)
         /\ Len(objects') = Len(objects) + 1
         /\ \A j \in Ids : objects'[j] = objects[j]
         /\ objects'[Len(objects) + 1] = new
BY AppendProperties DEF Typing, ObjectsOK, Ids

(* yield spends its source and makes an heir.                              *)
LEMMA YieldEffect ==
  ASSUME IInv, NEW i \in Ids, NEW v \in Names, Owned(i), Yield(i, v)
  PROVE  LET n == Len(objects) + 1 IN
         /\ Grows /\ Ids' = Ids \union {n} /\ n \notin Ids
         /\ objects'[i].state = "Moved"
         /\ \A j \in Ids : j # i => objects'[j] = objects[j]
         /\ objects'[n].state = "Owned" /\ objects'[n].value = objects[i].value
         /\ objects'[n].composite = objects[i].composite
         /\ objects'[n].resource = objects[i].resource
         /\ objects[i].composite => objects'[n].children = objects[i].children
         /\ scopeObjects' = [scopeObjects EXCEPT ![depth] = @ \union {n}]
         /\ UNCHANGED <<depth, edges>> /\ errors' = {}
<1> DEFINE n == Len(objects) + 1
           new == [name |-> Var(v), state |-> "Owned", composite |-> objects[i].composite,
                   resource |-> ResourceOf(objects[i]), value |-> objects[i].value,
                   children |-> Inherited(objects[i])]
<1>0. Len(objects) \in Nat /\ Ids = 1 .. Len(objects) /\ i # 0 /\ objects[i] \in Objects
  BY Basics DEF IInv
<1>1. /\ objects' = Append([objects EXCEPT ![i] = Spent(objects[i])], new)
      /\ scopeObjects' = [scopeObjects EXCEPT ![depth] = @ \union {n}]
      /\ UNCHANGED <<depth, edges>> /\ errors' = {}
  BY <1>0 DEF Yield, Owned, Track
<1>2. Inherited(objects[i]) \in [Paths -> Int] /\ Var(v) \in NameSet
  BY InheritedOK DEF IInv, Var, NameSet
<1>3. /\ new \in Objects /\ new.state = "Owned" /\ new.value = objects[i].value
      /\ new.composite = objects[i].composite /\ new.resource = objects[i].resource
      /\ new.children = Inherited(objects[i])
  BY <1>0, <1>2 DEF Objects, ResourceOf, States
<1> HIDE DEF new
<1>4. Spent(objects[i]) \in Objects /\ Spent(objects[i]).state = "Moved" /\ (objects'[i] = Spent(objects[i]) => Old(i))
  BY StateChanges DEF IInv, Spent, States
<1>5. /\ objects' \in Seq(Objects) /\ Len(objects') = n /\ objects'[i] = Spent(objects[i])
      /\ \A j \in Ids : j # i => objects'[j] = objects[j]
      /\ objects'[n] = new
  BY <1>1, <1>3, <1>4, ChangedAndAppended DEF IInv
<1>6. \A j \in Ids : Old(j)
  BY <1>4, <1>5, Same DEF IInv
<1>7. Fresh(n)
  BY <1>0, <1>3, <1>5, <1>6, HeirFresh DEF IInv
<1>8. Ids' = Ids \union {n} /\ n \notin Ids /\ Ids' = 1 .. n
  BY <1>0, <1>5 DEF Ids
<1>9. Grows
  BY <1>0, <1>5, <1>6, <1>7, <1>8 DEF Grows
<1>10. objects[i].composite => objects'[n].children = objects[i].children
  BY <1>3, <1>5 DEF Inherited
<1>11. QED BY <1>1, <1>3, <1>4, <1>5, <1>8, <1>9, <1>10

(* extract makes an object for the element, and its position hollow.       *)
LEMMA ExtractEffect ==
  ASSUME IInv, NEW i \in Ids, NEW p \in Paths, NEW v \in Names, Extract(i, p, v)
  PROVE  LET n == Len(objects) + 1
             c == Child(i, p) IN
         /\ Grows /\ Ids' = Ids \union {n} /\ n \notin Ids
         /\ Owned(i) /\ (Typed => objects[i].composite) /\ c \in {Absent} \union Ids /\ c # i
         /\ objects'[i].children[p] = Hollow /\ objects'[i].state = "Owned"
         /\ c \in Ids => ~Gone(c) /\ objects'[c].state = "Extracted" /\ ~objects[c].resource
         /\ \A j \in Ids : j \notin {i, c} => objects'[j] = objects[j]
         /\ \A j \in Ids : j # i => objects'[j].children = objects[j].children
         /\ objects'[n].state = "Owned" /\ objects'[n].value = Append(objects[i].value, p)
         /\ ~objects'[n].composite
         /\ scopeObjects' = [scopeObjects EXCEPT ![depth] = @ \union {n}]
         /\ UNCHANGED <<depth, edges>> /\ errors' = {}
<1> DEFINE n == Len(objects) + 1
           c == Child(i, p)
           elem == [name |-> Var(v), state |-> "Owned",
                    composite |-> c # Absent /\ objects[c].composite,
                    resource |-> FALSE, value |-> Append(objects[i].value, p),
                    children |-> IF c = Absent THEN NoChildren ELSE Inherited(objects[c])]
           taken == IF c = Absent THEN objects ELSE [objects EXCEPT ![c].state = "Extracted"]
<1>0. Len(objects) \in Nat /\ Ids = 1 .. Len(objects) /\ objects[i] \in Objects
      /\ objects[i].children \in [Paths -> Int] /\ objects[i].value \in Values
  BY Basics DEF IInv
<1>1. /\ Owned(i) /\ (Typed => objects[i].composite) /\ c # Hollow
      /\ c # Absent => objects[c].state \notin {"Extracted", "Moved"}
      /\ objects' = Append([taken EXCEPT ![i].children[p] = Hollow], elem)
      /\ scopeObjects' = [scopeObjects EXCEPT ![depth] = @ \union {n}]
      /\ UNCHANGED <<depth, edges>> /\ errors' = {}
  BY DEF Extract, Owned, Track, Child
<1>2. c \in {Absent} \union Ids /\ Absent \notin Ids
  BY <1>0, <1>1 DEF IInv, Typing, ChildrenOK, Absent
<1>3. c \in Ids => Leaf(c) /\ ~Gone(c)
  BY <1>1, <1>2 DEF IInv, PartsAreLeaves, Gone
<1>4. elem \in Objects
  <2>1. NoChildren \in [Paths -> Int]
    BY DEF NoChildren, Absent
  <2>2. elem.children \in [Paths -> Int]
    BY <1>2, <2>1, InheritedOK DEF IInv
  <2>3. elem.composite = FALSE
    BY <1>2, <1>3 DEF Leaf
  <2>4. elem.value \in Values
    BY <1>0, AppendProperties DEF Values
  <2>5. Var(v) \in NameSet
    BY DEF Var, NameSet
  <2>6. QED BY <2>2, <2>3, <2>4, <2>5 DEF Objects, States
<1>5. /\ elem.state = "Owned" /\ elem.value = Append(objects[i].value, p) /\ ~elem.composite
      /\ elem.children = NoChildren
  BY <1>2, <1>3 DEF Inherited, Leaf
<1> HIDE DEF elem
<1>6. /\ taken \in Seq(Objects) /\ Len(taken) = Len(objects)
      /\ \A j \in Ids : j # c => taken[j] = objects[j]
      /\ c \in Ids => taken[c] = [objects[c] EXCEPT !.state = "Extracted"]
  <2>1. CASE c = Absent
    BY <1>2, <2>1 DEF IInv, Typing, ObjectsOK
  <2>2. CASE c \in Ids
    <3>1. [objects[c] EXCEPT !.state = "Extracted"] \in Objects
      BY <2>2, StateChanges DEF IInv, States
    <3>2. taken = [objects EXCEPT ![c] = [objects[c] EXCEPT !.state = "Extracted"]]
      BY <1>2, <2>2
    <3>3. QED BY <2>2, <3>1, <3>2, ExceptSeq DEF IInv, Typing, ObjectsOK, Ids
  <2>3. QED BY <1>2, <2>1, <2>2
<1> HIDE DEF taken
<1>7. c # i /\ i # Absent
  BY <1>0, <1>1, <1>2, <1>3 DEF Leaf, Child, Hollow, Absent
<1>8. taken[i] = objects[i]
  BY <1>6, <1>7
<1> DEFINE opened == [objects[i] EXCEPT !.children = [objects[i].children EXCEPT ![p] = Hollow]]
<1>9. /\ opened \in Objects /\ opened.state = "Owned" /\ opened.value = objects[i].value
      /\ opened.composite = objects[i].composite /\ opened.resource = objects[i].resource
      /\ opened.children[p] = Hollow
      /\ \A q \in Paths : opened.children[q] \in {objects[i].children[q], Hollow}
  <2>1. [objects[i].children EXCEPT ![p] = Hollow] \in [Paths -> Int]
    BY <1>0 DEF Hollow
  <2>2. QED BY <1>0, <1>1, <2>1 DEF Objects, Owned
<1>10. objects' = Append([taken EXCEPT ![i] = opened], elem)
  BY <1>1, <1>8
<1> HIDE DEF opened
<1>11. /\ objects' \in Seq(Objects) /\ Len(objects') = n /\ objects'[i] = opened
       /\ \A j \in Ids : j # i => objects'[j] = taken[j]
       /\ objects'[n] = elem
  <2> DEFINE changed == [taken EXCEPT ![i] = opened]
  <2>1. /\ changed \in Seq(Objects) /\ Len(changed) = Len(objects)
        /\ \A j \in Ids : changed[j] = IF j = i THEN opened ELSE taken[j]
    BY <1>0, <1>6, <1>9, ExceptSeq
  <2> HIDE DEF changed
  <2>2. /\ Append(changed, elem) \in Seq(Objects)
        /\ Len(Append(changed, elem)) = n
        /\ \A j \in Ids : Append(changed, elem)[j] = changed[j]
        /\ Append(changed, elem)[n] = elem
    BY <1>0, <1>4, <2>1, AppendProperties
  <2>3. QED BY <1>10, <2>1, <2>2 DEF changed
<1>12. \A j \in Ids : j \notin {i, c} => objects'[j] = objects[j]
  BY <1>6, <1>11
<1>13. c \in Ids => /\ Old(c) /\ objects'[c].state = "Extracted" /\ objects'[c].children = objects[c].children
  <2> SUFFICES ASSUME c \in Ids
               PROVE  Old(c) /\ objects'[c].state = "Extracted" /\ objects'[c].children = objects[c].children
    OBVIOUS
  <2>1. objects'[c] = [objects[c] EXCEPT !.state = "Extracted"]
    BY <1>6, <1>7, <1>11
  <2>2. "Extracted" \in States \ {"Owned"} /\ Typing
    BY DEF States, IInv
  <2> HIDE DEF c
  <2>3. QED BY <2>1, <2>2, StateChanges
<1>14. Old(i)
  BY <1>1, <1>9, <1>11 DEF Old, Gone, Owned
<1>15. \A j \in Ids : Old(j)
  BY <1>12, <1>13, <1>14, Same DEF IInv
<1>16. Ids' = Ids \union {n} /\ n \notin Ids /\ Ids' = 1 .. n
  BY <1>0, <1>11 DEF Ids
<1>17. Fresh(n)
  <2>1. Append(objects[i].value, p) # << >> /\ Append(objects[i].value, p)[1] = objects[i].value[1]
    <3>1. p \in Nat \union Paths /\ objects[i].value \in Seq(Nat \union Paths) /\ objects[i].value # << >>
      BY <1>0 DEF Values, IInv, ValuesRooted
    <3>2. Len(objects[i].value) \in Nat \ {0}
      BY <3>1, EmptySeq
    <3>3. 1 \in 1 .. Len(objects[i].value)
      BY <3>2
    <3>4. QED BY <3>1, <3>3, AppendProperties
  <2>2. objects'[n].value # << >> /\ objects'[n].value[1] \in 1 .. Len(objects')
    BY <1>0, <1>5, <1>11, <1>16, <2>1 DEF IInv, ValuesRooted
  <2>3. \A q \in Paths : objects'[n].children[q] = Absent
    BY <1>5, <1>11 DEF NoChildren
  <2>4. QED BY <1>0, <1>11, <2>2, <2>3 DEF Fresh, Absent
<1>18. Grows
  BY <1>0, <1>11, <1>15, <1>16, <1>17 DEF Grows
<1>19. \A j \in Ids : j # i => objects'[j].children = objects[j].children
  BY <1>12, <1>13
<1>20. QED BY <1>1, <1>2, <1>3, <1>5, <1>7, <1>9, <1>11, <1>12, <1>13, <1>16, <1>18, <1>19 DEF Leaf

(* A release leaves neither its source nor its holder an owner.            *)
LEMMA ReleaseEffect ==
  ASSUME IInv, NEW i \in Ids, NEW v \in Names, NEW union \in BOOLEAN, Release(i, v, union)
  PROVE  /\ Grows
         /\ \A j \in Ids' : j \notin Ids => objects'[j].state # "Owned"
         /\ SharedIsReadOnly' /\ ScopesOK' /\ UNCHANGED depth
         /\ \A s \in 0 .. depth : scopeObjects[s] \subseteq scopeObjects'[s]
<1> DEFINE n == Len(objects) + 1
           final == IF union THEN "UnionReleased" ELSE "Released"
           holder == [name |-> Var(v), state |-> "Released", composite |-> objects[i].composite,
                      resource |-> FALSE, value |-> objects[i].value, children |-> Inherited(objects[i])]
<1>0. Len(objects) \in Nat /\ Ids = 1 .. Len(objects) /\ objects[i] \in Objects
  BY Basics DEF IInv
<1>1. PICK h \in 0 .. Len(objects) :
        LET to == IF h = 0 THEN n ELSE h
            held == IF h = 0 THEN Append(objects, holder) ELSE [objects EXCEPT ![h] = Reader(objects[h])]
        IN /\ objects[i].state \in {"Owned", "Released"}
           /\ objects' = [held EXCEPT ![i].state = final]
           /\ scopeObjects' = [scopeObjects EXCEPT ![depth] = @ \union (IF h = 0 THEN {to} ELSE {})]
           /\ edges' = edges \union {<<i, to>>}
           /\ errors' = (IF <<i, to>> \in edges THEN {"DoubleRelease"} ELSE {})
                          \union (IF HasCycle(edges') THEN {"CycleDetected"} ELSE {})
           /\ UNCHANGED depth
  BY DEF Release, Track
<1> DEFINE to == IF h = 0 THEN n ELSE h
           held == IF h = 0 THEN Append(objects, holder) ELSE [objects EXCEPT ![h] = Reader(objects[h])]
<1>2. holder \in Objects /\ holder.value = objects[i].value /\ holder.state = "Released"
      /\ holder.children = Inherited(objects[i])
  BY <1>0, InheritedOK DEF IInv, Objects, States, Var, NameSet
<1> HIDE DEF holder
<1>3. ASSUME NEW j \in Ids PROVE Reader(objects[j]) \in Objects /\ Reader(objects[j]).state # "Owned"
      /\ (objects'[j] = Reader(objects[j]) => Old(j))
  <2>1. CASE Owned(j)
    <3>1. Reader(objects[j]) = [objects[j] EXCEPT !.state = "Released"]
      BY <2>1 DEF Reader, Owned
    <3>2. ~Gone(j) /\ Typing /\ "Released" \in States \ {"Owned"}
      BY <2>1 DEF Gone, Owned, IInv, States
    <3>3. QED BY <3>1, <3>2, StateChanges
  <2>2. CASE ~Owned(j)
    <3>1. Reader(objects[j]) = objects[j]
      BY <2>2 DEF Reader, Owned
    <3>2. QED BY <2>2, <3>1, Basics, Same DEF IInv, Owned
  <2>3. QED BY <2>1, <2>2
<1> DEFINE m == Len(held)
<1>4. /\ held \in Seq(Objects) /\ m = IF h = 0 THEN n ELSE Len(objects)
      /\ \A j \in Ids : j # h => held[j] = objects[j]
      /\ h = 0 => held[n] = holder
      /\ h # 0 => held[h] = Reader(objects[h])
  <2>1. CASE h = 0
    BY <1>0, <1>2, <2>1, AppendProperties DEF IInv, Typing, ObjectsOK
  <2>2. CASE h # 0
    <3>1. h \in 1 .. Len(objects)
      BY <1>0, <2>2
    <3>2. QED BY <1>0, <1>3, <2>2, <3>1, ExceptSeq DEF IInv, Typing, ObjectsOK
  <2>3. QED BY <2>1, <2>2
<1>5. objects' = [held EXCEPT ![i].state = final]
  BY <1>1
<1> HIDE DEF held
<1>6. i \in 1 .. m /\ m \in Nat /\ held[i] \in Objects
  <2>1. i \in 1 .. m /\ m \in Nat
    BY <1>0, <1>4
  <2>2. QED BY <1>4, <2>1, ElementOfSeq
<1> DEFINE source == [held[i] EXCEPT !.state = final]
<1>7. /\ source \in Objects /\ source.state = final /\ final \in {"Released", "UnionReleased"}
      /\ source.value = held[i].value /\ source.composite = held[i].composite
      /\ source.resource = held[i].resource /\ source.children = held[i].children
  BY <1>6 DEF Objects, States
<1>8. objects' = [held EXCEPT ![i] = source]
  BY <1>5
<1> HIDE DEF source, final
<1>9. /\ objects' \in Seq(Objects) /\ Len(objects') = m
      /\ objects'[i] = source
      /\ \A j \in 1 .. m : j # i => objects'[j] = held[j]
  BY <1>4, <1>6, <1>7, <1>8, ExceptSeq
<1>10. ASSUME NEW j \in Ids PROVE Old(j)
  <2>1. CASE j # i /\ j # h
    BY <1>0, <1>4, <1>9, <2>1, Same DEF IInv
  <2>2. CASE j # i /\ j = h
    BY <1>0, <1>3, <1>4, <1>9, <2>2
  <2>3. CASE j = i
    <3>1. /\ held[i].value = objects[i].value /\ held[i].composite = objects[i].composite
          /\ held[i].resource = objects[i].resource /\ held[i].children = objects[i].children
      <4>1. CASE h # i
        BY <1>4, <4>1
      <4>2. CASE h = i
        <5>1. held[i] = Reader(objects[i])
          BY <1>0, <1>4, <4>2
        <5>2. QED BY <1>0, <5>1 DEF Reader, Objects
      <4>3. QED BY <4>1, <4>2
    <3>2. objects[i].state \in {"Owned", "Released"}
      BY <1>1
    <3>3. QED BY <1>7, <1>9, <2>3, <3>1, <3>2 DEF Old, Gone
  <2>4. QED BY <2>1, <2>2, <2>3
<1>11. Ids' = 1 .. m /\ Ids \subseteq Ids'
  BY <1>0, <1>4, <1>9 DEF Ids
<1>12. ASSUME NEW j \in Ids', j \notin Ids PROVE Fresh(j) /\ objects'[j].state # "Owned"
  <2>1. h = 0 /\ j = n /\ objects'[n] = holder
    BY <1>0, <1>4, <1>9, <1>11, <1>12
  <2>2. Fresh(n)
    <3>1. Len(objects') >= Len(objects) /\ Len(objects') \in Nat /\ n \in Nat
      BY <1>0, <1>4, <1>9
    <3>2. objects'[n].value = objects[i].value /\ objects'[n].children = Inherited(objects[i])
      BY <1>2, <2>1
    <3> HIDE DEF n
    <3>3. QED BY <1>10, <3>1, <3>2, HeirFresh DEF IInv
  <2>3. QED BY <1>2, <2>1, <2>2
<1>13. Grows
  BY <1>0, <1>4, <1>9, <1>10, <1>11, <1>12 DEF Grows
<1>14. to \in Ids' /\ objects'[to].state # "Owned" /\ objects'[i].state # "Owned" /\ i \in Ids'
  <2>1. objects'[i].state # "Owned"
    BY <1>7, <1>9
  <2>2. CASE h = 0
    BY <1>0, <1>4, <1>11, <1>12, <2>1, <2>2
  <2>3. CASE h # 0
    BY <1>0, <1>3, <1>4, <1>9, <1>11, <2>1, <2>3
  <2>4. QED BY <1>11, <2>1, <2>2, <2>3
<1>15. edges' = edges \union {<<i, to>>} /\ UNCHANGED depth
  BY <1>1
<1>16. SharedIsReadOnly'
  <2> SUFFICES ASSUME NEW e \in edges' PROVE objects'[e[1]].state # "Owned" /\ objects'[e[2]].state # "Owned"
    BY DEF SharedIsReadOnly, Owned
  <2>1. CASE e \in edges
    <3>1. e[1] \in Ids /\ e[2] \in Ids /\ ~Owned(e[1]) /\ ~Owned(e[2])
      BY <2>1 DEF IInv, Typing, ScopesOK, SharedIsReadOnly
    <3>2. QED BY <1>10, <3>1 DEF Old
  <2>2. CASE e = <<i, to>>
    BY <1>14, <2>2
  <2>3. QED BY <1>15, <2>1, <2>2
<1>17. /\ scopeObjects' \in [0 .. MaxDepth -> SUBSET Ids']
       /\ \A s \in 0 .. depth : scopeObjects[s] \subseteq scopeObjects'[s]
  <2> DEFINE new == IF h = 0 THEN {to} ELSE {}
  <2>1. scopeObjects' = [scopeObjects EXCEPT ![depth] = scopeObjects[depth] \union new]
    BY <1>1
  <2>2. new \subseteq Ids'
    BY <1>14
  <2>3. depth \in 0 .. MaxDepth /\ MaxDepth \in Nat /\ scopeObjects \in [0 .. MaxDepth -> SUBSET Ids]
    BY SorAssumption DEF IInv, Typing, ScopesOK
  <2>4. Ids \subseteq Ids'
    BY <1>11
  <2> HIDE DEF new
  <2>5. scopeObjects' \in [0 .. MaxDepth -> SUBSET Ids']
    BY <2>1, <2>2, <2>3, <2>4
  <2>6. \A s \in 0 .. MaxDepth : scopeObjects[s] \subseteq scopeObjects'[s]
    BY <2>1, <2>3
  <2>7. QED BY <2>3, <2>5, <2>6
<1>18. edges' \subseteq Ids' \X Ids'
  <2>1. edges \subseteq Ids \X Ids
    BY DEF IInv, Typing, ScopesOK
  <2>2. <<i, to>> \in Ids' \X Ids'
    BY <1>14
  <2> HIDE DEF to
  <2>3. QED BY <1>11, <1>15, <2>1, <2>2
<1>19. errors' \subseteq Kinds
  BY <1>1 DEF Kinds
<1>20. ScopesOK'
  BY <1>15, <1>17, <1>18, <1>19 DEF ScopesOK, IInv, Typing
<1>21. QED BY <1>11, <1>12, <1>13, <1>15, <1>16, <1>17, <1>20

(* let makes one owner, or two with an element.                            *)
LEMMA LetEffect ==
  ASSUME IInv, NEW v \in Names, NEW kind \in LetKinds, NEW path \in Paths \union {NoPath},
         Let(v, kind, path)
  PROVE  LET n == Len(objects) + 1 IN
         /\ Grows
         /\ \A j \in Ids : objects'[j] = objects[j]
         /\ Ids' = Ids \union {n} \union (IF path = NoPath THEN {} ELSE {n + 1})
         /\ n \notin Ids /\ n + 1 \notin Ids
         /\ objects'[n].value = <<n>>
         /\ path # NoPath => /\ objects'[n].children[path] = n + 1
                             /\ objects'[n + 1].value = <<n, path>>
                             /\ ~objects'[n + 1].composite
         /\ scopeObjects' = [scopeObjects EXCEPT ![depth] = @ \union (Ids' \ Ids)]
         /\ UNCHANGED <<depth, edges>> /\ errors' = {}
<1> DEFINE n == Len(objects) + 1
           whole == [name |-> Var(v), state |-> "Owned", composite |-> kind.composite,
                     resource |-> kind.resource, value |-> <<n>>,
                     children |-> [p \in Paths |-> IF p = path THEN n + 1 ELSE Absent]]
           element == [name |-> [var |-> v, path |-> path], state |-> "Owned",
                       composite |-> FALSE, resource |-> FALSE, value |-> <<n, path>>,
                       children |-> NoChildren]
<1>0. Len(objects) \in Nat /\ Ids = 1 .. Len(objects)
  BY Basics DEF IInv
<1>1. /\ IF path = NoPath
         THEN /\ objects' = Append(objects, whole)
              /\ scopeObjects' = [scopeObjects EXCEPT ![depth] = @ \union {n}]
         ELSE /\ objects' = Append(Append(objects, whole), element)
              /\ scopeObjects' = [scopeObjects EXCEPT ![depth] = @ \union {n, n + 1}]
      /\ UNCHANGED <<depth, edges>> /\ errors' = {}
  BY DEF Let, Track
<1>2. NoPath \notin Paths /\ kind \in [composite : BOOLEAN, resource : BOOLEAN]
  BY SorAssumption
<1>3. whole \in Objects /\ whole.value = <<n>> /\ whole.children = [p \in Paths |-> IF p = path THEN n + 1 ELSE Absent]
  <2>1. whole.children \in [Paths -> Int]
    BY <1>0 DEF Absent
  <2>2. <<n>> \in Values
    BY <1>0 DEF Values
  <2>3. Var(v) \in NameSet
    BY DEF Var, NameSet
  <2>4. QED BY <1>2, <2>1, <2>2, <2>3 DEF Objects, States
<1>4. /\ path # NoPath => element \in Objects
      /\ element.value = <<n, path>> /\ ~element.composite /\ ~element.resource /\ element.children = NoChildren
  <2>1. NoChildren \in [Paths -> Int]
    BY DEF NoChildren, Absent
  <2>2. path # NoPath => <<n, path>> \in Values
    BY <1>0 DEF Values
  <2>3. [var |-> v, path |-> path] \in NameSet
    BY DEF NameSet
  <2>4. QED BY <2>1, <2>2, <2>3 DEF Objects, States
<1> HIDE DEF whole, element
<1>5. /\ Append(objects, whole) \in Seq(Objects) /\ Len(Append(objects, whole)) = n
      /\ \A j \in Ids : Append(objects, whole)[j] = objects[j]
      /\ Append(objects, whole)[n] = whole
  BY <1>0, <1>3, AppendProperties DEF IInv, Typing, ObjectsOK
<1>6. path # NoPath =>
        LET objs == Append(Append(objects, whole), element) IN
        /\ objs \in Seq(Objects) /\ Len(objs) = n + 1
        /\ \A j \in Ids : objs[j] = objects[j]
        /\ objs[n] = whole /\ objs[n + 1] = element
  <2> SUFFICES ASSUME path # NoPath
               PROVE  LET objs == Append(Append(objects, whole), element) IN
                      /\ objs \in Seq(Objects) /\ Len(objs) = n + 1
                      /\ \A j \in Ids : objs[j] = objects[j]
                      /\ objs[n] = whole /\ objs[n + 1] = element
    OBVIOUS
  <2> DEFINE one == Append(objects, whole)
  <2>1. one \in Seq(Objects) /\ Len(one) = n /\ one[n] = whole /\ \A j \in Ids : one[j] = objects[j]
    BY <1>5
  <2>2. element \in Objects
    BY <1>4
  <2> HIDE DEF one
  <2>3. /\ Append(one, element) \in Seq(Objects) /\ Len(Append(one, element)) = Len(one) + 1
        /\ \A j \in 1 .. Len(one) : Append(one, element)[j] = one[j]
        /\ Append(one, element)[Len(one) + 1] = element
    BY <2>1, <2>2, AppendProperties
  <2>4. n \in 1 .. n /\ Ids \subseteq 1 .. n
    BY <1>0
  <2>5. QED BY <2>1, <2>3, <2>4 DEF one
<1>7. /\ objects' \in Seq(Objects)
      /\ Len(objects') = IF path = NoPath THEN n ELSE n + 1
      /\ \A j \in Ids : objects'[j] = objects[j]
      /\ objects'[n] = whole
      /\ path # NoPath => objects'[n + 1] = element
  BY <1>1, <1>5, <1>6
<1>8. /\ Ids' = Ids \union {n} \union (IF path = NoPath THEN {} ELSE {n + 1})
      /\ n \notin Ids /\ n + 1 \notin Ids /\ Ids' = 1 .. Len(objects')
  BY <1>0, <1>7 DEF Ids
<1>9. Fresh(n)
  <2>1. objects'[n].value # << >> /\ objects'[n].value[1] \in 1 .. Len(objects')
    <3>1. <<n>> # << >> /\ <<n>>[1] = n
      OBVIOUS
    <3>2. n \in 1 .. Len(objects')
      BY <1>0, <1>7
    <3>3. objects'[n].value = <<n>>
      BY <1>3, <1>7
    <3>4. QED BY <3>1, <3>2, <3>3
  <2>2. ASSUME NEW p \in Paths
        PROVE  LET c == objects'[n].children[p] IN
                 /\ c \in {Hollow, Absent} \union 1 .. Len(objects')
                 /\ c \in 1 .. Len(objects') => LeafThen(c)
    <3>1. CASE p # path
      BY <1>3, <1>7, <3>1 DEF Absent
    <3>2. CASE p = path
      <4>1. path # NoPath /\ objects'[n].children[p] = n + 1
        BY <1>2, <1>3, <1>7, <3>2
      <4>2. LeafThen(n + 1)
        BY <1>4, <1>7, <4>1 DEF LeafThen, NoChildren
      <4>3. QED BY <1>0, <1>7, <4>1, <4>2
    <3>3. QED BY <3>1, <3>2
  <2>3. QED BY <2>1, <2>2 DEF Fresh
<1>10. path # NoPath => Fresh(n + 1)
  <2> SUFFICES ASSUME path # NoPath PROVE Fresh(n + 1)
    OBVIOUS
  <2>1. objects'[n + 1].value # << >> /\ objects'[n + 1].value[1] \in 1 .. Len(objects')
    BY <1>0, <1>4, <1>7
  <2>2. \A p \in Paths : objects'[n + 1].children[p] = Absent
    BY <1>4, <1>7 DEF NoChildren
  <2>3. QED BY <1>0, <1>7, <2>1, <2>2 DEF Fresh, Absent
<1>11. \A j \in Ids : Old(j)
  BY <1>7, Same DEF IInv
<1>12. Grows
  <2>1. Len(objects') >= Len(objects)
    BY <1>0, <1>7
  <2>2. \A j \in 1 .. Len(objects') : j \notin Ids => Fresh(j)
    BY <1>8, <1>9, <1>10
  <2>3. QED BY <1>7, <1>11, <2>1, <2>2 DEF Grows
<1>13. scopeObjects' = [scopeObjects EXCEPT ![depth] = @ \union (Ids' \ Ids)]
  <2>1. Ids' \ Ids = IF path = NoPath THEN {n} ELSE {n, n + 1}
    BY <1>8
  <2>2. QED BY <1>1, <2>1
<1>14. path # NoPath => objects'[n].children[path] = n + 1
  BY <1>2, <1>3, <1>7
<1>15. QED BY <1>1, <1>3, <1>4, <1>7, <1>8, <1>12, <1>13, <1>14

(* The statements that only change states.                                 *)
LEMMA CallEffect ==
  ASSUME IInv, NEW i \in Ids, NEW expected, Call(i, expected)
  PROVE  /\ Grows /\ Ids' = Ids /\ errors' \subseteq Kinds
         /\ expected # "owned" => objects' = objects
         /\ UNCHANGED <<depth, scopeObjects, edges>>
<1>1. errors' \subseteq Kinds /\ UNCHANGED <<depth, scopeObjects, edges>>
  BY DEF Call, CallError, Kinds
<1>2. CASE objects' = objects
  <2>1. objects' \in Seq(Objects) /\ Len(objects') = Len(objects) /\ Ids' = Ids /\ Ids = 1 .. Len(objects')
    BY <1>2 DEF IInv, Typing, ObjectsOK, Ids
  <2>2. \A j \in Ids : Old(j)
    BY <1>2, Same DEF IInv
  <2>3. Len(objects') >= Len(objects)
    BY <2>1, Basics DEF IInv
  <2>4. Grows
    BY <2>1, <2>2, <2>3 DEF Grows
  <2>5. QED BY <1>1, <1>2, <2>1, <2>4
<1>3. CASE expected = "owned" /\ objects[i].state = "Owned"
  <2> DEFINE o == [objects[i] EXCEPT !.state = "Moved"]
  <2>1. objects' = [objects EXCEPT ![i] = o]
    BY <1>3 DEF Call
  <2>2. o \in Objects /\ (objects'[i] = o => Old(i))
    BY StateChanges DEF IInv, States
  <2> HIDE DEF o
  <2>3. /\ objects' \in Seq(Objects) /\ Len(objects') = Len(objects) /\ objects'[i] = o
        /\ \A j \in Ids : j # i => objects'[j] = objects[j]
    BY <2>1, <2>2, ChangedOnly DEF IInv
  <2>4. \A j \in Ids : Old(j)
    BY <2>2, <2>3, Same DEF IInv
  <2>5. Len(objects') >= Len(objects) /\ Ids' = Ids /\ Ids = 1 .. Len(objects')
    BY <2>3, Basics DEF Ids, IInv
  <2>6. Grows
    BY <2>3, <2>4, <2>5 DEF Grows
  <2>7. expected = "owned"
    BY <1>3
  <2>8. QED BY <1>1, <2>5, <2>6, <2>7
<1>4. QED BY <1>2, <1>3 DEF Call

LEMMA ReleaseToNoneEffect ==
  ASSUME IInv, NEW i \in Ids, ReleaseToNone(i)
  PROVE  Grows /\ Ids' = Ids /\ errors' = {} /\ UNCHANGED <<depth, scopeObjects, edges>>
<1> DEFINE o == [objects[i] EXCEPT !.state = "Released"]
<1>1. objects' = [objects EXCEPT ![i] = o] /\ errors' = {} /\ UNCHANGED <<depth, scopeObjects, edges>>
  BY DEF ReleaseToNone
<1>2. o \in Objects /\ (objects'[i] = o => Old(i))
  <2>1. ~Gone(i)
    BY DEF ReleaseToNone, Gone
  <2>2. QED BY <2>1, StateChanges DEF IInv, States
<1> HIDE DEF o
<1>3. /\ objects' \in Seq(Objects) /\ Len(objects') = Len(objects) /\ objects'[i] = o
      /\ \A j \in Ids : j # i => objects'[j] = objects[j]
  BY <1>1, <1>2, ChangedOnly DEF IInv
<1>4. \A j \in Ids : Old(j)
  BY <1>2, <1>3, Same DEF IInv
<1>5. Len(objects') >= Len(objects) /\ Ids' = Ids /\ Ids = 1 .. Len(objects')
  BY <1>3, Basics DEF Ids, IInv
<1>6. QED BY <1>1, <1>3, <1>4, <1>5 DEF Grows

LEMMA ExitEffect ==
  ASSUME IInv, ExitScope
  PROVE  /\ Grows /\ Ids' = Ids /\ errors' \subseteq Kinds
         /\ depth \in Nat \ {0} /\ depth' = depth - 1 /\ UNCHANGED <<scopeObjects, edges>>
         /\ \A i \in Ids : IF i \in Dying THEN objects'[i].state = "Moved" ELSE objects'[i] = objects[i]
<1> DEFINE After(i) == IF i \in Dying THEN [objects[i] EXCEPT !.state = "Moved"] ELSE objects[i]
<1>1. /\ objects' = [i \in Ids |-> After(i)] /\ errors' \subseteq Kinds
      /\ depth > 0 /\ depth' = depth - 1 /\ UNCHANGED <<scopeObjects, edges>>
  BY DEF ExitScope, Kinds
<1>2. ASSUME NEW i \in Ids
      PROVE  /\ After(i) \in Objects /\ (objects'[i] = After(i) => Old(i))
             /\ i \in Dying => After(i).state = "Moved"
  <2>1. CASE i \in Dying
    BY <2>1, StateChanges DEF IInv, States
  <2>2. CASE i \notin Dying
    BY <2>2, Basics, Same DEF IInv
  <2>3. QED BY <2>1, <2>2
<1>3. Len(objects) \in Nat /\ Ids = 1 .. Len(objects)
  BY Basics DEF IInv
<1> HIDE DEF After
<1>4. objects' \in [1 .. Len(objects) -> Objects]
  BY <1>1, <1>2, <1>3
<1>5. objects' \in Seq(Objects)
  BY <1>3, <1>4, SeqDef
<1>6. Len(objects') = Len(objects)
  BY <1>3, <1>4, <1>5, LenProperties
<1>7. Len(objects') >= Len(objects) /\ Ids' = Ids /\ Ids = 1 .. Len(objects')
  BY <1>3, <1>6 DEF Ids
<1>8. \A i \in Ids : objects'[i] = After(i) /\ Old(i)
  BY <1>1, <1>2
<1>9. Grows
  BY <1>5, <1>7, <1>8 DEF Grows
<1>10. depth \in Nat \ {0}
  BY <1>1, SorAssumption DEF IInv, Typing, ScopesOK
<1>11. \A i \in Ids : IF i \in Dying THEN objects'[i].state = "Moved" ELSE objects'[i] = objects[i]
  BY <1>2, <1>8 DEF After
<1>12. QED BY <1>1, <1>7, <1>9, <1>10, <1>11

-----------------------------------------------------------------------------
(* Lists of scopes and edges.                                              *)

LEMMA EdgesStay ==
  ASSUME IInv, Grows, UNCHANGED edges
  PROVE  SharedIsReadOnly' /\ edges' \subseteq Ids' \X Ids' /\ Ids \subseteq Ids'
<1>1. Ids \subseteq Ids'
  BY Basics, LenProperties DEF IInv, Grows, Ids
<1>2. edges' \subseteq Ids' \X Ids'
  BY <1>1 DEF IInv, Typing, ScopesOK
<1>3. SharedIsReadOnly'
  <2> SUFFICES ASSUME NEW e \in edges PROVE objects'[e[1]].state # "Owned" /\ objects'[e[2]].state # "Owned"
    BY DEF SharedIsReadOnly, Owned
  <2>1. e[1] \in Ids /\ e[2] \in Ids /\ ~Owned(e[1]) /\ ~Owned(e[2])
    BY DEF IInv, Typing, ScopesOK, SharedIsReadOnly
  <2>2. QED BY <2>1 DEF Grows, Old
<1>4. QED BY <1>1, <1>2, <1>3

(* The lists in scope keep their members, and have all that is new.        *)
LEMMA ListedStays ==
  ASSUME IInv, Grows, UNCHANGED depth,
         \A s \in 0 .. depth : scopeObjects[s] \subseteq scopeObjects'[s],
         \A i \in Ids' : i \notin Ids /\ objects'[i].state = "Owned" => i \in scopeObjects'[depth]
  PROVE  OwnersListed'
<1> SUFFICES ASSUME NEW i \in Ids', objects'[i].state = "Owned"
             PROVE  \E s \in 0 .. depth : i \in scopeObjects'[s]
  BY DEF OwnersListed, Owned
<1>1. CASE i \in Ids
  <2>1. Owned(i)
    BY <1>1 DEF Grows, Old
  <2>2. PICK s \in 0 .. depth : i \in scopeObjects[s]
    BY <1>1, <2>1 DEF IInv, OwnersListed
  <2>3. QED BY <2>2
<1>2. CASE i \notin Ids
  <2>1. depth \in 0 .. depth
    BY SorAssumption DEF IInv, Typing, ScopesOK
  <2>2. QED BY <1>2, <2>1
<1>3. QED BY <1>1, <1>2

LEMMA Recorded ==
  ASSUME IInv, Grows, UNCHANGED <<depth, edges>>, errors' = {},
         scopeObjects' = [scopeObjects EXCEPT ![depth] = @ \union (Ids' \ Ids)]
  PROVE  IInv'
<1>1. ObjectsOK' /\ ChildrenOK' /\ ValuesRooted' /\ PartsAreLeaves'
  BY GrownOK DEF IInv
<1>2. SharedIsReadOnly' /\ edges' \subseteq Ids' \X Ids' /\ Ids \subseteq Ids'
  BY EdgesStay
<1>3. depth \in 0 .. MaxDepth /\ MaxDepth \in Nat /\ scopeObjects \in [0 .. MaxDepth -> SUBSET Ids]
  BY SorAssumption DEF IInv, Typing, ScopesOK
<1>4. /\ scopeObjects' \in [0 .. MaxDepth -> SUBSET Ids']
      /\ \A s \in 0 .. MaxDepth : scopeObjects[s] \subseteq scopeObjects'[s]
      /\ Ids' \ Ids \subseteq scopeObjects'[depth]
  BY <1>2, <1>3
<1>5. ScopesOK'
  BY <1>2, <1>3, <1>4 DEF ScopesOK
<1>6. OwnersListed'
  <2>1. \A s \in 0 .. depth : scopeObjects[s] \subseteq scopeObjects'[s]
    BY <1>3, <1>4
  <2>2. QED BY <1>4, <2>1, ListedStays
<1>7. QED BY <1>1, <1>2, <1>5, <1>6 DEF IInv, Typing

LEMMA Unrecorded ==
  ASSUME IInv, Grows, Ids' = Ids, errors' \subseteq Kinds, UNCHANGED <<depth, scopeObjects, edges>>
  PROVE  IInv'
<1>1. ObjectsOK' /\ ChildrenOK' /\ ValuesRooted' /\ PartsAreLeaves'
  BY GrownOK DEF IInv
<1>2. SharedIsReadOnly' /\ edges' \subseteq Ids' \X Ids'
  BY EdgesStay
<1>3. ScopesOK'
  BY <1>2 DEF ScopesOK, IInv, Typing
<1>4. OwnersListed'
  BY ListedStays
<1>5. QED BY <1>1, <1>2, <1>3, <1>4 DEF IInv, Typing

LEMMA ExitIInv == ASSUME IInv, ExitScope PROVE IInv'
<1>1. /\ Grows /\ Ids' = Ids /\ errors' \subseteq Kinds
      /\ depth \in Nat \ {0} /\ depth' = depth - 1 /\ UNCHANGED <<scopeObjects, edges>>
      /\ \A i \in Ids : IF i \in Dying THEN objects'[i].state = "Moved" ELSE objects'[i] = objects[i]
  BY ExitEffect
<1>2. ObjectsOK' /\ ChildrenOK' /\ ValuesRooted' /\ PartsAreLeaves'
  BY <1>1, GrownOK DEF IInv
<1>3. SharedIsReadOnly' /\ edges' \subseteq Ids' \X Ids'
  BY <1>1, EdgesStay
<1>4. ScopesOK'
  BY <1>1, <1>3, SorAssumption DEF ScopesOK, IInv, Typing
<1>5. OwnersListed'
  <2> SUFFICES ASSUME NEW i \in Ids, objects'[i].state = "Owned"
               PROVE  \E s \in 0 .. depth - 1 : i \in scopeObjects[s]
    BY <1>1 DEF OwnersListed, Owned
  <2>1. i \notin Dying /\ Owned(i)
    BY <1>1 DEF Owned
  <2>2. PICK s \in 0 .. depth : i \in scopeObjects[s]
    BY <2>1 DEF IInv, OwnersListed
  <2>3. s # depth
    BY <2>1, <2>2 DEF Dying, Owned
  <2>4. QED BY <1>1, <2>2, <2>3
<1>6. QED BY <1>2, <1>3, <1>4, <1>5 DEF IInv, Typing

LEMMA EnterIInv == ASSUME IInv, EnterScope PROVE IInv'
<1>1. /\ depth \in 0 .. MaxDepth /\ depth < MaxDepth /\ depth' = depth + 1 /\ MaxDepth \in Nat
      /\ scopeObjects' = [scopeObjects EXCEPT ![depth + 1] = {}]
      /\ scopeObjects \in [0 .. MaxDepth -> SUBSET Ids]
      /\ errors' = {} /\ UNCHANGED <<objects, edges>> /\ Ids' = Ids
  BY SorAssumption DEF EnterScope, IInv, Typing, ScopesOK, Ids
<1>2. ScopesOK'
  <2>1. scopeObjects' \in [0 .. MaxDepth -> SUBSET Ids] /\ depth' \in 0 .. MaxDepth
    BY <1>1
  <2>2. QED BY <1>1, <2>1 DEF ScopesOK, IInv, Typing
<1>3. OwnersListed'
  <2> SUFFICES ASSUME NEW i \in Ids, Owned(i)
               PROVE  \E s \in 0 .. depth + 1 : i \in scopeObjects'[s]
    BY <1>1 DEF OwnersListed, Owned
  <2>1. PICK s \in 0 .. depth : i \in scopeObjects[s]
    BY DEF IInv, OwnersListed
  <2>2. s \in 0 .. depth + 1 /\ scopeObjects'[s] = scopeObjects[s]
    BY <1>1, <2>1
  <2>3. QED BY <2>1, <2>2
<1>4. ObjectsOK' /\ ChildrenOK' /\ ValuesRooted' /\ PartsAreLeaves' /\ SharedIsReadOnly'
  BY <1>1 DEF IInv, Typing, ObjectsOK, ChildrenOK, ValuesRooted, PartsAreLeaves, Leaf, SharedIsReadOnly,
              Child, Owned, Ids
<1>5. QED BY <1>2, <1>3, <1>4 DEF IInv, Typing

-----------------------------------------------------------------------------
(* All statements.                                                         *)

(* A statement that is refused, or only looks.                             *)
Looks == UNCHANGED <<objects, depth, scopeObjects, edges>> /\ errors' \subseteq Kinds

LEMMA LooksIInv == ASSUME IInv, Looks PROVE IInv' /\ Grows /\ Ids' = Ids
<1>1. objects' \in Seq(Objects) /\ Len(objects') >= Len(objects) /\ Ids' = Ids /\ Ids = 1 .. Len(objects')
  BY Basics DEF Looks, IInv, Typing, ObjectsOK, Ids
<1>2. \A i \in Ids : Old(i)
  BY Same DEF Looks, IInv
<1>3. Grows
  BY <1>1, <1>2 DEF Grows
<1>4. QED BY <1>1, <1>3, Unrecorded DEF Looks

(* What the statements about one object do, in cases.                      *)
LEMMA StatementCases ==
  ASSUME IInv, NEW i \in 0 .. Len(objects), Statement(i)
  PROVE  \/ Looks
         \/ /\ i \in Ids
            /\ \/ Owned(i) /\ \E v \in Names : Yield(i, v)
               \/ \E v \in Names, union \in BOOLEAN : Release(i, v, union)
               \/ \E p \in Paths, v \in Names : Extract(i, p, v)
               \/ ReleaseToNone(i)
               \/ \E expected \in {"owned", "release", ""} : Call(i, expected)
<1>1. i = 0 \/ i \in Ids
  BY Basics DEF IInv
<1>2. 0 \notin Ids
  BY Basics DEF IInv
<1>3. ASSUME NEW v \in Names, Yield(i, v) PROVE Looks \/ (i \in Ids /\ Owned(i))
  <2>1. CASE i = 0
    BY <1>3, <2>1 DEF Yield, Report, Looks, Kinds
  <2>2. CASE i # 0 /\ ~Owned(i)
    BY <1>3, <2>2 DEF Yield, Owned, Report, TakeError, Looks, Kinds
  <2>3. QED BY <1>1, <2>1, <2>2
<1>4. ASSUME ReleaseRefused(i) PROVE Looks
  BY <1>4 DEF ReleaseRefused, Report, Looks, Kinds
<1>5. ASSUME NEW p \in Paths, ExtractRefused(i, p) PROVE Looks
  BY <1>5 DEF ExtractRefused, Report, Looks, Kinds
<1>6. ASSUME NEW access, Access(i, access) PROVE Looks
  BY <1>6 DEF Access, AccessError, Looks, Kinds
<1>7. ASSUME NEW v \in Names, NEW union \in BOOLEAN, Release(i, v, union) PROVE i \in Ids
  BY <1>1, <1>7 DEF Release
<1>8. ASSUME NEW p \in Paths, NEW v \in Names, Extract(i, p, v) PROVE i \in Ids
  BY <1>1, <1>8 DEF Extract
<1>9. ReleaseToNone(i) => i \in Ids
  BY <1>1 DEF ReleaseToNone
<1>10. ASSUME NEW expected, Call(i, expected) PROVE i \in Ids
  BY <1>1, <1>10 DEF Call
<1>11. QED
  BY <1>3, <1>4, <1>5, <1>6, <1>7, <1>8, <1>9, <1>10, Zenon DEF Statement

LEMMA NextCases ==
  ASSUME IInv, [Next]_vars
  PROVE  \/ Looks
         \/ \E v \in Names, kind \in LetKinds, p \in Paths \union {NoPath} : Let(v, kind, p)
         \/ \E i \in Ids :
              \/ Owned(i) /\ \E v \in Names : Yield(i, v)
              \/ \E v \in Names, union \in BOOLEAN : Release(i, v, union)
              \/ \E p \in Paths, v \in Names : Extract(i, p, v)
              \/ ReleaseToNone(i)
              \/ \E expected \in {"owned", "release", ""} : Call(i, expected)
         \/ EnterScope \/ ExitScope
<1>1. CASE UNCHANGED vars
  BY <1>1 DEF vars, Looks, IInv, Typing, ScopesOK
<1>2. ASSUME NEW name \in NameSet, NEW i \in 0 .. Len(objects), Statement(i)
      PROVE  \/ Looks
             \/ /\ i \in Ids
                /\ \/ Owned(i) /\ \E v \in Names : Yield(i, v)
                   \/ \E v \in Names, union \in BOOLEAN : Release(i, v, union)
                   \/ \E p \in Paths, v \in Names : Extract(i, p, v)
                   \/ ReleaseToNone(i)
                   \/ \E expected \in {"owned", "release", ""} : Call(i, expected)
  BY <1>2, StatementCases
<1>3. CASE Next
  BY <1>2, <1>3, Zenon DEF Next
<1>4. QED BY <1>1, <1>3

LEMMA NextIInv == ASSUME IInv, [Next]_vars PROVE IInv'
<1>1. CASE Looks
  BY <1>1, LooksIInv
<1>2. ASSUME NEW v \in Names, NEW kind \in LetKinds, NEW p \in Paths \union {NoPath}, Let(v, kind, p)
      PROVE  IInv'
  BY <1>2, LetEffect, Recorded
<1>3. ASSUME NEW i \in Ids, Owned(i), NEW v \in Names, Yield(i, v) PROVE IInv'
  <2> DEFINE n == Len(objects) + 1
  <2>1. /\ Grows /\ Ids' = Ids \union {n} /\ n \notin Ids
        /\ scopeObjects' = [scopeObjects EXCEPT ![depth] = @ \union {n}]
        /\ UNCHANGED <<depth, edges>> /\ errors' = {}
    BY <1>3, YieldEffect
  <2>2. {n} = Ids' \ Ids
    BY <2>1
  <2>3. QED BY <2>1, <2>2, Recorded
<1>4. ASSUME NEW i \in Ids, NEW v \in Names, NEW union \in BOOLEAN, Release(i, v, union) PROVE IInv'
  <2>1. /\ Grows /\ \A j \in Ids' : j \notin Ids => objects'[j].state # "Owned"
        /\ SharedIsReadOnly' /\ ScopesOK' /\ UNCHANGED depth
        /\ \A s \in 0 .. depth : scopeObjects[s] \subseteq scopeObjects'[s]
    BY <1>4, ReleaseEffect
  <2>2. OwnersListed'
    BY <2>1, ListedStays
  <2>3. QED BY <2>1, <2>2, GrownOK DEF IInv, Typing
<1>5. ASSUME NEW i \in Ids, NEW p \in Paths, NEW v \in Names, Extract(i, p, v) PROVE IInv'
  <2> DEFINE n == Len(objects) + 1
  <2>1. /\ Grows /\ Ids' = Ids \union {n} /\ n \notin Ids
        /\ scopeObjects' = [scopeObjects EXCEPT ![depth] = @ \union {n}]
        /\ UNCHANGED <<depth, edges>> /\ errors' = {}
    BY <1>5, ExtractEffect
  <2>2. {n} = Ids' \ Ids
    BY <2>1
  <2>3. QED BY <2>1, <2>2, Recorded
<1>6. ASSUME NEW i \in Ids, ReleaseToNone(i) PROVE IInv'
  <2>1. Grows /\ Ids' = Ids /\ errors' = {} /\ UNCHANGED <<depth, scopeObjects, edges>>
    BY <1>6, ReleaseToNoneEffect
  <2>2. QED BY <2>1, Unrecorded
<1>7. ASSUME NEW i \in Ids, NEW expected, Call(i, expected) PROVE IInv'
  <2>1. Grows /\ Ids' = Ids /\ errors' \subseteq Kinds /\ UNCHANGED <<depth, scopeObjects, edges>>
    BY <1>7, CallEffect
  <2>2. QED BY <2>1, Unrecorded
<1>8. CASE EnterScope
  BY <1>8, EnterIInv
<1>9. CASE ExitScope
  BY <1>9, ExitIInv
<1>10. QED BY NextCases, <1>1, <1>2, <1>3, <1>4, <1>5, <1>6, <1>7, <1>8, <1>9, Zenon

-----------------------------------------------------------------------------
(* Owners of values, in programs that extract from composite values only.  *)

LEMMA Lengthened ==
  ASSUME NEW s \in Values, s # << >>, NEW p \in Paths
  PROVE  /\ Append(s, p) \in Values /\ Append(s, p)[1] = s[1]
         /\ Len(Append(s, p)) = Len(s) + 1 /\ Len(s) \in Nat \ {0}
<1>1. s \in Seq(Nat \union Paths) /\ p \in Nat \union Paths
  BY DEF Values
<1>2. Len(s) \in Nat \ {0}
  BY <1>1, EmptySeq
<1>3. 1 \in 1 .. Len(s)
  BY <1>2
<1>4. QED BY <1>1, <1>2, <1>3, AppendProperties DEF Values

LEMMA SameEnds ==
  ASSUME NEW s \in Values, NEW t \in Values, NEW p \in Paths, NEW q \in Paths, Append(s, p) = Append(t, q)
  PROVE  s = t /\ p = q
<1>1. s \in Seq(Nat \union Paths) /\ t \in Seq(Nat \union Paths) /\ p \in Nat \union Paths /\ q \in Nat \union Paths
  BY DEF Values
<1>2. QED BY <1>1, AppendInjective

LEMMA ValueOf ==
  ASSUME IInv, NEW i \in Ids
  PROVE  objects[i].value \in Values /\ objects[i].value # << >> /\ objects[i].value[1] \in Ids
BY Basics DEF IInv, ValuesRooted

LEMMA LetOwners ==
  ASSUME UInv, NEW v \in Names, NEW kind \in LetKinds, NEW path \in Paths \union {NoPath},
         Let(v, kind, path)
  PROVE  OneOwner' /\ PartsTaken'
<1> DEFINE n == Len(objects) + 1
<1>0. IInv /\ Len(objects) \in Nat /\ Ids = 1 .. Len(objects)
  BY Basics DEF UInv, IInv
<1>1. /\ \A j \in Ids : objects'[j] = objects[j]
      /\ Ids' = Ids \union {n} \union (IF path = NoPath THEN {} ELSE {n + 1})
      /\ n \notin Ids /\ n + 1 \notin Ids
      /\ objects'[n].value = <<n>>
      /\ path # NoPath => /\ objects'[n].children[path] = n + 1
                          /\ objects'[n + 1].value = <<n, path>>
                          /\ ~objects'[n + 1].composite
  BY <1>0, LetEffect
<1>2. \A j \in Ids : objects'[j].value # << >> /\ objects'[j].value \in Values /\ objects'[j].value[1] \in Ids
  BY <1>0, <1>1, ValueOf
<1>3. ASSUME NEW j \in Ids', j \notin Ids
      PROVE  /\ objects'[j].value \in Values /\ objects'[j].value # << >> /\ objects'[j].value[1] = n
             /\ j = n \/ (j = n + 1 /\ path # NoPath)
             /\ Len(objects'[j].value) = IF j = n THEN 1 ELSE 2
  <2>1. CASE j = n
    <3>1. <<n>> \in Values /\ <<n>> # << >> /\ <<n>>[1] = n /\ Len(<<n>>) = 1
      BY <1>0 DEF Values
    <3>2. QED BY <1>1, <2>1, <3>1
  <2>2. CASE j = n + 1 /\ path # NoPath
    <3>1. <<n, path>> \in Values /\ <<n, path>> # << >> /\ <<n, path>>[1] = n /\ Len(<<n, path>>) = 2
      BY <1>0, <2>2 DEF Values
    <3>2. n + 1 # n
      BY <1>0
    <3>3. QED BY <1>1, <2>2, <3>1, <3>2
  <2>3. QED BY <1>1, <1>3, <2>1, <2>2
<1>4. OneOwner'
  <2> SUFFICES ASSUME NEW i \in Ids', NEW j \in Ids', objects'[i].state = "Owned", objects'[j].state = "Owned",
                      objects'[i].value = objects'[j].value
               PROVE  i = j
    BY DEF OneOwner, Owned
  <2>1. CASE i \in Ids /\ j \in Ids
    BY <1>1, <2>1 DEF UInv, OneOwner, Owned
  <2>2. CASE (i \in Ids) # (j \in Ids)
    BY <1>1, <1>2, <1>3, <2>2
  <2>3. CASE i \notin Ids /\ j \notin Ids
    BY <1>3, <2>3
  <2>4. QED BY <2>1, <2>2, <2>3
<1>5. PartsTaken'
  <2> SUFFICES ASSUME NEW i \in Ids', NEW j \in Ids', NEW p \in Paths,
                      objects'[i].state = "Owned", objects'[i].composite, objects'[j].state = "Owned",
                      objects'[j].value = Append(objects'[i].value, p)
               PROVE  \/ objects'[i].children[p] = Hollow
                      \/ /\ objects'[i].children[p] \in Ids'
                         /\ \/ objects'[i].children[p] = j
                            \/ objects'[objects'[i].children[p]].state \in {"Extracted", "Moved"}
    BY DEF PartsTaken, Owned, Child, Gone
  <2>1. /\ objects'[j].value[1] = objects'[i].value[1]
        /\ Len(objects'[j].value) = Len(objects'[i].value) + 1
    BY <1>2, <1>3, Lengthened
  <2>2. CASE i \in Ids /\ j \in Ids
    <3>1. \/ Child(i, p) = Hollow
          \/ Child(i, p) \in Ids /\ (Child(i, p) = j \/ Gone(Child(i, p)))
      BY <1>1, <2>2, ZenonT(30) DEF UInv, PartsTaken, Owned
    <3>2. QED BY <1>1, <2>2, <3>1 DEF Child, Gone
  <2>3. CASE (i \in Ids) # (j \in Ids)
    BY <1>1, <1>2, <1>3, <2>1, <2>3
  <2>4. CASE i \notin Ids /\ j \notin Ids
    <3>1. i = n /\ j = n + 1 /\ path # NoPath
      BY <1>1, <1>3, <2>1, <2>4
    <3>2. <<n, path>> = Append(<<n>>, p)
      BY <1>1, <3>1
    <3>3. <<n>> \in Values /\ path \in Paths
      BY <1>0, <3>1 DEF Values
    <3>4. Append(<<n>>, path) = <<n, path>>
      <4>1. <<n>> \in Seq(Nat \union Paths) /\ path \in Nat \union Paths
        BY <3>3 DEF Values
      <4>2. /\ Append(<<n>>, path) \in Seq(Nat \union Paths) /\ Len(Append(<<n>>, path)) = 2
            /\ Append(<<n>>, path)[1] = n /\ Append(<<n>>, path)[2] = path
        BY <4>1, AppendProperties
      <4>3. /\ <<n, path>> \in Seq(Nat \union Paths) /\ Len(<<n, path>>) = 2
            /\ <<n, path>>[1] = n /\ <<n, path>>[2] = path
        BY <1>0, <3>3
      <4> DEFINE one == Append(<<n>>, path)
                 two == <<n, path>>
      <4>4. Len(one) = Len(two) /\ \A k \in 1 .. Len(one) : one[k] = two[k]
        BY <4>2, <4>3
      <4>5. one \in Seq(Nat \union Paths) /\ two \in Seq(Nat \union Paths)
        BY <4>2, <4>3
      <4> HIDE DEF one, two
      <4>6. one = two
        BY <4>4, <4>5, SeqEqual
      <4>7. QED BY <4>6 DEF one, two
    <3>5. p = path
      BY <3>2, <3>3, <3>4, SameEnds
    <3>6. QED BY <1>1, <3>1, <3>5
  <2>5. QED BY <2>2, <2>3, <2>4
<1>6. QED BY <1>4, <1>5

LEMMA YieldOwners ==
  ASSUME UInv, NEW i \in Ids, NEW v \in Names, Owned(i), Yield(i, v)
  PROVE  OneOwner' /\ PartsTaken'
<1> DEFINE n == Len(objects) + 1
           Source(j) == IF j = n THEN i ELSE j
<1>1. /\ Grows /\ Ids' = Ids \union {n} /\ n \notin Ids
      /\ objects'[i].state = "Moved"
      /\ \A j \in Ids : j # i => objects'[j] = objects[j]
      /\ objects'[n].state = "Owned" /\ objects'[n].value = objects[i].value
      /\ objects'[n].composite = objects[i].composite
      /\ objects[i].composite => objects'[n].children = objects[i].children
  BY YieldEffect DEF UInv
<1>2. ASSUME NEW j \in Ids', objects'[j].state = "Owned"
      PROVE  /\ j # i /\ Source(j) \in Ids /\ Owned(Source(j))
             /\ objects'[j].value = objects[Source(j)].value
             /\ objects'[j].composite = objects[Source(j)].composite
             /\ objects'[j].composite => objects'[j].children = objects[Source(j)].children
  <2>1. CASE j = n
    BY <1>1, <2>1
  <2>2. CASE j # n
    BY <1>1, <1>2, <2>2 DEF Owned
  <2>3. QED BY <2>1, <2>2
<1>3. OneOwner'
  <2> SUFFICES ASSUME NEW a \in Ids', NEW b \in Ids', objects'[a].state = "Owned", objects'[b].state = "Owned",
                      objects'[a].value = objects'[b].value
               PROVE  a = b
    BY DEF OneOwner, Owned
  <2>1. Source(a) = Source(b)
    BY <1>2 DEF UInv, OneOwner
  <2>2. QED BY <1>1, <1>2, <2>1
<1>4. PartsTaken'
  <2> SUFFICES ASSUME NEW a \in Ids', NEW b \in Ids', NEW p \in Paths,
                      objects'[a].state = "Owned", objects'[a].composite, objects'[b].state = "Owned",
                      objects'[b].value = Append(objects'[a].value, p)
               PROVE  \/ objects'[a].children[p] = Hollow
                      \/ /\ objects'[a].children[p] \in Ids'
                         /\ \/ objects'[a].children[p] = b
                            \/ objects'[objects'[a].children[p]].state \in {"Extracted", "Moved"}
    BY DEF PartsTaken, Owned, Child, Gone
  <2> DEFINE c == objects[Source(a)].children[p]
  <2>1. c = objects'[a].children[p]
    BY <1>2
  <2>2. c = Hollow \/ (c \in Ids /\ (c = Source(b) \/ Gone(c)))
    <3> DEFINE s == Source(a)
               t == Source(b)
    <3>1. /\ s \in Ids /\ t \in Ids /\ Owned(s) /\ Owned(t) /\ objects[s].composite
          /\ objects[t].value = Append(objects[s].value, p)
      BY <1>2
    <3> HIDE DEF s, t
    <3>2. Child(s, p) = Hollow \/ (Child(s, p) \in Ids /\ (Child(s, p) = t \/ Gone(Child(s, p))))
      BY <3>1 DEF UInv, PartsTaken
    <3>3. QED BY <3>2 DEF Child, s, t
  <2>3. c \in Ids /\ Gone(c) => objects'[c].state \in {"Extracted", "Moved"}
    BY <1>1 DEF Grows, Old
  <2>4. c = Source(b) => c = b \/ objects'[c].state = "Moved"
    BY <1>1, <1>2
  <2>5. QED BY <1>1, <2>1, <2>2, <2>3, <2>4
<1>5. QED BY <1>3, <1>4

LEMMA ExtractOwners ==
  ASSUME Typed, UInv, NEW i \in Ids, NEW p \in Paths, NEW v \in Names, Extract(i, p, v)
  PROVE  OneOwner' /\ PartsTaken'
<1> DEFINE n == Len(objects) + 1
           c == Child(i, p)
<1>1. /\ Grows /\ Ids' = Ids \union {n} /\ n \notin Ids
      /\ Owned(i) /\ objects[i].composite /\ c \in {Absent} \union Ids
      /\ objects'[i].children[p] = Hollow
      /\ c \in Ids => ~Gone(c) /\ objects'[c].state = "Extracted"
      /\ objects'[n].value = Append(objects[i].value, p) /\ ~objects'[n].composite
  BY ExtractEffect DEF UInv
<1>2. ASSUME NEW k \in Ids, objects'[k].state = "Owned"
      PROVE  Owned(k) /\ objects'[k].value = objects[k].value /\ objects'[k].composite = objects[k].composite
  BY <1>1, <1>2 DEF Grows, Old
<1>3. ASSUME NEW k \in Ids, objects'[k].state = "Owned", objects[k].value = Append(objects[i].value, p)
      PROVE  FALSE
  <2>1. c = Hollow \/ (c \in Ids /\ (c = k \/ Gone(c)))
    BY <1>1, <1>2, <1>3 DEF UInv, PartsTaken
  <2>2. c # Hollow
    BY <1>1, Basics DEF UInv, IInv, Hollow, Absent
  <2>3. QED BY <1>1, <1>3, <2>1, <2>2
<1>4. OneOwner'
  <2> SUFFICES ASSUME NEW a \in Ids', NEW b \in Ids', objects'[a].state = "Owned", objects'[b].state = "Owned",
                      objects'[a].value = objects'[b].value
               PROVE  a = b
    BY DEF OneOwner, Owned
  <2>1. CASE a \in Ids /\ b \in Ids
    BY <1>2, <2>1 DEF UInv, OneOwner
  <2>2. CASE a \in Ids /\ b = n
    BY <1>1, <1>2, <1>3, <2>2
  <2>3. CASE a = n /\ b \in Ids
    BY <1>1, <1>2, <1>3, <2>3
  <2>4. QED BY <1>1, <2>1, <2>2, <2>3
<1>5. PartsTaken'
  <2> SUFFICES ASSUME NEW a \in Ids', NEW b \in Ids', NEW q \in Paths,
                      objects'[a].state = "Owned", objects'[a].composite, objects'[b].state = "Owned",
                      objects'[b].value = Append(objects'[a].value, q)
               PROVE  \/ objects'[a].children[q] = Hollow
                      \/ /\ objects'[a].children[q] \in Ids'
                         /\ \/ objects'[a].children[q] = b
                            \/ objects'[objects'[a].children[q]].state \in {"Extracted", "Moved"}
    BY DEF PartsTaken, Owned, Child, Gone
  <2>1. a \in Ids /\ Owned(a) /\ objects'[a].value = objects[a].value /\ objects[a].composite
    BY <1>1, <1>2
  <2>2. CASE b = n
    <3>1. Append(objects[i].value, p) = Append(objects[a].value, q)
      BY <1>1, <2>1, <2>2
    <3>2. objects[i].value = objects[a].value /\ p = q
      BY <2>1, <3>1, SameEnds, ValueOf, SMTT(20) DEF UInv
    <3>3. a = i
      BY <1>1, <2>1, <3>2 DEF UInv, OneOwner
    <3>4. QED BY <1>1, <3>2, <3>3
  <2>3. CASE b \in Ids
    <3> DEFINE d == Child(a, q)
    <3>1. d = Hollow \/ (d \in Ids /\ (d = b \/ Gone(d)))
      BY <1>2, <2>1, <2>3 DEF UInv, PartsTaken
    <3>2. objects'[a].children[q] \in {d, Hollow}
      BY <1>1, <2>1 DEF Grows, Old, Child
    <3>3. d \in Ids /\ Gone(d) => objects'[d].state \in {"Extracted", "Moved"}
      BY <1>1 DEF Grows, Old
    <3>4. QED BY <1>1, <3>1, <3>2, <3>3
  <2>4. QED BY <1>1, <2>2, <2>3
<1>6. QED BY <1>4, <1>5

LEMMA NextUInv == ASSUME Typed, UInv, [Next]_vars PROVE UInv'
<1>1. IInv'
  BY NextIInv DEF UInv
<1>2. ASSUME Grows, \A j \in Ids' : j \notin Ids => objects'[j].state # "Owned"
      PROVE  OneOwner' /\ PartsTaken'
  BY <1>2, NoNewOwner DEF UInv, IInv, Ids
<1>3. Looks => Grows /\ Ids' = Ids
  BY LooksIInv DEF UInv
<1>4. EnterScope => Grows /\ Ids' = Ids
  <2> SUFFICES ASSUME EnterScope PROVE Grows /\ Ids' = Ids
    OBVIOUS
  <2>1. objects' = objects /\ Ids' = Ids
    BY DEF EnterScope, Ids
  <2>2. \A j \in Ids : Old(j)
    BY <2>1, Same DEF UInv, IInv
  <2>3. objects' \in Seq(Objects) /\ Len(objects') >= Len(objects) /\ Ids = 1 .. Len(objects')
    BY <2>1, Basics DEF UInv, IInv, Typing, ObjectsOK
  <2>4. QED BY <2>1, <2>2, <2>3 DEF Grows
<1>5. ExitScope => Grows /\ Ids' = Ids
  BY ExitEffect DEF UInv
<1>6. ASSUME NEW i \in Ids, ReleaseToNone(i) PROVE Grows /\ Ids' = Ids
  BY <1>6, ReleaseToNoneEffect DEF UInv
<1>7. ASSUME NEW i \in Ids, NEW expected, Call(i, expected) PROVE Grows /\ Ids' = Ids
  BY <1>7, CallEffect DEF UInv
<1>8. ASSUME Grows, Ids' = Ids PROVE OneOwner' /\ PartsTaken'
  BY <1>2, <1>8
<1>9. ASSUME NEW i \in Ids, NEW v \in Names, NEW union \in BOOLEAN, Release(i, v, union)
      PROVE  OneOwner' /\ PartsTaken'
  BY <1>2, <1>9, ReleaseEffect DEF UInv
<1>10. ASSUME NEW v \in Names, NEW kind \in LetKinds, NEW p \in Paths \union {NoPath}, Let(v, kind, p)
       PROVE  OneOwner' /\ PartsTaken'
  BY <1>10, LetOwners
<1>11. ASSUME NEW i \in Ids, Owned(i), NEW v \in Names, Yield(i, v) PROVE OneOwner' /\ PartsTaken'
  BY <1>11, YieldOwners
<1>12. ASSUME NEW i \in Ids, NEW p \in Paths, NEW v \in Names, Extract(i, p, v) PROVE OneOwner' /\ PartsTaken'
  BY <1>12, ExtractOwners
<1>13. IInv
  BY DEF UInv
<1>14. OneOwner' /\ PartsTaken'
  BY <1>3, <1>4, <1>5, <1>6, <1>7, <1>8, <1>9, <1>10, <1>11, <1>12, <1>13, NextCases, Zenon
<1>15. QED BY <1>1, <1>14 DEF UInv

-----------------------------------------------------------------------------
(* Resources.                                                              *)

(* The body of the property: how an owned resource goes on.                *)
Continues(i) ==
  \/ \E j \in Ids' : /\ objects'[j].state = "Owned" /\ objects'[j].resource
                     /\ objects'[j].value = objects[i].value
  \/ "ResourceLeak" \in errors'
  \/ \E k \in Ids :
       \/ \E v \in Names, union \in BOOLEAN : Release(k, v, union)
       \/ ReleaseToNone(k)
       \/ Call(k, "owned")

LEMMA StaysOwner ==
  ASSUME NEW i \in Ids, Ids \subseteq Ids', Old(i), objects'[i].state = "Owned", objects[i].resource
  PROVE  Continues(i)
BY DEF Old, Continues

LEMMA ResourceStep ==
  ASSUME IInv, [Next]_vars, NEW i \in Ids, Owned(i), objects[i].resource
  PROVE  Continues(i)
<1>1. ASSUME Grows, objects'[i].state = "Owned" PROVE Continues(i)
  <2>1. Old(i) /\ Ids \subseteq Ids'
    BY <1>1, Basics, LenProperties DEF Grows, IInv, Ids
  <2>2. QED BY <1>1, <2>1, StaysOwner
<1>2. CASE Looks
  BY <1>1, <1>2, LooksIInv DEF Looks, Owned
<1>3. ASSUME NEW v \in Names, NEW kind \in LetKinds, NEW p \in Paths \union {NoPath}, Let(v, kind, p)
      PROVE  Continues(i)
  BY <1>1, <1>3, LetEffect DEF Owned
<1>4. ASSUME NEW k \in Ids, Owned(k), NEW v \in Names, Yield(k, v) PROVE Continues(i)
  <2> DEFINE n == Len(objects) + 1
  <2>1. /\ Grows /\ n \in Ids'
        /\ \A j \in Ids : j # k => objects'[j] = objects[j]
        /\ objects'[n].state = "Owned" /\ objects'[n].value = objects[k].value
        /\ objects'[n].resource = objects[k].resource
    BY <1>4, YieldEffect
  <2>2. CASE i = k
    BY <2>1, <2>2 DEF Continues
  <2>3. CASE i # k
    BY <1>1, <2>1, <2>3 DEF Owned
  <2>4. QED BY <2>2, <2>3
<1>5. ASSUME NEW k \in Ids, NEW p \in Paths, NEW v \in Names, Extract(k, p, v) PROVE Continues(i)
  <2>1. /\ Grows /\ objects'[k].state = "Owned"
        /\ Child(k, p) \in Ids => ~objects[Child(k, p)].resource
        /\ \A j \in Ids : j \notin {k, Child(k, p)} => objects'[j] = objects[j]
    BY <1>5, ExtractEffect
  <2>2. i # Child(k, p)
    BY <2>1
  <2>3. objects'[i].state = "Owned"
    BY <2>1, <2>2 DEF Owned
  <2>4. QED BY <1>1, <2>1, <2>3
<1>6. ASSUME NEW k \in Ids, NEW v \in Names, NEW union \in BOOLEAN, Release(k, v, union) PROVE Continues(i)
  BY <1>6 DEF Continues
<1>7. ASSUME NEW k \in Ids, ReleaseToNone(k) PROVE Continues(i)
  BY <1>7 DEF Continues
<1>8. ASSUME NEW k \in Ids, NEW expected, Call(k, expected) PROVE Continues(i)
  <2>1. CASE expected = "owned"
    BY <1>8, <2>1 DEF Continues
  <2>2. CASE expected # "owned"
    <3>1. Grows /\ objects' = objects
      BY <1>8, <2>2, CallEffect
    <3>2. QED BY <1>1, <3>1 DEF Owned
  <2>3. QED BY <2>1, <2>2
<1>9. CASE EnterScope
  <2>1. objects' = objects /\ Ids' = Ids
    BY <1>9 DEF EnterScope, Ids
  <2>2. Old(i)
    BY <2>1, Same DEF IInv
  <2>3. QED BY <2>1, <2>2, StaysOwner DEF Owned
<1>10. CASE ExitScope
  <2>1. /\ Grows
        /\ \A j \in Ids : IF j \in Dying THEN objects'[j].state = "Moved" ELSE objects'[j] = objects[j]
    BY <1>10, ExitEffect
  <2>2. CASE i \in Dying
    <3>1. errors' = IF \E j \in Dying : objects[j].resource THEN {"ResourceLeak"} ELSE {}
      BY <1>10 DEF ExitScope
    <3>2. "ResourceLeak" \in errors'
      BY <2>2, <3>1
    <3>3. QED BY <3>2 DEF Continues
  <2>3. CASE i \notin Dying
    BY <1>1, <2>1, <2>3 DEF Owned
  <2>4. QED BY <2>2, <2>3
<1>11. QED BY NextCases, <1>2, <1>3, <1>4, <1>5, <1>6, <1>7, <1>8, <1>9, <1>10, Zenon

-----------------------------------------------------------------------------
(* The results.                                                            *)

THEOREM Invariance == Spec => []IInv
<1>1. Init => IInv
  BY InitIInv DEF UInv
<1>2. IInv /\ [Next]_vars => IInv'
  BY NextIInv
<1>3. QED BY <1>1, <1>2, PTL DEF Spec

(* Every object the tracker knows is well-formed, in whatever program      *)
(* (ownership.go).                                                         *)
THEOREM TrackerTypeOK == Spec => []TypeOK
<1>1. IInv => TypeOK
  BY TypingIsTypeOK DEF IInv
<1>2. QED BY <1>1, Invariance, PTL

(* In programs that extract from composite values only, no sequence of     *)
(* declarations, yields, releases, extracts and calls, under reused names  *)
(* and reused scope numbers, gives a value two owners, and every owner is  *)
(* listed in an open scope (ownership.go:263).                             *)
THEOREM OwnersUnique == Typed => (Spec => []UniqueOwner)
<1> SUFFICES ASSUME Typed PROVE Spec => []UniqueOwner
  OBVIOUS
<1>1. Init => UInv
  BY InitIInv
<1>2. UInv /\ [Next]_vars => UInv'
  BY NextUInv
<1>3. UInv => UniqueOwner
  BY DEF UInv, IInv, OneOwner, OwnersListed, UniqueOwner
<1>4. QED BY <1>1, <1>2, <1>3, PTL DEF Spec

(* What was released, and what holds a release, owns nothing any more      *)
(* (ownership.go:327).                                                     *)
THEOREM SharedHasNoOwner == Spec => []SharedIsReadOnly
<1>1. IInv => SharedIsReadOnly
  BY DEF IInv
<1>2. QED BY <1>1, Invariance, PTL

(* An owned resource goes on as one, in this object or the next, or its    *)
(* leak is reported, or the program released it or passed it to a call     *)
(* that owns it (ownership.go:165, :258).                                  *)
THEOREM ResourcesAccounted == Spec => ResourcesKept
<1>1. IInv /\ [Next]_vars =>
        [\A i \in Ids : Owned(i) /\ objects[i].resource =>
           \/ \E j \in Ids' : /\ objects'[j].state = "Owned" /\ objects'[j].resource
                              /\ objects'[j].value = objects[i].value
           \/ "ResourceLeak" \in errors'
           \/ \E k \in Ids :
                \/ \E v \in Names, union \in BOOLEAN : Release(k, v, union)
                \/ ReleaseToNone(k)
                \/ Call(k, "owned")]_vars
  BY ResourceStep DEF Continues
<1>2. QED BY <1>1, Invariance, PTL DEF Spec, ResourcesKept

-----------------------------------------------------------------------------
(* The memory of a function: module Reclaim, as R.                          *)

Variables == Names \cup Params
Ops == {"let", "yield", "release", "pass", "return", "if", "end"}
Texts == [op : Ops, of : Variables \cup {NoPath}, to : Variables \cup R!InitKinds \cup {NoPath}]

(* What the definitions of Reclaim say of the text c, as operators on c.    *)
Is(c, k, op) == c[k].op = op
Before(c, k, op) == {j \in 1 .. k - 1 : Is(c, j, op)}
Nesting(c, k) == 1 + Cardinality(Before(c, k, "if")) - Cardinality(Before(c, k, "end"))
LetAt(c, j, v) == Is(c, j, "let") /\ c[j].of = v
Known(c) == Params \cup {v \in Names : \E j \in 1 .. Len(c) : LetAt(c, j, v)}
Home(c, v) == IF v \in Params THEN 1 ELSE Nesting(c, CHOOSE j \in 1 .. Len(c) : LetAt(c, j, v))
PassedAt(c, k, v) == Is(c, k, "pass") /\ c[k].of = v
YieldedIn(c, v) == \E k \in 1 .. Len(c) : Is(c, k, "yield") /\ c[k].of = v
PassedIn(c, v) == \E k \in 1 .. Len(c) : PassedAt(c, k, v)
Careful(c) ==
  \A k \in 1 .. Len(c) :
    /\ ~Is(c, k, "release")
    /\ Is(c, k, "let") => c[k].to \notin Variables
    /\ Is(c, k, "pass") => \A j \in k + 1 .. Len(c) : c[j].of # c[k].of

(* A text the program can have: blocks nest, a name is declared once and    *)
(* before its use.                                                          *)
WellFormed(c) ==
  /\ c \in Seq(Texts)
  /\ \A k \in 1 .. Len(c) + 1 : Nesting(c, k) \in Nat \ {0}
  /\ \A v \in Names, i, j \in 1 .. Len(c) : LetAt(c, i, v) /\ LetAt(c, j, v) => i = j
  /\ \A k \in 1 .. Len(c) :
       /\ Is(c, k, "let") => c[k].of \in Names
       /\ Is(c, k, "yield") => c[k].of \in Known(c) /\ c[k].to \in Known(c) /\ c[k].of # c[k].to
       /\ Is(c, k, "release") => c[k].of \in Known(c) /\ c[k].to \in Known(c)
       /\ Is(c, k, "pass") \/ Is(c, k, "return") => c[k].of \in Known(c)
Closed(c) == Nesting(c, Len(c) + 1) = 1

-----------------------------------------------------------------------------
(* The depth of statements.                                                 *)

LEMMA Sizes == \A S : R!Cardinality(S) = Cardinality(S) /\ R!IsFiniteSet(S) = IsFiniteSet(S)
BY DEF R!Cardinality, Cardinality, R!IsFiniteSet, IsFiniteSet

LEMMA NestingIs == \A k : R!DepthAt(k) = Nesting(code, k)
BY Sizes DEF R!DepthAt, R!At, Nesting, Before, Is

LEMMA BeforeIsFinite ==
  ASSUME NEW c, NEW k \in Nat, NEW op
  PROVE  IsFiniteSet(Before(c, k, op)) /\ Cardinality(Before(c, k, op)) \in Nat
<1>1. IsFiniteSet(1 .. k - 1) /\ Before(c, k, op) \subseteq 1 .. k - 1
  BY FS_Interval DEF Before
<1>2. QED BY <1>1, FS_Subset, FS_CardinalityType

LEMMA BeforeNext ==
  ASSUME NEW c, NEW k \in Nat \ {0}, NEW op
  PROVE  Cardinality(Before(c, k + 1, op)) =
           Cardinality(Before(c, k, op)) + (IF Is(c, k, op) THEN 1 ELSE 0)
<1>1. 1 .. k + 1 - 1 = (1 .. k - 1) \cup {k} /\ k \notin 1 .. k - 1
  OBVIOUS
<1>2. IsFiniteSet(Before(c, k, op)) /\ Cardinality(Before(c, k, op)) \in Nat
  BY BeforeIsFinite
<1>3. CASE Is(c, k, op)
  <2>1. Before(c, k + 1, op) = Before(c, k, op) \cup {k} /\ k \notin Before(c, k, op)
    BY <1>1, <1>3 DEF Before
  <2>2. QED BY <1>2, <1>3, <2>1, FS_AddElement
<1>4. CASE ~Is(c, k, op)
  <2>1. Before(c, k + 1, op) = Before(c, k, op)
    BY <1>1, <1>4 DEF Before
  <2>2. QED BY <1>2, <1>4, <2>1
<1>5. QED BY <1>3, <1>4

LEMMA NestingNext ==
  ASSUME NEW c, NEW k \in Nat \ {0}
  PROVE  /\ Nesting(c, k) \in Int /\ Nesting(c, k + 1) \in Int
         /\ Is(c, k, "if") => Nesting(c, k + 1) = Nesting(c, k) + 1
         /\ Is(c, k, "end") => Nesting(c, k + 1) = Nesting(c, k) - 1
         /\ ~Is(c, k, "if") /\ ~Is(c, k, "end") => Nesting(c, k + 1) = Nesting(c, k)
<1>1. ~(Is(c, k, "if") /\ Is(c, k, "end"))
  BY DEF Is
<1>2. k \in Nat /\ k + 1 \in Nat
  OBVIOUS
<1>3. PICK a, b, d, e : /\ a = Cardinality(Before(c, k, "if")) /\ b = Cardinality(Before(c, k, "end"))
                        /\ d = Cardinality(Before(c, k + 1, "if")) /\ e = Cardinality(Before(c, k + 1, "end"))
  OBVIOUS
<1>4. a \in Nat /\ b \in Nat /\ d \in Nat /\ e \in Nat
  BY <1>2, <1>3, BeforeIsFinite
<1>5. d = a + (IF Is(c, k, "if") THEN 1 ELSE 0) /\ e = b + (IF Is(c, k, "end") THEN 1 ELSE 0)
  BY <1>3, BeforeNext
<1>6. Nesting(c, k) = 1 + a - b /\ Nesting(c, k + 1) = 1 + d - e
  BY <1>3 DEF Nesting
<1>7. QED BY <1>1, <1>4, <1>5, <1>6

LEMMA StartIsOutside == \A c : Nesting(c, 1) = 1
<1>1. ASSUME NEW c PROVE Nesting(c, 1) = 1
  <2>1. Before(c, 1, "if") = {} /\ Before(c, 1, "end") = {}
    BY DEF Before
  <2>2. QED BY <2>1, FS_EmptySet DEF Nesting
<1>2. QED BY <1>1

\* A statement that is added leaves those before it where they are.
LEMMA NestingStays ==
  ASSUME NEW c, NEW t, NEW k \in Nat, \A j \in 1 .. k - 1 : c[j].op = t[j].op
  PROVE  Nesting(t, k) = Nesting(c, k)
<1>1. \A op : Before(t, k, op) = Before(c, k, op)
  BY DEF Before, Is
<1>2. QED BY <1>1 DEF Nesting

LEMMA Longer ==
  ASSUME NEW c \in Seq(Texts), NEW s \in Texts
  PROVE  LET t == Append(c, s) IN
           /\ t \in Seq(Texts) /\ Len(t) = Len(c) + 1 /\ Len(c) \in Nat /\ t[Len(c) + 1] = s
           /\ \A k \in 1 .. Len(c) : t[k] = c[k]
           /\ \A k \in 1 .. Len(c) + 1 : Nesting(t, k) = Nesting(c, k)
<1>1. /\ Append(c, s) \in Seq(Texts) /\ Len(Append(c, s)) = Len(c) + 1 /\ Append(c, s)[Len(c) + 1] = s
      /\ \A k \in 1 .. Len(c) : Append(c, s)[k] = c[k]
  BY AppendProperties
<1>2. Len(c) \in Nat
  OBVIOUS
<1>3. ASSUME NEW k \in 1 .. Len(c) + 1 PROVE Nesting(Append(c, s), k) = Nesting(c, k)
  <2>1. \A j \in 1 .. k - 1 : j \in 1 .. Len(c)
    BY <1>2
  <2>2. \A j \in 1 .. k - 1 : c[j].op = Append(c, s)[j].op
    BY <1>1, <2>1
  <2>3. k \in Nat
    BY <1>2
  <2>4. QED BY <2>2, <2>3, NestingStays
<1>4. QED BY <1>1, <1>2, <1>3

(* A set of numbers has a least one.                                        *)
Smaller == {p \in Nat \X Nat : p[1] < p[2]}

LEMMA LeastIs ==
  ASSUME NEW S \in SUBSET Nat, S # {}
  PROVE  \E m \in S : \A k \in S : m <= k
<1>1. IsWellFoundedOn(Smaller, Nat)
  BY NatLessThanWellFounded DEF OpToRel, Smaller
<1>2. PICK m \in S : \A k \in S : ~(<<k, m>> \in Smaller)
  BY <1>1, WFMin
<1>3. ASSUME NEW k \in S PROVE m <= k
  <2>1. m \in Nat /\ k \in Nat /\ <<k, m>> \notin Smaller
    BY <1>2
  <2>2. ~(k < m)
    BY <2>1 DEF Smaller
  <2>3. QED BY <2>1, <2>2
<1>4. QED BY <1>3

(* An if has an end.                                                        *)
EndOf(c, k, e) ==
  /\ Is(c, e, "end") /\ Nesting(c, e) = Nesting(c, k) + 1
  /\ \A i \in k + 1 .. e - 1 : ~(Is(c, i, "end") /\ Nesting(c, i) = Nesting(c, k) + 1)

LEMMA IfHasEnd ==
  ASSUME NEW c, WellFormed(c), Closed(c), NEW k \in 1 .. Len(c), Is(c, k, "if")
  PROVE  \E e \in k .. Len(c) : EndOf(c, k, e)
<1>1. Len(c) \in Nat /\ k \in Nat \ {0}
  BY DEF WellFormed
<1>2. PICK n \in Nat : n = Len(c)
  BY <1>1
<1>3. PICK d \in Nat : d = Nesting(c, k) /\ d >= 1
  BY <1>1 DEF WellFormed
<1>4. Nesting(c, k + 1) = d + 1 /\ Nesting(c, n + 1) = 1
  BY <1>1, <1>2, <1>3, NestingNext DEF Closed
<1> DEFINE S == {i \in k + 1 .. n + 1 : Nesting(c, i) <= d}
           E == {i \in k + 1 .. n : Is(c, i, "end") /\ Nesting(c, i) = d + 1}
<1>5. S \in SUBSET Nat /\ n + 1 \in S
  BY <1>1, <1>2, <1>3, <1>4
<1>6. PICK m \in S : \A i \in S : m <= i
  <2>1. S # {}
    BY <1>5
  <2>2. QED BY <1>5, <2>1, LeastIs
<1>7. m \in k + 2 .. n + 1 /\ Nesting(c, m) <= d
  <2>1. m \in k + 1 .. n + 1 /\ Nesting(c, m) <= d
    BY <1>6
  <2>2. m # k + 1
    BY <1>3, <1>4, <2>1
  <2>3. QED BY <1>1, <2>1, <2>2
<1>8. PICK b : b = m - 1 /\ b \in k + 1 .. n /\ b \in Nat \ {0} /\ b + 1 = m
  BY <1>1, <1>7
<1>9. b \notin S /\ Nesting(c, b) \in Nat /\ Nesting(c, b + 1) \in Nat
  <2>1. ~(m <= b)
    BY <1>7, <1>8
  <2>2. b \in 1 .. Len(c) + 1 /\ b + 1 \in 1 .. Len(c) + 1
    BY <1>1, <1>2, <1>7, <1>8
  <2>3. QED BY <1>6, <2>1, <2>2 DEF WellFormed
<1>10. Nesting(c, b) > d /\ Nesting(c, b + 1) <= d
  <2>1. b \in k + 1 .. n + 1
    BY <1>1, <1>8
  <2>2. ~(Nesting(c, b) <= d)
    BY <1>9, <2>1
  <2>3. QED BY <1>3, <1>7, <1>8, <1>9, <2>2
<1>11. Is(c, b, "end") /\ Nesting(c, b) = d + 1
  <2>1. PICK x, y : x = Nesting(c, b) /\ y = Nesting(c, b + 1) /\ x \in Nat /\ y \in Nat /\ x > d /\ y <= d
    BY <1>9, <1>10
  <2>2. /\ Is(c, b, "if") => y = x + 1
        /\ Is(c, b, "end") => y = x - 1
        /\ ~Is(c, b, "if") /\ ~Is(c, b, "end") => y = x
    BY <1>8, <2>1, NestingNext
  <2>3. QED BY <1>3, <2>1, <2>2
<1>12. E \in SUBSET Nat /\ E # {}
  BY <1>1, <1>8, <1>11
<1>13. PICK e \in E : \A i \in E : e <= i
  BY <1>12, LeastIs
<1>14. e \in k + 1 .. n /\ Is(c, e, "end") /\ Nesting(c, e) = d + 1
  BY <1>13
<1>15. ASSUME NEW i \in k + 1 .. e - 1 PROVE ~(Is(c, i, "end") /\ Nesting(c, i) = d + 1)
  <2>1. i \in k + 1 .. n /\ ~(e <= i)
    BY <1>1, <1>14
  <2>2. QED BY <1>13, <2>1
<1>16. e \in k .. Len(c)
  BY <1>1, <1>2, <1>14
<1>17. QED BY <1>3, <1>14, <1>15, <1>16 DEF EndOf

-----------------------------------------------------------------------------
(* Texts as they are written.                                               *)

LEMMA NamesApart ==
  /\ Names \cap Params = {} /\ NoPath \notin Variables /\ R!Vars = Variables
  /\ Inits \subseteq R!InitKinds /\ IsFiniteSet(Params) /\ FirstId \in Nat \ {0}
BY FunctionAssumption, Sizes DEF R!ReclaimAssumption, R!Vars, Variables

LEMMA KnownGrows ==
  ASSUME NEW c \in Seq(Texts), NEW s \in Texts
  PROVE  Known(c) \subseteq Known(Append(c, s))
<1>1. /\ Len(Append(c, s)) = Len(c) + 1 /\ Len(c) \in Nat
      /\ \A k \in 1 .. Len(c) : Append(c, s)[k] = c[k]
  BY Longer
<1>2. \A k \in 1 .. Len(c) : k \in 1 .. Len(Append(c, s))
  BY <1>1
<1>3. QED BY <1>1, <1>2 DEF Known, LetAt, Is

LEMMA Extends ==
  ASSUME NEW c, WellFormed(c), NEW s \in Texts,
         s.op = "let" => s.of \in Names /\ s.of \notin Known(c),
         s.op = "yield" => s.of \in Known(c) /\ s.to \in Known(c) /\ s.of # s.to,
         s.op = "release" => s.of \in Known(c) /\ s.to \in Known(c),
         s.op \in {"pass", "return"} => s.of \in Known(c),
         s.op = "end" => Nesting(c, Len(c) + 1) > 1
  PROVE  WellFormed(Append(c, s))
<1>1. PICK t : t = Append(c, s)
  OBVIOUS
<1>2. /\ t \in Seq(Texts) /\ Len(t) = Len(c) + 1 /\ Len(c) \in Nat /\ t[Len(c) + 1] = s
      /\ \A k \in 1 .. Len(c) : t[k] = c[k]
      /\ \A k \in 1 .. Len(c) + 1 : Nesting(t, k) = Nesting(c, k)
  BY <1>1, Longer DEF WellFormed
<1>3. PICK n \in Nat : n = Len(c)
  BY <1>2
<1>4. \A k \in 1 .. Len(t) : k \in 1 .. n \/ k = n + 1
  BY <1>2, <1>3
<1>5. Known(c) \subseteq Known(t)
  BY <1>1, KnownGrows DEF WellFormed
<1>6. ASSUME NEW k \in 1 .. Len(t) + 1 PROVE Nesting(t, k) \in Nat \ {0}
  <2>1. CASE k \in 1 .. n + 1
    BY <1>2, <1>3, <2>1 DEF WellFormed
  <2>2. CASE k = n + 2
    <3>1. PICK x, y : x = Nesting(t, n + 1) /\ y = Nesting(t, n + 1 + 1)
      OBVIOUS
    <3>2. x = Nesting(c, n + 1) /\ x \in Nat /\ x >= 1
      BY <1>2, <1>3, <3>1 DEF WellFormed
    <3>3. /\ y \in Int
          /\ Is(t, n + 1, "if") => y = x + 1
          /\ Is(t, n + 1, "end") => y = x - 1
          /\ ~Is(t, n + 1, "if") /\ ~Is(t, n + 1, "end") => y = x
      <4>1. n + 1 \in Nat \ {0}
        OBVIOUS
      <4>2. QED BY <3>1, <4>1, NestingNext
    <3>4. Is(t, n + 1, "end") => x > 1
      BY <1>2, <1>3, <3>2 DEF Is
    <3>5. y \in Nat /\ y >= 1 /\ k = n + 1 + 1
      BY <2>2, <3>2, <3>3, <3>4
    <3>6. QED BY <3>1, <3>5
  <2>3. QED BY <1>2, <1>3, <2>1, <2>2
<1>7. ASSUME NEW v \in Names, NEW i \in 1 .. Len(t), NEW j \in 1 .. Len(t), LetAt(t, i, v), LetAt(t, j, v)
      PROVE  i = j
  <2>1. \A k \in 1 .. n : LetAt(t, k, v) => LetAt(c, k, v) /\ v \in Known(c)
    BY <1>2, <1>3 DEF LetAt, Is, Known
  <2>2. LetAt(t, n + 1, v) => v \notin Known(c)
    BY <1>2, <1>3 DEF LetAt, Is
  <2>3. CASE i \in 1 .. n /\ j \in 1 .. n
    BY <1>3, <1>7, <2>1, <2>3 DEF WellFormed
  <2>4. QED BY <1>4, <1>7, <2>1, <2>2, <2>3
<1>8. ASSUME NEW k \in 1 .. Len(t)
      PROVE  /\ Is(t, k, "let") => t[k].of \in Names
             /\ Is(t, k, "yield") => t[k].of \in Known(t) /\ t[k].to \in Known(t) /\ t[k].of # t[k].to
             /\ Is(t, k, "release") => t[k].of \in Known(t) /\ t[k].to \in Known(t)
             /\ Is(t, k, "pass") \/ Is(t, k, "return") => t[k].of \in Known(t)
  <2>1. CASE k \in 1 .. n
    <3>1. t[k] = c[k] /\ k \in 1 .. Len(c)
      BY <1>2, <1>3, <2>1
    <3>2. QED BY <1>5, <3>1 DEF Is, WellFormed
  <2>2. CASE k = n + 1
    BY <1>2, <1>3, <1>5, <2>2 DEF Is
  <2>3. QED BY <1>4, <2>1, <2>2
<1>9. WellFormed(t)
  BY <1>2, <1>6, <1>7, <1>8 DEF WellFormed
<1>10. QED BY <1>1, <1>9

LEMMA HomeIs ==
  ASSUME NEW c, WellFormed(c)
  PROVE  /\ \A v \in Names, j \in 1 .. Len(c) : LetAt(c, j, v) => Home(c, v) = Nesting(c, j)
         /\ \A v \in Known(c) : Home(c, v) \in Nat /\ Home(c, v) >= 1
         /\ Known(c) \subseteq Variables
<1>1. Known(c) \subseteq Variables
  BY DEF Known, Variables
<1>2. ASSUME NEW v \in Names, NEW j \in 1 .. Len(c), LetAt(c, j, v) PROVE Home(c, v) = Nesting(c, j)
  <2>1. v \notin Params
    BY NamesApart
  <2>2. PICK k : k = (CHOOSE i \in 1 .. Len(c) : LetAt(c, i, v))
    OBVIOUS
  <2>3. k \in 1 .. Len(c) /\ LetAt(c, k, v)
    BY <1>2, <2>2
  <2>4. k = j
    BY <1>2, <2>3 DEF WellFormed
  <2>5. QED BY <2>1, <2>2, <2>4 DEF Home
<1>3. ASSUME NEW v \in Known(c) PROVE Home(c, v) \in Nat /\ Home(c, v) >= 1
  <2>1. CASE v \in Params
    BY <2>1 DEF Home
  <2>2. CASE v \notin Params
    <3>1. PICK j \in 1 .. Len(c) : LetAt(c, j, v) /\ v \in Names
      BY <2>2 DEF Known
    <3>2. Home(c, v) = Nesting(c, j) /\ j \in 1 .. Len(c) + 1
      BY <1>2, <3>1 DEF WellFormed
    <3>3. QED BY <3>2 DEF WellFormed
  <2>3. QED BY <2>1, <2>2
<1>4. QED BY <1>1, <1>2, <1>3

LEMMA DeclDepthIs == \A v : R!DeclDepth(v) = Home(code, v)
BY NestingIs DEF R!DeclDepth, Home, R!Declares, R!At, R!Length, LetAt, Is

LEMMA DeclaredIs == R!Declared = Known(code)
BY DEF R!Declared, Known, R!Declares, R!At, R!Length, LetAt, Is

\* A variable that can be named is at home where it is named, or further out.
LEMMA VisibleIs ==
  ASSUME WellFormed(code), NEW k \in 1 .. Len(code) + 1, NEW v \in R!Visible(k)
  PROVE  v \in Known(code) /\ Home(code, v) <= Nesting(code, k)
<1>1. v \in Known(code)
  BY DeclaredIs DEF R!Visible
<1>2. Nesting(code, k) \in Nat /\ Nesting(code, k) >= 1 /\ Len(code) \in Nat
  BY DEF WellFormed
<1>3. CASE v \in Params
  BY <1>1, <1>2, <1>3 DEF Home
<1>4. CASE v \notin Params
  <2>1. PICK j \in 1 .. k - 1 : R!Declares(j, v) /\ \A i \in j + 1 .. k : R!DepthAt(i) >= R!DepthAt(j)
    BY <1>4 DEF R!Visible
  <2>2. LetAt(code, j, v) /\ j \in 1 .. Len(code) /\ k \in j + 1 .. k
    BY <1>2, <2>1 DEF R!Declares, R!At, LetAt, Is
  <2>3. v \in Names
    BY <1>1, <1>4 DEF Known
  <2>4. Nesting(code, k) >= Nesting(code, j) /\ Home(code, v) = Nesting(code, j)
    BY <2>1, <2>2, <2>3, NestingIs, HomeIs
  <2>5. QED BY <1>1, <1>2, <2>4, HomeIs
<1>5. QED BY <1>3, <1>4

LEMMA WriteStep ==
  ASSUME WellFormed(code),
         R!WriteLet \/ R!WriteMove \/ R!WriteUse \/ R!WriteIf \/ R!WriteEnd
  PROVE  /\ WellFormed(code') /\ phase = "write"
         /\ UNCHANGED <<phase, decisions, pc, env, mem, handed, misfreed>>
<1>1. Len(code) + 1 \in 1 .. Len(code) + 1 /\ R!Length = Len(code) /\ Len(code) \in Nat
  BY DEF WellFormed, R!Length
<1>2. R!Here \subseteq Known(code)
  BY <1>1, VisibleIs DEF R!Here
<1>3. Known(code) \subseteq Variables
  BY HomeIs
<1>4. ASSUME NEW s, R!Write(s)
      PROVE  /\ code' = Append(code, s) /\ phase = "write"
             /\ UNCHANGED <<phase, decisions, pc, env, mem, handed, misfreed>>
  BY <1>4 DEF R!Write
<1>5. CASE R!WriteLet
  <2>1. PICK v, from : /\ v \in Names \ R!Declared /\ from \in Inits \cup R!Here
                       /\ R!Write(R!Statement("let", v, from))
    BY <1>5 DEF R!WriteLet
  <2>2. PICK s : s = [op |-> "let", of |-> v, to |-> from] /\ R!Write(s)
    BY <2>1 DEF R!Statement
  <2>3. s \in Texts /\ s.op = "let" /\ s.of = v /\ v \in Names /\ v \notin Known(code)
    BY <1>2, <1>3, <2>1, <2>2, NamesApart, DeclaredIs DEF Texts, Ops, Variables
  <2>4. WellFormed(Append(code, s))
    BY <2>3, Extends
  <2>5. QED BY <1>4, <2>2, <2>4
<1>6. CASE R!WriteMove
  <2>1. PICK op, v, w : /\ op \in {"yield", "release"} /\ v \in R!Here /\ w \in R!Here /\ v # w
                        /\ R!Write(R!Statement(op, v, w))
    BY <1>6 DEF R!WriteMove
  <2>2. PICK s : s = [op |-> op, of |-> v, to |-> w] /\ R!Write(s)
    BY <2>1 DEF R!Statement
  <2>3. /\ s \in Texts /\ s.op \in {"yield", "release"} /\ s.of = v /\ s.to = w /\ v # w
        /\ v \in Known(code) /\ w \in Known(code)
    BY <1>2, <1>3, <2>1, <2>2 DEF Texts, Ops
  <2>4. WellFormed(Append(code, s))
    BY <2>3, Extends
  <2>5. QED BY <1>4, <2>2, <2>4
<1>7. CASE R!WriteUse
  <2>1. PICK op, v : /\ op \in {"pass", "return"} /\ v \in R!Here
                     /\ R!Write(R!Statement(op, v, NoPath))
    BY <1>7 DEF R!WriteUse
  <2>2. PICK s : s = [op |-> op, of |-> v, to |-> NoPath] /\ R!Write(s)
    BY <2>1 DEF R!Statement
  <2>3. s \in Texts /\ s.op \in {"pass", "return"} /\ s.of = v /\ v \in Known(code)
    BY <1>2, <1>3, <2>1, <2>2 DEF Texts, Ops
  <2>4. WellFormed(Append(code, s))
    BY <2>3, Extends
  <2>5. QED BY <1>4, <2>2, <2>4
<1>8. CASE R!WriteIf \/ R!WriteEnd
  <2>1. PICK op : /\ op \in {"if", "end"} /\ R!Write(R!Statement(op, NoPath, NoPath))
                  /\ op = "end" => R!DepthAt(R!Length + 1) > 1
    BY <1>8 DEF R!WriteIf, R!WriteEnd
  <2>2. PICK s : s = [op |-> op, of |-> NoPath, to |-> NoPath] /\ R!Write(s)
    BY <2>1 DEF R!Statement
  <2>3. s \in Texts /\ s.op = op /\ (op = "end" => Nesting(code, Len(code) + 1) > 1)
    BY <1>1, <2>1, <2>2, NestingIs DEF Texts, Ops
  <2>4. WellFormed(Append(code, s))
    BY <2>1, <2>3, Extends
  <2>5. QED BY <1>4, <2>2, <2>4
<1>9. QED BY <1>5, <1>6, <1>7, <1>8

-----------------------------------------------------------------------------
(* The tracker and the decisions.                                           *)

Tracks == [name : Variables, state : {"Owned", "Moved", "Released"}]
Named(o, v) == \E i \in 1 .. Len(o) : o[i].name = v

\* What is tracked after k statements of c.
TracksAre(c, k, o, wrong) ==
  /\ o \in Seq(Tracks) /\ wrong \in BOOLEAN
  /\ \A i \in 1 .. Len(o) : o[i].state = "Moved" => \E j \in 1 .. k : Is(c, j, "yield") /\ c[j].of = o[i].name
  /\ ~wrong => \A j \in 1 .. k :
       /\ Is(c, j, "let") => Named(o, c[j].of)
       /\ Is(c, j, "yield") => Named(o, c[j].to)

LEMMA TrackIs ==
  ASSUME NEW n, NEW st, n \in Variables, st \in {"Owned", "Moved", "Released"}
  PROVE  R!Object(n, st) \in Tracks /\ R!Object(n, st).name = n /\ R!Object(n, st).state = st
BY DEF R!Object, Tracks

\* An object in another state.
WithState(o, i, x) == [o EXCEPT ![i].state = x]

LEMMA Restated ==
  ASSUME NEW o \in Seq(Tracks), NEW i \in 1 .. Len(o), NEW x \in {"Owned", "Moved", "Released"}
  PROVE  /\ WithState(o, i, x) \in Seq(Tracks) /\ Len(WithState(o, i, x)) = Len(o)
         /\ \A j \in 1 .. Len(o) :
              /\ WithState(o, i, x)[j].name = o[j].name
              /\ \/ WithState(o, i, x)[j].state = o[j].state
                 \/ WithState(o, i, x)[j].state = x /\ j = i
<1>1. PICK p : p = WithState(o, i, x)
  OBVIOUS
<1>2. o[i] \in Tracks /\ DOMAIN o = 1 .. Len(o) /\ Len(o) \in Nat
  OBVIOUS
<1>3. PICK r : r = [o[i] EXCEPT !.state = x]
  OBVIOUS
<1>4. r \in Tracks /\ r.name = o[i].name /\ r.state = x
  BY <1>2, <1>3 DEF Tracks
<1>5. p = [o EXCEPT ![i] = r]
  BY <1>1, <1>3 DEF WithState
<1>6. p \in Seq(Tracks) /\ Len(p) = Len(o)
  BY <1>4, <1>5
<1>7. \A j \in 1 .. Len(o) : p[j] = IF j = i THEN r ELSE o[j]
  BY <1>2, <1>5
<1>8. \A j \in 1 .. Len(o) : p[j].name = o[j].name /\ (p[j].state = o[j].state \/ (p[j].state = x /\ j = i))
  BY <1>4, <1>7
<1>9. QED BY <1>1, <1>6, <1>8

LEMMA Added ==
  ASSUME NEW o \in Seq(Tracks), NEW x \in Tracks
  PROVE  LET p == Append(o, x) IN
           /\ p \in Seq(Tracks) /\ Len(p) = Len(o) + 1 /\ Len(o) \in Nat /\ p[Len(o) + 1] = x
           /\ \A j \in 1 .. Len(o) : p[j] = o[j] /\ j \in 1 .. Len(p)
           /\ \A j \in 1 .. Len(p) : j \in 1 .. Len(o) \/ j = Len(o) + 1
           /\ Named(p, x.name) /\ \A v : Named(o, v) => Named(p, v)
<1>1. /\ Append(o, x) \in Seq(Tracks) /\ Len(Append(o, x)) = Len(o) + 1 /\ Len(o) \in Nat
      /\ Append(o, x)[Len(o) + 1] = x /\ \A j \in 1 .. Len(o) : Append(o, x)[j] = o[j]
  BY AppendProperties
<1> DEFINE p == Append(o, x)
<1> HIDE DEF p
<1>2. /\ p \in Seq(Tracks) /\ Len(p) = Len(o) + 1 /\ Len(o) \in Nat
      /\ p[Len(o) + 1] = x /\ \A j \in 1 .. Len(o) : p[j] = o[j]
  BY <1>1 DEF p
<1>3. /\ \A j \in 1 .. Len(o) : j \in 1 .. Len(p)
      /\ \A j \in 1 .. Len(p) : j \in 1 .. Len(o) \/ j = Len(o) + 1
      /\ Len(o) + 1 \in 1 .. Len(p)
  BY <1>2
<1>4. Named(p, x.name) /\ \A v : Named(o, v) => Named(p, v)
  BY <1>2, <1>3 DEF Named
<1>5. QED BY <1>2, <1>3, <1>4 DEF p

LEMMA FirstCalledIs ==
  ASSUME NEW o \in Seq(Tracks), NEW v
  PROVE  LET i == R!FirstCalled(o, v) IN i = 0 \/ (i \in 1 .. Len(o) /\ o[i].name = v)
<1>1. DOMAIN o = 1 .. Len(o) /\ Len(o) \in Nat
  OBVIOUS
<1>2. CASE ~\E i \in DOMAIN o : o[i].name = v
  BY <1>2 DEF R!FirstCalled
<1>3. CASE \E i \in DOMAIN o : o[i].name = v
  <2>1. PICK S : S = {i \in 1 .. Len(o) : o[i].name = v}
    OBVIOUS
  <2>2. S \in SUBSET Nat /\ S # {}
    BY <1>1, <1>3, <2>1
  <2>3. PICK m \in S : \A k \in S : m <= k
    BY <2>2, LeastIs
  <2>4. m \in DOMAIN o /\ o[m].name = v /\ m \in Nat
    BY <1>1, <2>1, <2>3
  <2>5. \A j \in 1 .. m - 1 : o[j].name # v
    <3>1. \A j \in 1 .. m - 1 : j \in 1 .. Len(o) /\ ~(m <= j)
      BY <1>1, <2>4
    <3>2. QED BY <2>1, <2>3, <3>1
  <2>6. \E i \in DOMAIN o : o[i].name = v /\ \A j \in 1 .. i - 1 : o[j].name # v
    BY <2>4, <2>5
  <2>7. R!FirstCalled(o, v) =
          (CHOOSE i \in DOMAIN o : o[i].name = v /\ \A j \in 1 .. i - 1 : o[j].name # v)
    BY <1>3 DEF R!FirstCalled
  <2>8. QED BY <1>1, <2>6, <2>7
<1>4. QED BY <1>2, <1>3

\* What yield and release make of the objects.
YieldOf(o, i, y) == Append(WithState(o, i, "Moved"), R!Object(y, "Owned"))
ReadOf(o, i) == WithState(o, i, "Released")
ReleaseOf(o, i, h, y) ==
  IF h = 0 THEN Append(ReadOf(o, i), R!Object(y, "Released"))
  ELSE IF ReadOf(o, i)[h].state = "Owned" THEN WithState(ReadOf(o, i), h, "Released")
  ELSE ReadOf(o, i)

WithObjects(t, a) == [t EXCEPT !.objs = a]

LEMMA Fields ==
  ASSUME NEW o, NEW w, NEW t, t = [objs |-> o, wrong |-> w]
  PROVE  \A a : WithObjects(t, a) = [objs |-> a, wrong |-> w]
<1>1. ASSUME NEW a PROVE WithObjects(t, a) = [objs |-> a, wrong |-> w]
  BY DEF WithObjects
<1> QED BY <1>1

Refused(o) == [objs |-> o, wrong |-> TRUE]

\* Whether yield or release may take the object.
May(o, i, op) == i # 0 /\ o[i].state \in (IF op = "yield" THEN {"Owned"} ELSE {"Owned", "Released"})

LEMMA TrackCases ==
  ASSUME NEW o, NEW w, NEW s, NEW t, t = [objs |-> o, wrong |-> w],
         NEW i, i = R!FirstCalled(o, s.of), NEW h, h = R!FirstCalled(o, s.to)
  PROVE  /\ s.op = "let" => R!Track(t, s) = [objs |-> Append(o, R!Object(s.of, "Owned")), wrong |-> w]
         /\ s.op = "yield" /\ May(o, i, "yield") => R!Track(t, s) = [objs |-> YieldOf(o, i, s.to), wrong |-> w]
         /\ s.op = "release" /\ May(o, i, "release") =>
              R!Track(t, s) = [objs |-> ReleaseOf(o, i, h, s.to), wrong |-> w]
         /\ s.op = "yield" /\ ~May(o, i, "yield") => R!Track(t, s) = Refused(o)
         /\ s.op = "release" /\ ~May(o, i, "release") => R!Track(t, s) = Refused(o)
         /\ s.op \notin {"let", "yield", "release"} => R!Track(t, s) = t
<1>1. t.objs = o /\ t.wrong = w
  OBVIOUS
<1>2. PICK a, b, d : /\ a = Append(o, R!Object(s.of, "Owned")) /\ b = YieldOf(o, i, s.to)
                     /\ d = ReleaseOf(o, i, h, s.to)
  OBVIOUS
<1>3. PICK op : op = s.op
  OBVIOUS
<1>4. PICK x : x = Refused(o)
  OBVIOUS
<1>5. R!Track(t, s) =
        CASE s.op = "let" -> WithObjects(t, a)
          [] s.op = "yield" /\ May(o, i, s.op) -> WithObjects(t, b)
          [] s.op = "release" /\ May(o, i, s.op) -> WithObjects(t, d)
          [] s.op \in {"yield", "release"} /\ ~May(o, i, s.op) -> x
          [] OTHER -> t
  BY <1>1, <1>2, <1>4
  DEF R!Track, Refused, YieldOf, ReleaseOf, ReadOf, WithState, WithObjects, R!InState, May
<1>6. /\ WithObjects(t, a) = [objs |-> a, wrong |-> w] /\ WithObjects(t, b) = [objs |-> b, wrong |-> w]
      /\ WithObjects(t, d) = [objs |-> d, wrong |-> w]
  BY Fields
<1>8. CASE s.op = "let"
  <2>1. R!Track(t, s) = WithObjects(t, a)
    BY <1>5, <1>8
  <2>2. QED BY <1>2, <1>6, <1>8, <2>1
<1>9. CASE s.op = "yield" /\ May(o, i, s.op)
  <2>1. R!Track(t, s) = WithObjects(t, b)
    BY <1>5, <1>9
  <2>2. QED BY <1>2, <1>6, <1>9, <2>1
<1>10. CASE s.op = "release" /\ May(o, i, s.op)
  <2>1. R!Track(t, s) = WithObjects(t, d)
    BY <1>5, <1>10
  <2>2. QED BY <1>2, <1>6, <1>10, <2>1
<1>11. CASE s.op \in {"yield", "release"} /\ ~May(o, i, s.op)
  <2>1. R!Track(t, s) = x
    BY <1>5, <1>11
  <2>2. QED BY <1>4, <1>11, <2>1
<1>12. CASE s.op \notin {"let", "yield", "release"}
  BY <1>5, <1>12
<1> QED BY <1>8, <1>9, <1>10, <1>11, <1>12

LEMMA YieldTracks ==
  ASSUME NEW o \in Seq(Tracks), NEW i \in 1 .. Len(o), NEW y \in Variables
  PROVE  LET p == YieldOf(o, i, y) IN
           /\ p \in Seq(Tracks) /\ Named(p, y) /\ \A v : Named(o, v) => Named(p, v)
           /\ \A j \in 1 .. Len(p) : p[j].state = "Moved" =>
                j \in 1 .. Len(o) /\ p[j].name = o[j].name /\ (o[j].state = "Moved" \/ j = i)
<1>1. PICK q : q = WithState(o, i, "Moved")
  OBVIOUS
<1>2. /\ q \in Seq(Tracks) /\ Len(q) = Len(o)
      /\ \A j \in 1 .. Len(o) : /\ q[j].name = o[j].name
                                /\ q[j].state = o[j].state \/ (q[j].state = "Moved" /\ j = i)
  BY <1>1, Restated
<1>3. PICK x : x = R!Object(y, "Owned") /\ x \in Tracks /\ x.name = y /\ x.state = "Owned"
  BY TrackIs
<1>4. PICK p : p = Append(q, x)
  OBVIOUS
<1>5. /\ p \in Seq(Tracks) /\ Named(p, y) /\ \A v : Named(q, v) => Named(p, v)
      /\ \A j \in 1 .. Len(p) : (j \in 1 .. Len(q) /\ p[j] = q[j]) \/ p[j].state = "Owned"
  BY <1>2, <1>3, <1>4, Added
<1>6. \A v : Named(o, v) => Named(q, v)
  BY <1>2 DEF Named
<1>7. \A j \in 1 .. Len(p) : p[j].state = "Moved" =>
        j \in 1 .. Len(o) /\ p[j].name = o[j].name /\ (o[j].state = "Moved" \/ j = i)
  BY <1>2, <1>5
<1>8. QED BY <1>1, <1>3, <1>4, <1>5, <1>6, <1>7 DEF YieldOf

LEMMA ReleaseTracks ==
  ASSUME NEW o \in Seq(Tracks), NEW i \in 1 .. Len(o), NEW h \in 0 .. Len(o), NEW y \in Variables
  PROVE  LET p == ReleaseOf(o, i, h, y) IN
           /\ p \in Seq(Tracks) /\ \A v : Named(o, v) => Named(p, v)
           /\ \A j \in 1 .. Len(p) : p[j].state = "Moved" =>
                j \in 1 .. Len(o) /\ p[j].name = o[j].name /\ o[j].state = "Moved"
<1>1. PICK q : q = ReadOf(o, i)
  OBVIOUS
<1>2. /\ q \in Seq(Tracks) /\ Len(q) = Len(o)
      /\ \A j \in 1 .. Len(o) : q[j].name = o[j].name /\ (q[j].state = o[j].state \/ q[j].state = "Released")
  <2>1. q = WithState(o, i, "Released")
    BY <1>1 DEF ReadOf
  <2>2. WithState(o, i, "Released") \in Seq(Tracks) /\ Len(WithState(o, i, "Released")) = Len(o)
    BY Restated
  <2>3. ASSUME NEW j \in 1 .. Len(o)
        PROVE  q[j].name = o[j].name /\ (q[j].state = o[j].state \/ q[j].state = "Released")
    BY <2>1, Restated
  <2>4. QED BY <2>1, <2>2, <2>3
<1>3. PICK x : x = R!Object(y, "Released") /\ x \in Tracks /\ x.name = y /\ x.state = "Released"
  BY TrackIs
<1>4. PICK p : p = ReleaseOf(o, i, h, y)
  OBVIOUS
<1>5. p = IF h = 0 THEN Append(q, x)
          ELSE IF q[h].state = "Owned" THEN WithState(q, h, "Released") ELSE q
  BY <1>1, <1>3, <1>4 DEF ReleaseOf
<1>6. \A v : Named(o, v) => Named(q, v)
  BY <1>2 DEF Named
<1>7. /\ p \in Seq(Tracks) /\ \A v : Named(q, v) => Named(p, v)
      /\ \A j \in 1 .. Len(p) : \/ j \in 1 .. Len(q) /\ p[j].name = q[j].name /\ p[j].state = q[j].state
                                \/ p[j].state = "Released"
  <2>1. CASE h = 0
    <3>1. p = Append(q, x)
      BY <1>5, <2>1
    <3>2. /\ p \in Seq(Tracks) /\ \A v : Named(q, v) => Named(p, v)
          /\ \A j \in 1 .. Len(p) : (j \in 1 .. Len(q) /\ p[j] = q[j]) \/ p[j] = x
      BY <1>2, <1>3, <3>1, Added
    <3>3. QED BY <1>3, <3>2
  <2>2. CASE h # 0 /\ q[h].state = "Owned"
    <3>1. p = WithState(q, h, "Released") /\ h \in 1 .. Len(q)
      BY <1>2, <1>5, <2>2
    <3>2. /\ p \in Seq(Tracks) /\ Len(p) = Len(q)
          /\ \A j \in 1 .. Len(q) :
               p[j].name = q[j].name /\ (p[j].state = q[j].state \/ (p[j].state = "Released" /\ j = h))
      BY <1>2, <3>1, Restated
    <3>3. \A v : Named(q, v) => Named(p, v)
      BY <3>2 DEF Named
    <3>4. QED BY <3>2, <3>3
  <2>3. CASE h # 0 /\ q[h].state # "Owned"
    BY <1>2, <1>5, <2>3
  <2>4. QED BY <2>1, <2>2, <2>3
<1>8. \A j \in 1 .. Len(p) : p[j].state = "Moved" =>
        j \in 1 .. Len(o) /\ p[j].name = o[j].name /\ o[j].state = "Moved"
  BY <1>2, <1>7
<1>9. QED BY <1>4, <1>6, <1>7, <1>8

\* A statement keeps the objects and their names, marks as moved what it moves,
\* and makes an object for what it declares or moves to.
LEMMA TrackStep ==
  ASSUME NEW c, NEW k \in Nat, NEW s, s = c[k + 1],
         s.op = "let" => s.of \in Variables,
         s.op \in {"yield", "release"} => s.of \in Variables /\ s.to \in Variables,
         NEW o, NEW wrong, TracksAre(c, k, o, wrong)
  PROVE  \E p, w : /\ R!Track([objs |-> o, wrong |-> wrong], s) = [objs |-> p, wrong |-> w]
                   /\ TracksAre(c, k + 1, p, w)
<1>1. o \in Seq(Tracks) /\ wrong \in BOOLEAN
  BY DEF TracksAre
<1>2. \A j \in 1 .. k + 1 : j \in 1 .. k \/ j = k + 1
  OBVIOUS
<1>3. PICK i, h : i = R!FirstCalled(o, s.of) /\ h = R!FirstCalled(o, s.to)
  OBVIOUS
<1>4. (i = 0 \/ (i \in 1 .. Len(o) /\ o[i].name = s.of)) /\ h \in 0 .. Len(o)
  BY <1>1, <1>3, FirstCalledIs
<1>5. PICK t, u : t = [objs |-> o, wrong |-> wrong] /\ u = R!Track(t, s)
  OBVIOUS
<1>6. /\ s.op = "let" => u = [objs |-> Append(o, R!Object(s.of, "Owned")), wrong |-> wrong]
      /\ s.op = "yield" /\ May(o, i, "yield") => u = [objs |-> YieldOf(o, i, s.to), wrong |-> wrong]
      /\ s.op = "release" /\ May(o, i, "release") => u = [objs |-> ReleaseOf(o, i, h, s.to), wrong |-> wrong]
      /\ s.op \in {"yield", "release"} /\ ~May(o, i, s.op) => u = Refused(o)
      /\ s.op \notin {"let", "yield", "release"} => u = t
  <2>1. t = [objs |-> o, wrong |-> wrong] /\ i = R!FirstCalled(o, s.of) /\ h = R!FirstCalled(o, s.to)
    BY <1>3, <1>5
  <2>2. u = R!Track(t, s)
    BY <1>5
  <2>3. s.op = "let" => u = [objs |-> Append(o, R!Object(s.of, "Owned")), wrong |-> wrong]
    BY <2>1, <2>2, TrackCases, SMTT(20)
  <2>4. s.op = "yield" /\ May(o, i, "yield") => u = [objs |-> YieldOf(o, i, s.to), wrong |-> wrong]
    BY <2>1, <2>2, TrackCases, SMTT(20)
  <2>5. s.op = "release" /\ May(o, i, "release") => u = [objs |-> ReleaseOf(o, i, h, s.to), wrong |-> wrong]
    BY <2>1, <2>2, TrackCases, SMTT(20)
  <2>6. ASSUME s.op \in {"yield", "release"}, ~May(o, i, s.op) PROVE u = Refused(o)
    <3>1. CASE s.op = "yield" /\ ~May(o, i, "yield")
      <4>1. R!Track(t, s) = Refused(o)
        BY <2>1, <3>1, TrackCases
      <4>2. QED BY <2>2, <4>1
    <3>2. CASE s.op = "release" /\ ~May(o, i, "release")
      <4>1. R!Track(t, s) = Refused(o)
        BY <2>1, <3>2, TrackCases
      <4>2. QED BY <2>2, <4>1
    <3>3. QED BY <2>6, <3>1, <3>2
  <2>7. s.op \notin {"let", "yield", "release"} => u = t
    BY <2>1, <2>2, TrackCases, SMTT(20)
  <2>8. QED BY <2>3, <2>4, <2>5, <2>6, <2>7
<1>7. \A j \in 1 .. k : j \in 1 .. k + 1
  OBVIOUS
<1>8. SUFFICES \E p, w : u = [objs |-> p, wrong |-> w] /\ TracksAre(c, k + 1, p, w)
  BY <1>5
<1>9. CASE s.op = "let"
  <2>1. PICK x : x = R!Object(s.of, "Owned") /\ x \in Tracks /\ x.name = s.of /\ x.state = "Owned"
    BY <1>9, TrackIs
  <2>2. PICK p : p = Append(o, x)
    OBVIOUS
  <2>3. u = [objs |-> p, wrong |-> wrong]
    BY <1>6, <1>9, <2>1, <2>2
  <2>4. /\ p \in Seq(Tracks) /\ Named(p, s.of) /\ \A v : Named(o, v) => Named(p, v)
        /\ \A j \in 1 .. Len(p) : (j \in 1 .. Len(o) /\ p[j] = o[j]) \/ p[j].state = "Owned"
    BY <1>1, <2>1, <2>2, Added
  <2>5. \A j \in 1 .. Len(p) : p[j].state = "Moved" => \E l \in 1 .. k + 1 : Is(c, l, "yield") /\ c[l].of = p[j].name
    BY <1>7, <2>4 DEF TracksAre
  <2>6. ~wrong => \A j \in 1 .. k + 1 : /\ Is(c, j, "let") => Named(p, c[j].of)
                                        /\ Is(c, j, "yield") => Named(p, c[j].to)
    BY <1>2, <1>9, <2>4 DEF TracksAre, Is
  <2>7. TracksAre(c, k + 1, p, wrong)
    BY <1>1, <2>4, <2>5, <2>6 DEF TracksAre
  <2>8. QED BY <2>3, <2>7
<1>10. CASE s.op = "yield" /\ May(o, i, "yield")
  <2>1. PICK p : p = YieldOf(o, i, s.to)
    OBVIOUS
  <2>2. u = [objs |-> p, wrong |-> wrong]
    BY <1>6, <1>10, <2>1
  <2>3. i \in 1 .. Len(o) /\ o[i].name = s.of /\ s.to \in Variables
    BY <1>4, <1>10 DEF May
  <2>4. /\ p \in Seq(Tracks) /\ Named(p, s.to) /\ \A v : Named(o, v) => Named(p, v)
        /\ \A j \in 1 .. Len(p) : p[j].state = "Moved" =>
             j \in 1 .. Len(o) /\ p[j].name = o[j].name /\ (o[j].state = "Moved" \/ j = i)
    BY <1>1, <2>1, <2>3, YieldTracks
  <2>5. ASSUME NEW j \in 1 .. Len(p), p[j].state = "Moved"
        PROVE  \E l \in 1 .. k + 1 : Is(c, l, "yield") /\ c[l].of = p[j].name
    <3>1. j \in 1 .. Len(o) /\ p[j].name = o[j].name /\ (o[j].state = "Moved" \/ j = i)
      BY <2>4, <2>5
    <3>2. CASE o[j].state = "Moved"
      BY <1>7, <3>1, <3>2 DEF TracksAre
    <3>3. CASE j = i
      <4>1. p[j].name = s.of /\ Is(c, k + 1, "yield") /\ k + 1 \in 1 .. k + 1
        BY <1>10, <2>3, <3>1, <3>3 DEF Is
      <4>2. QED BY <4>1
    <3>4. QED BY <3>1, <3>2, <3>3
  <2>6. ~wrong => \A j \in 1 .. k + 1 : /\ Is(c, j, "let") => Named(p, c[j].of)
                                        /\ Is(c, j, "yield") => Named(p, c[j].to)
    BY <1>2, <1>10, <2>4 DEF TracksAre, Is
  <2>7. TracksAre(c, k + 1, p, wrong)
    BY <1>1, <2>4, <2>5, <2>6 DEF TracksAre
  <2>8. QED BY <2>2, <2>7
<1>11. CASE s.op = "release" /\ May(o, i, "release")
  <2>1. PICK p : p = ReleaseOf(o, i, h, s.to)
    OBVIOUS
  <2>2. u = [objs |-> p, wrong |-> wrong]
    BY <1>6, <1>11, <2>1
  <2>3. i \in 1 .. Len(o) /\ s.to \in Variables
    BY <1>4, <1>11 DEF May
  <2>4. /\ p \in Seq(Tracks) /\ \A v : Named(o, v) => Named(p, v)
        /\ \A j \in 1 .. Len(p) : p[j].state = "Moved" =>
             j \in 1 .. Len(o) /\ p[j].name = o[j].name /\ o[j].state = "Moved"
    BY <1>1, <1>4, <2>1, <2>3, ReleaseTracks
  <2>5. \A j \in 1 .. Len(p) : p[j].state = "Moved" => \E l \in 1 .. k + 1 : Is(c, l, "yield") /\ c[l].of = p[j].name
    BY <1>7, <2>4 DEF TracksAre
  <2>6. ~wrong => \A j \in 1 .. k + 1 : /\ Is(c, j, "let") => Named(p, c[j].of)
                                        /\ Is(c, j, "yield") => Named(p, c[j].to)
    BY <1>2, <1>11, <2>4 DEF TracksAre, Is
  <2>7. TracksAre(c, k + 1, p, wrong)
    BY <1>1, <2>4, <2>5, <2>6 DEF TracksAre
  <2>8. QED BY <2>2, <2>7
<1>12. CASE s.op \in {"yield", "release"} /\ ~May(o, i, s.op)
  <2>1. u = [objs |-> o, wrong |-> TRUE]
    BY <1>6, <1>12 DEF Refused
  <2>2. TracksAre(c, k + 1, o, TRUE)
    BY <1>7 DEF TracksAre
  <2>3. QED BY <2>1, <2>2
<1>13. CASE s.op \notin {"let", "yield", "release"}
  <2>1. u = t
    BY <1>6, <1>13
  <2>2. TracksAre(c, k + 1, o, wrong)
    BY <1>2, <1>7, <1>13 DEF TracksAre, Is
  <2>3. QED BY <1>5, <2>1, <2>2
<1>14. QED BY <1>9, <1>10, <1>11, <1>12, <1>13

-----------------------------------------------------------------------------
(* The objects tracked in the end.                                          *)

Start == [objs |-> << >>, wrong |-> FALSE]
Runs(c, n, g) == g = [k \in 0 .. n |-> IF k = 0 THEN Start ELSE R!Track(g[k - 1], c[k])]
Sound(c, k, t) == \E o, w : t = [objs |-> o, wrong |-> w] /\ TracksAre(c, k, o, w)

LEMMA RunsAre ==
  ASSUME NEW c, NEW n \in Nat, NEW g
  PROVE  Runs(c, n, g) <=> /\ g = [k \in 0 .. n |-> g[k]] /\ g[0] = Start
                           /\ \A k \in 1 .. n : g[k] = R!Track(g[k - 1], c[k])
<1>1. ASSUME Runs(c, n, g)
      PROVE  /\ g = [k \in 0 .. n |-> g[k]] /\ g[0] = Start
             /\ \A k \in 1 .. n : g[k] = R!Track(g[k - 1], c[k])
  <2>1. g = [k \in 0 .. n |-> IF k = 0 THEN Start ELSE R!Track(g[k - 1], c[k])]
    BY <1>1 DEF Runs
  <2>2. \A k \in 0 .. n : g[k] = IF k = 0 THEN Start ELSE R!Track(g[k - 1], c[k])
    BY <2>1, Zenon
  <2>3. DOMAIN g = 0 .. n
    BY <2>1, Zenon
  <2>4. g = [k \in 0 .. n |-> g[k]]
    BY <2>1, <2>3, Zenon
  <2>5. \A k \in 1 .. n : k \in 0 .. n /\ k # 0
    OBVIOUS
  <2>6. 0 \in 0 .. n
    OBVIOUS
  <2>7. QED BY <2>2, <2>4, <2>5, <2>6
<1>2. ASSUME g = [k \in 0 .. n |-> g[k]], g[0] = Start, \A k \in 1 .. n : g[k] = R!Track(g[k - 1], c[k])
      PROVE  Runs(c, n, g)
  <2>1. \A k \in 0 .. n : k = 0 \/ k \in 1 .. n
    OBVIOUS
  <2>2. \A k \in 0 .. n : g[k] = IF k = 0 THEN Start ELSE R!Track(g[k - 1], c[k])
    BY <1>2, <2>1
  <2>3. [k \in 0 .. n |-> g[k]] = [k \in 0 .. n |-> IF k = 0 THEN Start ELSE R!Track(g[k - 1], c[k])]
    BY <2>2, Zenon
  <2>4. QED BY <1>2, <2>3, Zenon DEF Runs
<1>3. QED BY <1>1, <1>2

LEMMA RunsOn ==
  ASSUME NEW c, NEW n \in Nat, NEW g, Runs(c, n, g)
  PROVE  \E h : Runs(c, n + 1, h)
<1>1. \A k \in 1 .. n : g[k] = R!Track(g[k - 1], c[k])
  BY RunsAre
<1>2. g[0] = Start
  BY RunsAre
<1>3. PICK x : x = R!Track(g[n], c[n + 1])
  OBVIOUS
<1>4. PICK h : h = [k \in 0 .. n + 1 |-> IF k = n + 1 THEN x ELSE g[k]]
  OBVIOUS
<1>5. h = [k \in 0 .. n + 1 |-> h[k]]
  BY <1>4
<1>6. \A k \in 0 .. n : h[k] = g[k]
  BY <1>4
<1>7. h[n + 1] = x /\ h[0] = Start
  BY <1>2, <1>4
<1>8. ASSUME NEW k \in 1 .. n + 1 PROVE h[k] = R!Track(h[k - 1], c[k])
  <2>1. CASE k = n + 1
    <3>1. k - 1 = n /\ n \in 0 .. n
      BY <2>1
    <3>2. h[k - 1] = g[n]
      BY <1>6, <3>1
    <3>3. QED BY <1>3, <1>7, <2>1, <3>2
  <2>2. CASE k \in 1 .. n
    <3>1. k \in 0 .. n /\ k - 1 \in 0 .. n
      BY <2>2
    <3>2. h[k] = g[k] /\ h[k - 1] = g[k - 1]
      BY <1>6, <3>1
    <3>3. QED BY <1>1, <2>2, <3>2
  <2>3. QED BY <2>1, <2>2
<1>9. n + 1 \in Nat
  OBVIOUS
<1>10. Runs(c, n + 1, h)
  BY <1>5, <1>7, <1>8, <1>9, RunsAre
<1>11. QED BY <1>10

LEMMA SomethingRuns ==
  ASSUME NEW c, NEW n \in Nat
  PROVE  \E g : Runs(c, n, g)
<1> DEFINE S == {m \in Nat : ~\E g : Runs(c, m, g)}
<1>1. ASSUME S # {} PROVE FALSE
  <2>1. PICK m \in S : \A k \in S : m <= k
    <3>1. S \in SUBSET Nat
      OBVIOUS
    <3>2. QED BY <1>1, <3>1, LeastIs
  <2>2. m # 0
    <3>1. PICK g : g = [k \in 0 .. 0 |-> Start]
      OBVIOUS
    <3>2. g = [k \in 0 .. 0 |-> g[k]] /\ g[0] = Start /\ \A k \in 1 .. 0 : g[k] = R!Track(g[k - 1], c[k])
      BY <3>1
    <3>3. Runs(c, 0, g)
      BY <3>2, RunsAre
    <3>4. QED BY <3>3
  <2>3. PICK k \in Nat : m = k + 1
    <3>1. m \in Nat
      OBVIOUS
    <3>2. m - 1 \in Nat /\ m = (m - 1) + 1
      BY <2>2, <3>1
    <3>3. QED BY <3>2
  <2>4. k \notin S
    BY <2>1, <2>3
  <2>5. PICK g : Runs(c, k, g)
    BY <2>4
  <2>6. \E h : Runs(c, k + 1, h)
    BY <2>5, RunsOn
  <2>7. QED BY <2>3, <2>6
<1>2. QED BY <1>1

LEMMA RunsAreSound ==
  ASSUME NEW c, WellFormed(c), NEW g, Runs(c, Len(c), g)
  PROVE  Sound(c, Len(c), g[Len(c)])
<1>1. Len(c) \in Nat
  BY DEF WellFormed
<1>2. PICK n \in Nat : n = Len(c)
  BY <1>1
<1>3. g[0] = Start /\ \A k \in 1 .. n : g[k] = R!Track(g[k - 1], c[k])
  BY <1>2, RunsAre
<1> DEFINE S == {m \in 0 .. n : ~Sound(c, m, g[m])}
<1>4. ASSUME S # {} PROVE FALSE
  <2>1. PICK m \in S : \A k \in S : m <= k
    <3>1. S \in SUBSET Nat
      OBVIOUS
    <3>2. QED BY <1>4, <3>1, LeastIs
  <2>2. m # 0
    <3>1. /\ << >> \in Seq(Tracks) /\ Len(<< >>) = 0
          /\ \A j \in 1 .. 0 : FALSE
      OBVIOUS
    <3>2. TracksAre(c, 0, << >>, FALSE)
      BY <3>1 DEF TracksAre
    <3>3. Sound(c, 0, g[0])
      BY <1>3, <3>2 DEF Sound, Start
    <3>4. QED BY <3>3
  <2>3. PICK k \in Nat : m = k + 1 /\ k \in 0 .. n /\ k + 1 \in 1 .. n
    <3>1. m \in Nat /\ m <= n
      BY <1>2
    <3>2. m - 1 \in Nat /\ m = (m - 1) + 1 /\ m - 1 \in 0 .. n /\ (m - 1) + 1 \in 1 .. n
      BY <2>2, <3>1
    <3>3. QED BY <3>2
  <2>4. Sound(c, k, g[k])
    BY <2>1, <2>3
  <2>5. PICK o, w : g[k] = [objs |-> o, wrong |-> w] /\ TracksAre(c, k, o, w)
    BY <2>4 DEF Sound
  <2>6. PICK s : s = c[k + 1] /\ s \in Texts
    BY <1>2, <2>3 DEF WellFormed
  <2>7. /\ s.op = "let" => s.of \in Variables
        /\ s.op \in {"yield", "release"} => s.of \in Variables /\ s.to \in Variables
    BY <1>2, <2>3, <2>6, HomeIs DEF WellFormed, Is, Variables
  <2>8. PICK p, u : /\ R!Track([objs |-> o, wrong |-> w], s) = [objs |-> p, wrong |-> u]
                    /\ TracksAre(c, k + 1, p, u)
    BY <2>5, <2>6, <2>7, TrackStep
  <2>9. g[k + 1] = R!Track(g[k], s)
    <3>1. k + 1 - 1 = k
      OBVIOUS
    <3>2. QED BY <1>3, <2>3, <2>6, <3>1
  <2>10. Sound(c, k + 1, g[k + 1])
    BY <2>5, <2>8, <2>9 DEF Sound
  <2>11. QED BY <2>3, <2>10
<1>5. QED BY <1>2, <1>4

LEMMA TrackedIs ==
  ASSUME WellFormed(code)
  PROVE  Sound(code, Len(code), R!Tracked)
<1>1. Len(code) \in Nat /\ R!Length = Len(code)
  BY DEF WellFormed, R!Length
<1>2. R!TrackedAfter = CHOOSE g : Runs(code, Len(code), g)
  BY <1>1, Zenon DEF R!TrackedAfter, Runs, Start
<1>3. Runs(code, Len(code), R!TrackedAfter)
  BY <1>1, <1>2, SomethingRuns
<1>4. QED BY <1>1, <1>3, RunsAreSound DEF R!Tracked

-----------------------------------------------------------------------------
(* The decisions.                                                           *)

LEMMA GreatestIs ==
  ASSUME NEW S \in SUBSET Nat, S # {}, NEW b \in Nat, \A k \in S : k <= b
  PROVE  \E m \in S : \A k \in S : k <= m
<1>1. PICK T : T = {b - k : k \in S}
  OBVIOUS
<1>2. T \in SUBSET Nat /\ T # {}
  <2>1. \A k \in S : b - k \in Nat
    OBVIOUS
  <2>2. T \in SUBSET Nat
    BY <1>1, <2>1
  <2>3. PICK k \in S : TRUE
    OBVIOUS
  <2>4. b - k \in T
    BY <1>1
  <2>5. QED BY <2>2, <2>4
<1>3. PICK l \in T : \A k \in T : l <= k
  BY <1>2, LeastIs
<1>4. PICK m \in S : l = b - m
  BY <1>1, <1>3
<1>5. ASSUME NEW k \in S PROVE k <= m
  <2>1. b - k \in T /\ k \in Nat /\ m \in Nat
    BY <1>1
  <2>2. b - m <= b - k
    BY <1>3, <1>4, <2>1
  <2>3. QED BY <2>1, <2>2
<1>6. QED BY <1>5

Comes(i) == R!AsText(i + FirstId - 1)

\* One object of a name comes last.
LEMMA DecidingIs ==
  ASSUME NEW o \in Seq(Tracks), NEW v, Named(o, v)
  PROVE  R!Deciding(o, v) \in 1 .. Len(o) /\ o[R!Deciding(o, v)].name = v
<1>1. FirstId \in Nat /\ FirstId >= 1 /\ Len(o) \in Nat /\ DOMAIN o = 1 .. Len(o)
  BY NamesApart
<1>2. PICK n \in Nat, f \in Nat : n = Len(o) /\ f = FirstId /\ f >= 1
  BY <1>1
<1>3. PICK N : N = {i \in 1 .. n : o[i].name = v}
  OBVIOUS
<1>4. N \subseteq 1 .. n /\ N # {}
  BY <1>2, <1>3 DEF Named
<1>5. \A i \in 1 .. n : Comes(i) \in Nat /\ Comes(i) <= 10 * (n + f)
  BY <1>2 DEF Comes, R!AsText
<1>6. PICK T : T = {Comes(i) : i \in N}
  OBVIOUS
<1>7. T \in SUBSET Nat /\ T # {} /\ 10 * (n + f) \in Nat /\ \A k \in T : k <= 10 * (n + f)
  <2>1. T \in SUBSET Nat /\ \A k \in T : k <= 10 * (n + f)
    BY <1>4, <1>5, <1>6
  <2>2. PICK i \in N : TRUE
    BY <1>4
  <2>3. Comes(i) \in T
    BY <1>6
  <2>4. 10 * (n + f) \in Nat
    OBVIOUS
  <2>5. QED BY <2>1, <2>3, <2>4
<1>8. PICK t \in T : \A k \in T : k <= t
  BY <1>7, GreatestIs
<1>9. PICK L : L = {i \in N : Comes(i) = t}
  OBVIOUS
<1>10. L \in SUBSET Nat /\ L # {} /\ \A k \in L : k <= n
  BY <1>4, <1>6, <1>8, <1>9
<1>11. PICK m \in L : \A k \in L : k <= m
  BY <1>10, GreatestIs
<1>12. m \in 1 .. n /\ o[m].name = v /\ Comes(m) = t
  BY <1>3, <1>4, <1>9, <1>11
<1>13. ASSUME NEW j \in 1 .. n, o[j].name = v, j # m PROVE R!TextBefore(j, m)
  <2>1. j \in N /\ Comes(j) \in T /\ Comes(j) <= t /\ Comes(j) \in Nat /\ t \in Nat
    BY <1>3, <1>5, <1>6, <1>7, <1>8, <1>13
  <2>2. CASE Comes(j) = t
    <3>1. j <= m
      BY <1>9, <1>11, <2>1, <2>2
    <3>2. j + FirstId - 1 < m + FirstId - 1
      BY <1>2, <1>12, <1>13, <3>1
    <3>3. R!AsText(j + FirstId - 1) = R!AsText(m + FirstId - 1)
      BY <1>12, <2>2 DEF Comes
    <3>4. QED BY <3>2, <3>3 DEF R!TextBefore
  <2>3. CASE Comes(j) # t
    <3>1. Comes(j) < Comes(m)
      BY <1>12, <2>1, <2>3
    <3>2. QED BY <3>1 DEF R!TextBefore, Comes
  <2>4. QED BY <2>2, <2>3
<1>14. \E i \in DOMAIN o : o[i].name = v /\
         \A j \in DOMAIN o : o[j].name = v => j = i \/ R!TextBefore(j, i)
  BY <1>1, <1>2, <1>12, <1>13
<1>15. R!Deciding(o, v) \in DOMAIN o /\ o[R!Deciding(o, v)].name = v
  BY <1>14 DEF R!Deciding
<1>16. QED BY <1>1, <1>15

Decisions == [tracked : BOOLEAN, kind : {"Stack", "BumpPool"}, drop : {"None", "ScopeEnd"}, extern : BOOLEAN]

(* What the decisions d say of the variables of the text c.                 *)
Facts(c, d) ==
  /\ \A v \in Variables :
       /\ d[v].drop = "ScopeEnd" => d[v].kind = "BumpPool" /\ ~PassedIn(c, v)
       /\ d[v].kind = "BumpPool" => d[v].tracked
       /\ d[v].tracked /\ ~YieldedIn(c, v) => d[v].kind = "BumpPool"
       /\ d[v].kind = "BumpPool" /\ ~PassedIn(c, v) => d[v].drop = "ScopeEnd"
  /\ \A k \in 1 .. Len(c) :
       /\ Is(c, k, "let") => d[c[k].of].tracked /\ (c[k].to = "extern" => d[c[k].of].extern)
       /\ Is(c, k, "yield") => d[c[k].to].tracked /\ (d[c[k].of].extern => d[c[k].to].extern)

LEMMA ForeignIs ==
  /\ \A k \in 1 .. Len(code) : Is(code, k, "let") /\ code[k].to = "extern" => R!Foreign(code[k].of)
  /\ \A k \in 1 .. Len(code) : Is(code, k, "yield") /\ R!Foreign(code[k].of) => R!Foreign(code[k].to)
<1> DEFINE Shut(S) == \A k \in 1 .. Len(code) :
             /\ R!At(k, "let") /\ code[k].to = "extern" => code[k].of \in S
             /\ code[k].op \in {"yield", "release"} /\ code[k].of \in S => code[k].to \in S
<1>1. \A v : R!Foreign(v) <=> \A S \in SUBSET R!Vars : Shut(S) => v \in S
  BY DEF R!Foreign, R!Length
<1>2. ASSUME NEW k \in 1 .. Len(code), Is(code, k, "let"), code[k].to = "extern"
      PROVE  R!Foreign(code[k].of)
  <2>1. \A S \in SUBSET R!Vars : Shut(S) => code[k].of \in S
    BY <1>2 DEF Is, R!At
  <2>2. QED BY <1>1, <2>1
<1>3. ASSUME NEW k \in 1 .. Len(code), Is(code, k, "yield"), R!Foreign(code[k].of)
      PROVE  R!Foreign(code[k].to)
  <2>1. \A S \in SUBSET R!Vars : Shut(S) => code[k].of \in S
    BY <1>1, <1>3
  <2>2. \A S \in SUBSET R!Vars : Shut(S) => code[k].to \in S
    BY <1>3, <2>1 DEF Is
  <2>3. QED BY <1>1, <2>2
<1>4. QED BY <1>2, <1>3

LEMMA PassesIs == \A v : (R!Passes(v) <=> PassedIn(code, v)) /\ (R!Moves(v) <=> YieldedIn(code, v))
BY DEF R!Passes, R!Moves, R!At, R!Length, PassedIn, PassedAt, YieldedIn, Is

\* What the analysis decides, once the tracker has found no error.
LEMMA DecisionsAre ==
  ASSUME WellFormed(code), NEW d, d = [v \in R!Vars |-> R!Adapted(R!Tracked.objs, v)]
  PROVE  d \in [Variables -> Decisions] /\ (~R!Tracked.wrong => Facts(code, d))
<1>1. PICK o, w : R!Tracked = [objs |-> o, wrong |-> w] /\ TracksAre(code, Len(code), o, w)
  BY TrackedIs DEF Sound
<1>2. R!Tracked.objs = o /\ R!Tracked.wrong = w /\ o \in Seq(Tracks) /\ w \in BOOLEAN
  BY <1>1 DEF TracksAre
<1>3. d = [v \in Variables |-> R!Adapted(o, v)]
  BY <1>2, NamesApart
<1>4. DOMAIN o = 1 .. Len(o)
  BY <1>2
<1>5. ASSUME NEW v \in Variables
      PROVE  /\ d[v] = R!Adapted(o, v) /\ d[v] \in Decisions
             /\ d[v].tracked <=> Named(o, v)
             /\ d[v].extern <=> R!Foreign(v)
             /\ d[v].kind = IF R!Remains(o, v) THEN "BumpPool" ELSE "Stack"
             /\ d[v].drop = IF R!Dropped(o, v) THEN "ScopeEnd" ELSE "None"
  <2>1. d[v] = R!Adapted(o, v)
    BY <1>3
  <2>2. R!Decides(o, v) \in BOOLEAN /\ R!Foreign(v) \in BOOLEAN
    BY DEF R!Decides, R!Foreign
  <2>3. PICK a, b : a = R!Decides(o, v) /\ b = R!Foreign(v) /\ a \in BOOLEAN /\ b \in BOOLEAN
    BY <2>2
  <2>4. PICK e, f : /\ e = IF R!Remains(o, v) THEN "BumpPool" ELSE "Stack"
                    /\ f = IF R!Dropped(o, v) THEN "ScopeEnd" ELSE "None"
    OBVIOUS
  <2>5. e \in {"Stack", "BumpPool"} /\ f \in {"None", "ScopeEnd"}
    BY <2>4
  <2>6. d[v] = [tracked |-> a, kind |-> e, drop |-> f, extern |-> b]
    BY <2>1, <2>3, <2>4 DEF R!Adapted
  <2>7. d[v] \in Decisions
    BY <2>3, <2>5, <2>6 DEF Decisions
  <2>8. d[v].tracked = a /\ d[v].extern = b /\ d[v].kind = e /\ d[v].drop = f
    BY <2>6
  <2>9. R!Decides(o, v) <=> Named(o, v)
    BY <1>4 DEF R!Decides, Named
  <2>10. d[v].tracked <=> Named(o, v)
    BY <2>3, <2>8, <2>9
  <2>11. d[v].extern <=> R!Foreign(v)
    BY <2>3, <2>8
  <2>12. QED BY <2>1, <2>4, <2>7, <2>8, <2>10, <2>11
<1>6. d \in [Variables -> Decisions]
  BY <1>3, <1>5
<1>7. ASSUME NEW v \in Variables
      PROVE  /\ d[v].drop = "ScopeEnd" => d[v].kind = "BumpPool" /\ ~PassedIn(code, v)
             /\ d[v].kind = "BumpPool" => d[v].tracked
             /\ d[v].tracked /\ ~YieldedIn(code, v) => d[v].kind = "BumpPool"
             /\ d[v].kind = "BumpPool" /\ ~PassedIn(code, v) => d[v].drop = "ScopeEnd"
  <2>1. R!Dropped(o, v) <=> R!Remains(o, v) /\ ~PassedIn(code, v)
    BY PassesIs DEF R!Dropped
  <2>2. ASSUME Named(o, v), ~YieldedIn(code, v) PROVE R!Remains(o, v)
    <3>1. PICK i : i = R!Deciding(o, v) /\ i \in 1 .. Len(o) /\ o[i].name = v
      BY <1>2, <2>2, DecidingIs
    <3>2. o[i].state # "Moved"
      BY <1>1, <2>2, <3>1 DEF TracksAre, YieldedIn
    <3>3. QED BY <1>4, <3>1, <3>2 DEF R!Remains, R!Decides
  <2>3. R!Remains(o, v) => Named(o, v)
    BY <1>4 DEF R!Remains, R!Decides, Named
  <2>4. QED BY <1>5, <2>1, <2>2, <2>3
<1>8. ASSUME ~R!Tracked.wrong, NEW k \in 1 .. Len(code)
      PROVE  /\ Is(code, k, "let") => /\ d[code[k].of].tracked
                                      /\ code[k].to = "extern" => d[code[k].of].extern
             /\ Is(code, k, "yield") => /\ d[code[k].to].tracked
                                        /\ d[code[k].of].extern => d[code[k].to].extern
  <2>1. ~w
    BY <1>2, <1>8
  <2>2. /\ Is(code, k, "let") => Named(o, code[k].of)
        /\ Is(code, k, "yield") => Named(o, code[k].to)
    BY <1>1, <2>1 DEF TracksAre
  <2>3. /\ Is(code, k, "let") => code[k].of \in Variables
        /\ Is(code, k, "yield") => code[k].of \in Variables /\ code[k].to \in Variables
    BY HomeIs DEF WellFormed, Variables
  <2>4. CASE Is(code, k, "let")
    <3>1. d[code[k].of].tracked /\ (code[k].to = "extern" => d[code[k].of].extern)
      BY <1>5, <2>2, <2>3, <2>4, ForeignIs
    <3>2. ~Is(code, k, "yield")
      BY <2>4 DEF Is
    <3>3. QED BY <3>1, <3>2
  <2>5. CASE Is(code, k, "yield")
    <3>1. d[code[k].to].tracked /\ (d[code[k].of].extern => d[code[k].to].extern)
      BY <1>5, <2>2, <2>3, <2>5, ForeignIs
    <3>2. ~Is(code, k, "let")
      BY <2>5 DEF Is
    <3>3. QED BY <3>1, <3>2
  <2>6. QED BY <2>4, <2>5
<1>9. QED BY <1>6, <1>7, <1>8 DEF Facts

-----------------------------------------------------------------------------
(* What holds while the function runs: of the text c, the decisions d, the  *)
(* next statement k, the pointers e, the blocks m and what is handed out h. *)

Blocks == [place : R!Places, level : Nat, alive : BOOLEAN]
Handings(n) == [var : Variables, how : {"pass", "return"}, block : 1 .. n]

Types(c, d, k, e, m, h) ==
  /\ WellFormed(c) /\ d \in [Variables -> Decisions] /\ k \in 1 .. Len(c) + 1
  /\ m \in Seq(Blocks) /\ e \in [Variables -> 0 .. Len(m)] /\ h \subseteq Handings(Len(m))

\* A block that the caller handed over.
Original(m, b) == m[b].place = "survivor" /\ m[b].level = 0

\* What v may hold: b lives as long as v, and foreign memory is known as such.
SafeIn(c, d, m, v, b) ==
  b # 0 => /\ m[b].alive
           /\ m[b].place = "heap" => m[b].level <= Home(c, v)
           /\ m[b].place = "foreign" => d[v].extern
           /\ ~d[v].tracked => Original(m, b)

\* Who holds a block that was passed on has passed it.
PassedBy(c, k, h, v, b) == \A g \in h : g.block = b => \E j \in 1 .. k - 1 : PassedAt(c, j, v)

PromotedBefore(c, d, k) == \E j \in 1 .. k - 1 : Is(c, j, "pass") /\ d[c[j].of].kind = "BumpPool"

\* What was passed on lives; when it is not the caller's, a promotion is on record.
Kept(c, d, k, m, g) ==
  /\ g.how = "pass"
  /\ ~YieldedIn(c, g.var) => /\ m[g.block].alive /\ m[g.block].place = "survivor"
                             /\ Original(m, g.block) \/ PromotedBefore(c, d, k)

Apart(e) == \A v, w \in Variables : e[v] # 0 /\ e[v] = e[w] => v = w

Held(c, d, k, e, m, h) ==
  /\ Apart(e)
  /\ \A v \in Variables : SafeIn(c, d, m, v, e[v]) /\ PassedBy(c, k, h, v, e[v])
  /\ \A g \in h : Kept(c, d, k, m, g)

Extended(m, n) == n \in Seq(Blocks) /\ Len(n) \in Nat /\ Len(m) <= Len(n) /\ \A b \in 1 .. Len(m) : n[b] = m[b]

LEMMA BlocksOf ==
  ASSUME NEW m \in Seq(Blocks)
  PROVE  /\ Len(m) \in Nat /\ DOMAIN m = 1 .. Len(m) /\ Extended(m, m)
         /\ \A b \in 1 .. Len(m) : m[b] \in Blocks
BY DEF Extended

LEMMA Newer ==
  ASSUME NEW m \in Seq(Blocks), NEW x \in Blocks
  PROVE  /\ Extended(m, Append(m, x)) /\ Len(Append(m, x)) = Len(m) + 1 /\ Append(m, x)[Len(m) + 1] = x
         /\ Len(m) \in Nat
<1>1. PICK n : n = Append(m, x)
  OBVIOUS
<1>2. /\ n \in Seq(Blocks) /\ Len(n) = Len(m) + 1 /\ n[Len(m) + 1] = x
      /\ \A b \in 1 .. Len(m) : n[b] = m[b]
  BY <1>1, AppendProperties
<1>3. Len(m) \in Nat
  OBVIOUS
<1>4. Extended(m, n)
  BY <1>2, <1>3 DEF Extended
<1>5. QED BY <1>1, <1>2, <1>3, <1>4

\* What holds of a block goes on holding while memory and the function go on.
LEMMA HoldsOn ==
  ASSUME NEW c, NEW d, NEW k \in Nat, NEW l \in Nat, k <= l, NEW m, NEW n, Extended(m, n), Len(m) \in Nat, NEW h
  PROVE  /\ \A v, b : b \in 0 .. Len(m) /\ SafeIn(c, d, m, v, b) => SafeIn(c, d, n, v, b)
         /\ \A v, b : PassedBy(c, k, h, v, b) => PassedBy(c, l, h, v, b)
         /\ \A g : g.block \in 1 .. Len(m) /\ Kept(c, d, k, m, g) => Kept(c, d, l, n, g)
<1>1. \A j \in 1 .. k - 1 : j \in 1 .. l - 1
  OBVIOUS
<1>2. ASSUME NEW v, NEW b, b \in 0 .. Len(m), SafeIn(c, d, m, v, b) PROVE SafeIn(c, d, n, v, b)
  <2>1. CASE b = 0
    BY <2>1 DEF SafeIn
  <2>2. CASE b # 0
    <3>1. b \in 1 .. Len(m)
      BY <1>2, <2>2
    <3>2. n[b] = m[b]
      BY <3>1 DEF Extended
    <3>3. QED BY <1>2, <3>2 DEF SafeIn, Original
  <2>3. QED BY <2>1, <2>2
<1>3. \A v, b : PassedBy(c, k, h, v, b) => PassedBy(c, l, h, v, b)
  BY <1>1 DEF PassedBy
<1>4. PromotedBefore(c, d, k) => PromotedBefore(c, d, l)
  BY <1>1 DEF PromotedBefore
<1>5. ASSUME NEW g, g.block \in 1 .. Len(m), Kept(c, d, k, m, g) PROVE Kept(c, d, l, n, g)
  <2>1. n[g.block] = m[g.block]
    BY <1>5 DEF Extended
  <2>2. QED BY <1>4, <1>5, <2>1 DEF Kept, Original
<1>6. QED BY <1>2, <1>3, <1>5

NoOther(e, v, b) == \A u \in Variables : u # v /\ b # 0 => e[u] # b

\* A variable gets another pointer, to a block that no other holds.
LEMMA Assigned ==
  ASSUME NEW c, NEW d, NEW k, NEW e, NEW m, NEW h, Types(c, d, k, e, m, h), Held(c, d, k, e, m, h),
         NEW l \in Nat, k <= l, NEW n, Extended(m, n), NEW v \in Variables, NEW b \in 0 .. Len(n), NEW f, f = [e EXCEPT ![v] = b],
         NoOther(e, v, b),
         SafeIn(c, d, n, v, b), PassedBy(c, l, h, v, b)
  PROVE  Held(c, d, l, f, n, h) /\ f \in [Variables -> 0 .. Len(n)]
<1>1. k \in Nat /\ Len(m) \in Nat
  BY DEF Types, WellFormed
<1>2. /\ \A u, a : a \in 0 .. Len(m) /\ SafeIn(c, d, m, u, a) => SafeIn(c, d, n, u, a)
      /\ \A u, a : PassedBy(c, k, h, u, a) => PassedBy(c, l, h, u, a)
      /\ \A g : g.block \in 1 .. Len(m) /\ Kept(c, d, k, m, g) => Kept(c, d, l, n, g)
  BY <1>1, HoldsOn
<1>3. f \in [Variables -> 0 .. Len(n)] /\ f[v] = b /\ \A u \in Variables : u # v => f[u] = e[u]
  <2>1. e \in [Variables -> 0 .. Len(n)]
    BY <1>1 DEF Types, Extended
  <2>2. QED BY <2>1
<1>4. Apart(f)
  BY <1>3 DEF Held, Apart, NoOther
<1>5. ASSUME NEW u \in Variables PROVE SafeIn(c, d, n, u, f[u]) /\ PassedBy(c, l, h, u, f[u])
  <2>1. CASE u = v
    BY <1>3, <2>1
  <2>2. CASE u # v
    <3>1. f[u] = e[u] /\ e[u] \in 0 .. Len(m)
      BY <1>3, <2>2 DEF Types
    <3>2. SafeIn(c, d, m, u, e[u]) /\ PassedBy(c, k, h, u, e[u])
      BY DEF Held
    <3>3. QED BY <1>2, <3>1, <3>2
  <2>3. QED BY <2>1, <2>2
<1>6. ASSUME NEW g \in h PROVE Kept(c, d, l, n, g)
  <2>1. g.block \in 1 .. Len(m) /\ Kept(c, d, k, m, g)
    BY DEF Types, Handings, Held
  <2>2. QED BY <1>2, <2>1
<1>7. QED BY <1>3, <1>4, <1>5, <1>6 DEF Held

\* No pointer: nothing to be said.
LEMMA NoPointer ==
  ASSUME NEW c, NEW d, NEW k, NEW m, NEW h, NEW n, h \subseteq Handings(n), NEW v
  PROVE  SafeIn(c, d, m, v, 0) /\ PassedBy(c, k, h, v, 0)
<1>1. \A g \in h : g.block # 0
  BY DEF Handings
<1>2. QED BY <1>1 DEF SafeIn, PassedBy

-----------------------------------------------------------------------------
(* The statements.                                                          *)

Scene == Types(code, decisions, pc, env, mem, handed)
Holding == Held(code, decisions, pc, env, mem, handed)

LEMMA SceneIs ==
  ASSUME Scene
  PROVE  /\ WellFormed(code) /\ decisions \in [Variables -> Decisions]
         /\ Len(code) \in Nat /\ pc \in Nat /\ pc >= 1 /\ pc <= Len(code) + 1 /\ R!Length = Len(code)
         /\ mem \in Seq(Blocks) /\ Len(mem) \in Nat /\ Extended(mem, mem)
         /\ env \in [Variables -> 0 .. Len(mem)] /\ handed \subseteq Handings(Len(mem))
         /\ Nesting(code, pc) \in Nat /\ Nesting(code, pc) >= 1
<1>1. /\ WellFormed(code) /\ decisions \in [Variables -> Decisions]
      /\ mem \in Seq(Blocks) /\ pc \in 1 .. Len(code) + 1
      /\ env \in [Variables -> 0 .. Len(mem)] /\ handed \subseteq Handings(Len(mem))
  BY DEF Scene, Types
<1>2. Len(code) \in Nat /\ Nesting(code, pc) \in Nat \ {0}
  BY <1>1 DEF WellFormed
<1>3. Len(mem) \in Nat /\ Extended(mem, mem)
  BY <1>1, BlocksOf
<1>4. QED BY <1>1, <1>2, <1>3 DEF R!Length

LEMMA HandedStay ==
  ASSUME NEW h, NEW m \in Nat, NEW n \in Nat, m <= n, h \subseteq Handings(m)
  PROVE  h \subseteq Handings(n)
<1>1. 1 .. m \subseteq 1 .. n
  OBVIOUS
<1>2. QED BY <1>1 DEF Handings

\* The types after one statement.
LEMMA SceneNext ==
  ASSUME Scene, pc <= Len(code), code' = code, decisions' = decisions, pc' = pc + 1,
         Extended(mem, mem'), env' \in [Variables -> 0 .. Len(mem')], handed' \subseteq Handings(Len(mem'))
  PROVE  Scene'
<1>1. pc + 1 \in 1 .. Len(code) + 1
  BY SceneIs
<1>2. mem' \in Seq(Blocks)
  BY DEF Extended
<1>3. QED BY <1>1, <1>2, SceneIs DEF Scene, Types

\* A block that is new belongs to nobody.
LEMMA NewToAll ==
  ASSUME Scene, NEW b, b = Len(mem) + 1
  PROVE  /\ b # 0 /\ \A u \in Variables : env[u] # b
         /\ \A k, v : PassedBy(code, k, handed, v, b)
<1>1. \A u \in Variables : env[u] \in 0 .. Len(mem)
  BY SceneIs
<1>2. \A g \in handed : g.block \in 1 .. Len(mem)
  BY SceneIs DEF Handings
<1>3. Len(mem) \in Nat
  BY SceneIs
<1>4. QED BY <1>1, <1>2, <1>3 DEF PassedBy

LEMMA RunningIs ==
  ASSUME NEW op, R!Running(op), Scene
  PROVE  /\ pc \in 1 .. Len(code) /\ Is(code, pc, op) /\ phase = "run"
         /\ pc + 1 \in 1 .. Len(code) + 1
BY SceneIs DEF R!Running, R!At, Is

LEMMA NewBlockIs ==
  ASSUME Scene, NEW place \in R!Places
  PROVE  /\ R!NewBlock(place) \in Blocks /\ R!NewBlock(place).alive /\ R!NewBlock(place).place = place
         /\ R!NewBlock(place).level = Nesting(code, pc)
<1>1. R!NewBlock(place) = [place |-> place, level |-> Nesting(code, pc), alive |-> TRUE]
  BY NestingIs DEF R!NewBlock
<1>2. QED BY <1>1, SceneIs DEF Blocks

LEMMA LetKeeps ==
  ASSUME Scene, Facts(code, decisions), R!Let
  PROVE  /\ Scene' /\ UNCHANGED <<code, decisions, phase, misfreed>>
         /\ Careful(code) /\ Holding => Holding'
<1>1. PICK v, from : v = code[pc].of /\ from = code[pc].to
  OBVIOUS
<1>2. /\ pc \in 1 .. Len(code) /\ Is(code, pc, "let") /\ pc' = pc + 1 /\ pc <= Len(code)
      /\ UNCHANGED <<code, decisions, phase, misfreed, handed>>
  BY RunningIs, SceneIs DEF R!Let, R!Goes, R!Keeps
<1>3. v \in Names /\ v \in Variables /\ Home(code, v) = Nesting(code, pc) /\ LetAt(code, pc, v)
  <2>1. v \in Names
    BY <1>1, <1>2, SceneIs DEF WellFormed
  <2>2. LetAt(code, pc, v)
    BY <1>1, <1>2 DEF LetAt
  <2>3. QED BY <1>2, <2>1, <2>2, HomeIs, SceneIs DEF Variables
<1>4. decisions[v].tracked /\ (from = "extern" => decisions[v].extern)
  BY <1>1, <1>2 DEF Facts
<1>5. \/ env' = [env EXCEPT ![v] = 0] /\ mem' = mem
      \/ \E place \in R!Places :
           /\ place = "foreign" => from = "extern"
           /\ mem' = Append(mem, R!NewBlock(place))
           /\ env' = [env EXCEPT ![v] = Len(mem) + 1]
      \/ from \in Variables /\ env' = [env EXCEPT ![v] = env[from]] /\ mem' = mem
  BY <1>1, NamesApart DEF R!Let
<1>6. handed' \subseteq Handings(Len(mem))
  BY <1>2, SceneIs
<1>7. CASE env' = [env EXCEPT ![v] = 0] /\ mem' = mem
  <2>1. SafeIn(code, decisions, mem, v, 0) /\ PassedBy(code, pc + 1, handed, v, 0)
    BY SceneIs, NoPointer
  <2>2. 0 \in 0 .. Len(mem) /\ Extended(mem, mem) /\ pc + 1 \in Nat /\ pc <= pc + 1
    BY SceneIs
  <2>3. Holding => Held(code, decisions, pc + 1, env', mem, handed)
    <3>1. NoOther(env, v, 0)
      BY DEF NoOther
    <3>2. QED BY <1>3, <1>7, <2>1, <2>2, <3>1, Assigned DEF Scene, Holding
  <2>4. env' \in [Variables -> 0 .. Len(mem')]
    BY <1>7, <2>2, SceneIs
  <2>5. Scene'
    BY <1>2, <1>6, <1>7, <2>2, <2>4, SceneNext
  <2>6. QED BY <1>2, <1>7, <2>3, <2>5 DEF Holding
<1>8. CASE \E place \in R!Places :
           /\ place = "foreign" => from = "extern"
           /\ mem' = Append(mem, R!NewBlock(place))
           /\ env' = [env EXCEPT ![v] = Len(mem) + 1]
  <2>1. PICK place \in R!Places : /\ place = "foreign" => from = "extern"
                                  /\ mem' = Append(mem, R!NewBlock(place))
                                  /\ env' = [env EXCEPT ![v] = Len(mem) + 1]
    BY <1>8
  <2>2. PICK x : x = R!NewBlock(place) /\ x \in Blocks /\ x.alive /\ x.place = place /\ x.level = Nesting(code, pc)
    BY NewBlockIs
  <2>3. PICK b : b = Len(mem) + 1
    OBVIOUS
  <2>4. Extended(mem, mem') /\ Len(mem') = b /\ mem'[b] = x /\ b \in 0 .. Len(mem')
    <3>1. mem' = Append(mem, x) /\ mem \in Seq(Blocks) /\ Len(mem) \in Nat
      BY <2>1, <2>2, SceneIs
    <3>2. Extended(mem, mem') /\ Len(mem') = b /\ mem'[b] = x
      BY <2>2, <2>3, <3>1, Newer
    <3>3. QED BY <2>3, <3>1, <3>2
  <2>5. SafeIn(code, decisions, mem', v, b)
    BY <1>3, <1>4, <2>1, <2>2, <2>4, SceneIs DEF SafeIn
  <2>6. b # 0 /\ (\A u \in Variables : env[u] # b) /\ PassedBy(code, pc + 1, handed, v, b)
    BY <2>3, NewToAll
  <2>7. env' = [env EXCEPT ![v] = b]
    BY <2>1, <2>3
  <2>8. ASSUME Holding PROVE Held(code, decisions, pc + 1, env', mem', handed)
    <3>1. Types(code, decisions, pc, env, mem, handed) /\ Held(code, decisions, pc, env, mem, handed)
      BY <2>8 DEF Scene, Holding
    <3>2. PICK e, f, m, n : e = env /\ f = env' /\ m = mem /\ n = mem'
      OBVIOUS
    <3>3. /\ pc + 1 \in Nat /\ pc <= pc + 1 /\ Extended(m, n) /\ b \in 0 .. Len(n) /\ f = [e EXCEPT ![v] = b]
          /\ NoOther(e, v, b)
          /\ SafeIn(code, decisions, n, v, b) /\ PassedBy(code, pc + 1, handed, v, b)
      BY <2>4, <2>5, <2>6, <2>7, <3>2, SceneIs DEF NoOther
    <3>4. Held(code, decisions, pc + 1, f, n, handed)
      BY <1>3, <3>1, <3>2, <3>3, Assigned
    <3>5. QED BY <3>2, <3>4
  <2>9. env' \in [Variables -> 0 .. Len(mem')]
    <3>1. env \in [Variables -> 0 .. Len(mem')]
      BY <2>4, SceneIs DEF Extended
    <3>2. QED BY <2>4, <2>7, <3>1
  <2>10. handed' \subseteq Handings(Len(mem'))
    BY <1>6, <2>4, SceneIs, HandedStay DEF Extended
  <2>11. Scene'
    BY <1>2, <2>4, <2>9, <2>10, SceneNext
  <2>12. QED BY <1>2, <2>8, <2>11 DEF Holding
<1>9. CASE from \in Variables /\ env' = [env EXCEPT ![v] = env[from]] /\ mem' = mem
  <2>1. ~Careful(code)
    BY <1>1, <1>2, <1>9 DEF Careful
  <2>2. env' \in [Variables -> 0 .. Len(mem')]
    BY <1>9, SceneIs
  <2>3. Scene'
    BY <1>2, <1>6, <1>9, <2>2, SceneIs, SceneNext
  <2>4. QED BY <1>2, <2>1, <2>3
<1>10. QED BY <1>5, <1>7, <1>8, <1>9

\* What variables hold is what they held, or a promoted copy.
LEMMA CopiedIs ==
  ASSUME Scene, NEW b, b = Len(mem) + 1, NEW n, n = R!Copied(mem)
  PROVE  /\ Extended(mem, n) /\ Len(n) = b /\ b \in 0 .. Len(n) /\ n[b].alive
         /\ n[b].place = "survivor" /\ \A v : SafeIn(code, decisions, n, v, b) \/ ~decisions[v].tracked
<1>1. PICK x : /\ x = R!NewBlock("survivor") /\ x \in Blocks /\ x.alive /\ x.place = "survivor"
               /\ x.level = Nesting(code, pc)
  <2>1. "survivor" \in R!Places
    BY DEF R!Places
  <2>2. QED BY <2>1, NewBlockIs
<1>2. n = Append(mem, x) /\ mem \in Seq(Blocks) /\ Len(mem) \in Nat
  BY <1>1, SceneIs DEF R!Copied
<1>3. Extended(mem, n) /\ Len(n) = b /\ n[b] = x
  BY <1>1, <1>2, Newer
<1>4. \A v : SafeIn(code, decisions, n, v, b) \/ ~decisions[v].tracked
  BY <1>1, <1>3 DEF SafeIn
<1>5. QED BY <1>1, <1>2, <1>3, <1>4

LEMMA YieldKeeps ==
  ASSUME Scene, Facts(code, decisions), R!Yield
  PROVE  /\ Scene' /\ UNCHANGED <<code, decisions, phase, misfreed>>
         /\ Careful(code) /\ Holding => Holding'
<1>1. PICK v, w : v = code[pc].of /\ w = code[pc].to
  OBVIOUS
<1>2. /\ pc \in 1 .. Len(code) /\ Is(code, pc, "yield") /\ pc' = pc + 1 /\ pc <= Len(code)
      /\ UNCHANGED <<code, decisions, phase, misfreed, handed>>
  BY RunningIs, SceneIs DEF R!Yield, R!Goes, R!Keeps
<1>3. /\ v \in Variables /\ w \in Variables /\ v # w
      /\ Home(code, v) \in Nat /\ Home(code, w) \in Nat
  BY <1>1, <1>2, SceneIs, HomeIs DEF WellFormed
<1>4. decisions[w].tracked /\ (decisions[v].extern => decisions[w].extern)
  BY <1>1, <1>2 DEF Facts
<1>5. PICK copies : copies = (R!PromotesInto(v, w) /\ env[v] # 0) /\ copies \in BOOLEAN
  OBVIOUS
<1>6. PICK b : b = IF copies THEN Len(mem) + 1 ELSE env[v]
  OBVIOUS
<1>7. /\ mem' = IF copies THEN R!Copied(mem) ELSE mem
      /\ env' = [env EXCEPT ![w] = b, ![v] = 0]
  BY <1>1, <1>5, <1>6 DEF R!Yield, R!Moved
<1>8. PICK m, n, e : m = mem /\ n = mem' /\ e = env
  OBVIOUS
<1>9. Extended(m, n) /\ b \in 0 .. Len(n)
  <2>1. CASE copies
    <3>1. n = R!Copied(mem) /\ b = Len(mem) + 1
      BY <1>6, <1>7, <1>8, <2>1
    <3>2. QED BY <1>8, <3>1, CopiedIs
  <2>2. CASE ~copies
    <3>1. n = m /\ b = env[v] /\ env[v] \in 0 .. Len(mem)
      BY <1>3, <1>6, <1>7, <1>8, <2>2, SceneIs
    <3>2. QED BY <1>8, <3>1, SceneIs
  <2>3. QED BY <2>1, <2>2
<1>10. PICK e1 : e1 = [e EXCEPT ![v] = 0]
  OBVIOUS
<1>11. /\ e1 \in [Variables -> 0 .. Len(m)] /\ e1[v] = 0 /\ \A u \in Variables : u # v => e1[u] = e[u]
  BY <1>3, <1>8, <1>10, SceneIs
<1>12. PICK e2 : e2 = [e1 EXCEPT ![w] = b]
  OBVIOUS
<1>13. e2 = env' /\ e2 \in [Variables -> 0 .. Len(n)]
  <2>1. e \in [Variables -> 0 .. Len(m)]
    BY <1>8, SceneIs
  <2>2. env' = [u \in Variables |-> IF u = v THEN 0 ELSE IF u = w THEN b ELSE e[u]]
    BY <1>3, <1>7, <1>8, <2>1
  <2>3. e2 = [u \in Variables |-> IF u = w THEN b ELSE e1[u]]
    BY <1>11, <1>12
  <2>4. \A u \in Variables : (IF u = v THEN 0 ELSE IF u = w THEN b ELSE e[u]) = (IF u = w THEN b ELSE e1[u])
    BY <1>3, <1>11
  <2>5. e2 = env'
    BY <2>2, <2>3, <2>4
  <2>6. \A u \in Variables : e1[u] \in 0 .. Len(n)
    BY <1>8, <1>9, <1>11, SceneIs DEF Extended
  <2>7. QED BY <1>9, <2>3, <2>5, <2>6
<1>14. handed' \subseteq Handings(Len(n))
  BY <1>2, <1>8, <1>9, SceneIs, HandedStay DEF Extended
<1>15. Scene'
  BY <1>2, <1>8, <1>9, <1>13, <1>14, SceneNext
<1>16. ASSUME Careful(code), Holding PROVE Holding'
  <2>1. Types(code, decisions, pc, e, m, handed) /\ Held(code, decisions, pc, e, m, handed)
    BY <1>8, <1>16 DEF Scene, Holding
  <2>2. Types(code, decisions, pc, e1, m, handed)
    BY <1>11, <2>1 DEF Types
  <2>3. Held(code, decisions, pc, e1, m, handed)
    <3>1. NoOther(e, v, 0) /\ 0 \in 0 .. Len(m) /\ Extended(m, m) /\ pc \in Nat /\ pc <= pc
      BY <1>8, SceneIs DEF NoOther
    <3>2. SafeIn(code, decisions, m, v, 0) /\ PassedBy(code, pc, handed, v, 0)
      BY SceneIs, NoPointer
    <3>3. QED BY <1>3, <1>10, <2>1, <3>1, <3>2, Assigned
  <2>4. NoOther(e1, w, b) /\ SafeIn(code, decisions, n, w, b) /\ PassedBy(code, pc + 1, handed, w, b)
    <3>1. CASE copies
      <4>1. n = R!Copied(mem) /\ b = Len(mem) + 1
        BY <1>6, <1>7, <1>8, <3>1
      <4>2. /\ b # 0 /\ (\A u \in Variables : env[u] # b) /\ PassedBy(code, pc + 1, handed, w, b)
            /\ SafeIn(code, decisions, n, w, b)
        BY <1>4, <4>1, CopiedIs, NewToAll
      <4>3. NoOther(e1, w, b)
        BY <1>8, <1>11, <4>2 DEF NoOther
      <4>4. QED BY <4>2, <4>3
    <3>2. CASE ~copies
      <4>1. n = m /\ b = e[v] /\ b \in 0 .. Len(m)
        BY <1>3, <1>6, <1>7, <1>8, <3>2, SceneIs
      <4>2. SafeIn(code, decisions, m, v, b) /\ PassedBy(code, pc, handed, v, b)
        BY <1>3, <2>1, <4>1 DEF Held
      <4>3. NoOther(e1, w, b)
        BY <1>3, <1>11, <2>1, <4>1 DEF NoOther, Held, Apart
      <4>4. PassedBy(code, pc + 1, handed, w, b)
        <5>1. \A j \in 1 .. pc - 1 : ~PassedAt(code, j, v)
          <6>1. ASSUME NEW j \in 1 .. pc - 1, PassedAt(code, j, v) PROVE FALSE
            <7>1. j \in 1 .. Len(code) /\ pc \in j + 1 .. Len(code)
              BY <1>2, SceneIs
            <7>2. QED BY <1>1, <1>16, <6>1, <7>1 DEF Careful, PassedAt
          <6>2. QED BY <6>1
        <5>2. QED BY <4>2, <5>1 DEF PassedBy
      <4>5. SafeIn(code, decisions, m, w, b)
        <5>1. CASE b = 0
          BY <5>1 DEF SafeIn
        <5>2. CASE ~decisions[v].tracked
          BY <1>4, <4>2, <5>2 DEF SafeIn, Original
        <5>3. CASE b # 0 /\ decisions[v].tracked
          <6>1. ~R!PromotesInto(v, w)
            BY <1>5, <1>8, <3>2, <4>1, <5>3
          <6>2. decisions[v].kind = "BumpPool" \/ decisions[v].drop = "None"
            BY <1>3, SceneIs DEF Facts, Decisions
          <6>3. ~(Home(code, w) < Home(code, v))
            BY <5>3, <6>1, <6>2, DeclDepthIs DEF R!PromotesInto
          <6>4. Home(code, v) <= Home(code, w)
            BY <1>3, <6>3
          <6>5. m[b] \in Blocks
            BY <1>8, <4>1, <5>3, SceneIs, BlocksOf
          <6>6. m[b].place = "heap" => m[b].level <= Home(code, w)
            BY <1>3, <4>2, <5>3, <6>4, <6>5 DEF SafeIn, Blocks
          <6>7. QED BY <1>4, <4>2, <6>6 DEF SafeIn
        <5>4. QED BY <5>1, <5>2, <5>3
      <4>6. QED BY <4>1, <4>3, <4>4, <4>5
    <3>3. QED BY <1>5, <3>1, <3>2
  <2>5. Held(code, decisions, pc + 1, e2, n, handed)
    <3>1. pc + 1 \in Nat /\ pc <= pc + 1
      BY SceneIs
    <3>2. QED BY <1>3, <1>9, <1>12, <2>2, <2>3, <2>4, <3>1, Assigned
  <2>6. QED BY <1>2, <1>8, <1>13, <2>5 DEF Holding
<1>17. QED BY <1>2, <1>15, <1>16

LEMMA ReleaseKeeps ==
  ASSUME Scene, R!Release
  PROVE  Scene' /\ UNCHANGED <<code, decisions, phase, misfreed>> /\ ~Careful(code)
<1>1. /\ pc \in 1 .. Len(code) /\ Is(code, pc, "release") /\ pc' = pc + 1 /\ pc <= Len(code)
      /\ UNCHANGED <<code, decisions, phase, misfreed, handed, mem>>
      /\ env' = [env EXCEPT ![code[pc].to] = env[code[pc].of]]
  BY RunningIs, SceneIs DEF R!Release, R!Goes, R!Keeps
<1>2. code[pc].of \in Variables /\ code[pc].to \in Variables
  BY <1>1, SceneIs, HomeIs DEF WellFormed
<1>3. env' \in [Variables -> 0 .. Len(mem')]
  BY <1>1, <1>2, SceneIs
<1>4. Scene'
  BY <1>1, <1>3, SceneIs, SceneNext
<1>5. ~Careful(code)
  BY <1>1 DEF Careful
<1>6. QED BY <1>1, <1>4, <1>5

Handing(v, how, b) == IF b = 0 THEN {} ELSE {[var |-> v, how |-> how, block |-> b]}

LEMMA HandingIs ==
  ASSUME NEW v \in Variables, NEW how \in {"pass", "return"}, NEW n \in Nat, NEW b \in 0 .. n
  PROVE  /\ Handing(v, how, b) \subseteq Handings(n)
         /\ \A g \in Handing(v, how, b) : g.var = v /\ g.how = how /\ g.block = b /\ b # 0
<1>1. CASE b = 0
  BY <1>1 DEF Handing
<1>2. CASE b # 0
  <2>1. PICK g : g = [var |-> v, how |-> how, block |-> b]
    OBVIOUS
  <2>2. g \in Handings(n) /\ g.var = v /\ g.how = how /\ g.block = b
    BY <1>2, <2>1 DEF Handings
  <2>3. Handing(v, how, b) = {g}
    BY <1>2, <2>1 DEF Handing
  <2>4. QED BY <1>2, <2>2, <2>3
<1>3. QED BY <1>1, <1>2

LEMMA PassKeeps ==
  ASSUME Scene, Facts(code, decisions), R!Pass
  PROVE  /\ Scene' /\ UNCHANGED <<code, decisions, phase, misfreed>>
         /\ Careful(code) /\ Holding => Holding'
<1>1. PICK v : v = code[pc].of
  OBVIOUS
<1>2. /\ pc \in 1 .. Len(code) /\ Is(code, pc, "pass") /\ pc' = pc + 1 /\ pc <= Len(code)
      /\ UNCHANGED <<code, decisions, phase, misfreed>>
  BY RunningIs, SceneIs DEF R!Pass, R!Goes, R!Keeps
<1>3. v \in Variables /\ PassedAt(code, pc, v)
  BY <1>1, <1>2, SceneIs, HomeIs DEF WellFormed, PassedAt
<1>4. PICK copies : copies = (decisions[v].kind = "BumpPool" /\ env[v] # 0) /\ copies \in BOOLEAN
  OBVIOUS
<1>5. PICK b : b = IF copies THEN Len(mem) + 1 ELSE env[v]
  OBVIOUS
<1>6. /\ mem' = IF copies THEN R!Copied(mem) ELSE mem
      /\ env' = [env EXCEPT ![v] = b]
      /\ handed' = handed \cup Handing(v, "pass", b)
  BY <1>1, <1>4, <1>5 DEF R!Pass, R!PromotesPassed, R!Hand, Handing
<1>7. PICK m, n, e, f : m = mem /\ n = mem' /\ e = env /\ f = env'
  OBVIOUS
<1>8. Extended(m, n) /\ b \in 0 .. Len(n)
  <2>1. CASE copies
    <3>1. n = R!Copied(mem) /\ b = Len(mem) + 1
      BY <1>5, <1>6, <1>7, <2>1
    <3>2. QED BY <1>7, <3>1, CopiedIs
  <2>2. CASE ~copies
    <3>1. n = m /\ b = env[v] /\ env[v] \in 0 .. Len(mem)
      BY <1>3, <1>5, <1>6, <1>7, <2>2, SceneIs
    <3>2. QED BY <1>7, <3>1, SceneIs
  <2>3. QED BY <2>1, <2>2
<1>9. f = [e EXCEPT ![v] = b] /\ f \in [Variables -> 0 .. Len(n)]
  <2>1. e \in [Variables -> 0 .. Len(n)]
    BY <1>7, <1>8, SceneIs DEF Extended
  <2>2. QED BY <1>6, <1>7, <1>8, <2>1
<1>10. PICK new : new = Handing(v, "pass", b)
  OBVIOUS
<1>11. new \subseteq Handings(Len(n)) /\ \A g \in new : g.var = v /\ g.how = "pass" /\ g.block = b /\ b # 0
  <2>1. Len(n) \in Nat
    BY <1>8 DEF Extended
  <2>2. QED BY <1>3, <1>8, <1>10, <2>1, HandingIs
<1>12. handed \subseteq Handings(Len(n))
  BY <1>7, <1>8, SceneIs, HandedStay DEF Extended
<1>13. Scene'
  BY <1>2, <1>6, <1>7, <1>8, <1>9, <1>10, <1>11, <1>12, SceneNext
<1>14. ASSUME Careful(code), Holding PROVE Holding'
  <2>1. Types(code, decisions, pc, e, m, handed) /\ Held(code, decisions, pc, e, m, handed)
    BY <1>7, <1>14 DEF Scene, Holding
  <2>2. SafeIn(code, decisions, mem, v, env[v]) /\ PassedBy(code, pc, handed, v, env[v]) /\ Apart(env)
    BY <1>3, <1>14 DEF Holding, Held
  <2>3. /\ NoOther(e, v, b) /\ SafeIn(code, decisions, n, v, b) /\ PassedBy(code, pc + 1, handed, v, b)
        /\ \A g \in new : Kept(code, decisions, pc + 1, n, g)
    <3>1. CASE copies
      <4>1. n = R!Copied(mem) /\ b = Len(mem) + 1 /\ decisions[v].kind = "BumpPool"
        BY <1>4, <1>5, <1>6, <1>7, <3>1
      <4>2. /\ b # 0 /\ (\A u \in Variables : env[u] # b) /\ PassedBy(code, pc + 1, handed, v, b)
            /\ n[b].alive /\ n[b].place = "survivor" /\ SafeIn(code, decisions, n, v, b)
        BY <1>3, <4>1, CopiedIs, NewToAll DEF Facts
      <4>3. NoOther(e, v, b)
        BY <1>7, <4>2 DEF NoOther
      <4>4. PromotedBefore(code, decisions, pc + 1)
        <5>1. pc \in 1 .. pc + 1 - 1
          BY SceneIs
        <5>2. QED BY <1>1, <1>2, <4>1, <5>1 DEF PromotedBefore
      <4>5. QED BY <1>11, <4>2, <4>3, <4>4 DEF Kept
    <3>2. CASE ~copies
      <4>1. n = m /\ b = env[v] /\ b \in 0 .. Len(m)
        BY <1>3, <1>5, <1>6, <1>7, <3>2, SceneIs
      <4>2. NoOther(e, v, b)
        BY <1>3, <1>7, <2>2, <4>1 DEF NoOther, Apart
      <4>3. PassedBy(code, pc + 1, handed, v, b)
        <5>1. pc \in 1 .. pc + 1 - 1
          BY SceneIs
        <5>2. QED BY <1>3, <5>1 DEF PassedBy
      <4>4. b # 0 /\ ~YieldedIn(code, v) => n[b].alive /\ Original(n, b)
        <5>1. b # 0 => decisions[v].kind # "BumpPool"
          BY <1>4, <3>2, <4>1
        <5>2. b # 0 /\ ~YieldedIn(code, v) => ~decisions[v].tracked
          BY <1>3, <5>1 DEF Facts
        <5>3. QED BY <1>7, <2>2, <4>1, <5>2 DEF SafeIn
      <4>5. \A g \in new : Kept(code, decisions, pc + 1, n, g)
        BY <1>11, <4>4 DEF Kept, Original
      <4>6. QED BY <1>7, <2>2, <4>1, <4>2, <4>3, <4>5
    <3>3. QED BY <1>4, <3>1, <3>2
  <2>4. Held(code, decisions, pc + 1, f, n, handed)
    <3>1. pc + 1 \in Nat /\ pc <= pc + 1
      BY SceneIs
    <3>2. QED BY <1>3, <1>8, <1>9, <2>1, <2>3, <3>1, Assigned
  <2>5. PICK h : h = handed'
    OBVIOUS
  <2>6. h = handed \cup new
    BY <1>6, <1>10, <2>5
  <2>7. ASSUME NEW u \in Variables PROVE PassedBy(code, pc + 1, h, u, f[u])
    <3>1. PICK l : l = pc + 1
      OBVIOUS
    <3>2. \A g \in handed : g.block = f[u] => \E j \in 1 .. l - 1 : PassedAt(code, j, u)
      BY <2>4, <3>1 DEF Held, PassedBy
    <3>3. ASSUME NEW g \in new, g.block = f[u] PROVE \E j \in 1 .. l - 1 : PassedAt(code, j, u)
      <4>1. f[u] = b /\ b # 0
        BY <1>11, <3>3
      <4>2. u = v
        <5>1. ASSUME u # v PROVE FALSE
          <6>1. f[u] = e[u]
            BY <1>7, <1>9, <5>1, SceneIs
          <6>2. QED BY <2>3, <4>1, <5>1, <6>1 DEF NoOther
        <5>2. QED BY <5>1
      <4>3. pc \in 1 .. l - 1
        BY <3>1, SceneIs
      <4>4. QED BY <1>3, <4>2, <4>3
    <3>4. PassedBy(code, l, h, u, f[u])
      BY <2>6, <3>2, <3>3 DEF PassedBy
    <3>5. QED BY <3>1, <3>4
  <2>8. Held(code, decisions, pc + 1, f, n, h)
    BY <2>3, <2>4, <2>6, <2>7 DEF Held
  <2>9. QED BY <1>2, <1>7, <2>5, <2>8 DEF Holding
<1>15. QED BY <1>2, <1>13, <1>14

LEMMA MatchingEndIs ==
  ASSUME Scene, Closed(code), pc \in 1 .. Len(code), Is(code, pc, "if")
  PROVE  R!MatchingEnd(pc) \in pc .. Len(code)
<1>1. \E e \in pc .. Len(code) : EndOf(code, pc, e)
  BY SceneIs, IfHasEnd
<1>2. R!MatchingEnd(pc) = CHOOSE e \in pc .. Len(code) : EndOf(code, pc, e)
  BY NestingIs, SceneIs DEF R!MatchingEnd, EndOf, R!At, Is
<1>3. QED BY <1>1, <1>2

LEMMA IfKeeps ==
  ASSUME Scene, Closed(code), R!If
  PROVE  /\ Scene' /\ UNCHANGED <<code, decisions, phase, misfreed>>
         /\ Careful(code) /\ Holding => Holding'
<1>1. /\ pc \in 1 .. Len(code) /\ Is(code, pc, "if")
      /\ UNCHANGED <<code, decisions, phase, misfreed, env, mem, handed>>
      /\ pc' = pc + 1 \/ pc' = R!MatchingEnd(pc) + 1
  BY RunningIs DEF R!If, R!Goes, R!Keeps
<1>2. PICK l : l = pc' /\ l \in Nat /\ pc <= l /\ l \in 1 .. Len(code) + 1
  <2>1. CASE pc' = pc + 1
    BY <1>1, <2>1, SceneIs
  <2>2. CASE pc' = R!MatchingEnd(pc) + 1
    <3>1. PICK a : a = R!MatchingEnd(pc) /\ a \in pc .. Len(code)
      BY <1>1, MatchingEndIs
    <3>2. QED BY <2>2, <3>1, SceneIs
  <2>3. QED BY <1>1, <2>1, <2>2
<1>3. Scene'
  BY <1>1, <1>2, SceneIs DEF Scene, Types
<1>4. ASSUME Holding PROVE Holding'
  <2>1. /\ \A v, b : PassedBy(code, pc, handed, v, b) => PassedBy(code, l, handed, v, b)
        /\ \A g : g.block \in 1 .. Len(mem) /\ Kept(code, decisions, pc, mem, g) =>
             Kept(code, decisions, l, mem, g)
    BY <1>2, SceneIs, HoldsOn
  <2>2. \A g \in handed : g.block \in 1 .. Len(mem)
    BY SceneIs DEF Handings
  <2>3. Held(code, decisions, l, env, mem, handed)
    BY <1>4, <2>1, <2>2 DEF Held, Holding
  <2>4. QED BY <1>1, <1>2, <2>3 DEF Holding
<1>5. QED BY <1>1, <1>3, <1>4

-----------------------------------------------------------------------------
(* What is freed, popped and rewound.                                       *)

Fewer(m, n) ==
  /\ n \in Seq(Blocks) /\ Len(n) = Len(m)
  /\ \A b \in 1 .. Len(m) : /\ n[b].place = m[b].place /\ n[b].level = m[b].level
                            /\ n[b].alive => m[b].alive

Ended(m, b) == [m[b] EXCEPT !.alive = FALSE]

LEMMA EndedIs ==
  ASSUME NEW m \in Seq(Blocks), NEW b \in 1 .. Len(m)
  PROVE  /\ Ended(m, b) \in Blocks /\ Ended(m, b).place = m[b].place
         /\ Ended(m, b).level = m[b].level /\ ~Ended(m, b).alive
<1>1. PICK r : r = m[b] /\ r \in Blocks
  BY BlocksOf
<1>2. PICK d : d = [r EXCEPT !.alive = FALSE]
  OBVIOUS
<1>3. d \in Blocks /\ d.place = r.place /\ d.level = r.level /\ ~d.alive
  BY <1>1, <1>2 DEF Blocks
<1>4. QED BY <1>1, <1>2, <1>3 DEF Ended

\* Some blocks end.
LEMMA Reaping ==
  ASSUME NEW m \in Seq(Blocks), NEW K,
         NEW n, n = [b \in DOMAIN m |-> IF b \in K THEN Ended(m, b) ELSE m[b]]
  PROVE  Fewer(m, n) /\ \A b \in 1 .. Len(m) : b \notin K => n[b] = m[b]
<1>1. Len(m) \in Nat /\ DOMAIN m = 1 .. Len(m) /\ \A b \in 1 .. Len(m) : m[b] \in Blocks
  BY BlocksOf
<1>2. n = [b \in 1 .. Len(m) |-> IF b \in K THEN Ended(m, b) ELSE m[b]]
  BY <1>1
<1>3. \A b \in 1 .. Len(m) : n[b] = IF b \in K THEN Ended(m, b) ELSE m[b]
  BY <1>2
<1>4. ASSUME NEW b \in 1 .. Len(m)
      PROVE  /\ n[b] \in Blocks /\ n[b].place = m[b].place /\ n[b].level = m[b].level
             /\ n[b].alive => m[b].alive
  <2>1. CASE b \in K
    BY <1>3, <2>1, EndedIs
  <2>2. CASE b \notin K
    BY <1>1, <1>3, <2>2
  <2>3. QED BY <2>1, <2>2
<1>5. n \in Seq(Blocks) /\ Len(n) = Len(m)
  <2>1. n \in [1 .. Len(m) -> Blocks]
    <3>1. n = [b \in 1 .. Len(m) |-> n[b]]
      BY <1>2
    <3>2. QED BY <1>4, <3>1
  <2>2. n \in Seq(Blocks)
    BY <1>1, <2>1
  <2>3. Len(n) = Len(m)
    BY <1>1, <1>2, <2>2, LenProperties
  <2>4. QED BY <2>2, <2>3
<1>6. QED BY <1>3, <1>4, <1>5 DEF Fewer

HeldBy(e, W) == {b \in Nat : \E v \in W : e[v] = b}

LEMMA FreedIs ==
  ASSUME NEW m \in Seq(Blocks), NEW W
  PROVE  /\ Fewer(m, R!Freed(m, W))
         /\ \A b \in 1 .. Len(m) :
              m[b].place # "survivor" \/ (\A v \in W : env[v] # b) => R!Freed(m, W)[b] = m[b]
<1>1. Len(m) \in Nat /\ DOMAIN m = 1 .. Len(m)
  BY BlocksOf
<1>2. PICK K : K = {b \in 1 .. Len(m) : m[b].place = "survivor" /\ \E v \in W : env[v] = b}
  OBVIOUS
<1>3. PICK n : n = R!Freed(m, W)
  OBVIOUS
<1>4. n = [b \in 1 .. Len(m) |->
             IF m[b].place = "survivor" /\ \E v \in W : env[v] = b THEN Ended(m, b) ELSE m[b]]
  BY <1>1, <1>3 DEF R!Freed, Ended
<1>5. n = [b \in DOMAIN m |-> IF b \in K THEN Ended(m, b) ELSE m[b]]
  <2>1. \A b \in 1 .. Len(m) :
          (IF m[b].place = "survivor" /\ \E v \in W : env[v] = b THEN Ended(m, b) ELSE m[b])
            = (IF b \in K THEN Ended(m, b) ELSE m[b])
    BY <1>2
  <2>2. QED BY <1>1, <1>4, <2>1
<1>6. Fewer(m, n) /\ \A b \in 1 .. Len(m) : b \notin K => n[b] = m[b]
  BY <1>5, Reaping
<1>7. QED BY <1>2, <1>3, <1>6

LEMMA DiesIs ==
  ASSUME NEW m \in Seq(Blocks), NEW place, NEW level
  PROVE  /\ Fewer(m, R!Dies(m, place, level))
         /\ \A b \in 1 .. Len(m) :
              m[b].place # place \/ ~(m[b].level >= level) => R!Dies(m, place, level)[b] = m[b]
<1>1. Len(m) \in Nat /\ DOMAIN m = 1 .. Len(m)
  BY BlocksOf
<1>2. PICK K : K = {b \in 1 .. Len(m) : m[b].place = place /\ m[b].level >= level}
  OBVIOUS
<1>3. PICK n : n = R!Dies(m, place, level)
  OBVIOUS
<1>4. n = [b \in 1 .. Len(m) |-> IF m[b].place = place /\ m[b].level >= level THEN Ended(m, b) ELSE m[b]]
  BY <1>1, <1>3 DEF R!Dies, Ended
<1>5. n = [b \in DOMAIN m |-> IF b \in K THEN Ended(m, b) ELSE m[b]]
  <2>1. \A b \in 1 .. Len(m) :
          (IF m[b].place = place /\ m[b].level >= level THEN Ended(m, b) ELSE m[b])
            = (IF b \in K THEN Ended(m, b) ELSE m[b])
    BY <1>2
  <2>2. QED BY <1>1, <1>4, <2>1
<1>6. Fewer(m, n) /\ \A b \in 1 .. Len(m) : b \notin K => n[b] = m[b]
  BY <1>5, Reaping
<1>7. QED BY <1>2, <1>3, <1>6

LEMMA FewerStill ==
  ASSUME NEW m \in Seq(Blocks), NEW n, NEW p, Fewer(m, n), Fewer(n, p)
  PROVE  Fewer(m, p)
BY DEF Fewer

\* What is left for the variables and handed out goes on being so.
LEMMA Reaped ==
  ASSUME NEW c, NEW d, NEW k, NEW e, NEW m, NEW h, Types(c, d, k, e, m, h), Held(c, d, k, e, m, h),
         NEW l \in Nat, k <= l, NEW n, Fewer(m, n), NEW f,
         \A v \in Variables : f[v] = 0 \/ (f[v] = e[v] /\ n[e[v]].alive),
         \A g \in h : m[g.block].alive /\ m[g.block].place = "survivor" => n[g.block].alive
  PROVE  Held(c, d, l, f, n, h)
<1>1. k \in Nat /\ Len(m) \in Nat /\ \A v \in Variables : e[v] \in 0 .. Len(m)
  BY DEF Types, WellFormed
<1>2. \A g \in h : g.block \in 1 .. Len(m)
  BY DEF Types, Handings
<1>3. \A j \in 1 .. k - 1 : j \in 1 .. l - 1
  BY <1>1
<1>4. Apart(f)
  BY DEF Held, Apart
<1>5. ASSUME NEW v \in Variables PROVE SafeIn(c, d, n, v, f[v]) /\ PassedBy(c, l, h, v, f[v])
  <2>1. CASE f[v] = 0
    <3>1. h \subseteq Handings(Len(m))
      BY DEF Types
    <3>2. QED BY <2>1, <3>1, NoPointer
  <2>2. CASE f[v] # 0
    <3>1. f[v] = e[v] /\ n[e[v]].alive /\ e[v] \in 1 .. Len(m)
      BY <1>1, <2>2
    <3>2. n[e[v]].place = m[e[v]].place /\ n[e[v]].level = m[e[v]].level
      BY <3>1 DEF Fewer
    <3>3. SafeIn(c, d, m, v, e[v]) /\ PassedBy(c, k, h, v, e[v])
      BY DEF Held
    <3>4. SafeIn(c, d, n, v, f[v])
      BY <2>2, <3>1, <3>2, <3>3 DEF SafeIn, Original
    <3>5. PassedBy(c, l, h, v, f[v])
      BY <1>3, <3>1, <3>3 DEF PassedBy
    <3>6. QED BY <3>4, <3>5
  <2>3. QED BY <2>1, <2>2
<1>6. PromotedBefore(c, d, k) => PromotedBefore(c, d, l)
  BY <1>3 DEF PromotedBefore
<1>7. ASSUME NEW g \in h PROVE Kept(c, d, l, n, g)
  <2>1. Kept(c, d, k, m, g) /\ g.block \in 1 .. Len(m)
    BY <1>2 DEF Held
  <2>2. n[g.block].place = m[g.block].place /\ n[g.block].level = m[g.block].level
    BY <2>1 DEF Fewer
  <2>3. QED BY <1>6, <2>1, <2>2 DEF Kept, Original
<1>8. QED BY <1>4, <1>5, <1>7 DEF Held

\* The frees of variables that own what they hold.
LEMMA FreesAreRight ==
  ASSUME Scene, Facts(code, decisions), Holding,
         NEW W, W \subseteq Variables, \A v \in W : R!Frees(v)
  PROVE  /\ ~R!Misfrees(W)
         /\ \A g \in handed, v \in W : env[v] # g.block
<1>1. ASSUME NEW v \in W
      PROVE  ~PassedIn(code, v) /\ ~decisions[v].extern /\ v \in Variables
  BY DEF R!Frees, Facts
<1>2. ASSUME NEW g \in handed, NEW v \in W, env[v] = g.block PROVE FALSE
  <2>1. \E j \in 1 .. pc - 1 : PassedAt(code, j, v)
    BY <1>1, <1>2 DEF Holding, Held, PassedBy
  <2>2. \A j \in 1 .. pc - 1 : j \in 1 .. Len(code)
    BY SceneIs
  <2>3. QED BY <1>1, <2>1, <2>2 DEF PassedIn
<1>3. ASSUME R!Misfrees(W) PROVE FALSE
  <2>1. PICK v \in W : /\ env[v] # 0 /\ mem[env[v]].place # "heap"
                       /\ \/ mem[env[v]].place = "foreign" \/ ~mem[env[v]].alive
                          \/ \E h \in handed : h.block = env[v]
                          \/ \E w \in W \ {v} : env[w] = env[v]
    BY <1>3 DEF R!Misfrees
  <2>2. SafeIn(code, decisions, mem, v, env[v])
    BY <1>1 DEF Holding, Held
  <2>3. mem[env[v]].place # "foreign" /\ mem[env[v]].alive
    BY <1>1, <2>1, <2>2 DEF SafeIn
  <2>4. ~\E h \in handed : h.block = env[v]
    BY <1>2
  <2>5. ~\E w \in W \ {v} : env[w] = env[v]
    BY <1>1, <2>1 DEF Holding, Held, Apart
  <2>6. QED BY <2>1, <2>3, <2>4, <2>5
<1>4. QED BY <1>2, <1>3

-----------------------------------------------------------------------------
(* Leaving blocks and the function.                                         *)

LEMMA LeavingIs ==
  ASSUME NEW m \in Seq(Blocks)
  PROVE  /\ Fewer(m, R!Leaving(m))
         /\ \A b \in 1 .. Len(m) :
              m[b].place # "heap" \/ ~(m[b].level >= Nesting(code, pc)) => R!Leaving(m)[b] = m[b]
<1>1. CASE R!Reclaims(R!Opening(pc))
  <2>1. R!Leaving(m) = R!Dies(m, "heap", Nesting(code, pc))
    BY <1>1, NestingIs DEF R!Leaving
  <2>2. QED BY <2>1, DiesIs
<1>2. CASE ~R!Reclaims(R!Opening(pc))
  <2>1. R!Leaving(m) = m
    BY <1>2 DEF R!Leaving
  <2>2. QED BY <2>1 DEF Fewer
<1>3. QED BY <1>1, <1>2

LEMMA EndKeeps ==
  ASSUME Scene, Facts(code, decisions), misfreed \in BOOLEAN, R!End
  PROVE  /\ Scene' /\ UNCHANGED <<code, decisions, phase>> /\ misfreed' \in BOOLEAN
         /\ Careful(code) /\ Holding /\ ~misfreed => Holding' /\ ~misfreed'
<1>1. PICK W : W = R!Ending(pc)
  OBVIOUS
<1>2. /\ pc \in 1 .. Len(code) /\ Is(code, pc, "end") /\ pc' = pc + 1
      /\ pc + 1 \in 1 .. Len(code) + 1
      /\ UNCHANGED <<code, decisions, phase, handed>>
  BY RunningIs, SceneIs DEF R!End, R!Goes, R!Keeps
<1>3. /\ misfreed' = (misfreed \/ R!Misfrees(W))
      /\ mem' = R!Leaving(R!Freed(mem, W))
      /\ env' = [v \in Variables |-> IF v \in R!Visible(pc + 1) THEN env[v] ELSE 0]
  BY <1>1, NamesApart DEF R!End
<1>4. PICK m, f, n, e, e2 : m = mem /\ f = R!Freed(mem, W) /\ n = mem' /\ e = env /\ e2 = env'
  OBVIOUS
<1>5. /\ Fewer(m, f)
      /\ \A b \in 1 .. Len(m) : m[b].place # "survivor" \/ (\A v \in W : e[v] # b) => f[b] = m[b]
  BY <1>4, SceneIs, FreedIs
<1>6. /\ Fewer(f, n)
      /\ \A b \in 1 .. Len(f) : f[b].place # "heap" \/ ~(f[b].level >= Nesting(code, pc)) => n[b] = f[b]
  <2>1. f \in Seq(Blocks) /\ n = R!Leaving(f)
    BY <1>3, <1>4, <1>5 DEF Fewer
  <2>2. QED BY <2>1, LeavingIs
<1>7. Fewer(m, n) /\ Len(n) = Len(m) /\ Len(f) = Len(m)
  <2>1. m \in Seq(Blocks)
    BY <1>4, SceneIs
  <2>2. QED BY <1>5, <1>6, <2>1, FewerStill DEF Fewer
<1>8. e2 \in [Variables -> 0 .. Len(n)] /\ \A v \in Variables : e2[v] = IF v \in R!Visible(pc + 1) THEN e[v] ELSE 0
  <2>1. e2 = [v \in Variables |-> IF v \in R!Visible(pc + 1) THEN e[v] ELSE 0]
    BY <1>3, <1>4
  <2>2. e \in [Variables -> 0 .. Len(n)] /\ Len(n) \in Nat
    BY <1>4, <1>7, SceneIs
  <2>3. QED BY <2>1, <2>2
<1>9. Scene'
  <2>1. mem' \in Seq(Blocks) /\ env' \in [Variables -> 0 .. Len(mem')] /\ handed' \subseteq Handings(Len(mem'))
    BY <1>2, <1>4, <1>7, <1>8, SceneIs DEF Fewer
  <2>2. QED BY <1>2, <2>1, SceneIs DEF Scene, Types
<1>10. misfreed' \in BOOLEAN
  BY <1>3 DEF R!Misfrees
<1>11. ASSUME Careful(code), Holding, ~misfreed PROVE Holding' /\ ~misfreed'
  <2>1. \A v \in W : R!Frees(v) /\ v \in R!Visible(pc) /\ R!DeclDepth(v) = R!DepthAt(pc)
    BY <1>1 DEF R!Ending
  <2>2. \A v \in W : v \in Variables /\ Home(code, v) = Nesting(code, pc)
    BY <2>1, SceneIs, HomeIs, NestingIs, DeclDepthIs, DeclaredIs DEF R!Visible
  <2>3. ~R!Misfrees(W) /\ \A g \in handed, v \in W : e[v] # g.block
    BY <1>4, <1>11, <2>1, <2>2, FreesAreRight
  <2>4. ASSUME NEW v \in Variables PROVE e2[v] = 0 \/ (e2[v] = e[v] /\ n[e[v]].alive)
    <3>1. CASE v \notin R!Visible(pc + 1) \/ e[v] = 0
      BY <1>8, <3>1
    <3>2. CASE v \in R!Visible(pc + 1) /\ e[v] # 0
      <4>1. PICK b : b = e[v] /\ b \in 1 .. Len(m)
        BY <1>4, <3>2, SceneIs
      <4>2. Home(code, v) \in Nat /\ Home(code, v) < Nesting(code, pc)
        <5>1. v \in Known(code) /\ Home(code, v) <= Nesting(code, pc + 1)
          BY <1>2, <3>2, SceneIs, VisibleIs
        <5>2. Nesting(code, pc + 1) = Nesting(code, pc) - 1
          BY <1>2, SceneIs, NestingNext
        <5>3. QED BY <5>1, <5>2, SceneIs, HomeIs
      <4>3. SafeIn(code, decisions, m, v, b) /\ m[b] \in Blocks
        BY <1>4, <1>11, <4>1, SceneIs, BlocksOf DEF Holding, Held
      <4>4. \A w \in W : e[w] # b
        <5>1. ASSUME NEW w \in W, e[w] = b PROVE FALSE
          <6>1. w = v
            BY <1>4, <1>11, <2>2, <3>2, <4>1, <5>1 DEF Holding, Held, Apart
          <6>2. Home(code, v) = Nesting(code, pc)
            BY <2>2, <6>1
          <6>3. QED BY <4>2, <6>2, SceneIs
        <5>2. QED BY <5>1
      <4>5. f[b] = m[b]
        BY <1>5, <4>1, <4>4
      <4>6. m[b].alive /\ (m[b].place = "heap" => ~(m[b].level >= Nesting(code, pc)))
        BY <3>2, <4>1, <4>2, <4>3, SceneIs DEF SafeIn, Blocks
      <4>7. n[b] = f[b]
        BY <1>6, <1>7, <4>1, <4>5, <4>6
      <4>8. QED BY <1>8, <3>2, <4>1, <4>5, <4>6, <4>7
    <3>3. QED BY <3>1, <3>2
  <2>5. ASSUME NEW g \in handed, m[g.block].alive, m[g.block].place = "survivor" PROVE n[g.block].alive
    <3>1. g.block \in 1 .. Len(m) /\ \A v \in W : e[v] # g.block
      BY <1>4, <2>3, SceneIs DEF Handings
    <3>2. f[g.block] = m[g.block]
      BY <1>5, <3>1
    <3>3. n[g.block] = f[g.block]
      BY <1>6, <1>7, <2>5, <3>1, <3>2
    <3>4. QED BY <2>5, <3>2, <3>3
  <2>6. Types(code, decisions, pc, e, m, handed) /\ Held(code, decisions, pc, e, m, handed)
    BY <1>4, <1>11 DEF Scene, Holding
  <2>7. Held(code, decisions, pc + 1, e2, n, handed)
    <3>1. pc + 1 \in Nat /\ pc <= pc + 1
      BY SceneIs
    <3>2. QED BY <1>7, <2>4, <2>5, <2>6, <3>1, Reaped
  <2>8. Holding'
    BY <1>2, <1>4, <2>7 DEF Holding
  <2>9. QED BY <1>3, <1>11, <2>3, <2>8
<1>12. QED BY <1>2, <1>9, <1>10, <1>11

LEMMA PoppedIs ==
  ASSUME NEW m \in Seq(Blocks)
  PROVE  /\ Fewer(m, R!Popped(m))
         /\ \A b \in 1 .. Len(m) : m[b].place = "survivor" => R!Popped(m)[b] = m[b]
<1>1. PICK l : R!Popped(m) = R!Dies(m, "heap", l)
  BY DEF R!Popped
<1>2. QED BY <1>1, DiesIs

LEMMA RewoundIs ==
  ASSUME NEW m \in Seq(Blocks), NEW emits
  PROVE  /\ Fewer(m, R!Rewound(m, emits))
         /\ \A b \in 1 .. Len(m) : m[b].level = 0 \/ emits => R!Rewound(m, emits)[b] = m[b]
<1>1. CASE R!UsesScope /\ ~emits
  <2>1. R!Rewound(m, emits) = R!Dies(m, "survivor", 1)
    BY <1>1 DEF R!Rewound
  <2>2. \A b \in 1 .. Len(m) : m[b].level = 0 => ~(m[b].level >= 1)
    OBVIOUS
  <2>3. QED BY <1>1, <2>1, <2>2, DiesIs
<1>2. CASE ~(R!UsesScope /\ ~emits)
  <2>1. R!Rewound(m, emits) = m
    BY <1>2 DEF R!Rewound
  <2>2. QED BY <2>1 DEF Fewer
<1>3. QED BY <1>1, <1>2

LEMMA PromotesIs ==
  ASSUME NEW s
  PROVE  /\ s.op = "pass" /\ decisions[s.of].kind = "BumpPool" => R!Promotes(s)
         /\ s.op = "return" /\ R!PromotesReturned(s.of) => R!Promotes(s)
<1>1. ASSUME s.op = "pass" PROVE R!Promotes(s) = R!PromotesPassed(s.of)
  <2>1. s.op # "yield" /\ s.op # "return"
    BY <1>1
  <2>2. QED BY <1>1, <2>1, Zenon DEF R!Promotes
<1>2. ASSUME s.op = "return" PROVE R!Promotes(s) = R!PromotesReturned(s.of)
  <2>1. s.op # "yield" /\ s.op # "pass"
    BY <1>2
  <2>2. QED BY <1>2, <2>1, Zenon DEF R!Promotes
<1>3. QED BY <1>1, <1>2 DEF R!PromotesPassed

LEMMA EmitsIs ==
  ASSUME Scene, NEW k, k \in Nat, k <= Len(code)
  PROVE  /\ PromotedBefore(code, decisions, k + 1) => R!EmitsPromote(k)
         /\ k \in 1 .. Len(code) /\ Is(code, k, "return") /\ R!PromotesReturned(code[k].of) => R!EmitsPromote(k)
<1>1. \A j \in 1 .. k : j <= R!Length
  BY SceneIs
<1>2. ASSUME NEW j \in 1 .. k + 1 - 1, Is(code, j, "pass") /\ decisions[code[j].of].kind = "BumpPool"
      PROVE  R!EmitsPromote(k)
  <2>1. j \in 1 .. k
    OBVIOUS
  <2>2. R!Promotes(code[j])
    BY <1>2, PromotesIs DEF Is
  <2>3. QED BY <1>1, <2>1, <2>2 DEF R!EmitsPromote
<1>3. ASSUME k \in 1 .. Len(code), Is(code, k, "return"), R!PromotesReturned(code[k].of)
      PROVE  R!EmitsPromote(k)
  <2>1. R!Promotes(code[k]) /\ k \in 1 .. k
    BY <1>3, PromotesIs DEF Is
  <2>2. QED BY <1>1, <2>1 DEF R!EmitsPromote
<1>4. QED BY <1>2, <1>3 DEF PromotedBefore

\* What lives in the end: what was passed by variables that are yielded nowhere, and
\* what was returned by those that are passed nowhere either.
Outlives(c, m, h) ==
  \A g \in h : ~YieldedIn(c, g.var) /\ ~(g.how = "return" /\ PassedIn(c, g.var)) => m[g.block].alive

LEMMA ReturnKeeps ==
  ASSUME Scene, Facts(code, decisions), misfreed \in BOOLEAN, R!Return
  PROVE  /\ Scene' /\ UNCHANGED <<code, decisions>> /\ phase' = "done" /\ misfreed' \in BOOLEAN
         /\ Careful(code) /\ Holding /\ ~misfreed => ~misfreed' /\ Outlives(code, mem', handed')
<1>1. PICK v : v = code[pc].of
  OBVIOUS
<1>2. /\ pc \in 1 .. Len(code) /\ Is(code, pc, "return") /\ pc \in Nat /\ pc <= Len(code)
      /\ UNCHANGED <<code, decisions, pc, env>> /\ phase' = "done"
  BY RunningIs, SceneIs DEF R!Return, R!Keeps
<1>3. v \in Variables
  BY <1>1, <1>2, SceneIs, HomeIs DEF WellFormed
<1>4. PICK W : W = R!FreedOnReturn(v)
  OBVIOUS
<1>5. PICK copies : copies = (R!PromotesReturned(v) /\ env[v] # 0) /\ copies \in BOOLEAN
  OBVIOUS
<1>6. PICK b : b = IF copies THEN Len(mem) + 1 ELSE env[v]
  OBVIOUS
<1>7. PICK m, f, e : m = mem /\ f = R!Freed(mem, W) /\ e = env
  OBVIOUS
<1>8. PICK p : p = IF copies THEN R!Copied(f) ELSE f
  OBVIOUS
<1>9. /\ misfreed' = (misfreed \/ R!Misfrees(W))
      /\ \E stale \in BOOLEAN : mem' = R!Popped(R!Rewound(p, R!EmitsPromote(pc) \/ ~stale))
      /\ handed' = handed \cup Handing(v, "return", b)
  BY <1>1, <1>4, <1>5, <1>6, <1>7, <1>8 DEF R!Return, R!Hand, Handing
<1>10. PICK stale \in BOOLEAN : mem' = R!Popped(R!Rewound(p, R!EmitsPromote(pc) \/ ~stale))
  BY <1>9
<1>11. PICK emits : emits = (R!EmitsPromote(pc) \/ ~stale)
  OBVIOUS
<1>12. PICK q, n : q = R!Rewound(p, emits) /\ n = mem'
  OBVIOUS
<1>13. n = R!Popped(q)
  BY <1>10, <1>11, <1>12
<1>14. /\ Fewer(m, f) /\ f \in Seq(Blocks) /\ Len(f) = Len(m) /\ Len(m) \in Nat
       /\ \A a \in 1 .. Len(m) : m[a].place # "survivor" \/ (\A u \in W : e[u] # a) => f[a] = m[a]
  BY <1>7, SceneIs, FreedIs DEF Fewer
<1>15. /\ Extended(f, p) /\ b \in 0 .. Len(p)
       /\ copies => Len(p) = b /\ p[b].alive /\ p[b].place = "survivor"
  <2>1. CASE copies
    <3>1. PICK x : x = R!NewBlock("survivor") /\ x \in Blocks /\ x.alive /\ x.place = "survivor"
      <4>1. "survivor" \in R!Places
        BY DEF R!Places
      <4>2. QED BY <4>1, NewBlockIs
    <3>2. p = Append(f, x) /\ b = Len(f) + 1
      BY <1>6, <1>7, <1>8, <1>14, <2>1, <3>1 DEF R!Copied
    <3>3. Extended(f, p) /\ Len(p) = Len(f) + 1 /\ p[Len(f) + 1] = x
      BY <1>14, <3>1, <3>2, Newer
    <3>4. QED BY <1>14, <3>1, <3>2, <3>3
  <2>2. CASE ~copies
    <3>1. p = f /\ b = env[v] /\ env[v] \in 0 .. Len(mem)
      BY <1>3, <1>6, <1>8, <2>2, SceneIs
    <3>2. QED BY <1>7, <1>14, <2>2, <3>1, BlocksOf
  <2>3. QED BY <1>5, <2>1, <2>2
<1>16. p \in Seq(Blocks) /\ Len(p) \in Nat /\ Len(m) <= Len(p) /\ \A a \in 1 .. Len(m) : p[a] = f[a]
  BY <1>14, <1>15 DEF Extended
<1>17. /\ q \in Seq(Blocks) /\ n \in Seq(Blocks) /\ Len(q) = Len(p) /\ Len(n) = Len(p)
       /\ \A a \in 1 .. Len(p) :
            p[a].alive /\ p[a].place = "survivor" /\ (p[a].level = 0 \/ emits) => n[a].alive
  <2>1. Fewer(p, q) /\ \A a \in 1 .. Len(p) : p[a].level = 0 \/ emits => q[a] = p[a]
    BY <1>12, <1>16, RewoundIs
  <2>2. q \in Seq(Blocks) /\ Len(q) = Len(p)
    BY <2>1 DEF Fewer
  <2>3. Fewer(q, n) /\ \A a \in 1 .. Len(q) : q[a].place = "survivor" => n[a] = q[a]
    BY <1>13, <2>2, PoppedIs
  <2>4. n \in Seq(Blocks) /\ Len(n) = Len(p)
    BY <2>2, <2>3 DEF Fewer
  <2>5. QED BY <2>1, <2>2, <2>3, <2>4
<1>18. PICK new : new = Handing(v, "return", b)
  OBVIOUS
<1>19. new \subseteq Handings(Len(n)) /\ \A g \in new : g.var = v /\ g.how = "return" /\ g.block = b /\ b # 0
  BY <1>3, <1>15, <1>16, <1>17, <1>18, HandingIs
<1>20. Scene'
  <2>1. handed \subseteq Handings(Len(n))
    BY <1>7, <1>14, <1>16, <1>17, SceneIs, HandedStay
  <2>2. handed' \subseteq Handings(Len(n))
    BY <1>9, <1>18, <1>19, <2>1
  <2>3. env' \in [Variables -> 0 .. Len(n)]
    BY <1>2, <1>7, <1>14, <1>16, <1>17, SceneIs
  <2>4. QED BY <1>2, <1>12, <1>17, <2>2, <2>3, SceneIs DEF Scene, Types
<1>21. misfreed' \in BOOLEAN
  BY <1>9 DEF R!Misfrees
<1>22. ASSUME Careful(code), Holding, ~misfreed PROVE ~misfreed' /\ Outlives(code, mem', handed')
  <2>1. W \subseteq Variables /\ \A u \in W : R!Frees(u) /\ ~(u = v /\ R!PromotesReturned(v))
    <3>1. \A u \in W : /\ u \in R!Visible(pc) /\ R!Frees(u) /\ ~(u = v /\ R!PromotesReturned(v))
      BY <1>4 DEF R!FreedOnReturn
    <3>2. \A u \in W : u \in Variables
      BY <3>1, SceneIs, HomeIs, DeclaredIs DEF R!Visible
    <3>3. QED BY <3>1, <3>2
  <2>2. ~R!Misfrees(W) /\ \A g \in handed, u \in W : e[u] # g.block
    BY <1>7, <1>22, <2>1, FreesAreRight
  <2>3. PromotedBefore(code, decisions, pc) => emits
    <3>1. PromotedBefore(code, decisions, pc) => PromotedBefore(code, decisions, pc + 1)
      <4>1. \A j \in 1 .. pc - 1 : j \in 1 .. pc + 1 - 1
        BY <1>2
      <4>2. QED BY <1>2, <4>1 DEF PromotedBefore
    <3>2. PromotedBefore(code, decisions, pc + 1) => R!EmitsPromote(pc)
      BY <1>2, EmitsIs
    <3>3. QED BY <1>11, <3>1, <3>2
  <2>4. ASSUME NEW g \in handed, ~YieldedIn(code, g.var) PROVE n[g.block].alive
    <3>1. g.block \in 1 .. Len(m) /\ \A u \in W : e[u] # g.block
      BY <1>7, <2>2, SceneIs DEF Handings
    <3>2. m[g.block].alive /\ m[g.block].place = "survivor" /\ (m[g.block].level = 0 \/ emits)
      BY <1>7, <1>22, <2>3, <2>4 DEF Holding, Held, Kept, Original
    <3>3. p[g.block] = m[g.block] /\ g.block \in 1 .. Len(p)
      BY <1>14, <1>16, <3>1
    <3>4. QED BY <1>17, <3>2, <3>3
  <2>5. ASSUME NEW g \in new, ~YieldedIn(code, v), ~PassedIn(code, v) PROVE n[g.block].alive
    <3>1. g.block = b /\ b # 0 /\ b \in 1 .. Len(p)
      BY <1>15, <1>16, <1>19
    <3>2. CASE copies
      <4>1. emits
        BY <1>1, <1>2, <1>5, <1>11, <3>2, EmitsIs
      <4>2. QED BY <1>15, <1>17, <3>1, <3>2, <4>1
    <3>3. CASE ~copies
      <4>1. b = e[v] /\ b \in 1 .. Len(m)
        BY <1>3, <1>6, <1>7, <3>1, <3>3, SceneIs
      <4>2. ~R!PromotesReturned(v)
        BY <1>5, <1>7, <3>1, <3>3, <4>1
      <4>3. ~decisions[v].tracked
        BY <1>3, <2>5, <4>2 DEF Facts, R!PromotesReturned
      <4>4. m[b].alive /\ Original(m, b)
        BY <1>3, <1>7, <1>22, <3>1, <4>1, <4>3 DEF Holding, Held, SafeIn
      <4>5. \A u \in W : e[u] # b
        <5>1. ASSUME NEW u \in W, e[u] = b PROVE FALSE
          <6>1. u = v
            BY <1>3, <1>7, <1>22, <2>1, <3>1, <4>1, <5>1 DEF Holding, Held, Apart
          <6>2. R!Frees(v)
            BY <2>1, <6>1
          <6>3. QED BY <4>2, <6>2 DEF R!Frees, R!PromotesReturned
        <5>2. QED BY <5>1
      <4>6. p[b] = m[b]
        BY <1>14, <1>16, <4>1, <4>5
      <4>7. QED BY <1>17, <3>1, <4>4, <4>6 DEF Original
    <3>4. QED BY <1>5, <3>2, <3>3
  <2>6. Outlives(code, mem', handed')
    BY <1>9, <1>12, <1>18, <1>19, <2>4, <2>5 DEF Outlives
  <2>7. QED BY <1>9, <1>22, <2>2, <2>6
<1>23. QED BY <1>2, <1>20, <1>21, <1>22

LEMMA FinishKeeps ==
  ASSUME Scene, Facts(code, decisions), misfreed \in BOOLEAN, R!Finish
  PROVE  /\ Scene' /\ UNCHANGED <<code, decisions>> /\ phase' = "done" /\ misfreed' \in BOOLEAN
         /\ Careful(code) /\ Holding /\ ~misfreed => ~misfreed' /\ Outlives(code, mem', handed')
<1>1. PICK W : W = R!Ending(Len(code) + 1)
  OBVIOUS
<1>2. /\ pc = Len(code) + 1 /\ UNCHANGED <<code, decisions, pc, env, handed>> /\ phase' = "done"
  BY SceneIs DEF R!Finish, R!Keeps
<1>3. PICK m, f, e : m = mem /\ f = R!Freed(mem, W) /\ e = env
  OBVIOUS
<1>4. PICK emits : emits = R!EmitsPromote(Len(code))
  OBVIOUS
<1>5. PICK q, n : q = R!Popped(f) /\ n = mem'
  OBVIOUS
<1>6. misfreed' = (misfreed \/ R!Misfrees(W)) /\ n = R!Rewound(q, emits)
  BY <1>1, <1>3, <1>4, <1>5, SceneIs DEF R!Finish
<1>7. /\ Fewer(m, f) /\ f \in Seq(Blocks) /\ Len(f) = Len(m) /\ Len(m) \in Nat
      /\ \A a \in 1 .. Len(m) : m[a].place # "survivor" \/ (\A u \in W : e[u] # a) => f[a] = m[a]
  BY <1>3, SceneIs, FreedIs DEF Fewer
<1>8. /\ n \in Seq(Blocks) /\ Len(n) = Len(m)
      /\ \A a \in 1 .. Len(m) :
           f[a].alive /\ f[a].place = "survivor" /\ (f[a].level = 0 \/ emits) => n[a].alive
  <2>1. Fewer(f, q) /\ \A a \in 1 .. Len(f) : f[a].place = "survivor" => q[a] = f[a]
    BY <1>5, <1>7, PoppedIs
  <2>2. q \in Seq(Blocks) /\ Len(q) = Len(f)
    BY <2>1 DEF Fewer
  <2>3. Fewer(q, n) /\ \A a \in 1 .. Len(q) : q[a].level = 0 \/ emits => n[a] = q[a]
    BY <1>6, <2>2, RewoundIs
  <2>4. n \in Seq(Blocks) /\ Len(n) = Len(m)
    BY <1>7, <2>2, <2>3 DEF Fewer
  <2>5. QED BY <1>7, <2>1, <2>2, <2>3, <2>4
<1>9. Scene'
  BY <1>2, <1>3, <1>5, <1>8, SceneIs DEF Scene, Types
<1>10. misfreed' \in BOOLEAN
  BY <1>6 DEF R!Misfrees
<1>11. ASSUME Careful(code), Holding, ~misfreed PROVE ~misfreed' /\ Outlives(code, mem', handed')
  <2>1. W \subseteq Variables /\ \A u \in W : R!Frees(u)
    <3>1. \A u \in W : u \in R!Visible(Len(code) + 1) /\ R!Frees(u)
      BY <1>1 DEF R!Ending
    <3>2. \A u \in W : u \in Variables
      BY <3>1, SceneIs, HomeIs, DeclaredIs DEF R!Visible
    <3>3. QED BY <3>1, <3>2
  <2>2. ~R!Misfrees(W) /\ \A g \in handed, u \in W : e[u] # g.block
    BY <1>3, <1>11, <2>1, FreesAreRight
  <2>3. PromotedBefore(code, decisions, pc) => emits
    <3>1. Len(code) \in Nat /\ Len(code) <= Len(code)
      BY SceneIs
    <3>2. QED BY <1>2, <1>4, <3>1, EmitsIs
  <2>4. ASSUME NEW g \in handed, ~YieldedIn(code, g.var) PROVE n[g.block].alive
    <3>1. g.block \in 1 .. Len(m) /\ \A u \in W : e[u] # g.block
      BY <1>3, <2>2, SceneIs DEF Handings
    <3>2. m[g.block].alive /\ m[g.block].place = "survivor" /\ (m[g.block].level = 0 \/ emits)
      BY <1>3, <1>11, <2>3, <2>4 DEF Holding, Held, Kept, Original
    <3>3. f[g.block] = m[g.block]
      BY <1>7, <3>1
    <3>4. QED BY <1>8, <3>1, <3>2, <3>3
  <2>5. Outlives(code, mem', handed')
    BY <1>2, <1>5, <2>4 DEF Outlives
  <2>6. QED BY <1>6, <1>11, <2>2, <2>5
<1>12. QED BY <1>2, <1>9, <1>10, <1>11

-----------------------------------------------------------------------------
(* The function, from its first statement to its end.                       *)

\* Before the function runs, its parameters hold the caller's blocks.
Untouched(k, e, m, h) ==
  /\ k = 1 /\ h = {} /\ Apart(e)
  /\ \A v \in Variables : e[v] # 0 => m[e[v]].alive /\ Original(m, e[v])

LEMMA UntouchedIsHeld ==
  ASSUME NEW c, NEW d, NEW k, NEW e, NEW m, NEW h, Untouched(k, e, m, h)
  PROVE  Held(c, d, k, e, m, h)
BY DEF Untouched, Held, SafeIn, PassedBy, Original

FunctionInv ==
  /\ Scene /\ phase \in {"write", "generate", "run", "refused", "done"} /\ misfreed \in BOOLEAN
  /\ phase # "write" => Closed(code)
  /\ phase \in {"generate", "run"} => Facts(code, decisions)
  /\ phase \in {"write", "generate", "refused"} => Untouched(pc, env, mem, handed) /\ ~misfreed
  /\ phase = "run" /\ Careful(code) => Holding /\ ~misfreed
  /\ phase = "done" /\ Careful(code) => ~misfreed /\ Outlives(code, mem, handed)

LEMMA NothingWritten == WellFormed(<< >>)
<1>1. << >> \in Seq(Texts) /\ Len(<< >>) = 0
  OBVIOUS
<1>2. \A k \in 1 .. Len(<< >>) + 1 : Nesting(<< >>, k) \in Nat \ {0}
  <2>1. \A k \in 1 .. Len(<< >>) + 1 : k = 1
    BY <1>1
  <2>2. QED BY <2>1, StartIsOutside
<1>3. \A k \in 1 .. Len(<< >>) : FALSE
  BY <1>1
<1>4. QED BY <1>1, <1>2, <1>3 DEF WellFormed

LEMMA FunctionStart == ASSUME R!Init PROVE FunctionInv
<1>1. PICK n : n = Cardinality(Params) /\ n \in Nat
  BY NamesApart, FS_CardinalityType
<1>2. PICK at \in [Params -> 1 .. n] :
        /\ \A p, q \in Params : at[p] = at[q] => p = q
        /\ env = [v \in Variables |-> IF v \in Params THEN at[v] ELSE 0]
  BY <1>1, Sizes, NamesApart DEF R!Init
<1>3. PICK x : x = [place |-> "survivor", level |-> 0, alive |-> TRUE]
  OBVIOUS
<1>4. x \in Blocks
  BY <1>3 DEF Blocks, R!Places
<1>5. mem = [b \in 1 .. n |-> x]
  BY <1>1, <1>3, Sizes DEF R!Init
<1>6. mem \in Seq(Blocks) /\ Len(mem) = n /\ \A b \in 1 .. n : mem[b] = x
  <2>1. mem \in [1 .. n -> Blocks]
    BY <1>5, <1>4
  <2>2. mem \in Seq(Blocks)
    BY <1>1, <2>1
  <2>3. QED BY <1>1, <1>5, <2>2, LenProperties
<1>7. env \in [Variables -> 0 .. n] /\ \A v \in Variables : env[v] # 0 => v \in Params /\ env[v] = at[v] /\ env[v] \in 1 .. n
  <2>1. \A v \in Params : at[v] \in 1 .. n /\ at[v] \in 0 .. n
    BY <1>1, <1>2
  <2>2. QED BY <1>1, <1>2, <2>1
<1>8. /\ code = << >> /\ phase = "write" /\ pc = 1 /\ handed = {} /\ misfreed = FALSE
      /\ decisions \in [Variables -> Decisions]
  <2>1. PICK d : d = [tracked |-> FALSE, kind |-> "Stack", drop |-> "None", extern |-> FALSE]
    OBVIOUS
  <2>2. d \in Decisions
    BY <2>1 DEF Decisions
  <2>3. decisions = [v \in Variables |-> d]
    BY <2>1, NamesApart DEF R!Init
  <2>4. QED BY <2>2, <2>3 DEF R!Init
<1>9. Scene
  <2>1. WellFormed(code) /\ pc \in 1 .. Len(code) + 1
    BY <1>8, NothingWritten
  <2>2. handed \subseteq Handings(Len(mem))
    BY <1>8
  <2>3. QED BY <1>6, <1>7, <1>8, <2>1, <2>2 DEF Scene, Types
<1>10. Apart(env)
  BY <1>2, <1>7 DEF Apart
<1>11. \A v \in Variables : env[v] # 0 => mem[env[v]].alive /\ Original(mem, env[v])
  BY <1>3, <1>6, <1>7 DEF Original
<1>12. QED BY <1>8, <1>9, <1>10, <1>11 DEF FunctionInv, Untouched

LEMMA WritingKeeps ==
  ASSUME FunctionInv, R!WriteLet \/ R!WriteMove \/ R!WriteUse \/ R!WriteIf \/ R!WriteEnd
  PROVE  FunctionInv'
<1>1. /\ WellFormed(code') /\ phase = "write"
      /\ UNCHANGED <<phase, decisions, pc, env, mem, handed, misfreed>>
  BY WriteStep DEF FunctionInv, Scene, Types
<1>2. Untouched(pc, env, mem, handed) /\ ~misfreed /\ Scene
  BY <1>1 DEF FunctionInv
<1>3. pc' \in 1 .. Len(code') + 1
  <2>1. pc' = 1 /\ Len(code') \in Nat
    BY <1>1, <1>2 DEF Untouched, WellFormed
  <2>2. QED BY <2>1
<1>4. Scene'
  BY <1>1, <1>2, <1>3 DEF Scene, Types
<1>5. QED BY <1>1, <1>2, <1>4 DEF FunctionInv

LEMMA AnalyseKeeps == ASSUME FunctionInv, R!Analyse PROVE FunctionInv'
<1>1. /\ phase = "write" /\ UNCHANGED <<code, pc, env, mem, handed, misfreed>>
      /\ phase' = IF R!Tracked.wrong THEN "refused" ELSE "generate"
      /\ decisions' = [v \in R!Vars |-> R!Adapted(R!Tracked.objs, v)]
  BY DEF R!Analyse
<1>2. Scene /\ Untouched(pc, env, mem, handed) /\ ~misfreed
  BY <1>1 DEF FunctionInv
<1>3. Closed(code)
  BY <1>2, SceneIs, NestingIs DEF R!Analyse, Closed
<1>4. PICK d : d = decisions' /\ d \in [Variables -> Decisions] /\ (~R!Tracked.wrong => Facts(code, d))
  BY <1>1, <1>2, SceneIs, DecisionsAre
<1>5. Scene'
  BY <1>1, <1>2, <1>4 DEF Scene, Types
<1>6. CASE R!Tracked.wrong
  BY <1>1, <1>2, <1>3, <1>5, <1>6 DEF FunctionInv
<1>7. CASE ~R!Tracked.wrong
  BY <1>1, <1>2, <1>3, <1>4, <1>5, <1>7 DEF FunctionInv
<1>8. QED BY <1>6, <1>7

LEMMA GenerateKeeps == ASSUME FunctionInv, R!Generate PROVE FunctionInv'
<1>1. /\ phase = "generate" /\ UNCHANGED <<code, decisions, pc, env, mem, handed, misfreed>>
      /\ phase' \in {"refused", "run"}
  BY DEF R!Generate
<1>2. /\ Scene /\ Untouched(pc, env, mem, handed) /\ ~misfreed /\ misfreed \in BOOLEAN
      /\ Closed(code) /\ Facts(code, decisions)
  BY <1>1 DEF FunctionInv
<1>3. Holding
  BY <1>2, UntouchedIsHeld DEF Holding
<1>4. Scene' /\ (Holding')
  BY <1>1, <1>2, <1>3 DEF Scene, Holding
<1>5. QED BY <1>1, <1>2, <1>4 DEF FunctionInv

\* A statement runs.
LEMMA RunningKeeps ==
  ASSUME FunctionInv, R!Let \/ R!Yield \/ R!Release \/ R!Pass \/ R!If \/ R!End
  PROVE  FunctionInv'
<1>1. phase = "run"
  BY DEF R!Let, R!Yield, R!Release, R!Pass, R!If, R!End, R!Running
<1>2. /\ Scene /\ misfreed \in BOOLEAN /\ Closed(code) /\ Facts(code, decisions)
      /\ Careful(code) => Holding /\ ~misfreed
  BY <1>1 DEF FunctionInv
<1>3. /\ Scene' /\ UNCHANGED <<code, decisions, phase>> /\ misfreed' \in BOOLEAN
      /\ Careful(code) => Holding' /\ ~misfreed'
  <2>1. CASE R!Let
    BY <1>2, <2>1, LetKeeps
  <2>2. CASE R!Yield
    BY <1>2, <2>2, YieldKeeps
  <2>3. CASE R!Release
    BY <1>2, <2>3, ReleaseKeeps
  <2>4. CASE R!Pass
    BY <1>2, <2>4, PassKeeps
  <2>5. CASE R!If
    BY <1>2, <2>5, IfKeeps
  <2>6. CASE R!End
    BY <1>2, <2>6, EndKeeps
  <2>7. QED BY <2>1, <2>2, <2>3, <2>4, <2>5, <2>6
<1>4. QED BY <1>1, <1>2, <1>3 DEF FunctionInv

LEMMA LeavingKeeps == ASSUME FunctionInv, R!Return \/ R!Finish PROVE FunctionInv'
<1>1. phase = "run"
  BY DEF R!Return, R!Finish, R!Running
<1>2. /\ Scene /\ misfreed \in BOOLEAN /\ Closed(code) /\ Facts(code, decisions)
      /\ Careful(code) => Holding /\ ~misfreed
  BY <1>1 DEF FunctionInv
<1>3. /\ Scene' /\ UNCHANGED <<code, decisions>> /\ phase' = "done" /\ misfreed' \in BOOLEAN
      /\ Careful(code) => ~misfreed' /\ Outlives(code, mem', handed')
  <2>1. CASE R!Return
    BY <1>2, <2>1, ReturnKeeps
  <2>2. CASE R!Finish
    BY <1>2, <2>2, FinishKeeps
  <2>3. QED BY <2>1, <2>2
<1>4. QED BY <1>2, <1>3 DEF FunctionInv

LEMMA FunctionInvariance == R!Spec => []FunctionInv
<1>1. ASSUME FunctionInv, [R!Next]_(R!vars) PROVE FunctionInv'
  <2>1. CASE R!WriteLet \/ R!WriteMove \/ R!WriteUse \/ R!WriteIf \/ R!WriteEnd
    BY <1>1, <2>1, WritingKeeps
  <2>2. CASE R!Analyse
    BY <1>1, <2>2, AnalyseKeeps
  <2>3. CASE R!Generate
    BY <1>1, <2>3, GenerateKeeps
  <2>4. CASE R!Let \/ R!Yield \/ R!Release \/ R!Pass \/ R!If \/ R!End
    BY <1>1, <2>4, RunningKeeps
  <2>5. CASE R!Return \/ R!Finish
    BY <1>1, <2>5, LeavingKeeps
  <2>6. CASE UNCHANGED R!vars
    <3>1. UNCHANGED <<code, phase, decisions, pc, env, mem, handed, misfreed>>
      BY <2>6 DEF R!vars
    <3>2. QED BY <1>1, <3>1 DEF FunctionInv, Scene, Holding
  <2>7. QED BY <1>1, <2>1, <2>2, <2>3, <2>4, <2>5, <2>6 DEF R!Next
<1>2. QED BY <1>1, FunctionStart, PTL DEF R!Spec

LEMMA MovesOnlyIs == R!MovesOnly <=> Careful(code)
<1>1. R!Length = Len(code) /\ R!Vars = Variables
  BY NamesApart DEF R!Length
<1>2. QED BY <1>1 DEF R!MovesOnly, Careful, R!At, Is

(* What the emitted frees free is the function's own, once, on every path    *)
(* of every function that moves its pointers only: no block is freed twice,  *)
(* none that is foreign or that a function was passed, and no variable that  *)
(* can still be named holds a block that is gone (stmtgen.go, sor_codegen.go *)
(* and the decisions of internal/sor).                                       *)
THEOREM FreesAreItsOwn == R!Spec => []FreesOnlyItsOwn
<1>1. ASSUME FunctionInv PROVE FreesOnlyItsOwn
  <2>1. CASE phase \in {"write", "generate", "refused"}
    BY <1>1, <2>1 DEF FunctionInv, FreesOnlyItsOwn, R!FreesOnlyItsOwn
  <2>2. CASE phase = "run"
    BY <1>1, <2>2, MovesOnlyIs, NamesApart
    DEF FunctionInv, Holding, Held, SafeIn, FreesOnlyItsOwn, R!FreesOnlyItsOwn
  <2>3. CASE phase = "done"
    BY <1>1, <2>3, MovesOnlyIs DEF FunctionInv, FreesOnlyItsOwn, R!FreesOnlyItsOwn
  <2>4. QED BY <1>1, <2>1, <2>2, <2>3 DEF FunctionInv
<1>2. QED BY <1>1, FunctionInvariance, PTL

(* What such a function returns or passes on is still there when its scope   *)
(* has been popped and the survivor segment rewound (stmtgen.go, funcgen.go),*)
(* for the variables whose decision the path cannot make wrong.              *)
THEOREM HandedOutIsAlive == R!Spec => []HandedOutLives
<1>1. ASSUME FunctionInv PROVE HandedOutLives
  <2>1. CASE phase \in {"write", "generate", "refused"}
    BY <1>1, <2>1 DEF FunctionInv, Untouched, HandedOutLives, R!HandedOutLives
  <2>2. CASE phase = "run"
    BY <1>1, <2>2, MovesOnlyIs, PassesIs
    DEF FunctionInv, Holding, Held, Kept, HandedOutLives, R!HandedOutLives
  <2>3. CASE phase = "done"
    BY <1>1, <2>3, MovesOnlyIs, PassesIs DEF FunctionInv, Outlives, HandedOutLives, R!HandedOutLives
  <2>4. QED BY <1>1, <2>1, <2>2, <2>3 DEF FunctionInv
<1>2. QED BY <1>1, FunctionInvariance, PTL

=============================================================================

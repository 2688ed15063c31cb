---------------------------- MODULE KmmScope_proofs ----------------------------
(***************************************************************************)
(* Scopes are memory safe until an offset has been restored where there is *)
(* no heap, for every number and size of blocks, every nesting of the two  *)
(* kinds and every sequence of allocations, refills and resets.  And       *)
(* survivors are apart, for every number of threads, slots and units.      *)
(***************************************************************************)
EXTENDS MCKmmScope, SequenceTheorems, TLAPS

(* The heap is either absent or a whole granted block, used up to offset.  *)
(* While no offset scope has lost its heap, an absent one has no offset.   *)
HeapOK ==
  /\ heap.offset <= HeapSize
  /\ heap.base = NULL => heap.capacity = 0
  /\ heap.base # NULL => heap.base \in granted /\ heap.capacity = HeapSize
  /\ ~given_up /\ heap.base = NULL => heap.offset = 0

Stack(i) == scopes[i].kind = "stack"

(* What a frame has saved lies inside a block.  While no offset scope has  *)
(* lost its heap, what it goes back to is 0 or lies in the heap there is.  *)
FramesOK ==
  \A i \in 1 .. Len(scopes) :
    /\ scopes[i].offset <= HeapSize
    /\ ~given_up /\ Stack(i) /\ scopes[i].base = NULL => scopes[i].offset = 0
    /\ ~given_up /\ ~Stack(i) /\ heap.base = NULL => scopes[i].offset = 0

ObjectsOK ==
  \A o \in objects : o.base \in granted /\ o.depth <= Len(scopes) /\ EndOf(o) <= HeapSize

(* Where in the current heap or elsewhere frame i goes back to.            *)
Target(i) == IF Stack(i) THEN scopes[i].base ELSE heap.base

(* Nothing alive lies above the bump offset of the heap ...                *)
HeapAbove == \A o \in objects : o.base = heap.base => EndOf(o) <= heap.offset

(* ... nor, when it belongs to a scope outside frame i, above what frame i *)
(* goes back to.                                                           *)
FramesAbove ==
  \A i \in 1 .. Len(scopes) : \A o \in objects :
    o.depth < i /\ o.base = Target(i) => EndOf(o) <= scopes[i].offset

SafeInv ==
  /\ TypeOK /\ ~astray
  /\ HeapOK /\ FramesOK /\ ObjectsOK
  /\ HeapAbove /\ FramesAbove
  /\ LiveDisjoint

IInv == SafeInv \/ (TypeOK /\ astray /\ given_up)

(* Below the modulus, size_t subtraction is subtraction.                   *)
LEMMA ModBelow == ASSUME NEW x \in Nat, NEW w \in Nat, x < w PROVE x % w = x
  BY SMT

LEMMA RoomIs ==
  ASSUME TypeOK, heap.offset <= heap.capacity
  PROVE  Room = heap.capacity - heap.offset
<1>1. heap.capacity - heap.offset \in Nat /\ heap.capacity - heap.offset < WordSize
  BY ScopeAssumption DEF TypeOK, Heaps
<1>2. QED BY <1>1, ModBelow, ScopeAssumption DEF Room

LEMMA HeapRewound ==
  ASSUME NEW h \in Heaps, NEW n \in Nat
  PROVE  /\ [h EXCEPT !.offset = n] \in Heaps
         /\ [h EXCEPT !.offset = n] = [base |-> h.base, offset |-> n, capacity |-> h.capacity]
  BY DEF Heaps

LEMMA FrameTyped ==
  ASSUME TypeOK, NEW i \in 1 .. Len(scopes)
  PROVE  scopes[i] \in Frames /\ scopes[i].offset \in Nat /\ scopes[i].kind \in {"stack", "offset"}
<1>1. scopes[i] \in Frames
  BY LenProperties DEF TypeOK
<1>2. QED BY <1>1 DEF Frames

LEMMA InitSafe == ASSUME Init PROVE SafeInv
<1> USE DEF Init
<1>1. TypeOK /\ ~astray
  BY ScopeAssumption, EmptySeq DEF NoHeap, TypeOK, Heaps
<1>2. HeapOK
  BY ScopeAssumption DEF NoHeap, HeapOK
<1>3. ObjectsOK /\ HeapAbove /\ FramesAbove /\ LiveDisjoint
  BY DEF ObjectsOK, HeapAbove, FramesAbove, LiveDisjoint
<1>4. FramesOK
  <2>1. Len(scopes) = 0
    BY EmptySeq
  <2>2. QED BY <2>1 DEF FramesOK
<1>5. QED BY <1>1, <1>2, <1>3, <1>4 DEF SafeInv

USE ScopeAssumption

LEMMA BumpTypes ==
  ASSUME TypeOK, NEW size \in Sizes, Bump(size)
  PROVE  TypeOK'
<1>1. size \in Nat /\ heap.offset \in Nat /\ heap \in Heaps /\ heap.offset + size \in Nat
  BY DEF TypeOK, Heaps
<1>2. heap' \in Heaps
  <2>1. heap' = [heap EXCEPT !.offset = heap.offset + size]
    BY DEF Bump
  <2>2. QED BY <1>1, <2>1, HeapRewound
<1>3. Object(heap.base, heap.offset, size) \in Objects
  BY <1>1 DEF Object, Objects, TypeOK, Heaps
<1>4. objects' \subseteq Objects
  BY <1>3 DEF Bump, TypeOK
<1>5. QED BY <1>2, <1>4 DEF Bump, TypeOK

(* Without a heap, an allocation succeeds at an offset above 0 only.       *)
LEMMA BumpAstray ==
  ASSUME SafeInv, NEW size \in Sizes, Bump(size), heap.base = NULL
  PROVE  TypeOK' /\ astray' /\ given_up'
<1>1. TypeOK'
  BY BumpTypes DEF SafeInv
<1>2. given_up
  <2>1. SUFFICES ASSUME ~given_up PROVE FALSE
    OBVIOUS
  <2>2. heap.offset = 0 /\ heap.capacity = 0
    BY <2>1 DEF SafeInv, HeapOK
  <2>3. Room = 0
    BY <2>2, RoomIs DEF SafeInv
  <2>4. QED BY <2>3 DEF Bump
<1>3. QED BY <1>1, <1>2 DEF Bump

(* An allocation from the heap goes above everything alive in its block.   *)
LEMMA BumpSafe ==
  ASSUME SafeInv, NEW size \in Sizes, Bump(size), heap.base # NULL
  PROVE  SafeInv'
<1> USE DEF SafeInv, EndOf
<1>1. Room = heap.capacity - heap.offset
  BY RoomIs DEF HeapOK
<1>2. heap.capacity = HeapSize /\ heap.base \in granted
  BY DEF HeapOK
<1>3. size \in Nat /\ size > 0 /\ heap.offset + size <= HeapSize
  BY <1>1, <1>2 DEF Bump, TypeOK, Heaps
<1> DEFINE new == Object(heap.base, heap.offset, size)
<1>4. /\ new \in Objects /\ new.base = heap.base /\ new.start = heap.offset
      /\ new.size = size /\ new.depth = Len(scopes)
  BY <1>3 DEF Object, Objects, TypeOK, Heaps
<1>5. /\ heap' = [heap EXCEPT !.offset = heap.offset + size]
      /\ objects' = objects \union {new}
      /\ ~astray' /\ UNCHANGED <<scopes, granted, aborted, given_up>>
  BY DEF Bump
<1>6. /\ heap'.base = heap.base /\ heap'.capacity = heap.capacity
      /\ heap'.offset = heap.offset + size
  BY <1>5 DEF TypeOK
<1> HIDE DEF new
<1>7. TypeOK'
  BY BumpTypes
<1>8. HeapOK' /\ FramesOK'
  BY <1>2, <1>3, <1>5, <1>6 DEF HeapOK, FramesOK, Stack
<1>9. ObjectsOK'
  BY <1>2, <1>3, <1>4, <1>5, <1>6 DEF ObjectsOK, TypeOK
<1>10. HeapAbove'
  BY <1>3, <1>4, <1>5, <1>6 DEF HeapAbove, TypeOK, Objects
<1>11. FramesAbove'
  BY <1>4, <1>5, <1>6 DEF FramesAbove, Target, Stack, TypeOK
<1>12. LiveDisjoint'
  BY <1>3, <1>4, <1>5 DEF LiveDisjoint, HeapAbove, TypeOK, Objects
<1>13. QED BY <1>5, <1>7, <1>8, <1>9, <1>10, <1>11, <1>12

(* A refill starts on a block no live object lies in.                      *)
LEMMA RefillSafe ==
  ASSUME SafeInv, NEW size \in Sizes, RefillAndBump(size) PROVE SafeInv'
<1> USE DEF SafeInv, EndOf
<1>1. PICK b \in Blocks \ granted :
        /\ heap' = [base |-> b, offset |-> size, capacity |-> HeapSize]
        /\ objects' = objects \union {Object(b, 0, size)}
        /\ granted' = granted \union {b}
  BY DEF RefillAndBump
<1>2. size \in Nat /\ size > 0 /\ size <= HeapSize /\ UNCHANGED <<scopes, aborted, given_up, astray>>
  BY DEF RefillAndBump, history
<1> DEFINE new == Object(b, 0, size)
<1>3. /\ new \in Objects /\ new.base = b /\ new.start = 0
      /\ new.size = size /\ new.depth = Len(scopes)
  BY <1>2 DEF Object, Objects, TypeOK
<1>4. objects' = objects \union {new}
  BY <1>1
<1> HIDE DEF new
<1>5. TypeOK'
  BY <1>1, <1>2, <1>3, <1>4 DEF TypeOK, Heaps
<1>6. HeapOK' /\ FramesOK'
  BY <1>1, <1>2 DEF HeapOK, FramesOK, Stack
<1>7. ObjectsOK'
  BY <1>1, <1>2, <1>3, <1>4 DEF ObjectsOK, TypeOK
<1>8. \A o \in objects : o.base # b
  BY <1>1 DEF ObjectsOK
<1>9. HeapAbove' /\ LiveDisjoint'
  BY <1>1, <1>2, <1>3, <1>4, <1>8 DEF HeapAbove, LiveDisjoint, TypeOK, Objects
<1>10. FramesAbove'
  BY <1>1, <1>2, <1>3, <1>4, <1>8 DEF FramesAbove, Target, Stack, TypeOK, ObjectsOK
<1>11. QED BY <1>2, <1>5, <1>6, <1>7, <1>9, <1>10

(* A frame records the current heap, above which nothing is alive.         *)
LEMMA FrameSafe ==
  ASSUME SafeInv, NEW f \in Frames, scopes' = Append(scopes, f),
         UNCHANGED <<heap, objects, granted, aborted, history>>,
         f.offset = heap.offset, f.kind = "stack" => f.base = heap.base
  PROVE  SafeInv'
<1> USE DEF SafeInv, EndOf, history
<1>1. /\ Len(scopes') = Len(scopes) + 1 /\ scopes'[Len(scopes) + 1] = f /\ Len(scopes) \in Nat
      /\ \A i \in 1 .. Len(scopes) : scopes'[i] = scopes[i]
  BY LenProperties, AppendProperties DEF TypeOK
<1>2. TypeOK'
  BY AppendProperties DEF TypeOK
<1>3. HeapOK' /\ HeapAbove' /\ LiveDisjoint'
  BY DEF HeapOK, HeapAbove, LiveDisjoint
<1>4. ObjectsOK'
  BY <1>1 DEF ObjectsOK, TypeOK, Objects
<1>5. FramesOK'
  <2> SUFFICES ASSUME NEW i \in 1 .. Len(scopes) + 1
               PROVE  /\ scopes'[i].offset <= HeapSize
                      /\ ~given_up /\ Stack(i)' /\ scopes'[i].base = NULL => scopes'[i].offset = 0
                      /\ ~given_up /\ ~Stack(i)' /\ heap.base = NULL => scopes'[i].offset = 0
    BY <1>1 DEF FramesOK
  <2>1. CASE i = Len(scopes) + 1
    BY <1>1, <2>1 DEF HeapOK, Stack
  <2>2. CASE i # Len(scopes) + 1
    <3>1. i \in 1 .. Len(scopes)
      BY <1>1, <2>2
    <3>2. QED BY <1>1, <3>1 DEF FramesOK, Stack
  <2>3. QED BY <2>1, <2>2
<1>6. FramesAbove'
  <2> SUFFICES ASSUME NEW i \in 1 .. Len(scopes) + 1, NEW o \in objects,
                      o.depth < i, o.base = Target(i)'
               PROVE  EndOf(o) <= scopes'[i].offset
    BY <1>1 DEF FramesAbove
  <2>1. CASE i = Len(scopes) + 1
    BY <1>1, <2>1 DEF HeapAbove, Target, Stack
  <2>2. CASE i # Len(scopes) + 1
    <3>1. i \in 1 .. Len(scopes)
      BY <1>1, <2>2
    <3>2. QED BY <1>1, <3>1 DEF FramesAbove, Target, Stack
  <2>3. QED BY <2>1, <2>2
<1>7. QED BY <1>2, <1>3, <1>4, <1>5, <1>6

LEMMA StaySafe ==
  ASSUME SafeInv, UNCHANGED <<heap, scopes, objects, granted, given_up, astray>>, aborted' \in BOOLEAN
  PROVE  SafeInv'
<1>1. TypeOK' /\ ~astray'
  BY DEF SafeInv, TypeOK
<1>2. HeapOK' /\ FramesOK'
  BY DEF SafeInv, HeapOK, FramesOK, Stack
<1>3. ObjectsOK' /\ HeapAbove' /\ LiveDisjoint'
  BY DEF SafeInv, ObjectsOK, HeapAbove, LiveDisjoint, EndOf
<1>4. FramesAbove'
  BY DEF SafeInv, FramesAbove, Target, Stack, EndOf
<1>5. QED BY <1>1, <1>2, <1>3, <1>4 DEF SafeInv

LEMMA PushSafe == ASSUME SafeInv, ScopePush PROVE SafeInv'
<1>1. CASE UNCHANGED scopes
  <2>1. aborted' \in BOOLEAN /\ UNCHANGED <<heap, objects, granted, given_up, astray>>
    BY DEF ScopePush, history, SafeInv, TypeOK
  <2>2. QED BY <1>1, <2>1, StaySafe
<1>2. CASE scopes' = Append(scopes, Saved("stack")) /\ UNCHANGED aborted
  <2>1. /\ Saved("stack") \in Frames /\ Saved("stack").offset = heap.offset
        /\ Saved("stack").base = heap.base
    BY DEF Saved, SafeInv, TypeOK, Heaps, Frames
  <2>2. UNCHANGED <<heap, objects, granted, history>>
    BY DEF ScopePush
  <2>3. QED BY <1>2, <2>1, <2>2, FrameSafe
<1>3. QED BY <1>1, <1>2 DEF ScopePush

LEMMA SaveSafe == ASSUME SafeInv, OffsetSave PROVE SafeInv'
<1>1. /\ Saved("offset") \in Frames /\ Saved("offset").offset = heap.offset
      /\ Saved("offset").kind # "stack"
  BY DEF Saved, SafeInv, TypeOK, Heaps, Frames
<1>2. QED BY <1>1, FrameSafe DEF OffsetSave

(* What is left when the innermost scope is.                               *)
LEMMA LeaveFacts ==
  ASSUME SafeInv, scopes # << >>, Leave, UNCHANGED <<granted, aborted>>
  PROVE  /\ Len(scopes) \in Nat /\ Len(scopes) >= 1 /\ scopes[Len(scopes)] \in Frames
         /\ scopes' \in Seq(Frames)
         /\ Len(scopes') = Len(scopes) - 1
         /\ \A i \in 1 .. Len(scopes) - 1 : scopes'[i] = scopes[i]
         /\ objects' = {o \in objects : o.depth < Len(scopes)}
         /\ ObjectsOK' /\ LiveDisjoint'
<1> DEFINE n == Len(scopes)
           sub == SubSeq(scopes, 1, n - 1)
<1>1. scopes \in Seq(Frames)
  BY DEF SafeInv, TypeOK
<1>2. n \in Nat /\ n >= 1
  BY <1>1, EmptySeq
<1>3. \A i \in 1 .. n : scopes[i] \in Frames
  BY <1>1, LenProperties
<1>4. 1 \in Int /\ n - 1 \in Int /\ n - 1 >= 0 /\ \A i \in 1 .. n - 1 : scopes[i] \in Frames
  BY <1>2, <1>3
<1>5. /\ sub \in Seq(Frames)
      /\ Len(sub) = IF 1 <= n - 1 THEN (n - 1) - 1 + 1 ELSE 0
      /\ \A i \in 1 .. (n - 1) - 1 + 1 : sub[i] = scopes[1 + i - 1]
  BY <1>4, SubSeqProperties
<1>6. scopes' = sub /\ objects' = {o \in objects : o.depth < n}
  BY DEF Leave
<1> HIDE DEF n, sub
<1>7. /\ scopes' \in Seq(Frames) /\ Len(scopes') = n - 1
      /\ \A i \in 1 .. n - 1 : scopes'[i] = scopes[i]
  BY <1>2, <1>5, <1>6
<1>8. ObjectsOK'
  BY <1>2, <1>6, <1>7 DEF SafeInv, ObjectsOK, EndOf, TypeOK, Objects
<1>9. LiveDisjoint'
  BY <1>6 DEF SafeInv, LiveDisjoint, EndOf
<1>10. QED BY <1>2, <1>3, <1>6, <1>7, <1>8, <1>9 DEF n

(* The scope that is left may give the heap up, or go back to an offset f  *)
(* above everything in that block that outlives the scope.                 *)
LEMMA LeftSafe ==
  ASSUME SafeInv, scopes # << >>, Leave, UNCHANGED <<granted, aborted, astray>>, given_up' \in BOOLEAN,
         heap' \in Heaps, HeapOK', HeapAbove',
         heap'.base = heap.base \/ (heap'.base = NULL /\ (OffsetOpen => given_up')),
         given_up => given_up'
  PROVE  SafeInv'
<1> DEFINE n == Len(scopes)
<1>1. /\ n \in Nat /\ n >= 1
      /\ scopes' \in Seq(Frames) /\ Len(scopes') = n - 1
      /\ \A i \in 1 .. n - 1 : scopes'[i] = scopes[i]
      /\ objects' = {o \in objects : o.depth < n}
      /\ ObjectsOK' /\ LiveDisjoint'
  BY LeaveFacts
<1> HIDE DEF n
<1>2. TypeOK' /\ ~astray'
  BY <1>1 DEF SafeInv, TypeOK
<1>3. \A o \in objects : o.base # NULL
  BY DEF SafeInv, ObjectsOK, TypeOK
<1>4. FramesOK'
  <2> SUFFICES ASSUME NEW i \in 1 .. n - 1
               PROVE  /\ scopes'[i].offset <= HeapSize
                      /\ ~given_up' /\ Stack(i)' /\ scopes'[i].base = NULL => scopes'[i].offset = 0
                      /\ ~given_up' /\ ~Stack(i)' /\ heap'.base = NULL => scopes'[i].offset = 0
    BY <1>1 DEF FramesOK
  <2>1. i \in 1 .. Len(scopes) /\ scopes'[i] = scopes[i]
    BY <1>1 DEF n
  <2>2. ~Stack(i) => OffsetOpen
    BY <2>1, FrameTyped DEF OffsetOpen, Stack, SafeInv
  <2>3. QED BY <2>1, <2>2 DEF SafeInv, FramesOK, Stack
<1>5. FramesAbove'
  <2> SUFFICES ASSUME NEW i \in 1 .. n - 1, NEW o \in objects, o.depth < n, o.depth < i,
                      o.base = Target(i)'
               PROVE  EndOf(o) <= scopes'[i].offset
    BY <1>1 DEF FramesAbove, EndOf
  <2>1. i \in 1 .. Len(scopes) /\ scopes'[i] = scopes[i]
    BY <1>1 DEF n
  <2>2. o.base = Target(i)
    BY <1>3, <2>1 DEF Target, Stack
  <2>3. QED BY <2>1, <2>2 DEF SafeInv, FramesAbove
<1>6. QED BY <1>1, <1>2, <1>4, <1>5 DEF SafeInv

(* A stack scope goes back to what its frame saved, above everything that  *)
(* outlives the scope, or to no heap at all.                               *)
LEMMA PopSafe == ASSUME SafeInv, ScopePop PROVE SafeInv'
<1> DEFINE n == Len(scopes)
           f == scopes[n]
<1>1. /\ n \in Nat /\ n >= 1 /\ f \in Frames
      /\ objects' = {o \in objects : o.depth < n}
      /\ UNCHANGED <<granted, aborted, astray>>
  BY LeaveFacts DEF ScopePop
<1>2. /\ heap' = IF heap.base = f.base THEN [heap EXCEPT !.offset = f.offset] ELSE NoHeap
      /\ given_up' = (given_up \/ (OffsetOpen /\ heap.base # f.base))
  BY DEF ScopePop, SameBase
<1>3. Stack(n)
  BY DEF ScopePop, Stack
<1>4. given_up' \in BOOLEAN /\ (given_up => given_up')
  BY <1>2 DEF SafeInv, TypeOK
<1>5. /\ ~given_up /\ f.base = NULL => f.offset = 0
      /\ f.offset <= HeapSize
      /\ \A o \in objects : o.depth < n /\ o.base = f.base => EndOf(o) <= f.offset
  BY <1>1, <1>3 DEF SafeInv, FramesOK, FramesAbove, Target
<1> HIDE DEF n, f
<1>6. CASE heap.base = f.base
  <2>1. f.offset \in Nat /\ heap \in Heaps /\ heap' = [heap EXCEPT !.offset = f.offset]
    BY <1>1, <1>2, <1>6 DEF SafeInv, TypeOK, Frames
  <2>2. heap' \in Heaps /\ heap' = [base |-> heap.base, offset |-> f.offset, capacity |-> heap.capacity]
    BY <2>1, HeapRewound
  <2>3. heap'.base = heap.base /\ heap'.capacity = heap.capacity /\ heap'.offset = f.offset
    BY <2>2
  <2>4. HeapOK'
    BY <1>1, <1>4, <1>5, <1>6, <2>3 DEF SafeInv, HeapOK
  <2>5. HeapAbove'
    BY <1>1, <1>5, <1>6, <2>3 DEF HeapAbove, EndOf
  <2>6. QED BY <1>1, <1>4, <2>2, <2>3, <2>4, <2>5, LeftSafe DEF ScopePop
<1>7. CASE heap.base # f.base
  <2>1. heap' = NoHeap /\ heap'.base = NULL /\ heap'.offset = 0 /\ heap'.capacity = 0
    BY <1>2, <1>7 DEF NoHeap
  <2>2. HeapOK' /\ heap' \in Heaps
    BY <2>1 DEF HeapOK, NoHeap, Heaps
  <2>3. \A o \in objects : o.base # NULL
    BY DEF SafeInv, ObjectsOK, TypeOK
  <2>4. HeapAbove'
    BY <1>1, <2>1, <2>3 DEF HeapAbove
  <2>5. OffsetOpen => given_up'
    BY <1>2, <1>7
  <2>6. QED BY <1>1, <1>4, <2>1, <2>2, <2>4, <2>5, LeftSafe DEF ScopePop
<1>8. QED BY <1>6, <1>7

(* An offset scope goes back inside the heap there is now.                 *)
LEMMA OffsetSafe ==
  ASSUME SafeInv, scopes # << >>, ~Stack(Len(scopes)), Leave, UNCHANGED <<granted, aborted, history>>,
         \/ UNCHANGED heap
         \/ heap' = [heap EXCEPT !.offset = scopes[Len(scopes)].offset]
  PROVE  SafeInv'
<1> DEFINE n == Len(scopes)
           f == scopes[n]
<1>1. /\ n \in Nat /\ n >= 1 /\ f \in Frames /\ objects' = {o \in objects : o.depth < n}
      /\ UNCHANGED <<granted, aborted, given_up, astray>>
  BY LeaveFacts DEF history
<1>2. /\ f.offset <= HeapSize /\ f.offset \in Nat
      /\ ~given_up /\ heap.base = NULL => f.offset = 0
      /\ \A o \in objects : o.depth < n /\ o.base = heap.base => EndOf(o) <= f.offset
  BY <1>1 DEF SafeInv, FramesOK, FramesAbove, Target, Frames
<1>3. heap \in Heaps /\ given_up \in BOOLEAN /\ HeapOK /\ HeapAbove
  BY DEF SafeInv, TypeOK
<1>4. CASE UNCHANGED heap
  <2>1. HeapOK' /\ HeapAbove'
    BY <1>1, <1>3, <1>4 DEF HeapOK, HeapAbove, EndOf
  <2>2. QED BY <1>1, <1>3, <1>4, <2>1, LeftSafe
<1>5. CASE heap' = [heap EXCEPT !.offset = f.offset]
  <2>1. heap' \in Heaps /\ heap' = [base |-> heap.base, offset |-> f.offset, capacity |-> heap.capacity]
    BY <1>2, <1>3, <1>5, HeapRewound
  <2>2. heap'.base = heap.base /\ heap'.capacity = heap.capacity /\ heap'.offset = f.offset
    BY <2>1
  <2>3. HeapOK' /\ HeapAbove'
    BY <1>1, <1>2, <1>3, <2>2 DEF HeapOK, HeapAbove, EndOf
  <2>4. QED BY <1>1, <1>3, <2>1, <2>2, <2>3, LeftSafe
<1>6. QED BY <1>4, <1>5

(* A reset leaves nothing alive, and the frames as they are.               *)
LEMMA ResetSafe == ASSUME SafeInv, Reset PROVE SafeInv'
<1>1. /\ heap' = NoHeap /\ objects' = {} /\ granted' = {} /\ UNCHANGED <<scopes, aborted, astray>>
      /\ given_up' = (given_up \/ OffsetOpen)
  BY DEF Reset
<1>2. TypeOK' /\ HeapOK' /\ ~astray'
  BY <1>1 DEF SafeInv, TypeOK, Heaps, HeapOK, NoHeap
<1>3. ObjectsOK' /\ HeapAbove' /\ FramesAbove' /\ LiveDisjoint'
  BY <1>1 DEF ObjectsOK, HeapAbove, FramesAbove, LiveDisjoint
<1>4. FramesOK'
  <2>1. \A i \in 1 .. Len(scopes) : ~Stack(i) => OffsetOpen
    BY FrameTyped DEF OffsetOpen, Stack, SafeInv
  <2>2. QED BY <1>1, <2>1 DEF SafeInv, FramesOK, Stack
<1>5. QED BY <1>2, <1>3, <1>4 DEF SafeInv

LEMMA NextSafe == ASSUME SafeInv, [Next]_vars PROVE IInv'
<1>1. ASSUME NEW size \in Sizes, Bump(size) PROVE IInv'
  BY <1>1, BumpSafe, BumpAstray DEF IInv
<1>2. CASE \E size \in Sizes : RefillAndBump(size)
  BY <1>2, RefillSafe DEF IInv
<1>3. CASE ScopePush
  BY <1>3, PushSafe DEF IInv
<1>4. CASE ScopePop
  BY <1>4, PopSafe DEF IInv
<1>5. CASE Reset
  BY <1>5, ResetSafe DEF IInv
<1>6. CASE ScopeUnderflow \/ UNCHANGED vars
  <2>1. SafeInv'
    <3>1. aborted' \in BOOLEAN /\ UNCHANGED <<heap, scopes, objects, granted, given_up, astray>>
      BY <1>6 DEF ScopeUnderflow, vars, history, SafeInv, TypeOK
    <3>2. QED BY <3>1, StaySafe
  <2>2. QED BY <2>1 DEF IInv
<1>7. CASE OffsetSave
  BY <1>7, SaveSafe DEF IInv
<1>8. CASE OffsetRestore
  BY <1>8, OffsetSafe DEF OffsetRestore, Stack, IInv
<1>9. CASE OffsetSkipped
  BY <1>9, OffsetSafe DEF OffsetSkipped, Stack, IInv
<1>10. QED BY <1>1, <1>2, <1>3, <1>4, <1>5, <1>6, <1>7, <1>8, <1>9 DEF Next

(* To use an object that lies nowhere ends the process.                    *)
LEMMA NextIInv == ASSUME IInv, [Next]_vars PROVE IInv'
<1>1. CASE SafeInv
  BY <1>1, NextSafe
<1>2. CASE TypeOK /\ astray /\ given_up
  <2>1. UNCHANGED vars
    BY <1>2 DEF Next, Running, Bump, RefillAndBump, ScopePush, ScopePop, ScopeUnderflow,
                OffsetSave, OffsetRestore, OffsetSkipped, Reset
  <2>2. QED BY <1>2, <2>1 DEF vars, history, TypeOK, IInv
<1>3. QED BY <1>1, <1>2 DEF IInv

(* The thread heap stays well-formed, and "capacity - offset" does not     *)
(* wrap, in every program whose stack scopes give the heap up, and whose   *)
(* resets happen, outside offset scopes.                                   *)
THEOREM HeapWellFormed ==
  Spec => [](TypeOK /\ (~given_up => heap.offset <= heap.capacity))
<1>1. Init => IInv
  BY InitSafe DEF IInv
<1>2. IInv /\ [Next]_vars => IInv'
  BY NextIInv
<1>3. IInv => TypeOK /\ (~given_up => heap.offset <= heap.capacity)
  <2>1. SUFFICES ASSUME SafeInv, ~given_up PROVE heap.offset <= heap.capacity
    BY DEF IInv, SafeInv
  <2>2. QED BY <2>1 DEF SafeInv, HeapOK, TypeOK, Heaps
<1>4. QED BY <1>1, <1>2, <1>3, PTL DEF Spec

(* In every program no allocation, after whatever refills, pops, restores  *)
(* and resets, is given memory of an object that is still alive or memory  *)
(* outside a block the pool granted, until one is served from an offset    *)
(* restored where there is no heap; and that comes after the heap was      *)
(* given up inside an offset scope.                                        *)
THEOREM ScopesSafe == Spec => []MemorySafe
<1>1. Init => IInv
  BY InitSafe DEF IInv
<1>2. IInv /\ [Next]_vars => IInv'
  BY NextIInv
<1>3. IInv => MemorySafe
  BY DEF IInv, SafeInv, HeapOK, ObjectsOK, LiveInBlock, RoomDoesNotWrap, MemorySafe
<1>4. QED BY <1>1, <1>2, <1>3, PTL DEF Spec

-----------------------------------------------------------------------------
(* The survivor segment, for any number of threads and slots: what S!Spec  *)
(* of MCKmmScope promises.  The record of a thread has what its place      *)
(* needs.                                                                  *)
ObjectSizes == {1, LargeSize}
SlotObjects == [place : {"slot"}, start : S!SlotNumbers]
LargeObjects == [place : {"large"}, start : Nat, size : ObjectSizes, owner : Threads]
AnyObject == SlotObjects \union LargeObjects

Plain == [at : {"init", "setup", "release", "scan", "large"}, size : ObjectSizes]
Loads == [at : {"load"}, size : ObjectSizes, slot : S!SlotNumbers, tries : Nat]
Swaps == [at : {"cas"}, size : ObjectSizes, slot : S!SlotNumbers, tries : Nat, old : SUBSET S!SlotNumbers]
Bumps == [at : {"bump"}, size : ObjectSizes, offset : Nat]
Slotted == [at : {"hint", "free"}, object : SlotObjects]
Commits == [at : {"commit"}, object : LargeObjects]
Haves == [at : {"have"}, object : AnyObject]
Nulls == [at : {"null"}, size : ObjectSizes, slot : S!SlotNumbers]
Clears == [at : {"clear"}, object : SlotObjects, old : SUBSET S!SlotNumbers]
ThreadRecords ==
  {S!Idle} \union Plain \union Loads \union Swaps \union Bumps \union Slotted \union Commits
  \union Haves \union Nulls \union Clears

SegmentTypes ==
  /\ bitmap \in [S!Words -> SUBSET S!SlotNumbers] /\ free_hint \in S!SlotNumbers
  /\ large_offset \in 0 .. LargeCapacity /\ committed \in 0 .. LargeCapacity
  /\ storage \in BOOLEAN /\ sized \in BOOLEAN /\ initialized \in BOOLEAN /\ init_flag \in 0 .. 2
  /\ lost \subseteq S!SlotNumbers /\ survivors \subseteq AnyObject
  /\ checkpoints \in [Threads -> SUBSET (0 .. LargeCapacity)]

ThreadTypes == thread \in [Threads -> ThreadRecords]

(* What a thread in state r has, and what all have together.               *)
Hand(r) == IF r.at \in {"hint", "commit", "have", "free", "clear"} THEN {r.object} ELSE {}
HeldOf(O, th) == {o \in AnyObject : o \in O \/ \E t \in Threads : o \in Hand(th[t])}

LEMMA Shapes ==
  ASSUME NEW r \in ThreadRecords
  PROVE  /\ r.at \in {"init", "setup", "release", "scan", "large"} => r \in Plain
         /\ r.at = "load" => r \in Loads
         /\ r.at = "cas" => r \in Swaps
         /\ r.at = "bump" => r \in Bumps
         /\ r.at \in {"hint", "free"} => r \in Slotted
         /\ r.at = "commit" => r \in Commits
         /\ r.at = "have" => r \in Haves
         /\ r.at = "clear" => r \in Clears
         /\ r.at = "null" => r \in Nulls
         /\ "object" \in DOMAIN r <=> r.at \in {"hint", "commit", "have", "free", "clear"}
         /\ Hand(r) \subseteq AnyObject
BY DEF ThreadRecords, S!Idle, Plain, Loads, Swaps, Bumps, Slotted, Commits, Haves, Nulls, Clears, Hand, AnyObject

LEMMA HeldIs ==
  ASSUME SegmentTypes, ThreadTypes
  PROVE  (\A t \in Threads : S!InHand(t) = Hand(thread[t])) /\ S!Held = HeldOf(survivors, thread)
<1>1. \A t \in Threads : S!InHand(t) = Hand(thread[t]) /\ Hand(thread[t]) \subseteq AnyObject
  BY Shapes DEF ThreadTypes, S!InHand, Hand
<1>2. QED BY <1>1 DEF S!Held, HeldOf, SegmentTypes

-----------------------------------------------------------------------------
(* The invariant.  The first use: one thread sets up, and whoever is past   *)
(* it finds either memory or the flag of a set-up that has failed.          *)
Outside == {"idle", "init", "setup", "release"}
SetsUp(r) == r.at \in {"setup", "release"}

SetupOK ==
  /\ initialized <=> storage
  /\ storage => sized
  /\ init_flag = 0 => ~storage
  /\ \A t \in Threads : SetsUp(thread[t]) => init_flag = 1
  /\ \A t \in Threads : thread[t].at = "setup" => ~storage
  /\ \A t, u \in Threads : SetsUp(thread[t]) /\ SetsUp(thread[u]) => t = u
  /\ \A t \in Threads : thread[t].at \notin Outside => storage \/ init_flag = 2

(* A word has the bits of its own slots, and a thread swaps in a bit that   *)
(* was not set in what it has loaded.                                       *)
BitsInPlace == \A w \in S!Words : \A s \in bitmap[w] : S!Word(s) = w
BitIsNew == \A t \in Threads : thread[t].at = "cas" => thread[t].slot \notin thread[t].old

(* A large object is committed before the program has it.                  *)
LargeCommitted == storage =>
  /\ \A o \in survivors : o.place = "large" => o.start + o.size <= committed
  /\ \A t \in Threads : \A o \in Hand(thread[t]) :
       thread[t].at = "have" /\ o.place = "large" => o.start + o.size <= committed

Local == SegmentTypes /\ ThreadTypes /\ SetupOK /\ BitsInPlace /\ BitIsNew /\ LargeCommitted

(* Who holds what: O has been handed out, th are the threads.              *)
HandsApart(O, th) ==
  /\ \A t \in Threads : Hand(th[t]) \cap O = {}
  /\ \A t, u \in Threads : t # u => Hand(th[t]) \cap Hand(th[u]) = {}
HandIsOwn(th) == \A t \in Threads : \A o \in Hand(th[t]) : o.place = "large" => o.owner = t

(* The slots that are held, H, or lost, L, have their bits set, and while   *)
(* there is memory no others have.  Nothing is held before the first set-up *)
(* nor between a destruction and the next one, tried.                      *)
Tried == storage \/ (sized /\ init_flag = 2)

BitsHeld(H, L, bits, stored, tried) ==
  /\ H # {} \/ L # {} => tried
  /\ \A s \in S!SlotNumbers : S!Slot(s) \in H \/ s \in L => s \in bits[S!Word(s)]
  /\ stored => \A s \in S!SlotNumbers : s \in bits[S!Word(s)] => S!Slot(s) \in H \/ s \in L
  /\ \A s \in L : S!Slot(s) \notin H

LargeApart(H, offset) ==
  /\ \A o \in H : o.place = "large" => o.start + o.size <= offset
  /\ \A o, p \in H : o.place = "large" /\ p.place = "large" /\ o # p =>
       o.start + o.size <= p.start \/ p.start + p.size <= o.start

Holders ==
  LET H == HeldOf(survivors, thread) IN
  /\ HandsApart(survivors, thread) /\ HandIsOwn(thread)
  /\ BitsHeld(H, lost, bitmap, storage, Tried) /\ LargeApart(H, large_offset)

SurvivorInv == Local /\ Holders

-----------------------------------------------------------------------------
(* What a move of thread t does to the hands: it gets hold of an object,    *)
(* hands it out, takes it back, or gives it up.                             *)
Others(th, g, t) == \A u \in Threads : u # t => g[u] = th[u]

LEMMA HandsKept ==
  ASSUME NEW O, NEW th, NEW g, NEW t \in Threads, Others(th, g, t), Hand(g[t]) = Hand(th[t])
  PROVE  /\ HeldOf(O, g) = HeldOf(O, th)
         /\ HandsApart(O, th) => HandsApart(O, g)
         /\ HandIsOwn(th) => HandIsOwn(g)
<1>1. \A u \in Threads : Hand(g[u]) = Hand(th[u])
  BY DEF Others
<1>2. QED BY <1>1 DEF HeldOf, HandsApart, HandIsOwn

LEMMA HandGets ==
  ASSUME NEW O, NEW th, NEW g, NEW t \in Threads, NEW o \in AnyObject, Others(th, g, t),
         Hand(th[t]) = {}, Hand(g[t]) = {o}, o \notin HeldOf(O, th), HandsApart(O, th)
  PROVE  /\ HeldOf(O, g) = HeldOf(O, th) \union {o}
         /\ HandsApart(O, g)
<1>1. o \notin O /\ \A u \in Threads : o \notin Hand(th[u])
  BY DEF HeldOf
<1>2. \A u \in Threads : u # t => Hand(g[u]) = Hand(th[u])
  BY DEF Others
<1>3. HandsApart(O, g)
  BY <1>1, <1>2 DEF HandsApart
<1>4. QED BY <1>2, <1>3 DEF HeldOf

LEMMA HandsOut ==
  ASSUME NEW O, NEW th, NEW g, NEW t \in Threads, NEW o \in AnyObject, Others(th, g, t),
         Hand(th[t]) = {o}, Hand(g[t]) = {}, HandsApart(O, th)
  PROVE  /\ HeldOf(O \union {o}, g) = HeldOf(O, th)
         /\ HandsApart(O \union {o}, g)
<1>1. \A u \in Threads : u # t => Hand(g[u]) = Hand(th[u]) /\ o \notin Hand(th[u])
  BY DEF Others, HandsApart
<1>2. QED BY <1>1 DEF HeldOf, HandsApart

LEMMA HandTakes ==
  ASSUME NEW O, NEW th, NEW g, NEW t \in Threads, NEW o \in O, O \subseteq AnyObject, Others(th, g, t),
         Hand(th[t]) = {}, Hand(g[t]) = {o}, HandsApart(O, th)
  PROVE  /\ HeldOf(O \ {o}, g) = HeldOf(O, th)
         /\ HandsApart(O \ {o}, g)
<1>1. \A u \in Threads : u # t => Hand(g[u]) = Hand(th[u]) /\ o \notin Hand(th[u])
  BY DEF Others, HandsApart
<1>2. QED BY <1>1 DEF HeldOf, HandsApart

LEMMA HandDrops ==
  ASSUME NEW O, NEW th, NEW g, NEW t \in Threads, NEW o \in AnyObject, Others(th, g, t),
         Hand(th[t]) = {o}, Hand(g[t]) = {}, HandsApart(O, th)
  PROVE  /\ HeldOf(O, g) = HeldOf(O, th) \ {o} /\ o \in HeldOf(O, th)
         /\ HandsApart(O, g)
<1>1. o \notin O /\ \A u \in Threads : u # t => Hand(g[u]) = Hand(th[u]) /\ o \notin Hand(th[u])
  BY DEF Others, HandsApart
<1>2. QED BY <1>1 DEF HeldOf, HandsApart

LEMMA Discarded ==
  ASSUME NEW O, NEW th, NEW g, NEW t \in Threads, NEW o \in O, O \subseteq AnyObject, Others(th, g, t),
         Hand(th[t]) = {}, Hand(g[t]) = {}, HandsApart(O, th)
  PROVE  /\ HeldOf(O \ {o}, g) = HeldOf(O, th) \ {o}
         /\ HandsApart(O \ {o}, g)
<1>1. \A u \in Threads : Hand(g[u]) = Hand(th[u]) /\ o \notin Hand(th[u])
  BY DEF Others, HandsApart
<1>2. QED BY <1>1 DEF HeldOf, HandsApart

LEMMA OwnKept ==
  ASSUME NEW th, NEW g, NEW t \in Threads, Others(th, g, t), HandIsOwn(th),
         \A o \in Hand(g[t]) : o.place = "large" => o.owner = t
  PROVE  HandIsOwn(g)
BY DEF Others, HandIsOwn

-----------------------------------------------------------------------------
(* One thread moves.                                                       *)
LEMMA Moved ==
  ASSUME ThreadTypes, NEW t \in Threads, NEW r \in ThreadRecords, S!Goto(t, r)
  PROVE  thread'[t] = r /\ Others(thread, thread', t) /\ ThreadTypes'
BY DEF ThreadTypes, S!Goto, Others

LEMMA SetupKept ==
  ASSUME SetupOK, NEW t \in Threads, Others(thread, thread', t), UNCHANGED S!setup, ~SetsUp(thread'[t]),
         thread'[t].at \notin Outside => thread[t].at \notin Outside \/ storage \/ init_flag = 2
  PROVE  SetupOK'
BY DEF SetupOK, S!setup, Others, SetsUp

LEMMA BitNewKept ==
  ASSUME BitIsNew, NEW t \in Threads, Others(thread, thread', t),
         thread'[t].at = "cas" => thread'[t].slot \notin thread'[t].old
  PROVE  BitIsNew'
BY DEF BitIsNew, Others

LEMMA LargeTypes ==
  ASSUME S!SurvivorAssumption, NEW o \in AnyObject, o.place = "large"
  PROVE  o \in LargeObjects /\ o.start \in Nat /\ o.size \in Nat \ {0} /\ o.owner \in Threads
<1>1. o \in LargeObjects
  BY DEF AnyObject, SlotObjects
<1>2. QED BY <1>1 DEF LargeObjects, ObjectSizes, S!SurvivorAssumption

LEMMA CommittedKept ==
  ASSUME S!SurvivorAssumption, LargeCommitted, SegmentTypes, ThreadTypes,
         NEW t \in Threads, Others(thread, thread', t),
         committed \in Nat, committed' \in Nat, committed' >= committed, survivors' \subseteq survivors,
         storage' = storage,
         storage /\ thread'[t].at = "have" =>
           \A o \in Hand(thread'[t]) : o.place = "large" => o.start + o.size <= committed'
  PROVE  LargeCommitted'
<1>1. ASSUME NEW o \in AnyObject, o.place = "large", o.start + o.size <= committed
      PROVE  o.start + o.size <= committed'
  <2>1. o.start \in Nat /\ o.size \in Nat
    BY <1>1, LargeTypes
  <2>2. QED BY <1>1, <2>1
<1>2. storage => \A o \in survivors' : o.place = "large" => o.start + o.size <= committed'
  BY <1>1 DEF LargeCommitted, SegmentTypes
<1>3. ASSUME storage, NEW u \in Threads, NEW o \in Hand(thread'[u]), thread'[u].at = "have", o.place = "large"
      PROVE  o.start + o.size <= committed'
  <2>1. CASE u = t
    BY <1>3, <2>1
  <2>2. CASE u # t
    <3>1. thread'[u] = thread[u] /\ thread[u] \in ThreadRecords
      BY <2>2 DEF Others, ThreadTypes
    <3>2. o \in AnyObject /\ o.start + o.size <= committed
      BY <1>3, <3>1, Shapes DEF LargeCommitted
    <3>3. QED BY <1>1, <1>3, <3>2
  <2>3. QED BY <2>1, <2>2
<1>4. QED BY <1>2, <1>3 DEF LargeCommitted

(* A step after which every hand and every bit is what it was.             *)
LEMMA QuietSteps ==
  ASSUME S!SurvivorAssumption, SurvivorInv, NEW t \in Threads, NEW r \in ThreadRecords, S!Goto(t, r),
         Hand(r) = Hand(thread[t]), SetupOK',
         r.at = "cas" => r.slot \notin r.old,
         storage /\ r.at = "have" => \A o \in Hand(r) : o.place = "large" => o.start + o.size <= committed',
         committed' \in 0 .. LargeCapacity, committed' >= committed,
         bitmap' \in [S!Words -> SUBSET S!SlotNumbers], BitsInPlace',
         bitmap' = bitmap \/ (~storage /\ \A w \in S!Words : bitmap[w] \subseteq bitmap'[w]),
         free_hint' \in S!SlotNumbers, initialized' \in BOOLEAN, init_flag' \in 0 .. 2,
         Tried => Tried',
         UNCHANGED <<large_offset, storage, sized, survivors, lost, checkpoints>>
  PROVE  SurvivorInv'
<1>1. Local /\ Holders /\ SegmentTypes /\ ThreadTypes /\ BitIsNew /\ LargeCommitted
  BY DEF SurvivorInv, Local
<1>2. thread'[t] = r /\ Others(thread, thread', t) /\ ThreadTypes'
  BY <1>1, Moved
<1>3. SegmentTypes'
  BY <1>1 DEF SegmentTypes
<1>4. BitIsNew'
  BY <1>1, <1>2, BitNewKept
<1>5. LargeCommitted'
  <2>1. committed \in Nat /\ committed' \in Nat
    BY <1>1 DEF SegmentTypes, S!SurvivorAssumption
  <2>2. QED BY <1>1, <1>2, <2>1, CommittedKept
<1>6. /\ HeldOf(survivors, thread') = HeldOf(survivors, thread)
      /\ HandsApart(survivors, thread) => HandsApart(survivors, thread')
      /\ HandIsOwn(thread) => HandIsOwn(thread')
  BY <1>2, HandsKept
<1>7. \A s \in S!SlotNumbers : s \in bitmap[S!Word(s)] => s \in bitmap'[S!Word(s)]
  BY DEF S!Words
<1> DEFINE H == HeldOf(survivors, thread)
<1>8. BitsHeld(H, lost, bitmap, storage, Tried) /\ lost \subseteq S!SlotNumbers
  BY <1>1 DEF Holders, SegmentTypes
<1> HIDE DEF H
<1>9. BitsHeld(H, lost, bitmap', storage, Tried')
  BY <1>7, <1>8 DEF BitsHeld
<1>10. Holders'
  BY <1>1, <1>6, <1>9 DEF Holders, H
<1>11. QED BY <1>2, <1>3, <1>4, <1>5, <1>10 DEF SurvivorInv, Local

(* What the steps that touch neither hands nor bits need of the segment.   *)
LEMMA Unmoved ==
  ASSUME S!SurvivorAssumption, SurvivorInv
  PROVE  /\ committed \in 0 .. LargeCapacity /\ committed >= committed
         /\ bitmap \in [S!Words -> SUBSET S!SlotNumbers] /\ BitsInPlace
         /\ free_hint \in S!SlotNumbers /\ initialized \in BOOLEAN /\ init_flag \in 0 .. 2
         /\ large_offset \in 0 .. LargeCapacity /\ SetupOK /\ ThreadTypes
BY DEF SurvivorInv, Local, SegmentTypes, S!SurvivorAssumption

LEMMA AllocStep ==
  ASSUME S!SurvivorAssumption, SurvivorInv, NEW t \in Threads, S!Alloc(t)
  PROVE  SurvivorInv'
<1>1. PICK size \in ObjectSizes :
        S!Goto(t, IF initialized THEN S!Begin(size) ELSE [at |-> "init", size |-> size])
  BY DEF S!Alloc, ObjectSizes
<1> DEFINE r == IF initialized THEN S!Begin(size) ELSE [at |-> "init", size |-> size]
<1>2. r \in Plain /\ ~SetsUp(r) /\ (r.at \notin Outside => initialized) /\ r.at \notin {"cas", "have"}
      /\ Hand(r) = {}
  BY DEF Plain, S!Begin, SetsUp, Outside, Hand
<1>3. r \in ThreadRecords /\ S!Goto(t, r)
  BY <1>1, <1>2 DEF ThreadRecords
<1> HIDE DEF r
<1>4. Hand(thread[t]) = {}
  BY DEF S!Alloc, S!At, Hand
<1>5. UNCHANGED <<S!segment, S!setup, survivors, checkpoints, lost>>
  BY DEF S!Alloc
<1>6. SetupOK'
  <2>1. initialized => storage
    BY Unmoved DEF SetupOK
  <2>2. QED BY Unmoved, Moved, <1>2, <1>3, <1>5, <2>1, SetupKept
<1>7. QED BY <1>2, <1>3, <1>4, <1>5, <1>6, Unmoved, QuietSteps DEF S!segment, S!setup, BitsInPlace, Tried

LEMMA InitSteps ==
  ASSUME S!SurvivorAssumption, SurvivorInv,
         NEW t \in Threads, S!InitWins(t) \/ S!InitReleases(t) \/ S!InitWaited(t)
  PROVE  SurvivorInv'
<1>1. thread[t] \in Plain /\ Hand(thread[t]) = {}
  BY Unmoved, Shapes DEF S!InitWins, S!InitReleases, S!InitWaited, S!At, Hand, ThreadTypes
<1>2. CASE S!InitWins(t)
  <2> DEFINE r == [thread[t] EXCEPT !.at = "setup"]
  <2>1. r \in Plain /\ r.at = "setup" /\ Hand(r) = {}
    BY <1>1 DEF Plain, Hand
  <2>2. r \in ThreadRecords /\ S!Goto(t, r)
    BY <1>2, <2>1 DEF S!InitWins, ThreadRecords
  <2> HIDE DEF r
  <2>3. thread'[t] = r /\ Others(thread, thread', t)
    BY <2>2, Unmoved, Moved
  <2>4. /\ init_flag = 0 /\ init_flag' = 1
        /\ UNCHANGED <<S!segment, storage, sized, initialized, survivors, checkpoints, lost>>
    BY <1>2 DEF S!InitWins
  <2>5. SetupOK'
    BY <2>1, <2>3, <2>4, Unmoved DEF SetupOK, SetsUp, Others, Outside
  <2>6. /\ init_flag' \in 0 .. 2 /\ BitsInPlace' /\ bitmap' \in [S!Words -> SUBSET S!SlotNumbers]
        /\ initialized' \in BOOLEAN /\ free_hint' \in S!SlotNumbers
        /\ committed' \in 0 .. LargeCapacity /\ committed' >= committed
        /\ UNCHANGED <<bitmap, large_offset, storage, sized, survivors, lost, checkpoints>>
        /\ (Tried => Tried')
    BY <2>4, Unmoved DEF S!segment, BitsInPlace, Tried
  <2>7. QED BY <1>1, <2>1, <2>2, <2>5, <2>6, QuietSteps
<1>3. CASE S!InitReleases(t)
  <2> DEFINE r == S!Begin(thread[t].size)
  <2>1. r \in Plain /\ r.at \in {"scan", "large"} /\ Hand(r) = {}
    BY <1>1 DEF Plain, S!Begin, Hand
  <2>2. r \in ThreadRecords /\ S!Goto(t, r)
    BY <1>3, <2>1 DEF S!InitReleases, ThreadRecords
  <2> HIDE DEF r
  <2>3. thread'[t] = r /\ Others(thread, thread', t)
    BY <2>2, Unmoved, Moved
  <2>4. /\ thread[t].at = "release" /\ init_flag' = 2
        /\ UNCHANGED <<S!segment, storage, sized, initialized, survivors, checkpoints, lost>>
    BY <1>3 DEF S!InitReleases, S!At
  <2>5. SetupOK'
    BY <2>1, <2>3, <2>4, Unmoved DEF SetupOK, SetsUp, Others, Outside
  <2>6. /\ init_flag' \in 0 .. 2 /\ BitsInPlace' /\ bitmap' \in [S!Words -> SUBSET S!SlotNumbers]
        /\ initialized' \in BOOLEAN /\ free_hint' \in S!SlotNumbers
        /\ committed' \in 0 .. LargeCapacity /\ committed' >= committed
        /\ UNCHANGED <<bitmap, large_offset, storage, sized, survivors, lost, checkpoints>>
        /\ (Tried => Tried')
    BY <2>4, Unmoved DEF S!segment, BitsInPlace, Tried
  <2>7. QED BY <1>1, <2>1, <2>2, <2>5, <2>6, QuietSteps
<1>4. CASE S!InitWaited(t)
  <2> DEFINE r == S!Begin(thread[t].size)
  <2>1. r \in Plain /\ r.at \in {"scan", "large"} /\ Hand(r) = {}
    BY <1>1 DEF Plain, S!Begin, Hand
  <2>2. r \in ThreadRecords /\ S!Goto(t, r)
    BY <1>4, <2>1 DEF S!InitWaited, ThreadRecords
  <2> HIDE DEF r
  <2>3. thread'[t] = r /\ Others(thread, thread', t)
    BY <2>2, Unmoved, Moved
  <2>4. (initialized \/ init_flag = 2) /\ UNCHANGED <<S!segment, S!setup, survivors, checkpoints, lost>>
    BY <1>4 DEF S!InitWaited, S!SetUpElsewhere
  <2>5. SetupOK'
    BY <2>1, <2>3, <2>4, Unmoved, SetupKept DEF SetupOK, SetsUp
  <2>6. QED BY <1>1, <2>1, <2>2, <2>4, <2>5, Unmoved, QuietSteps DEF S!segment, S!setup, BitsInPlace, Tried
<1>5. QED BY <1>2, <1>3, <1>4

(* A quiet step of a thread that is past the set-up.                       *)
LEMMA UsingSteps ==
  ASSUME S!SurvivorAssumption, SurvivorInv, NEW t \in Threads, NEW r \in ThreadRecords, S!Goto(t, r),
         thread[t].at \notin Outside, r.at \notin {"init", "setup", "release"},
         Hand(r) = Hand(thread[t]),
         r.at = "cas" => r.slot \notin r.old,
         storage /\ r.at = "have" => \A o \in Hand(r) : o.place = "large" => o.start + o.size <= committed',
         committed' \in 0 .. LargeCapacity, committed' >= committed,
         free_hint' \in S!SlotNumbers,
         UNCHANGED <<bitmap, large_offset, S!setup, survivors, lost, checkpoints>>
  PROVE  SurvivorInv'
<1>1. thread'[t] = r /\ Others(thread, thread', t)
  BY Unmoved, Moved
<1>2. SetupOK'
  BY <1>1, Unmoved, SetupKept DEF SetsUp
<1>3. QED BY <1>2, Unmoved, QuietSteps DEF S!setup, BitsInPlace, Tried

LEMMA NextSlot ==
  ASSUME S!SurvivorAssumption, NEW s \in S!SlotNumbers
  PROVE  (s + 1) % Slots \in S!SlotNumbers
BY DEF S!SurvivorAssumption, S!SlotNumbers

LEMMA LoadsMoved ==
  ASSUME NEW r \in Loads, NEW s \in S!SlotNumbers, NEW n \in Nat
  PROVE  /\ [r EXCEPT !.slot = s, !.tries = n] \in Loads
         /\ [r EXCEPT !.slot = s, !.tries = n].at = "load"
BY DEF Loads

LEMMA ScanSteps ==
  ASSUME S!SurvivorAssumption, SurvivorInv, NEW t \in Threads, S!LoadHint(t) \/ S!LoadWord(t)
  PROVE  SurvivorInv'
<1>1. thread[t] \in ThreadRecords /\ Hand(thread[t]) = {} /\ thread[t].at \notin Outside
  BY Unmoved DEF S!LoadHint, S!LoadWord, S!At, Hand, ThreadTypes, Outside
<1>2. UNCHANGED <<S!segment, S!setup, survivors, checkpoints, lost>>
  BY DEF S!LoadHint, S!LoadWord
<1>3. ASSUME NEW r \in ThreadRecords, S!Goto(t, r), r.at \in {"scan", "large", "load", "cas"},
             r.at = "cas" => r.slot \notin r.old
      PROVE  SurvivorInv'
  <2>1. Hand(r) = {}
    BY <1>3 DEF Hand
  <2>2. QED BY <1>1, <1>2, <1>3, <2>1, Unmoved, UsingSteps DEF S!segment
<1>4. CASE S!LoadHint(t)
  <2> DEFINE r == [at |-> "load", size |-> thread[t].size, slot |-> free_hint, tries |-> 0]
  <2>1. r \in Loads
    BY <1>1, <1>4, Shapes, Unmoved DEF S!LoadHint, S!At, Plain, Loads
  <2>2. r \in ThreadRecords /\ S!Goto(t, r) /\ r.at = "load"
    BY <1>4, <2>1 DEF S!LoadHint, ThreadRecords
  <2> HIDE DEF r
  <2>3. QED BY <1>3, <2>2
<1>5. CASE S!LoadWord(t)
  <2>1. thread[t] \in Loads
    BY <1>1, <1>5, Shapes DEF S!LoadWord, S!At
  <2>2. CASE thread[t].tries = Slots
    <3> DEFINE r == S!Spill(thread[t])
    <3>1. r \in Plain /\ r.at = "large"
      BY <2>1 DEF S!Spill, Plain, Loads
    <3>2. r \in ThreadRecords /\ S!Goto(t, r)
      BY <1>5, <2>2, <3>1 DEF S!LoadWord, ThreadRecords
    <3> HIDE DEF r
    <3>3. QED BY <1>3, <3>1, <3>2
  <2>3. CASE thread[t].tries # Slots /\ thread[t].slot \in bitmap[S!Word(thread[t].slot)]
    <3> DEFINE r == [thread[t] EXCEPT !.slot = (@ + 1) % Slots, !.tries = @ + 1]
    <3>1. r \in Loads /\ r.at = "load"
      <4>1. (thread[t].slot + 1) % Slots \in S!SlotNumbers
        BY <2>1, NextSlot DEF Loads
      <4>2. thread[t].tries + 1 \in Nat
        BY <2>1 DEF Loads
      <4>3. QED BY <2>1, <4>1, <4>2, LoadsMoved
    <3>2. r \in ThreadRecords /\ S!Goto(t, r)
      BY <1>5, <2>3, <3>1 DEF S!LoadWord, ThreadRecords
    <3> HIDE DEF r
    <3>3. QED BY <1>3, <3>1, <3>2
  <2>4. CASE thread[t].tries # Slots /\ thread[t].slot \notin bitmap[S!Word(thread[t].slot)]
    <3> DEFINE r == [at |-> "cas", size |-> thread[t].size, slot |-> thread[t].slot,
                     tries |-> thread[t].tries, old |-> bitmap[S!Word(thread[t].slot)]]
    <3>1. bitmap[S!Word(thread[t].slot)] \in SUBSET S!SlotNumbers
      BY <2>1, Unmoved DEF Loads, S!Words
    <3>2. r \in Swaps /\ r.at = "cas" /\ r.slot \notin r.old
      BY <2>1, <2>4, <3>1 DEF Loads, Swaps
    <3>3. r \in ThreadRecords /\ S!Goto(t, r)
      BY <1>5, <2>4, <3>2 DEF S!LoadWord, ThreadRecords
    <3> HIDE DEF r
    <3>4. QED BY <1>3, <3>2, <3>3
  <2>5. QED BY <2>2, <2>3, <2>4
<1>6. QED BY <1>4, <1>5

-----------------------------------------------------------------------------
(* Slots: a bit is set, a slot is held, returned, freed, and the bit is     *)
(* cleared.                                                                *)
LEMMA LocalSteps ==
  ASSUME S!SurvivorAssumption, SurvivorInv, NEW t \in Threads, NEW r \in ThreadRecords, S!Goto(t, r),
         r.at \notin {"init", "setup", "release", "cas", "have"},
         r.at \notin Outside => thread[t].at \notin Outside \/ storage,
         survivors' \subseteq survivors, UNCHANGED <<committed, S!setup>>, SegmentTypes', BitsInPlace'
  PROVE  Local' /\ thread'[t] = r /\ Others(thread, thread', t) /\ Tried' = Tried
<1>0. storage' = storage /\ Tried' = Tried
  BY DEF S!setup, Tried
<1>1. Local /\ SegmentTypes /\ ThreadTypes /\ SetupOK /\ BitIsNew /\ LargeCommitted
  BY DEF SurvivorInv, Local
<1>2. thread'[t] = r /\ Others(thread, thread', t) /\ ThreadTypes'
  BY <1>1, Moved
<1>3. SetupOK'
  BY <1>1, <1>2, SetupKept DEF SetsUp
<1>4. BitIsNew'
  BY <1>1, <1>2, BitNewKept
<1>5. LargeCommitted'
  <2>1. committed \in Nat /\ committed' \in Nat /\ committed' >= committed
    BY <1>1 DEF SegmentTypes, S!SurvivorAssumption
  <2>2. QED BY <1>0, <1>1, <1>2, <2>1, CommittedKept
<1>6. QED BY <1>0, <1>2, <1>3, <1>4, <1>5 DEF Local

\* Slots differ as their numbers do, and are not large objects.
LEMMA SlotFacts ==
  /\ \A s \in S!SlotNumbers : S!Slot(s) \in SlotObjects /\ S!Slot(s) \in AnyObject /\ S!Slot(s).place = "slot"
  /\ \A s, u : S!Slot(s) = S!Slot(u) => s = u
  /\ \A o \in SlotObjects : o = S!Slot(o.start) /\ o.start \in S!SlotNumbers /\ o.place = "slot"
<1>1. \A s \in S!SlotNumbers : S!Slot(s) \in SlotObjects /\ S!Slot(s).place = "slot"
  BY DEF S!Slot, SlotObjects
<1>2. ASSUME NEW s, NEW u, S!Slot(s) = S!Slot(u) PROVE s = u
  <2>1. S!Slot(s).start = s /\ S!Slot(u).start = u
    BY DEF S!Slot
  <2>2. QED BY <1>2, <2>1
<1>3. \A o \in SlotObjects : o = S!Slot(o.start) /\ o.start \in S!SlotNumbers /\ o.place = "slot"
  BY DEF S!Slot, SlotObjects
<1>4. QED BY <1>1, <1>2, <1>3 DEF AnyObject

LEMMA SetBitStep ==
  ASSUME S!SurvivorAssumption, SurvivorInv, NEW t \in Threads, S!SetBit(t)
  PROVE  SurvivorInv'
<1> DEFINE s == thread[t].slot
           w == S!Word(s)
           old == thread[t].old
<1>1. thread[t] \in Swaps /\ thread[t].at = "cas" /\ Hand(thread[t]) = {} /\ thread[t].at \notin Outside
  BY Unmoved, Shapes DEF S!SetBit, S!At, ThreadTypes, Hand, Outside
<1>2. s \in S!SlotNumbers /\ old \in SUBSET S!SlotNumbers /\ w \in S!Words
  BY <1>1 DEF Swaps, S!Words
<1>3. UNCHANGED <<free_hint, large_offset, committed, S!setup, survivors, checkpoints, lost>>
  BY DEF S!SetBit
<1>4. CASE S!Goto(t, S!Reload(thread[t])) /\ UNCHANGED bitmap
  <2>1. S!Reload(thread[t]) \in Loads /\ S!Reload(thread[t]).at = "load"
    BY <1>1 DEF S!Reload, Swaps, Loads
  <2>2. S!Reload(thread[t]) \in ThreadRecords /\ Hand(S!Reload(thread[t])) = {}
    BY <2>1 DEF ThreadRecords, Hand
  <2>3. QED BY <1>1, <1>3, <1>4, <2>1, <2>2, Unmoved, UsingSteps
<1>5. CASE /\ S!Unchanged(w, old)
           /\ bitmap' = [bitmap EXCEPT ![w] = old \union {s}]
           /\ S!Goto(t, IF S!NotNull(s) THEN [at |-> "hint", object |-> S!Slot(s)]
                        ELSE [at |-> "null", size |-> thread[t].size, slot |-> s])
  <2>1. bitmap[w] = old /\ s \notin old
    BY <1>1, <1>5 DEF S!Unchanged, SurvivorInv, Local, BitIsNew
  <2>2. bitmap' \in [S!Words -> SUBSET S!SlotNumbers] /\ bitmap'[w] = bitmap[w] \union {s}
        /\ \A v \in S!Words : v # w => bitmap'[v] = bitmap[v]
    BY <1>2, <1>5, <2>1, Unmoved
  <2>3. BitsInPlace'
    BY <1>2, <2>2, Unmoved DEF BitsInPlace
  <2>4. CASE ~S!NotNull(s)
    <3> DEFINE r == [at |-> "null", size |-> thread[t].size, slot |-> s]
    <3>1. r \in Nulls /\ r.at = "null" /\ Hand(r) = {}
      BY <1>1, <1>2 DEF Swaps, Nulls, Hand
    <3>2. r \in ThreadRecords /\ S!Goto(t, r)
      BY <1>5, <2>4, <3>1 DEF ThreadRecords
    <3> HIDE DEF r
    <3>3. SetupOK'
      <4>1. thread'[t] = r /\ Others(thread, thread', t)
        BY <3>2, Unmoved, Moved
      <4>2. QED BY <1>1, <1>3, <3>1, <4>1, Unmoved, SetupKept DEF SetsUp
    <3>4. ~storage /\ \A v \in S!Words : bitmap[v] \subseteq bitmap'[v]
      BY <2>2, <2>4 DEF S!NotNull
    <3>5. QED
      BY <1>1, <1>3, <2>2, <2>3, <3>1, <3>2, <3>3, <3>4, Unmoved, QuietSteps DEF S!setup, Tried
  <2>5. CASE S!NotNull(s)
    <3> DEFINE o == S!Slot(s)
               r == [at |-> "hint", object |-> o]
    <3>1. o \in SlotObjects /\ o \in AnyObject /\ o.place = "slot"
      BY <1>2, SlotFacts
    <3>2. r \in Slotted /\ r.at = "hint" /\ Hand(r) = {o}
      BY <3>1 DEF Slotted, Hand
    <3>3. r \in ThreadRecords /\ S!Goto(t, r)
      BY <1>5, <2>5, <3>2 DEF ThreadRecords
    <3> HIDE DEF r
    <3>4. SegmentTypes'
      BY <1>3, <2>2 DEF SurvivorInv, Local, SegmentTypes, S!setup
    <3>5. Local' /\ thread'[t] = r /\ Others(thread, thread', t) /\ Tried' = Tried
      BY <1>1, <1>3, <2>3, <3>2, <3>3, <3>4, LocalSteps
    <3>6. /\ HandsApart(survivors, thread) /\ HandIsOwn(thread)
          /\ LargeApart(HeldOf(survivors, thread), large_offset)
          /\ BitsHeld(HeldOf(survivors, thread), lost, bitmap, storage, Tried)
      BY DEF SurvivorInv, Holders
    <3>7. o \notin HeldOf(survivors, thread) /\ s \notin lost /\ Tried
      <4>1. storage \/ init_flag = 2
        BY <1>1, Unmoved DEF SetupOK
      <4>2. Tried
        BY <2>5, <4>1 DEF S!NotNull, Tried
      <4>3. QED BY <1>2, <2>1, <3>6, <4>2 DEF BitsHeld
    <3> DEFINE H == HeldOf(survivors, thread)
    <3>8. HeldOf(survivors, thread') = H \union {o} /\ HandsApart(survivors, thread')
      BY <1>1, <3>1, <3>2, <3>5, <3>6, <3>7, HandGets
    <3>9. HandIsOwn(thread')
      BY <3>1, <3>2, <3>5, <3>6, OwnKept
    <3> HIDE DEF H
    <3>10. BitsHeld(H \union {o}, lost, bitmap', storage, Tried)
      <4>1. BitsHeld(H, lost, bitmap, storage, Tried) /\ s \notin lost
        BY <3>6, <3>7 DEF H
      <4>2. \A u \in S!SlotNumbers : S!Slot(u) \in H \union {o} <=> S!Slot(u) \in H \/ u = s
        BY SlotFacts
      <4>3. \A u \in S!SlotNumbers :
              S!Word(u) \in S!Words /\ (u \in bitmap'[S!Word(u)] <=> u \in bitmap[S!Word(u)] \/ u = s)
        BY <1>2, <2>2 DEF S!Words
      <4>4. lost \subseteq S!SlotNumbers
        BY DEF SurvivorInv, Local, SegmentTypes
      <4>5. QED BY <3>7, <4>1, <4>2, <4>3, <4>4 DEF BitsHeld
    <3>11. LargeApart(H \union {o}, large_offset)
      BY <3>1, <3>6 DEF LargeApart, H
    <3>12. QED BY <1>3, <3>5, <3>8, <3>9, <3>10, <3>11 DEF SurvivorInv, Holders, H, S!setup
  <2>6. QED BY <2>4, <2>5
<1>6. QED BY <1>4, <1>5 DEF S!SetBit

LEMMA StoreHintStep ==
  ASSUME S!SurvivorAssumption, SurvivorInv, NEW t \in Threads, S!StoreHint(t)
  PROVE  SurvivorInv'
<1>1. UNCHANGED <<bitmap, large_offset, committed, S!setup, survivors, checkpoints, lost>>
  BY DEF S!StoreHint
<1>2. CASE /\ S!At(t, "hint") /\ free_hint' = (thread[t].object.start + 1) % Slots
           /\ S!Goto(t, [thread[t] EXCEPT !.at = "have"])
  <2> DEFINE o == thread[t].object
             r == [thread[t] EXCEPT !.at = "have"]
  <2>1. thread[t] \in Slotted /\ thread[t].at = "hint" /\ thread[t].at \notin Outside
    BY <1>2, Unmoved, Shapes DEF S!At, ThreadTypes, Outside
  <2>2. o \in SlotObjects /\ o.start \in S!SlotNumbers /\ o.place = "slot" /\ Hand(thread[t]) = {o}
    BY <2>1, SlotFacts DEF Slotted, Hand
  <2>3. r \in Haves /\ r.at = "have" /\ Hand(r) = {o}
    BY <2>1, <2>2 DEF Slotted, Haves, AnyObject, Hand
  <2>4. r \in ThreadRecords /\ S!Goto(t, r)
    BY <1>2, <2>3 DEF ThreadRecords
  <2>5. free_hint' \in S!SlotNumbers
    BY <1>2, <2>2, NextSlot
  <2> HIDE DEF o, r
  <2>6. QED BY <1>1, <2>1, <2>2, <2>3, <2>4, <2>5, Unmoved, UsingSteps
<1>3. CASE /\ S!At(t, "null") /\ free_hint' = (thread[t].slot + 1) % Slots
           /\ S!Goto(t, S!Spill(thread[t]))
  <2> DEFINE r == S!Spill(thread[t])
  <2>1. thread[t] \in Nulls /\ thread[t].at = "null" /\ thread[t].at \notin Outside /\ Hand(thread[t]) = {}
    BY <1>3, Unmoved, Shapes DEF S!At, ThreadTypes, Outside, Hand
  <2>2. r \in Plain /\ r.at = "large" /\ Hand(r) = {}
    BY <2>1 DEF S!Spill, Nulls, Plain, Hand
  <2>3. r \in ThreadRecords /\ S!Goto(t, r)
    BY <1>3, <2>2 DEF ThreadRecords
  <2>4. free_hint' \in S!SlotNumbers
    BY <1>3, <2>1, NextSlot DEF Nulls
  <2> HIDE DEF r
  <2>5. QED BY <1>1, <2>1, <2>2, <2>3, <2>4, Unmoved, UsingSteps
<1>4. QED BY <1>2, <1>3 DEF S!StoreHint

LEMMA FreeLoadsStep ==
  ASSUME S!SurvivorAssumption, SurvivorInv, NEW t \in Threads, S!FreeLoads(t)
  PROVE  SurvivorInv'
<1> DEFINE o == thread[t].object
           r == [at |-> "clear", object |-> o, old |-> bitmap[S!Word(o.start)]]
<1>1. thread[t] \in Slotted /\ thread[t].at = "free" /\ thread[t].at \notin Outside
  BY Unmoved, Shapes DEF S!FreeLoads, S!At, ThreadTypes, Outside
<1>2. o \in SlotObjects /\ o.start \in S!SlotNumbers /\ Hand(thread[t]) = {o}
  BY <1>1, SlotFacts DEF Slotted, Hand
<1>3. bitmap[S!Word(o.start)] \in SUBSET S!SlotNumbers
  BY <1>2, Unmoved DEF S!Words
<1>4. r \in Clears /\ r.at = "clear" /\ Hand(r) = {o}
  BY <1>2, <1>3 DEF Clears, Hand
<1>5. r \in ThreadRecords /\ S!Goto(t, r)
  BY <1>4 DEF ThreadRecords, S!FreeLoads
<1>6. UNCHANGED <<S!segment, S!setup, survivors, checkpoints, lost>>
  BY DEF S!FreeLoads
<1> HIDE DEF o, r
<1>7. QED BY <1>1, <1>2, <1>4, <1>5, <1>6, Unmoved, UsingSteps DEF S!segment

\* Thread t gives up the object in its hands.
LEMMA GivesUp ==
  ASSUME S!SurvivorAssumption, SurvivorInv, NEW t \in Threads, NEW o \in SlotObjects, S!Goto(t, S!Idle),
         Hand(thread[t]) = {o},
         UNCHANGED <<free_hint, large_offset, committed, S!setup, survivors, checkpoints>>,
         bitmap' \in [S!Words -> SUBSET S!SlotNumbers], BitsInPlace', lost' \subseteq S!SlotNumbers,
         \/ bitmap' = bitmap /\ lost' = lost \union {o.start}
         \/ /\ lost' = lost
            /\ \A u \in S!SlotNumbers : u \in bitmap'[S!Word(u)] <=> u \in bitmap[S!Word(u)] /\ u # o.start
         \/ bitmap' = bitmap /\ lost' = lost /\ ~storage
  PROVE  SurvivorInv'
<1> DEFINE H == HeldOf(survivors, thread)
<1>1. S!Idle \in ThreadRecords /\ Hand(S!Idle) = {} /\ S!Idle.at = "idle"
  BY DEF ThreadRecords, S!Idle, Hand
<1>2. o.start \in S!SlotNumbers /\ o = S!Slot(o.start) /\ o \in AnyObject
  BY SlotFacts DEF AnyObject
<1>3. SegmentTypes'
  BY DEF SurvivorInv, Local, SegmentTypes, S!setup
<1>4. Local' /\ thread'[t] = S!Idle /\ Others(thread, thread', t) /\ Tried' = Tried
  BY <1>1, <1>3, LocalSteps DEF Outside
<1>5. /\ HandsApart(survivors, thread) /\ HandIsOwn(thread) /\ LargeApart(H, large_offset)
      /\ BitsHeld(H, lost, bitmap, storage, Tried) /\ lost \subseteq S!SlotNumbers
  BY DEF SurvivorInv, Holders, Local, SegmentTypes
<1>6. HeldOf(survivors, thread') = H \ {o} /\ o \in H /\ HandsApart(survivors, thread')
  BY <1>1, <1>2, <1>4, <1>5, HandDrops
<1>7. HandIsOwn(thread')
  BY <1>1, <1>4, <1>5, OwnKept
<1> HIDE DEF H
<1>8. Tried /\ o.start \notin lost
  BY <1>2, <1>5, <1>6 DEF BitsHeld
<1>9. \A u \in S!SlotNumbers : S!Slot(u) \in H \ {o} <=> S!Slot(u) \in H /\ u # o.start
  BY <1>2, SlotFacts
<1>10. BitsHeld(H \ {o}, lost', bitmap', storage, Tried)
  <2>1. CASE bitmap' = bitmap /\ lost' = lost \union {o.start}
    BY <1>2, <1>5, <1>6, <1>8, <1>9, <2>1 DEF BitsHeld
  <2>2. CASE /\ lost' = lost
             /\ \A u \in S!SlotNumbers : u \in bitmap'[S!Word(u)] <=> u \in bitmap[S!Word(u)] /\ u # o.start
    BY <1>2, <1>5, <1>6, <1>8, <1>9, <2>2 DEF BitsHeld
  <2>3. CASE bitmap' = bitmap /\ lost' = lost /\ ~storage
    BY <1>2, <1>5, <1>6, <1>8, <1>9, <2>3 DEF BitsHeld
  <2>4. QED BY <2>1, <2>2, <2>3
<1>11. LargeApart(H \ {o}, large_offset)
  BY <1>5 DEF LargeApart
<1>12. QED BY <1>4, <1>6, <1>7, <1>10, <1>11 DEF SurvivorInv, Holders, H, S!setup

LEMMA ClearBitStep ==
  ASSUME S!SurvivorAssumption, SurvivorInv, NEW t \in Threads, S!ClearBit(t)
  PROVE  SurvivorInv'
<1> DEFINE o == thread[t].object
           w == S!Word(o.start)
<1>1. thread[t] \in Clears /\ thread[t].at = "clear" /\ thread[t].at \notin Outside
  BY Unmoved, Shapes DEF S!ClearBit, S!At, ThreadTypes, Outside
<1>2. o \in SlotObjects /\ o.start \in S!SlotNumbers /\ w \in S!Words /\ Hand(thread[t]) = {o}
  BY <1>1, SlotFacts DEF Clears, Hand, S!Words
<1>3. UNCHANGED <<free_hint, large_offset, committed, S!setup, survivors, checkpoints, lost>>
  BY DEF S!ClearBit
<1>4. CASE S!Goto(t, [thread[t] EXCEPT !.old = bitmap[w]]) /\ UNCHANGED bitmap
  <2> DEFINE r == [thread[t] EXCEPT !.old = bitmap[w]]
  <2>1. bitmap[w] \in SUBSET S!SlotNumbers
    BY <1>2, Unmoved
  <2>2. r \in Clears /\ r.at = "clear" /\ Hand(r) = {o}
    BY <1>1, <2>1 DEF Clears, Hand
  <2>3. r \in ThreadRecords /\ S!Goto(t, r)
    BY <1>4, <2>2 DEF ThreadRecords
  <2> HIDE DEF r, o
  <2>4. QED BY <1>1, <1>2, <1>3, <1>4, <2>2, <2>3, Unmoved, UsingSteps
<1>5. CASE /\ bitmap[w] = thread[t].old
           /\ bitmap' = [bitmap EXCEPT ![w] = thread[t].old \ {o.start}]
           /\ S!Goto(t, S!Idle)
  <2>1. bitmap' \in [S!Words -> SUBSET S!SlotNumbers] /\ bitmap'[w] = bitmap[w] \ {o.start}
        /\ \A v \in S!Words : v # w => bitmap'[v] = bitmap[v]
    BY <1>2, <1>5, Unmoved
  <2>2. BitsInPlace'
    BY <1>2, <2>1, Unmoved DEF BitsInPlace
  <2>3. \A u \in S!SlotNumbers : u \in bitmap'[S!Word(u)] <=> u \in bitmap[S!Word(u)] /\ u # o.start
    BY <1>2, <2>1 DEF S!Words
  <2>4. lost' \subseteq S!SlotNumbers /\ lost' = lost
    BY <1>3 DEF SurvivorInv, Local, SegmentTypes
  <2> HIDE DEF o
  <2>5. QED BY <1>2, <1>3, <1>5, <2>1, <2>2, <2>3, <2>4, GivesUp
<1>6. QED BY <1>4, <1>5 DEF S!ClearBit

LEMMA ForgetsLarge ==
  ASSUME S!SurvivorAssumption, SurvivorInv, NEW t \in Threads, NEW o \in LargeObjects, S!Goto(t, S!Idle),
         Hand(thread[t]) = {o}, UNCHANGED <<S!segment, S!setup, survivors, checkpoints, lost>>
  PROVE  SurvivorInv'
<1> DEFINE H == HeldOf(survivors, thread)
<1>1. S!Idle \in ThreadRecords /\ Hand(S!Idle) = {} /\ S!Idle.at = "idle"
  BY DEF ThreadRecords, S!Idle, Hand
<1>2. o \in AnyObject /\ o.place = "large"
  BY DEF AnyObject, LargeObjects
<1>3. SegmentTypes' /\ BitsInPlace'
  BY DEF SurvivorInv, Local, SegmentTypes, S!setup, S!segment, BitsInPlace
<1>4. Local' /\ thread'[t] = S!Idle /\ Others(thread, thread', t) /\ Tried' = Tried
  BY <1>1, <1>3, LocalSteps DEF Outside, S!segment
<1>5. /\ HandsApart(survivors, thread) /\ HandIsOwn(thread) /\ LargeApart(H, large_offset)
      /\ BitsHeld(H, lost, bitmap, storage, Tried) /\ lost \subseteq S!SlotNumbers
  BY DEF SurvivorInv, Holders, Local, SegmentTypes
<1>6. HeldOf(survivors, thread') = H \ {o} /\ HandsApart(survivors, thread')
  BY <1>1, <1>2, <1>4, <1>5, HandDrops
<1>7. HandIsOwn(thread')
  BY <1>1, <1>4, <1>5, OwnKept
<1> HIDE DEF H
<1>8. BitsHeld(H \ {o}, lost, bitmap, storage, Tried)
  <2>1. \A s \in S!SlotNumbers : S!Slot(s) # o
    BY <1>2, SlotFacts
  <2>2. QED BY <1>5, <2>1 DEF BitsHeld
<1>9. LargeApart(H \ {o}, large_offset)
  BY <1>5 DEF LargeApart
<1>10. QED BY <1>4, <1>6, <1>7, <1>8, <1>9 DEF SurvivorInv, Holders, H, S!setup, S!segment

LEMMA HasObject ==
  ASSUME ThreadTypes, NEW t \in Threads, S!At(t, "have")
  PROVE  /\ thread[t] \in Haves /\ thread[t].at \notin Outside /\ Hand(thread[t]) = {thread[t].object}
         /\ thread[t].object \in AnyObject
BY Shapes DEF ThreadTypes, S!At, Outside, Hand, Haves

LEMMA KindsOfObject ==
  ASSUME NEW o \in AnyObject
  PROVE  \/ o \in SlotObjects /\ o.place = "slot" /\ S!SlotsOf({o}) = {o.start}
         \/ o \in LargeObjects /\ o.place = "large" /\ S!SlotsOf({o}) = {}
BY DEF AnyObject, SlotObjects, LargeObjects, S!SlotsOf

LEMMA CallbackStep ==
  ASSUME S!SurvivorAssumption, SurvivorInv, NEW t \in Threads, S!CallbackFails(t)
  PROVE  SurvivorInv'
<1> DEFINE o == thread[t].object
<1>1. thread[t].at = "have" /\ thread[t].at \notin Outside /\ Hand(thread[t]) = {o} /\ o \in AnyObject
  BY HasObject, Unmoved DEF S!CallbackFails, S!At
<1>2. UNCHANGED <<S!segment, S!setup, survivors, checkpoints>>
  BY DEF S!CallbackFails
<1>3. \/ S!Goto(t, S!Freeing(o)) /\ UNCHANGED lost
      \/ S!Goto(t, S!Idle) /\ lost' = lost \union S!SlotsOf({o})
  BY DEF S!CallbackFails
<1> HIDE DEF o
<1>4. CASE o \in SlotObjects /\ o.place = "slot" /\ S!SlotsOf({o}) = {o.start}
  <2>1. CASE S!Goto(t, S!Freeing(o)) /\ UNCHANGED lost /\ storage
    <3> DEFINE r == [at |-> "free", object |-> o]
    <3>1. r \in Slotted /\ r.at = "free" /\ Hand(r) = {o}
      BY <1>4 DEF Slotted, Hand
    <3>2. r \in ThreadRecords /\ S!Goto(t, r)
      BY <1>4, <2>1, <3>1 DEF S!Freeing, ThreadRecords
    <3> HIDE DEF r
    <3>3. QED BY <1>1, <1>2, <2>1, <3>1, <3>2, Unmoved, UsingSteps DEF S!segment
  <2>2. CASE S!Goto(t, S!Idle) /\ lost' = lost \union S!SlotsOf({o})
    <3>1. lost' \subseteq S!SlotNumbers /\ lost' = lost \union {o.start}
      BY <1>4, <2>2, SlotFacts DEF SurvivorInv, Local, SegmentTypes
    <3>2. bitmap' \in [S!Words -> SUBSET S!SlotNumbers] /\ BitsInPlace' /\ bitmap' = bitmap
      BY <1>2, Unmoved DEF BitsInPlace, S!segment
    <3>3. QED BY <1>1, <1>2, <1>4, <2>2, <3>1, <3>2, GivesUp DEF S!segment
  <2>3. CASE S!Goto(t, S!Freeing(o)) /\ UNCHANGED lost /\ ~storage
    <3>1. S!Goto(t, S!Idle)
      BY <2>3 DEF S!Freeing
    <3>2. bitmap' \in [S!Words -> SUBSET S!SlotNumbers] /\ BitsInPlace' /\ bitmap' = bitmap
      BY <1>2, Unmoved DEF BitsInPlace, S!segment
    <3>3. lost' \subseteq S!SlotNumbers /\ lost' = lost
      BY <2>3 DEF SurvivorInv, Local, SegmentTypes
    <3>4. QED BY <1>1, <1>2, <1>4, <2>3, <3>1, <3>2, <3>3, GivesUp DEF S!segment
  <2>4. QED BY <1>3, <2>1, <2>2, <2>3
<1>5. CASE o \in LargeObjects /\ o.place = "large" /\ S!SlotsOf({o}) = {}
  <2>1. S!Goto(t, S!Idle) /\ lost' = lost
    BY <1>3, <1>5 DEF S!Freeing
  <2>2. QED BY <1>1, <1>2, <1>5, <2>1, ForgetsLarge
<1>6. QED BY <1>1, <1>4, <1>5, KindsOfObject

-----------------------------------------------------------------------------
(* The program is given an object, and frees it.                           *)
LEMMA ReturnStep ==
  ASSUME S!SurvivorAssumption, SurvivorInv, NEW t \in Threads, S!Return(t)
  PROVE  SurvivorInv'
<1> DEFINE o == thread[t].object
<1>1. thread[t].at = "have" /\ thread[t].at \notin Outside /\ Hand(thread[t]) = {o} /\ o \in AnyObject
  BY HasObject, Unmoved DEF S!Return, S!At
<1>2. /\ survivors' = survivors \union {o} /\ S!Goto(t, S!Idle)
      /\ UNCHANGED <<S!segment, S!setup, checkpoints, lost>>
  BY DEF S!Return
<1> HIDE DEF o
<1>3. S!Idle \in ThreadRecords /\ Hand(S!Idle) = {} /\ S!Idle.at = "idle"
  BY DEF ThreadRecords, S!Idle, Hand
<1>4. thread'[t] = S!Idle /\ Others(thread, thread', t) /\ ThreadTypes'
  BY <1>2, <1>3, Unmoved, Moved
<1>5. SegmentTypes' /\ BitsInPlace'
  BY <1>1, <1>2 DEF SurvivorInv, Local, SegmentTypes, S!setup, S!segment, BitsInPlace
<1>6. SetupOK' /\ BitIsNew'
  <2>1. SetupOK'
    BY <1>1, <1>2, <1>3, <1>4, Unmoved, SetupKept DEF Outside, SetsUp
  <2>2. QED BY <1>3, <1>4, <2>1, BitNewKept DEF SurvivorInv, Local
<1>7. LargeCommitted'
  <2>1. LargeCommitted
    BY DEF SurvivorInv, Local
  <2>2. \A u \in Threads : u # t => Hand(thread'[u]) = Hand(thread[u]) /\ thread'[u].at = thread[u].at
    BY <1>4 DEF Others
  <2>3. storage' = storage
    BY <1>2 DEF S!setup
  <2>4. QED BY <1>1, <1>2, <1>3, <1>4, <2>1, <2>2, <2>3 DEF LargeCommitted, S!segment
<1>8. /\ HandsApart(survivors, thread) /\ HandIsOwn(thread)
      /\ LargeApart(HeldOf(survivors, thread), large_offset)
      /\ BitsHeld(HeldOf(survivors, thread), lost, bitmap, storage, Tried)
  BY DEF SurvivorInv, Holders
<1>9. HeldOf(survivors', thread') = HeldOf(survivors, thread) /\ HandsApart(survivors', thread')
  BY <1>1, <1>2, <1>3, <1>4, <1>8, HandsOut
<1>10. HandIsOwn(thread')
  BY <1>3, <1>4, <1>8, OwnKept
<1>11. QED
  BY <1>2, <1>4, <1>5, <1>6, <1>7, <1>8, <1>9, <1>10 DEF SurvivorInv, Local, Holders, S!setup, S!segment, Tried

LEMMA FreeStep ==
  ASSUME S!SurvivorAssumption, SurvivorInv, NEW t \in Threads, S!Free(t)
  PROVE  SurvivorInv'
<1>1. PICK o \in survivors : o.place = "slot" /\ survivors' = survivors \ {o} /\ S!Goto(t, S!Freeing(o))
  BY DEF S!Free
<1>2. thread[t].at = "idle" /\ Hand(thread[t]) = {} /\ UNCHANGED <<S!segment, S!setup, checkpoints, lost>>
  BY DEF S!Free, S!At, Hand
<1>3. survivors \subseteq AnyObject /\ SegmentTypes
  BY DEF SurvivorInv, Local, SegmentTypes
<1>4. o \in AnyObject /\ o \in SlotObjects
  BY <1>1, <1>3, KindsOfObject
<1>5. /\ HandsApart(survivors, thread) /\ HandIsOwn(thread)
      /\ LargeApart(HeldOf(survivors, thread), large_offset)
      /\ BitsHeld(HeldOf(survivors, thread), lost, bitmap, storage, Tried)
  BY DEF SurvivorInv, Holders
<1>6. SegmentTypes' /\ BitsInPlace'
  BY <1>1, <1>2, <1>3, Unmoved DEF SegmentTypes, S!setup, S!segment, BitsInPlace
<1>7. CASE storage
  <2> DEFINE r == [at |-> "free", object |-> o]
  <2>1. r \in Slotted /\ r.at = "free" /\ Hand(r) = {o}
    BY <1>4 DEF Slotted, Hand
  <2>2. r \in ThreadRecords /\ S!Goto(t, r)
    BY <1>1, <1>7, <2>1 DEF S!Freeing, ThreadRecords
  <2> HIDE DEF r
  <2>3. Local' /\ thread'[t] = r /\ Others(thread, thread', t) /\ Tried' = Tried
    BY <1>1, <1>2, <1>6, <1>7, <2>1, <2>2, LocalSteps DEF S!segment
  <2>4. HeldOf(survivors', thread') = HeldOf(survivors, thread) /\ HandsApart(survivors', thread')
    BY <1>1, <1>2, <1>3, <1>5, <2>1, <2>3, HandTakes
  <2>5. HandIsOwn(thread')
    BY <1>1, <1>5, <2>1, <2>3, OwnKept
  <2>6. QED BY <1>2, <1>5, <2>3, <2>4, <2>5 DEF SurvivorInv, Holders, S!setup, S!segment
<1>8. CASE ~storage
  <2> DEFINE H == HeldOf(survivors, thread)
  <2>1. S!Idle \in ThreadRecords /\ Hand(S!Idle) = {} /\ S!Idle.at = "idle" /\ S!Goto(t, S!Idle)
    BY <1>1, <1>8 DEF ThreadRecords, S!Idle, Hand, S!Freeing
  <2>2. Local' /\ thread'[t] = S!Idle /\ Others(thread, thread', t) /\ Tried' = Tried
    BY <1>1, <1>2, <1>6, <2>1, LocalSteps DEF S!segment, Outside
  <2>3. HeldOf(survivors', thread') = H \ {o} /\ HandsApart(survivors', thread')
    <3>1. Others(thread, thread', t) /\ Hand(thread'[t]) = {}
      BY <2>1, <2>2
    <3>2. HeldOf(survivors \ {o}, thread') = H \ {o} /\ HandsApart(survivors \ {o}, thread')
      BY <1>1, <1>2, <1>3, <1>5, <3>1, Discarded
    <3>3. QED BY <1>1, <3>2
  <2>4. HandIsOwn(thread')
    BY <1>5, <2>1, <2>2, OwnKept
  <2> HIDE DEF H
  <2>5. BitsHeld(H \ {o}, lost, bitmap, storage, Tried) /\ LargeApart(H \ {o}, large_offset)
    BY <1>5, <1>8 DEF BitsHeld, LargeApart, H
  <2>6. QED BY <1>2, <2>2, <2>3, <2>4, <2>5 DEF SurvivorInv, Holders, S!setup, S!segment
<1>9. QED BY <1>7, <1>8

-----------------------------------------------------------------------------
(* The area of large objects.                                              *)
LEMMA LoadOffsetStep ==
  ASSUME S!SurvivorAssumption, SurvivorInv, NEW t \in Threads, S!LoadOffset(t)
  PROVE  SurvivorInv'
<1> DEFINE r == [at |-> "bump", size |-> thread[t].size, offset |-> large_offset]
<1>1. thread[t] \in Plain /\ thread[t].at = "large" /\ thread[t].at \notin Outside /\ Hand(thread[t]) = {}
  BY Unmoved, Shapes DEF S!LoadOffset, S!At, ThreadTypes, Outside, Hand
<1>2. large_offset \in Nat
  BY Unmoved DEF S!SurvivorAssumption
<1>3. r \in Bumps /\ r.at = "bump" /\ Hand(r) = {}
  BY <1>1, <1>2 DEF Plain, Bumps, Hand
<1>4. r \in ThreadRecords /\ S!Goto(t, r)
  BY <1>3 DEF ThreadRecords, S!LoadOffset
<1>5. UNCHANGED <<S!segment, S!setup, survivors, checkpoints, lost>>
  BY DEF S!LoadOffset
<1> HIDE DEF r
<1>6. QED BY <1>1, <1>3, <1>4, <1>5, Unmoved, UsingSteps DEF S!segment

LEMMA BumpStep ==
  ASSUME S!SurvivorAssumption, SurvivorInv, NEW t \in Threads, S!Bump(t)
  PROVE  SurvivorInv'
<1> DEFINE offset == thread[t].offset
           size == thread[t].size
           end == offset + size
<1>1. thread[t] \in Bumps /\ thread[t].at = "bump" /\ thread[t].at \notin Outside /\ Hand(thread[t]) = {}
  BY Unmoved, Shapes DEF S!Bump, S!At, ThreadTypes, Outside, Hand
<1>2. /\ offset \in Nat /\ size \in ObjectSizes /\ size \in Nat \ {0}
      /\ large_offset \in Nat /\ LargeCapacity \in Nat /\ large_offset <= LargeCapacity
  BY <1>1, Unmoved DEF Bumps, ObjectSizes, S!SurvivorAssumption
<1>3. UNCHANGED <<bitmap, free_hint, committed, S!setup, survivors, checkpoints, lost>>
  BY DEF S!Bump
<1>4. CASE S!Goto(t, S!Idle) /\ UNCHANGED large_offset
  <2>1. S!Idle \in ThreadRecords /\ Hand(S!Idle) = {} /\ S!Idle.at = "idle"
    BY DEF ThreadRecords, S!Idle, Hand
  <2>2. QED BY <1>1, <1>3, <1>4, <2>1, Unmoved, UsingSteps
<1>5. CASE S!Goto(t, [thread[t] EXCEPT !.offset = large_offset]) /\ UNCHANGED large_offset
  <2> DEFINE r == [thread[t] EXCEPT !.offset = large_offset]
  <2>1. r \in Bumps /\ r.at = "bump" /\ Hand(r) = {}
    BY <1>1, <1>2 DEF Bumps, Hand
  <2>2. r \in ThreadRecords /\ S!Goto(t, r)
    BY <1>5, <2>1 DEF ThreadRecords
  <2> HIDE DEF r
  <2>3. QED BY <1>1, <1>3, <1>5, <2>1, <2>2, Unmoved, UsingSteps
<1>6. CASE /\ end <= S!Capacity /\ large_offset = offset
           /\ large_offset' = end
           /\ S!Goto(t, [at |-> "commit", object |-> S!Large(offset, size, t)])
  <2> DEFINE o == S!Large(offset, size, t)
             r == [at |-> "commit", object |-> o]
             H == HeldOf(survivors, thread)
  <2>1. Tried /\ end <= LargeCapacity
    <3>1. storage \/ init_flag = 2
      BY <1>1, Unmoved DEF SetupOK
    <3>2. sized /\ end <= LargeCapacity
      BY <1>2, <1>6 DEF S!Capacity
    <3>3. QED BY <3>1, <3>2 DEF Tried
  <2>2. /\ o \in LargeObjects /\ o \in AnyObject /\ o.place = "large"
        /\ o.start = offset /\ o.size = size /\ o.owner = t
    BY <1>2 DEF S!Large, LargeObjects, AnyObject
  <2>3. r \in Commits /\ r.at = "commit" /\ Hand(r) = {o}
    BY <2>2 DEF Commits, Hand
  <2>4. r \in ThreadRecords /\ S!Goto(t, r)
    BY <1>6, <2>3 DEF ThreadRecords
  <2> HIDE DEF r, o
  <2>5. SegmentTypes' /\ BitsInPlace'
    <3>1. large_offset' \in 0 .. LargeCapacity
      BY <1>2, <1>6, <2>1
    <3>2. QED BY <1>3, <3>1, Unmoved DEF SurvivorInv, Local, SegmentTypes, S!setup, BitsInPlace
  <2>6. Local' /\ thread'[t] = r /\ Others(thread, thread', t) /\ Tried' = Tried
    BY <1>1, <1>3, <2>3, <2>4, <2>5, LocalSteps
  <2>7. /\ HandsApart(survivors, thread) /\ HandIsOwn(thread) /\ LargeApart(H, large_offset)
        /\ BitsHeld(H, lost, bitmap, storage, Tried) /\ lost \subseteq S!SlotNumbers
    BY DEF SurvivorInv, Holders, Local, SegmentTypes
  <2>8. \A p \in H : p.place = "large" =>
          p.start \in Nat /\ p.size \in Nat \ {0} /\ p.start + p.size <= offset
    BY <1>6, <2>7, LargeTypes DEF LargeApart, HeldOf
  <2>9. o \notin H
    BY <1>2, <2>2, <2>8
  <2>10. HeldOf(survivors, thread') = H \union {o} /\ HandsApart(survivors, thread')
    BY <1>1, <2>2, <2>3, <2>6, <2>7, <2>9, HandGets
  <2>11. HandIsOwn(thread')
    BY <2>2, <2>3, <2>6, <2>7, OwnKept
  <2> HIDE DEF H
  <2>12. BitsHeld(H \union {o}, lost, bitmap, storage, Tried)
    <3>1. \A s \in S!SlotNumbers : S!Slot(s) # o
      BY <2>2, SlotFacts
    <3>2. QED BY <2>1, <2>7, <3>1 DEF BitsHeld
  <2>13. LargeApart(H \union {o}, large_offset')
    <3>1. \A p \in H \union {o} : p.place = "large" => p.start + p.size <= large_offset'
      BY <1>2, <1>6, <2>2, <2>8
    <3>2. ASSUME NEW p \in H \union {o}, NEW q \in H \union {o}, p.place = "large", q.place = "large", p # q
          PROVE  p.start + p.size <= q.start \/ q.start + q.size <= p.start
      BY <2>2, <2>7, <2>8, <3>2 DEF LargeApart
    <3>3. QED BY <3>1, <3>2 DEF LargeApart
  <2>14. QED BY <1>3, <2>6, <2>10, <2>11, <2>12, <2>13 DEF SurvivorInv, Holders, H, S!setup
<1>7. QED BY <1>4, <1>5, <1>6 DEF S!Bump

\* survivor_commit_up_to rounds up.
LEMMA RoundsUp ==
  ASSUME S!SurvivorAssumption, NEW n \in Nat, n <= LargeCapacity
  PROVE  S!CommitEnd(n) \in 0 .. LargeCapacity /\ S!CommitEnd(n) >= n
<1> DEFINE q == (n + Batch - 1) \div Batch
           m == (n + Batch - 1) % Batch
<1>1. Batch \in Nat /\ Batch > 0 /\ LargeCapacity \in Nat
  BY DEF S!SurvivorAssumption
<1>2. q \in Nat /\ m \in Nat /\ m < Batch /\ n + Batch - 1 = q * Batch + m
  BY <1>1
<1> HIDE DEF q, m
<1>3. q * Batch \in Nat
  BY <1>1, <1>2
<1>4. q * Batch >= n
  BY <1>1, <1>2, <1>3
<1>5. S!CommitEnd(n) = IF q * Batch > LargeCapacity THEN LargeCapacity ELSE q * Batch
  BY DEF S!CommitEnd, q
<1>6. QED BY <1>1, <1>3, <1>4, <1>5

LEMMA CommitStep ==
  ASSUME S!SurvivorAssumption, SurvivorInv, NEW t \in Threads, S!Commit(t)
  PROVE  SurvivorInv'
<1> DEFINE o == thread[t].object
           r == [thread[t] EXCEPT !.at = "have"]
           end == o.start + o.size
<1>1. thread[t] \in Commits /\ thread[t].at = "commit" /\ thread[t].at \notin Outside
  BY Unmoved, Shapes DEF S!Commit, S!At, ThreadTypes, Outside
<1>2. o \in LargeObjects /\ o \in AnyObject /\ o.place = "large" /\ Hand(thread[t]) = {o}
  BY <1>1 DEF Commits, LargeObjects, AnyObject, Hand
<1>3. r \in Haves /\ r.at = "have" /\ Hand(r) = {o}
  BY <1>1, <1>2 DEF Commits, Haves, Hand
<1>4. r \in ThreadRecords /\ S!Goto(t, r)
  BY <1>3 DEF ThreadRecords, S!Commit
<1>5. UNCHANGED <<bitmap, free_hint, large_offset, S!setup, survivors, checkpoints, lost>>
      /\ committed' = IF ~storage \/ end <= committed THEN committed ELSE S!CommitEnd(end)
  BY DEF S!Commit
<1> HIDE DEF r, o
<1>6. end \in Nat /\ end <= LargeCapacity
  <2>1. o \in HeldOf(survivors, thread)
    BY <1>2 DEF HeldOf
  <2>2. end <= large_offset
    BY <1>2, <2>1 DEF SurvivorInv, Holders, LargeApart
  <2>3. o.start \in Nat /\ o.size \in Nat
    BY <1>2, LargeTypes
  <2>4. QED BY <2>2, <2>3, Unmoved DEF S!SurvivorAssumption
<1> HIDE DEF end
<1>7. committed' \in 0 .. LargeCapacity /\ committed' >= committed /\ (storage => end <= committed')
  BY <1>5, <1>6, RoundsUp, Unmoved DEF S!SurvivorAssumption
<1>8. storage => \A p \in Hand(r) : p.place = "large" => p.start + p.size <= committed'
  BY <1>3, <1>7 DEF end
<1>9. QED BY <1>1, <1>2, <1>3, <1>4, <1>5, <1>7, <1>8, Unmoved, UsingSteps

-----------------------------------------------------------------------------
(* The segment is set up, rewound and given back.                          *)
LEMMA NothingHeld ==
  ASSUME SurvivorInv, ~storage, init_flag # 2
  PROVE  /\ survivors = {} /\ lost = {}
         /\ \A u \in Threads : Hand(thread[u]) = {}
<1>1. HeldOf(survivors, thread) = {} /\ lost = {}
  BY DEF SurvivorInv, Holders, BitsHeld, Tried
<1>2. survivors \subseteq AnyObject /\ ThreadTypes
  BY DEF SurvivorInv, Local, SegmentTypes
<1>3. \A u \in Threads : Hand(thread[u]) \subseteq AnyObject
  BY <1>2, Shapes DEF ThreadTypes
<1>4. QED BY <1>1, <1>2, <1>3 DEF HeldOf

\* With no objects and empty hands, nothing is left to say but of the bits.
LEMMA EmptyHanded ==
  ASSUME S!SurvivorAssumption, SegmentTypes', ThreadTypes', SetupOK', BitsInPlace', BitIsNew',
         survivors' = {}, lost' = {}, \A u \in Threads : Hand(thread'[u]) = {},
         storage' => \A s \in S!SlotNumbers : s \notin bitmap'[S!Word(s)]
  PROVE  SurvivorInv'
<1>1. HeldOf(survivors', thread') = {}
  BY DEF HeldOf
<1>2. LargeCommitted'
  BY DEF LargeCommitted
<1>3. QED
  BY <1>1, <1>2 DEF SurvivorInv, Local, Holders, HandsApart, HandIsOwn, BitsHeld, LargeApart

LEMMA InitSurvivor ==
  ASSUME S!SurvivorAssumption, S!Init
  PROVE  SurvivorInv
<1>1. SegmentTypes
  <2>1. 0 \in S!SlotNumbers /\ 0 \in 0 .. LargeCapacity /\ 0 \in 0 .. 2
    BY DEF S!SurvivorAssumption, S!SlotNumbers
  <2>2. /\ bitmap \in [S!Words -> SUBSET S!SlotNumbers]
        /\ checkpoints \in [Threads -> SUBSET (0 .. LargeCapacity)]
    BY DEF S!Init
  <2>3. QED BY <2>1, <2>2 DEF S!Init, SegmentTypes
<1>2. ThreadTypes /\ \A u \in Threads : thread[u].at = "idle" /\ Hand(thread[u]) = {}
  BY DEF S!Init, ThreadTypes, ThreadRecords, S!Idle, Hand
<1>3. SetupOK /\ BitIsNew
  BY <1>2 DEF S!Init, SetupOK, SetsUp, Outside, BitIsNew
<1>4. BitsInPlace /\ survivors = {} /\ lost = {} /\ ~storage
  BY DEF S!Init, BitsInPlace
<1>5. HeldOf(survivors, thread) = {}
  BY <1>2, <1>4 DEF HeldOf
<1>6. LargeCommitted
  BY <1>2, <1>4 DEF LargeCommitted
<1>7. QED BY <1>1, <1>2, <1>3, <1>4, <1>5, <1>6
          DEF SurvivorInv, Local, Holders, HandsApart, HandIsOwn, BitsHeld, LargeApart

LEMMA SetUpStep ==
  ASSUME S!SurvivorAssumption, SurvivorInv, NEW t \in Threads, S!SetUp(t)
  PROVE  SurvivorInv'
<1> DEFINE r == [thread[t] EXCEPT !.at = "release"]
<1>1. thread[t] \in Plain /\ thread[t].at = "setup"
  BY Unmoved, Shapes DEF S!SetUp, S!At, ThreadTypes
<1>2. r \in Plain /\ r.at = "release" /\ Hand(r) = {}
  BY <1>1 DEF Plain, Hand
<1>3. r \in ThreadRecords /\ S!Goto(t, r)
  BY <1>2 DEF ThreadRecords, S!SetUp
<1>4. UNCHANGED <<init_flag, survivors, checkpoints, lost>>
  BY DEF S!SetUp
<1> HIDE DEF r
<1>5. thread'[t] = r /\ Others(thread, thread', t) /\ ThreadTypes'
  BY <1>3, Unmoved, Moved
<1>6. ~storage /\ init_flag = 1 /\ SegmentTypes /\ BitIsNew
  BY <1>1 DEF SurvivorInv, Local, SetupOK, SetsUp
<1>7. survivors = {} /\ lost = {} /\ \A u \in Threads : Hand(thread[u]) = {}
  BY <1>6, NothingHeld
<1>8. \A u \in Threads : Hand(thread'[u]) = {}
  BY <1>2, <1>5, <1>7 DEF Others
<1>9. BitIsNew'
  BY <1>2, <1>5, <1>6, BitNewKept
<1>10. CASE /\ bitmap' = [w \in S!Words |-> {}] /\ free_hint' = 0
            /\ large_offset' = 0 /\ committed' = 0
            /\ storage' = TRUE /\ sized' = TRUE /\ initialized' = TRUE
  <2>1. SegmentTypes' /\ BitsInPlace'
    BY <1>4, <1>6, <1>10 DEF SegmentTypes, BitsInPlace, S!SurvivorAssumption, S!SlotNumbers
  <2>2. SetupOK'
    BY <1>1, <1>2, <1>4, <1>5, <1>10, Unmoved DEF SetupOK, SetsUp, Others
  <2>3. \A s \in S!SlotNumbers : s \notin bitmap'[S!Word(s)]
    BY <1>10 DEF S!Words
  <2>4. QED BY <1>4, <1>5, <1>7, <1>8, <1>9, <2>1, <2>2, <2>3, EmptyHanded
<1>11. CASE UNCHANGED <<S!segment, storage, sized, initialized>>
  <2>1. SegmentTypes' /\ BitsInPlace'
    BY <1>4, <1>6, <1>11, Unmoved DEF SegmentTypes, BitsInPlace, S!segment
  <2>2. SetupOK'
    BY <1>1, <1>2, <1>4, <1>5, <1>11, Unmoved DEF SetupOK, SetsUp, Others, Outside
  <2>3. ~storage'
    BY <1>6, <1>11
  <2>4. QED BY <1>4, <1>5, <1>7, <1>8, <1>9, <2>1, <2>2, <2>3, EmptyHanded
<1>12. QED BY <1>10, <1>11 DEF S!SetUp

LEMMA DestroyStep ==
  ASSUME S!SurvivorAssumption, SurvivorInv, S!Destroy
  PROVE  SurvivorInv'
<1>1. SegmentTypes /\ ThreadTypes /\ SetupOK /\ BitsInPlace /\ BitIsNew
  BY DEF SurvivorInv, Local
<1>2. ThreadTypes' /\ \A u \in Threads : thread'[u].at = "idle" /\ Hand(thread'[u]) = {}
  BY <1>1 DEF S!Destroy, S!At, ThreadTypes, Hand
<1>3. /\ survivors' = {} /\ lost' = {} /\ bitmap' = bitmap
      /\ storage' = FALSE /\ sized' = sized /\ initialized' = FALSE /\ init_flag' = 0
  BY <1>1 DEF S!Destroy, SetupOK, SegmentTypes
<1>4. SegmentTypes'
  <2>1. 0 \in 0 .. LargeCapacity /\ 0 \in 0 .. 2
    BY DEF S!SurvivorAssumption
  <2>2. checkpoints' \in [Threads -> SUBSET (0 .. LargeCapacity)] /\ free_hint' = free_hint
    BY DEF S!Destroy
  <2>3. large_offset' \in 0 .. LargeCapacity /\ committed' \in 0 .. LargeCapacity
    BY <1>1, <2>1 DEF S!Destroy, SegmentTypes
  <2>4. QED BY <1>1, <1>3, <2>1, <2>2, <2>3 DEF SegmentTypes
<1>5. SetupOK' /\ BitIsNew' /\ BitsInPlace'
  BY <1>1, <1>2, <1>3 DEF SetupOK, SetsUp, Outside, BitIsNew, BitsInPlace
<1>6. QED BY <1>2, <1>3, <1>4, <1>5, EmptyHanded

LEMMA ResetStep ==
  ASSUME S!SurvivorAssumption, SurvivorInv, S!Reset
  PROVE  SurvivorInv'
<1>1. SegmentTypes /\ ThreadTypes /\ SetupOK /\ BitIsNew
  BY DEF SurvivorInv, Local
<1>2. /\ bitmap' = [w \in S!Words |-> {}] /\ free_hint' = 0 /\ large_offset' = 0
      /\ survivors' = {} /\ lost' = {} /\ UNCHANGED <<committed, S!setup, thread, checkpoints>>
  BY DEF S!Reset
<1>3. \A u \in Threads : thread[u].at = "idle" /\ Hand(thread'[u]) = {}
  BY <1>2 DEF S!Reset, S!At, Hand
<1>4. SegmentTypes'
  <2>1. 0 \in S!SlotNumbers /\ 0 \in 0 .. LargeCapacity
    BY DEF S!SurvivorAssumption, S!SlotNumbers
  <2>2. bitmap' \in [S!Words -> SUBSET S!SlotNumbers]
    BY <1>2
  <2>3. QED BY <1>1, <1>2, <2>1, <2>2 DEF SegmentTypes, S!setup
<1>5. ThreadTypes' /\ SetupOK' /\ BitIsNew' /\ BitsInPlace'
  BY <1>1, <1>2 DEF ThreadTypes, SetupOK, BitIsNew, BitsInPlace, S!setup
<1>6. \A s \in S!SlotNumbers : s \notin bitmap'[S!Word(s)]
  BY <1>2 DEF S!Words
<1>7. QED BY <1>2, <1>3, <1>4, <1>5, <1>6, EmptyHanded

LEMMA CheckpointStep ==
  ASSUME S!SurvivorAssumption, SurvivorInv, NEW t \in Threads, S!Checkpoint(t)
  PROVE  SurvivorInv'
<1>1. checkpoints' = [checkpoints EXCEPT ![t] = @ \union {large_offset}]
      /\ UNCHANGED <<S!segment, S!setup, thread, survivors, lost>>
  BY DEF S!Checkpoint
<1>2. checkpoints' \in [Threads -> SUBSET (0 .. LargeCapacity)]
  BY <1>1 DEF SurvivorInv, Local, SegmentTypes
<1>3. SegmentTypes'
  BY <1>1, <1>2 DEF SurvivorInv, Local, SegmentTypes, S!segment, S!setup
<1>4. ThreadTypes' /\ SetupOK' /\ BitsInPlace' /\ BitIsNew' /\ LargeCommitted'
  BY <1>1 DEF SurvivorInv, Local, ThreadTypes, SetupOK, BitsInPlace, BitIsNew, LargeCommitted,
              S!segment, S!setup
<1>5. Holders'
  BY <1>1 DEF SurvivorInv, Holders, S!segment, S!setup, Tried
<1>6. QED BY <1>3, <1>4, <1>5 DEF SurvivorInv, Local

LEMMA RewindStep ==
  ASSUME S!SurvivorAssumption, SurvivorInv, NEW t \in Threads, S!Rewind(t)
  PROVE  SurvivorInv'
<1> DEFINE H == HeldOf(survivors, thread)
<1>1. PICK cp \in checkpoints[t] :
        /\ \A o \in S!Taken(cp) : o.owner = t
        /\ large_offset' = cp
        /\ survivors' = survivors \ S!Taken(cp)
        /\ checkpoints' = [checkpoints EXCEPT ![t] = @ \ {cp}]
  BY DEF S!Rewind
<1>2. thread[t].at = "idle" /\ UNCHANGED <<bitmap, free_hint, committed, S!setup, thread, lost>>
  BY DEF S!Rewind, S!At
<1>3. SegmentTypes /\ ThreadTypes /\ SetupOK /\ BitsInPlace /\ BitIsNew /\ LargeCommitted
  BY DEF SurvivorInv, Local
<1>4. /\ HandsApart(survivors, thread) /\ HandIsOwn(thread) /\ LargeApart(H, large_offset)
      /\ BitsHeld(H, lost, bitmap, storage, Tried)
  BY DEF SurvivorInv, Holders
<1>5. cp \in 0 .. LargeCapacity
  BY <1>1, <1>3 DEF SegmentTypes
<1>6. S!Taken(cp) = {o \in H : o.place = "large" /\ o.start + o.size > cp}
  BY <1>3, HeldIs DEF S!Taken, S!Held
<1>7. \A u \in Threads : \A o \in Hand(thread[u]) : o.place = "large" => ~(o.start + o.size > cp)
  <2>1. SUFFICES ASSUME NEW u \in Threads, NEW o \in Hand(thread[u]), o.place = "large", o.start + o.size > cp
                 PROVE  FALSE
    OBVIOUS
  <2>2. o \in AnyObject
    BY <1>3, <2>1, Shapes DEF ThreadTypes
  <2>3. o \in S!Taken(cp)
    BY <1>6, <2>1, <2>2 DEF HeldOf
  <2>4. u = t
    BY <1>1, <1>4, <2>1, <2>3 DEF HandIsOwn
  <2>5. QED BY <1>2, <2>1, <2>4 DEF Hand
<1>8. SegmentTypes'
  <2>1. checkpoints' \in [Threads -> SUBSET (0 .. LargeCapacity)]
    BY <1>1, <1>3 DEF SegmentTypes
  <2>2. QED BY <1>1, <1>2, <1>3, <1>5, <2>1 DEF SegmentTypes, S!setup
<1>9. ThreadTypes' /\ SetupOK' /\ BitsInPlace' /\ BitIsNew'
  BY <1>2, <1>3 DEF ThreadTypes, SetupOK, BitsInPlace, BitIsNew, S!setup
<1>10. survivors' \subseteq survivors /\ LargeCommitted'
  BY <1>1, <1>2, <1>3 DEF LargeCommitted, S!setup
<1> DEFINE G == HeldOf(survivors', thread')
<1>11. G \subseteq H /\ \A o \in G : o.place = "large" => ~(o.start + o.size > cp)
  BY <1>1, <1>2, <1>6, <1>7 DEF HeldOf
<1>12. \A o \in H : o.place = "slot" => o \in G
  BY <1>1, <1>2, <1>6 DEF HeldOf
<1>13. HandsApart(survivors', thread') /\ HandIsOwn(thread')
  BY <1>2, <1>4, <1>10 DEF HandsApart, HandIsOwn
<1> HIDE DEF G
<1>14. BitsHeld(G, lost, bitmap, storage, Tried)
  <2>1. \A s \in S!SlotNumbers : S!Slot(s) \in G <=> S!Slot(s) \in H
    BY <1>11, <1>12, SlotFacts
  <2>2. lost \subseteq S!SlotNumbers
    BY <1>3 DEF SegmentTypes
  <2>3. QED BY <1>4, <1>11, <2>1, <2>2 DEF BitsHeld
<1>15. LargeApart(G, large_offset')
  <2>1. \A o \in G : o.place = "large" => o.start \in Nat /\ o.size \in Nat
    BY <1>11, LargeTypes DEF HeldOf
  <2>2. cp \in Nat
    BY <1>5 DEF S!SurvivorAssumption
  <2>3. \A o \in G : o.place = "large" => o.start + o.size <= cp
    BY <1>11, <2>1, <2>2
  <2>4. QED BY <1>1, <1>4, <1>11, <2>3 DEF LargeApart
<1>16. QED BY <1>2, <1>8, <1>9, <1>10, <1>13, <1>14, <1>15 DEF SurvivorInv, Local, Holders, G, S!setup, Tried

-----------------------------------------------------------------------------
LEMMA NextSurvivor ==
  ASSUME S!SurvivorAssumption, SurvivorInv, [S!Next]_(S!vars)
  PROVE  SurvivorInv'
<1>1. CASE UNCHANGED S!vars
  BY <1>1 DEF S!vars, S!segment, S!setup, SurvivorInv, Local, SegmentTypes, ThreadTypes, SetupOK,
              BitsInPlace, BitIsNew, LargeCommitted, Holders, Tried
<1>2. CASE S!Destroy \/ S!Reset
  BY <1>2, DestroyStep, ResetStep
<1>3. ASSUME NEW t \in Threads,
             S!Alloc(t) \/ S!InitWins(t) \/ S!SetUp(t) \/ S!InitReleases(t) \/ S!InitWaited(t)
      PROVE  SurvivorInv'
  BY <1>3, AllocStep, InitSteps, SetUpStep
<1>4. ASSUME NEW t \in Threads, S!LoadHint(t) \/ S!LoadWord(t) \/ S!SetBit(t) \/ S!StoreHint(t)
      PROVE  SurvivorInv'
  BY <1>4, ScanSteps, SetBitStep, StoreHintStep
<1>5. ASSUME NEW t \in Threads, S!LoadOffset(t) \/ S!Bump(t) \/ S!Commit(t)
      PROVE  SurvivorInv'
  BY <1>5, LoadOffsetStep, BumpStep, CommitStep
<1>6. ASSUME NEW t \in Threads,
             S!Return(t) \/ S!CallbackFails(t) \/ S!Free(t) \/ S!FreeLoads(t) \/ S!ClearBit(t)
      PROVE  SurvivorInv'
  BY <1>6, ReturnStep, CallbackStep, FreeStep, FreeLoadsStep, ClearBitStep
<1>7. ASSUME NEW t \in Threads, S!Checkpoint(t) \/ S!Rewind(t)
      PROVE  SurvivorInv'
  BY <1>7, CheckpointStep, RewindStep
<1>8. QED BY <1>1, <1>2, <1>3, <1>4, <1>5, <1>6, <1>7 DEF S!Next

LEMMA SurvivorInvApart ==
  ASSUME S!SurvivorAssumption, SurvivorInv
  PROVE  S!SurvivorsApart
<1> DEFINE H == HeldOf(survivors, thread)
<1>1. /\ HandsApart(survivors, thread) /\ LargeApart(H, large_offset) /\ BitsHeld(H, lost, bitmap, storage, Tried)
      /\ SegmentTypes /\ LargeCommitted /\ BitsInPlace
  BY DEF SurvivorInv, Holders, Local
<1>2. S!Held = H /\ \A t \in Threads : S!InHand(t) = Hand(thread[t])
  BY HeldIs DEF SurvivorInv, Local
<1> HIDE DEF H
<1>3. H \subseteq AnyObject
  BY DEF H, HeldOf
<1>4. /\ S!SlotsOf(S!Held) \union lost \subseteq S!BitsSet
      /\ storage => S!BitsSet \subseteq S!SlotsOf(S!Held) \union lost
  <2>1. \A s : s \in S!BitsSet <=> s \in S!SlotNumbers /\ s \in bitmap[S!Word(s)]
    BY <1>1 DEF S!BitsSet, BitsInPlace, SegmentTypes, S!Words
  <2>2. \A s : s \in S!SlotsOf(H) <=> s \in S!SlotNumbers /\ S!Slot(s) \in H
    <3>1. ASSUME NEW s, s \in S!SlotsOf(H) PROVE s \in S!SlotNumbers /\ S!Slot(s) \in H
      <4>1. PICK o \in H : o.place = "slot" /\ s = o.start
        BY <3>1 DEF S!SlotsOf
      <4>2. o \in SlotObjects
        BY <1>3, <4>1, KindsOfObject
      <4>3. QED BY <4>1, <4>2, SlotFacts
    <3>2. ASSUME NEW s \in S!SlotNumbers, S!Slot(s) \in H PROVE s \in S!SlotsOf(H)
      <4>1. S!Slot(s).place = "slot" /\ S!Slot(s).start = s
        BY DEF S!Slot
      <4>2. QED BY <3>2, <4>1 DEF S!SlotsOf
    <3>3. QED BY <3>1, <3>2
  <2>3. lost \subseteq S!SlotNumbers
    BY <1>1 DEF SegmentTypes
  <2>4. \A s : s \in S!SlotsOf(H) \union lost => s \in S!BitsSet
    BY <1>1, <2>1, <2>2, <2>3 DEF BitsHeld
  <2>5. storage => \A s : s \in S!BitsSet => s \in S!SlotsOf(H) \union lost
    BY <1>1, <2>1, <2>2 DEF BitsHeld
  <2>6. QED BY <1>2, <2>4, <2>5
<1>5. S!Held # {} => storage \/ (sized /\ init_flag = 2)
  BY <1>1, <1>2 DEF BitsHeld, Tried
<1>6. /\ \A t \in Threads : S!InHand(t) \cap survivors = {}
      /\ \A t, u \in Threads : t # u => S!InHand(t) \cap S!InHand(u) = {}
  BY <1>1, <1>2 DEF HandsApart
<1>7. /\ \A o \in S!LargeOf(S!Held) : o.start + o.size <= large_offset
      /\ \A o, p \in S!LargeOf(S!Held) :
           o # p => o.start + o.size <= p.start \/ p.start + p.size <= o.start
  BY <1>1, <1>2 DEF LargeApart, S!LargeOf
<1>8. storage => \A o \in S!LargeOf(survivors) : o.start + o.size <= committed
  BY <1>1 DEF LargeCommitted, S!LargeOf
<1>9. QED BY <1>4, <1>5, <1>6, <1>7, <1>8 DEF S!SurvivorsApart

(* kmm_v4_alloc_global, survivor_free, checkpoint and rewind, with any      *)
(* number of threads, slots and units: a slot and a piece of the large area *)
(* have one holder, the bits are those of the slots in use, and what the    *)
(* program has been given is committed memory, or, after a destroyed        *)
(* segment could not be set up again, no memory at all.                    *)
THEOREM SegmentSafe == S!Spec => []SurvivorsApart
<1>1. S!Init => SurvivorInv
  BY SurvivorAssumption, InitSurvivor
<1>2. SurvivorInv /\ [S!Next]_(S!vars) => SurvivorInv'
  BY SurvivorAssumption, NextSurvivor
<1>3. SurvivorInv => SurvivorsApart
  BY SurvivorAssumption, SurvivorInvApart DEF SurvivorsApart
<1>4. QED BY <1>1, <1>2, <1>3, PTL DEF S!Spec
=============================================================================

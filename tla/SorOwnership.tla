----------------------------- MODULE SorOwnership -----------------------------
(***************************************************************************)
(* The ownership tracker of the SOR analysis                               *)
(* (src/compiler/internal/sor/ownership.go), driven by the symbolic        *)
(* execution of analyzer.go: one action per kind of statement.             *)
(*                                                                         *)
(* A program is any sequence of statements over a few variable names.      *)
(* Every tracked object carries a ghost, the value it stands for: a fresh  *)
(* one for a declaration, the source's after yield and for a new holder of *)
(* a release, a part of the source's after extract.  What the tracker must *)
(* guarantee is said in terms of values.                                   *)
(*                                                                         *)
(* A release with several holders and a call with several arguments go     *)
(* through them one by one and end as the statements with one holder or    *)
(* one argument do, so the model has those.  Switching threads             *)
(* (execThreadSpawn) changes nothing that a check reads and is left out.   *)
(***************************************************************************)
EXTENDS Integers, Sequences, FiniteSets

CONSTANTS
  Names,       (* variable names                                           *)
  Paths,       (* element positions: "[0]", ".field"                       *)
  NoPath,      (* a name without a position                                *)
  LetKinds,    (* declared: whether composite, whether of a resource type  *)
  Typed,       (* whether programs extract from composite variables only   *)
  MaxObjects,  (* bound: objects ever tracked                              *)
  MaxEdges,    (* bound: release edges                                     *)
  MaxDepth     (* bound: nesting of scopes                                 *)

ASSUME SorAssumption ==
  /\ NoPath \notin Paths
  /\ LetKinds \subseteq [composite : BOOLEAN, resource : BOOLEAN]
  /\ Typed \in BOOLEAN
  /\ MaxObjects \in Nat
  /\ MaxEdges \in Nat
  /\ MaxDepth \in Nat

VARIABLES
  objects,       (* t.objects: what is tracked as obj_1, obj_2, ...         *)
  depth,         (* len(t.scopeStack) - 1 = t.currentScope                  *)
  scopeObjects,  (* t.scopeObjects                                          *)
  edges,         (* t.dag: release edges <<from, to>>                       *)
  errors         (* kinds of errors the last statement added to t.errors    *)

vars == <<objects, depth, scopeObjects, edges, errors>>

States == {"Owned", "Released", "Extracted", "Moved", "UnionReleased"}

Kinds == {"UseAfterMove", "UseAfterExtract", "CycleDetected", "WriteOnReleased",
          "ExtractFromNonComposite", "YieldInvalidSource", "ReleaseInvalidSource",
          "NullDereference", "DoubleRelease", "ResourceLeak"}

(* Values of the Children map: no entry, the hollow left by an extract, or *)
(* the object of an element.  An element that extract creates on the spot  *)
(* is at once Extracted and unreachable, so it gets no object here.        *)
Absent == 0
Hollow == -1

Ids == 1 .. Len(objects)

NameSet == [var : Names, path : Paths \union {NoPath}]
Var(v)  == [var |-> v, path |-> NoPath]

Init ==
  /\ objects = << >>
  /\ depth = 0
  /\ scopeObjects = [s \in 0 .. MaxDepth |-> {}]
  /\ edges = {}
  /\ errors = {}

Called(name, s) == {i \in scopeObjects[s] : objects[i].name = name}

(* GetObjectByName: the first object of that name in the innermost scope   *)
(* that has one; 0 when there is none.                                     *)
Finds(name, i) ==
  \/ /\ i = 0
     /\ \A s \in 0 .. depth : Called(name, s) = {}
  \/ \E s \in 0 .. depth :
       /\ i \in Called(name, s)
       /\ \A j \in Called(name, s) : i <= j
       /\ \A r \in s + 1 .. depth : Called(name, r) = {}

NoChildren == [p \in Paths |-> Absent]

(* NewObject registers an object in the current scope.                     *)
Track(objs, ids) ==
  /\ objects' = objs
  /\ scopeObjects' = [scopeObjects EXCEPT ![depth] = @ \union ids]

Report(kind) ==
  /\ errors' = {kind}
  /\ UNCHANGED <<objects, depth, scopeObjects, edges>>

(* execLet, with at most one element (AddChild).                           *)
Let(v, kind, path) ==
  LET id    == Len(objects) + 1
      whole == [name |-> Var(v), state |-> "Owned", composite |-> kind.composite,
                resource |-> kind.resource, value |-> <<id>>,
                children |-> [p \in Paths |-> IF p = path THEN id + 1 ELSE Absent]]
      part  == [name |-> [var |-> v, path |-> path], state |-> "Owned",
                composite |-> FALSE, resource |-> FALSE, value |-> <<id, path>>,
                children |-> NoChildren]
  IN  /\ IF path = NoPath
         THEN id <= MaxObjects /\ Track(Append(objects, whole), {id})
         ELSE /\ kind.composite
              /\ id < MaxObjects
              /\ Track(Append(Append(objects, whole), part), {id, id + 1})
      /\ errors' = {}
      /\ UNCHANGED <<depth, edges>>

(* CheckAccess(AccessTake) of execYield.                                   *)
TakeError(i) ==
  CASE objects[i].state = "Moved"     -> "UseAfterMove"
    [] objects[i].state = "Extracted" -> "NullDereference"
    [] OTHER                          -> "YieldInvalidSource"

KeepsSource(o) == o                                  \* fault: the source stays valid
LeavesHole(o)  == [o EXCEPT !.state = "Hollow"]      \* fault: marked as extract does
Spent(o)       == [o EXCEPT !.state = "Moved"]

(* Children are copied for composite types only.                           *)
Inherited(o) == IF o.composite THEN o.children ELSE NoChildren

NoResource(o) == FALSE   \* fault: the attribute is not copied
ResourceOf(o) == o.resource

(* execYield.                                                              *)
Yield(i, v) ==
  IF i = 0 THEN Report("YieldInvalidSource")
  ELSE IF objects[i].state # "Owned" THEN Report(TakeError(i))
  ELSE LET id  == Len(objects) + 1
           dst == [name |-> Var(v), state |-> "Owned", composite |-> objects[i].composite,
                   resource |-> ResourceOf(objects[i]), value |-> objects[i].value,
                   children |-> Inherited(objects[i])]
       IN  /\ id <= MaxObjects
           /\ Track(Append([objects EXCEPT ![i] = Spent(@)], dst), {id})
           /\ errors' = {}
           /\ UNCHANGED <<depth, edges>>

Sources(graph) == {e[1] : e \in graph}

(* dag.HasCycle: some nodes each have an edge to another of them.          *)
HasCycle(graph) ==
  \E S \in SUBSET Sources(graph) : S # {} /\ \A n \in S : \E k \in S : <<n, k>> \in graph

StillOwned(o) == o   \* fault: a holder that owns something keeps writing
Reader(o)     == IF o.state = "Owned" THEN [o EXCEPT !.state = "Released"] ELSE o

(* execRelease and execUnionRelease: the holder is an object of that name, *)
(* which stops owning, or a new one; an edge leads to it.                  *)
Release(i, v, union) ==
  \E h \in 0 .. Len(objects) :
    LET to == IF h = 0 THEN Len(objects) + 1 ELSE h
        final == IF union THEN "UnionReleased" ELSE "Released"
        holder == [name |-> Var(v), state |-> "Released", composite |-> objects[i].composite,
                   resource |-> FALSE, value |-> objects[i].value, children |-> Inherited(objects[i])]
        held == IF h = 0 THEN Append(objects, holder) ELSE [objects EXCEPT ![h] = Reader(@)]
    IN  /\ i # 0 /\ objects[i].state \in {"Owned", "Released"}
        /\ Finds(Var(v), h)
        /\ to <= MaxObjects
        /\ Cardinality(edges) < MaxEdges
        /\ Track([held EXCEPT ![i].state = final], IF h = 0 THEN {to} ELSE {})
        /\ edges' = edges \union {<<i, to>>}
        /\ errors' = (IF <<i, to>> \in edges THEN {"DoubleRelease"} ELSE {})
                       \union (IF HasCycle(edges') THEN {"CycleDetected"} ELSE {})
        /\ UNCHANGED depth

(* A release without holders only changes the state of its source.         *)
ReleaseToNone(i) ==
  /\ i # 0 /\ objects[i].state \in {"Owned", "Released"}
  /\ objects' = [objects EXCEPT ![i].state = "Released"]
  /\ errors' = {}
  /\ UNCHANGED <<depth, scopeObjects, edges>>

ReleaseRefused(i) ==
  /\ i # 0 => objects[i].state \notin {"Owned", "Released"}
  /\ Report("ReleaseInvalidSource")

(* execExtract.                                                            *)
Extract(i, p, v) ==
  LET c  == objects[i].children[p]
      id == Len(objects) + 1
      elem == [name |-> Var(v), state |-> "Owned",
               composite |-> c # Absent /\ objects[c].composite,
               resource |-> FALSE, value |-> Append(objects[i].value, p),
               children |-> IF c = Absent THEN NoChildren ELSE Inherited(objects[c])]
      taken == IF c = Absent THEN objects ELSE [objects EXCEPT ![c].state = "Extracted"]
  IN  /\ i # 0 /\ objects[i].state = "Owned"
      /\ Typed => objects[i].composite
      /\ c # Hollow /\ (c # Absent => objects[c].state \notin {"Extracted", "Moved"})
      /\ id <= MaxObjects
      /\ Track(Append([taken EXCEPT ![i].children[p] = Hollow], elem), {id})
      /\ errors' = {}
      /\ UNCHANGED <<depth, edges>>

ExtractRefused(i, p) ==
  \/ /\ i # 0 => objects[i].state # "Owned"
     /\ Report("ExtractFromNonComposite")
  \/ /\ i # 0 /\ objects[i].state = "Owned"
     /\ LET c == objects[i].children[p] IN
          c = Hollow \/ (c > 0 /\ objects[c].state \in {"Extracted", "Moved"})
     /\ Report("UseAfterExtract")

(* CheckAccess(AccessRead) of execRead, CheckAccess(AccessWrite) of execWrite. *)
AccessError(i, access) ==
  IF i = 0 THEN {"UseAfterMove"}
  ELSE CASE objects[i].state = "Moved"     -> {"UseAfterMove"}
         [] objects[i].state = "Extracted" -> {"NullDereference"}
         [] objects[i].state = "Released" /\ access = "write" -> {"WriteOnReleased"}
         [] OTHER -> {}

Access(i, access) ==
  /\ errors' = AccessError(i, access)
  /\ UNCHANGED <<objects, depth, scopeObjects, edges>>

(* execCall, for one argument; "owned" consumes it, "" is no annotation.   *)
CallError(i, expected) ==
  CASE objects[i].state = "Moved" -> {"UseAfterMove"}
    [] expected = "owned" /\ objects[i].state \notin {"Owned", "Moved"} -> {"YieldInvalidSource"}
    [] expected = "release" /\ objects[i].state \in {"Extracted", "UnionReleased"} -> {"ReleaseInvalidSource"}
    [] OTHER -> {}

Call(i, expected) ==
  /\ i # 0
  /\ errors' = CallError(i, expected)
  /\ objects' = IF expected = "owned" /\ objects[i].state = "Owned"
                THEN [objects EXCEPT ![i].state = "Moved"] ELSE objects
  /\ UNCHANGED <<depth, scopeObjects, edges>>

(* EnterScope: identifiers of scopes are their depth and come back.        *)
EnterScope ==
  /\ depth < MaxDepth
  /\ depth' = depth + 1
  /\ scopeObjects' = [scopeObjects EXCEPT ![depth + 1] = {}]
  /\ errors' = {}
  /\ UNCHANGED <<objects, edges>>

DyingResources == {i \in scopeObjects[depth] : objects[i].resource}   \* fault: only resources die
Dying == {i \in scopeObjects[depth] : objects[i].state = "Owned"}

(* ExitScope: what the scope still owns dies; a resource leaks.            *)
ExitScope ==
  /\ depth > 0
  /\ objects' = [i \in Ids |-> IF i \in Dying THEN [objects[i] EXCEPT !.state = "Moved"] ELSE objects[i]]
  /\ errors' = IF \E i \in Dying : objects[i].resource THEN {"ResourceLeak"} ELSE {}
  /\ depth' = depth - 1
  /\ UNCHANGED <<scopeObjects, edges>>

(* A statement about the variable, or the element, that name finds.        *)
Statement(i) ==
  \/ \E v \in Names :
       \/ Yield(i, v)
       \/ \E union \in BOOLEAN : Release(i, v, union)
       \/ \E p \in Paths : Extract(i, p, v)
  \/ ReleaseToNone(i) \/ ReleaseRefused(i)
  \/ \E p \in Paths : ExtractRefused(i, p)
  \/ \E access \in {"read", "write"} : Access(i, access)
  \/ \E expected \in {"owned", "release", ""} : Call(i, expected)

Next ==
  \/ \E v \in Names, kind \in LetKinds, p \in Paths \union {NoPath} : Let(v, kind, p)
  \/ \E name \in NameSet, i \in 0 .. Len(objects) : Finds(name, i) /\ Statement(i)
  \/ EnterScope \/ ExitScope

Spec == Init /\ [][Next]_vars

-----------------------------------------------------------------------------
(* Properties.                                                             *)

(* Types.                                                                  *)
TypeOK ==
  /\ objects \in Seq([name : NameSet, state : States, composite : BOOLEAN,
                      resource : BOOLEAN, value : Seq(Nat \union Paths),
                      children : [Paths -> {Hollow, Absent} \union Ids]])
  /\ depth \in 0 .. MaxDepth
  /\ scopeObjects \in [0 .. MaxDepth -> SUBSET Ids]
  /\ edges \subseteq Ids \X Ids
  /\ errors \subseteq Kinds

Owned(i) == objects[i].state = "Owned"

(* "Exclusive ownership": no value ever has two owners, whatever is        *)
(* yielded, released and extracted, under whichever names and scopes, and  *)
(* every owner is in the list of a scope that is still open: none escapes  *)
(* the leak check of ExitScope, although scope identifiers are reused.     *)
UniqueOwner ==
  /\ \A i, j \in Ids : Owned(i) /\ Owned(j) /\ objects[i].value = objects[j].value => i = j
  /\ \A i \in Ids : Owned(i) => \E s \in 0 .. depth : i \in scopeObjects[s]

(* Sharing is read-only: whatever has been released, or holds a release,   *)
(* is never again accepted as an owner that writes or is yielded.          *)
SharedIsReadOnly == \A e \in edges : ~Owned(e[1]) /\ ~Owned(e[2])

(* A resource keeps an owner that is known to be a resource until it is    *)
(* released or passed to a call, or its leak is reported.                  *)
ResourcesKept ==
  [][\A i \in Ids : Owned(i) /\ objects[i].resource =>
       \/ \E j \in Ids' : /\ objects'[j].state = "Owned" /\ objects'[j].resource
                          /\ objects'[j].value = objects[i].value
       \/ "ResourceLeak" \in errors'
       \/ \E k \in Ids :
            \/ \E v \in Names, union \in BOOLEAN : Release(k, v, union)
            \/ ReleaseToNone(k)
            \/ Call(k, "owned")]_vars

=============================================================================

------------------------------- MODULE CodeGen -------------------------------
(***************************************************************************)
(* The statement side of the code generator (src/compiler/internal/codegen) *)
(* as a machine over any program: the recursion of the generator is a stack *)
(* of the constructs that are open, and the fields of CodeGenerator that    *)
(* decide what a return, a break or the end of a function emits are the     *)
(* variables.  Which constructs a program opens, and which scope the        *)
(* analyses ask for, is a choice; the texts that are emitted are not        *)
(* modelled, but for what decides whether scopes balance at run time.       *)
(*                                                                          *)
(* The fields promoted, disturbed and entered of a frame are history: the   *)
(* generator does not have them.                                            *)
(***************************************************************************)
EXTENDS Integers, Sequences, FiniteSets

CONSTANTS
  MaxDepth,      \* bound on the constructs open at once
  MaxPending,    \* bound on the nested functions that wait for the file level
  MaxInstances   \* MaxGenericInstantiationDepth, 32 in the code

ASSUME Bounds == MaxDepth \in Nat /\ MaxPending \in Nat /\ MaxInstances \in Nat

VARIABLES
  stack,       \* the open constructs, outermost first
  kmm,         \* kmmScopeDepth
  offset,      \* offsetScopeDepth
  depth,       \* scopeDepth: symbol tables entered
  promotes,    \* funcEmitsPromote
  checkpoint,  \* funcHasKMMCheckpoint
  ret,         \* currentFunctionReturnType is one that returns a value
  inBody,      \* inFunctionBody
  pending,     \* the length of pendingNestedFuncs
  instantiated,\* genericInstantiated, for one generic function and one type
  emitted      \* what the last statement emitted, when it leaves a construct

vars == <<stack, kmm, offset, depth, promotes, checkpoint, ret, inBody, pending,
          instantiated, emitted>>

(***************************************************************************)
(* "bare" is a function with #[no_kmm] or inline; "prefix" also stands for  *)
(* tree and root functions, "method" for constructors.                     *)
(***************************************************************************)
FunctionKinds == {"function", "bare", "main", "prefix", "method", "lambda"}
BlockKinds == {"branch", "loop", "block", "switch", "arms", "braces"}
Scopes == {"none", "stack", "offset", "raw"}
Places == {"file", "lifted", "inline", "instance"}

Frames == [kind: FunctionKinds \cup BlockKinds, scope: Scopes, tables: 0..2,
           value: BOOLEAN, place: Places, body: BOOLEAN, ret: BOOLEAN,
           entered: 0..MaxDepth, promoted: BOOLEAN, disturbed: BOOLEAN]

Nothing == [kind |-> "nothing"]
Emissions == {Nothing}
  \cup [kind: {"return"}, pops: 0..MaxDepth, rewind: BOOLEAN, value: BOOLEAN]
  \cup [kind: {"end"}, rewind: BOOLEAN, promoted: BOOLEAN, disturbed: BOOLEAN]
  \cup [kind: {"leave"}]

TypeOK ==
  /\ stack \in Seq(Frames) /\ Len(stack) <= MaxDepth
  /\ kmm \in 0..MaxDepth /\ offset \in 0..MaxDepth /\ depth \in 0..2 * MaxDepth
  /\ {promotes, checkpoint, ret, inBody, instantiated} \subseteq BOOLEAN
  /\ pending \in 0..MaxPending
  /\ emitted \in Emissions

Init ==
  /\ stack = <<>> /\ kmm = 0 /\ offset = 0 /\ depth = 0 /\ pending = 0
  /\ promotes = FALSE /\ checkpoint = FALSE /\ ret = FALSE /\ inBody = FALSE
  /\ instantiated = FALSE
  /\ emitted = Nothing
-----------------------------------------------------------------------------
Top == stack[Len(stack)]
Indices(P(_)) == {i \in 1..Len(stack) : P(stack[i])}
\* The innermost C function that is open, 0 when there is none: statements
\* outside every function go to a generated main.
Own == LET fs == Indices(LAMBDA f : f.kind \in FunctionKinds)
       IN  IF fs = {} THEN 0 ELSE CHOOSE i \in fs : \A j \in fs : j <= i
\* The frames whose C text lies in that function.
OwnFrames == {stack[i] : i \in Own..Len(stack) \ {0}}
OwnScopes(kind) == Cardinality({i \in Own..Len(stack) \ {0} : stack[i].scope = kind})

\* fault: the check for an open scope is dropped.
PushAnywhere == TRUE
\* One scope per path: a body asks for a stack scope only when none is open.
MayPush == kmm = 0

\* A body that allocates, as far as bodyContainsAllocation can tell, gets at
\* least an offset scope.
OffsetScopes == {"none", "offset"}
\* shouldUseKMMScopeForBody for a statement, for main and for a function.
BodyScopes == OffsetScopes \cup (IF MayPush THEN {"stack"} ELSE {})
MainScopes == {"none"} \cup (IF MayPush THEN {"stack"} ELSE {})
FunctionScopes == {"none"} \cup (IF MayPush THEN {"stack"} ELSE {})
\* A block of a match arm: braces only inside an offset scope, otherwise a
\* KMM_V4_SCOPE_START that kmmScopeDepth does not count.
BlockScopes == {"offset", IF offset > 0 THEN "none" ELSE "raw"}

Frame(kind, scope, tables, value, place) ==
  [kind |-> kind, scope |-> scope, tables |-> tables, value |-> value,
   place |-> place, body |-> inBody, ret |-> ret, entered |-> kmm,
   promoted |-> FALSE, disturbed |-> FALSE]

\* What opening and closing a construct with this scope does to a counter.
Counted(n, scope, kind) == n + (IF scope = kind THEN 1 ELSE 0)
Uncounted(n, scope, kind) == IF scope = kind /\ n > 0 THEN n - 1 ELSE n

Open(f) ==
  /\ Len(stack) < MaxDepth
  /\ stack' = Append(stack, f)
  /\ kmm' = Counted(kmm, f.scope, "stack")
  /\ offset' = Counted(offset, f.scope, "offset")
  /\ depth' = depth + f.tables
  /\ emitted' = Nothing

\* Where the text of a function statement goes.  The body of a lambda calls
\* the statement generator directly, past the test of inFunctionBody.
Place == CASE stack = <<>> -> "file"
           [] inBody /\ Top.kind # "lambda" -> "lifted"
           [] OTHER -> "inline"
-----------------------------------------------------------------------------
(***************************************************************************)
(* Constructs that open.                                                   *)
(***************************************************************************)
\* The bound on what waits and what will.
MayWait == pending + Cardinality(Indices(LAMBDA f : f.place = "lifted")) < MaxPending

\* A function statement, or the instance of a generic function that the
\* expression of a call generates on the spot.
BodyOf(kind, scope, value, place) ==
  /\ Open(Frame(kind, scope, 1, value, place))
  /\ ret' = value
  /\ inBody' = TRUE
  /\ promotes' = (promotes /\ kind = "bare")
  /\ UNCHANGED <<checkpoint, pending, instantiated>>

Function ==
  /\ MayWait
  /\ \E value \in BOOLEAN :
       \/ \E scope \in FunctionScopes : BodyOf("function", scope, value, Place)
       \/ BodyOf("bare", "none", value, Place)

Instance ==
  /\ ~instantiated
  /\ stack # <<>>
  /\ Cardinality(Indices(LAMBDA f : f.place = "instance")) < MaxInstances
  /\ \E value \in BOOLEAN :
       \/ \E scope \in FunctionScopes : BodyOf("function", scope, value, "instance")
       \/ BodyOf("bare", "none", value, "instance")

Main ==
  /\ stack = <<>>
  /\ \E scope \in MainScopes : Open(Frame("main", scope, 1, TRUE, "file"))
  /\ ret' = TRUE
  /\ promotes' = FALSE
  /\ UNCHANGED <<checkpoint, inBody, pending, instantiated>>

\* Prefix, tree and root functions set neither the return type nor inFunctionBody.
Prefix ==
  /\ MayWait
  /\ Open(Frame("prefix", "none", 1, TRUE, Place))
  /\ UNCHANGED <<promotes, checkpoint, ret, inBody, pending, instantiated>>

Method ==
  /\ stack = <<>>
  /\ \E value \in BOOLEAN : Open(Frame("method", "none", 1, value, "file")) /\ ret' = value
  /\ UNCHANGED <<promotes, checkpoint, inBody, pending, instantiated>>

\* A constructor returns its object and enters two symbol tables.
Constructor ==
  /\ stack = <<>>
  /\ Open(Frame("method", "none", 2, TRUE, "file"))
  /\ ret' = TRUE
  /\ UNCHANGED <<promotes, checkpoint, inBody, pending, instantiated>>

Lambda ==
  /\ stack # <<>>
  /\ \E value \in BOOLEAN :
       Open(Frame("lambda", "none", 1, value, "file")) /\ ret' = value
  /\ UNCHANGED <<promotes, checkpoint, inBody, pending, instantiated>>

Block(kind, scopes, tables) ==
  /\ \E scope \in scopes : Open(Frame(kind, scope, tables, FALSE, "inline"))
  /\ UNCHANGED <<promotes, checkpoint, ret, inBody, pending, instantiated>>

Then == Block("branch", BodyScopes, 1)
Else == Block("branch", BodyScopes, 1)
While == Block("loop", BodyScopes, 1)
ForIn == Block("loop", {"none"}, 0)
\* A match over values or over the variants of an enumeration is a C switch, and
\* so is a spend of an enumeration; a match over strings is a chain of ifs.
MatchStatement == Block("switch", {"none"}, 0)
MatchExpression == Block("switch", {"none"}, 0)
SpendEnum == Block("switch", {"none"}, 0)
StringMatch == Block("arms", {"none"}, 0)
ArmBlock == stack # <<>> /\ Top.kind \in {"switch", "arms"} /\ Block("block", BlockScopes, 1)
SpendArray == Block("braces", {"none"}, 0)
PrefixCall == Block("braces", {"none"}, 0)
Tree == Block("braces", {"none"}, 0)
-----------------------------------------------------------------------------
(***************************************************************************)
(* Constructs that close.                                                  *)
(***************************************************************************)
\* Every open C function whose fields a nested one has reset.
Disturb(s) == [i \in DOMAIN s |->
                IF s[i].kind \in FunctionKinds THEN [s[i] EXCEPT !.disturbed = TRUE] ELSE s[i]]

\* fault: the end of the function does not look at the promotions.
RewindAlways(f) == f.scope = "stack"
\* Both ways out of a function with a checkpoint give the survivors back,
\* unless the function promoted something.
RewindAtEnd(f) == f.scope = "stack" /\ ~promotes

Close(below) ==
  /\ stack' = below
  /\ kmm' = Uncounted(kmm, Top.scope, "stack")
  /\ offset' = Uncounted(offset, Top.scope, "offset")
  /\ depth' = depth - Top.tables

Rest == SubSeq(stack, 1, Len(stack) - 1)
EndOf(f) == [kind |-> "end", rewind |-> RewindAtEnd(f), promoted |-> f.promoted,
             disturbed |-> f.disturbed]

\* fault: what is nested in a nested function stays in the queue.
NotFlushed(place) == IF place = "lifted" THEN pending + 1 ELSE pending
\* Nested functions that wait are written after the function that ends, which
\* then waits itself when it is nested.
Flushed(place) == IF place = "lifted" THEN 1 ELSE 0

EndFunction ==
  /\ stack # <<>> /\ Top.kind \in {"function", "bare"}
  /\ Close(Disturb(Rest))
  /\ inBody' = Top.body
  /\ checkpoint' = IF Top.kind = "bare" THEN checkpoint ELSE Top.scope = "stack"
  /\ pending' = Flushed(Top.place)
  /\ ret' = FALSE
  /\ instantiated' = (instantiated \/ Top.place = "instance")
  /\ emitted' = EndOf(Top)
  /\ UNCHANGED promotes

EndMain ==
  /\ stack # <<>> /\ Top.kind = "main"
  /\ Close(Rest)
  /\ checkpoint' = (Top.scope = "stack")
  /\ ret' = FALSE
  /\ emitted' = EndOf(Top)
  /\ UNCHANGED <<promotes, inBody, pending, instantiated>>

EndPrefix ==
  /\ stack # <<>> /\ Top.kind = "prefix"
  /\ Close(Rest)
  /\ pending' = IF Top.place = "lifted" THEN pending + 1 ELSE pending
  /\ emitted' = Nothing
  /\ UNCHANGED <<promotes, checkpoint, ret, inBody, instantiated>>

EndMethod ==
  /\ stack # <<>> /\ Top.kind = "method"
  /\ Close(Rest)
  /\ ret' = FALSE
  /\ emitted' = Nothing
  /\ UNCHANGED <<promotes, checkpoint, inBody, pending, instantiated>>

\* fault: the return type is cleared, as after a function.
ClearedAfterLambda(f) == FALSE
\* The return type around a lambda is saved and restored.
AfterLambda(f) == f.ret

EndLambda ==
  /\ stack # <<>> /\ Top.kind = "lambda"
  /\ Close(Rest)
  /\ ret' = AfterLambda(Top)
  /\ emitted' = Nothing
  /\ UNCHANGED <<promotes, checkpoint, inBody, pending, instantiated>>

EndBlock ==
  /\ stack # <<>> /\ Top.kind \in BlockKinds
  /\ Close(Rest)
  /\ emitted' = Nothing
  /\ UNCHANGED <<promotes, checkpoint, ret, inBody, pending, instantiated>>
-----------------------------------------------------------------------------
(***************************************************************************)
(* Statements that transfer ownership or control.                          *)
(***************************************************************************)
\* History: the C function that is open has copied something to the survivors.
Marked == IF Own = 0 THEN stack ELSE [stack EXCEPT ![Own].promoted = TRUE]

\* What a statement moves to a longer-lived scope is copied to the survivors.
Promote ==
  /\ promotes' = TRUE
  /\ stack' = Marked
  /\ emitted' = Nothing
  /\ UNCHANGED <<kmm, offset, depth, checkpoint, ret, inBody, pending, instantiated>>
Yield == Promote
Extract == Promote
PassOwned == Promote      \* an argument that the callee owns

\* fault: scopes are popped for functions that took a checkpoint.
PopsWithCheckpoint == IF checkpoint THEN kmm ELSE 0
Pops == kmm

\* fault: the return's own promotion is recorded after the test.
RewindBeforePromote(promoted) == kmm > 0 /\ ~promotes /\ checkpoint
RewindOnReturn(promoted) == kmm > 0 /\ ~promotes /\ ~promoted /\ checkpoint

\* The value returned is promoted when its owner is a scope of the function.
Return ==
  \E promoted \in BOOLEAN :
    /\ promoted => ret
    /\ promotes' = (promotes \/ promoted)
    /\ stack' = IF promoted THEN Marked ELSE stack
    /\ emitted' = [kind |-> "return", pops |-> Pops, rewind |-> RewindOnReturn(promoted),
                   value |-> ret]
    /\ UNCHANGED <<kmm, offset, depth, checkpoint, ret, inBody, pending, instantiated>>

InLoop == \E f \in OwnFrames : f.kind = "loop"

\* break and continue emit the C statement and nothing else.
LeaveLoop ==
  /\ InLoop
  /\ emitted' = [kind |-> "leave"]
  /\ UNCHANGED <<stack, kmm, offset, depth, promotes, checkpoint, ret, inBody, pending,
                 instantiated>>
-----------------------------------------------------------------------------
Next ==
  \/ Function \/ Instance \/ Main \/ Prefix \/ Method \/ Constructor \/ Lambda
  \/ Then \/ Else \/ While \/ ForIn \/ ArmBlock
  \/ MatchStatement \/ MatchExpression \/ StringMatch
  \/ SpendEnum \/ SpendArray \/ PrefixCall \/ Tree
  \/ EndFunction \/ EndMain \/ EndPrefix \/ EndMethod \/ EndLambda \/ EndBlock
  \/ Yield \/ Extract \/ PassOwned \/ Return \/ LeaveLoop

Spec == Init /\ [][Next]_vars
-----------------------------------------------------------------------------
(***************************************************************************)
(* Properties.                                                             *)
(***************************************************************************)
\* The counters of the generator are those of the constructs that are open,
\* at most one stack scope is open on any path, however functions, lambdas and
\* instances are nested, and nothing that one top-level function sets or queues
\* is left for the next: every nested function is written by then.
CountersMatch ==
  LET Count(P(_)) == Cardinality(Indices(P))
  IN /\ kmm = Count(LAMBDA f : f.scope = "stack") /\ kmm <= 1
     /\ offset = Count(LAMBDA f : f.scope = "offset")
     /\ depth = Count(LAMBDA f : f.tables > 0) + Count(LAMBDA f : f.tables = 2)
     /\ stack = <<>> => ~ret /\ ~inBody /\ pending = 0

Returned == emitted.kind = "return"
OwnFrame == stack[Own]

\* A return pops the stack scopes of the C function it leaves, no more and no
\* fewer.  That holds for a function that is not generated while a scope of
\* another one is open (then it would pop the scope of its caller) and outside
\* the uncounted scopes of match arms.
ReturnsPopOwn ==
  Returned /\ Own > 0 /\ OwnFrame.entered = 0 /\ OwnScopes("raw") = 0
    => emitted.pops = OwnScopes("stack")

\* The two together: what the generated code opens it closes, on every path.
ScopesBalanced == CountersMatch /\ ReturnsPopOwn

\* Neither a return nor the end of a function takes back survivors after the
\* function has promoted something to its caller, unless another function was
\* generated in between, which forgets the promotion.
PromotedSurvives ==
  /\ Returned /\ emitted.rewind /\ Own > 0 => ~OwnFrame.promoted \/ OwnFrame.disturbed
  /\ emitted.kind = "end" /\ emitted.rewind => ~emitted.promoted \/ emitted.disturbed

\* A return in a function that declares a value emits the value, also after
\* lambdas, as long as no other function was generated inside; a prefix function
\* never does better than the function around it.
ValuesReturned ==
  Returned /\ Own > 0 /\ OwnFrame.kind # "prefix" /\ ~OwnFrame.disturbed
    => emitted.value = OwnFrame.value

\* break and continue reach their loop: no C construct that catches them, the
\* do-while(0) of a stack scope or a switch, lies between.  The comment at
\* funcgen.go:488 says that stmtgen.go takes care of leaving early.  It does
\* not: TLC finds a break inside a scope inside a loop at MaxDepth = 3.
BreakReachesLoop ==
  emitted.kind = "leave" =>
    \E i \in Own..Len(stack) \ {0} :
      /\ stack[i].kind = "loop"
      /\ stack[i].scope # "stack"
      /\ \A j \in i + 1..Len(stack) :
           stack[j].kind # "switch" /\ stack[j].scope \notin {"stack", "raw"}
=============================================================================

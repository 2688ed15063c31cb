-------------------------------- MODULE Reclaim --------------------------------
(***************************************************************************)
(* From ownership to memory: what the SOR analysis decides about the       *)
(* pointer variables of a function (src/compiler/internal/sor: adapter.go, *)
(* memory.go, escape.go, interproc.go) and the allocations, promotions and *)
(* frees that the code generator emits for them (sor_codegen.go,           *)
(* stmtgen.go, funcgen.go of src/compiler/internal/codegen).               *)
(*                                                                         *)
(* A function is written statement by statement, Compile analyses the      *)
(* whole of it, and the generated C then runs on one path.  Variables are  *)
(* pointers "T*", whose size the analysis does not know: the routing by    *)
(* size leaves them alone.  A block of memory is on the heap of the thread *)
(* until its scope is popped, in the survivor segment until it is freed or *)
(* rewound, or foreign: what an extern function returned.                  *)
(*                                                                         *)
(* The analysis does not see the pointer a variable is declared with, does *)
(* not follow what a call was passed, and a release leaves two pointers    *)
(* behind.  A function that moves its pointers with yield only does none   *)
(* of this, and what is promised is promised to it.                        *)
(***************************************************************************)
EXTENDS Integers, Sequences, FiniteSets

CONSTANTS
  Locals,     (* names of local variables, each declared once              *)
  Params,     (* pointer parameters                                        *)
  Inits,      (* initial values: a subset of InitKinds                     *)
  FirstId,    (* number of the first object tracked for this function      *)
  Nobody,     (* no variable                                               *)
  MaxLength,  (* bound: statements                                         *)
  MaxShared,  (* bound: statements, in a function that copies pointers     *)
  MaxDepth    (* bound: nesting of if statements                           *)

InitKinds == {"none", "null", "alloc", "extern"}
Vars == Locals \cup Params

ReclaimAssumption ==
  /\ Locals \cap Params = {} /\ Nobody \notin Vars /\ IsFiniteSet(Params)
  /\ Inits \subseteq InitKinds
  /\ FirstId \in Nat \ {0} /\ MaxLength \in Nat /\ MaxShared \in Nat /\ MaxDepth \in Nat

VARIABLES
  code,       (* the statements                                            *)
  phase,      (* "write", "generate", "run", "refused" or "done"           *)
  decisions,  (* adapter.VarDecisions and externOrigins                    *)
  pc,         (* the statement that runs next                              *)
  env,        (* the pointer in every variable: 0 or a block               *)
  mem,        (* the blocks of memory                                      *)
  handed,     (* blocks passed to a function or returned                   *)
  misfreed    (* whether a free was given what it may not free             *)

vars == <<code, phase, decisions, pc, env, mem, handed, misfreed>>

-----------------------------------------------------------------------------
(* The text of the function.                                               *)

Length == Len(code)
At(k, op) == code[k].op = op

(* The depth of statement k: 1 in the body of the function.                *)
DepthAt(k) == 1 + Cardinality({j \in 1 .. k - 1 : At(j, "if")})
                - Cardinality({j \in 1 .. k - 1 : At(j, "end")})

Declares(j, v) == At(j, "let") /\ code[j].of = v
Declared == Params \cup {v \in Locals : \E j \in 1 .. Length : Declares(j, v)}

(* declScopeDepth: where AddSymbol saw the variable first.                 *)
DeclDepth(v) == IF v \in Params THEN 1
                ELSE DepthAt(CHOOSE j \in 1 .. Length : Declares(j, v))

(* The variables that statement k can name.                                *)
Visible(k) ==
  {v \in Declared : v \in Params \/
     \E j \in 1 .. k - 1 : Declares(j, v) /\ \A i \in j + 1 .. k : DepthAt(i) >= DepthAt(j)}

MatchingEnd(k) == CHOOSE e \in k .. Length : /\ At(e, "end") /\ DepthAt(e) = DepthAt(k) + 1
                                           /\ \A i \in k + 1 .. e - 1 : ~(At(i, "end") /\ DepthAt(i) = DepthAt(k) + 1)
Opening(e) == CHOOSE k \in 1 .. e : At(k, "if") /\ MatchingEnd(k) = e

Moves(v)  == \E k \in 1 .. Length : At(k, "yield") /\ code[k].of = v
Passes(v) == \E k \in 1 .. Length : At(k, "pass") /\ code[k].of = v

(* No pointer is copied and nothing is used after it was passed on.        *)
MovesOnly ==
  \A k \in 1 .. Length :
    /\ ~At(k, "release")
    /\ At(k, "let") => code[k].to \notin Vars
    /\ At(k, "pass") => \A j \in k + 1 .. Length : code[j].of # code[k].of

Statement(op, of, to) == [op |-> op, of |-> of, to |-> to]

Write(s) ==
  /\ phase = "write" /\ Length < MaxLength
  /\ Length > 0 /\ At(Length, "return") => s.op = "end"
  /\ code' = Append(code, s)
  /\ Length < MaxShared \/ MovesOnly'
  /\ UNCHANGED <<phase, decisions, pc, env, mem, handed, misfreed>>

Here == Visible(Length + 1)

WriteLet ==
  \E v \in Locals \ Declared, from \in Inits \cup Here : Write(Statement("let", v, from))
WriteMove ==
  \E op \in {"yield", "release"}, v \in Here, w \in Here : v # w /\ Write(Statement(op, v, w))
WriteUse ==
  \E op \in {"pass", "return"}, v \in Here : Write(Statement(op, v, Nobody))
WriteIf == DepthAt(Length + 1) <= MaxDepth /\ Write(Statement("if", Nobody, Nobody))
WriteEnd ==
  /\ DepthAt(Length + 1) > 1 /\ ~At(Length, "if")
  /\ Write(Statement("end", Nobody, Nobody))

-----------------------------------------------------------------------------
(* The analysis.  The statements of all functions are executed one after   *)
(* the other in one scope, the branches of an if like any others.          *)

Object(v, state) == [name |-> v, state |-> state]

(* GetObjectByName: the first object of that name, 0 when there is none.   *)
FirstCalled(objs, v) ==
  IF \E i \in DOMAIN objs : objs[i].name = v
  THEN CHOOSE i \in DOMAIN objs : objs[i].name = v /\ \A j \in 1 .. i - 1 : objs[j].name # v
  ELSE 0

InState(objs, i, states) == i # 0 /\ objs[i].state \in states

(* One statement: a declaration makes an object, yield spends its source   *)
(* and makes an object for its target, release makes readers of both; a    *)
(* call without annotations and a return change nothing.                   *)
Track(t, s) ==
  LET i == FirstCalled(t.objs, s.of)
      h == FirstCalled(t.objs, s.to)
      moved == Append([t.objs EXCEPT ![i].state = "Moved"], Object(s.to, "Owned"))
      read == [t.objs EXCEPT ![i].state = "Released"]
      may == InState(t.objs, i, IF s.op = "yield" THEN {"Owned"} ELSE {"Owned", "Released"})
  IN CASE s.op = "let" -> [t EXCEPT !.objs = Append(@, Object(s.of, "Owned"))]
       [] s.op = "yield" /\ may -> [t EXCEPT !.objs = moved]
       [] s.op = "release" /\ may ->
            [t EXCEPT !.objs = IF h = 0 THEN Append(read, Object(s.to, "Released"))
                               ELSE IF read[h].state = "Owned" THEN [read EXCEPT ![h].state = "Released"]
                               ELSE read]
       [] s.op \in {"yield", "release"} /\ ~may -> [objs |-> t.objs, wrong |-> TRUE]
       [] OTHER -> t

(* What is tracked after k statements, and in the end.                     *)
TrackedAfter[k \in 0 .. Length] ==
  IF k = 0 THEN [objs |-> << >>, wrong |-> FALSE] ELSE Track(TrackedAfter[k - 1], code[k])
Tracked == TrackedAfter[Length]

(* Identifiers are compared as text: "obj_10" comes before "obj_9".  For   *)
(* numbers below 100.                                                      *)
AsText(n) == IF n < 10 THEN 10 * n ELSE n
TextBefore(i, j) ==
  LET a == i + FirstId - 1
      b == j + FirstId - 1
  IN AsText(a) < AsText(b) \/ (AsText(a) = AsText(b) /\ a < b)

(* AnalyzeMemory keeps one decision for each name, of the object that      *)
(* comes last.                                                             *)
Deciding(objs, v) ==
  CHOOSE i \in DOMAIN objs : objs[i].name = v /\
    \A j \in DOMAIN objs : objs[j].name = v => j = i \/ TextBefore(j, i)

(* The names whose memory an extern function returned, through any yield   *)
(* or release, in whatever order the statements come: the least set that   *)
(* is closed under both.                                                   *)
Foreign(v) ==
  \A S \in SUBSET Vars :
    (\A k \in 1 .. Length :
       /\ At(k, "let") /\ code[k].to = "extern" => code[k].of \in S
       /\ code[k].op \in {"yield", "release"} /\ code[k].of \in S => code[k].to \in S) => v \in S

(* buildDecision: what has moved is not dropped and stays on the stack.    *)
Decides(objs, v) == \E i \in DOMAIN objs : objs[i].name = v
Remains(objs, v) == Decides(objs, v) /\ objs[Deciding(objs, v)].state # "Moved"

(* ApplyInterProcToDecisions: a parameter of pointer type consumes whatever *)
(* variable is passed to it, anywhere.                                     *)
Dropped(objs, v) == Remains(objs, v) /\ ~Passes(v)

(* NewSORCodeGenAdapter: what the generator can ask about a name.          *)
Adapted(objs, v) ==
  [tracked |-> Decides(objs, v),
   kind    |-> IF Remains(objs, v) THEN "BumpPool" ELSE "Stack",
   drop    |-> IF Dropped(objs, v) THEN "ScopeEnd" ELSE "None",
   extern  |-> Foreign(v)]

-----------------------------------------------------------------------------
(* What is emitted.                                                        *)

HasAlloc(S) == \E k \in S : At(k, "let") /\ code[k].to = "alloc"
Block(k)    == k .. MatchingEnd(k)
HasLet(k)   == \E i \in Block(k) : At(i, "let") /\ DepthAt(i) = DepthAt(k) + 1

(* shouldUseKMMScopeForFunc: a pointer in the body, an allocation anywhere. *)
UsesScope == HasAlloc(1 .. Length) /\ \E k \in 1 .. Length : At(k, "let") /\ DepthAt(k) = 1

(* A block inside a scope restores the offset of the heap, when it         *)
(* allocates; the outermost block of a function without scope has its own, *)
(* when it declares a pointer or allocates.                                *)
WantsScope(k) == HasLet(k) \/ HasAlloc(Block(k))
OwnScope(k) ==
  /\ ~UsesScope /\ WantsScope(k)
  /\ \A j \in 1 .. k - 1 : At(j, "if") /\ k \in Block(j) => ~WantsScope(j)
Reclaims(k) == OwnScope(k) \/ HasAlloc(Block(k))

(* ShouldSkipSurvivorFree.                                                 *)
Frees(v) == decisions[v].drop = "ScopeEnd" /\ decisions[v].kind = "BumpPool" /\ ~decisions[v].extern

(* sorNeedsCrossScopePromote.                                              *)
NeverPromotes(v, w) == FALSE                                   \* fault: the target keeps the block of the source
PromotesInto(v, w) ==
  /\ decisions[v].tracked /\ (decisions[v].kind = "BumpPool" \/ decisions[v].drop = "None")
  /\ decisions[w].tracked => DeclDepth(w) < DeclDepth(v)

(* sorNeedsReturnPromote, sorCallArgPromotes.                              *)
PromotesReturned(v) == decisions[v].kind = "BumpPool" /\ decisions[v].drop = "ScopeEnd"
PromotesPassed(v)   == decisions[v].kind = "BumpPool"

Promotes(s) ==
  CASE s.op = "yield"  -> PromotesInto(s.of, s.to)
    [] s.op = "return" -> PromotesReturned(s.of)
    [] s.op = "pass"   -> PromotesPassed(s.of)
    [] OTHER -> FALSE

ReturnsEmit(k) == \E j \in 1 .. k : j <= Length /\ At(j, "return") /\ Promotes(code[j])   \* fault: other promotes forget it

(* funcEmitsPromote, once the text up to statement k is generated.         *)
EmitsPromote(k) == \E j \in 1 .. k : j <= Length /\ Promotes(code[j])

(* emitPromoteForType refuses to promote foreign memory: the variable that *)
(* is promoted is the target of a yield.                                   *)
PromotesForeign ==
  \E k \in 1 .. Length :
    Promotes(code[k]) /\ decisions[IF At(k, "yield") THEN code[k].to ELSE code[k].of].extern

(* AnalyzeFullWithAST: an error of the tracker stops the compilation.      *)
Analyse ==
  /\ phase = "write" /\ DepthAt(Length + 1) = 1
  /\ decisions' = [v \in Vars |-> Adapted(Tracked.objs, v)]
  /\ phase' = IF Tracked.wrong THEN "refused" ELSE "generate"
  /\ UNCHANGED <<code, pc, env, mem, handed, misfreed>>

Generate ==
  /\ phase = "generate"
  /\ phase' = IF PromotesForeign THEN "refused" ELSE "run"
  /\ UNCHANGED <<code, decisions, pc, env, mem, handed, misfreed>>

-----------------------------------------------------------------------------
(* The generated code runs.                                                *)

(* Where a block can come from: alloc_auto takes the heap of the thread    *)
(* while it lasts, then the survivor segment.                              *)
Places == {"heap", "survivor", "foreign"}
NewBlock(place) == [place |-> place, level |-> DepthAt(pc), alive |-> TRUE]

Copied(m) == Append(m, NewBlock("survivor"))

(* kmm_v4_survivor_free of every pointer of W that is not null: the heap of *)
(* the thread is left alone.                                               *)
Freed(m, W) ==
  [b \in DOMAIN m |->
     IF m[b].place = "survivor" /\ \E v \in W : env[v] = b THEN [m[b] EXCEPT !.alive = FALSE] ELSE m[b]]

(* A pointer to memory of somebody else, or the second free of a block.    *)
Misfrees(W) ==
  \E v \in W : LET b == env[v] IN
    /\ b # 0 /\ mem[b].place # "heap"
    /\ \/ mem[b].place = "foreign" \/ ~mem[b].alive
       \/ \E h \in handed : h.block = b
       \/ \E w \in W \ {v} : env[w] = b

Dies(m, place, level) ==
  [b \in DOMAIN m |->
     IF m[b].place = place /\ m[b].level >= level THEN [m[b] EXCEPT !.alive = FALSE] ELSE m[b]]

(* What leaving the function pops: its scope, or that of a block in it.    *)
Popped(m) == Dies(m, "heap", IF UsesScope THEN 1 ELSE 2)

(* kmm_v4_survivor_rewind, unless something is promoted.                   *)
Rewound(m, emits) == IF UsesScope /\ ~emits THEN Dies(m, "survivor", 1) ELSE m

Running(op) == phase = "run" /\ pc <= Length /\ At(pc, op)
Keeps == UNCHANGED <<code, decisions>>
Goes(k) == pc' = k /\ Keeps /\ UNCHANGED phase

(* GenerateSmartVarAlloc: the block that the decision asks for is what the *)
(* variable holds without an initial value, and is lost with one.          *)
Let ==
  LET v == code[pc].of
      from == code[pc].to
  IN /\ Running("let")
     /\ \/ /\ from = "null" \/ (from = "none" /\ decisions[v].kind # "BumpPool")
           /\ env' = [env EXCEPT ![v] = 0] /\ UNCHANGED mem
        \/ \E place \in Places :
             /\ \/ from = "extern" /\ place = "foreign"
                \/ from \in {"alloc", "none"} /\ place # "foreign"
             /\ from = "none" => decisions[v].kind = "BumpPool"
             /\ mem' = Append(mem, NewBlock(place))
             /\ env' = [env EXCEPT ![v] = Len(mem) + 1]
        \/ /\ from \in Vars
           /\ env' = [env EXCEPT ![v] = env[from]] /\ UNCHANGED mem
     /\ Goes(pc + 1)
     /\ UNCHANGED <<handed, misfreed>>

Moved(v, w, b) == [env EXCEPT ![w] = b, ![v] = 0]

(* generateYieldStatement: copy the pointer, promote, clear the source.    *)
Yield ==
  LET v == code[pc].of
      w == code[pc].to
      copies == PromotesInto(v, w) /\ env[v] # 0
  IN /\ Running("yield")
     /\ mem' = IF copies THEN Copied(mem) ELSE mem
     /\ env' = Moved(v, w, IF copies THEN Len(mem) + 1 ELSE env[v])
     /\ Goes(pc + 1)
     /\ UNCHANGED <<handed, misfreed>>

(* generateReleaseStatement.                                               *)
Release ==
  /\ Running("release")
  /\ env' = [env EXCEPT ![code[pc].to] = env[code[pc].of]]
  /\ Goes(pc + 1)
  /\ UNCHANGED <<mem, handed, misfreed>>

Hand(v, how, b) == handed' = handed \cup (IF b = 0 THEN {} ELSE {[var |-> v, how |-> how, block |-> b]})

(* A call statement: promote the argument, then pass it.                   *)
Pass ==
  LET v == code[pc].of
      copies == PromotesPassed(v) /\ env[v] # 0
      b == IF copies THEN Len(mem) + 1 ELSE env[v]
  IN /\ Running("pass")
     /\ mem' = IF copies THEN Copied(mem) ELSE mem
     /\ env' = [env EXCEPT ![v] = b]
     /\ Hand(v, "pass", b)
     /\ Goes(pc + 1)
     /\ UNCHANGED misfreed

If ==
  /\ Running("if")
  /\ \/ Goes(pc + 1)
     \/ Goes(MatchingEnd(pc) + 1)
  /\ UNCHANGED <<env, mem, handed, misfreed>>

(* generateSurvivorFreeForScope: the symbols of this scope only.           *)
Ending(k) == {v \in Visible(k) : DeclDepth(v) = DepthAt(k) /\ Frees(v)}

Leaving(m) == IF Reclaims(Opening(pc)) THEN Dies(m, "heap", DepthAt(pc)) ELSE m

(* The end of a block: frees, then the heap goes back to where it was.     *)
End ==
  /\ Running("end")
  /\ misfreed' = (misfreed \/ Misfrees(Ending(pc)))
  /\ mem' = Leaving(Freed(mem, Ending(pc)))
  /\ env' = [v \in Vars |-> IF v \in Visible(pc + 1) THEN env[v] ELSE 0]
  /\ Goes(pc + 1)
  /\ UNCHANGED handed

(* generateSurvivorFreeForReturn: the whole chain of scopes, without what  *)
(* is promoted.                                                            *)
FreedOnReturn(v) == {w \in Visible(pc) : Frees(w) /\ ~(w = v /\ PromotesReturned(v))}

(* generateReturnStatement: frees, promote, rewind, pop.  Whether there is  *)
(* a rewind depends on funcHasKMMCheckpoint, which the function generated  *)
(* before this one has left behind.                                        *)
Return ==
  LET v == code[pc].of
      copies == PromotesReturned(v) /\ env[v] # 0
      b == IF copies THEN Len(mem) + 1 ELSE env[v]
      freed == Freed(mem, FreedOnReturn(v))
      promoted == IF copies THEN Copied(freed) ELSE freed
  IN /\ Running("return")
     /\ misfreed' = (misfreed \/ Misfrees(FreedOnReturn(v)))
     /\ \E stale \in BOOLEAN : mem' = Popped(Rewound(promoted, EmitsPromote(pc) \/ ~stale))
     /\ Hand(v, "return", b)
     /\ phase' = "done"
     /\ Keeps /\ UNCHANGED <<pc, env>>

(* The end of the body: frees, pop, rewind.                                *)
Finish ==
  LET W == Ending(Length + 1) IN
  /\ phase = "run" /\ pc = Length + 1
  /\ misfreed' = (misfreed \/ Misfrees(W))
  /\ mem' = Rewound(Popped(Freed(mem, W)), EmitsPromote(Length))
  /\ phase' = "done"
  /\ Keeps /\ UNCHANGED <<pc, env, handed>>

(* Every parameter holds a block that the caller handed over.              *)
Init ==
  /\ code = << >> /\ phase = "write"
  /\ decisions = [v \in Vars |-> [tracked |-> FALSE, kind |-> "Stack", drop |-> "None", extern |-> FALSE]]
  /\ pc = 1
  /\ \E at \in [Params -> 1 .. Cardinality(Params)] :
       /\ \A p, q \in Params : at[p] = at[q] => p = q
       /\ env = [v \in Vars |-> IF v \in Params THEN at[v] ELSE 0]
  /\ mem = [b \in 1 .. Cardinality(Params) |-> [place |-> "survivor", level |-> 0, alive |-> TRUE]]
  /\ handed = {} /\ misfreed = FALSE

Next ==
  \/ WriteLet \/ WriteMove \/ WriteUse \/ WriteIf \/ WriteEnd
  \/ Analyse \/ Generate
  \/ Let \/ Yield \/ Release \/ Pass \/ If \/ End \/ Return \/ Finish

Spec == Init /\ [][Next]_vars

-----------------------------------------------------------------------------
(* Properties.                                                             *)

(* Types.                                                                  *)
TypeOK ==
  /\ code \in Seq([op : {"let", "yield", "release", "pass", "return", "if", "end"},
                   of : Vars \cup {Nobody}, to : Vars \cup InitKinds \cup {Nobody}])
  /\ phase \in {"write", "generate", "run", "refused", "done"}
  /\ decisions \in [Vars -> [tracked : BOOLEAN, kind : {"Stack", "BumpPool"},
                             drop : {"None", "ScopeEnd"}, extern : BOOLEAN]]
  /\ pc \in 1 .. Length + 1
  /\ mem \in Seq([place : Places, level : Nat, alive : BOOLEAN])
  /\ env \in [Vars -> 0 .. Len(mem)]
  /\ handed \subseteq [var : Vars, how : {"pass", "return"}, block : 1 .. Len(mem)]
  /\ misfreed \in BOOLEAN

(* The frees that are emitted for variables free what the function owns,   *)
(* once, on every path, though they are decided for names and not for      *)
(* places: no block is freed twice, no foreign block and none that a       *)
(* function was passed is freed; and as long as the function runs, no      *)
(* variable that it can still name holds a block that is gone, whatever    *)
(* block of the text the memory came from (stmtgen.go, sor_codegen.go).    *)
FreesOnlyItsOwn ==
  MovesOnly => /\ ~misfreed
               /\ phase = "run" => \A v \in Vars : env[v] # 0 => mem[env[v]].alive

(* What a function returns or passes on is still there when its scope has  *)
(* been popped and the survivor segment rewound: it is promoted in time.   *)
(* This is so for variables that the function yields nowhere, and returned *)
(* ones it passes nowhere: decisions do not look at the path.              *)
HandedOutLives ==
  MovesOnly => \A h \in handed :
    ~Moves(h.var) /\ ~(h.how = "return" /\ Passes(h.var)) => mem[h.block].alive

=============================================================================

-------------------------------- MODULE Spend --------------------------------
(***************************************************************************)
(* One spend statement from its analysis to its end: the proof of full      *)
(* consumption of the semantic analyser (sema.go), the C that the generator *)
(* makes of the statement (stmtgen.go) and the Spendable of the runtime     *)
(* that this C drives (src/src/spend_call.c).                               *)
(*                                                                          *)
(* Two enumerations are in scope, with the same number of variants.  The    *)
(* body of a clause is known by how it may leave the statement.             *)
(***************************************************************************)
EXTENDS Integers, Sequences, FiniteSets

CONSTANTS
  MaxElements,   \* bound on the length of an array
  MaxClauses,    \* bound on the call clauses of the statement
  Variants       \* the number of variants of an enumeration

\* Assumed by the modules that instantiate this one.
Bounds == MaxElements \in Nat /\ MaxClauses \in Nat /\ Variants \in Nat

(***************************************************************************)
(* Targets: an array literal, a name with a length in arrayLens, a name of  *)
(* the enumeration "own", anything else.  arrayLens is keyed by the bare    *)
(* name, in the analyser and in the generator alike, so the length of a     *)
(* name may be that of another array.                                       *)
(***************************************************************************)
Lengths == 0..MaxElements
Targets ==
  [kind: {"literal"}, length: Lengths, actual: Lengths, data: {FALSE}]
  \cup [kind: {"name"}, length: Lengths, actual: Lengths, data: {FALSE}]
  \cup [kind: {"unknown"}, length: {0}, actual: {0}, data: {FALSE}]
  \cup [kind: {"enum"}, length: {0}, actual: {0}, data: BOOLEAN]

\* What follows call: a number, a variant of one of the enumerations, default, an
\* index that is none of these, or nothing, as in call { } and call() { }.
\* "foreign" is the enumeration that an enumeration target does not have.
Enums == {"own", "foreign"}
Indices ==
  [kind: {"number"}, value: 0..MaxElements + 1]
  \cup [kind: Enums, value: 1..Variants]
  \cup [kind: {"default", "other", "none"}, value: {0}]

\* "break" (or continue) and "return" stand in the body itself, "nested" in a
\* statement of the body, as if (done) { return }.
Exits == {"none", "break", "return", "nested"}
Clauses == [index: Indices, exit: Exits]

VARIABLES
  target,      \* the target of the statement
  clauses,     \* its call clauses
  stage,       \* what happens to the statement now
  pos,         \* the clause that is analysed or runs
  used,        \* the local used: the elements that have a clause
  hasDefault,  \* the local hasDefault
  maxIndex,    \* the local maxIndex
  errors,      \* an error was reported
  consumed,    \* the elements that the Spendable has marked
  remaining,   \* Spendable.remaining
  ran          \* history: the clauses whose body has run to its end

statement == <<target, clauses>>
analysis == <<used, hasDefault, maxIndex, errors>>
spendable == <<consumed, remaining>>
vars == <<statement, stage, pos, analysis, spendable, ran>>

Stages == {"analysis", "rejected", "generated", "clauses", "body", "dispatched",
           "done", "left", "panic"}

TypeOK ==
  /\ target \in Targets
  /\ clauses \in Seq(Clauses)
  /\ stage \in Stages
  /\ pos \in 1..Len(clauses) + 1
  /\ used \subseteq Nat \ {0}
  /\ hasDefault \in BOOLEAN
  /\ maxIndex \in Nat
  /\ errors \in BOOLEAN
  /\ consumed \subseteq 1..target.length
  /\ remaining \in 0..target.length
  /\ ran \subseteq 1..Len(clauses)

Init ==
  /\ target \in {t \in Targets : t.kind = "literal" => t.length = t.actual}
  /\ clauses \in UNION {[1..n -> Clauses] : n \in 0..MaxClauses}
  /\ stage = "analysis"
  /\ pos = 1
  /\ used = {} /\ hasDefault = FALSE /\ maxIndex = 0 /\ errors = FALSE
  /\ consumed = {} /\ remaining = 0
  /\ ran = {}
-----------------------------------------------------------------------------
(***************************************************************************)
(* The analyser.  A statement is in enumeration mode when its target is of  *)
(* an enumeration or any clause names a variant, whatever the target is.    *)
(***************************************************************************)
EnumMode == target.kind = "enum" \/ \E i \in 1..Len(clauses) : clauses[i].index.kind \in Enums
Known == target.kind \in {"literal", "name"}

\* fault: a second clause for the same element goes unnoticed.
NotBelowOne(index) == index.value >= 1

\* The index can be entered in used.  The ordinal of a variant is looked up in
\* its own enumeration when the target's does not have it.
Fresh(index) == index.value >= 1 /\ index.value \notin used
Accepts(index) == IF EnumMode THEN index.kind \in Enums /\ Fresh(index)
                              ELSE index.kind = "number" /\ Fresh(index)

\* fault: the last but one clause passes for the last.
LateExit(i) == clauses[i].exit = "break" \/ (clauses[i].exit = "return" /\ i < Len(clauses) - 1)

\* checkSpendBodyExit looks at the statements of the body and not inside them.
EarlyExit(i) == clauses[i].exit = "break" \/ (clauses[i].exit = "return" /\ i < Len(clauses))

AnalyseDefault(i) ==
  /\ clauses[i].index.kind = "default"
  /\ errors' = (errors \/ hasDefault \/ EnumMode \/ EarlyExit(i))
  /\ hasDefault' = TRUE
  /\ UNCHANGED <<used, maxIndex>>

\* An index that is not there is neither checked nor counted.
AnalyseNoIndex(i) ==
  /\ clauses[i].index.kind = "none"
  /\ errors' = (errors \/ EarlyExit(i))
  /\ UNCHANGED <<used, hasDefault, maxIndex>>

AnalyseIndex(i) ==
  LET index == clauses[i].index IN
  /\ index.kind \notin {"default", "none"}
  /\ errors' = (errors \/ ~Accepts(index) \/ EarlyExit(i))
  /\ used' = IF Accepts(index) THEN used \cup {index.value} ELSE used
  /\ maxIndex' = IF Accepts(index) /\ index.value > maxIndex THEN index.value ELSE maxIndex
  /\ UNCHANGED hasDefault

AnalyseClause ==
  /\ stage = "analysis" /\ pos <= Len(clauses)
  /\ (AnalyseDefault(pos) \/ AnalyseNoIndex(pos) \/ AnalyseIndex(pos))
  /\ pos' = pos + 1
  /\ UNCHANGED <<statement, stage, spendable, ran>>

\* fault: the loop over the elements stops before the last.
CoveredButLast ==
  IF EnumMode THEN ~target.data /\ 1..Variants \subseteq used
  ELSE IF Known
  THEN (hasDefault \/ 1..target.length - 1 \subseteq used) /\ maxIndex <= target.length
  ELSE hasDefault

\* The proof that all is consumed.
Covered ==
  IF EnumMode THEN ~target.data /\ 1..Variants \subseteq used
  ELSE IF Known
  THEN (hasDefault \/ 1..target.length \subseteq used) /\ maxIndex <= target.length
  ELSE hasDefault

\* A statement with an error is not generated: the compilation ends.
Conclude ==
  /\ stage = "analysis" /\ pos = Len(clauses) + 1
  /\ errors' = (errors \/ ~Covered)
  /\ stage' = IF errors' THEN "rejected" ELSE "generated"
  /\ pos' = 1
  /\ UNCHANGED <<statement, used, hasDefault, maxIndex, spendable, ran>>
-----------------------------------------------------------------------------
(***************************************************************************)
(* The generated C.  The generator asks the target alone for the mode.      *)
(***************************************************************************)
\* spendable_create, one spendable_add for each element, spend_lock: the object
\* is new, so none of the checks of spend_lock can fail.
Lock ==
  /\ stage = "generated" /\ Known
  /\ stage' = "clauses"
  /\ consumed' = {} /\ remaining' = target.length
  /\ UNCHANGED <<statement, pos, analysis, ran>>

\* A target of unknown length: only the bodies of default are generated.
OnlyDefaults ==
  /\ stage = "generated" /\ target.kind = "unknown"
  /\ stage' = "clauses"
  /\ UNCHANGED <<statement, pos, analysis, spendable, ran>>

Skip ==
  /\ stage = "clauses" /\ pos <= Len(clauses)
  /\ target.kind = "unknown" /\ clauses[pos].index.kind # "default"
  /\ pos' = pos + 1
  /\ UNCHANGED <<statement, stage, analysis, spendable, ran>>

RunDefault ==
  /\ stage = "clauses" /\ pos <= Len(clauses)
  /\ target.kind = "unknown" /\ clauses[pos].index.kind = "default"
  /\ stage' = "body"
  /\ UNCHANGED <<statement, pos, analysis, spendable, ran>>

\* spend_consume_all.
ConsumeAll ==
  /\ stage = "clauses" /\ pos <= Len(clauses) /\ Known
  /\ clauses[pos].index.kind = "default"
  /\ consumed' = 1..target.length /\ remaining' = 0
  /\ stage' = "body"
  /\ UNCHANGED <<statement, pos, analysis, ran>>

\* The number that is generated for an index, 0 for anything but a number.
Generated(index) == IF index.kind = "number" THEN index.value ELSE 0

\* spend_call: out of range and already consumed abort the program.
Call ==
  LET i == Generated(clauses[pos].index) IN
  /\ stage = "clauses" /\ pos <= Len(clauses) /\ Known
  /\ clauses[pos].index.kind # "default"
  /\ IF i \in 1..target.length /\ i \notin consumed
     THEN /\ consumed' = consumed \cup {i} /\ remaining' = remaining - 1
          /\ stage' = "body"
     ELSE stage' = "panic" /\ UNCHANGED spendable
  /\ UNCHANGED <<statement, pos, analysis, ran>>

BodyEnds ==
  /\ stage = "body"
  /\ clauses[pos].exit # "return"
  /\ ran' = ran \cup {pos}
  /\ pos' = pos + 1 /\ stage' = "clauses"
  /\ UNCHANGED <<statement, analysis, spendable>>

\* The body leaves the statement: neither spend_unlock nor spendable_destroy runs.
BodyLeaves ==
  /\ stage \in {"body", "dispatched"}
  /\ clauses[pos].exit # "none"
  /\ stage' = "left"
  /\ ran' = ran \cup {pos}
  /\ UNCHANGED <<statement, pos, analysis, spendable>>

\* spend_unlock and spendable_destroy.
Unlock ==
  /\ stage = "clauses" /\ pos = Len(clauses) + 1
  /\ stage' = IF Known /\ remaining # 0 THEN "panic" ELSE "done"
  /\ UNCHANGED <<statement, pos, analysis, spendable, ran>>

\* The switch over an enumeration; an index that is no variant of it has no
\* label, and a value without a label meets abort().
Dispatch ==
  /\ stage = "generated" /\ target.kind = "enum"
  /\ \E v \in 1..Variants :
       LET labelled == {i \in 1..Len(clauses) : clauses[i].index = [kind |-> "own", value |-> v]}
       IN  \/ \E i \in labelled : pos' = i /\ stage' = "dispatched"
           \/ labelled = {} /\ stage' = "panic" /\ UNCHANGED pos
  /\ UNCHANGED <<statement, analysis, spendable, ran>>

ArmEnds ==
  /\ stage = "dispatched"
  /\ clauses[pos].exit # "return"
  /\ ran' = ran \cup {pos} /\ stage' = "done"
  /\ UNCHANGED <<statement, pos, analysis, spendable>>

Next == \/ AnalyseClause \/ Conclude
        \/ Lock \/ ConsumeAll \/ Call \/ BodyEnds \/ BodyLeaves \/ Unlock
        \/ OnlyDefaults \/ Skip \/ RunDefault
        \/ Dispatch \/ ArmEnds

Spec == Init /\ [][Next]_vars
-----------------------------------------------------------------------------
(***************************************************************************)
(* What the analyser does not look at.                                      *)
(***************************************************************************)
Indexless(i) == clauses[i].index.kind = "none"
NamesVariant(i) == clauses[i].index.kind \in Enums
\* Nothing is left to consume once default has run.
AfterDefault(i) ==
  /\ clauses[i].index.kind # "default"
  /\ \E j \in 1..i - 1 : clauses[j].index.kind = "default"

\* Clauses that the analyser accepts and the generated code has no use for: over an
\* array those that name a variant or nothing, which are generated as the element
\* 0, and those behind default; over an enumeration the variants of another.
Overlooked ==
  {i \in 1..Len(clauses) :
     \/ Known /\ (Indexless(i) \/ NamesVariant(i) \/ AfterDefault(i))
     \/ target.kind = "enum" /\ clauses[i].index.kind = "foreign"}

\* The recorded length is that of the array.
LengthIsRight == target.length = target.actual
\* A look at the statements of the body does not find the exit that was taken.
LeftUnseen == stage = "left" /\ clauses[pos].exit = "nested"

(***************************************************************************)
(* spend_call.c:5 says that the compiler has proved that no check of the    *)
(* runtime can fail.  What an accepted statement does: a check fails only   *)
(* when the statement has a clause that the analyser overlooks, and over an *)
(* array the check of such a clause always fails, before its body runs.     *)
(***************************************************************************)
OnlyOverlookedPanics ==
  /\ stage = "panic" => Overlooked # {}
  /\ Known => ran \cap Overlooked = {}

(***************************************************************************)
(* However an accepted statement over an array ends, also by a return in    *)
(* its last clause, the body of every clause has run, and every element was *)
(* consumed exactly when the length that was recorded is that of the array. *)
(* The one exit to escape is one inside a statement of a body.              *)
(***************************************************************************)
ConsumesAll ==
  Known /\ stage \in {"done", "left"} /\ ~LeftUnseen =>
    /\ ran = 1..Len(clauses)
    /\ consumed = 1..target.actual <=> LengthIsRight
=============================================================================

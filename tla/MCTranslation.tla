---------------------------- MODULE MCTranslation ----------------------------
(***************************************************************************)
(* Two parts of a program that are translated on their own, in one run: a   *)
(* spend statement, or an expression.                                       *)
(***************************************************************************)
EXTENDS MCSpend, Sequences, FiniteSets

CONSTANTS Operators, Prefixes, MaxOperators, MaxParens, MaxTyped

VARIABLES
  unit,                                    \* what is translated
  stack, mode, cur, value, source, lost    \* the expression

E == INSTANCE Expressions

spend == <<target, clauses, stage, pos, used, hasDefault, maxIndex, errors,
           consumed, remaining, ran>>
expression == <<stack, mode, cur, value, source, lost>>

\* The part that is not translated stays as it is here.
NoExpression ==
  /\ stack = <<>> /\ mode = "idle" /\ cur = ";" /\ value = E!None
  /\ source = <<>> /\ lost = FALSE
NoSpend ==
  /\ target = [kind |-> "unknown", length |-> 0, actual |-> 0, data |-> FALSE]
  /\ clauses = <<>> /\ stage = "rejected" /\ pos = 1
  /\ used = {} /\ hasDefault = FALSE /\ maxIndex = 0 /\ errors = TRUE
  /\ consumed = {} /\ remaining = 0 /\ ran = {}

\* Bound: of three clauses one leaves the statement early.
FewExits == Len(clauses) = 3 => Cardinality({i \in 1..3 : clauses[i].exit # "none"}) <= 1

MCInit ==
  \/ unit = "spend" /\ Stmt!Init /\ FewExits /\ NoExpression
  \/ unit = "expression" /\ E!Init /\ NoSpend

MCNext ==
  \/ unit = "spend" /\ Stmt!Next /\ UNCHANGED <<unit, expression>>
  \/ unit = "expression" /\ E!Next /\ UNCHANGED <<unit, spend>>

MCSpec == MCInit /\ [][MCNext]_<<unit, spend, expression>>

(* The C text and the formatted text of an expression group as the source  *)
(* does except exactly where a part of it is Regrouped or Unwritable: a    *)
(* sum, a sign or an address of an operator, an assignment as an operand,  *)
(* signs that run together.  There the generator or the formatter, which   *)
(* work from a tree without parentheses, changes what it means             *)
(* (exprgen.go, kaulafmt).                                                 *)
MeaningKept == E!CGroupsAsWritten /\ E!FormattingKeepsMeaning
(* The types that the analysis and the generator infer agree with C: a     *)
(* value is printed with the format of its type, and fits the variable     *)
(* that auto declares for it, unless a part of it is Misprinted or         *)
(* Mistyped: a comparison or a cast with a float, arithmetic on literals   *)
(* and on booleans, and few more.  Where the whole is, it never agrees     *)
(* (sema.go, exprgen.go).                                                  *)
TypesAgree == E!FormatsFit /\ E!AutoHoldsValue
=============================================================================

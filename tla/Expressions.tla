----------------------------- MODULE Expressions ------------------------------
(***************************************************************************)
(* One expression from its tokens to C: the operator precedence parser      *)
(* (parser.go), the types that the analyser gives it (sema.go), and the C   *)
(* text and the printf formats that the generator makes of it (exprgen.go). *)
(*                                                                          *)
(* The parser is a machine whose stack is that of the Go functions; its     *)
(* tokens are chosen as it asks for them.  The rest are functions of the    *)
(* tree that it returns.  ";" stands for every token that ends an           *)
(* expression, an operator on a new line among them.                        *)
(***************************************************************************)
EXTENDS Integers, Sequences, FiniteSets

CONSTANTS
  Operators,      \* the binary operators that are followed
  Prefixes,       \* the prefix operators that are followed
  MaxOperators,   \* bound on the operators of the expression
  MaxParens,      \* bound on its parentheses
  MaxTyped        \* bound on the operators of the expressions that are typed

VARIABLES
  stack,    \* the calls of the parser that are open
  mode,     \* what the innermost does: await an operand, look at an operator, return
  cur,      \* curTok
  value,    \* what is returned
  source,   \* history: the tokens before cur
  lost      \* history: an operator was read and left out of the tree

vars == <<stack, mode, cur, value, source, lost>>

Tokens == Operators \cup Prefixes \cup {"x", "(", ")", "as", ";"}

\* precedences: 0 for what is no binary operator.
Precedence(op) ==
  CASE op = "=" -> 1 [] op = "||" -> 2 [] op = "&&" -> 3
    [] op \in {"==", "^", "|"} -> 4
    [] op \in {"<", "<<", "&"} -> 5
    [] op \in {"+", "-"} -> 6 [] op = "*" -> 7
    [] OTHER -> 0

\* Trees: the leaves are in the order of the source, and the tree does not say
\* where parentheses were.
None == [kind |-> "none"]
Leaf == [kind |-> "leaf"]
Unary(op, e) == [kind |-> "unary", op |-> op, right |-> e]
Cast(e) == [kind |-> "cast", right |-> e]
Binary(l, op, r) == [kind |-> "binary", op |-> op, left |-> l, right |-> r]

Expr(min) == [kind |-> "expr", min |-> min, left |-> None, op |-> "none"]
Inside(kind, op) == [kind |-> kind, op |-> op]

Top == stack[Len(stack)]
Below == SubSeq(stack, 1, Len(stack) - 1)
With(frame) == Append(Below, frame)
Count(s, S) == Len(SelectSeq(s, LAMBDA t : t \in S))
Signs == Operators \cup Prefixes \cup {"as"}

\* The bounds, on the tokens read with t as the next.
Fits(t) ==
  LET s == Append(Append(source, cur), t)
  IN  Count(s, Signs) <= MaxOperators /\ Count(s, {"("}) <= MaxParens

\* nextToken
NextToken(T) == /\ \E t \in T : Fits(t) /\ cur' = t
                /\ source' = Append(source, cur)

Init ==
  /\ stack = <<Expr(0)>>
  /\ mode = "operand"
  /\ cur \in Tokens
  /\ value = None
  /\ source = <<>>
  /\ lost = FALSE
-----------------------------------------------------------------------------
(***************************************************************************)
(* parsePrimaryExpressionIterative.                                        *)
(***************************************************************************)
Atom ==
  /\ mode = "operand" /\ cur = "x"
  /\ value' = Leaf
  /\ mode' = "return"
  /\ NextToken(Tokens)
  /\ UNCHANGED <<stack, lost>>

\* The operand of a prefix operator is a primary expression.
Prefix ==
  /\ mode = "operand" /\ cur \in Prefixes
  /\ stack' = Append(stack, Inside("unary", cur))
  /\ NextToken(Tokens)
  /\ UNCHANGED <<mode, value, lost>>

\* A group or as<T>( .
Open ==
  /\ mode = "operand" /\ cur \in {"(", "as"}
  /\ stack' = stack \o <<Inside(IF cur = "(" THEN "paren" ELSE "cast", "none"), Expr(0)>>
  /\ NextToken(Tokens)
  /\ UNCHANGED <<mode, value, lost>>

\* No operand begins here: some tokens give no error.
Quiet == {")", "=", "<", "<<"}
NoOperand ==
  /\ mode = "operand" /\ cur \in Quiet
  /\ value' = None
  /\ mode' = "return"
  /\ UNCHANGED <<stack, cur, source, lost>>

BadOperand ==
  /\ mode = "operand" /\ cur \in Tokens \ ({"x", "(", "as"} \cup Prefixes \cup Quiet)
  /\ mode' = "error"
  /\ UNCHANGED <<stack, cur, value, source, lost>>
-----------------------------------------------------------------------------
(***************************************************************************)
(* parseBinaryExpressionIterative.                                         *)
(***************************************************************************)
Pop(v) == stack' = Below /\ mode' = "return" /\ value' = v

Continues(op) == Precedence(op) # 0 /\ Top.min < Precedence(op)

Leave ==
  /\ mode = "operator" /\ ~Continues(cur)
  /\ Pop(Top.left)
  /\ UNCHANGED <<cur, source, lost>>

\* Assignment alone groups to the right.
RightMin(op) == IF op = "=" THEN Precedence(op) - 1 ELSE Precedence(op)

Operator ==
  /\ mode = "operator" /\ Continues(cur)
  /\ stack' = Append(With([Top EXCEPT !.op = cur]), Expr(RightMin(cur)))
  /\ mode' = "operand"
  /\ NextToken(Tokens \ {cur})
  /\ UNCHANGED <<value, lost>>

\* The same token twice is taken for a parser that does not move.
Doubled ==
  /\ mode = "operator" /\ Continues(cur)
  /\ NextToken({cur})
  /\ Pop(Top.left)
  /\ lost' = TRUE

\* The operand on the left, on the right, or none.
ToLeft ==
  /\ mode = "return" /\ stack # <<>> /\ Top.kind = "expr" /\ Top.left = None
  /\ IF value = None THEN Pop(None)
     ELSE stack' = With([Top EXCEPT !.left = value]) /\ mode' = "operator" /\ UNCHANGED value
  /\ UNCHANGED <<cur, source, lost>>

ToRight ==
  /\ mode = "return" /\ stack # <<>> /\ Top.kind = "expr" /\ Top.left # None
  /\ value # None
  /\ stack' = With([Top EXCEPT !.left = Binary(Top.left, Top.op, value), !.op = "none"])
  /\ mode' = "operator"
  /\ UNCHANGED <<cur, value, source, lost>>

NoRight ==
  /\ mode = "return" /\ stack # <<>> /\ Top.kind = "expr" /\ Top.left # None
  /\ value = None
  /\ Pop(Top.left)
  /\ lost' = TRUE
  /\ UNCHANGED <<cur, source>>

ToPrefix ==
  /\ mode = "return" /\ stack # <<>> /\ Top.kind = "unary"
  /\ IF value = None THEN mode' = "error" /\ UNCHANGED <<stack, value>>
     ELSE Pop(Unary(Top.op, value))
  /\ UNCHANGED <<cur, source, lost>>

\* An empty group is no expression, and no error.
Close ==
  /\ mode = "return" /\ stack # <<>> /\ Top.kind \in {"paren", "cast"}
  /\ cur = ")" /\ (Top.kind = "cast" => value # None)
  /\ Pop(IF Top.kind = "cast" THEN Cast(value) ELSE value)
  /\ NextToken(Tokens)
  /\ UNCHANGED lost

NotClosed ==
  /\ mode = "return" /\ stack # <<>> /\ Top.kind \in {"paren", "cast"}
  /\ cur # ")" \/ (Top.kind = "cast" /\ value = None)
  /\ mode' = "error"
  /\ UNCHANGED <<stack, cur, value, source, lost>>

Next ==
  \/ Atom \/ Prefix \/ Open \/ NoOperand \/ BadOperand
  \/ Leave \/ Operator \/ Doubled
  \/ ToLeft \/ ToRight \/ NoRight \/ ToPrefix \/ Close \/ NotClosed

Spec == Init /\ [][Next]_vars

Parsed == mode = "return" /\ stack = <<>> /\ value # None
-----------------------------------------------------------------------------
(***************************************************************************)
(* The reference: what a text means to a reader who knows the levels of     *)
(* the operators.  All group to the left, but for assignment.               *)
(***************************************************************************)
Depth(ts, i) == Count(SubSeq(ts, 1, i), {"(", "as"}) - Count(SubSeq(ts, 1, i), {")"})
Infixes(ts) == {i \in 2..Len(ts) : ts[i] \in Operators /\ ts[i - 1] \in {"x", ")"}}

RECURSIVE Read(_, _)
Read(ts, level) ==
  LET outer == {i \in Infixes(ts) : Depth(ts, i) = 0}
      loosest == {i \in outer : \A j \in outer : level[ts[i]] <= level[ts[j]]}
      at == CHOOSE i \in loosest : \A j \in loosest : IF ts[i] = "=" THEN i <= j ELSE i >= j
      n == Len(ts)
  IN  CASE outer # {} ->
             Binary(Read(SubSeq(ts, 1, at - 1), level), ts[at], Read(SubSeq(ts, at + 1, n), level))
        [] ts = <<"x">> -> Leaf
        [] outer = {} /\ n > 1 /\ ts[1] \in Prefixes -> Unary(ts[1], Read(Tail(ts), level))
        [] outer = {} /\ n > 2 /\ ts[1] = "(" -> Read(SubSeq(ts, 2, n - 1), level)
        [] outer = {} /\ n > 2 /\ ts[1] = "as" -> Cast(Read(SubSeq(ts, 2, n - 1), level))
        [] OTHER -> None

KaulaLevel == [op \in Operators |-> Precedence(op)]
Paren(ts) == <<"(">> \o ts \o <<")">>
IsBinary(e) == e.kind = "binary"

RECURSIVE Leaves(_)
Leaves(e) ==
  CASE e.kind = "leaf" -> 1
    [] e.kind = "binary" -> Leaves(e.left) + Leaves(e.right)
    [] OTHER -> Leaves(e.right)

\* Every node of a tree, with the number of its first leaf.
RECURSIVE Places(_, _)
Places(e, n) ==
  {<<e, n>>}
    \cup (CASE e.kind = "leaf" -> {}
            [] e.kind = "binary" -> Places(e.left, n) \cup Places(e.right, n + Leaves(e.left))
            [] OTHER -> Places(e.right, n))
Nodes(e) == {place[1] : place \in Places(e, 1)}

\* A prefix operator is written against its operand: && is a token, -- one of C.
Prefixed(op, ts, tokens) ==
  IF ts[1] = op /\ op \in tokens THEN <<op \o op>> \o Tail(ts) ELSE <<op>> \o ts
Fused(e, op) == e.kind = "unary" /\ e.op = op /\ e.right.kind = "unary" /\ e.right.op = op

Written == Read(source, KaulaLevel)
Complete == Parsed /\ ~lost
-----------------------------------------------------------------------------
(***************************************************************************)
(* The formatter (kaulafmt), which has only the tree.                      *)
(***************************************************************************)
\* fault: an operand on the right of the same precedence has no parentheses.
LooserOnly(e, op, side) == IsBinary(e) /\ Precedence(e.op) < Precedence(op)
OperandParens(e, op, side) ==
  IsBinary(e) /\ (\/ Precedence(e.op) < Precedence(op)
                  \/ side = "right" /\ Precedence(e.op) = Precedence(op))

RECURSIVE Formatted(_)
FormattedOperand(e, op, side) ==
  IF OperandParens(e, op, side) THEN Paren(Formatted(e)) ELSE Formatted(e)
Formatted(e) ==
  CASE e.kind = "leaf" -> <<"x">>
    [] e.kind = "unary" -> Prefixed(e.op, Formatted(e.right), {"&"})
    [] e.kind = "cast" -> <<"as">> \o Formatted(e.right) \o <<")">>
    [] e.kind = "binary" ->
         FormattedOperand(e.left, e.op, "left") \o <<e.op>> \o FormattedOperand(e.right, e.op, "right")

\* What the formatter does not write back: a prefix operator before an operator,
\* two prefix operators that run together, an assignment that is assigned to, and
\* an operator before the same prefix operator.
Unwritable(e) ==
  \/ e.kind = "unary" /\ IsBinary(e.right)
  \/ Fused(e, "&")
  \/ IsBinary(e) /\ e.op = "=" /\ IsBinary(e.left) /\ e.left.op = "="
  \/ IsBinary(e) /\ FormattedOperand(e.right, e.op, "right")[1] = e.op

\* The parser loses an operator that the next token repeats (Doubled).
ReadBack(ts) == IF \E i \in Infixes(ts) : ts[i + 1] = ts[i] THEN None ELSE Read(ts, KaulaLevel)

\* Formatting a file changes an expression exactly when a part of it is Unwritable:
\* the tree has no parentheses, and kaulafmt, which claims to put back all that the
\* order of evaluation needs (main.go:1154), puts them around binary operands only.
FormattingKeepsMeaning ==
  Complete => ((\E e \in Nodes(value) : Unwritable(e)) <=> ReadBack(Formatted(value)) # Written)
-----------------------------------------------------------------------------
(***************************************************************************)
(* The C text (exprgen.go), a sequence of tokens.  Constants are not folded *)
(* and the text of a string concatenation, a call, is left out.             *)
(***************************************************************************)
CPrecedence == [op \in Operators |->
  CASE op = "=" -> 1 [] op = "||" -> 2 [] op = "&&" -> 3 [] op = "|" -> 4
    [] op = "^" -> 5 [] op = "&" -> 6 [] op = "==" -> 7 [] op = "<" -> 8
    [] op = "<<" -> 9 [] op \in {"+", "-"} -> 10 [] op = "*" -> 11]

Binds(inner, outer, side) ==
  IF side = "left" THEN CPrecedence[inner] >= CPrecedence[outer]
                   ELSE CPrecedence[inner] > CPrecedence[outer]

\* fault: the tree is not asked, and the text alone decides.
TextAlone(child, outer, side) == FALSE
\* astBinaryNeedsParens: kaulaOpToCOp knows no assignment.
AstBinaryNeedsParens(child, outer, side) ==
  /\ IsBinary(child) /\ child.op # "=" /\ outer # "="
  /\ ~Binds(child.op, outer, side)

\* wrapIfNeeded: the first operator of a list that the text has between its
\* operands decides, wherever it stands.
SortedOps == <<"==", "<<", "&&", "||", "+", "-", "*", "|", "^", "&", "<">>
WrapIfNeeded(ts, outer, side) ==
  LET found == SelectSeq(SortedOps, LAMBDA op : \E i \in Infixes(ts) : ts[i] = op)
      bits == side = "right" /\ outer \in {"&", "|", "^", "+", "-"} /\ Count(ts, {"~", "<<"}) > 0
  IN  IF bits \/ (found # <<>> /\ ~Binds(Head(found), outer, side)) THEN Paren(ts) ELSE ts

RECURSIVE Generated(_)
\* generateBinaryExpression: "+" and "=" take their operands as they are.
GeneratedOperand(e, op, side) ==
  CASE op = "+" -> Generated(e)
    [] op = "=" -> Generated(e)
    [] OTHER ->
       LET ts == IF AstBinaryNeedsParens(e, op, side) THEN Paren(Generated(e)) ELSE Generated(e)
       IN  WrapIfNeeded(ts, op, side)

Generated(e) ==
  CASE e.kind = "leaf" -> <<"x">>
    [] e.kind = "cast" -> <<"as">> \o Generated(e.right) \o <<")">>
    [] e.kind = "unary" ->
         LET ts == Generated(e.right)
             bare == Prefixed(e.op, ts, {"-", "&"})
         IN  CASE ~IsBinary(e.right) \/ e.op = "&" -> bare
               [] IsBinary(e.right) /\ e.op = "-" -> Paren(bare)
               [] OTHER -> <<e.op>> \o Paren(ts)
    [] e.kind = "binary" ->
         GeneratedOperand(e.left, e.op, "left") \o <<e.op>> \o GeneratedOperand(e.right, e.op, "right")

BareAssignment(e, op, side) ==
  IsBinary(e) /\ e.op = "=" /\ GeneratedOperand(e, op, side) = Generated(e)
\* The C text that another tree has: "+" whose operand binds less, a sign or an
\* address of an operator, signs that run together, an assignment as an operand but
\* where the text of the assignment happens to ask for parentheses.
Regrouped(e) ==
  \/ IsBinary(e) /\ e.op = "+" /\ IsBinary(e.left) /\ ~Binds(e.left.op, "+", "left")
  \/ IsBinary(e) /\ e.op = "+" /\ IsBinary(e.right) /\ ~Binds(e.right.op, "+", "right")
  \/ e.kind = "unary" /\ e.op \in {"-", "&"} /\ IsBinary(e.right)
  \/ Fused(e, "-") \/ Fused(e, "&")
  \/ IsBinary(e) /\ BareAssignment(e.left, e.op, "left")
  \/ IsBinary(e) /\ e.op # "=" /\ BareAssignment(e.right, e.op, "right")

\* The C compiler, whose levels are others, groups the generated text as the source
\* is written, and otherwise exactly when a part of it is Regrouped: (a << 2) + b and
\* -(a + b) among them (parser.go and exprgen.go together).
CGroupsAsWritten ==
  Complete => ((\E e \in Nodes(value) : Regrouped(e)) <=> Read(Generated(value), CPrecedence) # Written)
-----------------------------------------------------------------------------
(***************************************************************************)
(* Types.  A typing gives every leaf its type ("1" is a literal below 256)  *)
(* and every cast its target.  The leaves of a tree are numbered from n.    *)
(***************************************************************************)
LeafTypes == {"i64", "f64", "bool", "string", "cstring", "1"}

Comparisons == {"==", "<", "&&", "||"}

\* inferType: the printf format that the generator expects of an expression.
Quoted == {"s", "cstr"}
\* fault: concatenations are not told from sums.
InferSum(op, l, r) == IF "f" \in {l, r} THEN "f" ELSE "d"
InferBinary(op, l, r) ==
  CASE op = "+" /\ "s" \in {l, r} -> "s"
    [] ~(op = "+" /\ "s" \in {l, r}) /\ "f" \in {l, r} -> "f"
    [] OTHER -> "d"

RECURSIVE InferType(_, _, _)
InferType(e, n, typing) ==
  CASE e.kind = "leaf" -> (CASE typing[n] = "f64" -> "f" [] typing[n] = "string" -> "s"
                             [] typing[n] = "cstring" -> "cstr" [] OTHER -> "d")
    [] e.kind = "cast" -> "d"
    [] e.kind = "unary" -> IF e.op = "!" THEN "d" ELSE InferType(e.right, n, typing)
    [] e.kind = "binary" ->
         InferBinary(e.op, InferType(e.left, n, typing),
                           InferType(e.right, n + Leaves(e.left), typing))

\* inferExpressionType: the type that the analyser gives to auto y = e.
Integer == {"u8", "i8", "i64"}
Numeric == Integer \cup {"f64"}
Promoted(l, r) == IF l = "i64" \/ r # "i64" THEN l ELSE r
\* fault: a sum has the type of its operand on the left.
SemaLeft(op, l, r) == IF op \in Comparisons THEN "bool" ELSE l
SemaBinary(op, l, r) ==
  CASE op \in Comparisons -> "bool"
    [] op \notin Comparisons /\ "f64" \in {l, r} -> "f64"
    [] op \notin Comparisons /\ {l, r} \subseteq Integer -> Promoted(l, r)
    [] op \notin Comparisons /\ "f64" \notin {l, r} /\ "string" \in {l, r} -> "string"
    [] OTHER -> IF l = "" THEN r ELSE l

SemaUnary(op, t) ==
  CASE op = "!" -> "bool"
    [] op = "&" -> IF t = "" THEN "" ELSE "pointer"
    [] op = "*" -> ""
    [] op = "-" /\ t = "u8" -> "i8"
    [] OTHER -> t

RECURSIVE SemaType(_, _, _)
SemaType(e, n, typing) ==
  CASE e.kind = "leaf" -> IF typing[n] = "1" THEN "u8" ELSE typing[n]
    [] e.kind = "cast" -> typing[0]
    [] e.kind = "unary" -> SemaUnary(e.op, SemaType(e.right, n, typing))
    [] e.kind = "binary" ->
         SemaBinary(e.op, SemaType(e.left, n, typing),
                          SemaType(e.right, n + Leaves(e.left), typing))

\* analyzeBinaryExpression: two unequal types that an operator takes.
Accepts(op, l, r) ==
  \/ l = r \/ "" \in {l, r}
  \/ {l, r} \subseteq Numeric
  \/ op = "+" /\ {l, r} \cap {"string", "cstring"} # {}
  \/ op = "==" /\ {l, r} \subseteq {"string", "cstring"}
  \/ op \in {"<<", "&", "^", "|", "&&", "||", "="}

RECURSIVE Accepted(_, _, _)
Accepted(e, n, typing) ==
  CASE e.kind = "leaf" -> TRUE
    [] e.kind = "unary" -> Accepted(e.right, n, typing)
    [] e.kind = "cast" ->
         Accepted(e.right, n, typing) /\ SemaType(e.right, n, typing) # "bool"
    [] e.kind = "binary" ->
         LET m == n + Leaves(e.left)
         IN  /\ Accepted(e.left, n, typing) /\ Accepted(e.right, m, typing)
             /\ Accepts(e.op, SemaType(e.left, n, typing), SemaType(e.right, m, typing))

\* The type that C gives the text, with "other" for a pointer to a variable and for
\* what the C compiler refuses.
Ints == {"i32", "i64"}
Arithmetic == Ints \cup {"f64"}
Scalar == Arithmetic \cup {"chars"}
Usual(l, r) == IF "f64" \in {l, r} THEN "f64" ELSE IF "i64" \in {l, r} THEN "i64" ELSE "i32"

\* string_concat, string_concat_int and string_concat_float (generateStringConcat).
Concatenation(l, r, fl, fr) ==
  IF \/ {fl, fr} \subseteq Quoted /\ l = "String" /\ r = "String"
     \/ fl \in Quoted /\ fr \notin Quoted /\ l = "String" /\ r \in Arithmetic
     \/ fl \notin Quoted /\ fr \in Quoted /\ l \in Arithmetic /\ r = "String"
  THEN "String" ELSE "other"

\* strcmp with the pointer of each operand that is a String.
Compares(l, r, fl, fr) ==
  \/ {fl, fr} \subseteq Quoted /\ (fl = "s" <=> l = "String") /\ (fr = "s" <=> r = "String")
  \/ ~({fl, fr} \subseteq Quoted) /\ {l, r} \subseteq Arithmetic

Assignable == {<<"String", "String">>, <<"chars", "chars">>} \cup (Arithmetic \X Arithmetic)

CBinary(op, l, r, fl, fr, lvalue) ==
  LET or(type, allowed) == IF allowed THEN type ELSE "other"
  IN  CASE op = "+" -> IF {fl, fr} \cap Quoted # {} THEN Concatenation(l, r, fl, fr)
                       ELSE or(Usual(l, r), {l, r} \subseteq Arithmetic)
        [] op = "-" -> IF l = "chars" THEN or(IF r = "chars" THEN "i64" ELSE "chars", r \in Ints \cup {"chars"})
                       ELSE or(Usual(l, r), {l, r} \subseteq Arithmetic)
        [] op = "*" -> or(Usual(l, r), {l, r} \subseteq Arithmetic)
        [] op = "<<" -> or(l, {l, r} \subseteq Ints)
        [] op \in {"&", "|", "^"} -> or(Usual(l, r), {l, r} \subseteq Ints)
        [] op = "==" -> or("i32", Compares(l, r, fl, fr))
        [] op = "<" -> or("i32", {l, r} \subseteq Arithmetic \/ {l, r} = {"chars"})
        [] op \in {"&&", "||"} -> or("i32", {l, r} \subseteq Scalar)
        [] op = "=" -> or(l, lvalue /\ <<l, r>> \in Assignable)

CUnary(op, t) ==
  CASE op = "!" /\ t \in Scalar -> "i32"
    [] op = "-" /\ t \in Arithmetic -> t
    [] op = "~" /\ t \in Ints -> t
    [] op = "*" /\ t = "chars" -> "i32"
    [] OTHER -> "other"

RECURSIVE CType(_, _, _)
CType(e, n, typing) ==
  CASE e.kind = "leaf" -> (CASE typing[n] \in {"bool", "1"} -> "i32" [] typing[n] = "string" -> "String"
                             [] typing[n] = "cstring" -> "chars" [] OTHER -> typing[n])
    [] e.kind = "cast" ->
         LET t == CType(e.right, n, typing)
         IN  IF t \in Arithmetic \/ (t = "chars" /\ typing[0] = "i64") THEN typing[0] ELSE "other"
    [] e.kind = "unary" -> CUnary(e.op, CType(e.right, n, typing))
    [] e.kind = "binary" ->
         LET m == n + Leaves(e.left)
         IN  CBinary(e.op, CType(e.left, n, typing), CType(e.right, m, typing),
                     InferType(e.left, n, typing), InferType(e.right, m, typing),
                     e.left.kind = "leaf" /\ typing[n] # "1")

Typings(e) == {t \in [0..Leaves(e) -> LeafTypes] : t[0] \in {"i64", "f64"}}
Typed == Parsed /\ Count(source, Signs) <= MaxTyped
Compiled(e, t) == Accepted(e, 1, t) /\ CType(e, 1, t) # "other"

\* What is passed on of a value whose inferred type is t: as an integer, a float or a
\* C string, taken from a String by .ptr when unwrap.  print writes "%cstr".
Println(t) == [as |-> IF t = "cstr" THEN "s" ELSE t, unwrap |-> t = "s"]
PrintlnMulti(t) == [as |-> IF t \in {"d", "f"} THEN t ELSE "s", unwrap |-> t = "s"]
BoxDynamicValue(t) == [as |-> IF t \in {"d", "f"} THEN t ELSE "s", unwrap |-> t = "s"]
PrintCall(t) == [as |-> t, unwrap |-> t = "s"]
Calls(t) == {Println(t), PrintlnMulti(t), BoxDynamicValue(t)}
              \cup (IF t = "cstr" THEN {} ELSE {PrintCall(t)})

\* What the inference gets wrong: a comparison of a float, an assignment of a string
\* or of what counts as a float to an integer, what a cstring points to, a cast to a
\* float, and a cstring moved back.
Misprinted(e, n, t) ==
  LET m == n + Leaves(e.left)
  IN  \/ /\ IsBinary(e) /\ e.op \in Comparisons
         /\ "f" \in {InferType(e.left, n, t), InferType(e.right, m, t)}
      \/ /\ IsBinary(e) /\ e.op = "="
         /\ \/ CType(e.left, n, t) \in {"String", "chars"}
            \/ CType(e.left, n, t) \in Ints /\ InferType(e.right, m, t) = "f"
      \/ e.kind = "unary" /\ e.op = "*" /\ InferType(e.right, n, t) = "cstr"
      \/ e.kind = "cast" /\ t[0] = "f64"
      \/ IsBinary(e) /\ e.op = "-" /\ CType(e, n, t) = "chars"

Takes == [d |-> Ints, f |-> {"f64"}, s |-> {"chars"}]
Suits(call, c) == IF call.unwrap THEN call.as = "s" /\ c = "String" ELSE c \in Takes[call.as]

\* A value is printed, and boxed, as what it is in C, unless a part of it is
\* Misprinted: printf is not told, and reads another register.  When it is the whole
\* that is Misprinted, one of the calls always does.  (print of a cstring is left
\* out: it prints a character.)
FormatsFit ==
  Typed => \A t \in Typings(value) : Compiled(value, t) =>
    LET fits == \A call \in Calls(InferType(value, 1, t)) : Suits(call, CType(value, 1, t))
    IN  /\ ~fits => \E place \in Places(value, 1) : Misprinted(place[1], place[2], t)
        /\ Misprinted(value, 1, t) => ~fits

\* analyzeAutoDeclaration: the type of y in auto y = e, in C too; "" is an error.
AutoType(e, t) == SemaType(e, 1, t)

\* The bits that a whole number may take: a truth value, a literal, any.
RECURSIVE Bits(_, _, _)
Bits(e, n, t) ==
  LET m == n + Leaves(e.left)
      both == {Bits(e.left, n, t), Bits(e.right, m, t)}
  IN  CASE e.kind = "leaf" -> (CASE t[n] = "bool" -> 1 [] t[n] = "1" -> 8 [] OTHER -> 64)
        [] IsBinary(e) /\ e.op \in Comparisons -> 1
        [] e.kind = "unary" /\ e.op = "!" -> 1
        [] IsBinary(e) /\ e.op = "=" -> Bits(e.left, n, t)
        [] IsBinary(e) /\ e.op = "&" -> CHOOSE w \in both : \A v \in both : w <= v
        [] IsBinary(e) /\ e.op \in {"|", "^"} -> CHOOSE w \in both : \A v \in both : w >= v
        [] OTHER -> 64
Room == [bool |-> 1, u8 |-> 8, i8 |-> 7, i64 |-> 64]

\* What does not fit in the type of its variable: arithmetic on literals below 256
\* and on booleans, bits of these with wider ones, a float assigned to what is none,
\* a string with a float, and the difference of two cstrings.
Mistyped(e, n, t) ==
  LET m == n + Leaves(e.left)
      type == SemaType(e, n, t)
  IN  \/ e.kind = "unary" /\ e.op \in {"-", "~"} /\ type \in {"u8", "i8", "bool"}
      \/ IsBinary(e) /\ e.op \in {"+", "-", "*", "<<"} /\ type \in {"u8", "i8", "bool"}
      \/ IsBinary(e) /\ e.op \in {"|", "^"} /\ type \in {"u8", "i8", "bool"}
         /\ Bits(e, n, t) > Room[type]
      \/ IsBinary(e) /\ e.op = "=" /\ SemaType(e.right, m, t) = "f64" /\ SemaType(e.left, n, t) # "f64"
      \/ IsBinary(e) /\ e.op = "+" /\ type = "f64" /\ CType(e, n, t) = "String"
      \/ IsBinary(e) /\ e.op = "-" /\ {CType(e.left, n, t), CType(e.right, m, t)} = {"chars"}

\* What the variable of auto y = e holds.
Holds(e, t) ==
  LET type == AutoType(e, t)
      c == CType(e, 1, t)
  IN  CASE c \in Ints -> type \in DOMAIN Room /\ Bits(e, 1, t) <= Room[type]
        [] c = "f64" -> type = "f64"
        [] c = "String" -> type = "string"
        [] c = "chars" -> type = "cstring"

\* A variable declared with auto holds every value of its expression, unless a part
\* of that is Mistyped; and when the whole is, as in auto y = 200 + 100, there are
\* values that it never holds.
AutoHoldsValue ==
  Typed => \A t \in Typings(value) :
    Compiled(value, t) /\ AutoType(value, t) # "" =>
      /\ ~Holds(value, t) => \E place \in Places(value, 1) : Mistyped(place[1], place[2], t)
      /\ Mistyped(value, 1, t) => ~Holds(value, t)
=============================================================================

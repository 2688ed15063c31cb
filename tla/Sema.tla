-------------------------------- MODULE Sema ---------------------------------
(***************************************************************************)
(* The names of the semantic analyser (src/compiler/internal/sema/sema.go   *)
(* over symbol/symbol.go): which declaration a name finds, what is known of *)
(* it, and the context the analyser keeps while it descends.  The recursion *)
(* of the analyser is a stack of the constructs that are open; the program  *)
(* is any program.  Each identifier of an expression is a step, taken when  *)
(* the analyser visits it; types and what depends on them are left out.     *)
(*                                                                          *)
(* Beside the tables of the analyser runs a history that it does not have:  *)
(* the declarations as the blocks of the source text scope them, which is   *)
(* how the braces of the generated C scope them.                            *)
(***************************************************************************)
EXTENDS Integers, Sequences, FiniteSets

CONSTANTS
  Names,        \* the names that are followed
  MaxDepth,     \* bound on the constructs open at once
  MaxDecls      \* bound on the declarations alive at once

ASSUME Bounds == MaxDepth \in Nat /\ MaxDecls \in Nat

VARIABLES
  pass,          \* the pass of Analyze
  open,          \* the open constructs, outermost first
  tables,        \* the chain of symbolTable, the global table first
  scope,         \* the counter scope
  function,      \* currentFunction: its place in open, 0 for nil
  currentPrefix, \* currentPrefixTable is not nil
  globals,       \* history: the file-level declarations in scope
  decls          \* history: the declarations

context == <<scope, function, currentPrefix>>
vars == <<pass, open, tables, context, globals, decls>>

(***************************************************************************)
(* Symbols.  The scopes told apart are those that the analyser tells apart: *)
(* parameters count as local, extern names as global.  What #[unused] does, *)
(* to leave a report out, is left out.                                      *)
(***************************************************************************)
Ids == 1..MaxDecls
NoSymbol == [id |-> 0]
Symbols == [id: Ids, type: {"value", "nullable", "function"}, checked: BOOLEAN,
            scope: {"global", "local", "nonlocal", "field"}, referenced: BOOLEAN]
Tables == [Names -> Symbols \cup {NoSymbol}]
Blocks == [Names -> 0..MaxDecls]

TableKinds == {"function", "member", "prefix", "lambda"}
BlockKinds == {"inner", "prefixcall"}

\* An open construct, with what the analyser keeps in locals to restore it.
Frames == [kind: TableKinds \cup BlockKinds, function: 0..MaxDepth, prefix: BOOLEAN,
           block: Blocks]

\* untyped: a parameter that may be null and is registered as a value.
\* checked, read: what was done with the name where the text means this one.
\* closed: its block has ended.  nonlocal: a nested function bound it by nonlocal.
\* eclipsed: when a construct inside its block had ended, the name went on to mean
\* a declaration of that construct to the analyser.
Decls == [kind: {"local", "untyped", "other"}, nullable: BOOLEAN, checked: BOOLEAN,
          read: BOOLEAN, closed: BOOLEAN, nonlocal: BOOLEAN, eclipsed: BOOLEAN]
NoDecl == [nullable |-> FALSE]

TypeOK ==
  /\ pass \in {"first", "second"}
  /\ open \in Seq(Frames) /\ Len(open) <= MaxDepth
  /\ tables \in Seq(Tables)
  /\ scope \in 1..MaxDepth + 1
  /\ function \in 0..MaxDepth
  /\ currentPrefix \in BOOLEAN
  /\ globals \in Blocks
  /\ decls \in [Ids -> Decls \cup {NoDecl}]

Empty == [n \in Names |-> NoSymbol]
NoNames == [n \in Names |-> 0]

Init ==
  /\ pass = "first"
  /\ open = <<>> /\ tables = <<Empty>>
  /\ scope = 1 /\ function = 0
  /\ currentPrefix = FALSE
  /\ globals = NoNames
  /\ decls = [d \in Ids |-> NoDecl]
-----------------------------------------------------------------------------
Top == open[Len(open)]
Largest(S) == CHOOSE i \in S : \A j \in S : j <= i

\* GetSymbol: the innermost table that has the name, 0 when none has.
Where(n) ==
  LET is == {i \in 1..Len(tables) : tables[i][n] # NoSymbol}
  IN  IF is = {} THEN 0 ELSE Largest(is)
Symbol(n) == tables[Where(n)][n]

\* The declaration that the blocks of the text give the name, 0 for none.
Visible(n) ==
  LET is == {i \in 1..Len(open) : open[i].block[n] # 0}
  IN  IF is = {} THEN globals[n] ELSE open[Largest(is)].block[n]

\* A declaration is forgotten when neither a table nor a block has it.
Held == UNION {{tables[i][n].id : i \in 1..Len(tables)}
               \cup {open[i].block[n] : i \in 1..Len(open)}
               \cup {globals[n]} : n \in Names}
Kept(ds) == LET held == Held' IN [d \in Ids |-> IF d \in held THEN ds[d] ELSE NoDecl]
Closed(block) == [d \in Ids |-> IF d \in {block[n] : n \in Names}
                                THEN [decls[d] EXCEPT !.closed = TRUE] ELSE decls[d]]

FreeIds == {d \in Ids : decls[d] = NoDecl}
NewId == CHOOSE d \in FreeIds : \A e \in FreeIds : d <= e

\* The statements that the analyser can be at: the first pass visits those of
\* the file, both passes those of an open construct.
AtStatement == pass = "first" \/ open # <<>>

\* fault: a symbol inherits the check of the one that it replaces or hides.
InheritsCheck(n, id, type, sc) ==
  [id |-> id, type |-> type, scope |-> sc, referenced |-> FALSE,
   checked |-> IF Where(n) = 0 THEN FALSE ELSE Symbol(n).checked]

\* AddSymbol: a new symbol, whatever the table had under the name.
NewSymbol(n, id, type, sc) ==
  [id |-> id, type |-> type, scope |-> sc, referenced |-> FALSE, checked |-> FALSE]

InBlock(d, n) == IF open = <<>> THEN /\ globals' = [globals EXCEPT ![n] = d]
                                     /\ UNCHANGED open
                 ELSE /\ open' = [open EXCEPT ![Len(open)].block[n] = d]
                      /\ UNCHANGED globals

Declaration(kind, nullable) ==
  [kind |-> kind, nullable |-> nullable, checked |-> FALSE, read |-> FALSE,
   closed |-> FALSE, nonlocal |-> FALSE, eclipsed |-> FALSE]
KindOf(sc) == IF sc = "local" THEN "local" ELSE "other"

\* A declaration in symbolTable and in the block that is open.
Add(n, type, sc) ==
  /\ FreeIds # {}
  /\ tables' = [tables EXCEPT ![Len(tables)][n] = NewSymbol(n, NewId, type, sc)]
  /\ InBlock(NewId, n)
  /\ decls' = Kept([decls EXCEPT ![NewId] =
                      Declaration(KindOf(sc), type = "nullable")])

\* The mark that the scope of a declaration gets.
DeclScope == IF Len(tables) = 1 THEN "global" ELSE "local"
-----------------------------------------------------------------------------
(***************************************************************************)
(* Declarations.                                                           *)
(***************************************************************************)
Variable ==
  /\ AtStatement
  /\ \E n \in Names, type \in {"value", "nullable"} : Add(n, type, DeclScope)
  /\ UNCHANGED <<pass, context>>

\* One that may be null is followed as a variable of the file only.
Extern ==
  /\ AtStatement
  /\ \E n \in Names : Add(n, "value", "global")
  /\ UNCHANGED <<pass, context>>

\* The fields of a class go to the table that is current.
ClassField ==
  /\ AtStatement
  /\ \E n \in Names : Add(n, "value", "field")
  /\ UNCHANGED <<pass, context>>

\* A name of an outer function: not one that the current table has, nor one of
\* the file, nor a function.  No declaration is made.
NonLocal ==
  /\ AtStatement
  /\ \E n \in Names :
       LET outer == {i \in 2..Len(tables) - 1 : tables[i][n] # NoSymbol}
           found == tables[Largest(outer)][n]
       IN  /\ tables[Len(tables)][n] = NoSymbol
           /\ outer # {}
           /\ found.type # "function"
           /\ tables' = [tables EXCEPT ![Len(tables)][n] =
                           NewSymbol(n, found.id, found.type, "nonlocal")]
           /\ decls' = [decls EXCEPT ![found.id].nonlocal = TRUE]
  /\ UNCHANGED <<pass, open, context, globals>>
-----------------------------------------------------------------------------
(***************************************************************************)
(* Uses of a name.  A use that is refused ends in an error, and there is no *)
(* more to say of the program.                                             *)
(***************************************************************************)
\* A field can only be named through self.
Accepted(n) == Where(n) # 0 /\ Symbol(n).scope # "field"

\* Only what is local can be reported as unused; the marks of the rest are left
\* out.
Reportable(s) == s.id # 0 /\ s.scope = "local"

\* fault: only the table of the current scope is marked.
MarkedInScope(n) ==
  IF ~Reportable(tables[Len(tables)][n]) THEN tables
  ELSE [tables EXCEPT ![Len(tables)][n].referenced = TRUE]

Marked(n) == IF ~Reportable(Symbol(n)) THEN tables
             ELSE [tables EXCEPT ![Where(n)][n].referenced = TRUE]

\* The text reads the declaration that its blocks give the name, whichever the
\* analyser has found.
Read(n) == IF Visible(n) = 0 \/ decls[Visible(n)].kind = "other" THEN decls
           ELSE [decls EXCEPT ![Visible(n)].read = TRUE]

\* The target of an assignment is not read: it is marked as written, on which only
\* the wording of a report depends.
Use ==
  /\ AtStatement
  /\ \E n \in Names :
       /\ Accepted(n)
       /\ tables' = Marked(n)
       /\ decls' = Read(n)
  /\ UNCHANGED <<pass, open, context, globals>>

\* A call of a method or an index: a receiver that may be null must have been
\* checked.  A read of a field asks for nothing.
MayDereference(n) == Accepted(n) /\ (Symbol(n).type = "nullable" => Symbol(n).checked)

Dereference ==
  /\ AtStatement
  /\ \E n \in Names :
       /\ MayDereference(n)
       /\ tables' = Marked(n)
       /\ decls' = Read(n)
  /\ UNCHANGED <<pass, open, context, globals>>

-----------------------------------------------------------------------------
(***************************************************************************)
(* Constructs that open.                                                   *)
(***************************************************************************)
Frame(kind) ==
  [kind |-> kind, function |-> function, prefix |-> currentPrefix,
   block |-> NoNames]

\* A construct that shares the table of the one around it.
Open(kind) == Len(open) < MaxDepth /\ open' = Append(open, Frame(kind))

\* Only the parameters of a member are registered with the type that they have.
ParameterKind(kind, nullable) ==
  IF kind # "member" /\ nullable THEN "untyped" ELSE "local"
ParameterType(kind, nullable) ==
  IF kind = "member" /\ nullable THEN "nullable" ELSE "value"

\* A construct with a table of its own and, perhaps, a parameter.
OpenTable(frame) ==
  /\ Len(open) < MaxDepth
  /\ \/ /\ open' = Append(open, frame)
        /\ tables' = Append(tables, Empty)
        /\ UNCHANGED decls
     \/ /\ FreeIds # {}
        /\ \E n \in Names, nullable \in BOOLEAN :
             /\ open' = Append(open, [frame EXCEPT !.block[n] = NewId])
             /\ tables' = Append(tables, [Empty EXCEPT ![n] =
                   NewSymbol(n, NewId, ParameterType(frame.kind, nullable), "local")])
             /\ decls' = [decls EXCEPT ![NewId] =
                             Declaration(ParameterKind(frame.kind, nullable), nullable)]
  /\ scope' = scope + 1

Body ==
  /\ OpenTable(Frame("function"))
  /\ function' = Len(open) + 1
  /\ UNCHANGED <<pass, currentPrefix, globals>>

\* A function statement enters its name, when that is followed.
FunctionName ==
  /\ AtStatement
  /\ \E n \in Names : Add(n, "function", "global")
  /\ UNCHANGED <<pass, context>>

\* Its body is analysed at once inside a function.  Those of the functions and of
\* the classes of the file, of which there is any number, come with the second
\* pass; in a block of the file, a prefix or a member a body is not analysed.
NestedFunction == AtStatement /\ function # 0 /\ Body
NextFunction == pass = "second" /\ open = <<>> /\ Body

NextMember ==
  /\ pass = "second" /\ open = <<>>
  /\ OpenTable(Frame("member"))
  /\ UNCHANGED <<pass, function, currentPrefix, globals>>

Prefix ==
  /\ AtStatement
  /\ Len(open) < MaxDepth
  /\ open' = Append(open, Frame("prefix"))
  /\ tables' = Append(tables, Empty)
  /\ scope' = scope + 1
  /\ UNCHANGED <<pass, function, currentPrefix,
                 globals, decls>>

Lambda ==
  /\ AtStatement
  /\ OpenTable(Frame("lambda"))
  /\ UNCHANGED <<pass, function, currentPrefix,
                 globals>>

\* @name: of a prefix statement that was met before, or of a function, or of
\* nothing at all.
PrefixCall ==
  /\ AtStatement
  /\ \E found \in BOOLEAN :
       /\ Open(IF found THEN "prefixcall" ELSE "inner")
       /\ currentPrefix' = (found \/ currentPrefix)
  /\ UNCHANGED <<pass, tables, scope, function,
                 globals, decls>>

\* if n # null: a use of the name, then the mark, which nothing takes back.
IfNotNull ==
  /\ AtStatement
  /\ Open("inner")
  /\ \E n \in Names :
       /\ Accepted(n)
       /\ Symbol(n).type = "nullable"
       /\ tables' = [Marked(n) EXCEPT ![Where(n)][n].checked = TRUE]
       /\ decls' = IF Visible(n) = 0 THEN decls
                   ELSE [Read(n) EXCEPT ![Visible(n)].checked = TRUE]
  /\ UNCHANGED <<pass, scope, function, currentPrefix, globals>>

\* The two parts of an if, one after the other, a loop, an arm of a match, a
\* clause of a spend, a tree.
InnerBlock ==
  /\ AtStatement
  /\ Open("inner")
  /\ UNCHANGED <<pass, tables, context, globals, decls>>

If == InnerBlock
While == InnerBlock
MatchArm == InnerBlock
Tree == InnerBlock

\* The variable of a for goes to the table around the loop, and is declared in it
\* when the type of the elements is known.
ForIn ==
  /\ AtStatement
  /\ Len(open) < MaxDepth
  /\ UNCHANGED <<pass, context, globals>>
  /\ \/ open' = Append(open, Frame("inner")) /\ UNCHANGED <<tables, decls>>
     \/ /\ FreeIds # {}
        /\ \E n \in Names :
             /\ open' = Append(open, [Frame("inner") EXCEPT !.block[n] = NewId])
             /\ tables' = [tables EXCEPT ![Len(tables)][n] =
                             NewSymbol(n, NewId, "value", "local")]
             /\ decls' = Kept([decls EXCEPT ![NewId] = Declaration("local", FALSE)])
-----------------------------------------------------------------------------
(***************************************************************************)
(* Constructs that close.                                                  *)
(***************************************************************************)
Shut == open' = SubSeq(open, 1, Len(open) - 1)

\* Where the analyser goes on with a declaration of the construct that has ended.
Eclipsed(ds) ==
  LET over == {n \in Names : Where(n) # 0 /\ Symbol(n).id # Visible(n)}'
  IN  [d \in Ids |-> IF \E n \in over : d = Visible(n)'
                     THEN [ds[d] EXCEPT !.eclipsed = TRUE] ELSE ds[d]]

\* The declarations of the block leave the text, those of the table live on.
CloseBlock ==
  /\ open # <<>> /\ Top.kind \in BlockKinds
  /\ Shut
  /\ currentPrefix' = (IF Top.kind = "prefixcall" THEN Top.prefix ELSE currentPrefix)
  /\ UNCHANGED <<pass, tables, scope, function, globals>>
  /\ decls' = Kept(Eclipsed(Closed(Top.block)))

\* fault: the table stays where it is.
TablesKept == tables
TablesLeft == SubSeq(tables, 1, Len(tables) - 1)

\* The symbols that checkUnusedSymbols reports at the end of a function or of a
\* member.  Fields are among them, for their scope does not begin with class_field:.
Unused ==
  LET here == {tables[Len(tables)][n] : n \in Names} \ {NoSymbol}
  IN  {s \in here : s.scope # "global" /\ ~s.referenced}

CloseTable(kind) ==
  /\ open # <<>> /\ Top.kind = kind
  /\ Shut
  /\ tables' = TablesLeft
  /\ scope' = scope - 1
  /\ UNCHANGED globals
  /\ decls' = Kept(Eclipsed(decls))

\* fault: the function around a nested one is forgotten.
NoFunction(f) == 0
OldFunction(f) == f.function

EndFunction ==
  /\ CloseTable("function")
  /\ function' = OldFunction(Top)
  /\ UNCHANGED <<pass, currentPrefix>>

EndMember ==
  /\ CloseTable("member")
  /\ UNCHANGED <<pass, function, currentPrefix>>

\* The table is kept for the bodies that are called with @.
EndPrefix ==
  /\ CloseTable("prefix")
  /\ UNCHANGED <<pass, function, currentPrefix>>

EndLambda ==
  /\ CloseTable("lambda")
  /\ UNCHANGED <<pass, function, currentPrefix>>

SecondPass ==
  /\ pass = "first" /\ open = <<>>
  /\ pass' = "second"
  /\ UNCHANGED <<open, tables, context, globals, decls>>

Next ==
  \/ Variable \/ Extern \/ ClassField \/ NonLocal \/ FunctionName
  \/ Use \/ Dereference
  \/ NestedFunction \/ NextFunction \/ NextMember \/ Prefix \/ Lambda \/ PrefixCall
  \/ If \/ IfNotNull \/ While \/ MatchArm \/ Tree \/ ForIn
  \/ CloseBlock \/ EndFunction \/ EndMember \/ EndPrefix \/ EndLambda
  \/ SecondPass

Spec == Init /\ [][Next]_vars
-----------------------------------------------------------------------------
Count(P(_)) == Cardinality({i \in 1..Len(open) : P(open[i])})
Some(P(_)) == Count(P) > 0

(***************************************************************************)
(* However constructs nest, the context that the analyser keeps in fields   *)
(* and restores by hand is that of the constructs that are open: the table  *)
(* and the counter, the function (which decides whether a nested function   *)
(* is analysed and what a return is held against), and the prefix whose     *)
(* variables $ may name.                                                    *)
(***************************************************************************)
ContextMatchesNesting ==
  LET fs == {i \in 1..Len(open) : open[i].kind = "function"} IN
  /\ Len(tables) = 1 + Count(LAMBDA f : f.kind \in TableKinds)
  /\ scope = Len(tables)
  /\ function = (IF fs = {} THEN 0 ELSE Largest(fs))
  /\ currentPrefix <=> Some(LAMBDA f : f.kind = "prefixcall")

(***************************************************************************)
(* Wherever a name is accepted, it is the declaration that the blocks of    *)
(* the text give it, unless that declaration was made in a block that has   *)
(* ended: only functions, members, prefixes and lambdas have a table.  The  *)
(* fields that tell where the analyser is agree with the text as well.      *)
(***************************************************************************)
ResolvesLexically ==
  /\ ContextMatchesNesting
  /\ AtStatement => \A n \in Names :
       Accepted(n) => Symbol(n).id = Visible(n) \/ decls[Symbol(n).id].closed

(***************************************************************************)
(* Wherever a variable that the text declares nullable may be dereferenced, *)
(* it was compared with null after its own declaration, not another of the  *)
(* same name; but for a parameter of a function or a lambda, of which the   *)
(* analyser forgets the type, and where a block that has ended declared the *)
(* name as well and the analyser holds that one against null.               *)
(***************************************************************************)
DereferenceWasChecked ==
  AtStatement => \A n \in Names :
    MayDereference(n) /\ Visible(n) # 0 =>
      LET d == decls[Visible(n)] IN
      d.nullable /\ ~d.checked => d.kind = "untyped" \/ decls[Symbol(n).id].closed

(***************************************************************************)
(* A variable or a parameter that is reported as unused was not read, by    *)
(* any use of the name in the text that means it: but for one that a nested *)
(* function reads through nonlocal, and one that a construct inside its     *)
(* block, which has ended, hid from later uses by declaring the name again. *)
(***************************************************************************)
WarnedIsUnread ==
  (open # <<>> /\ Top.kind \in {"function", "member"}) =>
    \A s \in Unused :
      LET d == decls[s.id] IN s.scope = "local" /\ d.read => d.nonlocal \/ d.eclipsed
=============================================================================

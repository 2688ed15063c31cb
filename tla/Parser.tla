------------------------------- MODULE Parser -------------------------------
(***************************************************************************)
(* The recursive descent parser of the compiler (internal/parser).         *)
(*                                                                         *)
(* Each parse function is a short sequence of instructions: which tokens   *)
(* it consumes, which functions it calls, where it gives up.  The machine  *)
(* runs these sequences on a stack of calls.  The input is any text of at  *)
(* most MaxTokens tokens: a token is chosen when the lexer is asked for it.*)
(*                                                                         *)
(* A token is its kind.  What depends on the text of a token (is it the    *)
(* saved one, is a name that of the class), on its line (an operator       *)
(* continues an expression on its own line only) or on precedence is a     *)
(* choice; so are the tokens read again after the lexer was set back.  The *)
(* stars of pointers, the marks of nullable types and the verbatim body of *)
(* an assembler function are not among the tokens.                         *)
(***************************************************************************)
EXTENDS Integers, Sequences, TLC

CONSTANTS
    Kinds,          \* the kinds of token the text is made of
    MaxTokens,      \* the length of the text
    MaxStatements   \* the cap of program and function bodies (10000)

ASSUME ParserAssumption == MaxTokens \in Nat /\ MaxStatements \in Nat

VARIABLES
    stack,      \* the running calls, the innermost one last
    cur, peek,  \* the current token and the next one
    left,       \* how many tokens the lexer still has
    ret,        \* what the last call that returned gave
    pending     \* what follows the pub whose attributes wait to be taken

parserVars == <<stack, cur, peek, left, ret, pending>>

-----------------------------------------------------------------------------
(* Instructions.  A test is on the kind of the current token, or on those  *)
(* of the current and the next token.                                      *)

Eat == <<"eat">>                         \* consume the current token
Opt(K) == <<"opt", K>>                   \* consume it if it is in K
But(K) == <<"but", K>>                   \* consume it unless it is in K
EatIfNil(K) == <<"ifnil", K>>            \* after nil, consume unless in K
Sub(f) == <<"sub", f>>                   \* call f
If(K, f) == <<"if", K, f>>               \* call f if cur is in K
Loop(K, f) == <<"loop", K, f>>           \* call f until cur is in K
Jump(f) == <<"jump", f>>                 \* go on as f
When(K, f) == <<"when", K, f>>           \* go on as f if cur is in K
Unless(K, f) == <<"unless", K, f>>       \* go on as f if cur is not in K
Pair(K, P, f) == <<"pair", K, P, f>>     \* go on as f if cur, peek in K, P
On(r, f) == <<"on", r, f>>               \* go on as f if the call gave r
Maybe(f) == <<"maybe", f>>               \* go on as f if the text says so
Same(f) == <<"same", f>>                 \* go on as f if cur is as saved
Return(r) == <<"return", r>>
Remember == <<"save">>                       \* remember cur and peek
Restore == <<"restore">>                 \* set them back; the lexer goes on
Rewind == <<"rewind">>                   \* set them back, and the lexer too
Count == <<"count">>                     \* one more statement of the caller
Take == <<"take">>                       \* take the attributes in front
Pend == <<"pend">>                       \* leave them to what pub introduces
Dispatch == <<"dispatch">>               \* go on as the function cur, peek select

Eof == {"eof"}
Close == {"rc", "eof"}
Name == {"id"}
TypeName == {"id", "ty", "void"}
TypeStart == TypeName \cup {"const", "lb", "lt"}

-----------------------------------------------------------------------------
(* Bodies.  They differ in what they do after a statement that gave nil.   *)

Nothing == <<>>
Node == <<Return("node")>>
Nil == <<Return("nil")>>
Eaten == <<Eat>>
EatenComma == <<Eat, Opt({"comma"})>>
PutBack == <<Restore, Return("nil")>>
PutBackAndSkip == <<Restore, Eat>>

Block(f) == <<Eat, Loop(Close, f), Opt({"rc"})>>
SkippingBlock == Block("StatementOrSkip")
InsideBlock == Block("StatementOrSkipInside")
ThenSkipBlock == Block("StatementThenSkip")
ClauseBlock == Block("StatementOnly")
PrefixBlock == Block("StatementOnly")

\* fault: nothing is consumed after a statement that gave nil
StatementForgets == <<Sub("Statement")>>
StatementOrSkip == <<Sub("Statement"), EatIfNil({})>>
StatementOrSkipInside == <<Sub("Statement"), EatIfNil(Close)>>
StatementThenSkip == <<Sub("Statement"), But({"rc"})>>
StatementOnly == <<Sub("Statement")>>
StatementCounted == <<Sub("Statement"), Count, EatIfNil({})>>

Program == <<Loop(Eof, "ProgramItem")>>
ProgramItem == <<When({"semi"}, "Eaten"), Sub("Statement"), Count, EatIfNil({})>>

-----------------------------------------------------------------------------
(* Statements.                                                             *)

While == <<Eat, Sub("Expression"), If({"lc"}, "SkippingBlock"), Return("node")>>
IfStmt == <<Eat, Sub("Expression"), If({"lc"}, "SkippingBlock"), If({"else"}, "Else"),
            Return("node")>>
Else == <<Eat, When({"if"}, "IfStmt"), When({"lc"}, "InsideBlock")>>
For == <<Pair({"for"}, Name, "ForIn"), Return("nil")>>
ForIn == <<Eat, Eat, Unless({"in"}, "Nil"), Eat, Sub("Expression"),
           If({"lc"}, "InsideBlock"), Return("node")>>
ReturnStmt == <<Eat, Sub("Expression"), Return("node")>>
Leave == <<Eat, Return("node")>>
ExpressionStatement == <<Sub("Expression"), On("nil", "Nil"), Opt({"semi"}), Return("node")>>

Spend == <<Eat, If({"lp"}, "Parenthesised"), If({"lc"}, "SpendBlock"), Return("node")>>
SpendBlock == Block("SpendItem")
SpendItem == <<Unless({"call"}, "Eaten"), Jump("CallClause")>>
CallClause == <<Eat, If({"lp"}, "Parenthesised"), If({"lc"}, "ClauseBlock"), Return("node")>>
CallStmt == <<Eat, If({"lp"}, "Parenthesised"), If({"colon"}, "CallBody"), Return("node")>>
CallBody == <<Eat, Sub("Statement"), If({"lc"}, "ThenSkipBlock")>>
Parenthesised == <<Eat, Sub("Expression"), Opt({"rp"})>>

Prefix == <<Eat, Opt({"id", "str"}), If({"lc"}, "SkippingBlock"), Return("node")>>
AtPrefix == <<Eat, Unless(Name, "Nil"), Eat, If({"lp"}, "PrefixArgs"),
              Unless({"lc"}, "Nil"), Sub("PrefixBlock"), Return("node")>>
NamedPrefix == <<Eat, Sub("PrefixBlock"), Return("node")>>
PrefixArgs == <<Eat, Loop({"rp", "eof"}, "PrefixArg"), Opt({"rp"})>>
PrefixArg == <<Pair(Name, {"assign"}, "ValueComma"), Opt({"comma"})>>
ValueComma == <<Eat, Eat, Sub("Expression"), Opt({"comma"})>>

Tree == <<Take, Eat, If({"lp"}, "Parenthesised"), If({"lc"}, "ThenSkipBlock"), Return("node")>>
Object == <<Eat, Opt(Name), Opt(Name), If({"self"}, "ObjectSelf"),
            If({"assign"}, "Assigned"), Return("node")>>
ObjectSelf == <<Eat, If({"lp"}, "ObjectArgs"), If({"lc"}, "ObjectBlock")>>
ObjectArgs == <<Eat, Loop({"rp"}, "ObjectArg"), Opt({"rp"})>>
ObjectArg == <<Sub("Expression"), Opt({"comma"})>>
ObjectBlock == Block("ObjectField")
ObjectField == <<Unless(Name, "Eaten"), Eat, If({"colon"}, "ObjectValue")>>
ObjectValue == <<Eat, Sub("Expression"), Opt({"comma"})>>
Assigned == <<Eat, Sub("Expression")>>
Yield == <<Eat, Sub("Primary"), On("nil", "Nil"), Opt({"arrow"}), Opt(Name),
           Opt({"semi"}), Return("node")>>
Release == <<Eat, Sub("Primary"), On("nil", "Nil"), Opt({"arrow"}), If({"lb"}, "Holders"),
             Opt({"semi"}), Return("node")>>
Holders == <<Eat, Sub("Names"), Opt({"rb"})>>
Extract == <<Eat, Sub("Primary"), On("nil", "Nil"), If({"lb"}, "ExtractIndex"),
             Opt({"arrow"}), Opt(Name), Opt({"semi"}), Return("node")>>
ExtractIndex == <<Eat, Sub("Primary"), Opt({"rb"})>>
Import == <<Eat, When({"str"}, "Leave"), Sub("ModulePath"), Return("node")>>
ModulePath == <<Unless(TypeName, "Nothing"), Eat, When({"dot"}, "ModuleDot")>>
ModuleDot == <<Eat, Jump("ModulePath")>>

-----------------------------------------------------------------------------
(* Declarations.                                                           *)

VarDecl == <<Take, Sub("TypedName"), On("nil", "Nil"), If({"assign"}, "Assigned"), Return("node")>>
TypedName == <<Pair({"void"}, {"lp"}, "SignatureName"), Pair(Name, {"lt"}, "GenericName"),
               When({"lb"}, "ArrayName"), Pair(TypeName \cup {"object"}, Name, "PlainName"),
               Return("nil")>>
PlainName == <<Eat, Jump("Declared")>>
SignatureName == <<Remember, Sub("TypeForDecl"), Unless(Name, "Undeclared"), Jump("Declared")>>
GenericName == <<Remember, Eat, Sub("GenericArgs"), Unless(Name, "Undeclared"), Jump("Declared")>>
ArrayName == <<Remember, Sub("ArraySize"), Unless(TypeName, "Undeclared"), Eat,
               Unless(Name, "Undeclared"), Eat, Return("node")>>
Declared == <<Eat, If({"lb"}, "ArraySize"), Return("node")>>
Undeclared == <<Rewind, Return("nil")>>
DeclarationOrExpression == <<Sub("VarDecl"), On("node", "Node"), Jump("ExpressionStatement")>>
ArraySize == <<Eat, Opt({"lit", "big", "id"}), Opt({"rb"})>>
AutoDecl == <<Take, Eat, Unless(Name, "Nil"), Eat, Unless({"assign"}, "Nil"),
          Sub("Assigned"), Return("node")>>
Const == <<Eat, Pair(Name, {"assign"}, "ConstValue"), Take, Sub("TypedName"),
           On("nil", "Nil"), Unless({"assign"}, "Nil"), Jump("Assigned")>>
ConstValue == <<Eat, Sub("Assigned"), Return("node")>>
NonLocal == <<Eat, Opt(TypeName), Opt(TypeName), If({"assign"}, "Assigned"), Return("node")>>
Static == <<Eat, Jump("VarDecl")>>
Extern == <<Eat, When({"fn"}, "ExternFn"), Unless(Name, "Nil"), Eat,
            Unless({"colon"}, "Nil"), Eat, Jump("TypeString")>>
ExternFn == <<Eat, Unless(Name, "Nil"), Eat, Unless({"lp"}, "Nil"), Eat,
              Sub("ExternParams"), On("nil", "Nil"), Eat, When({"arrow"}, "ExternResult"),
              Return("node")>>
ExternParams == <<When({"rp"}, "Node"), Unless(Name, "Nil"), Eat, Unless({"colon"}, "Nil"),
                  Eat, Sub("TypeForDecl"), On("nil", "Nil"), Opt({"comma"}),
                  Jump("ExternParams")>>
ExternResult == <<Eat, Jump("TypeForDecl")>>

TypeString == <<Unless(TypeStart, "Nil"), Sub("TypeParts"), On("nil", "Node"),
                If(TypeName, "TypeString"), Return("node")>>
TypeForDecl == <<Unless(TypeStart, "Nil"), Sub("TypeParts"), Return("node")>>
TypeParts == <<Pair({"void"}, {"lp"}, "Signature"), When(TypeName \cup {"const"}, "TypeWord"),
               When({"lb"}, "ArrayType"), When({"lt"}, "TypeArgs"), Return("nil")>>
TypeWord == <<Eat, Jump("TypeParts")>>
ArrayType == <<Eat, Opt({"lit", "big"}), Opt({"rb"}), Jump("TypeParts")>>
Signature == <<Eat, Eat, Loop({"rp", "eof"}, "TypeArg"), Opt({"rp"}), Return("node")>>
TypeArgs == <<Eat, Loop({"gt", "eof"}, "TypeArg"), Opt({"gt"}),
              When({"id", "comma", "rp", "semi", "eof", "lc"}, "Nil"), Jump("TypeParts")>>
TypeArg == <<Sub("TypeString"), Opt({"comma"})>>
GenericArgs == <<Eat, Sub("ArgNames"), Opt({"gt"})>>
ArgNames == <<Unless(TypeName, "Nothing"), Eat, When({"gt"}, "Nothing"), Opt({"comma"}),
              Jump("ArgNames")>>
TypeParams == <<Eat, Sub("ParamNames"), Opt({"gt"})>>
ParamNames == <<Unless(Name, "Nothing"), Eat, When({"gt"}, "Nothing"), Opt({"comma"}),
                Jump("ParamNames")>>
TypeAlias == <<Eat, Unless(Name, "Nil"), Eat, If({"lt"}, "TypeParams"), When({"assign"}, "AliasOf"),
               Unless(Name, "Nil"), Maybe("Nil"), Eat, If({"lp"}, "FuncType"),
               Sub("TypeString"), Return("node")>>
AliasOf == <<Eat, Sub("TypeString"), Return("node")>>
FuncType == <<Eat, Loop({"rp", "eof"}, "FuncTypeParam"), Opt({"rp"})>>
FuncTypeParam == <<Sub("TypeString"), Opt({"comma"})>>

Function == <<Take, Eat, Opt(Name), If({"lt"}, "TypeParams"), If({"lp"}, "Params"),
              Opt({"arrow"}), Opt(TypeName), Opt({"colon"}), Unless({"lc"}, "Node"),
              Sub("FunctionBlock"), Return("node")>>
FunctionBlock == Block("StatementCounted")
Params == <<Eat, Loop({"rp", "eof"}, "Param"), Opt({"rp"})>>
Param == <<Remember, Pair(Name, {"colon"}, "TypedParam"), If(TypeName, "NamedParam"),
           Same("EatenComma"), Opt({"comma"})>>
TypedParam == <<Eat, Eat, Sub("TypeForDecl"), Opt({"comma"})>>
NamedParam == <<Eat, If({"lt"}, "TypeForDecl"), Opt(Name)>>

Struct == <<Take, Eat, Opt(Name), If({"lt"}, "TypeParams"), If({"lc"}, "StructFields"),
            Opt({"rc"}), Return("node")>>
StructFields == <<Eat, Loop(Close, "StructField")>>
StructField == <<Sub("Field"), EatIfNil({})>>
Field == <<Remember, Unless(Name, "Nil"), Eat, Unless({"colon"}, "PutBack"), Eat,
           Opt({"const"}), If({"lb"}, "ArraySize"), Unless(TypeName, "PutBack"), Eat,
           If({"colon"}, "BitWidth"), Opt({"semi", "comma"}), Return("node")>>
BitWidth == <<Eat, Opt({"lit", "big"})>>
Enum == <<Take, Eat, Opt(Name), If({"lt"}, "TypeParams"), If({"lc"}, "EnumBlock"), Return("node")>>
EnumBlock == Block("Variant")
Variant == <<Unless(Name, "Eaten"), Eat, If({"lp"}, "Skimmed"), Opt({"comma"})>>
Skimmed == <<Eat, Loop({"rp", "eof"}, "Eaten"), Opt({"rp"})>>

Class == <<Eat, Opt(Name), If({"lt"}, "TypeParams"), If({"implements"}, "Implements"),
           If({"lc"}, "ClassBody"), Return("node")>>
Implements == <<Eat, Jump("Names")>>
Names == <<Unless(Name, "Nothing"), Eat, Opt({"comma"}), Jump("Names")>>
ClassBody == <<Eat, Loop(Close, "ClassItem")>>
ClassItem == <<When(TypeName, "Member"), When({"fn"}, "FnMember"),
               When({"ctor"}, "CtorMember"), Eat>>
Member == <<Remember, Sub("Field"), On("node", "Nothing"), Restore, Sub("Method"),
            On("node", "Nothing"), Restore, Maybe("NamedCtor"), Eat>>
NamedCtor == <<Sub("Ctor"), On("node", "Nothing"), Eat>>
Method == <<Remember, Unless(TypeName, "PutBack"), Pair(Name, {"lp"}, "NamedMethod"), Eat,
            Unless(Name, "PutBack"), Eat, When({"rp"}, "ClosedMethod"),
            Unless({"lp"}, "LateMethod"), Eat, Sub("MethodParams"), On("nil", "PutBack"),
            Eat, Jump("MethodBody")>>
NamedMethod == <<Eat, Eat, Sub("MethodParams"), On("nil", "PutBack"), Eat, Opt({"arrow"}),
                 Opt(TypeName), Jump("MethodBody")>>
ClosedMethod == <<Eat, When({"lc"}, "MethodBody"), Jump("LateParams")>>
LateMethod == <<Pair(Kinds, {"lp"}, "LateName"), Jump("PutBack")>>
LateName == <<Eat, Jump("LateParams")>>
LateParams == <<Eat, Sub("MethodParams"), On("nil", "PutBack"), Eat, Jump("MethodBody")>>
MethodBody == <<When({"semi"}, "Leave"), Unless({"lc"}, "PutBack"), Sub("InsideBlock"),
                Return("node")>>
MethodParams == <<When({"rp"}, "Node"), Unless(TypeName, "Nil"), Eat, Unless(Name, "Nil"),
                  Eat, Opt({"comma"}), Jump("MethodParams")>>
ParamList == <<Eat, Sub("MethodParams"), Opt({"rp"})>>
FnMember == <<Remember, Eat, Unless(Name, "PutBackAndSkip"), Eat,
              Unless({"lp"}, "PutBackAndSkip"), Sub("ParamList"), Opt(TypeName),
              When({"semi"}, "Eaten"), Unless({"lc"}, "PutBackAndSkip"),
              Sub("InsideBlock")>>
CtorMember == <<Remember, Eat, Unless({"id", "lp"}, "PutBackAndSkip"), Sub("Ctor"),
                On("nil", "PutBackAndSkip")>>
Ctor == <<Unless({"id", "lp"}, "Nil"), Opt(Name), Opt({"lp"}), Sub("MethodParams"),
          Opt({"rp"}), Unless({"lc"}, "Nil"), Sub("InsideBlock"), Return("node")>>

Interface == <<Eat, Opt(Name), If({"lc"}, "InterfaceBlock"), Return("node")>>
InterfaceBlock == Block("InterfaceItem")
InterfaceItem == <<When({"fn"}, "FnSignature"), When(TypeName, "BareSignature"), Eat>>
FnSignature == <<Remember, Eat, Unless(Name, "PutBackAndSkip"), Eat,
                 Unless({"lp"}, "PutBackAndSkip"), Sub("ParamList"), Opt(TypeName),
                 When({"semi"}, "Eaten"), When({"rc"}, "Nothing"), Restore, Eat>>
BareSignature == <<Remember, Sub("Method"), On("node", "Nothing"), Restore, Eat>>

AttributedPub == <<Eat, Pend, Jump("Pub")>>
AttributedVar == <<Maybe("ExpressionStatement"), Jump("VarDecl")>>
Pub == <<Eat, When({"fn"}, "Function"), When({"struct"}, "Struct"), When({"class"}, "Class"),
         When(TypeName \cup {"auto"}, "VarDecl"), Eat, Return("nil")>>
Export == <<Eat, When({"fn"}, "Function"), When({"struct"}, "Struct"),
            When({"class"}, "Class"), When({"const"}, "Const"), When({"object"}, "Object"),
            When({"ty", "void", "auto"}, "VarDecl"),
            Pair(Name, TypeName \cup {"auto"}, "VarDecl"), Opt(Name), Return("node")>>

-----------------------------------------------------------------------------
(* Expressions.                                                            *)

Expression == <<Sub("Primary"), On("nil", "Nil"), Sub("Operators"), Return("node")>>
Operators == <<Unless({"op", "assign", "lt", "gt"}, "Nothing"), Maybe("Nothing"), Remember, Eat,
               Same("Nothing"), Sub("Expression"), On("nil", "Nothing"), Jump("Operators")>>
Unary == <<Eat, Sub("Primary"), On("nil", "Nil"), Return("node")>>
Identifier == <<Eat, Jump("Postfix")>>
Postfix == <<When({"dot"}, "Selected"), When({"lb"}, "Index"), Jump("Applied")>>
Selected == <<Eat, Unless(TypeName, "Applied"), Eat, When({"lp", "lt"}, "Applied"), Jump("Postfix")>>
Applied == <<When({"lp"}, "Arguments"), Pair({"lt"}, TypeName \ Name, "GenericCall"),
             Pair({"lt"}, Name, "GenericOrLess"), Return("node")>>
GenericOrLess == <<Maybe("GenericCall"), Return("node")>>
GenericCall == <<Sub("GenericArgs"), Unless({"lp"}, "Nil"), Jump("Arguments")>>
Index == <<Eat, Sub("Expression"), Opt({"rb"}), Jump("Postfix")>>
Arguments == <<Eat, Loop({"rp", "eof", "comma", "rc"}, "Argument"), Opt({"rp"}),
               Return("node")>>
Argument == <<Remember, Sub("ArgumentValue"), Same("EatenComma"), Opt({"comma"})>>
ArgumentValue == <<Pair(Name, {"colon"}, "NamedArgument"), Jump("Expression")>>
NamedArgument == <<Eat, Eat, Jump("Expression")>>
Grouped == <<Eat, Sub("Expression"), Opt({"rp"})>>
Array == <<Eat, Loop({"rb", "eof"}, "Element"), Opt({"rb"}), Return("node")>>
Element == <<Sub("Expression"), But({"rb"})>>
SizeOf == <<Eat, Unless({"lp"}, "Nil"), Eat, Sub("TypeString"), On("nil", "Nil"),
            Unless({"rp"}, "Nil"), Eat, Return("node")>>
Cast == <<Eat, Unless({"lt"}, "Nil"), Eat, Sub("TypeForDecl"), On("nil", "Nil"),
          Unless({"gt"}, "Nil"), Eat, Unless({"lp"}, "Nil"), Eat, Sub("Expression"),
          On("nil", "Nil"), Unless({"rp"}, "Nil"), Eat, Return("node")>>
Comptime == <<Eat, Jump("Expression")>>
StructLiteral == <<Eat, Loop(Close, "LiteralField"), Opt({"rc"}), Return("node")>>
LiteralField == <<Unless({"dot"}, "Eaten"), Eat, If(Name, "FieldValue")>>
FieldValue == <<Eat, If({"assign"}, "Assigned")>>
ObjectLiteral == <<Eat, When({"lp"}, "EmptyObject"), Unless({"lc"}, "Node"), Eat,
                   Loop(Close, "NamedValue"), Opt({"rc"}), Return("node")>>
EmptyObject == <<Eat, Opt({"rp"}), Return("node")>>
NamedValue == <<Unless(Name, "Eaten"), Eat, If({"colon"}, "Assigned")>>

Lambda == <<Eat, If({"lp"}, "LambdaParams"), When({"arrow"}, "TypedLambda"),
            Pair(TypeName, {"lc"}, "TypedLambda"), Jump("LambdaBody")>>
TypedLambda == <<Opt({"arrow"}), Opt(TypeName), Jump("LambdaBody")>>
LambdaBody == <<If({"lc"}, "SkippingBlock"), Return("node")>>
LambdaParams == <<Eat, Loop({"rp", "eof"}, "LambdaParam"), Opt({"rp"})>>
LambdaParam == <<Unless(TypeName, "EatenComma"), Eat, Opt(Name), If({"colon"}, "LambdaType"),
                 Opt({"comma"})>>
LambdaType == <<Eat, Opt(TypeName)>>

Match == <<Eat, Sub("MatchTarget"), If({"lc"}, "MatchBlock"), Return("node")>>
MatchTarget == <<When({"lp"}, "Parenthesised"), When({"lc", "eof"}, "Nothing"),
                 Jump("Expression")>>
MatchBlock == Block("ArmOrSkip")
ArmOrSkip == <<Sub("Arm"), EatIfNil({})>>
Arm == <<Sub("Pattern"), On("nil", "Nil"), Unless({"arrow"}, "Nil"), Eat, Sub("ArmBody"),
         Return("node")>>
Pattern == <<When({"lit", "big", "str"}, "Leave"), Unless(Name, "Nil"), Eat, Maybe("Node"),
             If({"lp"}, "Skimmed"), Return("node")>>
ArmStart == Name \cup {"lit", "big", "str"}
ArmBody == <<When(Close, "Nothing"), Pair(ArmStart, {"arrow"}, "Nothing"),
             When({"lc"}, "ArmBlock"), Sub("Statement"), On("nil", "Nothing"),
             When({"comma"}, "Eaten"), Jump("ArmBody")>>
ArmBlock == <<Eat, Sub("ArmStatements"), Opt({"rc"}), When({"comma"}, "Eaten"),
              Jump("ArmBody")>>
ArmStatements == <<When(Close, "Nothing"), Pair(ArmStart, {"arrow"}, "Nothing"),
                   Sub("Statement"), EatIfNil({}), Jump("ArmStatements")>>

Statement == <<Dispatch>>
Primary == <<Dispatch>>

-----------------------------------------------------------------------------
(* The function that the current and the next token select.                *)

StatementWord ==
    [spend |-> "Spend", call |-> "CallStmt", prefix |-> "Prefix", tree |-> "Tree",
     object |-> "Object", fn |-> "Function", class |-> "Class", struct |-> "Struct",
     interface |-> "Interface", enum |-> "Enum", type |-> "TypeAlias", auto |-> "Auto",
     yield |-> "Yield", release |-> "Release", extract |-> "Extract", if |-> "IfStmt",
     while |-> "While", for |-> "For", return |-> "ReturnStmt", break |-> "Leave",
     import |-> "Import", export |-> "Export", pub |-> "Pub", extern |-> "Extern",
     static |-> "Static", const |-> "Const", nonlocal |-> "NonLocal", ty |-> "VarDecl",
     void |-> "VarDecl", lb |-> "DeclarationOrExpression", at |-> "AtPrefix", ctor |-> "Nil", semi |-> "Nil", rc |-> "Nil"]

Attributed ==
    [pub |-> "AttributedPub", fn |-> "Function", struct |-> "Struct", enum |-> "Enum",
     type |-> "TypeAlias", auto |-> "Auto", tree |-> "Tree", ty |-> "AttributedVar",
     void |-> "AttributedVar", id |-> "AttributedVar"]

StatementOf(c, p) ==
    CASE c = "attr" /\ p \in DOMAIN Attributed -> Attributed[p]
      [] c = "prefix" /\ p = "dot" -> "Nil"
      [] c = "object" /\ p \in {"lc", "lp"} -> "ExpressionStatement"
      [] c = "fn" /\ p = "lp" -> "ExpressionStatement"
      [] c \in {"id", "object"} /\ p = "id" -> "VarDecl"
      [] c = "id" /\ p = "lt" -> "DeclarationOrExpression"
      [] c = "id" /\ p = "lc" -> "NamedPrefix"
      [] OTHER -> IF c \in DOMAIN StatementWord THEN StatementWord[c]
                  ELSE "ExpressionStatement"

PrimaryWord ==
    [id |-> "Identifier", lit |-> "Leave", str |-> "Leave", attr |-> "Leave",
     big |-> "Node", far |-> "Node", lp |-> "Grouped", lb |-> "Array", op |-> "Unary",
     sizeof |-> "SizeOf", comptime |-> "Comptime", match |-> "Match",
     object |-> "ObjectLiteral", lc |-> "StructLiteral", self |-> "Identifier",
     as |-> "Cast", fn |-> "Nil", rc |-> "Nil", dot |-> "Nil", assign |-> "Nil",
     lt |-> "Nil", gt |-> "Nil", rp |-> "Nil", comma |-> "Nil"]

PrimaryOf(c, p) ==
    IF c = "fn" /\ p = "lp" THEN "Lambda"
    ELSE IF c \in DOMAIN PrimaryWord THEN PrimaryWord[c] ELSE "Unexpected"
Unexpected == <<Eat, Return("nil")>>

Code ==
    [Nothing |-> Nothing, Node |-> Node, Nil |-> Nil, Eaten |-> Eaten,
     EatenComma |-> EatenComma, PutBack |-> PutBack,
     PutBackAndSkip |-> PutBackAndSkip, SkippingBlock |-> SkippingBlock,
     InsideBlock |-> InsideBlock, ThenSkipBlock |-> ThenSkipBlock,
     ClauseBlock |-> ClauseBlock, PrefixBlock |-> PrefixBlock,
     StatementOrSkip |-> StatementOrSkip,
     StatementOrSkipInside |-> StatementOrSkipInside,
     StatementThenSkip |-> StatementThenSkip, StatementOnly |-> StatementOnly,
     StatementCounted |-> StatementCounted, Program |-> Program,
     ProgramItem |-> ProgramItem, While |-> While, IfStmt |-> IfStmt,
     Else |-> Else, For |-> For, ForIn |-> ForIn, ReturnStmt |-> ReturnStmt,
     Leave |-> Leave, ExpressionStatement |-> ExpressionStatement,
     Spend |-> Spend, SpendBlock |-> SpendBlock, SpendItem |-> SpendItem,
     CallClause |-> CallClause, CallStmt |-> CallStmt, CallBody |-> CallBody,
     Parenthesised |-> Parenthesised, Prefix |-> Prefix,
     AtPrefix |-> AtPrefix, NamedPrefix |-> NamedPrefix,
     PrefixArgs |-> PrefixArgs, PrefixArg |-> PrefixArg,
     ValueComma |-> ValueComma, Tree |-> Tree, Object |-> Object,
     ObjectSelf |-> ObjectSelf, ObjectArgs |-> ObjectArgs,
     ObjectArg |-> ObjectArg, ObjectBlock |-> ObjectBlock,
     ObjectField |-> ObjectField, ObjectValue |-> ObjectValue,
     Assigned |-> Assigned, Yield |-> Yield, Release |-> Release,
     Holders |-> Holders, Extract |-> Extract, ExtractIndex |-> ExtractIndex,
     Import |-> Import, ModulePath |-> ModulePath, ModuleDot |-> ModuleDot,
     VarDecl |-> VarDecl, TypedName |-> TypedName, PlainName |-> PlainName,
     SignatureName |-> SignatureName, GenericName |-> GenericName,
     ArrayName |-> ArrayName, Declared |-> Declared, Undeclared |-> Undeclared,
     DeclarationOrExpression |-> DeclarationOrExpression, ArraySize |-> ArraySize,
     Auto |-> AutoDecl, Const |-> Const, ConstValue |-> ConstValue,
     NonLocal |-> NonLocal, Static |-> Static,
     Extern |-> Extern, ExternFn |-> ExternFn, ExternParams |-> ExternParams,
     ExternResult |-> ExternResult, TypeString |-> TypeString,
     TypeForDecl |-> TypeForDecl, TypeParts |-> TypeParts, TypeWord |-> TypeWord,
     ArrayType |-> ArrayType, Signature |-> Signature, TypeArgs |-> TypeArgs,
     TypeArg |-> TypeArg, GenericArgs |-> GenericArgs, ArgNames |-> ArgNames,
     TypeParams |-> TypeParams, ParamNames |-> ParamNames, TypeAlias |-> TypeAlias, AliasOf |-> AliasOf,
     FuncType |-> FuncType, FuncTypeParam |-> FuncTypeParam,
     Function |-> Function, FunctionBlock |-> FunctionBlock,
     Params |-> Params, Param |-> Param, TypedParam |-> TypedParam,
     NamedParam |-> NamedParam, Struct |-> Struct,
     StructFields |-> StructFields, StructField |-> StructField,
     Field |-> Field, BitWidth |-> BitWidth, Enum |-> Enum,
     EnumBlock |-> EnumBlock, Variant |-> Variant, Skimmed |-> Skimmed,
     Class |-> Class, Implements |-> Implements, Names |-> Names,
     ClassBody |-> ClassBody, ClassItem |-> ClassItem, Member |-> Member,
     NamedCtor |-> NamedCtor, Method |-> Method, NamedMethod |-> NamedMethod,
     ClosedMethod |-> ClosedMethod, LateMethod |-> LateMethod,
     LateName |-> LateName, LateParams |-> LateParams,
     MethodBody |-> MethodBody, MethodParams |-> MethodParams,
     ParamList |-> ParamList, FnMember |-> FnMember,
     CtorMember |-> CtorMember, Ctor |-> Ctor, Interface |-> Interface,
     InterfaceBlock |-> InterfaceBlock, InterfaceItem |-> InterfaceItem,
     FnSignature |-> FnSignature, BareSignature |-> BareSignature,
     AttributedPub |-> AttributedPub, AttributedVar |-> AttributedVar,
     Pub |-> Pub, Export |-> Export, Expression |-> Expression,
     Operators |-> Operators,
     Unary |-> Unary, Identifier |-> Identifier,
     Postfix |-> Postfix, Selected |-> Selected, Applied |-> Applied,
     GenericOrLess |-> GenericOrLess, GenericCall |-> GenericCall, Index |-> Index,
     Arguments |-> Arguments, Argument |-> Argument,
     ArgumentValue |-> ArgumentValue, NamedArgument |-> NamedArgument,
     Grouped |-> Grouped, Array |-> Array, Element |-> Element,
     SizeOf |-> SizeOf, Cast |-> Cast, Comptime |-> Comptime,
     StructLiteral |-> StructLiteral, LiteralField |-> LiteralField,
     FieldValue |-> FieldValue, ObjectLiteral |-> ObjectLiteral,
     EmptyObject |-> EmptyObject, NamedValue |-> NamedValue,
     Lambda |-> Lambda, TypedLambda |-> TypedLambda, LambdaBody |-> LambdaBody,
     LambdaParams |-> LambdaParams,
     LambdaParam |-> LambdaParam, LambdaType |-> LambdaType, Match |-> Match,
     MatchTarget |-> MatchTarget, MatchBlock |-> MatchBlock,
     ArmOrSkip |-> ArmOrSkip, Arm |-> Arm, Pattern |-> Pattern,
     ArmBody |-> ArmBody, ArmBlock |-> ArmBlock,
     ArmStatements |-> ArmStatements, Statement |-> Statement,
     Primary |-> Primary, Unexpected |-> Unexpected]

-----------------------------------------------------------------------------
(* The machine.                                                            *)

NoPub == "none"
Frame(f) == [f |-> f, pc |-> 1, n |-> 0, save |-> <<>>]
Top == stack[Len(stack)]
Instr == Code[Top.f][Top.pc]
Running == stack # <<>> /\ Top.pc <= Len(Code[Top.f])
At(op) == Running /\ Instr[1] = op

Below == SubSeq(stack, 1, Len(stack) - 1)
Continue(frame) == stack' = Append(Below, frame)
Past == [Top EXCEPT !.pc = @ + 1]
GoOn(f) == [Top EXCEPT !.f = f, !.pc = 1]
Call(frame, f) == stack' = Below \o <<frame, Frame(f)>>

ParserInit ==
    /\ stack = <<Frame("Program")>>
    /\ cur \in Kinds \cup {"eof"}
    /\ peek \in IF cur = "eof" THEN {"eof"} ELSE Kinds \cup {"eof"}
    /\ left = IF peek = "eof" THEN 0 ELSE MaxTokens - 2
    /\ ret = "nil"
    /\ pending = NoPub

\* fault: the end of the text is not noticed
NextTokenPastEnd ==
    /\ cur' = peek
    /\ peek' \in IF left = 0 THEN {"eof"} ELSE Kinds \cup {"eof"}
    /\ left' = left - 1

NextToken ==
    /\ cur' = peek
    /\ peek' \in IF left = 0 THEN {"eof"} ELSE Kinds \cup {"eof"}
    /\ left' = IF peek' = "eof" THEN 0 ELSE left - 1

Consumes(i) ==
    \/ i[1] = "eat"
    \/ i[1] = "opt" /\ cur \in i[2]
    \/ i[1] = "but" /\ cur \notin i[2]
    \/ i[1] = "ifnil" /\ ret = "nil" /\ cur \notin i[2]

Consume ==
    /\ Running /\ Instr[1] \in {"eat", "opt", "but", "ifnil"}
    /\ IF Consumes(Instr) THEN NextToken ELSE UNCHANGED <<cur, peek, left>>
    /\ Continue(Past)
    /\ UNCHANGED <<ret, pending>>

Calls ==
    /\ Running /\ Instr[1] \in {"sub", "if"}
    /\ IF Instr[1] = "sub" THEN Call(Past, Instr[2])
       ELSE IF cur \in Instr[2] THEN Call(Past, Instr[3]) ELSE Continue(Past)
    /\ UNCHANGED <<cur, peek, left, ret, pending>>

Iterate ==
    /\ At("loop")
    /\ IF cur \in Instr[2] \/ Top.n > MaxStatements THEN Continue(Past)
       ELSE Call(Top, Instr[3])
    /\ UNCHANGED <<cur, peek, left, ret, pending>>

(* Some token was read since the tokens were saved.                        *)
Moved == Top.save # <<cur, peek, left>>

(* Kinds whose tokens have different texts.                                *)
Texts == {"id", "ty", "lit", "big", "far", "str", "op"}

Jumps(i) ==
    \/ i[1] = "jump"
    \/ i[1] = "when" /\ cur \in i[2]
    \/ i[1] = "unless" /\ cur \notin i[2]
    \/ i[1] = "pair" /\ cur \in i[2] /\ peek \in i[3]
    \/ i[1] = "on" /\ ret = i[2]
    \/ i[1] = "maybe"
    \/ i[1] = "same" /\ cur = Top.save[1]

Stays(i) ==
    \/ ~ Jumps(i)
    \/ i[1] = "maybe"
    \/ i[1] = "same" /\ cur \in Texts /\ Moved

Branch ==
    /\ Running /\ Instr[1] \in {"jump", "when", "unless", "pair", "on", "maybe", "same"}
    /\ \/ Jumps(Instr) /\ Continue(GoOn(Instr[Len(Instr)]))
       \/ Stays(Instr) /\ Continue(Past)
    /\ UNCHANGED <<cur, peek, left, ret, pending>>

Select ==
    /\ At("dispatch")
    /\ Continue(GoOn(IF Top.f = "Statement" THEN StatementOf(cur, peek)
                     ELSE PrimaryOf(cur, peek)))
    /\ UNCHANGED <<cur, peek, left, ret, pending>>

GiveBack ==
    /\ stack # <<>>
    /\ Running => Instr[1] = "return"
    /\ stack' = Below
    /\ ret' = IF Running THEN Instr[2] ELSE ret
    /\ UNCHANGED <<cur, peek, left, pending>>

SaveTokens ==
    /\ At("save")
    /\ Continue([Past EXCEPT !.save = <<cur, peek, left>>])
    /\ UNCHANGED <<cur, peek, left, ret, pending>>

RestoreTokens ==
    /\ Running /\ Instr[1] \in {"restore", "rewind"}
    /\ cur' = Top.save[1] /\ peek' = Top.save[2]
    /\ left' = IF Instr[1] = "rewind" THEN Top.save[3] ELSE left
    /\ Continue(Past)
    /\ UNCHANGED <<ret, pending>>

CountStatement ==
    /\ At("count")
    /\ LET caller == Len(stack) - 1
           n == stack[caller].n + (IF ret = "node" THEN 1 ELSE 0)
       IN  stack' = [stack EXCEPT ![caller].n = n, ![Len(stack)].pc = @ + 1]
    /\ UNCHANGED <<cur, peek, left, ret, pending>>

\* fault: the waiting attributes are read and not cleared
TakeAndKeep ==
    /\ At("take")
    /\ Continue(Past)
    /\ IF cur = "attr" THEN NextToken ELSE UNCHANGED <<cur, peek, left>>
    /\ UNCHANGED <<ret, pending>>

TakeAttributes ==
    /\ At("take")
    /\ Continue(Past)
    /\ IF cur = "attr" THEN NextToken /\ UNCHANGED pending
       ELSE pending' = NoPub /\ UNCHANGED <<cur, peek, left>>
    /\ UNCHANGED ret

KeepAttributes ==
    /\ At("pend")
    /\ Continue(Past)
    /\ pending' = peek
    /\ UNCHANGED <<cur, peek, left, ret>>

Done == stack = <<>>
Ended == Done /\ UNCHANGED parserVars

ParserStep ==
    \/ Consume \/ Calls \/ Iterate \/ Branch \/ Select \/ GiveBack
    \/ SaveTokens \/ RestoreTokens \/ CountStatement \/ TakeAttributes \/ KeepAttributes

ParserNext == ParserStep \/ Ended

ParserSpec == ParserInit /\ [][ParserNext]_parserVars /\ WF_parserVars(ParserStep)

-----------------------------------------------------------------------------
ParserTypeOK ==
    /\ \A i \in DOMAIN stack :
          /\ stack[i].f \in DOMAIN Code
          /\ stack[i].pc \in 1..Len(Code[stack[i].f]) + 1
          /\ stack[i].n \in 0..MaxStatements + 1
    /\ {cur, peek} \subseteq Kinds \cup {"eof"}
    /\ left \in 0..MaxTokens
    /\ ret \in {"nil", "node"}
    /\ pending \in Kinds \cup {"eof", NoPub}

(* Some running call is in a loop over f.                                  *)
LoopsOver(f) == \E i \in DOMAIN stack :
    /\ stack[i].pc <= Len(Code[stack[i].f])
    /\ Code[stack[i].f][stack[i].pc][1] = "loop"
    /\ Code[stack[i].f][stack[i].pc][3] = f

(* The loops that do not move on by themselves: the bodies of a call       *)
(* clause and of a prefix call, the arguments of a prefix call, the list   *)
(* of an object statement, the parameters of a function type, and those in *)
(* the brackets of a type, void( and <.                                    *)
BareLoops == {"StatementOnly", "PrefixArg", "ObjectArg", "FuncTypeParam", "TypeArg"}

(* Parsing ends: what the comments beside the recovery code promise         *)
(* (parser.go:4054) and zz_hang_test.go tests for.  It does not always:    *)
(* Kinds = {"id", "semi", "lc", "rc", "at"} has texts of five tokens that   *)
(* end in one of the BareLoops.  EndsOrStays is what is left of it.        *)
Terminates == <>Done

(* Whatever the text, parsing ends, unless it stays for ever in one of the *)
(* bare loops, or at an integer literal that does not fit 64 bits or a     *)
(* float literal out of range, which give a node and are not consumed:     *)
(* every other loop, error path and restored token is paid for by a token  *)
(* consumed.                                                               *)
EndsOrStays == <>Done \/ <>[](\E f \in BareLoops : LoopsOver(f)) \/ <>[](cur \in {"big", "far"})

(* When a statement begins, the attributes written in front of a pub       *)
(* function, structure or variable have been taken by it and are not kept  *)
(* for the next declaration.  (Those of a pub class, or of a word pub does *)
(* not know, are.)                                                         *)
AttributesTaken ==
    At("dispatch") /\ Top.f = "Statement" =>
        pending \notin {"fn", "struct", "auto"} \cup TypeName
=============================================================================

------------------------------ MODULE Parsing ------------------------------
(***************************************************************************)
(* The parser: tokens into a syntax tree.                                  *)
(*                                                                         *)
(* A node is a record with its kind.  A parsing function of the source is  *)
(* an operator of the tokens and the position it begins at; it gives what  *)
(* it read, `n', and the position after it, `i', which is 0 once an error  *)
(* has been reported (the process ends there).  What the functions share   *)
(* besides is the context c: the tokens, the kind of token that Consume    *)
(* leaves alone and whether a class is being read.                         *)
(*                                                                         *)
(* Types are read and left out of the tree.                                *)
(***************************************************************************)
EXTENDS Integers, Sequences, SequencesExt, FiniteSetsExt

(* The levels of precedence, and the tokens between operands by level. *)
Precedence ==
  [LOWEST |-> 0, ASSIGN |-> 1, CONDITION |-> 2, OR |-> 3, AND |-> 4, BIT_OR |-> 5, BIT_XOR |-> 6, BIT_AND |-> 7,
   EQUAL |-> 8, COMPARE |-> 9, BIT_SHIFT |-> 10, ADD_PLUS |-> 11, MUL_DIV_MOD |-> 12, PREFIX |-> 13, INFIX |-> 14,
   POSTFIX |-> 15]

Assignments == {"=", "+=", "-=", "*=", "/=", "%=", "&=", "|=", "^=", "<<=", ">>="}

PrecedenceOf(kind) ==
  CASE kind \in Assignments -> Precedence.ASSIGN
    [] kind = "?" -> Precedence.CONDITION
    [] kind = "||" -> Precedence.OR
    [] kind = "&&" -> Precedence.AND
    [] kind = "|" -> Precedence.BIT_OR
    [] kind = "^" -> Precedence.BIT_XOR
    [] kind = "&" -> Precedence.BIT_AND
    [] kind \in {"==", "!="} -> Precedence.EQUAL
    [] kind \in {"<", "<=", ">", ">="} -> Precedence.COMPARE
    [] kind \in {"<<", ">>"} -> Precedence.BIT_SHIFT
    [] kind \in {"+", "-"} -> Precedence.ADD_PLUS
    [] kind \in {"*", "/", "%"} -> Precedence.MUL_DIV_MOD
    [] kind \in {"[", "(", ".", "!"} -> Precedence.INFIX
    [] kind \in {"++", "--"} -> Precedence.POSTFIX
    [] OTHER -> Precedence.LOWEST

(* Only these levels associate to the right. *)
RightToLeft == {Precedence.ASSIGN, Precedence.PREFIX}

Null == [kind |-> "NULL"]

Ident(name) == [kind |-> "IDENTIFIER", literal |-> name]
Literal(value) == [kind |-> "LITERAL", value |-> value]
NullLiteral == Literal(<<"null">>)
Infix(op, left, right) == [kind |-> "INFIX", op |-> op, left |-> left, right |-> right]
Prefix(op, right) == [kind |-> "PREFIX", op |-> op, right |-> right]
Postfix(op, left) == [kind |-> "POSTFIX", op |-> op, left |-> left]
Condition(cond, yes, no) == [kind |-> "CONDITION", condition |-> cond, trueBranch |-> yes, falseBranch |-> no]
Call(callee, arguments) == [kind |-> "CALL", callee |-> callee, arguments |-> arguments]
Array(elements) == [kind |-> "ARRAY", elements |-> elements]
ExprStmt(expr) == [kind |-> "EXPR", expr |-> expr]
Scope(stmts) == [kind |-> "SCOPE", stmts |-> stmts]
If(cond, then, else) == [kind |-> "IF", condition |-> cond, thenBranch |-> then, elseBranch |-> else]
While(cond, body, increment) == [kind |-> "WHILE", condition |-> cond, body |-> body, increment |-> increment]
Return(expr) == [kind |-> "RETURN", expr |-> expr]
Var(permission, variables) == [kind |-> "VAR", permission |-> permission, variables |-> variables]
Function(name, parameters, body) == [kind |-> "FUNCTION", name |-> name, parameters |-> parameters, body |-> body]

-----------------------------------------------------------------------------
(* Tokens. *)

Failed == [n |-> Null, i |-> 0]
Read(node, i) == IF i = 0 THEN Failed ELSE [n |-> node, i |-> i]

(* What follows something read; nothing does after an error. *)
Then(read, Rest(_)) == IF read.i = 0 THEN Failed ELSE Rest(read)

(* GetCurToken: the last token again beyond the end. *)
TokenAt(c, i) == c.tokens[IF i \in 1..Len(c.tokens) THEN i ELSE Len(c.tokens)]
KindAt(c, i) == TokenAt(c, i).kind

(* Consume, and IsMatchCurTokenAndStepOnce. *)
Eat(c, i, kind) ==
  IF i = 0 \/ kind = c.skip THEN i ELSE IF KindAt(c, i) = kind THEN i + 1 ELSE 0

Maybe(c, i, kind) == IF i # 0 /\ KindAt(c, i) = kind THEN i + 1 ELSE i

(* The characters of a literal as a name, and as a number. *)
Name(chars) == FoldLeft(LAMBDA l, r : l \o r, "", chars)

DigitChars == <<"0", "1", "2", "3", "4", "5", "6", "7", "8", "9">>
Decimal(chars) ==
  FoldLeft(LAMBDA n, ch : 10 * n + (CHOOSE d \in 0..9 : DigitChars[d + 1] = ch), 0, chars)

NumberOf(chars) ==
  IF "." \notin Range(chars) THEN <<"int", Decimal(chars)>>
  ELSE LET point == CHOOSE k \in 1..Len(chars) : chars[k] = "."
           after == SelectSeq(SubSeq(chars, point + 1, Len(chars)), LAMBDA ch : ch # "f")
       IN  <<"real", Decimal(SubSeq(chars, 1, point - 1) \o after), 10^Len(after)>>

IdentifierAt(c, i) ==
  IF i # 0 /\ KindAt(c, i) = "IDENTIFIER" THEN Read(Ident(Name(TokenAt(c, i).literal)), i + 1) ELSE Failed

(* A type is one token. *)
TypeAfter(c, i) == IF i # 0 /\ KindAt(c, i) = ":" THEN i + 2 ELSE i

VarArg(c, i) ==
  IF KindAt(c, i + 1) # "IDENTIFIER" THEN Read([kind |-> "VAR_ARG", argName |-> ""], i + 1)
  ELSE Then(IdentifierAt(c, i + 1), LAMBDA name : Read([kind |-> "VAR_ARG", argName |-> name.n.literal], name.i))

VarDesc(c, i) ==
  Then(IF i # 0 /\ KindAt(c, i) = "..." THEN VarArg(c, i) ELSE IdentifierAt(c, i),
       LAMBDA name : Read(name.n, TypeAfter(c, name.i)))

(* A list goes on as long as there is a comma. *)
Listed(c, first, More(_)) ==
  Then(first, LAMBDA f : IF KindAt(c, f.i) # "," THEN Read(<<f.n>>, f.i)
                         ELSE Then(More(f.i + 1), LAMBDA rest : Read(<<f.n>> \o rest.n, rest.i)))

(* ... and what comes one after the other, as long as there is more. *)
Followed(first, More(_)) ==
  Then(first, LAMBDA f : Then(More(f.i), LAMBDA rest : Read(<<f.n>> \o rest.n, rest.i)))

RECURSIVE VarDescs(_, _, _)
VarDescs(c, i, stop) ==
  IF i = 0 \/ KindAt(c, i) = stop THEN Read(<<>>, i)
  ELSE Listed(c, VarDesc(c, i), LAMBDA next : VarDescs(c, next, stop))

(* Parameters, after the opening parenthesis. *)
Parameters(c, i) == IF i # 0 /\ KindAt(c, i) = ")" THEN Read(<<>>, i) ELSE VarDescs(c, i, "")

-----------------------------------------------------------------------------
(* Expressions. *)

(* Calls of the functions for expressions, statements and declarations     *)
(* from the functions they call.                                           *)
ExprAt(c, i, precedence) == IF i = 0 THEN Failed ELSE c.parse["expr", c.skip, c.inClass, precedence, i]
StmtAt(c, i) == IF i = 0 THEN Failed ELSE c.parse["stmt", c.skip, c.inClass, Precedence.LOWEST, i]
DeclAt(c, i) == IF i = 0 THEN Failed ELSE c.parse["decl", c.skip, c.inClass, Precedence.LOWEST, i]

DeclKinds == {"let", "const", "fn", "class", "enum", "module"}

ParseDeclAndStmt(c, i) == IF i # 0 /\ KindAt(c, i) \in DeclKinds THEN DeclAt(c, i) ELSE StmtAt(c, i)

(* Declarations and statements up to a `}' or to the end of the tokens. *)
RECURSIVE ParseStmts(_, _)
ParseStmts(c, i) ==
  IF i = 0 \/ KindAt(c, i) \in {"}", "END"} THEN Read(<<>>, i)
  ELSE Followed(ParseDeclAndStmt(c, i), LAMBDA next : ParseStmts(c, next))

(* Expressions between commas; where one of kind `stop' may follow the     *)
(* last comma.                                                             *)
RECURSIVE ParseExprs(_, _, _), ParsePairs(_, _)
ParseExprs(c, i, stop) ==
  IF i = 0 \/ KindAt(c, i) = stop THEN Read(<<>>, i)
  ELSE Listed(c, ExprAt(c, i, Precedence.LOWEST), LAMBDA next : ParseExprs(c, next, stop))

ParsePair(c, i) ==
  Then(ExprAt(c, i, Precedence.LOWEST), LAMBDA key :
    Then(ExprAt(c, Eat(c, key.i, ":"), Precedence.LOWEST), LAMBDA value : Read(<<key.n, value.n>>, value.i)))

ParsePairs(c, i) ==
  IF i = 0 \/ KindAt(c, i) = "}" THEN Read(<<>>, i)
  ELSE Listed(c, ParsePair(c, i), LAMBDA next : ParsePairs(c, next))

LiteralKinds == {"NUMBER", "STR", "null", "true", "false"}

ParseLiteralExpr(c, i) ==
  LET token == TokenAt(c, i)
  IN  Read(Literal(CASE token.kind = "NUMBER" -> NumberOf(token.literal)
                     [] token.kind = "STR" -> <<"str", token.literal>>
                     [] token.kind = "null" -> <<"null">>
                     [] OTHER -> <<"bool", token.kind = "true">>), i + 1)

ParseGroupExpr(c, i) ==
  Then(ExprAt(c, i + 1, Precedence.LOWEST), LAMBDA e : Read([kind |-> "GROUP", expr |-> e.n], Eat(c, e.i, ")")))

ParsePrefixExpr(c, i) ==
  Then(ExprAt(c, i + 1, Precedence.PREFIX), LAMBDA e :
    Read(IF KindAt(c, i) = "&" THEN [kind |-> "REF", refExpr |-> e.n] ELSE Prefix(KindAt(c, i), e.n), e.i))

ParseArrayExpr(c, i) == Then(ParseExprs(c, i + 1, "]"), LAMBDA es : Read(Array(es.n), Eat(c, es.i, "]")))

ParseDictExpr(c, i) ==
  Then(ParsePairs(c, i + 1), LAMBDA ps : Read([kind |-> "DICT", elements |-> ps.n], Eat(c, ps.i, "}")))

(* The keys of a struct are names. *)
ParseStructExpr(c, i) ==
  Then(ParsePairs(c, Eat(c, i + 1, "{")), LAMBDA ps :
    IF \E pair \in Range(ps.n) : pair[1].kind # "IDENTIFIER" THEN Failed
    ELSE Read([kind |-> "STRUCT", elements |-> ps.n], Eat(c, ps.i, "}")))

ParseScopeStmt(c, i) ==
  Then(ParseStmts(c, Eat(c, i, "{")), LAMBDA stmts : Read(Scope(stmts.n), Eat(c, stmts.i, "}")))

ParseLambdaExpr(c, i) ==
  Then(Parameters(c, Eat(c, i + 1, "(")), LAMBDA params :
    Then(ParseScopeStmt(c, Eat(c, params.i, ")")), LAMBDA body :
      Read([kind |-> "LAMBDA", parameters |-> params.n, body |-> body.n], body.i)))

ParseNewExpr(c, i) ==
  Then(ExprAt(c, i + 1, Precedence.LOWEST), LAMBDA e : Read([kind |-> "NEW", callee |-> e.n], e.i))

ParseThisExpr(c, i) == IF c.inClass THEN Read([kind |-> "THIS"], i + 1) ELSE Failed

ParseBaseExpr(c, i) ==
  Then(IdentifierAt(c, Eat(c, i + 1, ".")), LAMBDA member :
    IF c.inClass THEN Read([kind |-> "BASE", callMember |-> member.n], member.i) ELSE Failed)

(* The conditions of a switch or match item: the judged expression is      *)
(* compared to each value, from the left.                                  *)
CaseCondition(judge, values) ==
  LET equal == [k \in DOMAIN values |-> Infix("==", judge, values[k])]
  IN  FoldLeft(LAMBDA l, r : Infix("||", l, r), Head(equal), Tail(equal))

(* Items of a match, <<values, expression>>, with <<>> as the values of the default. *)
MatchItem(c, i) ==
  Then(IF KindAt(c, i) = "default" THEN Read(<<>>, i + 1) ELSE ParseExprs(c, i, ""), LAMBDA values :
    Then(ExprAt(c, Eat(c, values.i, ":"), Precedence.LOWEST), LAMBDA result :
      Read(<<values.n, result.n>>, result.i)))

RECURSIVE MatchItems(_, _)
MatchItems(c, i) == Listed(c, MatchItem(c, i), LAMBDA next : MatchItems(c, next))

RECURSIVE Conditions(_, _, _)
Conditions(judge, items, default) ==
  IF items = <<>> THEN Condition(Null, Null, default)
  ELSE Condition(CaseCondition(judge, items[1][1]), items[1][2],
                 IF Len(items) = 1 THEN default ELSE Conditions(judge, Tail(items), default))

Cases(items) == SelectSeq(items, LAMBDA item : item[1] # <<>>)
Defaults(items) == SelectSeq(items, LAMBDA item : item[1] = <<>>)
DefaultOf(items) == IF Defaults(items) = <<>> THEN Null ELSE Last(Defaults(items))[2]

(* A match may have one default. *)
ParseMatchExpr(c, i) ==
  Then(ExprAt(c, Eat(c, i + 1, "("), Precedence.LOWEST), LAMBDA judge :
    Then(Read(Null, Eat(c, Eat(c, judge.i, ")"), "{")), LAMBDA open :
      Then(IF KindAt(c, open.i) = "}" THEN Read(<<>>, open.i) ELSE MatchItems(c, open.i), LAMBDA items :
        IF Len(Defaults(items.n)) > 1 THEN Failed
        ELSE Read(Conditions(judge.n, Cases(items.n), DefaultOf(items.n)), Eat(c, items.i, "}")))))

(* `({ ... })': statements with `;' between them, which Consume leaves     *)
(* alone in every statement read meanwhile; the last is an expression.     *)
RECURSIVE CompoundStmts(_, _)
CompoundStmts(c, i) ==
  IF i = 0 \/ KindAt(c, i) = "})" THEN Failed
  ELSE Then(ParseDeclAndStmt(c, i), LAMBDA first :
         IF KindAt(c, first.i) # ";" THEN Read(<<first.n>>, first.i)
         ELSE Then(CompoundStmts(c, first.i + 1), LAMBDA rest : Read(<<first.n>> \o rest.n, rest.i)))

ParseCompoundExpr(c, i) ==
  Then(CompoundStmts([c EXCEPT !.skip = ";"], i + 1), LAMBDA stmts :
    IF Last(stmts.n).kind # "EXPR" THEN Failed
    ELSE Read([kind |-> "COMPOUND", stmts |-> Front(stmts.n), endExpr |-> Last(stmts.n).expr],
              Eat(c, stmts.i, "})")))

(* The prefix functions by the token an expression begins with. *)
ParsePrefix(c, i) ==
  LET kind == KindAt(c, i)
  IN  CASE kind = "IDENTIFIER" -> IdentifierAt(c, i)
        [] kind \in LiteralKinds -> ParseLiteralExpr(c, i)
        [] kind \in {"-", "~", "!", "++", "--", "&"} -> ParsePrefixExpr(c, i)
        [] kind = "(" -> ParseGroupExpr(c, i)
        [] kind = "[" -> ParseArrayExpr(c, i)
        [] kind = "{" -> ParseDictExpr(c, i)
        [] kind = "fn" -> ParseLambdaExpr(c, i)
        [] kind = "new" -> ParseNewExpr(c, i)
        [] kind = "this" -> ParseThisExpr(c, i)
        [] kind = "base" -> ParseBaseExpr(c, i)
        [] kind = "match" -> ParseMatchExpr(c, i)
        [] kind = "({" -> ParseCompoundExpr(c, i)
        [] kind = "..." -> VarArg(c, i)
        [] kind = "struct" -> ParseStructExpr(c, i)
        [] OTHER -> Failed

ParseInfixExpr(c, i, left) ==
  Then(ExprAt(c, i + 1, PrecedenceOf(KindAt(c, i))), LAMBDA right : Read(Infix(KindAt(c, i), left, right.n), right.i))

(* Mutant of ParseConditionExpr: the last operand is read as a whole expression. *)
ParseConditionExprLoose(c, i, cond) ==
  Then(ExprAt(c, i + 1, Precedence.CONDITION), LAMBDA yes :
    Then(ExprAt(c, Eat(c, yes.i, ":"), Precedence.LOWEST), LAMBDA no : Read(Condition(cond, yes.n, no.n), no.i)))

ParseConditionExpr(c, i, cond) ==
  Then(ExprAt(c, i + 1, Precedence.CONDITION), LAMBDA yes :
    Then(ExprAt(c, Eat(c, yes.i, ":"), Precedence.CONDITION), LAMBDA no : Read(Condition(cond, yes.n, no.n), no.i)))

ParseIndexExpr(c, i, ds) ==
  Then(ExprAt(c, i + 1, Precedence.LOWEST), LAMBDA index :
    Read([kind |-> "INDEX", ds |-> ds, index |-> index.n], Eat(c, index.i, "]")))

ParseCallExpr(c, i, callee) ==
  Then(IF KindAt(c, i + 1) = ")" THEN Read(<<>>, i + 1) ELSE ParseExprs(c, i + 1, ""), LAMBDA args :
    Read(Call(callee, args.n), Eat(c, args.i, ")")))

ParseDotExpr(c, i, callee) ==
  Then(IdentifierAt(c, i + 1), LAMBDA member :
    Read([kind |-> "DOT", callee |-> callee, callMember |-> member.n], member.i))

(* The postfix and infix functions by the token after an operand. *)
ParseOperator(c, i, left) ==
  LET kind == KindAt(c, i)
  IN  CASE kind \in {"++", "--"} -> Read(Postfix(kind, left), i + 1)
        [] kind = "!" -> Read([kind |-> "FACTORIAL", expr |-> left], i + 1)
        [] kind = "?" -> ParseConditionExpr(c, i, left)
        [] kind = "[" -> ParseIndexExpr(c, i, left)
        [] kind = "(" -> ParseCallExpr(c, i, left)
        [] kind = "." -> ParseDotExpr(c, i, left)
        [] OTHER -> ParseInfixExpr(c, i, left)

RECURSIVE Operators(_, _, _, _)
(* The loop of ParseExpr: operators as long as they bind tighter. *)
Operators(c, i, left, precedence) ==
  LET next == PrecedenceOf(KindAt(c, i))
  IN  IF i = 0 THEN Failed
      ELSE IF next # Precedence.LOWEST /\ (IF next \in RightToLeft THEN precedence <= next ELSE precedence < next)
      THEN Then(ParseOperator(c, i, left), LAMBDA op : Operators(c, op.i, op.n, precedence))
      ELSE Read(left, i)

ParseExpr(c, i, precedence) == Then(ParsePrefix(c, i), LAMBDA left : Operators(c, left.i, left.n, precedence))

-----------------------------------------------------------------------------
(* Declarations. *)

(* `let [x, ...rest] = ...': a name list of at most one variable argument, *)
(* the last, and a value list made as long as the names.                   *)
IsVarArg(node) == node.kind = "VAR_ARG"

InitializeList(names, value) ==
  IF value.kind = "CALL" THEN value
  ELSE IF value.kind = "ARRAY"
       THEN Array(value.elements \o [k \in 1..(Len(names) - Len(value.elements)) |-> NullLiteral])
       ELSE Array([k \in DOMAIN names |-> value])

(* What a variable is declared to be: null without a `='. *)
InitialValue(c, i) ==
  IF i # 0 /\ KindAt(c, i) = "=" THEN ExprAt(c, i + 1, Precedence.LOWEST) ELSE Read(NullLiteral, i)

Destructured(names, value) ==
  IF \/ value.i = 0
     \/ \E k \in DOMAIN names : IsVarArg(names[k]) /\ k # Len(names)
     \/ value.n.kind = "ARRAY" /\ Len(value.n.elements) > Len(names) /\ ~ IsVarArg(Last(names))
  THEN Failed
  ELSE Read(<<Array(names), InitializeList(names, value.n)>>, value.i)

Destructuring(c, i) ==
  Then(VarDescs(c, i + 1, "]"), LAMBDA names : Destructured(names.n, InitialValue(c, Eat(c, names.i, "]"))))

Variable(c, i) ==
  IF i # 0 /\ KindAt(c, i) = "[" THEN Destructuring(c, i)
  ELSE Then(VarDesc(c, i), LAMBDA name :
         Then(InitialValue(c, name.i), LAMBDA value : Read(<<name.n, value.n>>, value.i)))

RECURSIVE Variables(_, _)
Variables(c, i) == Listed(c, Variable(c, i), LAMBDA next : Variables(c, next))

ParseVarDecl(c, i) ==
  Then(Variables(c, i + 1), LAMBDA vs :
    Read(Var(IF KindAt(c, i) = "let" THEN "MUTABLE" ELSE "IMMUTABLE", vs.n), Eat(c, vs.i, ";")))

RECURSIVE TypesAfter(_, _)
TypesAfter(c, i) == IF i # 0 /\ KindAt(c, i) = "," THEN TypesAfter(c, i + 2) ELSE i

(* From the name on: the keyword has been read, a constructor has none. *)
ParseFunctionDecl(c, i) ==
  Then(IdentifierAt(c, i), LAMBDA name :
    Then(Parameters(c, Eat(c, name.i, "(")), LAMBDA params :
      Then(ParseScopeStmt(c, TypesAfter(c, TypeAfter(c, Eat(c, params.i, ")")))), LAMBDA body :
        Read(Function(name.n.literal, params.n, body.n), body.i))))

(* An enum: names with values, themselves where they have no other. *)
EnumItem(c, i) ==
  Then(IdentifierAt(c, i), LAMBDA name :
    Then(IF KindAt(c, name.i) = "=" THEN ExprAt(c, name.i + 1, Precedence.LOWEST)
         ELSE Read(Literal(<<"str", TokenAt(c, i).literal>>), name.i), LAMBDA value :
      Read(<<name.n.literal, value.n>>, Maybe(c, value.i, ","))))

RECURSIVE EnumItems(_, _)
EnumItems(c, i) ==
  IF i = 0 \/ KindAt(c, i) = "}" THEN Read(<<>>, i)
  ELSE Followed(EnumItem(c, i), LAMBDA next : EnumItems(c, next))

ParseEnumDecl(c, i) ==
  Then(IdentifierAt(c, i + 1), LAMBDA name :
    Then(EnumItems(c, Eat(c, name.i, "{")), LAMBDA items :
      Read([kind |-> "ENUM", name |-> name.n.literal, enumItems |-> items.n], Eat(c, items.i, "}"))))

(* A member of a class, as the declaration it consists of.  One that       *)
(* begins with the name of the class is a constructor.  The words for      *)
(* privileges are looked at and not read: a member or a parent that has    *)
(* one is refused.                                                         *)
ClassMember(c, i, name) ==
  LET kind == KindAt(c, i)
  IN  Then(CASE kind \in {"let", "const"} -> ParseVarDecl(c, i)
             [] kind = "enum" -> ParseEnumDecl(c, i)
             [] kind = "fn" -> ParseFunctionDecl(c, i + 1)
             [] kind = "IDENTIFIER" /\ Name(TokenAt(c, i).literal) = name -> ParseFunctionDecl(c, i)
             [] OTHER -> Failed, LAMBDA member :
        IF kind = "fn" /\ member.n.name = name THEN Failed
        ELSE Read([constructor |-> kind = "IDENTIFIER", decl |-> member.n], member.i))

RECURSIVE ClassMembers(_, _, _), Parents(_, _)
ClassMembers(c, i, name) ==
  IF i = 0 \/ KindAt(c, i) = "}" THEN Read(<<>>, i)
  ELSE Followed(ClassMember(c, i, name), LAMBDA next : ClassMembers(c, next, name))

Parents(c, i) ==
  Listed(c, Then(IdentifierAt(c, i), LAMBDA parent : Read(parent.n.literal, parent.i)), LAMBDA next : Parents(c, next))

ParseClassDecl(c, i) ==
  Then(IdentifierAt(c, i + 1), LAMBDA name :
    Then(IF KindAt(c, name.i) = ":" THEN Parents(c, name.i + 1) ELSE Read(<<>>, name.i), LAMBDA parents :
      Then(ClassMembers([c EXCEPT !.inClass = TRUE], Eat(c, parents.i, "{"), name.n.literal), LAMBDA members :
        Read([kind |-> "CLASS", name |-> name.n.literal, parents |-> parents.n, members |-> members.n],
             Eat(c, members.i, "}")))))

(* A module has declarations only. *)
RECURSIVE ModuleItems(_, _)
ModuleItems(c, i) ==
  IF i = 0 \/ KindAt(c, i) = "}" THEN Read(<<>>, i)
  ELSE Followed(DeclAt(c, i), LAMBDA next : ModuleItems(c, next))

ParseModuleDecl(c, i) ==
  Then(IdentifierAt(c, i + 1), LAMBDA name :
    Then(ModuleItems(c, Eat(c, name.i, "{")), LAMBDA items :
      Read([kind |-> "MODULE", name |-> name.n.literal, items |-> items.n], Eat(c, items.i, "}"))))

ParseDecl(c, i) ==
  LET kind == KindAt(c, i)
  IN  CASE kind \in {"let", "const"} -> ParseVarDecl(c, i)
        [] kind = "fn" -> ParseFunctionDecl(c, i + 1)
        [] kind = "class" -> ParseClassDecl(c, i)
        [] kind = "enum" -> ParseEnumDecl(c, i)
        [] kind = "module" -> ParseModuleDecl(c, i)
        [] OTHER -> Failed

-----------------------------------------------------------------------------
(* Statements. *)

ParseExprStmt(c, i) ==
  Then(ExprAt(c, i, Precedence.LOWEST), LAMBDA e : Read(ExprStmt(e.n), Eat(c, e.i, ";")))

(* Several values are returned as an array. *)
Returned(exprs) ==
  IF exprs = <<>> THEN Null ELSE IF Len(exprs) = 1 THEN exprs[1] ELSE [kind |-> "APPREGATE", exprs |-> exprs]

ParseReturnStmt(c, i) ==
  Then(ParseExprs(c, i + 1, ";"), LAMBDA es : Read(Return(Returned(es.n)), Eat(c, es.i, ";")))

ParseIfStmt(c, i) ==
  Then(ExprAt(c, Eat(c, i + 1, "("), Precedence.LOWEST), LAMBDA cond :
    Then(StmtAt(c, Eat(c, cond.i, ")")), LAMBDA then :
      Then(IF KindAt(c, then.i) = "else" THEN StmtAt(c, then.i + 1) ELSE Read(Null, then.i), LAMBDA else :
        Read(If(cond.n, then.n, else.n), else.i))))

(* The body of a loop: a block, made of one statement where it is none. *)
ParseBody(c, i) ==
  IF i # 0 /\ KindAt(c, i) = "{" THEN ParseScopeStmt(c, i)
  ELSE Then(StmtAt(c, i), LAMBDA one : Read(Scope(<<one.n>>), one.i))

ParseWhileStmt(c, i) ==
  Then(ExprAt(c, Eat(c, i + 1, "("), Precedence.LOWEST), LAMBDA cond :
    Then(ParseBody(c, Eat(c, cond.i, ")")), LAMBDA body : Read(While(cond.n, body.n, Null), body.i)))

(* `for(init; condition; increment) body' becomes                          *)
(*   { init; while(condition) { body } }                                   *)
(* with the increments as part of the loop.                                *)
ExprStmts(exprs) == [k \in DOMAIN exprs |-> ExprStmt(exprs[k])]

ForInit(c, i) ==
  IF i # 0 /\ KindAt(c, i) \in {"let", "const"}
  THEN Then(ParseVarDecl(c, i), LAMBDA decl : Read(<<decl.n>>, decl.i))
  ELSE Then(IF i # 0 /\ KindAt(c, i) = ";" THEN Read(<<>>, i) ELSE ParseExprs(c, i, ""), LAMBDA es :
         Read(ExprStmts(es.n), Eat(c, es.i, ";")))

ForIncrement(c, i) == IF i # 0 /\ KindAt(c, i) = ")" THEN Read(<<>>, i) ELSE ParseExprs(c, i, "")

ParseForStmt(c, i) ==
  Then(ForInit(c, Eat(c, i + 1, "(")), LAMBDA init :
    Then(IF KindAt(c, init.i) = ";" THEN Read(Null, init.i) ELSE ExprAt(c, init.i, Precedence.LOWEST), LAMBDA cond :
      Then(ForIncrement(c, Eat(c, cond.i, ";")), LAMBDA increment :
        Then(ParseBody(c, Eat(c, increment.i, ")")), LAMBDA body :
          Read(Scope(Append(init.n, While(cond.n, Scope(<<body.n>>), Scope(ExprStmts(increment.n))))), body.i)))))

(* `break' and `continue'. *)
ParseJumpStmt(c, i) ==
  Read([kind |-> IF KindAt(c, i) = "break" THEN "BREAK" ELSE "CONTINUE"], Eat(c, i + 1, ";"))

(* A block in a switch has statements, without declarations. *)
RECURSIVE CaseStmts(_, _)
CaseStmts(c, i) ==
  IF i = 0 \/ KindAt(c, i) = "}" THEN Read(<<>>, i) ELSE Followed(StmtAt(c, i), LAMBDA next : CaseStmts(c, next))

CaseBody(c, i) ==
  IF i # 0 /\ KindAt(c, i) = "{"
  THEN Then(CaseStmts(c, i + 1), LAMBDA stmts : Read(Scope(stmts.n), Eat(c, stmts.i, "}")))
  ELSE Then(StmtAt(c, i), LAMBDA one : Read(Scope(<<one.n>>), one.i))

(* Items of a switch, like those of a match. *)
SwitchItem(c, i) ==
  Then(IF KindAt(c, i) = "default" THEN Read(<<>>, i + 1) ELSE ParseExprs(c, i, ""), LAMBDA values :
    Then(CaseBody(c, Eat(c, values.i, ":")), LAMBDA body : Read(<<values.n, body.n>>, body.i)))

RECURSIVE SwitchItems(_, _)
SwitchItems(c, i) ==
  IF i = 0 \/ KindAt(c, i) = "}" THEN Read(<<>>, i)
  ELSE Followed(SwitchItem(c, i), LAMBDA next : SwitchItems(c, next))

RECURSIVE Ifs(_, _, _)
Ifs(judge, items, default) ==
  IF items = <<>> THEN If(Null, Null, default)
  ELSE If(CaseCondition(judge, items[1][1]), items[1][2],
          IF Len(items) = 1 THEN default ELSE Ifs(judge, Tail(items), default))

(* A switch judges a variable and becomes a chain of ifs; of several       *)
(* defaults the last counts, and a switch of a default alone is its block. *)
Switch(judge, items) ==
  IF Cases(items) = <<>> /\ Defaults(items) # <<>> THEN DefaultOf(items) ELSE Ifs(judge, Cases(items), DefaultOf(items))

ParseSwitchStmt(c, i) ==
  Then(IdentifierAt(c, Eat(c, i + 1, "(")), LAMBDA judge :
    Then(SwitchItems(c, Eat(c, Eat(c, judge.i, ")"), "{")), LAMBDA items :
      Read(Switch(judge.n, items.n), Eat(c, items.i, "}"))))

ParseStmt(c, i) ==
  LET kind == KindAt(c, i)
  IN  CASE kind = "return" -> ParseReturnStmt(c, i)
        [] kind = "if" -> ParseIfStmt(c, i)
        [] kind = "{" -> ParseScopeStmt(c, i)
        [] kind = "while" -> ParseWhileStmt(c, i)
        [] kind = "for" -> ParseForStmt(c, i)
        [] kind \in {"break", "continue"} -> ParseJumpStmt(c, i)
        [] kind = "switch" -> ParseSwitchStmt(c, i)
        [] OTHER -> ParseExprStmt(c, i)

(* The whole script; a stray `}' is an error. *)
Parse(tokens) ==
  LET parse[rule \in {"expr", "stmt", "decl"}, skip \in {"", ";"}, inClass \in BOOLEAN,
            precedence \in 0..Precedence.POSTFIX, i \in Nat] ==
        LET c == [tokens |-> tokens, skip |-> skip, inClass |-> inClass, parse |-> parse]
        IN  CASE rule = "expr" -> ParseExpr(c, i, precedence)
              [] rule = "stmt" -> ParseStmt(c, i)
              [] rule = "decl" -> ParseDecl(c, i)
      c == [tokens |-> tokens, skip |-> "", inClass |-> FALSE, parse |-> parse]
  IN  Then(ParseStmts(c, 1), LAMBDA stmts : IF KindAt(c, stmts.i) = "END" THEN stmts ELSE Failed)

=============================================================================

------------------------------ MODULE Grammar ------------------------------
(***************************************************************************)
(* The syntax of scripts, from the tree to the tokens: what a script looks *)
(* like that means a given tree.  This is the other way round than the     *)
(* parser and owes it nothing but the shape of the nodes: the levels are   *)
(* those the comments of the enumeration Precedence list, operators of a   *)
(* level group from the left but for assignments, and there are            *)
(* parentheses just where the levels require them.                         *)
(***************************************************************************)
EXTENDS Parsing

Levels ==
  <<{"=", "+=", "-=", "*=", "/=", "%=", "&=", "|=", "^=", "<<=", ">>="}, {"?:"}, {"||"}, {"&&"}, {"|"}, {"^"}, {"&"},
    {"==", "!="}, {"<", "<=", ">", ">="}, {">>", "<<"}, {"+", "-"}, {"*", "/", "%"}>>

Lowest == 0
AssignLevel == 1
ConditionLevel == 2
PrefixLevel == 13
InfixLevel == 14
Atom == 16

Level(e) ==
  CASE e.kind = "INFIX" -> CHOOSE l \in DOMAIN Levels : e.op \in Levels[l]
    [] e.kind = "CONDITION" -> ConditionLevel
    [] e.kind \in {"PREFIX", "REF"} -> PrefixLevel
    [] e.kind \in {"INDEX", "CALL", "DOT", "FACTORIAL", "POSTFIX"} -> InfixLevel
    [] e.kind = "NEW" -> Lowest
    [] OTHER -> Atom

(* The characters of a string. *)
Chars(string) == [k \in 1..Len(string) |-> SubSeq(string, k, k)]

Tok(kind) == [kind |-> kind, literal |-> Chars(kind)]
NameTok(name) == [kind |-> "IDENTIFIER", literal |-> Chars(name)]

RECURSIVE DigitsOf(_)
DigitsOf(n) == (IF n < 10 THEN <<>> ELSE DigitsOf(n \div 10)) \o <<DigitChars[(n % 10) + 1]>>

(* Reals have one decimal, as in <<"real", 15, 10>>. *)
LiteralTok(v) ==
  CASE v[1] = "int" -> [kind |-> "NUMBER", literal |-> DigitsOf(v[2])]
    [] v[1] = "real" -> [kind |-> "NUMBER", literal |-> DigitsOf(v[2] \div 10) \o <<".">> \o DigitsOf(v[2] % 10)]
    [] v[1] = "str" -> [kind |-> "STR", literal |-> v[2]]
    [] v[1] = "bool" -> Tok(IF v[2] THEN "true" ELSE "false")
    [] OTHER -> Tok("null")

(* Pieces with a token between them. *)
Between(pieces, separator) ==
  IF pieces = <<>> THEN <<>>
  ELSE FoldLeft(LAMBDA l, r : l \o <<Tok(separator)>> \o r, Head(pieces), Tail(pieces))

RECURSIVE Expr(_, _), Stmt(_), Decl(_), Params(_), Block(_)

Exprs(es) == Between([k \in DOMAIN es |-> Expr(es[k], Lowest)], ",")
Pairs(ps) == Between([k \in DOMAIN ps |-> Expr(ps[k][1], Lowest) \o <<Tok(":")>> \o Expr(ps[k][2], Lowest)], ",")

Params(ps) ==
  Between([k \in DOMAIN ps |->
             IF ps[k].kind # "VAR_ARG" THEN <<NameTok(ps[k].literal)>>
             ELSE IF ps[k].argName = "" THEN <<Tok("...")>> ELSE <<Tok("..."), NameTok(ps[k].argName)>>], ",")

(* An item of a match or a switch, without values where it is the default. *)
Item(values, result) == (IF values = <<>> THEN <<Tok("default")>> ELSE Exprs(values)) \o <<Tok(":")>> \o result

Bare(e) ==
  LET level == Level(e)
  IN  CASE e.kind = "LITERAL" -> <<LiteralTok(e.value)>>
        [] e.kind = "IDENTIFIER" -> <<NameTok(e.literal)>>
        [] e.kind = "INFIX" /\ level = AssignLevel ->
             Expr(e.left, level + 1) \o <<Tok(e.op)>> \o Expr(e.right, level)
        [] e.kind = "INFIX" /\ level # AssignLevel ->
             Expr(e.left, level) \o <<Tok(e.op)>> \o Expr(e.right, level + 1)
        [] e.kind = "CONDITION" ->
             Expr(e.condition, level) \o <<Tok("?")>> \o Expr(e.trueBranch, level + 1)
               \o <<Tok(":")>> \o Expr(e.falseBranch, level + 1)
        [] e.kind = "PREFIX" -> <<Tok(e.op)>> \o Expr(e.right, level)
        [] e.kind = "REF" -> <<Tok("&")>> \o Expr(e.refExpr, level)
        [] e.kind = "POSTFIX" -> Expr(e.left, level) \o <<Tok(e.op)>>
        [] e.kind = "FACTORIAL" -> Expr(e.expr, level) \o <<Tok("!")>>
        [] e.kind = "INDEX" -> Expr(e.ds, level) \o <<Tok("[")>> \o Expr(e.index, Lowest) \o <<Tok("]")>>
        [] e.kind = "CALL" -> Expr(e.callee, level) \o <<Tok("(")>> \o Exprs(e.arguments) \o <<Tok(")")>>
        [] e.kind = "DOT" -> Expr(e.callee, level) \o <<Tok("."), NameTok(e.callMember.literal)>>
        [] e.kind = "ARRAY" -> <<Tok("[")>> \o Exprs(e.elements) \o <<Tok("]")>>
        [] e.kind = "DICT" -> <<Tok("{")>> \o Pairs(e.elements) \o <<Tok("}")>>
        [] e.kind = "STRUCT" -> <<Tok("struct"), Tok("{")>> \o Pairs(e.elements) \o <<Tok("}")>>
        [] e.kind = "LAMBDA" -> <<Tok("fn"), Tok("(")>> \o Params(e.parameters) \o <<Tok(")")>> \o Stmt(e.body)
        [] e.kind = "NEW" -> <<Tok("new")>> \o Expr(e.callee, Lowest)
        [] e.kind = "THIS" -> <<Tok("this")>>
        [] e.kind = "BASE" -> <<Tok("base"), Tok("."), NameTok(e.callMember.literal)>>
        [] e.kind = "VAR_ARG" -> Params(<<e>>)
        [] e.kind = "MATCH" ->
             <<Tok("match"), Tok("(")>> \o Expr(e.judge, Lowest) \o <<Tok(")"), Tok("{")>>
               \o Between([k \in DOMAIN e.items |-> Item(e.items[k][1], Expr(e.items[k][2], Lowest))], ",")
               \o <<Tok("}")>>
        [] e.kind = "COMPOUND" ->
             <<Tok("({")>> \o Block(e.stmts) \o Expr(e.endExpr, Lowest) \o <<Tok("})")>>

Expr(e, least) == IF Level(e) < least THEN <<Tok("(")>> \o Bare(e) \o <<Tok(")")>> ELSE Bare(e)

(* A name, or a list of them, and what it is declared to be. *)
Declaration(v) ==
  (IF v[1].kind = "ARRAY" THEN <<Tok("[")>> \o Params(v[1].elements) \o <<Tok("]")>> ELSE Params(<<v[1]>>))
    \o <<Tok("=")>> \o Expr(v[2], Lowest)

Members(c) ==
  FlattenSeq([k \in DOMAIN c.members |->
                IF c.members[k].constructor THEN Tail(Decl(c.members[k].decl)) ELSE Decl(c.members[k].decl)])

Decl(d) ==
  CASE d.kind = "VAR" ->
         <<Tok(IF d.permission = "MUTABLE" THEN "let" ELSE "const")>>
           \o Between([k \in DOMAIN d.variables |-> Declaration(d.variables[k])], ",") \o <<Tok(";")>>
    [] d.kind = "FUNCTION" ->
         <<Tok("fn"), NameTok(d.name), Tok("(")>> \o Params(d.parameters) \o <<Tok(")")>> \o Stmt(d.body)
    [] d.kind = "CLASS" ->
         <<Tok("class"), NameTok(d.name)>>
           \o (IF d.parents = <<>> THEN <<>>
               ELSE <<Tok(":")>> \o Between([k \in DOMAIN d.parents |-> <<NameTok(d.parents[k])>>], ","))
           \o <<Tok("{")>> \o Members(d) \o <<Tok("}")>>
    [] d.kind = "ENUM" ->
         <<Tok("enum"), NameTok(d.name), Tok("{")>>
           \o Between([k \in DOMAIN d.enumItems |->
                         <<NameTok(d.enumItems[k][1]), Tok("=")>> \o Expr(d.enumItems[k][2], Lowest)], ",")
           \o <<Tok("}")>>
    [] d.kind = "MODULE" -> <<Tok("module"), NameTok(d.name), Tok("{")>> \o Block(d.items) \o <<Tok("}")>>

Parenthesized(e) == <<Tok("(")>> \o Expr(e, Lowest) \o <<Tok(")")>>

Stmt(s) ==
  CASE s.kind = "EXPR" -> Expr(s.expr, Lowest) \o <<Tok(";")>>
    [] s.kind = "SCOPE" -> <<Tok("{")>> \o Block(s.stmts) \o <<Tok("}")>>
    [] s.kind = "IF" ->
         <<Tok("if")>> \o Parenthesized(s.condition) \o Stmt(s.thenBranch)
           \o (IF s.elseBranch = Null THEN <<>> ELSE <<Tok("else")>> \o Stmt(s.elseBranch))
    [] s.kind = "WHILE" -> <<Tok("while")>> \o Parenthesized(s.condition) \o Stmt(s.body)
    [] s.kind = "FOR" ->
         <<Tok("for"), Tok("(")>>
           \o (IF s.init # <<>> /\ s.init[1].kind = "VAR" THEN Stmt(s.init[1]) ELSE Exprs(s.init) \o <<Tok(";")>>)
           \o (IF s.condition = Null THEN <<>> ELSE Expr(s.condition, Lowest)) \o <<Tok(";")>>
           \o Exprs(s.increment) \o <<Tok(")")>> \o Stmt(s.body)
    [] s.kind = "SWITCH" ->
         <<Tok("switch")>> \o Parenthesized(s.judge) \o <<Tok("{")>>
           \o FlattenSeq([k \in DOMAIN s.items |-> Item(s.items[k][1], Stmt(s.items[k][2]))]) \o <<Tok("}")>>
    [] s.kind = "BREAK" -> <<Tok("break"), Tok(";")>>
    [] s.kind = "CONTINUE" -> <<Tok("continue"), Tok(";")>>
    [] s.kind = "RETURN" ->
         <<Tok("return")>>
           \o (IF s.expr = Null THEN <<>>
               ELSE IF s.expr.kind = "APPREGATE" THEN Exprs(s.expr.exprs) ELSE Expr(s.expr, Lowest))
           \o <<Tok(";")>>
    [] OTHER -> Decl(s)

Block(stmts) == FlattenSeq([k \in DOMAIN stmts |-> Stmt(stmts[k])])

(* The tokens of a script. *)
Written(stmts) == Append(Block(stmts), Tok("END"))

(* Their text: each followed by a blank, a string between quotes. *)
TextOf(tokens) ==
  FlattenSeq([k \in 1..(Len(tokens) - 1) |->
    IF tokens[k].kind = "STR" THEN <<"\"">> \o tokens[k].literal \o <<"\"", " ">> ELSE tokens[k].literal \o <<" ">>])

(* A tree without the nodes for parentheses, which mean nothing. *)
RECURSIVE Ungrouped(_), UngroupedAll(_)
UngroupedAll(nodes) == [k \in DOMAIN nodes |-> Ungrouped(nodes[k])]
UngroupedPairs(pairs) == [k \in DOMAIN pairs |-> <<Ungrouped(pairs[k][1]), Ungrouped(pairs[k][2])>>]

NodeFields == {"left", "right", "condition", "trueBranch", "falseBranch", "expr", "refExpr", "callee", "ds", "index",
               "endExpr", "body", "increment", "thenBranch", "elseBranch", "decl"}
ListFields == {"arguments", "elements", "exprs", "stmts", "members", "items", "parameters"}

Ungrouped(node) ==
  IF "kind" \in DOMAIN node /\ node.kind = "GROUP" THEN Ungrouped(node.expr)
  ELSE [f \in DOMAIN node |->
          CASE f \in NodeFields -> Ungrouped(node[f])
            [] f = "elements" /\ node.kind \in {"DICT", "STRUCT"} -> UngroupedPairs(node[f])
            [] f = "variables" -> UngroupedPairs(node[f])
            [] f \in ListFields /\ ~ (f = "elements" /\ node.kind \in {"DICT", "STRUCT"}) -> UngroupedAll(node[f])
            [] f = "enumItems" -> [k \in DOMAIN node[f] |-> <<node[f][k][1], Ungrouped(node[f][k][2])>>]
            [] OTHER -> node[f]]

=============================================================================

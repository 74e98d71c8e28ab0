----------------------------- MODULE MCFrontEnd -----------------------------
(***************************************************************************)
(* The scanner on every short text of four small alphabets, and both on    *)
(* every expression that two constructs make of variables, in every        *)
(* place, and on the statements and declarations.                          *)
(***************************************************************************)
EXTENDS FrontEnd

TextsOf(alphabet, length) == {t \in UNION {[1..n -> alphabet] : n \in 1..length} : ~ Misread(t)}

MCTexts ==
  TextsOf({"<", ">", "=", "+", ".", "&", "%"}, 3)
    \cup TextsOf({"/", "*", "\n", "a"}, 5)
    \cup TextsOf({"i", "f", "1", ".", "_"}, 4)
    \cup TextsOf({"\"", "'", "\n", "1", "(", "{", "}", ")", " ", "$"}, 4)

a == Ident("a")
b == Ident("b")

Operators2 == {"=", "<<=", "||", "&&", "|", "^", "&", "!=", "<=", ">>", "-", "/"}

(* The statements of a block inside `({ ... })' would lack their `;',       *)
(* which the parser leaves alone there: such scripts are refused.          *)
HasBlock(e) == e.kind = "LAMBDA"

(* An expression in every place of every construct. *)
Around(e) ==
  {Infix(op, e, a) : op \in Operators2} \cup {Infix(op, a, e) : op \in Operators2}
    \cup {Prefix(op, e) : op \in {"-", "!", "~", "++"}} \cup {Postfix("--", e)}
    \cup {Condition(e, a, b), Condition(a, e, b), Condition(a, b, e)}
    \cup {Call(e, <<>>), Call(a, <<e, b>>), Array(<<e, b>>)}
    \cup {[kind |-> "FACTORIAL", expr |-> e], [kind |-> "REF", refExpr |-> e], [kind |-> "NEW", callee |-> e],
          [kind |-> "INDEX", ds |-> e, index |-> a], [kind |-> "INDEX", ds |-> a, index |-> e],
          [kind |-> "DOT", callee |-> e, callMember |-> b],
          [kind |-> "DICT", elements |-> <<<<a, e>>, <<e, b>>>>],
          [kind |-> "STRUCT", elements |-> <<<<a, e>>>>],
          [kind |-> "LAMBDA", parameters |-> <<a, [kind |-> "VAR_ARG", argName |-> "b"]>>, body |-> Scope(<<Return(e)>>)]}
    \cup (IF HasBlock(e) THEN {}
          ELSE {[kind |-> "COMPOUND", stmts |-> <<Var("MUTABLE", <<<<a, e>>>>)>>, endExpr |-> Array(<<e>>)]})

Leaves == {a, Literal(<<"int", 10>>), Literal(<<"real", 15, 10>>), Literal(<<"str", <<"$", "\n">>>>), NullLiteral}

Expressions == UNION {Around(e) : e \in Leaves \cup Around(a)}

Body == Scope(<<ExprStmt(a)>>)

Statements ==
  {If(a, Body, Null), If(a, ExprStmt(a), While(b, Body, Null)), While(a, Scope(<<>>), Null), Return(Null),
   Return([kind |-> "APPREGATE", exprs |-> <<a, b>>]), [kind |-> "BREAK"], [kind |-> "CONTINUE"],
   Var("MUTABLE", <<<<a, b>>, <<b, NullLiteral>>>>),
   Var("IMMUTABLE", <<<<Array(<<a, [kind |-> "VAR_ARG", argName |-> ""]>>), Array(<<a, b>>)>>>>),
   Var("MUTABLE", <<<<Array(<<a, b>>), Call(a, <<>>)>>>>),
   Function("a", <<>>, Body), Function("a", <<b, [kind |-> "VAR_ARG", argName |-> ""]>>, Scope(<<>>)),
   [kind |-> "ENUM", name |-> "a", enumItems |-> <<<<"b", Literal(<<"int", 1>>)>>, <<"a", NullLiteral>>>>],
   [kind |-> "CLASS", name |-> "A", parents |-> <<"a", "b">>,
    members |-> <<[constructor |-> FALSE, decl |-> Var("IMMUTABLE", <<<<a, b>>>>)],
                  [constructor |-> TRUE, decl |-> Function("A", <<>>, Scope(<<Return([kind |-> "THIS"])>>))],
                  [constructor |-> FALSE,
                   decl |-> Function("a", <<>>, Scope(<<Return([kind |-> "BASE", callMember |-> b])>>))]>>]}

MCScripts ==
  {<<Return(e)>> : e \in Expressions}
    \cup {<<s, t>> : s, t \in Statements}
    \cup {<<[kind |-> "MODULE", name |-> "a", items |-> <<d, d>>]>> :
            d \in {s \in Statements : s.kind \in {"VAR", "FUNCTION", "ENUM", "CLASS"}}}
=============================================================================

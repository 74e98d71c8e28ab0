--------------------------- MODULE MCInterpreter ---------------------------
(***************************************************************************)
(* Scripts: every expression that two constructs make, an expression in    *)
(* every place for one, and loops with every short body.                   *)
(***************************************************************************)
EXTENDS Interpreter

a == Ident("a")
c == Ident("c")
d == Ident("d")
Num(n) == Literal(<<"int", n>>)
Str(chars) == Literal(<<"str", chars>>)

LibraryCall(library, function, arguments) ==
  Call([kind |-> "DOT", callee |-> Ident(library), callMember |-> Ident(function)], arguments)
AskCall == LibraryCall("host", "ask", <<>>)
PrintStmt(e) == ExprStmt(LibraryCall("io", "println", <<e>>))

Let(x, e) == Var("MUTABLE", <<<<x, e>>>>)

(* Before and after each script; its variables are a number and an answer. *)
Preamble == <<Let(a, Num(3)), Let(c, AskCall)>>
Around(stmts) == Preamble \o stmts \o <<PrintStmt(a)>>

-----------------------------------------------------------------------------
(* Expressions.  Every operator has every kind of operand, so that some    *)
(* scripts end with an error.                                              *)

Leaves == {a, c, Num(2), Literal(<<"real", 25, 10>>)}
Ops == {"+", "-", "*", "&", "|", "<", ">", "<=", ">=", "==", "!=", "&&", "||"}
WithSmallRight == {"/", "%", "<<", ">>"}

FactorialOf(e) == [kind |-> "FACTORIAL", expr |-> e]

Of(e) ==
  {Infix(op, e, x) : op \in Ops, x \in {a, Num(2)}} \cup {Infix(op, x, e) : op \in Ops, x \in {a, Num(2)}}
    \cup {Infix(op, e, Num(2)) : op \in WithSmallRight}
    \cup {Infix("=", a, e), Infix("-=", a, e), Prefix("-", e), Prefix("!", e)}
    \cup {Condition(e, a, Num(2)), Condition(c, e, a), Condition(c, Num(2), e)}

One == UNION {Of(e) : e \in Leaves}

(* What every operator does at once is one of these. *)
Wrapped(e) ==
  {Infix(op, e, a) : op \in {"+", "<=", "==", "&&"}} \cup {Infix(op, a, e) : op \in {"-", ">", "||", "="}}
    \cup {Prefix("!", e), Condition(e, a, Num(2)), Condition(c, e, a)}

Two == UNION {Wrapped(e) : e \in UNION {Of(leaf) : leaf \in Leaves \ {Num(2)}}}

CountUp == Postfix("++", a)

Special ==
  {Prefix("++", a), Prefix("--", Prefix("--", a)), CountUp, Prefix("++", Postfix("--", a)),
   Postfix("++", Postfix("++", a)), Infix("+", CountUp, Postfix("--", a)), Infix("-", a, Infix("*", CountUp, Prefix("++", a))),
   FactorialOf(a), FactorialOf(Num(4)), FactorialOf(Infix("+", a, Num(1))), FactorialOf(c),
   Infix("+", Str(<<"x">>), a), Infix("==", c, NullLiteral), Infix("<", NullLiteral, a), Infix("<=", NullLiteral, a),
   Call(a, <<>>), LibraryCall("io", "ask", <<>>), Infix("/", Num(7), Prefix("-", Num(2))), Infix("/", Prefix("-", a), Num(2)),
   Infix("%", Prefix("-", Num(7)), Num(2)), Infix("==", Literal(<<"real", 20, 10>>), Num(2))}

(* What the machine has no instruction for, or computes otherwise. *)
Folded == {Prefix("~", Num(5)), Infix("^", Num(6), Num(3)), Infix("+", Str(<<"x">>), Str(<<"y", "z">>))}

-----------------------------------------------------------------------------
(* Places for an expression e. *)

BlockExpr(stmts, e) == [kind |-> "COMPOUND", stmts |-> stmts, endExpr |-> e]
For(init, condition, increment, body) ==
  [kind |-> "FOR", init |-> init, condition |-> condition, increment |-> increment, body |-> body]
Match(judge, items) == [kind |-> "MATCH", judge |-> judge, items |-> items]
SwitchStmt(judge, items) == [kind |-> "SWITCH", judge |-> judge, items |-> items]

PrintNum(n) == PrintStmt(Num(n))

(* Where a postfix expression in e counts after the statement. *)
Statements(e) ==
  {<<PrintStmt(e)>>, <<ExprStmt(e)>>, <<Let(d, e), PrintStmt(d)>>,
   <<Var("IMMUTABLE", <<<<d, e>>, <<Ident("f"), a>>>>), PrintStmt(Ident("f"))>>,
   <<Scope(<<Let(d, e), PrintStmt(a), Scope(<<Let(Ident("f"), a), PrintStmt(Ident("f"))>>), PrintStmt(d)>>)>>,
   <<If(e, PrintNum(1), PrintNum(2))>>, <<If(e, Scope(<<PrintStmt(a)>>), If(c, PrintNum(1), PrintNum(2)))>>,
   <<While(Infix("==", AskCall, Infix("!=", e, NullLiteral)), Scope(<<PrintStmt(a)>>), Null)>>}

(* Where the compiler leaves its counting out, or does it in the wrong     *)
(* place, so that e has none.                                              *)
WithoutPostfix(e) ==
  {<<Let(d, BlockExpr(<<Let(Ident("f"), e), ExprStmt(Prefix("++", a))>>, Ident("f"))), PrintStmt(d)>>,
   <<PrintStmt(BlockExpr(<<>>, e))>>,
   <<PrintStmt(Match(a, <<<<<<Num(2), Num(3)>>, e>>, <<<<Num(5)>>, c>>, <<<<>>, Num(1)>>>>))>>,
   <<SwitchStmt(a, <<<<<<Num(2), Num(3)>>, Scope(<<PrintStmt(e)>>)>>, <<<<a>>, Scope(<<PrintNum(5)>>)>>>>)>>,
   <<SwitchStmt(a, <<<<<<>>, Scope(<<PrintStmt(e)>>)>>, <<<<Num(2)>>, Scope(<<PrintNum(2)>>)>>>>)>>,
   <<If(c, Return(e), Null), PrintNum(1)>>, <<While(Infix("&&", AskCall, e), Scope(<<PrintStmt(a)>>), Null)>>,
   <<For(<<Let(d, Num(0))>>, Infix("<", d, Num(2)), <<Postfix("++", d)>>, Scope(<<PrintStmt(Infix("||", AskCall, e))>>))>>,
   <<For(<<Infix("=", a, Num(0))>>, Infix("&&", Infix("<", a, Num(9)), AskCall), <<Prefix("++", a), Infix("*=", a, Num(2))>>, Scope(<<Let(d, e), PrintStmt(d)>>))>>}

HasPostfix(e) == Postfixes(e) # <<>>

InPlaces ==
  UNION {Statements(e) : e \in One \cup Special \cup Folded}
    \cup UNION {WithoutPostfix(e) : e \in {v \in UNION {Wrapped(leaf) : leaf \in Leaves} \cup Special : ~ HasPostfix(v)}}

-----------------------------------------------------------------------------
(* Loops. *)

LeaveIt == If(AskCall, [kind |-> "BREAK"], Null)
NextTurn == If(AskCall, [kind |-> "CONTINUE"], Null)
Inner == While(AskCall, Scope(<<LeaveIt, PrintNum(7)>>), Null)

WithLocal == Scope(<<Let(d, Infix("+", a, Num(1))), PrintStmt(d)>>)

BodyStatements ==
  {LeaveIt, NextTurn, Inner, WithLocal, PrintStmt(a), ExprStmt(CountUp),
   If(c, ExprStmt(Prefix("--", a)), PrintNum(1))}

(* One address is kept for a break and one for a continue, until an inner  *)
(* loop ends, and the locals of a block are numbered after those of the    *)
(* blocks before it.                                                       *)
IsKept(body) ==
  \A k \in DOMAIN body :
    \A j \in (k + 1)..Len(body) :
      /\ body[k] \in {LeaveIt, NextTurn} => body[j] \notin {body[k], Inner}
      /\ body[k] \in {WithLocal, Inner} => body[j] # body[k]

Bodies == {body \in UNION {[1..n -> BodyStatements] : n \in 0..3} : IsKept(body)}

Loops(body) ==
  {While(AskCall, Scope(body), Null),
   For(<<Let(Ident("i"), Num(0))>>, Infix("<", Ident("i"), Num(2)), <<Postfix("++", Ident("i"))>>, Scope(body))}

-----------------------------------------------------------------------------
(* Arrays, dicts and references. *)

x == Ident("x")
y == Ident("y")
b == Ident("b")

ElementOf(v, index) == [kind |-> "INDEX", ds |-> v, index |-> index]
Dict(pairs) == [kind |-> "DICT", elements |-> pairs]
RefTo(e) == [kind |-> "REF", refExpr |-> e]
Ds(function, arguments) == ExprStmt(LibraryCall("ds", function, arguments))
PrintDs(function, arguments) == PrintStmt(LibraryCall("ds", function, arguments))
Minus(n) == Prefix("-", Num(n))
TrueLiteral == Literal(<<"bool", TRUE>>)

Containers == <<Let(x, Array(<<Num(1), Num(2), a>>)), Let(y, Dict(<<<<Num(1), Num(4)>>, <<TrueLiteral, Str(<<"s">>)>>, <<Num(1), Num(5)>>>>))>>
Contained(stmts) == Containers \o stmts \o <<PrintStmt(x), PrintStmt(y)>>

(* From the begin and from the end, too far, and of another kind.  A        *)
(* negative multiple of the size is left out: the machine takes it for     *)
(* what is behind the last element and refuses it.                         *)
Indices == {Num(0), Num(2), Num(4), Minus(1), Minus(2), Minus(4), Minus(5), c, NullLiteral, Literal(<<"real", 10, 10>>)}
Elements == {ElementOf(x, i) : i \in Indices} \cup {ElementOf(y, i) : i \in {Num(1), Num(9), Minus(1), TrueLiteral, c, NullLiteral}}
              \cup {ElementOf(Str(<<"s", "t">>), i) : i \in {Num(1), Minus(1), Minus(3)}}

Reads(e) == {<<PrintStmt(e)>>, <<PrintStmt(Infix("+", e, e))>>, <<If(Infix("==", e, a), PrintNum(1), PrintNum(2))>>}
Writes(e) ==
  {<<ExprStmt(Infix("=", e, Num(7)))>>, <<PrintStmt(Infix("-=", e, Num(1)))>>, <<PrintStmt(Prefix("++", e))>>,
   <<PrintStmt(Infix("-", a, Postfix("++", e)))>>, <<While(Infix("<", Postfix("++", e), Num(6)), Scope(<<PrintStmt(x)>>), Null)>>}

IsOfString(e) == e.ds.kind = "LITERAL"

WithElements == UNION {Reads(e) : e \in Elements} \cup UNION {Writes(e) : e \in {f \in Elements : ~ IsOfString(f)}}

(* What changes an array or a dict, one after the other: also through      *)
(* another name.                                                           *)
Changing ==
  {Let(d, x), ExprStmt(Infix("=", ElementOf(x, Num(0)), Str(<<"s">>))), Ds("insert", <<x, Num(0), Num(7)>>),
   Ds("erase", <<x, Num(1)>>), Ds("erase", <<y, Num(1)>>), ExprStmt(Infix("=", ElementOf(y, Num(1)), c)),
   PrintStmt(Infix("==", x, Array(<<Num(1), Literal(<<"real", 20, 10>>), a>>)))}

ChangingToo ==
  {ExprStmt(Infix("=", ElementOf(x, Minus(1)), y)), Ds("insert", <<x, Num(3), Num(7)>>), Ds("insert", <<y, Num(2), x>>),
   PrintDs("erase", <<x, Num(0)>>), Ds("erase", <<a, Num(0)>>), Ds("insert", <<y, Num(1), a>>), PrintDs("sizeof", <<x>>), PrintDs("sizeof", <<y>>),
   PrintStmt(Infix("==", y, Dict(<<<<TrueLiteral, Str(<<"s">>)>>, <<Num(1), Num(5)>>>>))), ExprStmt(Infix("=", x, Array(<<>>)))}

(* A name is declared once, and arrays that contain themselves cannot be   *)
(* shown.                                                                  *)
IsOnce(w, stmt) == Cardinality({k \in DOMAIN w : w[k] = stmt}) <= 1
IsCyclic(w) == {Ds("insert", <<y, Num(2), x>>), ExprStmt(Infix("=", ElementOf(x, Minus(1)), y))} \subseteq Range(w)

InSequence ==
  {w \in [1..3 -> Changing] \cup [1..2 -> Changing \cup ChangingToo] : IsOnce(w, Let(d, x)) /\ ~ IsCyclic(w)}

(* References to a number. *)
Targets == {a, ElementOf(x, Num(1)), ElementOf(y, Num(1))}

InBlock == Scope(<<Let(d, Infix("+", b, Num(1))), ExprStmt(Infix("=", b, d))>>)

ThroughRef(t) ==
  {ExprStmt(Infix("=", b, Num(5))), ExprStmt(Infix("=", t, Num(7))), ExprStmt(Infix("+=", b, Num(1))), ExprStmt(Prefix("++", b)),
   PrintStmt(Postfix("--", b)), PrintStmt(b), PrintStmt(Infix("-", b, t)), ExprStmt(Infix("-=", t, b)), PrintStmt(Prefix("-", b)),
   PrintStmt(Infix("==", b, t)), InBlock}

TwiceThroughRef(t) == {w \in [1..2 -> ThroughRef(t)] : IsOnce(w, InBlock)}

Referring ==
  UNION {{<<Let(b, RefTo(t))>> \o w : w \in TwiceThroughRef(t)} : t \in Targets}
    \cup {<<Let(b, RefTo(ElementOf(x, Minus(1)))), stmt>> : stmt \in ThroughRef(ElementOf(x, Minus(1)))}
    \cup {<<Scope(<<Let(Ident("f"), Num(1)), Let(b, RefTo(Ident("f")))>> \o w \o <<PrintStmt(Ident("f"))>>)>> :
            w \in TwiceThroughRef(Ident("f"))}
    \cup {<<Scope(<<Let(Ident("f"), Array(<<a, c>>)), Let(b, RefTo(ElementOf(Ident("f"), Num(0))))>> \o w \o <<PrintStmt(Ident("f"))>>)>> :
            w \in [1..1 -> ThroughRef(ElementOf(Ident("f"), Num(0)))]}
    \cup {<<Let(b, RefTo(x))>> \o w :
            w \in [1..3 -> {ExprStmt(Infix("=", b, Array(<<Num(5)>>))), ExprStmt(Infix("=", x, Array(<<a, c>>))), PrintStmt(b),
                            PrintStmt(Infix("==", b, x)), ExprStmt(Infix("=", ElementOf(x, Num(0)), Num(3)))}]}
    \cup {<<Let(b, RefTo(t))>> : t \in {ElementOf(x, c), ElementOf(a, Num(0))}}
    \cup {<<Let(b, RefTo(ElementOf(y, Num(9))))>> \o w : w \in {<<>>, <<PrintStmt(b), ExprStmt(Infix("=", b, a)), Ds("insert", <<y, c, Num(2)>>)>>}}
    \cup {<<While(AskCall, Scope(<<Let(d, a), Let(b, RefTo(d)), ExprStmt(Prefix("++", b)), ExprStmt(Infix("=", a, d))>>), Null)>>}

-----------------------------------------------------------------------------
(* Declarations and assignments of several. *)

Dots(name) == [kind |-> "VAR_ARG", argName |-> name]
f == Ident("f")

Several ==
  {Let(Array(<<d, f>>), v) : v \in {Array(<<a, c>>), Array(<<Num(1)>>), Num(5), a}}
    \cup {Let(Array(<<d, Dots("f")>>), Array(<<Num(1), a, c>>)), Let(Array(<<d, f, Dots("")>>), Array(<<a, c, Num(1)>>)),
          Var("IMMUTABLE", <<<<Array(<<d, Ident("g")>>), Array(<<a, x>>)>>, <<f, Num(2)>>>>),
          Let(Array(<<d, f>>), LibraryCall("ds", "erase", <<x, Num(0)>>))}

Assigning ==
  {<<ExprStmt(Infix("=", Array(targets), v))>> :
     targets \in {<<a, c>>, <<c, a, ElementOf(x, Num(0))>>, <<a, Dots("")>>, <<ElementOf(x, Minus(1)), ElementOf(x, Num(0))>>},
     v \in {Array(<<c, a>>), Array(<<ElementOf(x, Num(0)), a, Num(7)>>), x, Num(7)}}
    \cup {<<ExprStmt(Infix("=", Array(<<a, Dots("c")>>), v)), PrintStmt(c)>> : v \in {x, Array(<<Num(1), Num(2), Num(3)>>), Num(7)}}

Declaring ==
  UNION {{<<several, PrintStmt(d), PrintStmt(f)>>, <<Scope(<<several, Let(Ident("h"), a), PrintStmt(f), PrintStmt(Ident("h")), PrintStmt(d)>>)>>} :
           several \in Several}

WithContainers == WithElements \cup InSequence \cup Referring \cup Assigning \cup Declaring

-----------------------------------------------------------------------------
(* Functions. *)

p == Ident("p")
q == Ident("q")
g == Ident("g")
h == Ident("h")

Fn(name, params, stmts) == Function(name, params, Scope(stmts))
Lambda(params, stmts) == [kind |-> "LAMBDA", parameters |-> params, body |-> Scope(stmts)]
Set(target, e) == ExprStmt(Infix("=", target, e))
Add1(target) == ExprStmt(Infix("+=", target, Num(1)))

(* What a body consists of: locals, blocks, loops and ways out of them,    *)
(* one after the other.  A name is declared once, and no local comes after *)
(* a block that has one, which would be numbered after that.               *)
WithLocals ==
  {Scope(<<Let(x, p), Let(y, Num(1)), If(AskCall, Return(Infix("-", x, y)), Null), Set(p, Num(8))>>),
   While(AskCall, Scope(<<Let(b, p), Add1(p), If(c, Return(b), PrintStmt(b))>>), Null)}

Locals == {Let(d, Infix("+", p, a)), Let(p, Num(9))}

BodyParts ==
  Locals \cup WithLocals
    \cup {ExprStmt(Postfix("++", p)), Set(a, p), PrintStmt(p), If(c, Return(p), Null), While(AskCall, Scope(<<Add1(p), LeaveIt>>), Null)}

FunctionBodies ==
  {body \in UNION {[1..n -> BodyParts] : n \in 0..2} :
     \A k, j \in DOMAIN body : k < j => /\ body[k] # body[j]
                                        /\ body[k] \in WithLocals => body[j] \notin Locals \cup WithLocals}

(* Once with an argument that is counted later, once as an operand. *)
WithBodies ==
  UNION {{<<Fn("g", <<p>>, Append(body, Return(e))), PrintStmt(Call(g, <<CountUp>>)), PrintStmt(Infix("-", a, Call(g, <<Num(2)>>)))>> :
            body \in {w \in FunctionBodies : \A k \in DOMAIN w : w[k].kind \notin {"IF", "WHILE", "SCOPE"} \/ e = p}} :
          e \in {p, Infix("*", p, a), Condition(c, a, p)}}

(* Where calls stand. *)
Uses(e) ==
  {<<PrintStmt(Call(g, <<Call(g, <<e>>)>>))>>, <<Set(a, Infix("+", Call(g, <<e>>), Call(g, <<a>>)))>>,
   <<If(Infix("==", Call(g, <<e>>), a), PrintNum(1), PrintStmt(Call(g, <<Num(2)>>)))>>,
   <<Scope(<<Let(d, Num(1)), Let(x, Call(g, <<d>>)), Set(d, Call(g, <<x>>)), PrintStmt(x), PrintStmt(d)>>)>>,
   <<While(Infix("<", Call(g, <<Postfix("++", a)>>), Num(9)), Scope(<<Let(d, e), PrintStmt(Call(g, <<d>>))>>), Null)>>,
   <<PrintStmt(Array(<<e, Call(g, <<e>>), Infix("&&", c, Call(g, <<a>>))>>))>>, <<Return(Call(g, <<e>>))>>}

Recursive ==
  {<<If(Infix("<", p, Num(2)), Return(p), Null), Return(Infix("+", Call(g, <<Infix("-", p, Num(1))>>), Call(g, <<Infix("-", p, Num(2))>>)))>>,
   <<Let(d, p), If(Infix(">", p, Num(0)), Scope(<<Let(x, Call(g, <<Infix("-", p, Num(1))>>)), Return(Infix("-", d, x))>>), Null), Return(d)>>}

WithUses ==
  UNION {{<<Fn("g", <<p>>, body)>> \o use : use \in Uses(e)} :
           body \in {<<Let(d, p), Return(Infix("*", d, Num(2)))>>, <<If(Infix("<", p, Num(4)), Return(Num(4)), Null), Return(p)>>},
           e \in {a, Num(5)}}
    \cup {<<Fn("g", <<p>>, body), PrintStmt(Call(g, <<Num(4)>>))>> : body \in Recursive}

-----------------------------------------------------------------------------
(* Captured variables: closures that count, share what they count, and     *)
(* outlive the function or the block that declares it.                     *)

Up(v) == Fn("up", <<>>, <<ExprStmt(Infix("+=", v, Num(1))), Return(v)>>)
Get(v) == Fn("get", <<q>>, <<Return(Infix("-", v, q))>>)
UpOf == Call(Ident("up"), <<>>)
GetOf == Call(Ident("get"), <<Num(1)>>)

Inside(v) == {PrintStmt(UpOf), Set(v, Num(7)), PrintStmt(Infix("-", v, GetOf)), Add1(v)}
Outside == {PrintStmt(Call(g, <<>>)), PrintStmt(Call(h, <<>>)), Set(a, Call(g, <<>>)), Set(g, h)}

Makers ==
  UNION {{<<Fn("make", <<p>>, <<Let(d, Num(5)), Up(v), Get(v)>> \o w \o <<Return(Ident("up"))>>), Let(g, Call(Ident("make"), <<a>>)),
            Let(h, Call(Ident("make"), <<Num(1)>>)), PrintStmt(Call(g, <<>>)), PrintStmt(Call(h, <<>>)), PrintStmt(Call(g, <<>>))>> :
            w \in UNION {[1..n -> Inside(v)] : n \in 0..2}} : v \in {d, p}}
    \cup {<<Fn("make", <<p>>, <<Up(p), Return(Ident("up"))>>), Let(g, Call(Ident("make"), <<a>>)), Let(h, Call(Ident("make"), <<a>>))>> \o w :
            w \in [1..3 -> Outside]}
    \cup {<<Fn("make", <<p>>, <<Let(d, p), Up(d), Get(d), Return(Array(<<Ident("up"), Ident("get")>>))>>),
            Let(Array(<<g, h>>), Call(Ident("make"), <<a>>)), PrintStmt(Call(g, <<>>)), PrintStmt(Call(h, <<Num(1)>>))>>}

InBlocks ==
  {<<Scope(<<Let(d, a), Scope(<<Up(d)>> \o w \o <<PrintStmt(d)>>), PrintStmt(d)>>)>> :
     w \in [1..2 -> {PrintStmt(UpOf), Set(d, Num(7)), Add1(d)}]}
    \cup {<<Let(g, Num(0)), While(AskCall, Scope(<<Let(d, a), Scope(<<Up(d), Set(g, Ident("up"))>>), Add1(d), Add1(a), PrintStmt(Call(g, <<>>))>>), Null),
            PrintStmt(Call(g, <<>>)), PrintStmt(Call(g, <<>>))>>,
          <<Fn("make", <<p>>, <<If(c, Scope(<<Let(d, p), Up(d), Return(Ident("up"))>>), Null), Return(p)>>), Let(g, Call(Ident("make"), <<a>>)), PrintStmt(Call(g, <<>>))>>}

(* A reference to a captured variable, in its slot and after that is gone. *)
OfCaptured ==
  {<<Fn("make", <<p>>, <<Let(d, Array(<<p, Num(2)>>)), Fn("up", <<>>, <<Let(b, RefTo(t)), Set(b, e), Return(Infix("==", t, b))>>)>> \o w
                         \o <<Return(Ident("up"))>>),
     Let(g, Call(Ident("make"), <<a>>)), PrintStmt(Call(g, <<>>)), PrintStmt(Call(g, <<>>))>> :
     t \in {d, p, ElementOf(d, Num(0))}, e \in {Num(6), a}, w \in {<<>>, <<PrintStmt(UpOf), PrintStmt(p), PrintStmt(d)>>}}

-----------------------------------------------------------------------------
(* Arguments: too few, too many, in an array, and references to variables  *)
(* of the caller.                                                          *)

Arguments == UNION {[1..n -> {a, Num(1)}] : n \in 0..3}

VarArgs ==
  UNION {{<<Fn("g", params, <<PrintStmt(Call(Ident("first"), <<e>>)), Return(e)>>), PrintStmt(Call(g, arguments)), PrintStmt(a)>> :
            arguments \in Arguments} :
          params \in {<<Dots("p")>>, <<q, Dots("p")>>}, e \in {p}}
    \cup {<<Fn("g", <<p, Dots("")>>, <<Let(d, p), Return(Infix("+", d, a))>>), PrintStmt(Call(g, arguments))>> : arguments \in Arguments}

First == Fn("first", <<p>>, <<Return(p)>>)

Overloads ==
  <<Fn("g", <<>>, <<Return(Num(1))>>), Fn("g", <<p>>, <<Return(Infix("+", p, a))>>), Fn("g", <<p, q>>, <<Return(Infix("-", p, q))>>), Let(h, g)>>

Counted2 == {Call(g, <<>>), Call(g, <<a>>), Call(g, <<a, Num(1)>>), Call(g, <<Call(g, <<>>), Call(g, <<c>>)>>),
             Call(h, <<Num(2), Num(1)>>), Call(h, <<a>>)}

Apply == Fn("apply", <<h, p>>, <<Let(d, Call(h, <<p>>)), Return(d)>>)
Twice == Lambda(<<p>>, <<Return(Infix("*", p, Num(2)))>>)
Nothing == Lambda(<<p>>, <<PrintStmt(p)>>)

Applied ==
  {<<Apply, Let(x, Array(<<Twice, Nothing>>)), PrintStmt(e), PrintStmt(a)>> :
     e \in {Call(Ident("apply"), <<Twice, a>>), Call(Ident("apply"), <<Ident("first"), Call(Ident("apply"), <<Nothing, Num(2)>>)>>),
            Call(ElementOf(x, Num(0)), <<Num(4)>>), Call(ElementOf(x, Num(1)), <<CountUp>>), Call(Ident("apply"), <<a, Num(1)>>),
            Call(Ident("apply"), <<Lambda(<<p, q>>, <<Return(q)>>), a>>), Call(Ident("apply"), <<Lambda(<<Dots("q")>>, <<Return(q)>>), a>>)}}

Altering == Fn("alter", <<p, q>>, <<Set(p, Infix("+", p, q)), Return(Infix("*", p, Num(1)))>>)
AlterOf(e, f0) == PrintStmt(Call(Ident("alter"), <<e, f0>>))

ByReference ==
  {<<Altering, Let(x, Array(<<Num(1), a>>)), AlterOf(RefTo(t), e), AlterOf(e, RefTo(t)), PrintStmt(x)>> :
     t \in {a, ElementOf(x, Num(1))}, e \in {Num(2), a}}
    \cup {<<Altering, Scope(<<Let(d, Num(1)), Let(x, Num(4)), AlterOf(RefTo(d), x), AlterOf(RefTo(x), RefTo(d)), PrintStmt(d), PrintStmt(x)>>)>>,
          <<Altering, Fn("g", <<p>>, <<Let(d, p), AlterOf(RefTo(d), p), AlterOf(RefTo(p), d), Return(Infix("-", d, p))>>), PrintStmt(Call(g, <<a>>))>>}

WithFunctions ==
  WithBodies \cup WithUses \cup Makers \cup InBlocks \cup OfCaptured \cup ByReference
    \cup {<<First>> \o stmts : stmts \in VarArgs \cup Applied} \cup {Overloads \o <<PrintStmt(e)>> : e \in Counted2}

(* As many constants as there may be. *)
AtTheLimit == [k \in 1..10 |-> PrintNum(k)] \o <<ExprStmt(Num(7))>>

MCPrograms ==
  {Around(stmts) : stmts \in {AtTheLimit} \cup {<<PrintStmt(e)>> : e \in Two} \cup InPlaces
                             \cup {<<loop>> : loop \in UNION {Loops(body) : body \in Bodies}}
                             \cup {Contained(stmts) : stmts \in WithContainers} \cup WithFunctions}

=============================================================================

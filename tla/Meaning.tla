------------------------------ MODULE Meaning ------------------------------
(***************************************************************************)
(* What a script means: a reference to hold the compiler and the machine   *)
(* against, which knows neither of instructions nor of a stack.            *)
(*                                                                         *)
(* Means(n, e) is what becomes of the environment e when the node n of a   *)
(* script, as it is written, is evaluated or executed:                     *)
(*   scopes    the names in the blocks around, the innermost first, each     *)
(*             with the number of the variable it stands for                 *)
(*   variables the variables, of which each has a value or is an alias of    *)
(*             a variable or an element, <<"alias", place>>                  *)
(*   heap      the arrays and dicts, as in Values                            *)
(*   list      the values of the expressions in a list                       *)
(*   out       what has been printed                                       *)
(*   answers   the answers to host.ask() that are still to come            *)
(*   due       what postfix expressions have still to count                *)
(*   val       the value of the node                                       *)
(*   sig       "go", or why the nodes after this one are left out          *)
(* The language says: a prefix ++ counts at once, a postfix one when the   *)
(* statement or condition it is in has been evaluated                      *)
(* (examples/increment-op.cys); && and || give an operand and leave the    *)
(* second out where the first decides; null and false are false, and       *)
(* everything else is true.  A function is a value, <<"fn", node, scopes>>,   *)
(* with the names where it is written; functions of one name are told      *)
(* apart by the number of their parameters.                                *)
(***************************************************************************)
EXTENDS Parsing, Values

Beginning(answers) ==
  [scopes |-> <<<<>>>>, variables |-> <<>>, heap |-> <<>>,
   list |-> <<>>, out |-> <<>>, answers |-> answers, due |-> <<>>, val |-> NullValue, sig |-> "go"]

After(e, Rest(_)) == IF e.sig = "go" THEN Rest(e) ELSE e

Gives(e, value) == IF value = Failure THEN [e EXCEPT !.sig = "failed"] ELSE [e EXCEPT !.val = value]
Stop(e, sig) == [e EXCEPT !.sig = sig]

InScope(e, Rest(_)) == LET f == Rest([e EXCEPT !.scopes = <<<<>>>> \o @]) IN [f EXCEPT !.scopes = Tail(@)]

(* A name goes with a number of parameters, or any: a call of it with so   *)
(* many arguments means it.  Of several in a block, the last one counts.   *)
AnyNumber == -1
Fits(scope, name, count) ==
  {k \in DOMAIN scope : k[1] = name /\ (k[2] = AnyNumber \/ count = AnyNumber \/ k[2] = count)}

VariablePlace(e, name, count) ==
  LET scope == e.scopes[Min({k \in DOMAIN e.scopes : Fits(e.scopes[k], name, count) # {}})]
  IN  <<"variable", Max({scope[k] : k \in Fits(scope, name, count)})>>

ElementIn(v, k) == <<"element", v[2], k>>
IsAlias(v) == v[1] = "alias"

Kept(e, place) == IF place[1] = "variable" THEN e.variables[place[2]] ELSE e.heap[place[2]].elements[place[3]]

PlaceIn(e, place) == IF IsAlias(Kept(e, place)) THEN Kept(e, place)[2] ELSE place
PlaceOf(e, name) == PlaceIn(e, VariablePlace(e, name, AnyNumber))

ValueOf(e, name, count) == Kept(e, PlaceIn(e, VariablePlace(e, name, count)))

BindCounted(e, name, count, value) ==
  [e EXCEPT !.scopes[1] = (<<name, count>> :> Len(e.variables) + 1) @@ @, !.variables = Append(@, value)]
Bind(e, name, value) == BindCounted(e, name, AnyNumber, value)

Assign(e, place, value) ==
  IF place[1] = "variable" THEN [e EXCEPT !.variables[place[2]] = value]
  ELSE [e EXCEPT !.heap[place[2]].elements = [@ EXCEPT ![place[3]] = value]]

Create(e, kind, elements) ==
  [e EXCEPT !.heap = Append(@, [kind |-> kind, elements |-> elements]), !.val = <<"object", Len(e.heap) + 1>>]

SeenIn(e, v) == Shown(e.heap, v)

(* Counting up or down. *)
Counted(op, value) == IF IsNumber(value) THEN Calculated(IF op = "++" THEN "+" ELSE "-", value, IntValue(1)) ELSE Failure

(* What an expression that counts or is counted stands for. *)
RECURSIVE TargetOf(_)
TargetOf(n) ==
  CASE n.kind = "PREFIX" -> TargetOf(n.right)
    [] n.kind = "POSTFIX" -> TargetOf(n.left)
    [] OTHER -> n

(* Nodes that no script has: what other nodes end with. *)
Storing(target, value) == [kind |-> "STORE", target |-> target, value |-> value]
Settling == [kind |-> "SETTLE"]

(* Operators on two values; neither comparison holds of what is no number. *)
Operated(op, l, r) ==
  CASE op = "+" /\ IsStr(l) /\ IsStr(r) -> <<"str", l[2] \o r[2]>>
    [] op \in {"+", "-", "*", "/"} /\ IsNumber(l) /\ IsNumber(r) -> Calculated(op, l, r)
    [] op \in {"%", "&", "|", "^", "<<", ">>"} /\ IsInt(l) /\ IsInt(r) -> Calculated(op, l, r)
    [] op \in {"<", ">"} -> BoolValue(IsNumber(l) /\ IsNumber(r) /\ Compared(op, l, r))
    [] op = "<=" -> BoolValue(~ (IsNumber(l) /\ IsNumber(r) /\ Compared(">", l, r)))
    [] op = ">=" -> BoolValue(~ (IsNumber(l) /\ IsNumber(r) /\ Compared("<", l, r)))
    [] op = "==" -> BoolValue(Equal(l, r))
    [] op = "!=" -> BoolValue(~ Equal(l, r))
    [] OTHER -> Failure

(* a += b is a = a + b. *)
Compound == Assignments \ {"="}
Simple(op) == SubSeq(op, 1, Len(op) - 1)

(* The function of a library that a call names; a library has no other     *)
(* members.                                                                *)
Functions == {<<"io", "println">>, <<"host", "ask">>, <<"ds", "sizeof">>, <<"ds", "insert">>, <<"ds", "erase">>}
FunctionOf(n) ==
  IF n.callee.kind = "DOT" /\ <<n.callee.callee.literal, n.callee.callMember.literal>> \in Functions
  THEN n.callee.callMember.literal ELSE "none"

(* What a for statement begins with and goes on with. *)
AsStatements(nodes) == [k \in DOMAIN nodes |-> IF nodes[k].kind = "VAR" THEN nodes[k] ELSE ExprStmt(nodes[k])]

(* Later pairs of a key and a value win. *)
Paired(values) ==
  FoldLeft(LAMBDA d, k : (values[2 * k - 1] :> values[2 * k]) @@ d, <<>>, [k \in 1..(Len(values) \div 2) |-> k])

(* What inserting or erasing leaves in an array or a dict. *)
Altered(e, v, Changed(_)) ==
  IF ~ IsObject(v) \/ Changed(e.heap[v[2]]) = {} THEN Stop(e, "failed")
  ELSE [e EXCEPT !.heap[v[2]].elements = CHOOSE elements \in Changed(e.heap[v[2]]) : TRUE, !.val = v]

(* An index counts the elements from the first on and begins again where   *)
(* they end; a negative one counts from the last back.                     *)
Indexed(elements, index) ==
  {k \in DOMAIN elements : IsInt(index) /\ (index[2] - (k - 1)) % Len(elements) = 0}

Places(e, v, index) ==
  CASE IsStr(v) -> Indexed(v[2], index)
    [] IsObject(v) /\ e.heap[v[2]].kind = "array" -> Indexed(e.heap[v[2]].elements, index)
    [] IsObject(v) /\ e.heap[v[2]].kind = "dict" -> {index} \cap DOMAIN e.heap[v[2]].elements

Looked(e, v, index) ==
  LET places == Places(e, v, index)
  IN  IF places = {} THEN Failure ELSE Element(e.heap, v, CHOOSE k \in places : TRUE)

(* Writing an element: only a dict gets new ones. *)
StoreAt(e, v, index, value) ==
  IF IsObject(v) /\ e.heap[v[2]].kind = "dict" THEN [e EXCEPT !.heap[v[2]].elements = (index :> value) @@ @]
  ELSE IF Places(e, v, index) = {} THEN Stop(e, "failed")
  ELSE Assign(e, ElementIn(v, CHOOSE k \in Places(e, v, index) : TRUE), value)

(* A list of names takes the elements of an array, null where there are    *)
(* not so many, the last one all that are left if it is written with dots. *)
(* Dots without a name take nothing.                                       *)
Receivers(nodes) == SelectSeq(nodes, LAMBDA node : ~ (IsVarArg(node) /\ node.argName = ""))
ReceiverName(node) == IF IsVarArg(node) THEN node.argName ELSE node.literal

Dealt(e, nodes, value) ==
  LET elements == IF IsObject(value) /\ e.heap[value[2]].kind = "array" THEN e.heap[value[2]].elements ELSE <<value>>
      dealt == [k \in DOMAIN nodes |-> IF k \in DOMAIN elements THEN elements[k] ELSE NullValue]
      f == Create(e, "array", SubSeq(elements, Len(nodes), Len(elements)))
  IN  IF IsVarArg(Last(nodes)) THEN [f EXCEPT !.list = [dealt EXCEPT ![Len(nodes)] = f.val]] ELSE [e EXCEPT !.list = dealt]

(* A declaration of one name, or of several: what is no list and no call   *)
(* is for each of them.                                                    *)
Declared(e, names, value, single) ==
  LET f == IF single THEN [e EXCEPT !.list = [k \in DOMAIN names |-> value]] ELSE Dealt(e, names, value)
  IN  FoldLeft(LAMBDA g, k : Bind(g, ReceiverName(names[k]), f.list[k]), f, [k \in DOMAIN names |-> k])

(* Functions see what is in scope where they are written, themselves       *)
(* included.  Dots as the last parameter take any number of arguments.     *)
ClosureIn(e, n) == <<"fn", n, e.scopes>>
IsFunction(v) == v[1] = "fn"
TakesAny(params) == params # <<>> /\ IsVarArg(Last(params))
Taken(params, count) == IF TakesAny(params) THEN count + 1 >= Len(params) ELSE count = Len(params)

Entering(e, fn, arguments) ==
  LET params == fn[2].parameters
      named == Receivers(params)
      f == IF TakesAny(params) THEN Create(e, "array", SubSeq(arguments, Len(params), Len(arguments))) ELSE e
  IN  FoldLeft(LAMBDA g, k : Bind(g, ReceiverName(named[k]), IF IsVarArg(named[k]) THEN f.val ELSE arguments[k]),
               [f EXCEPT !.scopes = <<<<>>>> \o fn[3], !.due = <<>>, !.val = NullValue], [k \in DOMAIN named |-> k])

(* A function gives what it returns, to the caller as that was.            *)
Leaving(e, caller) ==
  LET f == IF e.sig = "return" THEN [e EXCEPT !.sig = "go"] ELSE IF e.sig = "go" THEN [e EXCEPT !.val = NullValue] ELSE e
  IN  [f EXCEPT !.scopes = caller.scopes, !.due = caller.due, !.list = caller.list]

NamesOf(node) == IF node.kind = "ARRAY" THEN Receivers(node.elements) ELSE <<node>>

(* What a reference is to, if anything: the list holds an array or a dict  *)
(* and an index, where the node has them.                                  *)
Referred(e, node) ==
  IF node.kind = "IDENTIFIER" THEN {PlaceOf(e, node.literal)}
  ELSE {ElementIn(e.list[1], k) : k \in IF IsObject(e.list[1]) THEN Places(e, e.list[1], e.list[2]) ELSE {}}

(* A dict has an entry for what is referred to. *)
Entered(e, node) ==
  IF node.kind = "INDEX" /\ IsObject(e.list[1]) /\ e.heap[e.list[1][2]].kind = "dict"
  THEN [e EXCEPT !.heap[e.list[1][2]].elements = @ @@ (e.list[2] :> NullValue)] ELSE e

RECURSIVE Means(_, _)

(* Of the items of a match or a switch, the first with a value the judged  *)
(* one is equal to, and otherwise the default.                             *)
Chosen(n, e) ==
  LET fits == {k \in DOMAIN n.items : \E v \in Range(n.items[k][1]) :
                                      Equal(SeenIn(e, Means(n.judge, e).val), SeenIn(e, Means(v, e).val))}
  IN  IF fits # {} THEN n.items[Min(fits)][2] ELSE DefaultOf(n.items)

(* A loop is over once its body breaks out of it, or is left altogether. *)
Turn(e, Again(_)) ==
  CASE e.sig = "break" -> [e EXCEPT !.sig = "go"]
    [] e.sig \in {"go", "continue"} -> Again([e EXCEPT !.sig = "go"])
    [] OTHER -> e

Means(n, e) ==
  LET InTurn(nodes, f) == FoldLeft(LAMBDA g, node : After(g, LAMBDA h : Means(node, h)), f, nodes)
      Listing(nodes, f) ==
        FoldLeft(LAMBDA g, node : After(g, LAMBDA h :
                   LET value == Means(node, h) IN [value EXCEPT !.list = Append(h.list, value.val)]),
                 [f EXCEPT !.list = <<>>], nodes)
      Settled(f) == After(f, LAMBDA g : Means(Settling, g))
  IN CASE n.kind = "LITERAL" -> Gives(e, n.value)
       [] n.kind = "IDENTIFIER" -> Gives(e, ValueOf(e, n.literal, AnyNumber))
       [] n.kind = "CALLED" -> Gives(e, ValueOf(e, n.name.literal, n.count))
       [] n.kind = "DOT" -> Stop(e, "failed")
       [] n.kind = "LAMBDA" -> Gives(e, ClosureIn(e, n))
       [] n.kind = "FUNCTION" ->
            LET f == BindCounted(e, n.name, IF TakesAny(n.parameters) THEN AnyNumber ELSE Len(n.parameters), NullValue)
            IN  Assign(f, <<"variable", Len(f.variables)>>, ClosureIn(f, n))
       [] n.kind = "ARRAY" -> After(Listing(n.elements, e), LAMBDA f : Create(f, "array", f.list))
       [] n.kind = "DICT" -> After(Listing(FlattenSeq(n.elements), e), LAMBDA f : Create(f, "dict", Paired(f.list)))
       [] n.kind = "INDEX" -> After(Listing(<<n.ds, n.index>>, e), LAMBDA f : Gives(f, Looked(f, f.list[1], f.list[2])))
       [] n.kind = "STORE" /\ n.value = Failure -> Stop(e, "failed")
       [] n.kind = "STORE" /\ n.value # Failure /\ n.target.kind # "INDEX" ->
            Gives(Assign(e, PlaceOf(e, ReceiverName(n.target)), n.value), n.value)
       [] n.kind = "STORE" /\ n.value # Failure /\ n.target.kind = "INDEX" ->
            After(Listing(<<n.target.ds, n.target.index>>, e), LAMBDA f :
              After(StoreAt(f, f.list[1], f.list[2], n.value), LAMBDA g : Gives(g, n.value)))
       [] n.kind = "SETTLE" ->
            [FoldLeft(LAMBDA f, due : After(f, LAMBDA g : After(Means(due[2], g), LAMBDA h :
                        Means(Storing(due[2], Counted(due[1], h.val)), h))), e, e.due)
               EXCEPT !.due = <<>>, !.val = e.val]
       [] n.kind = "INFIX" /\ n.op = "=" /\ n.left.kind = "ARRAY" ->
            After(Means(n.right, e), LAMBDA f :
              LET targets == Receivers(n.left.elements)
                  dealt == Dealt(f, targets, f.val)
              IN  FoldLeft(LAMBDA g, k : After(g, LAMBDA h : Means(Storing(targets[k], dealt.list[k]), h)), dealt,
                           [k \in DOMAIN targets |-> k]))
       [] n.kind = "INFIX" /\ n.op = "=" /\ n.left.kind # "ARRAY" ->
            After(Means(n.right, e), LAMBDA f : Means(Storing(n.left, f.val), f))
       [] n.kind = "INFIX" /\ n.op \in {"&&", "||"} ->
            After(Means(n.left, e), LAMBDA f : IF IsFalsey(f.val) = (n.op = "&&") THEN f ELSE Means(n.right, f))
       [] n.kind = "INFIX" /\ n.op \notin {"=", "&&", "||"} ->
            After(Means(n.left, e), LAMBDA f : After(Means(n.right, f), LAMBDA g :
              IF n.op \in Compound THEN Means(Storing(n.left, Operated(Simple(n.op), f.val, g.val)), g)
              ELSE Gives(g, Operated(n.op, SeenIn(g, f.val), SeenIn(g, g.val)))))
       [] n.kind = "PREFIX" /\ n.op \in {"++", "--"} ->
            After(Means(n.right, e), LAMBDA f : Means(Storing(TargetOf(n), Counted(n.op, f.val)), f))
       [] n.kind = "PREFIX" /\ n.op \in {"!", "-"} ->
            After(Means(n.right, e), LAMBDA f : Gives(f, Unary(IF n.op = "!" THEN "NOT" ELSE "MINUS", f.val)))
       [] n.kind = "PREFIX" /\ n.op = "~" ->
            After(Means(n.right, e), LAMBDA f : Gives(f, IF IsInt(f.val) THEN IntValue(-1 - f.val[2]) ELSE Failure))
       [] n.kind = "POSTFIX" ->
            After(Means(n.left, e), LAMBDA f : [f EXCEPT !.due = Append(@, <<n.op, TargetOf(n)>>)])
       [] n.kind = "FACTORIAL" -> After(Means(n.expr, e), LAMBDA f : Gives(f, Unary("FACTORIAL", f.val)))
       [] n.kind = "CONDITION" ->
            After(Means(n.condition, e), LAMBDA f : Means(IF IsFalsey(f.val) THEN n.falseBranch ELSE n.trueBranch, f))
       [] n.kind = "CALL" /\ FunctionOf(n) = "println" ->
            After(Means(n.arguments[1], e), LAMBDA f : [f EXCEPT !.out = Append(@, SeenIn(f, f.val)), !.val = NullValue])
       [] n.kind = "CALL" /\ FunctionOf(n) = "ask" ->
            IF e.answers = <<>> THEN Gives(e, BoolValue(FALSE))
            ELSE [e EXCEPT !.val = BoolValue(Head(e.answers)), !.answers = Tail(@)]
       [] n.kind = "CALL" /\ FunctionOf(n) = "sizeof" ->
            After(Listing(n.arguments, e), LAMBDA f : Gives(f, SizeOf(f.heap, f.list[1])))
       [] n.kind = "CALL" /\ FunctionOf(n) = "insert" ->
            After(Listing(n.arguments, e), LAMBDA f :
              Altered(f, f.list[1], LAMBDA object : Inserted(object, f.list[2], f.list[3])))
       [] n.kind = "CALL" /\ FunctionOf(n) = "erase" ->
            After(Listing(n.arguments, e), LAMBDA f : Altered(f, f.list[1], LAMBDA object : Erased(object, f.list[2])))
       [] n.kind = "CALL" /\ FunctionOf(n) = "none" ->
            LET callee == IF n.callee.kind # "IDENTIFIER" THEN n.callee
                          ELSE [kind |-> "CALLED", name |-> n.callee, count |-> Len(n.arguments)]
            IN  After(Listing(<<callee>> \o n.arguments, e), LAMBDA f :
                  LET fn == Head(f.list)
                  IN  IF ~ IsFunction(fn) \/ ~ Taken(fn[2].parameters, Len(n.arguments)) THEN Stop(f, "failed")
                      ELSE Leaving(InTurn(fn[2].body.stmts, Entering(f, fn, Tail(f.list))), f))
       [] n.kind = "COMPOUND" -> InScope(e, LAMBDA f : InTurn(Append(n.stmts, n.endExpr), f))
       [] n.kind \in {"MATCH", "SWITCH"} -> IF Chosen(n, e) = Null THEN e ELSE Means(Chosen(n, e), e)
       [] n.kind = "EXPR" -> Settled(Means(n.expr, e))
       [] n.kind = "VAR" ->
            Settled(FoldLeft(LAMBDA f, v : After(f, LAMBDA g : Means([kind |-> "LET", name |-> v[1], value |-> v[2]], g)),
                             e, n.variables))
       [] n.kind = "LET" ->
            After(Means(n.value, e), LAMBDA f :
              Declared(f, NamesOf(n.name), f.val, n.name.kind # "ARRAY" \/ n.value.kind \notin {"ARRAY", "CALL"}))
       [] n.kind = "REF" ->
            After(Listing(IF n.refExpr.kind = "INDEX" THEN <<n.refExpr.ds, n.refExpr.index>> ELSE <<>>, e),
                  LAMBDA f : LET g == Entered(f, n.refExpr)
                                 places == Referred(g, n.refExpr)
                             IN  IF places = {} THEN Stop(g, "failed")
                                 ELSE Gives(g, <<"alias", CHOOSE place \in places : TRUE>>))
       [] n.kind = "SCOPE" -> InScope(e, LAMBDA f : InTurn(n.stmts, f))
       [] n.kind = "IF" ->
            After(Settled(Means(n.condition, e)), LAMBDA f :
              IF ~ IsFalsey(f.val) THEN Means(n.thenBranch, f)
              ELSE IF n.elseBranch = Null THEN f ELSE Means(n.elseBranch, f))
       [] n.kind = "FOR" ->
            InScope(e, LAMBDA f : After(InTurn(AsStatements(n.init), f), LAMBDA g :
              Means([kind |-> "LOOP", condition |-> n.condition, body |-> n.body,
                     increment |-> AsStatements(n.increment)], g)))
       [] n.kind = "WHILE" -> Means([kind |-> "LOOP", condition |-> n.condition, body |-> n.body, increment |-> <<>>], e)
       [] n.kind = "LOOP" ->
            After(Settled(Means(n.condition, e)), LAMBDA f :
              IF IsFalsey(f.val) THEN f
              ELSE Turn(Means(n.body, f), LAMBDA g : After(InTurn(n.increment, g), LAMBDA h : Means(n, h))))
       [] n.kind = "RETURN" ->
            IF n.expr = Null THEN Stop([e EXCEPT !.val = NullValue], "return")
            ELSE After(Means(n.expr, e), LAMBDA f : Stop(f, "return"))
       [] n.kind = "BREAK" -> Stop(e, "break")
       [] n.kind = "CONTINUE" -> Stop(e, "continue")

(* The whole script: what it prints, whether it ends in order, and then    *)
(* with what value.                                                        *)
Outcome(script, answers) ==
  LET e == FoldLeft(LAMBDA f, n : After(f, LAMBDA g : Means(n, g)), Beginning(answers), script)
  IN  [out |-> e.out, failed |-> e.sig = "failed", result |-> IF e.sig = "return" THEN SeenIn(e, e.val) ELSE NullValue]

=============================================================================

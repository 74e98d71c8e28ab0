------------------------------ MODULE Folding ------------------------------
(***************************************************************************)
(* The pass that folds constants: the tree a script is compiled from.      *)
(*                                                                         *)
(* What is computed here the machine does not compute later, so that the   *)
(* two must agree.  The passes after this one report errors or warnings    *)
(* and change nothing.                                                     *)
(***************************************************************************)
EXTENDS Parsing, Values

IsLiteral(node) == node.kind = "LITERAL"

IntegerOps == {"+", "-", "*", "/", "%", "&", "|", "^", "<<", ">>"}
RealOps == {"+", "-", "*", "/"}
CompareOps == {"==", "!=", ">", ">=", "<", "<="}

(* Two literals and an operator.  Two strings are joined, whatever the     *)
(* operator.                                                               *)
FoldInfix(op, left, right) ==
  IF ~ (IsLiteral(left) /\ IsLiteral(right)) THEN Infix(op, left, right)
  ELSE LET l == left.value
           r == right.value
       IN  CASE IsStr(l) /\ IsStr(r) -> Literal(<<"str", l[2] \o r[2]>>)
             [] IsNumber(l) /\ IsNumber(r) /\ op \in CompareOps -> Literal(BoolValue(Compared(op, l, r)))
             [] IsInt(l) /\ IsInt(r) /\ op \in IntegerOps -> Literal(Calculated(op, l, r))
             [] IsNumber(l) /\ IsNumber(r) /\ ~ (IsInt(l) /\ IsInt(r)) /\ op \in RealOps -> Literal(Calculated(op, l, r))
             [] OTHER -> Infix(op, left, right)

FoldPrefix(op, right) ==
  CASE IsLiteral(right) /\ op = "-" /\ IsNumber(right.value) -> Literal(Unary("MINUS", right.value))
    [] IsLiteral(right) /\ op = "!" /\ IsBool(right.value) -> Literal(Unary("NOT", right.value))
    [] IsLiteral(right) /\ op = "~" /\ IsInt(right.value) -> Literal(IntValue(-right.value[2] - 1))
    [] OTHER -> Prefix(op, right)

(* A condition that is a literal leaves one of the branches, which is      *)
(* nothing at all where an if has no else.                                 *)
Branch(condition, yes, no, other) ==
  IF IsLiteral(condition) /\ IsBool(condition.value) THEN IF condition.value[2] THEN yes ELSE no ELSE other

FoldIf(condition, then, else) == Branch(condition, then, else, If(condition, then, else))
FoldCondition(condition, yes, no) == Branch(condition, yes, no, Condition(condition, yes, no))

RECURSIVE Fold(_)
FoldAll(nodes) == [k \in DOMAIN nodes |-> Fold(nodes[k])]

(* What is not listed is left as it is: returned values, blocks that are   *)
(* expressions, members, new objects, modules, and the increment of a      *)
(* loop.                                                                   *)
Fold(node) ==
  CASE node.kind = "INFIX" -> FoldInfix(node.op, Fold(node.left), Fold(node.right))
    [] node.kind = "PREFIX" -> FoldPrefix(node.op, Fold(node.right))
    [] node.kind = "POSTFIX" -> Postfix(node.op, Fold(node.left))
    [] node.kind = "CONDITION" -> FoldCondition(Fold(node.condition), Fold(node.trueBranch), Fold(node.falseBranch))
    [] node.kind = "GROUP" -> Fold(node.expr)
    [] node.kind = "FACTORIAL" ->
         IF IsLiteral(node.expr) /\ IsInt(node.expr.value) THEN Literal(Unary("FACTORIAL", node.expr.value))
         ELSE [node EXCEPT !.expr = Fold(@)]
    [] node.kind = "ARRAY" -> Array(FoldAll(node.elements))
    [] node.kind = "DICT" -> [node EXCEPT !.elements = [k \in DOMAIN @ |-> FoldAll(@[k])]]
    [] node.kind = "INDEX" -> [node EXCEPT !.ds = Fold(@), !.index = Fold(@)]
    [] node.kind = "CALL" -> Call(Fold(node.callee), FoldAll(node.arguments))
    [] node.kind = "REF" -> [node EXCEPT !.refExpr = Fold(@)]
    [] node.kind = "EXPR" -> ExprStmt(Fold(node.expr))
    [] node.kind = "SCOPE" -> Scope(FoldAll(node.stmts))
    [] node.kind = "IF" ->
         FoldIf(Fold(node.condition), Fold(node.thenBranch),
                IF node.elseBranch = Null THEN Null ELSE Fold(node.elseBranch))
    [] node.kind = "WHILE" -> While(Fold(node.condition), Fold(node.body), node.increment)
    [] node.kind = "VAR" -> [node EXCEPT !.variables = [k \in DOMAIN @ |-> <<@[k][1], Fold(@[k][2])>>]]
    [] node.kind = "ENUM" -> [node EXCEPT !.enumItems = [k \in DOMAIN @ |-> <<@[k][1], Fold(@[k][2])>>]]
    [] node.kind \in {"FUNCTION", "LAMBDA"} -> [node EXCEPT !.body = Fold(@)]
    [] node.kind = "CLASS" ->
         [node EXCEPT !.members = [k \in DOMAIN @ |-> IF @[k].decl.kind = "ENUM" THEN @[k] ELSE [@[k] EXCEPT !.decl = Fold(@)]]]
    [] OTHER -> node

=============================================================================

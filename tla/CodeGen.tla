------------------------------ MODULE CodeGen ------------------------------
(***************************************************************************)
(* The compiler: from the tree of a script to its instructions.            *)
(*                                                                         *)
(* An instruction is a pair of its code and its operand, 0 where it has    *)
(* none; it stands for the two or more bytes of the code, and distances    *)
(* count instructions.  OP_CLOSURE has the upvalues to capture, too.  The  *)
(* Compile functions of the source are the lists of steps in Plan, in the  *)
(* order of their calls; a step changes the compiler's state s:            *)
(*   code, constants      of the function that is compiled                 *)
(*   symbols, depth       its symbol table and mScopeDepth                 *)
(*   locals, upvalues     mLocalSymbolCount and mUpValues                  *)
(*   statements           not in the code: where its statements begin,     *)
(*                        with the number of slots in use there            *)
(*   outer                all this of the functions around, the script     *)
(*                        first: mFunctionList and the tables `enclosing'  *)
(*   functions            the functions that are finished                  *)
(*   globals              mGlobalSymbolCount of the script                 *)
(*   break, continue      mCurBreakStmtAddress, mCurContinueStmtAddress    *)
(*   at                   the addresses a Compile function keeps           *)
(*   failed               an error has been reported                       *)
(* Classes are left out.                                                   *)
(***************************************************************************)
EXTENDS Parsing, Values

CONSTANT
  ConstantMax  \* the values of the byte that is an index of a constant

ASSUME CodeGenAssumption == ConstantMax \in Nat \ {0}

NoAddress == 0
Unpatched == 65535

(* The libraries whose names are the first globals: `host' stands for one  *)
(* that a program registers which runs scripts.                            *)
Libraries == <<"io", "ds", "host">>

(* A symbol that is no function goes with any number of arguments. *)
AnyCount == -1

Symbol(name, location, index, depth, permission) ==
  [name |-> name, location |-> location, index |-> index, depth |-> depth, permission |-> permission,
   params |-> AnyCount, varArg |-> FALSE, isCaptured |-> FALSE]

ResetStatus ==
  [code |-> <<>>, constants |-> <<>>,
   symbols |-> <<Symbol("_main_start_up", "LOCAL", 0, 0, "IMMUTABLE")>>
                 \o [k \in DOMAIN Libraries |-> Symbol(Libraries[k], "GLOBAL", k - 1, 0, "IMMUTABLE")],
   depth |-> 0, globals |-> Len(Libraries), locals |-> 1, upvalues |-> <<>>, statements |-> {},
   outer |-> <<>>, functions |-> <<>>,
   break |-> NoAddress, continue |-> NoAddress, at |-> <<>>, failed |-> FALSE]

-----------------------------------------------------------------------------
(* Steps. *)

Emit(s, opCode, operand) == [s EXCEPT !.code = Append(@, <<opCode, operand>>)]

(* Mutant of EmitConstant: one constant less has an index of its own. *)
EmitConstantShort(s, value) ==
  [Emit(s, "CONSTANT", Len(s.constants) % (ConstantMax - 1)) EXCEPT !.constants = Append(@, value)]

EmitConstant(s, value) ==
  [Emit(s, "CONSTANT", Len(s.constants) % ConstantMax) EXCEPT !.constants = Append(@, value)]

(* From the instruction after the jump to the next that will be emitted. *)
PatchJump(s, address) == [s EXCEPT !.code[address][2] = Len(s.code) - address]

(* Mutant of PatchPending: breaks and continues keep the placeholder. *)
PatchPendingNever(s, address) == s

PatchPending(s, address) == IF address = NoAddress THEN s ELSE PatchJump(s, address)

EmitLoop(s, address) == Emit(s, "LOOP", Len(s.code) + 2 - address)

Compatible(params, count) == params = AnyCount \/ count = AnyCount \/ params = count

(* The symbols after the last one of a block further out. *)
SameBlock(s) == {k \in DOMAIN s.symbols : \A j \in k..Len(s.symbols) : s.symbols[j].depth >= s.depth}

DefineFunction(s, name, permission, params, varArg) ==
  LET In(location, index) ==
        [Symbol(name, location, index, s.depth, permission) EXCEPT !.params = params, !.varArg = varArg]
  IN  IF \E k \in SameBlock(s) : s.symbols[k].name = name /\ Compatible(s.symbols[k].params, params)
      THEN [s EXCEPT !.failed = TRUE]
      ELSE IF s.depth = 0
      THEN [s EXCEPT !.symbols = Append(@, In("GLOBAL", s.globals)), !.globals = @ + 1]
      ELSE [s EXCEPT !.symbols = Append(@, In("LOCAL", s.locals)), !.locals = @ + 1]

Define(s, name, permission) == DefineFunction(s, name, permission, AnyCount, FALSE)

(* EmitSymbol: a global takes the value off the stack, a local is where it *)
(* lies.                                                                   *)
EmitGlobal(s, symbol) == Emit(Emit(s, "SET_GLOBAL", symbol.index), "POP", 0)

Declare(s, name, permission) ==
  LET t == Define(s, name, permission)
  IN  IF t.failed \/ Last(t.symbols).location = "LOCAL" THEN t ELSE EmitGlobal(t, Last(t.symbols))

EmitSymbol(s, symbol) ==
  IF symbol.location = "GLOBAL" THEN EmitGlobal(s, symbol) ELSE Emit(s, "SET_LOCAL", symbol.index)

(* Several, from the values that OP_APPREGATE_RESOLVE leaves with the      *)
(* first on top: locals of the script begin with the last.                 *)
DeclareAll(s, names, permission) ==
  FoldLeft(LAMBDA t, name : IF t.failed THEN t ELSE Declare(t, name, permission), s,
           IF s.outer = <<>> /\ s.depth > 0 THEN Reverse(names) ELSE names)

-----------------------------------------------------------------------------
(* Names of other functions. *)

Tables(s) == Append(s.outer, s)

Named(table, name, count) ==
  {k \in DOMAIN table.symbols :
     /\ table.symbols[k].name = name /\ table.symbols[k].depth <= table.depth
     /\ Compatible(table.symbols[k].params, count) \/ table.symbols[k].varArg}

(* A captured variable, of the table with the number `depth', has an       *)
(* upvalue; the place of that is what the instructions name.               *)
AddUpValue(table, index, depth) ==
  LET captured == <<index, depth>>
  IN  IF captured \in Range(table.upvalues) THEN table ELSE [table EXCEPT !.upvalues = Append(@, captured)]

UpValueIndex(table, index, depth) == (CHOOSE k \in DOMAIN table.upvalues : table.upvalues[k] = <<index, depth>>) - 1

Unknown == Symbol("", "NONE", 0, 0, "IMMUTABLE")

(* The symbol in the innermost of these tables that has it, and the tables *)
(* then.  A variable of a function around is captured; it is marked if     *)
(* that is the next one.                                                   *)
RECURSIVE Resolve(_, _, _, _)
Resolve(tables, name, count, d) ==
  LET table == Last(tables)
      k == Max(Named(table, name, count))
      found == [tables |-> IF d = 1 THEN [tables EXCEPT ![Len(tables)].symbols[k].isCaptured = TRUE] ELSE tables,
                symbol |-> table.symbols[k]]
      around == Resolve(Front(tables), name, count, d + 1)
      depth == Len(tables) - 2
      mine == AddUpValue(table, around.symbol.index, depth)
  IN  CASE Named(table, name, count) # {} -> found
        [] Named(table, name, count) = {} /\ Len(tables) = 1 -> [tables |-> tables, symbol |-> Unknown]
        [] Named(table, name, count) = {} /\ Len(tables) > 1 ->
             IF around.symbol.location \in {"GLOBAL", "NONE"}
             THEN [tables |-> Append(around.tables, table), symbol |-> around.symbol]
             ELSE [tables |-> Append(around.tables, mine),
                   symbol |-> [around.symbol EXCEPT !.location = "UPVALUE"]]

(* The access is "GET_", "SET_", "REF_" or "REF_INDEX_"; a call of a name  *)
(* tells the number of its arguments.                                      *)
EmitVariable(s, name, access, count) ==
  LET found == Resolve(Tables(s), name, count, 0)
      symbol == found.symbol
      here == Last(found.tables)
      t == [s EXCEPT !.outer = Front(found.tables), !.upvalues = here.upvalues]
  IN  IF symbol.location = "NONE" \/ (access = "SET_" /\ symbol.permission = "IMMUTABLE") THEN [s EXCEPT !.failed = TRUE]
      ELSE Emit(t, access \o symbol.location,
                IF symbol.location = "UPVALUE" THEN UpValueIndex(here, symbol.index, Len(s.outer) - 1) ELSE symbol.index)

(* The locals of the block are popped and their symbols marked as globals; *)
(* the upvalue of one that is captured is closed.                          *)
IsEnding(symbol, depth) == symbol.location = "LOCAL" /\ symbol.depth > depth

(* Mutant of ExitScope: the locals stay on the stack. *)
ExitScopeUnpopped(s) ==
  LET depth == s.depth - 1
  IN  [s EXCEPT !.depth = depth,
                !.symbols = [k \in DOMAIN @ |-> IF IsEnding(@[k], depth) THEN [@[k] EXCEPT !.location = "GLOBAL"] ELSE @[k]]]

ExitScope(s) ==
  LET depth == s.depth - 1
      ending == SelectSeq(s.symbols, LAMBDA symbol : IsEnding(symbol, depth))
  IN  [s EXCEPT !.depth = depth,
                !.code = @ \o [k \in DOMAIN ending |-> <<IF ending[k].isCaptured THEN "CLOSE_UPVALUE" ELSE "POP", 0>>],
                !.symbols = [k \in DOMAIN @ |-> IF IsEnding(@[k], depth) THEN [@[k] EXCEPT !.location = "GLOBAL"] ELSE @[k]]]

SlotsInUse(s) == Len(SelectSeq(s.symbols, LAMBDA symbol : symbol.location = "LOCAL"))

(* A function begins with tables of its own; at its end it is a constant   *)
(* of the function around, from which OP_CLOSURE makes a closure.          *)
Enclosed(s) ==
  [code |-> s.code, constants |-> s.constants, symbols |-> s.symbols, depth |-> s.depth, locals |-> s.locals,
   upvalues |-> s.upvalues, statements |-> s.statements]

Within(s, t) ==
  [s EXCEPT !.code = t.code, !.constants = t.constants, !.symbols = t.symbols, !.depth = t.depth,
            !.locals = t.locals, !.upvalues = t.upvalues, !.statements = t.statements]

OpenFunction(s) ==
  Within([s EXCEPT !.outer = Append(@, Enclosed(s))],
         [code |-> <<>>, constants |-> <<>>, symbols |-> <<>>, depth |-> s.depth + 1, locals |-> 0, upvalues |-> <<>>,
          statements |-> {}])

Finished(s, arity, varArg) ==
  [code |-> s.code, constants |-> s.constants, statements |-> s.statements, arity |-> arity, varArg |-> varArg]

EmitClosure(s, k, captured) ==
  [s EXCEPT !.code = Append(@, <<"CLOSURE", Len(s.constants) % ConstantMax, captured>>),
            !.constants = Append(@, <<"function", k>>)]

CloseFunction(s, arity, varArg, captured) ==
  EmitClosure([Within(s, Last(s.outer)) EXCEPT !.outer = Front(@), !.functions = Append(@, Finished(s, arity, varArg))],
              Len(s.functions) + 1, captured)

(* A lambda ends with a return unless it seems to have one already: the    *)
(* byte that is looked at is the number of the last instruction, if that   *)
(* has one operand.                                                        *)
ReturnCode == 18
OneOperand ==
  {"CONSTANT", "RETURN", "CALL", "ARRAY", "DICT", "APPREGATE_RESOLVE", "APPREGATE_RESOLVE_VAR_ARG"}
    \cup {access \o location : access \in {"GET_", "SET_", "REF_", "REF_INDEX_"}, location \in {"GLOBAL", "LOCAL", "UPVALUE"}}
SeemsReturned(s) == Last(s.code)[1] \in OneOperand /\ Len(s.code) - 1 = ReturnCode

EndLambda(s) == IF SeemsReturned(s) THEN s ELSE Emit(s, "RETURN", 0)

Compiling(node, writing) == <<"compile", node, writing>>
Reading(node) == Compiling(node, FALSE)
Writing(node) == Compiling(node, TRUE)
Statement(node) == <<"statement", node>>
Op(opCode) == <<"emit", opCode, 0>>
OpWith(opCode, operand) == <<"emit", opCode, operand>>
Constant(value) == <<"constant", value>>
Jump(opCode, label) == <<"jump", opCode, label>>
Here(label) == <<"here", label>>
Patch(label) == <<"patch", label>>
Loop(label) == <<"loop", label>>
Do(what) == <<what>>
Access(name, access) == <<"variable", name, access, AnyCount>>

ReadingAll(nodes) == [k \in DOMAIN nodes |-> Reading(nodes[k])]
StatementAll(nodes) == [k \in DOMAIN nodes |-> Statement(nodes[k])]

-----------------------------------------------------------------------------
(* StatsPostfixExprs: the postfix expressions in a node, of which the      *)
(* operand is read in its place and counted up or down after the           *)
(* statement.                                                              *)
RECURSIVE Postfixes(_)

Examined(node) ==
  CASE node.kind = "PREFIX" -> <<node.right>>
    [] node.kind = "POSTFIX" -> <<node.left>>
    [] node.kind = "GROUP" -> <<node.expr>>
    [] node.kind = "INFIX" -> <<node.left, node.right>>
    [] node.kind = "CONDITION" -> <<node.condition, node.trueBranch, node.falseBranch>>
    [] node.kind = "CALL" -> <<node.callee>> \o node.arguments
    [] node.kind = "ARRAY" -> node.elements
    [] node.kind = "DICT" -> FlattenSeq(node.elements)
    [] node.kind = "INDEX" -> <<node.ds, node.index>>
    [] node.kind = "REF" -> <<node.refExpr>>
    [] node.kind \in {"FUNCTION", "LAMBDA"} -> <<node.body>>
    [] node.kind = "SCOPE" -> node.stmts
    [] node.kind \in {"EXPR", "RETURN"} /\ node.expr # Null -> <<node.expr>>
    [] node.kind = "VAR" -> [k \in DOMAIN node.variables |-> node.variables[k][2]]
    [] node.kind = "IF" -> <<node.condition, node.thenBranch, node.elseBranch>>
    [] node.kind = "WHILE" -> <<node.condition, node.body, node.increment>>
    [] OTHER -> <<>>

Postfixes(node) ==
  FlattenSeq([k \in DOMAIN Examined(node) |-> Postfixes(Examined(node)[k])])
    \o (IF node.kind = "POSTFIX" THEN <<node>> ELSE <<>>)

Counting(op) == IF op = "++" THEN "ADD" ELSE "SUB"

(* The left side of an assignment that stands for a prefix expression. *)
RECURSIVE Innermost(_)
Innermost(node) == IF node.kind = "PREFIX" /\ node.op \in {"++", "--"} THEN Innermost(node.right) ELSE node

Count(postfix) ==
  <<Reading(postfix.left), Constant(IntValue(1)), Op(Counting(postfix.op)), Writing(postfix.left), Op("POP")>>

Counts(node) == FlattenSeq([k \in DOMAIN Postfixes(node) |-> Count(Postfixes(node)[k])])

(* The operator of a compound assignment, and the instructions of one. *)
OperatorOf(op) == IF op \in Assignments \ {"="} THEN SubSeq(op, 1, Len(op) - 1) ELSE op

Instructions(op) ==
  CASE op = "+" -> <<"ADD">>
    [] op = "-" -> <<"SUB">>
    [] op = "*" -> <<"MUL">>
    [] op = "/" -> <<"DIV">>
    [] op = "%" -> <<"MOD">>
    [] op = "&" -> <<"BIT_AND">>
    [] op = "|" -> <<"BIT_OR">>
    [] op = "<<" -> <<"BIT_LEFT_SHIFT">>
    [] op = ">>" -> <<"BIT_RIGHT_SHIFT">>
    [] op = "<" -> <<"LESS">>
    [] op = ">" -> <<"GREATER">>
    [] op = "<=" -> <<"GREATER", "NOT">>
    [] op = ">=" -> <<"LESS", "NOT">>
    [] op = "==" -> <<"EQUAL">>
    [] op = "!=" -> <<"EQUAL", "NOT">>
    [] OTHER -> <<>>

(* A list on the left: a last element without a name takes what is left.   *)
Assigned(elements) == SelectSeq(elements, LAMBDA e : ~ (IsVarArg(e) /\ e.argName = ""))
ResolveOpCode(named) == IF named # <<>> /\ IsVarArg(Last(named)) THEN "APPREGATE_RESOLVE_VAR_ARG" ELSE "APPREGATE_RESOLVE"
Resolving(elements) == OpWith(ResolveOpCode(Assigned(elements)), Len(Assigned(elements)))

CompileDestructuring(node) ==
  LET targets == Assigned(node.left.elements)
  IN  <<Reading(node.right), Resolving(node.left.elements)>>
        \o Tail(FlattenSeq([k \in DOMAIN targets |-> <<Op("POP"), Writing(targets[k])>>]))

CompileInfix(node) ==
  CASE node.op = "=" /\ node.left.kind = "ARRAY" -> CompileDestructuring(node)
    [] node.op = "=" /\ node.left.kind # "ARRAY" -> <<Reading(node.right), Writing(node.left)>>
    [] node.op = "&&" ->
         <<Reading(node.left), Jump("JUMP_IF_FALSE", "end"), Op("POP"), Reading(node.right), Patch("end")>>
    [] node.op = "||" ->
         <<Reading(node.left), Jump("JUMP_IF_FALSE", "else"), Jump("JUMP", "end"), Patch("else"), Op("POP"),
           Reading(node.right), Patch("end")>>
    [] OTHER ->
         LET opCodes == Instructions(OperatorOf(node.op))
         IN  <<Reading(node.left), Reading(node.right)>>
               \o [k \in DOMAIN opCodes |-> Op(opCodes[k])]
               \o (IF node.op \in Assignments /\ opCodes # <<>> THEN <<Writing(node.left)>> ELSE <<>>)

CompilePrefix(node) ==
  CASE node.op = "!" -> <<Reading(node.right), Op("NOT")>>
    [] node.op = "-" -> <<Reading(node.right), Op("MINUS")>>
    [] node.op = "~" -> <<Reading(node.right), Op("BIT_NOT")>>
    [] OTHER ->
         <<Reading(node.right), Constant(IntValue(1)), Op(Counting(node.op)), Writing(Innermost(node))>>

CompileIf(node) ==
  <<Reading(node.condition)>> \o Counts(node.condition)
    \o <<Jump("JUMP_IF_FALSE", "else"), Op("POP"), Statement(node.thenBranch), Jump("JUMP", "end"),
         Patch("else"), Op("POP")>>
    \o (IF node.elseBranch = Null THEN <<>> ELSE <<Statement(node.elseBranch)>>)
    \o <<Patch("end")>>

CompileWhile(node) ==
  <<Here("loop"), Reading(node.condition)>> \o Counts(node.condition)
    \o <<Jump("JUMP_IF_FALSE", "else"), Op("POP"), Do("forget"), Statement(node.body), Do("patch continue")>>
    \o (IF node.increment = Null THEN <<>> ELSE <<Statement(node.increment)>>)
    \o <<Loop("loop"), Patch("else"), Op("POP"), Do("patch break"), Do("forget")>>

CompileReturn(node) ==
  IF node.expr = Null THEN <<OpWith("RETURN", 0)>>
  ELSE <<Reading(node.expr), OpWith("RETURN", 1)>> \o Counts(node.expr)

NameOf(node) == CASE node.kind = "IDENTIFIER" -> node.literal [] IsVarArg(node) -> node.argName

CompileVar(name, value, permission) ==
  IF name.kind = "ARRAY"
  THEN LET names == Assigned(name.elements)
       IN  <<Reading(value), Resolving(name.elements),
             <<"declare all", [k \in DOMAIN names |-> NameOf(names[k])], permission>>>>
  ELSE <<Reading(value), <<"declare all", <<NameOf(name)>>, permission>>>>

CompileVars(node) ==
  FlattenSeq([k \in DOMAIN node.variables |-> CompileVar(node.variables[k][1], node.variables[k][2], node.permission)])
    \o FlattenSeq([k \in DOMAIN node.variables |-> Counts(node.variables[k][2])])

(* A reference to a variable or to an element of one. *)
CompileRef(node) ==
  CASE node.kind = "INDEX" /\ node.ds.kind = "IDENTIFIER" ->
         <<Reading(node.index), Access(node.ds.literal, "REF_INDEX_")>>
    [] node.kind = "IDENTIFIER" -> <<Access(node.literal, "REF_")>>
    [] OTHER -> <<Do("refuse")>>

(* Parameters are the first locals, after the function itself. *)
IsVarArgList(params) == params # <<>> /\ IsVarArg(Last(params))
VarArgOf(params) == IF ~ IsVarArgList(params) THEN "NONE" ELSE IF Last(params).argName = "" THEN "WITHOUT_NAME" ELSE "WITH_NAME"

DefineAll(params) ==
  LET named == Assigned(params) IN [k \in DOMAIN named |-> <<"define", NameOf(named[k]), "MUTABLE">>]

CompileBody(node, self) ==
  <<Do("open"), <<"define", self, "IMMUTABLE">>>> \o DefineAll(node.parameters) \o <<Do("enter")>>
    \o StatementAll(node.body.stmts)

(* Every function ends with returning itself. *)
CompileFunction(node) ==
  <<<<"define function", node.name, node.parameters>>>> \o CompileBody(node, node.name)
    \o <<OpWith("GET_LOCAL", 0), OpWith("RETURN", 1), <<"close", node.parameters>>, Do("symbol")>>

CompileLambda(node) == CompileBody(node, "") \o <<Do("end lambda"), <<"close lambda", node.parameters>>>>

CompileCall(node) ==
  <<IF node.callee.kind = "IDENTIFIER" THEN <<"variable", node.callee.literal, "GET_", Len(node.arguments)>>
    ELSE Reading(node.callee)>>
    \o ReadingAll(node.arguments) \o <<OpWith("CALL", Len(node.arguments))>>

Plan(node, writing) ==
  CASE node.kind = "LITERAL" -> IF node.value = NullValue THEN <<Op("NULL")>> ELSE <<Constant(node.value)>>
    [] node.kind \in {"IDENTIFIER", "VAR_ARG"} -> <<Access(NameOf(node), IF writing THEN "SET_" ELSE "GET_")>>
    [] node.kind = "INFIX" -> CompileInfix(node)
    [] node.kind = "PREFIX" -> CompilePrefix(node)
    [] node.kind = "POSTFIX" -> <<Compiling(node.left, writing)>>
    [] node.kind = "FACTORIAL" -> <<Reading(node.expr), Op("FACTORIAL")>>
    [] node.kind = "GROUP" -> <<Reading(node.expr)>>
    [] node.kind = "ARRAY" -> ReadingAll(node.elements) \o <<OpWith("ARRAY", Len(node.elements))>>
    [] node.kind = "DICT" -> ReadingAll(FlattenSeq(node.elements)) \o <<OpWith("DICT", Len(node.elements))>>
    [] node.kind = "INDEX" -> <<Reading(node.ds), Reading(node.index), Op(IF writing THEN "SET_INDEX" ELSE "GET_INDEX")>>
    [] node.kind = "REF" -> CompileRef(node.refExpr)
    [] node.kind = "CONDITION" ->
         <<Reading(node.condition), Jump("JUMP_IF_FALSE", "else"), Op("POP"), Reading(node.trueBranch),
           Jump("JUMP", "end"), Patch("else"), Op("POP"), Reading(node.falseBranch), Patch("end")>>
    [] node.kind = "CALL" -> CompileCall(node)
    [] node.kind = "LAMBDA" -> CompileLambda(node)
    [] node.kind = "FUNCTION" -> CompileFunction(node)
    [] node.kind = "DOT" ->
         <<Reading(node.callee), Constant(<<"str", node.callMember.literal>>),
           Op(IF writing THEN "SET_PROPERTY" ELSE "GET_PROPERTY")>>
    [] node.kind = "COMPOUND" ->
         <<Do("enter")>> \o ReadingAll(node.stmts) \o <<Reading(node.endExpr), Do("exit")>>
    [] node.kind = "EXPR" -> <<Reading(node.expr), Op("POP")>> \o Counts(node.expr)
    [] node.kind = "IF" -> CompileIf(node)
    [] node.kind = "SCOPE" -> <<Do("enter")>> \o StatementAll(node.stmts) \o <<Do("exit")>>
    [] node.kind = "WHILE" -> CompileWhile(node)
    [] node.kind = "RETURN" -> CompileReturn(node)
    [] node.kind = "BREAK" -> <<Do("break")>>
    [] node.kind = "CONTINUE" -> <<Do("continue")>>
    [] node.kind = "VAR" -> CompileVars(node)

RECURSIVE Compile(_, _, _)

Step(step, s) ==
  CASE step[1] = "compile" -> Compile(step[2], step[3], s)
    [] step[1] = "statement" ->
         Compile(step[2], FALSE, [s EXCEPT !.statements = @ \cup {<<Len(s.code) + 1, SlotsInUse(s)>>}])
    [] step[1] = "emit" -> Emit(s, step[2], step[3])
    [] step[1] = "constant" -> EmitConstant(s, step[2])
    [] step[1] = "variable" -> EmitVariable(s, step[2], step[3], step[4])
    [] step[1] = "define" -> Define(s, step[2], step[3])
    [] step[1] = "define function" -> DefineFunction(s, step[2], "IMMUTABLE", Len(step[3]), IsVarArgList(step[3]))
    [] step[1] = "open" -> OpenFunction(s)
    [] step[1] = "close" -> CloseFunction(s, Len(step[2]), VarArgOf(step[2]), s.upvalues)
    [] step[1] = "end lambda" -> EndLambda(s)
    [] step[1] = "close lambda" -> CloseFunction(s, Len(step[2]), VarArgOf(step[2]), <<>>)
    [] step[1] = "symbol" -> EmitSymbol(s, Last(s.symbols))
    [] step[1] = "declare all" -> DeclareAll(s, step[2], step[3])
    [] step[1] = "refuse" -> [s EXCEPT !.failed = TRUE]
    [] step[1] = "jump" -> [Emit(s, step[2], Unpatched) EXCEPT !.at = (step[3] :> Len(s.code) + 1) @@ @]
    [] step[1] = "here" -> [s EXCEPT !.at = (step[2] :> Len(s.code) + 1) @@ @]
    [] step[1] = "patch" -> PatchJump(s, s.at[step[2]])
    [] step[1] = "loop" -> EmitLoop(s, s.at[step[2]])
    [] step[1] = "break" -> [Emit(s, "JUMP", Unpatched) EXCEPT !.break = Len(s.code) + 1]
    [] step[1] = "continue" -> [Emit(s, "JUMP", Unpatched) EXCEPT !.continue = Len(s.code) + 1]
    [] step[1] = "patch break" -> PatchPending(s, s.break)
    [] step[1] = "patch continue" -> PatchPending(s, s.continue)
    [] step[1] = "forget" -> [s EXCEPT !.break = NoAddress, !.continue = NoAddress]
    [] step[1] = "enter" -> [s EXCEPT !.depth = @ + 1]
    [] step[1] = "exit" -> ExitScope(s)

(* One step after the other; an error ends the process. *)
Steps(plan, s) == FoldLeft(LAMBDA t, step : IF t.failed THEN t ELSE Step(step, t), s, plan)

(* A Compile function has its own addresses. *)
Compile(node, writing, s) == [Steps(Plan(node, writing), [s EXCEPT !.at = <<>>]) EXCEPT !.at = s.at]

(* The whole script: a function that ends with a return of nothing, after  *)
(* those that are within it.                                               *)
Compiled(stmts) ==
  LET s == Steps(StatementAll(stmts), ResetStatus)
  IN  [functions |-> Append(s.functions, Finished(Emit(s, "RETURN", 0), 0, "NONE")), failed |-> s.failed]

=============================================================================

---------------------------- MODULE Interpreter ----------------------------
(***************************************************************************)
(* A script from its text to its end: parsed, folded, compiled and run.    *)
(*                                                                         *)
(* The machine takes one instruction per step, of the function whose call  *)
(* frame is the last.  Besides those of Values there are closures,         *)
(* <<"closure", function, upvalues>>, libraries, <<"library", name>>,      *)
(* their functions, <<"native", name>>, and references, <<"ref", place>>,  *)
(* to a global variable, a slot of the stack, a captured variable or an    *)
(* element of an array or a dict.  io.println prints a value; host.ask     *)
(* stands for a function that a program registers, and answers as it       *)
(* likes.  How deep the stack may be is left out: CallStack has that,      *)
(* UpValues the order of the open upvalues, and FunctionCache the results  *)
(* that functions remember (CYS_FUNCTION_CACHE_OPT).                       *)
(***************************************************************************)
EXTENDS Folding, CodeGen, Grammar, Meaning

CONSTANTS
  Programs,    \* the scripts, as statement lists
  MaxAnswers   \* host.ask answers so often as it likes, and then always no

ASSUME InterpreterAssumption == MaxAnswers \in Nat

VARIABLES
  script,    \* what is written
  stage,     \* how far it has come
  tree,      \* the statements after folding
  unit,      \* what the compiler made of them
  frames,    \* the call frames: the closure, ip, the next instruction, and
             \* slots, the place of the closure on the stack
  stack,     \* the values on the stack, the closure of the script first
  upvalues,  \* the captured variables: <<"open", slot>> or <<"closed", value>>
  globals,   \* mGlobalVariables, as far as they have been set
  heap,      \* the arrays and dicts: [kind, elements]
  out,       \* what has been printed
  answers,   \* what host.ask has answered
  result     \* the value the script has ended with

machine == <<frames, stack, upvalues, globals, heap, out, answers, result>>
memory == <<upvalues, globals, heap>>
vars == <<script, stage, tree, unit, machine>>

ClosureOf(function, captured) == <<"closure", function, captured>>
IsClosure(value) == value[1] = "closure"
LibraryOf(name) == <<"library", name>>
Native(name) == <<"native", name>>
MembersOf(value) ==
  CASE value = LibraryOf("io") -> {<<"str", "println">>}
    [] value = LibraryOf("ds") -> {<<"str", "sizeof">>, <<"str", "insert">>, <<"str", "erase">>}
    [] value = LibraryOf("host") -> {<<"str", "ask">>}
    [] OTHER -> {}

NoUnit == [functions |-> <<>>, failed |-> FALSE]

Init ==
  /\ script \in Programs
  /\ stage = "written" /\ tree = <<>> /\ unit = NoUnit
  /\ frames = <<>> /\ stack = <<>> /\ upvalues = <<>> /\ globals = <<>> /\ heap = <<>>
  /\ out = <<>> /\ answers = <<>> /\ result = NullValue

Ends == {"done", "failed"}

-----------------------------------------------------------------------------
(* The driver. *)

ReadScript ==
  LET read == Parse(Written(script))
  IN  /\ stage = "written"
      /\ stage' = IF read.i = 0 THEN "failed" ELSE "read"
      /\ tree' = read.n
      /\ UNCHANGED <<script, unit, machine>>

Optimize ==
  /\ stage = "read"
  /\ stage' = "optimized"
  /\ tree' = FoldAll(tree)
  /\ UNCHANGED <<script, unit, machine>>

(* The script is the last function; its frame has its closure at the       *)
(* bottom of the stack.                                                    *)
FrameOf(closure, slots) == [closure |-> closure, ip |-> 1, slots |-> slots]

CompileScript ==
  /\ stage = "optimized"
  /\ unit' = Compiled(tree)
  /\ stage' = IF unit'.failed THEN "failed" ELSE "running"
  /\ stack' = <<ClosureOf(Len(unit'.functions), <<>>)>>
  /\ frames' = <<FrameOf(stack'[1], 1)>>
  /\ globals' = [k \in 0..(Len(Libraries) - 1) |-> LibraryOf(Libraries[k + 1])]
  /\ UNCHANGED <<script, tree, upvalues, heap, out, answers, result>>

-----------------------------------------------------------------------------
(* The instructions. *)

Frame == Last(frames)
CurFunction == unit.functions[Frame.closure[2]]
Instr == CurFunction.code[Frame.ip]

Executes(opCodes) == stage = "running" /\ Frame.ip \in DOMAIN CurFunction.code /\ Instr[1] \in opCodes
Operand == Instr[2]

Top == Last(stack)
Below(count) == SubSeq(stack, 1, Len(stack) - count)

Stays == UNCHANGED <<script, stage, tree, unit, result>>
Goes(address) == frames' = [frames EXCEPT ![Len(frames)].ip = address] /\ Stays
GoesOn == Goes(Frame.ip + 1)

Fails == stage' = "failed" /\ UNCHANGED <<script, tree, unit, machine>>

Pushes(value) == stack' = Append(stack, value) /\ GoesOn /\ UNCHANGED <<memory, out, answers>>

(* A value in the place of the uppermost ones; none after an error. *)
Replaces(count, value) ==
  IF value = Failure THEN Fails
  ELSE stack' = Append(Below(count), value) /\ GoesOn /\ UNCHANGED <<memory, out, answers>>

(* Where a variable or an element is kept: a captured variable in its slot *)
(* as long as that is there.                                               *)
GlobalPlace(index) == <<"global", index>>
SlotPlace(index) == <<"slot", Frame.slots + index>>
ElementPlace(address, k) == <<"element", address, k>>
CapturedPlace(index) ==
  LET u == Frame.closure[3][index + 1] IN IF upvalues[u][1] = "open" THEN <<"slot", upvalues[u][2]>> ELSE <<"closed", u>>

In(place) ==
  CASE place[1] = "global" -> IF place[2] \in DOMAIN globals THEN globals[place[2]] ELSE NullValue
    [] place[1] = "slot" -> stack[place[2]]
    [] place[1] = "closed" -> upvalues[place[2]][2]
    [] place[1] = "element" -> heap[place[2]].elements[place[3]]

IsRef(value) == value[1] = "ref"
Pointed(value) == IF IsRef(value) THEN In(value[2]) ELSE value

(* What operators and functions see of a value. *)
Seen(value) == Shown(heap, Pointed(value))

Stores(place, value) ==
  /\ globals' = IF place[1] = "global" THEN (place[2] :> value) @@ globals ELSE globals
  /\ stack' = IF place[1] = "slot" THEN [stack EXCEPT ![place[2]] = value] ELSE stack
  /\ upvalues' = IF place[1] = "closed" THEN [upvalues EXCEPT ![place[2]][2] = value] ELSE upvalues
  /\ heap' = IF place[1] = "element" THEN [heap EXCEPT ![place[2]].elements[place[3]] = value] ELSE heap
  /\ GoesOn /\ UNCHANGED <<out, answers>>

(* What is written to a variable that holds a reference is written to      *)
(* where that points.                                                      *)
Sets(place, value) == Stores(IF IsRef(In(place)) THEN In(place)[2] ELSE place, value)

(* A new array or dict in the place of the uppermost values. *)
Creates(count, kind, elements) ==
  /\ heap' = Append(heap, [kind |-> kind, elements |-> elements])
  /\ stack' = Append(Below(count), <<"object", Len(heap) + 1>>)
  /\ GoesOn /\ UNCHANGED <<upvalues, globals, out, answers>>

PushConstant == Executes({"CONSTANT"}) /\ Pushes(CurFunction.constants[Operand + 1])
PushNull == Executes({"NULL"}) /\ Pushes(NullValue)

GetGlobal == Executes({"GET_GLOBAL"}) /\ Pushes(In(GlobalPlace(Operand)))
GetLocal == Executes({"GET_LOCAL"}) /\ Pushes(In(SlotPlace(Operand)))
GetUpValue == Executes({"GET_UPVALUE"}) /\ Pushes(In(CapturedPlace(Operand)))

SetGlobal == Executes({"SET_GLOBAL"}) /\ Sets(GlobalPlace(Operand), Top)
SetLocal == Executes({"SET_LOCAL"}) /\ Sets(SlotPlace(Operand), Top)

(* A captured variable is written itself, also if it holds a reference. *)
SetUpValue == Executes({"SET_UPVALUE"}) /\ Stores(CapturedPlace(Operand), Top)

Pop ==
  /\ Executes({"POP"})
  /\ stack' = Below(1)
  /\ GoesOn /\ UNCHANGED <<memory, out, answers>>

Second == stack[Len(stack) - 1]

OperateBinary == Executes(BinaryOpCodes) /\ Replaces(2, Binary(Instr[1], Seen(Second), Seen(Top)))
OperateUnary == Executes(UnaryOpCodes) /\ Replaces(1, Unary(Instr[1], Seen(Top)))

Target == IF Instr[1] = "LOOP" THEN Frame.ip + 1 - Operand ELSE Frame.ip + 1 + Operand

(* The condition stays on the stack. *)
JumpIfFalse ==
  /\ Executes({"JUMP_IF_FALSE"})
  /\ Goes(IF IsFalsey(Top) THEN Target ELSE Frame.ip + 1)
  /\ UNCHANGED <<stack, memory, out, answers>>

Jumps ==
  /\ Executes({"JUMP", "LOOP"})
  /\ Goes(Target)
  /\ UNCHANGED <<stack, memory, out, answers>>

(* Only libraries have members here. *)
GetProperty ==
  /\ Executes({"GET_PROPERTY"})
  /\ Replaces(2, IF Top \in MembersOf(Second) THEN Native(Top[2]) ELSE Failure)

-----------------------------------------------------------------------------
(* Arrays, dicts and references. *)

IsOf(kind, value) == IsObject(value) /\ heap[value[2]].kind = kind

Upper(count) == SubSeq(stack, Len(stack) - count + 1, Len(stack))

MakeArray == Executes({"ARRAY"}) /\ Creates(Operand, "array", Upper(Operand))

(* Of two equal keys the later one counts. *)
MakeDict ==
  /\ Executes({"DICT"})
  /\ LET pairs == Upper(2 * Operand)
         keys == {pairs[2 * k - 1] : k \in 1..Operand}
         Latest(key) == Max({k \in 1..Operand : pairs[2 * k - 1] = key})
     IN  Creates(2 * Operand, "dict", [key \in keys |-> pairs[2 * Latest(key)]])

(* A value that has no elements is taken off the stack, and nothing put in *)
(* its place.                                                              *)
GetIndex ==
  /\ Executes({"GET_INDEX"})
  /\ IF IsContainer(Second) THEN Replaces(2, At(heap, Second, Top))
     ELSE stack' = Below(2) /\ GoesOn /\ UNCHANGED <<memory, out, answers>>

(* The new value lies below the array or dict and the index, and stays. *)
SetIndex ==
  /\ Executes({"SET_INDEX"}) /\ ~ IsStr(Second)
  /\ LET new == stack[Len(stack) - 2]
         Leaves == stack' = Below(2) /\ GoesOn /\ UNCHANGED <<upvalues, globals, out, answers>>
     IN  \/ /\ IsOf("dict", Second) /\ Leaves
            /\ heap' = [heap EXCEPT ![Second[2]].elements = (Top :> new) @@ @]
         \/ /\ IsOf("array", Second) /\ Leaves
            /\ \E k \in Positioned(heap, Second, Top) : heap' = [heap EXCEPT ![Second[2]].elements[k] = new]
         \/ IsOf("array", Second) /\ Positioned(heap, Second, Top) = {} /\ Fails
         \/ ~ IsObject(Second) /\ Leaves /\ UNCHANGED heap

RefVariable ==
  \/ Executes({"REF_GLOBAL"}) /\ Pushes(<<"ref", GlobalPlace(Operand)>>)
  \/ Executes({"REF_LOCAL"}) /\ Pushes(<<"ref", SlotPlace(Operand)>>)
  \/ Executes({"REF_UPVALUE"}) /\ Pushes(<<"ref", CapturedPlace(Operand)>>)

(* The index is on the stack; a key that a dict has not is entered. *)
RefElement(container) ==
  CASE IsOf("dict", container) ->
         /\ heap' = [heap EXCEPT ![container[2]].elements = @ @@ (Top :> NullValue)]
         /\ stack' = Append(Below(1), <<"ref", ElementPlace(container[2], Top)>>)
         /\ GoesOn /\ UNCHANGED <<upvalues, globals, out, answers>>
    [] IsOf("array", container) ->
         IF Positioned(heap, container, Top) = {} THEN Fails
         ELSE \E k \in Positioned(heap, container, Top) : Replaces(1, <<"ref", ElementPlace(container[2], k)>>)
    [] OTHER -> Fails

RefIndex ==
  \/ Executes({"REF_INDEX_GLOBAL"}) /\ RefElement(In(GlobalPlace(Operand)))
  \/ Executes({"REF_INDEX_LOCAL"}) /\ RefElement(In(SlotPlace(Operand)))
  \/ Executes({"REF_INDEX_UPVALUE"}) /\ RefElement(In(CapturedPlace(Operand)))

(* The elements of an array, the first on top: as many as there are names, *)
(* with nulls for those that are missing.  Anything else is the first.     *)
Resolved(value, count) ==
  LET elements == IF IsOf("array", value) THEN heap[value[2]].elements ELSE <<value>>
  IN  Reverse([k \in 1..count |-> IF k \in DOMAIN elements THEN elements[k] ELSE NullValue])

ResolveArray ==
  /\ Executes({"APPREGATE_RESOLVE"})
  /\ stack' = Below(1) \o Resolved(Top, Operand)
  /\ GoesOn /\ UNCHANGED <<memory, out, answers>>

(* The last name is for an array of what is left. *)
ResolveRest ==
  /\ Executes({"APPREGATE_RESOLVE_VAR_ARG"})
  /\ LET elements == IF IsOf("array", Top) THEN heap[Top[2]].elements ELSE <<Top>>
         rest == <<"object", Len(heap) + 1>>
         Nulls(count) == [k \in 1..count |-> NullValue]
     IN  \/ /\ IsOf("array", Top) /\ Operand < Len(elements)
            /\ heap' = Append(heap, [kind |-> "array", elements |-> SubSeq(elements, Operand, Len(elements))])
            /\ stack' = Append(Below(1), rest) \o Reverse(SubSeq(elements, 1, Operand - 1))
         \/ /\ IsOf("array", Top) /\ Operand >= Len(elements)
            /\ heap' = Append(heap, [kind |-> "array", elements |-> <<>>])
            /\ stack' = Below(1) \o (IF Operand = Len(elements) THEN <<>> ELSE <<rest>> \o Nulls(Operand - Len(elements) - 1))
                          \o Reverse(elements)
         \/ /\ ~ IsOf("array", Top)
            /\ heap' = Append(heap, [kind |-> "array", elements |-> <<>>])
            /\ stack' = Below(1) \o Nulls(Operand - 2) \o <<rest, Top>>
  /\ GoesOn /\ UNCHANGED <<upvalues, globals, out, answers>>

-----------------------------------------------------------------------------
(* Calls. *)

Callee == stack[Len(stack) - Operand]

CallPrint ==
  /\ Executes({"CALL"}) /\ Callee = Native("println") /\ Operand = 1
  /\ out' = Append(out, Seen(Top))
  /\ stack' = Append(Below(2), NullValue)
  /\ GoesOn /\ UNCHANGED <<memory, answers>>

CallAsk ==
  /\ Executes({"CALL"}) /\ Callee = Native("ask")
  /\ \E answer \in IF Len(answers) < MaxAnswers THEN BOOLEAN ELSE {FALSE} :
       /\ answers' = Append(answers, answer)
       /\ stack' = Append(Below(Operand + 1), BoolValue(answer))
  /\ GoesOn /\ UNCHANGED <<memory, out>>

CallSizeOf == Executes({"CALL"}) /\ Callee = Native("sizeof") /\ Operand = 1 /\ Replaces(2, SizeOf(heap, Top))

(* What is inserted into or erased from, with the elements it may have     *)
(* then; it is also the result.                                            *)
Changes(container, changed) ==
  /\ ~ IsStr(container)
  /\ IF ~ IsObject(container) \/ changed = {} THEN Fails
     ELSE /\ \E elements \in changed : heap' = [heap EXCEPT ![container[2]].elements = elements]
          /\ stack' = Append(Below(Operand + 1), container)
          /\ GoesOn /\ UNCHANGED <<upvalues, globals, out, answers>>

CallInsert ==
  /\ Executes({"CALL"}) /\ Callee = Native("insert") /\ Operand = 3
  /\ LET container == stack[Len(stack) - 2] IN Changes(container, Inserted(heap[container[2]], Second, Top))

CallErase ==
  /\ Executes({"CALL"}) /\ Callee = Native("erase") /\ Operand = 2
  /\ Changes(Second, Erased(heap[Second[2]], Top))

CallNothing == Executes({"CALL"}) /\ ~ IsClosure(Callee) /\ Callee[1] # "native" /\ Fails

-----------------------------------------------------------------------------
(* Functions and captured variables. *)

(* The upvalue of a slot, an open one if there is one.                     *)
OpenFor(slot, upvs) == {u \in DOMAIN upvs : upvs[u] = <<"open", slot>>}

(* What is captured are variables of the function that runs, if that is as *)
(* many calls away from the script as it is functions away from it in the  *)
(* text, and otherwise what that has captured itself.                      *)
CaptureAll(captured) ==
  FoldLeft(LAMBDA c, variable :
             LET slot == Frame.slots + variable[1]
             IN  IF variable[2] # Len(frames) - 1 THEN [c EXCEPT !.mine = Append(@, Frame.closure[3][variable[1] + 1])]
                 ELSE IF OpenFor(slot, c.upvs) # {} THEN [c EXCEPT !.mine = Append(@, Max(OpenFor(slot, c.upvs)))]
                 ELSE [upvs |-> Append(c.upvs, <<"open", slot>>), mine |-> Append(c.mine, Len(c.upvs) + 1)],
           [upvs |-> upvalues, mine |-> <<>>], captured)

MakeClosure ==
  /\ Executes({"CLOSURE"})
  /\ LET c == CaptureAll(Instr[3])
     IN  /\ upvalues' = c.upvs
         /\ stack' = Append(stack, ClosureOf(CurFunction.constants[Operand + 1][2], c.mine))
  /\ GoesOn /\ UNCHANGED <<globals, heap, out, answers>>

(* The upvalues of the slots from this one on keep their values. *)
ClosedFrom(slot) ==
  [u \in DOMAIN upvalues |->
     IF upvalues[u][1] = "open" /\ upvalues[u][2] >= slot THEN <<"closed", stack[upvalues[u][2]]>> ELSE upvalues[u]]

CloseUpValue ==
  /\ Executes({"CLOSE_UPVALUE"})
  /\ upvalues' = ClosedFrom(Len(stack))
  /\ stack' = Below(1)
  /\ GoesOn /\ UNCHANGED <<globals, heap, out, answers>>

(* The frame of the caller goes on after the call. *)
Calls(closure, slots) ==
  /\ frames' = Append([frames EXCEPT ![Len(frames)].ip = @ + 1], FrameOf(closure, slots))
  /\ Stays

CallClosure ==
  /\ Executes({"CALL"}) /\ IsClosure(Callee) /\ unit.functions[Callee[2]].varArg = "NONE"
  /\ IF Operand # unit.functions[Callee[2]].arity THEN Fails
     ELSE Calls(Callee, Len(stack) - Operand) /\ UNCHANGED <<stack, memory, out, answers>>

(* The arguments from the last parameter on are an array, or left out. *)
CallVarArg ==
  /\ Executes({"CALL"}) /\ IsClosure(Callee) /\ unit.functions[Callee[2]].varArg # "NONE"
  /\ LET surplus == Operand + 1 - unit.functions[Callee[2]].arity
         isNamed == unit.functions[Callee[2]].varArg = "WITH_NAME"
     IN  IF surplus < 0 THEN Fails
         ELSE /\ Calls(Callee, Len(stack) - Operand)
              /\ stack' = Below(surplus) \o (IF isNamed THEN <<<<"object", Len(heap) + 1>>>> ELSE <<>>)
              /\ heap' = IF isNamed THEN Append(heap, [kind |-> "array", elements |-> Upper(surplus)]) ELSE heap
              /\ UNCHANGED <<upvalues, globals, out, answers>>

(* The values of the frame go, with the function itself. *)
ReturnFrom ==
  /\ Executes({"RETURN"})
  /\ LET value == IF Operand = 0 THEN NullValue ELSE Top
     IN  /\ upvalues' = ClosedFrom(Frame.slots)
         /\ stack' = Append(SubSeq(stack, 1, Frame.slots - 1), value)
         /\ frames' = Front(frames)
         /\ stage' = IF Len(frames) = 1 THEN "done" ELSE stage
         /\ result' = IF Len(frames) = 1 THEN value ELSE result
  /\ UNCHANGED <<script, tree, unit, globals, heap, out, answers>>

Instruction ==
  \/ PushConstant \/ PushNull \/ Pop
  \/ GetGlobal \/ GetLocal \/ GetUpValue \/ SetGlobal \/ SetLocal \/ SetUpValue
  \/ OperateBinary \/ OperateUnary
  \/ JumpIfFalse \/ Jumps \/ GetProperty
  \/ MakeArray \/ MakeDict \/ GetIndex \/ SetIndex \/ RefVariable \/ RefIndex \/ ResolveArray \/ ResolveRest
  \/ CallPrint \/ CallAsk \/ CallSizeOf \/ CallInsert \/ CallErase \/ CallNothing
  \/ MakeClosure \/ CloseUpValue \/ CallClosure \/ CallVarArg \/ ReturnFrom

Next == ReadScript \/ Optimize \/ CompileScript \/ Instruction

(* The machine goes on as long as it can: its loop has no way out but a    *)
(* return and an error.                                                    *)
Spec == Init /\ [][Next]_vars /\ WF_vars(Instruction)

-----------------------------------------------------------------------------
(* The script is at one of its stages, and every function that runs at an  *)
(* instruction, with its slots on the stack.                               *)
TypeOK ==
  /\ stage \in {"written", "read", "optimized", "running"} \cup Ends
  /\ Len(answers) <= MaxAnswers \/ ~ Last(answers)
  /\ stage = "running" => \A k \in DOMAIN frames :
       /\ frames[k].ip \in DOMAIN unit.functions[frames[k].closure[2]].code
       /\ frames[k].slots \in DOMAIN stack

(* Every way through the code begins each statement with as many values on *)
(* the stack as the compiler has counted slots, from where its function's  *)
(* call has left them: the locals and arguments are where the              *)
(* instructions look for them, after any loop, branch, block, call and     *)
(* expression (Compiler.cpp:1472).                                         *)
SlotsAsCounted ==
  stage = "running" => \A s \in CurFunction.statements : s[1] = Frame.ip => Len(stack) + 1 - Frame.slots = s[2]

(* What the machine prints, how it ends and with what value is what the    *)
(* script means, for the answers it got: nothing is lost between the       *)
(* written script and the folded tree, the instructions and the steps      *)
(* (Compiler.cpp:170, ConstantFoldPass.cpp:6, VM.cpp:117).                 *)
RunsAsMeant ==
  stage \in Ends =>
    LET meant == Outcome(script, answers)
    IN  out = meant.out /\ Seen(result) = meant.result /\ (stage = "failed") = meant.failed

(* A script that runs comes to its end: the jumps lead out of every loop   *)
(* of which the condition does not hold any more, and no jump leaves the   *)
(* code (Compiler.cpp:464).                                                *)
Finishes == (stage = "running") ~> (stage \in Ends)

=============================================================================

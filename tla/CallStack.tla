------------------------------ MODULE CallStack ------------------------------
(***************************************************************************)
(* The value stack and the call-frame stack of the virtual machine.        *)
(*                                                                         *)
(* VM::Execute runs byte code against Allocator::mValueStack and           *)
(* Allocator::mCallFrameStack.  Every instruction of VM::Execute that      *)
(* moves the top of the value stack is an action here; the values are left *)
(* out, their number is kept.                                              *)
(*                                                                         *)
(* Nothing at run time says how many operands an instruction may take: the *)
(* compiler knows, because it emitted the code that pushed them.  Each     *)
(* frame therefore carries `depth', the number of slots the compiler       *)
(* counts on at this point of the function (slot 0, the parameters, the    *)
(* locals and the temporaries).  An instruction is enabled by what the     *)
(* compiler counts on and changes what is really there; that the two agree *)
(* is what the properties are about.                                       *)
(***************************************************************************)
EXTENDS Naturals, Sequences

CONSTANTS
  StackMax,         \* STACK_MAX: slots of the value stack, and call frames
  StackChecks,      \* built without NDEBUG: PushStack, PopStack and VM::Run test
  Functions,        \* the functions of the program
  Main,             \* the function the compiler wraps the script in
  Arity,            \* FunctionObject::arity, the unnamed or named "..." included
  VarArg,           \* FunctionObject::varArg
  Constructors,     \* the functions that are constructors of a class
  IndexedKinds,     \* kinds of value the program applies [] to
  DestructuredKinds,\* kinds of value the program destructures
  PatternSizes,     \* numbers of names in its destructuring patterns
  MaxCount,         \* bound on the operand counts of ARRAY, DICT, CLASS, ...
  MaxArgs,          \* bound on the arguments of a call
  MaxLocals,        \* bound on the block locals a break or continue skips
  MaxDepth          \* bound on the slots the code of a function counts on

ASSUME ConstantsAssumption ==
  /\ StackMax \in Nat \ {0}
  /\ StackChecks \in BOOLEAN
  /\ Main \notin Functions
  /\ Constructors \subseteq Functions
  /\ Arity \in [Functions -> Nat]
  /\ VarArg \in [Functions -> {"NONE", "WITH_NAME", "WITHOUT_NAME"}]
  /\ \A f \in Functions : VarArg[f] # "NONE" => Arity[f] > 0
  /\ IndexedKinds \subseteq {"array", "str", "dict", "other"}
  /\ DestructuredKinds \subseteq {"array", "other"}
  /\ PatternSizes \subseteq Nat
  /\ {MaxCount, MaxArgs, MaxLocals, MaxDepth} \subseteq Nat

VARIABLES
  top,      \* mStackTop - mValueStack
  frames,   \* mCallFrameStack, oldest first
  cached,   \* the functions with a result in FunctionObject::caches
  status    \* what the process is doing, or the error that ended it

vars == <<top, frames, cached, status>>

Callables == Functions \cup {Main}
Frame     == [fn : Callables, slots : 0..(StackMax - 1), depth : Nat]

(* The errors that end the process: CYS_LOG_ERROR of PushStack and PopStack, *)
(* of VM::Run, of an instruction.  An access outside of the arrays that no   *)
(* code of this build checks ends what can be said of it: "overrun" is a     *)
(* value written behind the value stack, "corrupt" any other.                *)
Errors == {"overflow", "underflow", "occupied", "error", "overrun", "corrupt"}

TypeOK ==
  /\ top \in Nat
  /\ status = "overrun" => ~StackChecks
  /\ status # "overrun" => top <= StackMax
  /\ frames \in Seq(Frame)
  /\ cached \subseteq Callables
  /\ status \in {"idle", "running", "returned"} \cup Errors

-----------------------------------------------------------------------------
(* Effects *)

Current == frames[Len(frames)]

(* The frames once the compiler counts on `depth' slots in the current one. *)
Recounted(depth) == [frames EXCEPT ![Len(frames)].depth = depth]

(* The compiler counts on n operands above slot 0 of the current frame. *)
Operands(n) == status = "running" /\ Current.depth > n

Halt(error) == status' = error /\ UNCHANGED <<top, frames, cached>>

(* PushStack at the end of the array: it reports it, or in a release build   *)
(* writes the value behind the array.                                        *)
PushPast(height) ==
  /\ height > StackMax
  /\ IF StackChecks THEN Halt("overflow")
     ELSE top' = height /\ status' = "overrun" /\ UNCHANGED <<frames, cached>>

(* PopStack of an empty stack. *)
Underflow == IF StackChecks THEN "underflow" ELSE "corrupt"

(* Mutant: the bound is tested with > where PushStack tests with >=. *)
EffectBoundLate(pops, pushes, expected, short) ==
  /\ Operands(pops) /\ top >= pops
  /\ (top - pops) + pushes <= StackMax + 1
  /\ (Current.depth - pops) + expected <= MaxDepth
  /\ top' = (top - pops) + pushes
  /\ frames' = Recounted((Current.depth - pops) + expected)
  /\ UNCHANGED <<cached, status>>

(* Take `pops' values and push `pushes'; the compiler expects `expected' in *)
(* their place.  `short' is what taking too many values ends in: PopStack   *)
(* may report it, MoveStackTop never does.                                  *)
Effect(pops, pushes, expected, short) ==
  /\ Operands(pops)
  /\ \/ top < pops /\ Halt(short)
     \/ top >= pops /\ PushPast((top - pops) + pushes)
     \/ /\ top >= pops /\ (top - pops) + pushes <= StackMax
        /\ (Current.depth - pops) + expected <= MaxDepth
        /\ top' = (top - pops) + pushes
        /\ frames' = Recounted((Current.depth - pops) + expected)
        /\ UNCHANGED <<cached, status>>

Popped(pops, pushes) == Effect(pops, pushes, pushes, Underflow)
Moved(pops, pushes)  == Effect(pops, pushes, pushes, "corrupt")

-----------------------------------------------------------------------------
(* Instructions that stay in the frame.  SET_GLOBAL, SET_LOCAL, SET_UPVALUE, *)
(* the jumps and constructing a class that has no constructor leave the      *)
(* stack as tall as it was and are not actions.                              *)

LoadConstant    == Popped(0, 1)
LoadVariable    == Popped(0, 1)
CloseUpValue    == Popped(1, 0)
Addition        == Moved(2, 1)
Arithmetic      == Popped(2, 1) \/ Popped(1, 1)
MakeArray(n)    == Moved(n, 1)
MakeDict(n)     == Moved(2 * n, 1)
Pop             == Popped(1, 0)
MakeRef         == Popped(0, 1)
MakeIndexedRef  == Popped(1, 1)
MakeStruct(n)   == Popped(2 * n, 1)
GetProperty     == Popped(2, 1)
GetBase         == Popped(2, 1)
Reset(n)        == Popped(2 * n, 2 * n)
MakeClosure     == Popped(0, 1)

(* Mutant: a dictionary without the key gives nothing instead of an error. *)
GetIndexNoKey ==
  \E kind \in IndexedKinds :
    Effect(2, IF kind \in {"dict", "other"} THEN 0 ELSE 1, 1, Underflow)

(* An array, a string and a dictionary give an element or an error; on any *)
(* other value the operands are dropped and nothing is pushed.             *)
GetIndex ==
  \E kind \in IndexedKinds :
    Effect(2, IF kind = "other" THEN 0 ELSE 1, 1, Underflow)

(* Both leave the assigned value, under their two operands, where it is. *)
SetIndex    == Operands(3) /\ Popped(2, 0)
SetProperty == Operands(3) /\ Popped(2, 0)

(* The name, the constructors, and a name and a value for each member and  *)
(* parent.                                                                 *)
MakeClass(ctors, pairs) == Popped(1 + ctors + 2 * pairs, 1)
MakeModule(pairs)       == Popped(1 + 2 * pairs, 1)

(* An array gives exactly `count' values.  Anything else is padded with     *)
(* nulls after one value (with a rest array: two) that is pushed whatever   *)
(* the count.  A pattern without names, [...] = e, still leaves the value   *)
(* of the assignment as far as the compiler is concerned.                   *)
Resolve(count) ==
  \E kind \in DestructuredKinds, expected \in {count, IF count = 0 THEN 1 ELSE count} :
    Effect(1, IF kind = "other" /\ count = 0 THEN 1 ELSE count, expected, Underflow)

ResolveVarArg(count) ==
  \E kind \in DestructuredKinds :
    /\ count > 0
    /\ Effect(1, IF kind = "other" /\ count = 1 THEN 2 ELSE count, count, Underflow)

(* A break or continue jumps out of a block and pops none of its locals. *)
LeaveBlock(locals) ==
  /\ locals > 0
  /\ Operands(locals)
  /\ frames' = Recounted(Current.depth - locals)
  /\ UNCHANGED <<top, cached, status>>

(* Any instruction may find a value of the wrong type, or no such member. *)
RuntimeError == status = "running" /\ Halt("error")

-----------------------------------------------------------------------------
(* Calls *)

(* Mutant: a slot is counted on for an unnamed "..." too. *)
ParametersAll(f) == Arity[f]

(* The slots CompileFunction defines for the parameters of f: none for an  *)
(* unnamed "...".                                                          *)
Parameters(f) == IF VarArg[f] = "WITHOUT_NAME" THEN Arity[f] - 1 ELSE Arity[f]

Accepts(f, argCount) ==
  IF VarArg[f] = "NONE" THEN argCount = Arity[f] ELSE argCount + 1 >= Arity[f]

(* The arguments left, and where the top of the stack is, once the surplus  *)
(* arguments of a variadic function are packed in an array or dropped.      *)
Surplus(f, argCount) == (argCount - Arity[f]) + 1

PackedCount(f, argCount) ==
  CASE VarArg[f] = "NONE"         -> argCount
    [] VarArg[f] = "WITH_NAME"    -> Arity[f]
    [] VarArg[f] = "WITHOUT_NAME" -> Arity[f] - 1

(* Mutant: a named "..." that got no argument has no empty array pushed. *)
PackedTopNoArray(f, argCount) ==
  IF VarArg[f] = "NONE" \/ argCount < Arity[f] THEN top
  ELSE (top - Surplus(f, argCount)) + (IF VarArg[f] = "WITH_NAME" THEN 1 ELSE 0)

PackedTop(f, argCount) ==
  CASE VarArg[f] = "NONE" -> top
    [] VarArg[f] = "WITH_NAME" ->
         IF argCount < Arity[f] THEN top + 1 ELSE (top - Surplus(f, argCount)) + 1
    [] VarArg[f] = "WITHOUT_NAME" ->
         IF argCount < Arity[f] THEN top ELSE top - Surplus(f, argCount)

(* The caller's frame once its callee and arguments have become one value. *)
Suspended(argCount) == Recounted(Current.depth - argCount)

NewFrame(f, slots) == [fn |-> f, slots |-> slots, depth |-> 1 + Parameters(f)]

(* PushCallFrame does not check that there is room for one more frame. *)
PushCallFrame(f, slots, argCount) ==
  \/ Len(frames) >= StackMax /\ status' = "corrupt" /\ UNCHANGED <<frames, cached>>
  \/ /\ Len(frames) < StackMax
     /\ frames' = Append(Suspended(argCount), NewFrame(f, slots))
     /\ UNCHANGED <<cached, status>>

(* OP_CALL looks for the callee under the arguments. *)
Callee(argCount) == Operands(argCount + 1) /\ top > argCount

CallCorrupt(argCount) == Operands(argCount + 1) /\ top <= argCount /\ Halt("corrupt")

CallRefused(f, argCount) ==
  /\ Callee(argCount)
  /\ \/ ~Accepts(f, argCount) /\ Halt("error")
     \/ Accepts(f, argCount) /\ PushPast(PackedTop(f, argCount))

(* A closure or a bound method: a new frame whose slot 0 is the callee.  The *)
(* constructors of a class are not values a program can call this way.       *)
CallClosure(f, argCount) ==
  /\ Callee(argCount) /\ Accepts(f, argCount)
  /\ PackedTop(f, argCount) <= StackMax
  /\ top' = PackedTop(f, argCount)
  /\ PushCallFrame(f, top' - PackedCount(f, argCount) - 1, argCount)

(* Mutant: the cached result is not pushed. *)
CallCachedNoResult(f, argCount) ==
  /\ Callee(argCount) /\ Accepts(f, argCount)
  /\ f \in cached
  /\ top' = (PackedTop(f, argCount) - PackedCount(f, argCount)) - 1
  /\ frames' = Suspended(argCount)
  /\ UNCHANGED <<cached, status>>

(* The same call answered from FunctionObject::caches. *)
CallCached(f, argCount) ==
  /\ Callee(argCount) /\ Accepts(f, argCount)
  /\ PackedTop(f, argCount) <= StackMax
  /\ f \in cached
  /\ top' = PackedTop(f, argCount) - PackedCount(f, argCount)
  /\ frames' = Suspended(argCount)
  /\ UNCHANGED <<cached, status>>

(* new C(...): constructors are found by their arity and the arguments of a *)
(* variadic one are not packed.                                             *)
CallConstructor(f, argCount) ==
  /\ Callee(argCount)
  /\ argCount = Arity[f]
  /\ UNCHANGED top
  /\ PushCallFrame(f, top - argCount - 1, argCount)

CallNative(argCount) == Operands(argCount + 1) /\ Moved(argCount + 1, 1)

(* Mutant: `return;' pushes no null. *)
ReturnNothing(retCount) ==
  /\ Operands(retCount)
  /\ top' = Current.slots + retCount
  /\ cached' = cached \cup {Current.fn}
  /\ frames' = SubSeq(frames, 1, Len(frames) - 1)
  /\ status' = IF Len(frames) = 1 THEN "returned" ELSE "running"

(* The frame's slots are dropped, the result, or null, takes their place,   *)
(* and the result is remembered for the arguments of the frame.             *)
Return(retCount) ==
  /\ Operands(retCount)
  /\ top' = Current.slots + 1
  /\ cached' = cached \cup {Current.fn}
  /\ frames' = SubSeq(frames, 1, Len(frames) - 1)
  /\ status' = IF Len(frames) = 1 THEN "returned" ELSE "running"

-----------------------------------------------------------------------------
(* VM::Run *)

Init == top = 0 /\ frames = <<>> /\ cached = {} /\ status = "idle"

(* Every run compiles its script to function objects of its own. *)
Start ==
  /\ status = "idle"
  /\ top' = top + 1
  /\ frames' = <<[fn |-> Main, slots |-> top, depth |-> 1]>>
  /\ cached' = {}
  /\ status' = "running"

(* The script is over: exactly one value is expected on the stack.  In a     *)
(* release build VM::Run pops every other value until it finds that one.     *)
Finish ==
  /\ status = "returned"
  /\ IF top = 1 \/ (~StackChecks /\ top > 1)
       THEN top' = 0 /\ status' = "idle" /\ UNCHANGED <<frames, cached>>
       ELSE Halt(IF StackChecks THEN "occupied" ELSE "corrupt")

Instruction ==
  \/ LoadConstant \/ LoadVariable \/ CloseUpValue \/ Addition \/ Arithmetic \/ Pop
  \/ MakeRef \/ MakeIndexedRef \/ MakeClosure
  \/ GetIndex \/ SetIndex \/ GetProperty \/ SetProperty \/ GetBase
  \/ \E n \in 0..MaxCount : MakeArray(n) \/ MakeDict(n) \/ MakeStruct(n) \/ MakeModule(n) \/ Reset(n)
  \/ \E ctors, pairs \in 0..MaxCount : MakeClass(ctors, pairs)
  \/ \E count \in PatternSizes : Resolve(count) \/ ResolveVarArg(count)
  \/ \E locals \in 1..MaxLocals : LeaveBlock(locals)
  \/ RuntimeError

Call ==
  \E argCount \in 0..MaxArgs :
    \/ CallNative(argCount)
    \/ CallCorrupt(argCount)
    \/ \E f \in Functions \ Constructors :
         CallClosure(f, argCount) \/ CallCached(f, argCount) \/ CallRefused(f, argCount)
    \/ \E f \in Constructors : CallConstructor(f, argCount)

Next == Start \/ Finish \/ Instruction \/ Call \/ \E retCount \in {0, 1} : Return(retCount)

Spec == Init /\ [][Next]_vars

-----------------------------------------------------------------------------
(* Properties *)

(* A program that applies [] only to arrays, strings and dictionaries, and   *)
(* names at least one variable in every destructuring pattern.               *)
WellTyped == "other" \notin IndexedKinds /\ 0 \notin PatternSizes

(* A program that besides neither leaves a loop from under a block's locals, *)
(* nor has a constructor with an unnamed "...", nor destructures with [...x] *)
(* what is not an array.                                                     *)
WellCounted ==
  /\ WellTyped
  /\ MaxLocals = 0
  /\ \A f \in Constructors : VarArg[f] # "WITHOUT_NAME"
  /\ "other" \in DestructuredKinds => 1 \notin PatternSizes

(* What the compiler counts on is there: no instruction of the frame that   *)
(* runs, nor of one that waits for a call, can reach below the slots of its *)
(* own frame, whatever calls, packed arguments, cached results, returns and *)
(* jumps out of blocks came before (the operands VM::Execute pops).         *)
OperandsPresent ==
  status = "running" =>
    /\ frames # <<>>
    /\ top >= Current.slots + Current.depth
    /\ \A i \in 1..(Len(frames) - 1) :
         frames[i].slots + frames[i].depth <= frames[i + 1].slots + 1

(* PushCallFrame tests nothing, in any build; but every frame keeps a slot of *)
(* the value stack, so that a recursion too deep comes to the end of the      *)
(* value stack first: to "Stack overflow.", or in a release build to a write  *)
(* behind mValueStack ("overrun", where all claims end), and never to a frame *)
(* written behind mCallFrameStack.                                            *)
FramesBounded == Len(frames) <= top /\ status # "corrupt"

(* Neither "Stack underflow." nor "Stack occupancy exception." is reported,  *)
(* and the release build, which does not look, has nothing to report either. *)
NoUnderflow == status \notin {"underflow", "occupied", "corrupt"}

(* When the script ends, exactly the result of Main is on the stack, even in *)
(* a program that lost or left values behind (VM::Run pops that one value).  *)
OneResult == status = "returned" => top = 1 /\ frames = <<>>

(* Why: the inductive invariant.  A frame keeps its slot 0, so that frame i   *)
(* starts at slot i - 1 or above, and the first one at the bottom.           *)
Discipline ==
  /\ TypeOK
  /\ status \in {"idle", "running", "returned", "error", "overflow", "overrun"}
  /\ Len(frames) <= top
  /\ status = "idle" => top = 0 /\ frames = <<>>
  /\ OneResult
  /\ OperandsPresent
  /\ status = "running" =>
       /\ frames[1].slots = 0
       /\ \A i \in 1..Len(frames) : frames[i].slots >= i - 1 /\ frames[i].depth >= 1

(* The stack is exactly as tall as the compiler thinks, so that the slots it *)
(* gives to the variables it meets next are the ones their values land in.   *)
Aligned ==
  status = "running" =>
    /\ top = Current.slots + Current.depth
    /\ \A i \in 1..(Len(frames) - 1) :
         frames[i].slots + frames[i].depth = frames[i + 1].slots + 1
=============================================================================

------------------------------ MODULE Collector ------------------------------
(***************************************************************************)
(* Objects, the references between them, and the mark-and-sweep collector. *)
(*                                                                         *)
(* Allocator::CreateObject makes a collected object: it constructs the     *)
(* object, may run Allocator::GC, and only then links the object into      *)
(* mObjectChain.  Objects made with a plain `new' never enter the chain:   *)
(* what the compiler makes (functions, names, literals) and the array      *)
(* OP_CALL packs surplus arguments in.  Sweep walks the chain, so such an  *)
(* object is never freed and, once marked, never unmarked and never traced *)
(* again.                                                                  *)
(*                                                                         *)
(* The instructions of VM::Execute are here by what they do to references; *)
(* every value that is no object is Null.  An object is an identity that   *)
(* is used once.  mBytesAllocated is left out, so that CreateObject may    *)
(* collect whenever it is called (CYS_GC_STRESS always does).              *)
(*                                                                         *)
(* Which slots hold variables and which operands is the compiler's; here a *)
(* block may take any slots above slot 0 of its frame with it.  What an    *)
(* open upvalue points to stays where it is when its slot is popped, so    *)
(* `left' keeps what mValueStack holds above its top.                      *)
(***************************************************************************)
EXTENDS Naturals, Sequences, FiniteSets, Functions

CONSTANTS
  Programs,         \* FunctionObjects, made by the compiler
  Strings,          \* StrObjects, made by the compiler
  Closures,         \* ClosureObjects
  UpValues,         \* UpValueObjects
  Containers,       \* arrays, dictionaries, structs, classes, modules, new strings
  Binds,            \* ClassClosureBindObjects
  VarArgs,          \* arrays made by OP_CALL for surplus arguments
  Main,             \* the function of the script
  Null,             \* any value that is no object
  Constants,        \* the constants of each function
  MaxStack,         \* bound on the slots of the value stack
  MaxFrames,        \* bound on the call frames
  FunctionCache,    \* CYS_FUNCTION_CACHE_OPT
  ReturnsObjects,   \* the script has functions that return objects
  PacksObjects,     \* the script passes or stores objects in packed arguments
  BindsTemporaries  \* the script names methods of objects nothing else holds

Compiled == Programs \cup Strings
Objects  == Compiled \cup Closures \cup UpValues \cup Containers \cup Binds \cup VarArgs
Values   == Objects \cup {Null}

ASSUME ConstantsAssumption ==
  /\ Main \in Programs /\ Null \notin Objects
  /\ Constants \in [Programs -> SUBSET Compiled]
  /\ {MaxStack, MaxFrames} \subseteq Nat \ {0}
  /\ {FunctionCache, ReturnsObjects, PacksObjects, BindsTemporaries} \subseteq BOOLEAN
  /\ Compiled \cap (Closures \cup UpValues \cup Containers \cup Binds \cup VarArgs) = {}
  /\ Programs \cap Strings = {}
  /\ Closures \cap (UpValues \cup Containers \cup Binds \cup VarArgs) = {}
  /\ UpValues \cap (Containers \cup Binds \cup VarArgs) = {}
  /\ Containers \cap (Binds \cup VarArgs) = {}
  /\ Binds \cap VarArgs = {}

VARIABLES
  heap,     \* where an object is: in the chain, off it, being made, ...
  refs,     \* the objects an object was given at run time
  stack,    \* mValueStack up to mStackTop
  left,     \* mValueStack above mStackTop, where an open upvalue points to
  frames,   \* mCallFrameStack
  open,     \* mOpenUpValues: the open upvalue of a stack slot, if it has one
  global,   \* mGlobalVariableList, of one variable
  loose,    \* whether a block has left an upvalue open on what it popped (a ghost)
  marked,   \* the objects with Object::marked set
  gray,     \* mGrayObjects
  phase,    \* what the process is doing
  pending   \* the object CreateObject is making and what is done with it

mutator == <<stack, left, frames, open, global, loose>>
colours == <<marked, gray>>
vars    == <<heap, refs, stack, left, frames, open, global, loose, marked, gray, phase, pending>>

Slots == 1..MaxStack
Frame == [closure : Closures, base : Slots]

TypeOK ==
  /\ heap \in [Objects -> {"unused", "new", "chain", "off", "freed"}]
  /\ refs \in [Objects -> SUBSET Objects]
  /\ stack \in Seq(Values) /\ Len(stack) <= MaxStack
  /\ left \in [Slots -> Values]
  /\ frames \in Seq(Frame) /\ Len(frames) <= MaxFrames
  /\ open \in [Slots -> UpValues \cup {Null}]
  /\ global \in Values /\ loose \in BOOLEAN
  /\ marked \subseteq Objects /\ gray \subseteq Objects
  /\ phase \in {"run", "capture", "create", "trace", "link", "ended"}
  /\ pending \in [obj : Values, pops : 0..MaxStack, slot : 0..MaxStack]

-----------------------------------------------------------------------------
(* References *)

In(place) == {o \in Objects : heap[o] = place}

(* What an object refers to: a function has its constants and its cached    *)
(* results besides.                                                         *)
Children(o) == IF o \in Programs THEN Constants[o] \cup refs[o] ELSE refs[o]

OpenUpValues == {open[s] : s \in Slots} \ {Null}

(* What MarkRootObjects marks. *)
Roots ==
  (Range(stack) \cup {frames[i].closure : i \in DOMAIN frames} \cup OpenUpValues \cup {global})
    \ {Null}

(* The objects the program can still get to: whatever every set that has the *)
(* roots and is closed under references has.  Between `new' and the chain    *)
(* the new object is held by CreateObject itself; what an upvalue left open  *)
(* on a popped slot points to, no root marks.                                *)
Held == Roots \cup (({pending.obj} \cup Range(left)) \ {Null})

Reachable(from) ==
  {o \in Objects : \A S \in SUBSET Objects :
     from \subseteq S /\ (\A p \in S : Children(p) \subseteq S) => o \in S}

(* What mValueStack holds in a slot, as far as anything points there. *)
Cell(s) == IF s <= Len(stack) THEN stack[s] ELSE left[s]

(* A step that moves the top of the stack leaves what is above it. *)
Leaves ==
  left' = [s \in Slots |-> IF open'[s] # Null /\ s > Len(stack') THEN Cell(s) ELSE Null]

-----------------------------------------------------------------------------
(* Allocator::CreateObject and Allocator::GC *)

NoPending == [obj |-> Null, pops |-> 0, slot |-> 0]

(* `new T(...)': an object that refers to `held', to replace `pops' operands *)
(* on the stack or, an upvalue, to be the open one of `slot'.                *)
Create(o, held, pops, slot) ==
  /\ heap[o] = "unused"
  /\ heap' = [heap EXCEPT ![o] = "new"]
  /\ refs' = [refs EXCEPT ![o] = held]
  /\ pending' = [obj |-> o, pops |-> pops, slot |-> slot]
  /\ phase' = "create"
  /\ UNCHANGED colours

(* Mutant: the open upvalues are not roots. *)
MarkRootObjectsNoOpen ==
  /\ phase = "create"
  /\ LET roots == Roots \ OpenUpValues IN
       /\ marked' = marked \cup roots
       /\ gray' = roots \ marked
  /\ phase' = "trace"
  /\ UNCHANGED <<heap, refs, mutator, pending>>

(* Object::Mark pushes an object that was not marked on mGrayObjects. *)
MarkRootObjects ==
  /\ phase = "create"
  /\ marked' = marked \cup Roots
  /\ gray' = Roots \ marked
  /\ phase' = "trace"
  /\ UNCHANGED <<heap, refs, mutator, pending>>

(* Mutant: ClassClosureBindObject::Blacken forgets the receiver. *)
BlackenedNoReceiver(o) == IF o \in Binds THEN refs[o] \cap Closures ELSE Children(o)

(* What Blacken marks, kind by kind: all that the object refers to. *)
Blackened(o) == Children(o)

(* Mutant: Mark forgets to test `marked'. *)
MarkGrayObjectsAgain ==
  /\ phase = "trace" /\ gray # {}
  /\ gray' = UNION {Blackened(o) : o \in gray}
  /\ marked' = marked \cup gray'
  /\ UNCHANGED <<heap, refs, mutator, phase, pending>>

(* Every gray object blackens: what it refers to is marked and, if it was    *)
(* not, gray.  mGrayObjects is emptied in waves here, from its back in the   *)
(* code; the program waits and cannot tell.                                  *)
MarkGrayObjects ==
  /\ phase = "trace" /\ gray # {}
  /\ LET met == UNION {Blackened(o) : o \in gray} IN
       /\ gray' = met \ marked
       /\ marked' = marked \cup met
  /\ UNCHANGED <<heap, refs, mutator, phase, pending>>

(* Mutant: a surviving object keeps its mark. *)
SweepKeepsMarks ==
  /\ phase = "trace" /\ gray = {}
  /\ LET unreached == In("chain") \ marked IN
       /\ heap' = [o \in Objects |-> IF o \in unreached THEN "freed" ELSE heap[o]]
       /\ refs' = [o \in Objects |-> IF o \in unreached THEN {} ELSE refs[o]]
  /\ phase' = "link"
  /\ UNCHANGED <<mutator, marked, gray, pending>>

(* The marked objects of the chain are unmarked, the others freed; a freed   *)
(* object refers to nothing.                                                 *)
Sweep ==
  /\ phase = "trace" /\ gray = {}
  /\ LET unreached == In("chain") \ marked IN
       /\ heap' = [o \in Objects |-> IF o \in unreached THEN "freed" ELSE heap[o]]
       /\ refs' = [o \in Objects |-> IF o \in unreached THEN {} ELSE refs[o]]
  /\ marked' = marked \ In("chain")
  /\ phase' = "link"
  /\ UNCHANGED <<mutator, gray, pending>>

(* CreateObject links the object and the instruction goes on: it drops its  *)
(* operands and pushes the object; VM::Run makes the frame of the script.   *)
(* An upvalue goes to the open upvalues and to the closure on the stack.    *)
Linked(o) ==
  /\ phase \in {"create", "link"}
  /\ o = pending.obj
  /\ heap' = [heap EXCEPT ![o] = "chain"]
  /\ marked' = marked \ {o}
  /\ pending' = NoPending
  /\ UNCHANGED <<global, loose, gray>>

Top == stack[Len(stack)]
Below(n) == SubSeq(stack, 1, Len(stack) - n)
Above(base) == {stack[i] : i \in (base + 1)..Len(stack)} \ {Null}

(* Mutant: the slots of the script's frame begin under its closure. *)
LinkEarlySlots(o) ==
  /\ Linked(o) /\ o \notin UpValues
  /\ stack' = Append(Below(pending.pops), o)
  /\ frames' = IF frames = <<>> THEN <<[closure |-> o, base |-> Len(stack') - 1]>> ELSE frames
  /\ phase' = IF o \in Closures /\ frames # <<>> THEN "capture" ELSE "run"
  /\ UNCHANGED <<refs, open>> /\ Leaves

Link(o) ==
  /\ Linked(o) /\ o \notin UpValues
  /\ stack' = Append(Below(pending.pops), o)
  /\ frames' = IF frames = <<>> THEN <<[closure |-> o, base |-> Len(stack')]>> ELSE frames
  /\ phase' = IF o \in Closures /\ frames # <<>> THEN "capture" ELSE "run"
  /\ UNCHANGED <<refs, open>> /\ Leaves

LinkUpValue(o) ==
  /\ Linked(o) /\ o \in UpValues
  /\ open' = [open EXCEPT ![pending.slot] = o]
  /\ refs' = [refs EXCEPT ![Top] = @ \cup {o}]
  /\ phase' = "capture"
  /\ UNCHANGED <<stack, left, frames>>

Collector ==
  \/ MarkRootObjects \/ MarkGrayObjects \/ Sweep
  \/ \E o \in Objects : Link(o) \/ LinkUpValue(o)

-----------------------------------------------------------------------------
(* Instructions that only move references *)

Current == frames[Len(frames)]
Locals  == Current.base..Len(stack)

(* The instruction changes the stack to s and nothing below. *)
Moves(s) ==
  /\ Len(s) <= MaxStack
  /\ stack' = s
  /\ UNCHANGED <<heap, refs, frames, open, global, loose, colours, phase, pending>> /\ Leaves

(* What an object can have for an element, a member or a cached result. *)
Elements(o) == refs[o] \cup {Null}

(* Where an upvalue's location points: the slot it is open on, or itself. *)
ValuesOf(u) ==
  IF u \in OpenUpValues THEN {Cell(s) : s \in {t \in Slots : open[t] = u}}
  ELSE IF refs[u] = {} THEN {Null} ELSE refs[u]

Captured == refs[Current.closure] \cap UpValues

(* The values an instruction that takes no operand can push. *)
Loadable ==
  {Null, global} \cup {stack[i] : i \in Locals}
    \cup (UNION {ValuesOf(u) : u \in Captured})
    \cup (UNION {Constants[f] \cap Strings : f \in refs[Current.closure] \cap Programs})

Load == phase = "run" /\ \E v \in Loadable : Moves(Append(stack, v))

(* No upvalue is open on the top n slots. *)
Uncaptured(n) == \A s \in (Len(stack) - n + 1)..Len(stack) : open[s] = Null

(* The top n slots are operands: slot 0 of the frame stays, and what is an   *)
(* operand is no variable, so that no closure has captured its slot, unless  *)
(* one has captured a variable that was in it before.                        *)
HasOperands(n) ==
  /\ phase = "run" /\ Len(stack) >= Current.base + n
  /\ loose \/ Uncaptured(n)

Pop == HasOperands(1) /\ Moves(Below(1))

(* An element, a member or a field takes the place of its container. *)
GetElement ==
  /\ HasOperands(1) /\ Top \in Containers \cup VarArgs
  /\ \E v \in Elements(Top) : Moves(Append(Below(1), v))

SetGlobal ==
  /\ HasOperands(1)
  /\ global' = Top
  /\ UNCHANGED <<heap, refs, stack, left, frames, open, loose, colours, phase, pending>>

(* Slot 0 of a frame is its callee or receiver and no variable. *)
SetLocal ==
  /\ HasOperands(1)
  /\ \E s \in Locals \ {Current.base} : Moves([stack EXCEPT ![s] = Top])

SetUpValue ==
  /\ HasOperands(1)
  /\ \E u \in Captured :
       \/ \E s \in DOMAIN stack : open[s] = u /\ Moves([stack EXCEPT ![s] = Top])
       \/ \E s \in Slots \ DOMAIN stack :
            /\ open[s] = u
            /\ left' = [left EXCEPT ![s] = Top]
            /\ UNCHANGED <<heap, refs, stack, frames, open, global, loose, colours, phase, pending>>
       \/ /\ u \notin OpenUpValues
          /\ refs' = [refs EXCEPT ![u] = {Top} \ {Null}]
          /\ UNCHANGED <<heap, mutator, colours, phase, pending>>

(* The container on top takes the value under it, in the place of at most  *)
(* one other: SET_INDEX, SET_PROPERTY and the natives insert and erase.    *)
SetElement ==
  /\ HasOperands(2) /\ Top \in Containers \cup VarArgs
  /\ LET v == stack[Len(stack) - 1] IN
       /\ Top \in VarArgs /\ ~PacksObjects => v \in Strings \cup {Null}
       /\ \E lost \in {{}} \cup {{x} : x \in refs[Top]} :
            refs' = [refs EXCEPT ![Top] = (@ \ lost) \cup ({v} \ {Null})]
  /\ stack' = Below(1)
  /\ UNCHANGED <<heap, frames, open, global, loose, colours, phase, pending>> /\ Leaves

-----------------------------------------------------------------------------
(* Upvalues *)

(* Allocator::ClosedUpValues: an open upvalue from slot `first' on takes the *)
(* value of its slot.                                                        *)
ClosedUpValues(first) ==
  [o \in Objects |->
     IF \E s \in Slots : s >= first /\ open[s] = o
       THEN {Cell(s) : s \in {t \in Slots : open[t] = o}} \ {Null}
       ELSE refs[o]]

OpenBelow(first) == [s \in Slots |-> IF s >= first THEN Null ELSE open[s]]

(* Mutant: the variables are popped and their upvalues left open. *)
ExitScopePops(n, last) ==
  /\ phase = "run" /\ Len(stack) >= Current.base + n
  /\ loose' = (loose \/ ~ (last = n \/ Uncaptured(n)))
  /\ stack' = Below(n)
  /\ UNCHANGED <<heap, refs, frames, open, global, colours, phase, pending>> /\ Leaves

(* The end of a block of n variables: OP_CLOSE_UPVALUE or OP_POP for each,   *)
(* first to last, and each takes the topmost slot, so that the one for the   *)
(* last captured variable, which is number `last' of them, closes what is    *)
(* from the last-th slot from the top on.  A block that is left by `break'   *)
(* or `continue' is popped later, as it is.                                  *)
ExitScope(n, last) ==
  /\ phase = "run" /\ Len(stack) >= Current.base + n
  /\ loose' = (loose \/ ~ (last = n \/ Uncaptured(n)))
  /\ IF last = 0 THEN UNCHANGED <<refs, open>>
     ELSE LET first == (Len(stack) - last) + 1 IN
            refs' = ClosedUpValues(first) /\ open' = OpenBelow(first)
  /\ stack' = Below(n)
  /\ UNCHANGED <<heap, frames, global, colours, phase, pending>> /\ Leaves

(* CaptureUpValue finds the open upvalue of a slot or makes one; the closure *)
(* that is being given its upvalues is on top of the stack.                  *)
Gives(u) ==
  /\ refs' = [refs EXCEPT ![Top] = @ \cup {u}]
  /\ UNCHANGED <<heap, mutator, colours, phase, pending>>

Capture ==
  /\ phase = "capture"
  /\ \E s \in Locals :
       \/ open[s] # Null /\ Gives(open[s])
       \/ /\ open[s] = Null
          /\ \E u \in UpValues : Create(u, {}, 0, s)
          /\ UNCHANGED mutator

Inherit == phase = "capture" /\ \E u \in Captured : Gives(u)

Ready ==
  /\ phase = "capture" /\ phase' = "run"
  /\ UNCHANGED <<heap, refs, mutator, colours, pending>>

-----------------------------------------------------------------------------
(* Instructions that make an object *)

(* OP_ARRAY, OP_DICT, OP_CLASS, OP_STRUCT, OP_MODULE and the operators that *)
(* make a string: the operands stay on the stack until the object is linked.*)
MakeContainer(n) ==
  /\ HasOperands(n) /\ Len(stack) - n < MaxStack
  /\ \E o \in Containers : Create(o, Above(Len(stack) - n), n, 0)
  /\ UNCHANGED mutator

(* OP_CLOSURE pushes the function, makes the closure, and pops it. *)
MakeClosure ==
  /\ phase = "run" /\ Len(stack) < MaxStack
  /\ \E p \in refs[Current.closure] \cap Programs :
       \E f \in Constants[p] \cap Programs, o \in Closures :
         Create(o, {f}, 1, 0) /\ stack' = Append(stack, f)
  /\ UNCHANGED <<frames, open, global, loose>> /\ Leaves

(* OP_GET_PROPERTY of a method: the object is popped, then the object that  *)
(* binds it to its closure is made.                                         *)
Bind ==
  /\ HasOperands(1) /\ Top \in Containers
  /\ BindsTemporaries \/ Top \in Range(Below(1)) \cup {global}
  /\ \E c \in refs[Top] \cap Closures, o \in Binds : Create(o, {Top, c}, 0, 0)
  /\ stack' = Below(1)
  /\ UNCHANGED <<frames, open, global, loose>> /\ Leaves

-----------------------------------------------------------------------------
(* Calls *)

(* The closures the callee on the stack can mean, and what slot 0 of the    *)
(* frame is: a bound method is replaced by its receiver.                    *)
Targets(callee) ==
  CASE callee \in Closures   -> {<<callee, callee>>}
    [] callee \in Binds      -> {<<r, c>> : r \in refs[callee] \cap Containers, c \in refs[callee] \cap Closures}
    [] callee \in Containers -> {<<callee, c>> : c \in refs[callee] \cap Closures}
    [] OTHER                 -> {}

PushFrame(s, closure, base) ==
  /\ Len(s) <= MaxStack /\ Len(frames) < MaxFrames
  /\ stack' = s
  /\ frames' = Append(frames, [closure |-> closure, base |-> base])
  /\ UNCHANGED <<open, global, loose, colours, phase, pending>> /\ Leaves

Call(argCount) ==
  /\ HasOperands(argCount + 1)
  /\ LET base == Len(stack) - argCount IN
       \E target \in Targets(stack[base]) :
         PushFrame([stack EXCEPT ![base] = target[1]], target[2], base)
  /\ UNCHANGED <<heap, refs>>

(* A function with a named "...": the surplus arguments go to an array that *)
(* is not in the chain.                                                     *)
CallPacked(argCount) ==
  /\ HasOperands(argCount + 1)
  /\ LET base   == Len(stack) - argCount
         packed == Above(base)
     IN \E target \in Targets(stack[base]), a \in VarArgs :
          /\ heap[a] = "unused"
          /\ PacksObjects \/ packed \subseteq Strings
          /\ heap' = [heap EXCEPT ![a] = "off"]
          /\ refs' = [refs EXCEPT ![a] = packed]
          /\ PushFrame(Append(Append(SubSeq(stack, 1, base - 1), target[1]), a), target[2], base)

(* The result is remembered in FunctionObject::caches, *)
(* and a later call with the same arguments gives it back.                 *)
CallCached(argCount) ==
  /\ HasOperands(argCount + 1) /\ FunctionCache
  /\ LET base == Len(stack) - argCount IN
       \E target \in Targets(stack[base]) :
         \E f \in refs[target[2]] \cap Programs :
           \E v \in Elements(f) : Moves(Append(SubSeq(stack, 1, base - 1), v))

(* The frame's variables are closed, its slots dropped, and the result takes *)
(* their place; the function remembers it.                                   *)
Return ==
  /\ phase = "run"
  /\ open' = OpenBelow(Current.base)
  /\ \E v \in {Top, Null}, f \in refs[Current.closure] \cap Programs :
       /\ FunctionCache /\ ~ReturnsObjects => v \in Strings \cup {Null}
       /\ stack' = Append(SubSeq(stack, 1, Current.base - 1), v)
       /\ refs' = [ClosedUpValues(Current.base) EXCEPT ![f] = IF FunctionCache THEN @ \cup ({v} \ {Null}) ELSE @]
  /\ frames' = SubSeq(frames, 1, Len(frames) - 1)
  /\ phase' = IF Len(frames) = 1 THEN "ended" ELSE "run"
  /\ UNCHANGED <<heap, global, loose, colours, pending>> /\ Leaves

-----------------------------------------------------------------------------
(* VM::Run has pushed the function of the script and makes its closure. *)

Init ==
  /\ \E m \in Closures :
       /\ heap = [o \in Objects |-> IF o \in Compiled THEN "off" ELSE IF o = m THEN "new" ELSE "unused"]
       /\ refs = [o \in Objects |-> IF o = m THEN {Main} ELSE {}]
       /\ pending = [obj |-> m, pops |-> 1, slot |-> 0]
  /\ stack = <<Main>> /\ frames = <<>>
  /\ left = [s \in Slots |-> Null] /\ open = [s \in Slots |-> Null] /\ global = Null
  /\ loose = FALSE
  /\ marked = {} /\ gray = {}
  /\ phase = "create"

Instruction ==
  \/ Load \/ Pop \/ GetElement \/ SetGlobal \/ SetLocal \/ SetUpValue \/ SetElement
  \/ \E n \in 1..MaxStack : \E last \in 0..n : ExitScope(n, last)
  \/ Capture \/ Inherit \/ Ready
  \/ \E n \in 0..2 : MakeContainer(n)
  \/ MakeClosure \/ Bind \/ Return
  \/ \E argCount \in 0..MaxStack : Call(argCount) \/ CallPacked(argCount) \/ CallCached(argCount)

Next == Collector \/ Instruction

Spec == Init /\ [][Next]_vars

(* CreateObject runs the collector to its end before it returns. *)
FairSpec == Spec /\ WF_vars(Collector)

-----------------------------------------------------------------------------
(* Properties *)

(* A program that gives the objects of the chain to no object off it, and   *)
(* names methods of nothing but what it still has.                          *)
WellBehaved == ~PacksObjects /\ ~BindsTemporaries /\ (FunctionCache => ~ReturnsObjects)

(* Unless a block has left an upvalue open on what it popped, the program   *)
(* never gets to an object that Sweep has freed, nor does the object        *)
(* CreateObject is making refer to one (the promise of Allocator::GC to     *)
(* VM::Execute).                                                            *)
NoDangling == ~loose => Reachable(Held) \cap In("freed") = {}

(* Between two collections no object of the chain is marked: Mark would take *)
(* it for one already traced (Object::Mark returns early on `marked').       *)
CleanMarks == phase \in {"run", "capture", "create", "ended"} => gray = {} /\ marked \cap In("chain") = {}

(* A collection frees everything the program cannot get to any more: what    *)
(* Sweep leaves in the chain is reachable.                                   *)
GarbageCollected == phase = "link" => In("chain") \subseteq Reachable(Held)

(* As long as every block has closed the upvalues of what it popped, no open *)
(* upvalue outlives its slot, through calls and whatever CreateObject drops  *)
(* later: the slot of each is below the top of the stack (OP_CLOSE_UPVALUE   *)
(* at VM.cpp:245, OP_RETURN at VM.cpp:139).                                  *)
OpenOnStack == ~loose => \A s \in Slots : open[s] # Null => s <= Len(stack)

Making == phase \in {"create", "trace", "link"}

(* The frames lie above one another inside the stack, and the closure that   *)
(* is being given its upvalues is on top.                                    *)
Framed ==
  /\ frames = <<>> => phase = "ended" \/ (Making /\ pending.obj \in Closures)
  /\ phase # "ended" => stack # <<>> /\ \A i \in DOMAIN frames : frames[i].base <= Len(stack)
  /\ \A i, j \in DOMAIN frames : i < j => frames[i].base < frames[j].base
  /\ phase = "capture" \/ (Making /\ pending.obj \in UpValues) => Top \in Closures
  /\ Making =>
       IF pending.obj \in UpValues THEN pending.slot \in Slots
       ELSE /\ pending.pops <= Len(stack) /\ Len(stack) - pending.pops < MaxStack
            /\ \A i \in DOMAIN frames : frames[i].base <= Len(stack) - pending.pops

(* What is kept above the top is what open upvalues point to there. *)
LeftOpen == \A s \in Slots : left[s] # Null => open[s] # Null /\ s > Len(stack)

(* Then the open upvalues are under the operands of what is being made: its  *)
(* instruction drops those, and no variable with them.                       *)
OpenUnderOperands ==
  /\ OpenOnStack
  /\ ~loose /\ Making =>
       IF pending.obj \in UpValues THEN pending.slot <= Len(stack)
       ELSE \A s \in Slots : open[s] # Null => s <= Len(stack) - pending.pops

(* What the stack, the frames and the open upvalues keep in every program.   *)
Shaped == TypeOK /\ Framed /\ LeftOpen /\ OpenUnderOperands

(* Why a collection leaves no garbage, whatever the program: it begins with  *)
(* no mark in the chain ...                                                  *)
Tidy == gray \subseteq marked /\ (phase # "trace" => gray = {} /\ marked \cap In("chain") = {})

(* ... and marks there only what the program gets to over marked objects,    *)
(* which Sweep leaves their references.                                      *)
Met ==
  {o \in Objects : \A S \in SUBSET Objects :
     Held \subseteq S /\ (\A p \in S \cap marked : Children(p) \subseteq S) => o \in S}

Traced == phase = "trace" => gray \cup (marked \cap In("chain")) \subseteq Met

(* Why nothing dangles: in a well-behaved program, until a block leaves an   *)
(* upvalue open, what is in the chain or off it is Kept ...                  *)
Kept == In("chain") \cup In("off")

(* ... and has the roots, is closed under references ...                     *)
Closed ==
  /\ Roots \subseteq Kept
  /\ \A o \in Kept : Children(o) \subseteq Kept

(* ... and off the chain there is no way back into it, so that what is never *)
(* traced again needs no tracing ...                                         *)
OffChain ==
  /\ Compiled \subseteq In("off") /\ In("off") \subseteq Compiled \cup VarArgs
  /\ \A o \in In("off") : Children(o) \subseteq In("off")

(* ... and the object being made refers to what a root is or refers to ...   *)
Anchored ==
  IF Making
    THEN /\ pending.obj \in Objects /\ heap[pending.obj] = "new"
         /\ \A c \in Children(pending.obj) : c \in Roots \/ \E r \in Roots : c \in Children(r)
    ELSE pending = NoPending

(* ... and marks are where the collector needs them: none in the chain when  *)
(* it starts, and no black object that refers to a white one.                *)
Marking ==
  /\ marked \subseteq Kept /\ gray \subseteq marked
  /\ phase # "trace" => gray = {} /\ marked \cap In("chain") = {}
  /\ phase = "trace" =>
       /\ Roots \subseteq marked
       /\ \A o \in (marked \ gray) \cap In("chain") : Children(o) \subseteq marked

Sound == Shaped /\ (~loose => Closed /\ OffChain /\ Anchored /\ Marking)

(* Tracing ends, cycles included, and CreateObject returns its object.      *)
CollectionEnds == phase = "trace" ~> phase \in {"run", "capture"}
=============================================================================

--------------------------- MODULE CollectorProofs ---------------------------
(***************************************************************************)
(* Two invariants of the collector and the machine it works for, for any   *)
(* objects, constants and bounds.                                          *)
(*                                                                         *)
(* Shaped, of every program: the state keeps its shape, and a collection   *)
(* leaves no mark and no garbage behind.  Until a block of the program     *)
(* leaves an upvalue open on what it pops (loose), it says besides that no *)
(* open upvalue outlives its slot; that OpenOnStack survives CreateObject, *)
(* which keeps the operands on the stack until the object is linked, is    *)
(* what OpenUnderOperands adds.  The marks need two more facts, Tidy and   *)
(* Traced; Traced follows the references over marked objects only, for     *)
(* Sweep takes the references of the others away.                          *)
(*                                                                         *)
(* Sound, of well-behaved programs, rests on Shaped: until a block leaves  *)
(* an upvalue open, the program never gets to an object that Sweep has     *)
(* freed.  NoDangling is about paths, which no single step sees; Sound     *)
(* says instead that one set, Kept, has the roots and is closed under      *)
(* references, so that every path stays in it.  A step of the program has  *)
(* to keep that for the few references it changes (Stepped, MovesKeeps),   *)
(* CreateObject for the object it makes (CreateKeeps, LinkedKept), and     *)
(* Sweep for the objects it takes away, which needs Marking: when nothing  *)
(* is gray, the marked objects of the chain are closed under references    *)
(* too (SweepKeeps).                                                       *)
(***************************************************************************)
EXTENDS Collector, TLAPS


-----------------------------------------------------------------------------
(* Lemmas about the state *)

(* A sequence whose elements are in a smaller set is a sequence over it. *)
LEMMA Narrowed ==
  ASSUME NEW A, NEW B, NEW s \in Seq(A), \A i \in 1..Len(s) : s[i] \in B
  PROVE  s \in Seq(B)
OBVIOUS

(* The first n elements of a sequence. *)
LEMMA Prefix ==
  ASSUME NEW A, NEW s \in Seq(A), NEW n \in 0..Len(s)
  PROVE  /\ SubSeq(s, 1, n) \in Seq(A)
         /\ Len(SubSeq(s, 1, n)) = n
         /\ \A i \in 1..n : SubSeq(s, 1, n)[i] = s[i]
OBVIOUS

(* A sequence with one element replaced. *)
LEMMA Replaced ==
  ASSUME NEW A, NEW s \in Seq(A), NEW n \in 1..Len(s), NEW x \in A
  PROVE  [s EXCEPT ![n] = x] \in Seq(A) /\ Len([s EXCEPT ![n] = x]) = Len(s)
OBVIOUS

(* A sequence with one element more. *)
LEMMA Longer ==
  ASSUME NEW A, NEW s \in Seq(A), NEW x \in A
  PROVE  /\ Append(s, x) \in Seq(A) /\ Len(Append(s, x)) = Len(s) + 1
         /\ Append(s, x)[Len(s) + 1] = x
         /\ \A i \in 1..Len(s) : Append(s, x)[i] = s[i]
OBVIOUS

(* The kinds of objects are apart, and Null is none of them. *)
LEMMA Kinds ==
  /\ Null \notin Objects
  /\ UpValues \subseteq Objects /\ Closures \subseteq Objects /\ Programs \subseteq Objects /\ Containers \subseteq Objects
  /\ VarArgs \subseteq Objects /\ Binds \subseteq Objects /\ Strings \subseteq Objects
  /\ UpValues \cap (Compiled \cup VarArgs) = {} /\ Closures \cap (Compiled \cup VarArgs) = {}
  /\ Containers \cap (Compiled \cup VarArgs) = {} /\ Binds \cap (Compiled \cup VarArgs) = {}
  /\ Closures \cap (UpValues \cup Containers \cup Binds) = {} /\ UpValues \cap (Containers \cup Binds) = {}
  /\ Containers \cap Binds = {} /\ VarArgs \cap Compiled = {} /\ Programs \cup Strings = Compiled
  /\ MaxStack \in Nat \ {0} /\ MaxFrames \in Nat \ {0}
BY ConstantsAssumption DEF Objects, Compiled

(* What a shaped state is made of. *)
LEMMA Parts ==
  ASSUME Shaped
  PROVE  /\ heap \in [Objects -> {"unused", "new", "chain", "off", "freed"}]
         /\ refs \in [Objects -> SUBSET Objects]
         /\ stack \in Seq(Values) /\ DOMAIN stack = 1..Len(stack) /\ Len(stack) \in 0..MaxStack
         /\ \A i \in 1..Len(stack) : stack[i] \in Values
         /\ frames \in Seq(Frame) /\ DOMAIN frames = 1..Len(frames) /\ Len(frames) \in 0..MaxFrames
         /\ \A i \in 1..Len(frames) : frames[i].base \in Slots /\ frames[i].closure \in Closures
         /\ open \in [Slots -> UpValues \cup {Null}] /\ global \in Values /\ loose \in BOOLEAN
         /\ marked \subseteq Objects /\ gray \subseteq Objects /\ left \in [Slots -> Values]
         /\ (loose \/ \A s \in Slots : open[s] # Null => s <= Len(stack))
<1>1. stack \in Seq(Values) /\ frames \in Seq(Frame) /\ Len(stack) <= MaxStack /\ Len(frames) <= MaxFrames
  BY DEF Shaped, TypeOK
<1>2. DOMAIN stack = 1..Len(stack) /\ Len(stack) \in 0..MaxStack /\ \A i \in 1..Len(stack) : stack[i] \in Values
  BY <1>1, Kinds
<1>3. DOMAIN frames = 1..Len(frames) /\ Len(frames) \in 0..MaxFrames /\ \A i \in 1..Len(frames) : frames[i] \in Frame
  BY <1>1, Kinds
<1>4. \A i \in 1..Len(frames) : frames[i].base \in Slots /\ frames[i].closure \in Closures BY <1>3 DEF Frame
<1> QED BY <1>1, <1>2, <1>3, <1>4 DEF Shaped, TypeOK, OpenUnderOperands, OpenOnStack

(* The frame that runs. *)
LEMMA RunningFrame ==
  ASSUME Shaped, phase \in {"run", "capture"}
  PROVE  /\ Len(frames) \in 1..MaxFrames /\ Current \in Frame
         /\ Current.base \in 1..Len(stack) /\ Len(stack) \in 1..MaxStack
         /\ Current.closure \in Closures
         /\ \A i \in 1..Len(frames) : frames[i].base \in Slots /\ frames[i].base <= Current.base
         /\ \A i, j \in 1..Len(frames) : i < j => frames[i].base < frames[j].base
         /\ ~Making
<1>1. frames # <<>> /\ frames \in Seq(Frame) BY Parts DEF Shaped, Framed, Making
<1>2. Len(frames) \in 1..MaxFrames BY <1>1, Parts, Kinds
<1>3. \A i \in 1..Len(frames) : frames[i] \in Frame BY <1>1
<1>4. Current \in Frame BY <1>2, <1>3 DEF Current
<1>5. \A i \in 1..Len(frames) : frames[i].base \in Slots BY Parts
<1>6. \A i \in 1..Len(frames) : frames[i].base <= Len(stack)
  BY Parts DEF Shaped, Framed
<1>7. \A i, j \in 1..Len(frames) : i < j => frames[i].base < frames[j].base
  BY Parts DEF Shaped, Framed
<1>8. Current.base \in 1..Len(stack) /\ Len(stack) \in 1..MaxStack
  BY <1>2, <1>5, <1>6, Parts, Kinds DEF Current, Slots
<1>9. \A i \in 1..Len(frames) : frames[i].base <= Current.base
  <2> TAKE i \in 1..Len(frames)
  <2>1. CASE i = Len(frames)
    <3>1. frames[i].base = Current.base BY <2>1 DEF Current
    <3> QED BY <3>1, <1>8
  <2>2. CASE i < Len(frames)
    <3>1. Len(frames) \in 1..Len(frames) BY <1>2
    <3>2. frames[i].base < Current.base BY <2>2, <3>1, <1>7 DEF Current
    <3> QED BY <3>2, <1>5, <1>8 DEF Slots
  <2>3. i = Len(frames) \/ i < Len(frames)
    <3>1. Len(frames) \in Nat BY <1>1
    <3> QED BY <3>1
  <2> QED BY <2>1, <2>2, <2>3
<1> QED BY <1>2, <1>4, <1>5, <1>7, <1>8, <1>9 DEF Frame, Making

(* An instruction that finds its operands leaves the frame its slot 0 and *)
(* every captured variable its slot.                                      *)
LEMMA UnderOperands ==
  ASSUME Shaped, NEW n \in Nat, HasOperands(n)
  PROVE  /\ phase = "run" /\ n < Len(stack) /\ Len(stack) \in 1..MaxStack
         /\ Len(stack) - n \in 1..Len(stack)
         /\ Len(stack) - n >= Current.base /\ Current.base \in 1..Len(stack)
         /\ Below(n) \in Seq(Values) /\ Len(Below(n)) = Len(stack) - n
         /\ \A i \in 1..(Len(stack) - n) : Below(n)[i] = stack[i]
         /\ (loose \/ \A s \in Slots : open[s] # Null => s <= Len(stack) - n)
         /\ \A i \in 1..Len(frames) : frames[i].base <= Len(stack) - n
<1>1. phase = "run" /\ Len(stack) >= Current.base + n BY DEF HasOperands
<1>2. Current.base \in 1..Len(stack) /\ Len(stack) \in 1..MaxStack BY <1>1, RunningFrame
<1>3. Len(stack) - n \in 0..Len(stack) /\ n < Len(stack) /\ Len(stack) - n >= Current.base
      /\ Len(stack) - n \in 1..Len(stack)
  BY <1>1, <1>2
<1>4. (loose \/ \A s \in Slots : open[s] # Null => s <= Len(stack) - n)
  <2> SUFFICES ASSUME ~loose, NEW s \in Slots, open[s] # Null, ~(s <= Len(stack) - n) PROVE FALSE OBVIOUS
  <2>1. s <= Len(stack) /\ s \in Nat BY Parts DEF Slots
  <2>2. s \in (Len(stack) - n + 1)..Len(stack) BY <2>1, <1>2, <1>3
  <2> QED BY <2>2 DEF HasOperands, Uncaptured
<1>5. \A i \in 1..Len(frames) : frames[i].base <= Len(stack) - n
  BY <1>1, <1>2, <1>3, RunningFrame DEF Slots
<1> QED BY <1>1, <1>2, <1>3, <1>4, <1>5, Parts, Prefix DEF Below

(* An operand is a value. *)
LEMMA TopTyped == ASSUME Shaped, stack # <<>> PROVE Top \in Values /\ Len(stack) \in 1..Len(stack)
<1>1. Len(stack) \in 1..Len(stack) BY Parts
<1> QED BY <1>1, Parts DEF Top

(* What an object has is a value. *)
LEMMA ElementsTyped == ASSUME Shaped, NEW o \in Objects PROVE Elements(o) \subseteq Values
BY Parts DEF Elements, Values

(* What is left above the top of the stack are values open upvalues point to. *)
LeftKept == left' \in [Slots -> Values] /\ LeftOpen'

LEMMA CellTyped == ASSUME Shaped, NEW s \in Slots PROVE Cell(s) \in Values
BY Parts DEF Cell, Slots

LEMMA LeavesTyped == ASSUME Shaped, Leaves PROVE LeftKept
<1>1. \A s \in Slots : Cell(s) \in Values BY CellTyped
<1> QED BY <1>1 DEF Leaves, LeftKept, LeftOpen, Values

(* A step of the program that makes no object. *)
LEMMA SteppedShape ==
  ASSUME Shaped, LeftKept, phase \in {"run", "capture"}, phase' \in {"run", "capture", "ended"},
         heap' \in [Objects -> {"unused", "new", "chain", "off", "freed"}],
         UNCHANGED <<marked, gray, pending>>,
         refs' \in [Objects -> SUBSET Objects],
         stack' \in Seq(Values), Len(stack') \in 1..MaxStack,
         frames' \in Seq(Frame), Len(frames') <= MaxFrames,
         phase' # "ended" => frames' # <<>>,
         \A i \in 1..Len(frames') : frames'[i].base <= Len(stack'),
         \A i, j \in 1..Len(frames') : i < j => frames'[i].base < frames'[j].base,
         open' \in [Slots -> UpValues \cup {Null}],
         loose' \in BOOLEAN, (loose' \/ \A s \in Slots : open'[s] # Null => s <= Len(stack')),
         global' \in Values,
         phase' = "capture" => Top' \in Closures
  PROVE  Shaped'
<1>1. ~Making' BY DEF Making
<1>2. TypeOK' BY DEF Shaped, TypeOK, LeftKept
<1>3. Framed'
  <2>1. stack' # <<>> OBVIOUS
  <2>2. DOMAIN frames' = 1..Len(frames') OBVIOUS
  <2> QED BY <1>1, <2>1, <2>2 DEF Framed
<1>4. OpenUnderOperands' BY <1>1 DEF OpenUnderOperands, OpenOnStack
<1> QED BY <1>2, <1>3, <1>4 DEF Shaped, LeftKept

(* A step that only changes the stack, and only above the frame's slot 0 and *)
(* the captured variables.                                                   *)
LEMMA MovesShape ==
  ASSUME Shaped, LeftKept, phase = "run",
         NEW s \in Seq(Values), Len(s) >= Current.base, (loose \/ \A t \in Slots : open[t] # Null => t <= Len(s)),
         Moves(s)
  PROVE  Shaped'
<1>1. stack' = s /\ Len(s) <= MaxStack /\ UNCHANGED <<heap, refs, frames, open, global, loose, marked, gray, phase, pending>>
  BY DEF Moves, colours
<1>2. Len(s) \in 1..MaxStack BY <1>1, RunningFrame, Kinds
<1>3. \A i \in 1..Len(frames) : frames[i].base <= Len(s) BY <1>2, RunningFrame DEF Slots
<1>4. frames # <<>> /\ Len(frames) <= MaxFrames BY RunningFrame, Parts
<1> QED BY <1>1, <1>2, <1>3, <1>4, RunningFrame, Parts, SteppedShape

(* A step of the running frame that only gives references, and may drop an   *)
(* operand.                                                                  *)
LEMMA GivesShape ==
  ASSUME Shaped, LeftKept, phase \in {"run", "capture"}, refs' \in [Objects -> SUBSET Objects],
         UNCHANGED <<heap, frames, open, global, loose, marked, gray, phase, pending>>,
         UNCHANGED stack \/ (HasOperands(1) /\ stack' = Below(1))
  PROVE  Shaped'
<1>1. stack' \in Seq(Values) /\ Len(stack') \in 1..MaxStack /\ Len(stack') >= Current.base
      /\ (loose \/ \A s \in Slots : open[s] # Null => s <= Len(stack'))
  <2>1. CASE UNCHANGED stack BY <2>1, Parts, RunningFrame
  <2>2. CASE HasOperands(1) /\ stack' = Below(1)
    <3>1. 1 \in Nat OBVIOUS
    <3> QED BY <2>2, <3>1, UnderOperands, Kinds
  <2> QED BY <2>1, <2>2
<1>2. \A i \in 1..Len(frames) : frames[i].base <= Len(stack') BY <1>1, RunningFrame DEF Slots
<1>3. frames # <<>> /\ Len(frames) <= MaxFrames BY RunningFrame, Parts
<1>4. phase' = "capture" => Top' \in Closures
  <2>1. phase = "capture" => Top \in Closures BY DEF Shaped, Framed
  <2> QED BY <2>1 DEF Top, HasOperands
<1> QED BY <1>1, <1>2, <1>3, <1>4, RunningFrame, Parts, SteppedShape

(* CreateObject begins. *)
LEMMA CreateShape ==
  ASSUME Shaped, LeftKept, phase \in {"run", "capture"},
         NEW o \in Objects, NEW held \in SUBSET Objects, NEW pops \in 0..MaxStack, NEW slot \in 0..MaxStack,
         Create(o, held, pops, slot), UNCHANGED <<frames, open, global, loose>>,
         stack' \in Seq(Values), Len(stack') \in 1..MaxStack,
         \A i \in 1..Len(frames) : frames[i].base <= Len(stack'),
         (loose \/ \A s \in Slots : open[s] # Null => s <= Len(stack')),
         o \in UpValues => slot \in 1..Len(stack') /\ Top' \in Closures,
         o \notin UpValues =>
           /\ pops <= Len(stack') /\ Len(stack') - pops < MaxStack
           /\ \A i \in 1..Len(frames) : frames[i].base <= Len(stack') - pops
           /\ (loose \/ \A s \in Slots : open[s] # Null => s <= Len(stack') - pops)
  PROVE  Shaped'
<1>1. /\ heap[o] = "unused" /\ heap' = [heap EXCEPT ![o] = "new"] /\ refs' = [refs EXCEPT ![o] = held]
      /\ pending' = [obj |-> o, pops |-> pops, slot |-> slot] /\ phase' = "create"
      /\ UNCHANGED <<marked, gray>>
  BY DEF Create, colours
<1>2. pending'.obj = o /\ pending'.pops = pops /\ pending'.slot = slot BY <1>1
<1>3. TypeOK'
  <2>1. heap' \in [Objects -> {"unused", "new", "chain", "off", "freed"}] BY <1>1, Parts
  <2>2. refs' \in [Objects -> SUBSET Objects] BY <1>1, Parts
  <2>3. pending' \in [obj : Values, pops : 0..MaxStack, slot : 0..MaxStack] BY <1>1 DEF Values
  <2> QED BY <2>1, <2>2, <2>3, <1>1 DEF Shaped, TypeOK, LeftKept
<1>4. Framed'
  <2>1. DOMAIN frames' = 1..Len(frames') /\ frames' = frames BY Parts
  <2>2. frames' # <<>> BY <2>1, RunningFrame
  <2>3. stack' # <<>> OBVIOUS
  <2>4. \A i, j \in DOMAIN frames' : i < j => frames'[i].base < frames'[j].base BY <2>1, RunningFrame
  <2>5. o \in UpValues => slot \in Slots BY Kinds DEF Slots
  <2> QED BY <1>1, <1>2, <2>1, <2>2, <2>3, <2>4, <2>5 DEF Framed, Making
<1>5. OpenUnderOperands'
  <2>1. o \in UpValues => slot <= Len(stack') OBVIOUS
  <2> QED BY <1>1, <1>2, <2>1 DEF OpenUnderOperands, OpenOnStack, Making
<1> QED BY <1>3, <1>4, <1>5 DEF Shaped, LeftKept

-----------------------------------------------------------------------------
(* The instructions keep the shape *)

(* Whatever an instruction can load is a value. *)
LEMMA LoadableTyped == ASSUME Shaped, phase = "run" PROVE Loadable \subseteq Values
<1>1. Constants \in [Programs -> SUBSET Compiled] /\ Compiled \subseteq Values
  BY ConstantsAssumption DEF Values, Objects
<1>2. UNION {Constants[f] \cap Strings : f \in refs[Current.closure] \cap Programs} \subseteq Values BY <1>1
<1>3. {stack[i] : i \in Locals} \subseteq Values
  <2>1. \A i \in Locals : i \in 1..Len(stack) BY RunningFrame DEF Locals
  <2> QED BY <2>1, Parts
<1>4. ASSUME NEW u \in Captured PROVE ValuesOf(u) \subseteq Values
  <2>1. u \in Objects BY <1>4, Kinds DEF Captured
  <2>2. refs[u] \subseteq Values BY <2>1, Parts DEF Values
  <2>3. \A s \in Slots : Cell(s) \in Values BY CellTyped
  <2> QED BY <2>2, <2>3 DEF ValuesOf, Values
<1>5. UNION {ValuesOf(u) : u \in Captured} \subseteq Values BY <1>4
<1>6. {Null, global} \subseteq Values BY Parts DEF Values
<1> QED BY <1>2, <1>3, <1>5, <1>6 DEF Loadable

(* OP_CONSTANT, OP_NULL, OP_GET_GLOBAL, OP_GET_LOCAL and OP_GET_UPVALUE. *)
LEMMA LoadShape == ASSUME Shaped, LeftKept, Load PROVE Shaped'
<1>1. phase = "run" BY DEF Load
<1>2. PICK v \in Loadable : Moves(Append(stack, v)) BY DEF Load
<1>3. v \in Values BY <1>1, LoadableTyped
<1> DEFINE s == Append(stack, v)
<1>4. s \in Seq(Values) /\ Len(s) = Len(stack) + 1 BY <1>3, Parts, Longer
<1>5. Moves(s) BY <1>2
<1> HIDE DEF s
<1>6. Len(s) >= Current.base BY <1>1, <1>4, RunningFrame
<1>7. loose \/ \A t \in Slots : open[t] # Null => t <= Len(s)
  <2>1. Len(stack) \in Nat /\ Len(s) = Len(stack) + 1 BY <1>4, Parts
  <2>2. loose \/ \A t \in Slots : open[t] # Null => t <= Len(stack) BY Parts
  <2>3. \A t \in Slots : t \in Nat BY DEF Slots
  <2> QED BY <2>1, <2>2, <2>3
<1> QED BY <1>1, <1>4, <1>5, <1>6, <1>7, MovesShape

(* OP_POP. *)
LEMMA PopShape == ASSUME Shaped, LeftKept, Pop PROVE Shaped'
<1>1. HasOperands(1) /\ Moves(Below(1)) /\ 1 \in Nat BY DEF Pop
<1>2. /\ Below(1) \in Seq(Values) /\ Len(Below(1)) >= Current.base /\ phase = "run"
      /\ (loose \/ \A t \in Slots : open[t] # Null => t <= Len(Below(1)))
  BY <1>1, UnderOperands
<1> QED BY <1>1, <1>2, MovesShape

(* OP_GET_INDEX and OP_GET_PROPERTY of a field. *)
LEMMA GetElementShape == ASSUME Shaped, LeftKept, GetElement PROVE Shaped'
<1>1. HasOperands(1) /\ Top \in Objects /\ 1 \in Nat BY Kinds DEF GetElement
<1>2. PICK v \in Elements(Top) : Moves(Append(Below(1), v)) BY DEF GetElement
<1>3. v \in Values BY <1>1, <1>2, ElementsTyped
<1> DEFINE s == Append(Below(1), v)
<1>4. s \in Seq(Values) /\ Len(s) = Len(Below(1)) + 1 BY <1>1, <1>3, UnderOperands, Longer
<1>5. Moves(s) BY <1>2
<1> HIDE DEF s
<1>6. Len(s) = Len(stack) BY <1>1, <1>4, UnderOperands
<1>7. phase = "run" /\ Len(s) >= Current.base BY <1>1, <1>6, UnderOperands
<1> QED BY <1>4, <1>5, <1>6, <1>7, Parts, MovesShape

(* OP_SET_GLOBAL. *)
LEMMA SetGlobalShape == ASSUME Shaped, LeftKept, SetGlobal PROVE Shaped'
<1>1. /\ phase = "run" /\ global' = Top
      /\ UNCHANGED <<heap, refs, stack, frames, open, loose, marked, gray, phase, pending>>
  BY DEF SetGlobal, HasOperands, colours
<1>2. Top \in Values BY <1>1, RunningFrame, TopTyped
<1>3. \A i \in 1..Len(frames) : frames[i].base <= Len(stack) BY <1>1, RunningFrame DEF Slots
<1>4. frames # <<>> /\ Len(frames) <= MaxFrames BY <1>1, RunningFrame, Parts
<1> QED BY <1>1, <1>2, <1>3, <1>4, RunningFrame, Parts, SteppedShape

(* The value on top goes to a slot. *)
LEMMA SetSlotShape ==
  ASSUME Shaped, LeftKept, phase = "run", NEW s \in 1..Len(stack), Moves([stack EXCEPT ![s] = Top])
  PROVE  Shaped'
<1>1. Top \in Values BY RunningFrame, TopTyped
<1>2. [stack EXCEPT ![s] = Top] \in Seq(Values) /\ Len([stack EXCEPT ![s] = Top]) = Len(stack)
  BY <1>1, Parts, Replaced
<1>3. Len(stack) >= Current.base BY RunningFrame
<1> QED BY <1>2, <1>3, Parts, MovesShape

(* OP_SET_LOCAL. *)
LEMMA SetLocalShape == ASSUME Shaped, LeftKept, SetLocal PROVE Shaped'
<1>1. phase = "run" BY DEF SetLocal, HasOperands
<1>2. PICK s \in Locals : Moves([stack EXCEPT ![s] = Top]) BY DEF SetLocal
<1>3. s \in 1..Len(stack) BY <1>1, RunningFrame DEF Locals
<1> QED BY <1>1, <1>2, <1>3, SetSlotShape

(* OP_SET_UPVALUE, of an open and of a closed upvalue. *)
LEMMA SetUpValueShape == ASSUME Shaped, LeftKept, SetUpValue PROVE Shaped'
<1>1. phase = "run" BY DEF SetUpValue, HasOperands
<1>2. PICK u \in Captured :
       \/ \E s \in DOMAIN stack : open[s] = u /\ Moves([stack EXCEPT ![s] = Top])
       \/ UNCHANGED <<heap, refs, stack, frames, open, global, loose, colours, phase, pending>>
       \/ /\ u \notin OpenUpValues
          /\ refs' = [refs EXCEPT ![u] = {Top} \ {Null}]
          /\ UNCHANGED <<heap, mutator, colours, phase, pending>>
  BY DEF SetUpValue
<1>3. CASE \E s \in DOMAIN stack : open[s] = u /\ Moves([stack EXCEPT ![s] = Top])
  <2>1. PICK s \in 1..Len(stack) : Moves([stack EXCEPT ![s] = Top]) BY <1>3, Parts
  <2> QED BY <1>1, <2>1, SetSlotShape
<1>4. CASE /\ refs' = [refs EXCEPT ![u] = {Top} \ {Null}]
           /\ UNCHANGED <<heap, mutator, colours, phase, pending>>
  <2>1. {Top} \ {Null} \subseteq Objects BY <1>1, RunningFrame, TopTyped DEF Values
  <2>2. refs' \in [Objects -> SUBSET Objects] BY <1>4, <2>1, Parts
  <2> QED BY <1>1, <1>4, <2>2, GivesShape DEF mutator, colours
<1>5. CASE UNCHANGED <<heap, refs, stack, frames, open, global, loose, colours, phase, pending>>
  <2>1. refs' \in [Objects -> SUBSET Objects] BY <1>5, Parts
  <2> QED BY <1>1, <1>5, <2>1, GivesShape DEF colours
<1> QED BY <1>2, <1>3, <1>4, <1>5

(* OP_SET_INDEX and OP_SET_PROPERTY. *)
LEMMA SetElementShape == ASSUME Shaped, LeftKept, SetElement PROVE Shaped'
<1> DEFINE v == stack[Len(stack) - 1]
<1>1. HasOperands(2) /\ phase = "run" /\ Top \in Objects BY Kinds DEF SetElement, HasOperands
<1>2. PICK lost : refs' = [refs EXCEPT ![Top] = (@ \ lost) \cup ({v} \ {Null})] BY DEF SetElement
<1>3. stack' = Below(1) /\ UNCHANGED <<heap, frames, open, global, loose, marked, gray, phase, pending>>
  BY DEF SetElement, colours
<1>4. Len(stack) - 1 \in 1..Len(stack) /\ HasOperands(1)
  <2>1. Len(stack) >= Current.base + 2 BY <1>1 DEF HasOperands
  <2>2. Current.base \in Nat /\ Len(stack) \in Nat /\ Current.base >= 1 BY <1>1, RunningFrame
  <2> QED BY <1>1, <2>1, <2>2 DEF HasOperands, Uncaptured
<1>5. v \in Values BY <1>4, Parts
<1>6. refs' \in [Objects -> SUBSET Objects]
  <2>1. (refs[Top] \ lost) \cup ({v} \ {Null}) \subseteq Objects BY <1>1, <1>5, Parts DEF Values
  <2> QED BY <1>2, <2>1, Parts
<1> QED BY <1>1, <1>3, <1>4, <1>6, GivesShape

(* Closing upvalues gives them what is on the stack, and keeps those below. *)
LEMMA ClosingShape ==
  ASSUME Shaped, NEW first \in Nat
  PROVE  /\ ClosedUpValues(first) \in [Objects -> SUBSET Objects]
         /\ OpenBelow(first) \in [Slots -> UpValues \cup {Null}]
         /\ \A s \in Slots : OpenBelow(first)[s] # Null => s < first
<1>1. \A o \in Objects : {Cell(s) : s \in {t \in Slots : open[t] = o}} \ {Null} \subseteq Objects
  BY CellTyped DEF Values
<1>2. \A o \in Objects : ClosedUpValues(first)[o] \subseteq Objects BY <1>1, Parts DEF ClosedUpValues
<1>3. ClosedUpValues(first) \in [Objects -> SUBSET Objects] BY <1>2 DEF ClosedUpValues
<1>4. \A s \in Slots : OpenBelow(first)[s] # Null => s < first BY DEF OpenBelow, Slots
<1> QED BY <1>3, <1>4, Parts DEF OpenBelow

(* The end of a block closes what was on the slots it pops, unless no closure *)
(* has captured them.                                                         *)
LEMMA ExitScopeShape ==
  ASSUME Shaped, LeftKept, NEW n \in 1..MaxStack, NEW last \in 0..n, ExitScope(n, last)
  PROVE  Shaped'
<1> DEFINE first == (Len(stack) - last) + 1
<1>1. /\ phase = "run" /\ Len(stack) >= Current.base + n
      /\ loose' = (loose \/ ~ (last = n \/ Uncaptured(n)))
      /\ stack' = Below(n)
      /\ UNCHANGED <<heap, frames, global, marked, gray, phase, pending>>
  BY DEF ExitScope, colours
<1>2. (last = 0 /\ UNCHANGED <<refs, open>>) \/ (refs' = ClosedUpValues(first) /\ open' = OpenBelow(first))
  BY DEF ExitScope
<1>3. /\ Len(stack) \in Nat /\ Current.base \in 1..Len(stack) /\ Len(stack) <= MaxStack
      /\ n \in Nat /\ n >= 1 /\ last \in Nat /\ last <= n
  BY <1>1, RunningFrame, Kinds
<1>4. Len(stack) - n \in 0..Len(stack) /\ first \in Nat BY <1>1, <1>3
<1>5. stack' \in Seq(Values) /\ Len(stack') = Len(stack) - n BY <1>1, <1>4, Prefix, Parts DEF Below
<1>6. Len(stack') \in 1..MaxStack /\ Current.base <= Len(stack') BY <1>1, <1>3, <1>5, Kinds
<1>7. \A i \in 1..Len(frames) : frames[i].base <= Len(stack') BY <1>1, <1>3, <1>6, RunningFrame DEF Slots
<1>8. open' \in [Slots -> UpValues \cup {Null}] /\ refs' \in [Objects -> SUBSET Objects]
  BY <1>2, <1>4, ClosingShape, Parts
<1>9. loose' \/ \A s \in Slots : open'[s] # Null => s <= Len(stack')
  <2> SUFFICES ASSUME ~loose', NEW s \in Slots, open'[s] # Null PROVE s <= Len(stack') OBVIOUS
  <2>1. s \in Nat BY DEF Slots
  <2>2. ~loose /\ (last = n \/ Uncaptured(n)) BY <1>1
  <2>5. open[s] # Null /\ s <= Len(stack) BY <1>2, <2>2, Parts DEF OpenBelow
  <2>3. CASE last = n
    <3>1. s < first BY <1>2, <1>3, <1>4, <2>3, ClosingShape
    <3> QED BY <1>3, <1>5, <2>1, <2>3, <3>1
  <2>4. CASE Uncaptured(n)
    <3>1. s \notin (Len(stack) - n + 1)..Len(stack) BY <2>4, <2>5 DEF Uncaptured
    <3> QED BY <1>3, <1>5, <2>1, <2>5, <3>1
  <2> QED BY <2>2, <2>3, <2>4
<1>10. frames # <<>> /\ Len(frames) <= MaxFrames BY <1>1, RunningFrame, Parts
<1> QED BY <1>1, <1>5, <1>6, <1>7, <1>8, <1>9, <1>10, RunningFrame, Parts, SteppedShape

(* The closure on top of the stack is given an upvalue. *)
LEMMA UpValueGivenShape ==
  ASSUME Shaped, LeftKept, phase = "capture", NEW u \in Objects, Gives(u)
  PROVE  Shaped'
<1>1. Top \in Objects BY Kinds DEF Shaped, Framed
<1>2. refs' = [refs EXCEPT ![Top] = refs[Top] \cup {u}]
      /\ UNCHANGED <<heap, stack, frames, open, global, loose, marked, gray, phase, pending>>
  BY DEF Gives, mutator, colours
<1>3. refs' \in [Objects -> SUBSET Objects] BY <1>1, <1>2, Parts
<1> QED BY <1>2, <1>3, GivesShape

(* OP_CLOSURE captures a slot. *)
LEMMA CaptureShape == ASSUME Shaped, LeftKept, Capture PROVE Shaped'
<1>1. phase = "capture" BY DEF Capture
<1>2. PICK s \in Locals :
        \/ open[s] # Null /\ Gives(open[s])
        \/ /\ open[s] = Null
           /\ \E u \in UpValues : Create(u, {}, 0, s)
           /\ UNCHANGED mutator
  BY DEF Capture
<1>3. s \in Slots /\ s \in 1..Len(stack) /\ Len(stack) \in 1..MaxStack
  <2>1. Current.base \in 1..Len(stack) /\ Len(stack) \in 1..MaxStack BY <1>1, RunningFrame
  <2> QED BY <2>1, Kinds DEF Locals, Slots
<1>4. CASE open[s] # Null /\ Gives(open[s])
  <2>1. open[s] \in Objects BY <1>3, <1>4, Parts, Kinds
  <2> QED BY <1>1, <1>4, <2>1, UpValueGivenShape
<1>5. CASE UNCHANGED mutator /\ \E u \in UpValues : Create(u, {}, 0, s)
  <2>1. PICK u \in UpValues : Create(u, {}, 0, s) BY <1>5
  <2>2. UNCHANGED <<stack, frames, open, global, loose>> BY <1>5 DEF mutator
  <2>3. Top' \in Closures BY <1>1, <2>2 DEF Top, Shaped, Framed
  <2>4. u \in Objects /\ {} \in SUBSET Objects /\ 0 \in 0..MaxStack /\ s \in 0..MaxStack BY <1>3, Kinds DEF Slots
  <2>5. \A i \in 1..Len(frames) : frames[i].base <= Len(stack) BY <1>1, <1>3, RunningFrame DEF Slots
  <2>6. /\ stack' \in Seq(Values) /\ Len(stack') \in 1..MaxStack /\ s \in 1..Len(stack')
        /\ \A i \in 1..Len(frames) : frames[i].base <= Len(stack')
        /\ (loose \/ \A t \in Slots : open[t] # Null => t <= Len(stack'))
    BY <1>3, <2>2, <2>5, Parts
  <2>7. u \in UpValues /\ UNCHANGED <<frames, open, global, loose>> BY <2>1, <2>2
  <2> QED BY <1>1, <2>1, <2>3, <2>4, <2>6, <2>7, CreateShape
<1> QED BY <1>2, <1>4, <1>5

(* OP_CLOSURE hands on an upvalue of the closure that runs. *)
LEMMA InheritShape == ASSUME Shaped, LeftKept, Inherit PROVE Shaped'
<1>1. PICK u \in Captured : Gives(u) BY DEF Inherit
<1>2. phase = "capture" /\ u \in Objects BY <1>1, Kinds DEF Inherit, Captured
<1> QED BY <1>1, <1>2, UpValueGivenShape

(* OP_CLOSURE has all its upvalues. *)
LEMMA ReadyShape == ASSUME Shaped, LeftKept, Ready PROVE Shaped'
<1>1. phase = "capture" /\ phase' = "run" /\ UNCHANGED <<heap, refs, stack, frames, open, global, loose, marked, gray, pending>>
  BY DEF Ready, mutator, colours
<1>2. \A i \in 1..Len(frames) : frames[i].base <= Len(stack) BY <1>1, RunningFrame DEF Slots
<1>3. frames # <<>> /\ Len(frames) <= MaxFrames BY <1>1, RunningFrame, Parts
<1> QED BY <1>1, <1>2, <1>3, RunningFrame, Parts, SteppedShape

-----------------------------------------------------------------------------
(* Instructions that make an object, and calls *)

(* OP_ARRAY and the others that make an object of n operands. *)
LEMMA MakeContainerShape == ASSUME Shaped, LeftKept, NEW n \in Nat, MakeContainer(n) PROVE Shaped'
<1> DEFINE held == Above(Len(stack) - n)
<1>1. HasOperands(n) /\ Len(stack) - n < MaxStack /\ UNCHANGED <<stack, frames, open, global, loose>>
  BY DEF MakeContainer, mutator
<1>2. PICK o \in Containers : Create(o, held, n, 0) BY DEF MakeContainer
<1>3. /\ phase = "run" /\ n < Len(stack) /\ Len(stack) \in 1..MaxStack /\ Len(stack) - n \in 1..Len(stack)
      /\ (loose \/ \A s \in Slots : open[s] # Null => s <= Len(stack) - n)
      /\ \A i \in 1..Len(frames) : frames[i].base <= Len(stack) - n
  BY <1>1, UnderOperands
<1>4. held \in SUBSET Objects
  <2>1. \A i \in ((Len(stack) - n) + 1)..Len(stack) : i \in 1..Len(stack) BY <1>3
  <2> QED BY <2>1, Parts DEF Above, Values
<1> HIDE DEF held
<1>5. o \in Objects /\ o \notin UpValues /\ n \in 0..MaxStack /\ 0 \in 0..MaxStack BY <1>3, Kinds
<1>6. \A i \in 1..Len(frames) : frames[i].base <= Len(stack) BY <1>3, RunningFrame DEF Slots
<1>7. /\ stack' \in Seq(Values) /\ Len(stack') \in 1..MaxStack
      /\ n <= Len(stack') /\ Len(stack') - n < MaxStack
      /\ \A i \in 1..Len(frames) : frames[i].base <= Len(stack') - n
      /\ \A i \in 1..Len(frames) : frames[i].base <= Len(stack')
      /\ (loose \/ \A s \in Slots : open[s] # Null => s <= Len(stack') - n)
      /\ (loose \/ \A s \in Slots : open[s] # Null => s <= Len(stack'))
  BY <1>1, <1>3, <1>6, Parts
<1>8. UNCHANGED <<frames, open, global, loose>> BY <1>1
<1> QED BY <1>2, <1>3, <1>4, <1>5, <1>7, <1>8, CreateShape

(* OP_CLOSURE pushes the function its closure is made of. *)
LEMMA MakeClosureShape == ASSUME Shaped, LeftKept, MakeClosure PROVE Shaped'
<1>1. phase = "run" /\ Len(stack) < MaxStack /\ UNCHANGED <<frames, open, global, loose>> BY DEF MakeClosure
<1>2. PICK p \in refs[Current.closure] \cap Programs :
        \E f \in Constants[p] \cap Programs, o \in Closures :
          Create(o, {f}, 1, 0) /\ stack' = Append(stack, f)
  BY DEF MakeClosure
<1>3. PICK f \in Constants[p] \cap Programs, o \in Closures :
          Create(o, {f}, 1, 0) /\ stack' = Append(stack, f)
  BY <1>2
<1>4. f \in Objects /\ f \in Values /\ o \in Objects /\ o \notin UpValues /\ 1 \in 0..MaxStack /\ 0 \in 0..MaxStack
  BY Kinds DEF Values
<1>5. stack' \in Seq(Values) /\ Len(stack') = Len(stack) + 1 BY <1>3, <1>4, Parts, Longer
<1>6. Len(stack) \in 1..MaxStack BY <1>1, RunningFrame
<1>7. Len(stack') \in 1..MaxStack /\ Len(stack') - 1 = Len(stack) /\ 1 <= Len(stack') BY <1>1, <1>5, <1>6, Kinds
<1>8. \A i \in 1..Len(frames) : frames[i].base <= Len(stack) /\ frames[i].base \in Nat
  BY <1>1, <1>6, RunningFrame DEF Slots
<1>9. \A i \in 1..Len(frames) : frames[i].base <= Len(stack') BY <1>5, <1>6, <1>8
<1>10. (loose \/ \A s \in Slots : open[s] # Null => s <= Len(stack) /\ s <= Len(stack'))
  BY <1>5, <1>6, Parts DEF Slots
<1>11. {f} \in SUBSET Objects /\ Create(o, {f}, 1, 0) BY <1>3, <1>4
<1>12. Len(stack') - 1 < MaxStack /\ (\A i \in 1..Len(frames) : frames[i].base <= Len(stack') - 1)
       /\ (loose \/ \A s \in Slots : open[s] # Null => s <= Len(stack') - 1)
  BY <1>1, <1>7, <1>8, <1>10
<1> QED BY <1>1, <1>4, <1>5, <1>7, <1>9, <1>10, <1>11, <1>12, CreateShape

(* OP_GET_PROPERTY of a method pops the receiver first. *)
LEMMA BindShape == ASSUME Shaped, LeftKept, Bind PROVE Shaped'
<1>1. HasOperands(1) /\ Top \in Containers /\ stack' = Below(1) /\ UNCHANGED <<frames, open, global, loose>> /\ 1 \in Nat
  BY DEF Bind
<1>2. PICK c \in refs[Top] \cap Closures, o \in Binds : Create(o, {Top, c}, 0, 0) BY DEF Bind
<1>3. /\ phase = "run" /\ Len(stack) \in 1..MaxStack /\ Len(stack) - 1 \in 1..Len(stack)
      /\ stack' \in Seq(Values) /\ Len(stack') = Len(stack) - 1
      /\ (loose \/ \A s \in Slots : open[s] # Null => s <= Len(stack'))
      /\ \A i \in 1..Len(frames) : frames[i].base <= Len(stack')
  BY <1>1, UnderOperands
<1>4. Len(stack') \in 1..MaxStack /\ Len(stack') - 0 = Len(stack') /\ Len(stack') < MaxStack /\ 0 <= Len(stack')
  BY <1>3, Kinds
<1>5. o \in Objects /\ o \notin UpValues /\ 0 \in 0..MaxStack /\ {Top, c} \in SUBSET Objects
  BY <1>1, <1>2, Kinds
<1> DEFINE held == {Top, c}
<1>6. held \in SUBSET Objects /\ Create(o, held, 0, 0) BY <1>2, <1>5
<1>7. Len(stack') - 0 < MaxStack /\ (\A i \in 1..Len(frames) : frames[i].base <= Len(stack') - 0)
      /\ (loose \/ \A s \in Slots : open[s] # Null => s <= Len(stack') - 0)
  BY <1>3, <1>4
<1> HIDE DEF held
<1> QED BY <1>1, <1>3, <1>4, <1>5, <1>6, <1>7, CreateShape

(* What a callee can mean: an object for slot 0 and a closure. *)
LEMMA TargetTyped ==
  ASSUME Shaped, NEW callee \in Values, NEW target \in Targets(callee)
  PROVE  target[1] \in Objects /\ target[2] \in Closures
<1>1. CASE callee \in Closures
  <2>1. Targets(callee) = {<<callee, callee>>} BY <1>1, Kinds DEF Targets
  <2> QED BY <1>1, <2>1, Kinds
<1>2. CASE callee \notin Closures /\ callee \in Binds
  <2>1. Targets(callee) = {<<r, c>> : r \in refs[callee] \cap Containers, c \in refs[callee] \cap Closures}
    BY <1>2, Kinds DEF Targets
  <2> QED BY <2>1, Kinds
<1>3. CASE callee \notin Closures /\ callee \notin Binds /\ callee \in Containers
  <2>1. Targets(callee) = {<<callee, c>> : c \in refs[callee] \cap Closures}
    BY <1>3, Kinds DEF Targets
  <2> QED BY <1>3, <2>1, Kinds
<1>4. CASE callee \notin Closures /\ callee \notin Binds /\ callee \notin Containers
  <2>1. Targets(callee) = {} BY <1>4, Kinds DEF Targets
  <2> QED BY <2>1
<1> QED BY <1>1, <1>2, <1>3, <1>4

(* Where a call finds its callee. *)
LEMMA CalleeSlot ==
  ASSUME Shaped, NEW argCount \in Nat, HasOperands(argCount + 1)
  PROVE  /\ phase = "run" /\ Len(stack) - argCount \in 1..Len(stack)
         /\ Len(stack) - argCount \in (Current.base + 1)..MaxStack
         /\ Len(stack) \in 1..MaxStack /\ stack[Len(stack) - argCount] \in Values
         /\ (loose \/ \A s \in Slots : open[s] # Null => s <= (Len(stack) - argCount) - 1)
<1>1. /\ phase = "run" /\ argCount + 1 < Len(stack) /\ Len(stack) \in 1..MaxStack
      /\ Len(stack) - (argCount + 1) >= Current.base /\ Current.base \in 1..Len(stack)
      /\ (loose \/ \A s \in Slots : open[s] # Null => s <= Len(stack) - (argCount + 1))
  BY UnderOperands
<1>2. Len(stack) - argCount \in 1..Len(stack) /\ Len(stack) - argCount \in (Current.base + 1)..MaxStack
      /\ Len(stack) - (argCount + 1) = (Len(stack) - argCount) - 1
  BY <1>1, Kinds
<1> QED BY <1>1, <1>2, Parts

(* The frame of a callee: above the running one, its slot 0 on the stack. *)
LEMMA FrameAdded ==
  ASSUME Shaped, phase = "run",
         NEW closure \in Closures, NEW base \in (Current.base + 1)..MaxStack,
         Len(frames) < MaxFrames,
         frames' = Append(frames, [closure |-> closure, base |-> base])
  PROVE  /\ frames' \in Seq(Frame) /\ Len(frames') <= MaxFrames /\ frames' # <<>>
         /\ \A i \in 1..Len(frames') : frames'[i].base <= base /\ frames'[i].base \in Slots
         /\ \A i, j \in 1..Len(frames') : i < j => frames'[i].base < frames'[j].base
<1> DEFINE new == [closure |-> closure, base |-> base]
           n == Len(frames)
<1>1. frames \in Seq(Frame) /\ n \in 1..MaxFrames /\ n \in Nat BY RunningFrame, Parts, Kinds
<1>2. Current.base \in Nat /\ base \in Slots BY RunningFrame, Kinds DEF Slots
<1>3. new \in Frame BY <1>2 DEF Frame
<1>4. frames' \in Seq(Frame) /\ Len(frames') = n + 1 /\ frames'[n + 1] = new
      /\ \A i \in 1..n : frames'[i] = frames[i]
  BY <1>1, <1>3
<1>5. \A i \in 1..n : frames[i].base \in Nat /\ frames[i].base < base /\ frames[i].base \in Slots
  BY <1>2, RunningFrame DEF Slots
<1> HIDE DEF n
<1>6. \A i \in 1..(n + 1) : i \in 1..n \/ i = n + 1 BY <1>1
<1>7. \A i \in 1..Len(frames') : frames'[i].base <= base /\ frames'[i].base \in Slots
  BY <1>2, <1>4, <1>5, <1>6 DEF Slots
<1>8. \A i, j \in 1..Len(frames') : i < j => frames'[i].base < frames'[j].base
  <2> SUFFICES ASSUME NEW i \in 1..(n + 1), NEW j \in 1..(n + 1), i < j
               PROVE  frames'[i].base < frames'[j].base
    BY <1>4
  <2>1. i \in 1..n BY <1>1
  <2>2. CASE j \in 1..n BY <2>1, <2>2, <1>4, RunningFrame DEF n
  <2>3. CASE j = n + 1 BY <2>1, <2>3, <1>4, <1>5
  <2> QED BY <2>2, <2>3, <1>6
<1>9. n + 1 <= MaxFrames BY <1>1, Kinds DEF n
<1> QED BY <1>1, <1>4, <1>7, <1>8, <1>9

(* A call that makes a frame. *)
LEMMA PushFrameShape ==
  ASSUME Shaped, LeftKept, phase = "run", NEW s \in Seq(Values),
         NEW closure \in Closures, NEW base \in (Current.base + 1)..MaxStack, base <= Len(s),
         (loose \/ \A t \in Slots : open[t] # Null => t <= Len(s)),
         heap' \in [Objects -> {"unused", "new", "chain", "off", "freed"}],
         refs' \in [Objects -> SUBSET Objects],
         PushFrame(s, closure, base)
  PROVE  Shaped'
<1>1. /\ stack' = s /\ Len(s) <= MaxStack /\ Len(frames) < MaxFrames
      /\ frames' = Append(frames, [closure |-> closure, base |-> base])
      /\ UNCHANGED <<open, global, loose, marked, gray, phase, pending>>
  BY DEF PushFrame, colours
<1>2. base \in Nat /\ base >= 1 BY RunningFrame
<1>3. Len(stack') \in 1..MaxStack BY <1>1, <1>2, Kinds
<1>4. /\ frames' \in Seq(Frame) /\ Len(frames') <= MaxFrames /\ frames' # <<>>
      /\ \A i \in 1..Len(frames') : frames'[i].base <= base /\ frames'[i].base \in Slots
      /\ \A i, j \in 1..Len(frames') : i < j => frames'[i].base < frames'[j].base
  BY <1>1, FrameAdded
<1>5. \A i \in 1..Len(frames') : frames'[i].base <= Len(stack') BY <1>1, <1>2, <1>3, <1>4 DEF Slots
<1> QED BY <1>1, <1>3, <1>4, <1>5, Parts, SteppedShape

(* OP_CALL. *)
LEMMA CallShape == ASSUME Shaped, LeftKept, NEW argCount \in Nat, Call(argCount) PROVE Shaped'
<1> DEFINE base == Len(stack) - argCount
<1>1. HasOperands(argCount + 1) /\ UNCHANGED <<heap, refs>> BY DEF Call
<1>2. PICK target \in Targets(stack[base]) :
        PushFrame([stack EXCEPT ![base] = target[1]], target[2], base)
  BY DEF Call
<1>3. /\ phase = "run" /\ base \in 1..Len(stack) /\ base \in (Current.base + 1)..MaxStack
      /\ base <= Len(stack) /\ stack[base] \in Values
  BY <1>1, CalleeSlot
<1>4. target[1] \in Values /\ target[2] \in Closures BY <1>3, TargetTyped DEF Values
<1> DEFINE s == [stack EXCEPT ![base] = target[1]]
<1>5. s \in Seq(Values) /\ Len(s) = Len(stack) BY <1>3, <1>4, Parts, Replaced
<1>6. PushFrame(s, target[2], base) BY <1>2
<1> HIDE DEF s, base
<1>7. base <= Len(s) /\ (loose \/ \A t \in Slots : open[t] # Null => t <= Len(s)) BY <1>3, <1>5, Parts
<1>8. heap' \in [Objects -> {"unused", "new", "chain", "off", "freed"}] /\ refs' \in [Objects -> SUBSET Objects]
  BY <1>1, Parts
<1> QED BY <1>3, <1>4, <1>5, <1>6, <1>7, <1>8, PushFrameShape

(* OP_CALL that packs its surplus arguments. *)
LEMMA CallPackedShape == ASSUME Shaped, LeftKept, NEW argCount \in Nat, CallPacked(argCount) PROVE Shaped'
<1> DEFINE base == Len(stack) - argCount
           packed == Above(base)
           s == SubSeq(stack, 1, base - 1)
<1>1. HasOperands(argCount + 1) BY DEF CallPacked
<1>2. PICK target \in Targets(stack[base]), a \in VarArgs :
        /\ heap' = [heap EXCEPT ![a] = "off"]
        /\ refs' = [refs EXCEPT ![a] = packed]
        /\ PushFrame(Append(Append(s, target[1]), a), target[2], base)
  BY DEF CallPacked
<1>3. /\ phase = "run" /\ base \in 1..Len(stack) /\ base \in (Current.base + 1)..MaxStack
      /\ Len(stack) \in 1..MaxStack /\ stack[base] \in Values
      /\ (loose \/ \A t \in Slots : open[t] # Null => t <= base - 1)
  BY <1>1, CalleeSlot
<1>4. target[1] \in Values /\ target[2] \in Closures /\ a \in Values /\ a \in Objects
  BY <1>3, TargetTyped, Kinds DEF Values
<1>5. packed \subseteq Objects
  <2>1. \A i \in (base + 1)..Len(stack) : i \in 1..Len(stack) BY <1>3
  <2> QED BY <2>1, Parts DEF Above, Values
<1> HIDE DEF packed
<1>6. heap' \in [Objects -> {"unused", "new", "chain", "off", "freed"}] /\ refs' \in [Objects -> SUBSET Objects]
  BY <1>2, <1>5, Parts
<1>7. s \in Seq(Values) /\ Len(s) = base - 1
  <2>1. base - 1 \in 0..Len(stack) BY <1>3
  <2> QED BY <2>1, Parts, Prefix
<1> DEFINE t == Append(s, target[1])
           u == Append(t, a)
<1> HIDE DEF s
<1>8. t \in Seq(Values) /\ Len(t) = (base - 1) + 1 BY <1>4, <1>7, Longer
<1>9. PushFrame(u, target[2], base) BY <1>2 DEF s
<1> HIDE DEF t
<1>10. u \in Seq(Values) /\ Len(u) = ((base - 1) + 1) + 1 BY <1>4, <1>8, Longer
<1> HIDE DEF u
<1>11. base <= Len(u) /\ (loose \/ \A x \in Slots : open[x] # Null => x <= Len(u))
  <2>1. base \in Nat /\ Len(u) = base + 1 BY <1>3, <1>10
  <2>2. \A x \in Slots : x \in Nat BY DEF Slots
  <2> QED BY <1>3, <2>1, <2>2
<1> HIDE DEF base
<1> QED BY <1>3, <1>4, <1>6, <1>9, <1>10, <1>11, PushFrameShape

(* OP_CALL that finds its result in FunctionObject::caches. *)
LEMMA CallCachedShape == ASSUME Shaped, LeftKept, NEW argCount \in Nat, CallCached(argCount) PROVE Shaped'
<1> DEFINE base == Len(stack) - argCount
           s == SubSeq(stack, 1, base - 1)
<1>1. HasOperands(argCount + 1) BY DEF CallCached
<1>2. PICK target \in Targets(stack[base]) :
        \E f \in refs[target[2]] \cap Programs :
          \E v \in Elements(f) : Moves(Append(s, v))
  BY DEF CallCached
<1>3. PICK f \in refs[target[2]] \cap Programs : \E v \in Elements(f) : Moves(Append(s, v)) BY <1>2
<1>4. PICK v \in Elements(f) : Moves(Append(s, v)) BY <1>3
<1>5. v \in Values BY <1>3, <1>4, ElementsTyped, Kinds
<1>6. /\ phase = "run" /\ base \in 1..Len(stack) /\ base \in (Current.base + 1)..MaxStack
      /\ (loose \/ \A t \in Slots : open[t] # Null => t <= base - 1)
  BY <1>1, CalleeSlot
<1>7. s \in Seq(Values) /\ Len(s) = base - 1
  <2>1. base - 1 \in 0..Len(stack) BY <1>6
  <2> QED BY <2>1, Parts, Prefix
<1> DEFINE t == Append(s, v)
<1> HIDE DEF s
<1>8. t \in Seq(Values) /\ Len(t) = (base - 1) + 1 BY <1>5, <1>7, Longer
<1>9. Moves(t) BY <1>4 DEF s
<1> HIDE DEF t
<1>10. Len(t) >= Current.base /\ (loose \/ \A x \in Slots : open[x] # Null => x <= Len(t))
  <2>1. base \in Nat /\ Len(t) = base /\ Current.base \in Nat BY <1>6, <1>8, RunningFrame
  <2>2. \A x \in Slots : x \in Nat BY DEF Slots
  <2> QED BY <1>6, <2>1, <2>2
<1> QED BY <1>6, <1>8, <1>9, <1>10, MovesShape

(* OP_RETURN drops the frame's slots once their upvalues are closed. *)
LEMMA ReturnShape == ASSUME Shaped, LeftKept, Return PROVE Shaped'
<1> DEFINE first == Current.base
           n == Len(frames)
           s == SubSeq(stack, 1, first - 1)
<1>1. phase = "run" BY DEF Return
<1>2. PICK v \in {Top, Null}, f \in refs[Current.closure] \cap Programs :
        /\ stack' = Append(s, v)
        /\ refs' = [ClosedUpValues(first) EXCEPT ![f] = IF FunctionCache THEN @ \cup ({v} \ {Null}) ELSE @]
  BY DEF Return
<1>3. /\ open' = OpenBelow(first) /\ frames' = SubSeq(frames, 1, n - 1)
      /\ phase' = (IF n = 1 THEN "ended" ELSE "run")
      /\ UNCHANGED <<heap, global, loose, marked, gray, pending>>
  BY DEF Return, colours
<1>4. first \in 1..Len(stack) /\ Len(stack) \in 1..MaxStack /\ first \in Nat /\ n \in 1..MaxFrames /\ n \in Nat
  BY <1>1, RunningFrame, Kinds
<1>5. v \in Values /\ f \in Objects BY <1>1, RunningFrame, TopTyped, Kinds DEF Values
<1>6. /\ ClosedUpValues(first) \in [Objects -> SUBSET Objects] /\ open' \in [Slots -> UpValues \cup {Null}]
      /\ \A t \in Slots : open'[t] # Null => t < first
  BY <1>3, <1>4, ClosingShape
<1>7. refs' \in [Objects -> SUBSET Objects] BY <1>2, <1>5, <1>6 DEF Values
<1>8. s \in Seq(Values) /\ Len(s) = first - 1
  <2>1. first - 1 \in 0..Len(stack) BY <1>4
  <2> QED BY <2>1, Parts, Prefix
<1> HIDE DEF s
<1>9. stack' \in Seq(Values) /\ Len(stack') = (first - 1) + 1 BY <1>2, <1>5, <1>8, Longer
<1>10. Len(stack') = first /\ Len(stack') \in 1..MaxStack BY <1>4, <1>9, Kinds
<1>11. /\ frames' \in Seq(Frame) /\ Len(frames') = n - 1
       /\ \A i \in 1..(n - 1) : frames'[i] = frames[i]
  <2>1. n - 1 \in 0..n BY <1>4
  <2> QED BY <1>3, <2>1, Parts, Prefix
<1>12. \A i \in 1..(n - 1) : i \in 1..n BY <1>4
<1>13. (loose \/ \A t \in Slots : open'[t] # Null => t <= Len(stack')) BY <1>4, <1>6, <1>10 DEF Slots
<1> HIDE DEF n, first
<1>14. \A i \in 1..Len(frames') : frames'[i].base <= Len(stack')
  BY <1>1, <1>10, <1>11, <1>12, RunningFrame DEF n, first
<1>15. \A i, j \in 1..Len(frames') : i < j => frames'[i].base < frames'[j].base
  <2> SUFFICES ASSUME NEW i \in 1..(n - 1), NEW j \in 1..(n - 1), i < j
               PROVE  frames'[i].base < frames'[j].base
    BY <1>11
  <2>1. frames'[i] = frames[i] /\ frames'[j] = frames[j] BY <1>11
  <2>2. i \in 1..n /\ j \in 1..n BY <1>12
  <2> QED BY <1>1, <2>1, <2>2, RunningFrame DEF n
<1>16. Len(frames') <= MaxFrames BY <1>4, <1>11, Kinds
<1>17. phase' # "ended" => frames' # <<>>
  <2>1. phase' # "ended" => n # 1 BY <1>3
  <2>2. n \in Nat /\ n >= 1 BY <1>4, Kinds
  <2>3. n # 1 => Len(frames') >= 1 BY <2>2, <1>11
  <2> QED BY <2>1, <2>3
<1>18. phase' \in {"run", "ended"} BY <1>3
<1> QED BY <1>1, <1>3, <1>6, <1>7, <1>9, <1>10, <1>11, <1>13, <1>14, <1>15, <1>16, <1>17, <1>18, Parts, SteppedShape

-----------------------------------------------------------------------------
(* The collector keeps the shape *)

(* A step of the collector before the object is linked. *)
LEMMA CollectingShape ==
  ASSUME Shaped, LeftKept, Making, Making', UNCHANGED <<stack, frames, open, global, loose, pending>>,
         heap' \in [Objects -> {"unused", "new", "chain", "off", "freed"}],
         refs' \in [Objects -> SUBSET Objects], marked' \subseteq Objects, gray' \subseteq Objects
  PROVE  Shaped'
<1>1. TypeOK' BY DEF Shaped, TypeOK, Making, LeftKept
<1>2. phase # "ended" /\ phase' # "ended" /\ phase' # "capture" BY DEF Making
<1>3. Framed' BY <1>2 DEF Shaped, Framed, Top
<1>4. OpenUnderOperands' BY DEF Shaped, OpenUnderOperands, OpenOnStack
<1> QED BY <1>1, <1>3, <1>4 DEF Shaped, LeftKept

(* The roots are objects. *)
LEMMA RootsTyped == ASSUME Shaped PROVE Roots \subseteq Objects
<1>1. {frames[i].closure : i \in DOMAIN frames} \subseteq Values BY Parts, Kinds DEF Values
<1>2. OpenUpValues \subseteq Values BY Parts, Kinds DEF OpenUpValues, Values
<1>3. Range(stack) \subseteq Values BY Parts DEF Range
<1> QED BY <1>1, <1>2, <1>3, Parts DEF Roots, Values

(* What an object refers to is objects. *)
LEMMA ChildrenTyped == ASSUME Shaped, NEW o \in Objects PROVE Children(o) \subseteq Objects
<1>1. \A p \in Programs : Constants[p] \subseteq Objects BY ConstantsAssumption DEF Objects
<1> QED BY <1>1, Parts DEF Children

(* The roots turn gray. *)
LEMMA MarkRootObjectsShape == ASSUME Shaped, LeftKept, MarkRootObjects PROVE Shaped'
<1>1. /\ phase = "create" /\ phase' = "trace" /\ UNCHANGED <<heap, refs, stack, frames, open, global, loose, pending>>
      /\ marked' = marked \cup Roots /\ gray' = Roots \ marked
  BY DEF MarkRootObjects, mutator
<1>2. marked' \subseteq Objects /\ gray' \subseteq Objects BY <1>1, Parts, RootsTyped
<1> QED BY <1>1, <1>2, Parts, CollectingShape DEF Making

(* The gray objects blacken. *)
LEMMA MarkGrayObjectsShape == ASSUME Shaped, LeftKept, MarkGrayObjects PROVE Shaped'
<1> DEFINE met == UNION {Blackened(o) : o \in gray}
<1>1. /\ phase = "trace" /\ phase' = "trace" /\ UNCHANGED <<heap, refs, stack, frames, open, global, loose, pending>>
      /\ marked' = marked \cup met /\ gray' = met \ marked
  BY DEF MarkGrayObjects, mutator
<1>2. met \subseteq Objects BY Parts, ChildrenTyped DEF Blackened
<1> HIDE DEF met
<1>3. marked' \subseteq Objects /\ gray' \subseteq Objects BY <1>1, <1>2, Parts
<1> QED BY <1>1, <1>3, Parts, CollectingShape DEF Making

(* The white objects are freed. *)
LEMMA SweepShape == ASSUME Shaped, LeftKept, Sweep PROVE Shaped'
<1>1. PICK unreached :
        /\ heap' = [o \in Objects |-> IF o \in unreached THEN "freed" ELSE heap[o]]
        /\ refs' = [o \in Objects |-> IF o \in unreached THEN {} ELSE refs[o]]
  BY DEF Sweep
<1>2. /\ phase = "trace" /\ phase' = "link" /\ marked' \subseteq marked /\ gray' = gray
      /\ UNCHANGED <<stack, frames, open, global, loose, pending>>
  BY DEF Sweep, mutator
<1>3. heap' \in [Objects -> {"unused", "new", "chain", "off", "freed"}] BY <1>1, Parts
<1>4. refs' \in [Objects -> SUBSET Objects] BY <1>1, Parts
<1>5. marked' \subseteq Objects /\ gray' \subseteq Objects BY <1>2, Parts
<1> QED BY <1>2, <1>3, <1>4, <1>5, CollectingShape DEF Making

(* An upvalue is linked, on a slot that is still there. *)
LEMMA LinkUpValueShape == ASSUME Shaped, LeftKept, NEW o \in Objects, LinkUpValue(o) PROVE Shaped'
<1>1. /\ phase \in {"create", "link"} /\ phase' = "capture" /\ o = pending.obj /\ o \in UpValues
      /\ heap' = [heap EXCEPT ![o] = "chain"] /\ marked' = marked \ {o} /\ pending' = NoPending
      /\ open' = [open EXCEPT ![pending.slot] = o] /\ refs' = [refs EXCEPT ![Top] = refs[Top] \cup {o}]
      /\ UNCHANGED <<stack, frames, global, loose, gray>>
  BY DEF LinkUpValue, Linked
<1>2. Making /\ ~Making' BY <1>1 DEF Making
<1>3. Top \in Closures /\ Top \in Objects /\ pending.slot \in Slots /\ (loose \/ pending.slot <= Len(stack))
  BY <1>1, <1>2, Kinds DEF Shaped, Framed, OpenUnderOperands
<1>4. frames # <<>> /\ stack # <<>> /\ phase # "ended" BY <1>1, <1>2, Kinds DEF Shaped, Framed
<1>5. TypeOK'
  <2>1. heap' \in [Objects -> {"unused", "new", "chain", "off", "freed"}] BY <1>1, Parts
  <2>2. refs' \in [Objects -> SUBSET Objects] BY <1>1, <1>3, Parts
  <2>3. open' \in [Slots -> UpValues \cup {Null}] BY <1>1, <1>3, Parts
  <2>4. pending' \in [obj : Values, pops : 0..MaxStack, slot : 0..MaxStack]
    BY <1>1, Kinds DEF NoPending, Values
  <2> QED BY <1>1, <2>1, <2>2, <2>3, <2>4 DEF Shaped, TypeOK, LeftKept
<1>6. Framed'
  <2>1. Top' \in Closures BY <1>1, <1>3 DEF Top
  <2>2. \A i \in DOMAIN frames : frames[i].base <= Len(stack) BY <1>4 DEF Shaped, Framed
  <2>3. \A i, j \in DOMAIN frames : i < j => frames[i].base < frames[j].base BY DEF Shaped, Framed
  <2> QED BY <1>1, <1>2, <1>4, <2>1, <2>2, <2>3 DEF Framed
<1>7. OpenUnderOperands'
  <2>1. \A s \in Slots : open'[s] = IF s = pending.slot THEN o ELSE open[s] BY <1>1, Parts
  <2> QED BY <1>1, <1>2, <1>3, <2>1, Parts DEF OpenUnderOperands, OpenOnStack
<1> QED BY <1>5, <1>6, <1>7 DEF Shaped, LeftKept

(* Any other object is linked and pushed in the place of its operands. *)
LEMMA LinkShape == ASSUME Shaped, LeftKept, NEW o \in Objects, Link(o) PROVE Shaped'
<1> DEFINE n == Len(stack) - pending.pops
           s == Below(pending.pops)
<1>1. /\ phase \in {"create", "link"} /\ o = pending.obj /\ o \notin UpValues
      /\ heap' = [heap EXCEPT ![o] = "chain"] /\ marked' = marked \ {o} /\ pending' = NoPending
      /\ stack' = Append(s, o)
      /\ frames' = (IF frames = <<>> THEN <<[closure |-> o, base |-> Len(stack')]>> ELSE frames)
      /\ phase' = (IF o \in Closures /\ frames # <<>> THEN "capture" ELSE "run")
      /\ UNCHANGED <<refs, open, global, loose, gray>>
  BY DEF Link, Linked
<1>2. Making /\ ~Making' /\ phase' # "ended" BY <1>1 DEF Making
<1>3. /\ pending.pops <= Len(stack) /\ n < MaxStack /\ pending.pops \in Nat /\ Len(stack) \in Nat
      /\ \A i \in DOMAIN frames : frames[i].base <= n
      /\ (loose \/ \A t \in Slots : open[t] # Null => t <= n)
  <2>1. pending.pops \in 0..MaxStack /\ Len(stack) \in Nat BY Parts DEF Shaped, TypeOK
  <2>2. pending.pops \in Nat BY <2>1, Kinds
  <2> QED BY <1>1, <1>2, <2>1, <2>2 DEF Shaped, Framed, OpenUnderOperands
<1>4. n \in 0..Len(stack) /\ n \in Nat /\ n + 1 \in Slots BY <1>3, Kinds DEF Slots
<1>5. s \in Seq(Values) /\ Len(s) = n BY <1>4, Parts, Prefix DEF Below
<1> HIDE DEF n, s
<1>6. stack' \in Seq(Values) /\ Len(stack') = n + 1 /\ stack'[n + 1] = o
  <2>1. o \in Values BY DEF Values
  <2>2. Append(s, o)[Len(s) + 1] = o BY <1>5, <2>1, Longer
  <2> QED BY <1>1, <1>5, <2>1, <2>2, Longer
<1>7. Len(stack') \in Slots /\ Len(stack') <= MaxStack /\ stack' # <<>> BY <1>4, <1>6, Kinds DEF Slots
<1>8. frames = <<>> => o \in Closures BY <1>1, <1>2 DEF Shaped, Framed, Making
<1>9. /\ frames' \in Seq(Frame) /\ Len(frames') <= MaxFrames /\ frames' # <<>>
      /\ \A i \in 1..Len(frames') : frames'[i].base <= Len(stack')
      /\ \A i, j \in 1..Len(frames') : i < j => frames'[i].base < frames'[j].base
  <2>1. CASE frames = <<>>
    <3> DEFINE f == [closure |-> o, base |-> Len(stack')]
    <3>1. frames' = <<f>> BY <1>1, <2>1
    <3>2. f \in Frame /\ f.base = Len(stack') BY <1>7, <1>8, <2>1 DEF Frame
    <3> HIDE DEF f
    <3>3. frames' \in Seq(Frame) /\ Len(frames') = 1 /\ frames'[1] = f BY <3>1, <3>2
    <3>4. \A i \in 1..Len(frames') : i = 1 BY <3>3
    <3>5. Len(stack') <= Len(stack') /\ 1 <= MaxFrames BY <1>7, Kinds DEF Slots
    <3>6. \A i \in 1..Len(frames') : frames'[i].base <= Len(stack') BY <3>2, <3>3, <3>4, <3>5
    <3>7. \A i, j \in 1..Len(frames') : ~(i < j) BY <3>3
    <3>8. Len(frames') <= MaxFrames BY <3>3, <3>5
    <3>9. \A i, j \in 1..Len(frames') : i < j => frames'[i].base < frames'[j].base BY <3>7
    <3>10. frames' # <<>> BY <3>3
    <3> QED BY <3>3, <3>6, <3>8, <3>9, <3>10
  <2>2. CASE frames # <<>>
    <3>1. frames' = frames /\ frames \in Seq(Frame) /\ Len(frames) <= MaxFrames BY <1>1, <2>2, Parts
    <3>2. \A i, j \in 1..Len(frames) : i < j => frames[i].base < frames[j].base BY Parts DEF Shaped, Framed
    <3>3. \A i \in 1..Len(frames) : frames[i].base <= Len(stack')
      <4> TAKE i \in 1..Len(frames)
      <4>1. frames[i].base <= n BY <1>3, Parts
      <4>2. frames[i].base \in Nat BY Parts DEF Slots
      <4> QED BY <1>4, <1>6, <4>1, <4>2
    <3> QED BY <2>2, <3>1, <3>2, <3>3
  <2> QED BY <2>1, <2>2
<1>10. TypeOK'
  <2>1. heap' \in [Objects -> {"unused", "new", "chain", "off", "freed"}] BY <1>1, Parts
  <2>2. pending' \in [obj : Values, pops : 0..MaxStack, slot : 0..MaxStack]
    BY <1>1, Kinds DEF NoPending, Values
  <2> QED BY <1>1, <1>6, <1>7, <1>9, <2>1, <2>2 DEF Shaped, TypeOK, LeftKept
<1>11. Framed'
  <2>1. Top' = o BY <1>6 DEF Top
  <2>2. DOMAIN frames' = 1..Len(frames') BY <1>9
  <2> QED BY <1>1, <1>2, <1>7, <1>9, <2>1, <2>2 DEF Framed
<1>12. OpenUnderOperands'
  <2>1. (loose \/ \A t \in Slots : open[t] # Null => t <= Len(stack')) BY <1>3, <1>4, <1>6 DEF Slots
  <2> QED BY <1>1, <1>2, <2>1 DEF OpenUnderOperands, OpenOnStack
<1> QED BY <1>10, <1>11, <1>12 DEF Shaped, LeftKept

-----------------------------------------------------------------------------
(* The specification *)

(* The script's function and the closure VM::Run is making. *)
LEMMA InitShape == ASSUME Init PROVE Shaped
<1>1. PICK m \in Closures :
        /\ heap = [o \in Objects |-> IF o \in Compiled THEN "off" ELSE IF o = m THEN "new" ELSE "unused"]
        /\ refs = [o \in Objects |-> IF o = m THEN {Main} ELSE {}]
        /\ pending = [obj |-> m, pops |-> 1, slot |-> 0]
  BY DEF Init
<1>2. /\ stack = <<Main>> /\ frames = <<>> /\ open = [s \in Slots |-> Null] /\ global = Null
      /\ left = [s \in Slots |-> Null] /\ marked = {} /\ gray = {} /\ phase = "create"
  BY DEF Init
<1>3. m \in Objects /\ Main \in Objects /\ m \notin UpValues BY Kinds, ConstantsAssumption
<1>4. Len(stack) = 1 /\ stack # <<>> /\ DOMAIN frames = {} BY <1>2
<1>5. TypeOK
  <2>1. heap \in [Objects -> {"unused", "new", "chain", "off", "freed"}] BY <1>1
  <2>2. refs \in [Objects -> SUBSET Objects] BY <1>1, <1>3
  <2>3. stack \in Seq(Values) /\ Len(stack) <= MaxStack BY <1>2, <1>3, <1>4, Kinds DEF Values
  <2>4. frames \in Seq(Frame) /\ Len(frames) <= MaxFrames BY <1>2, Kinds
  <2>5. open \in [Slots -> UpValues \cup {Null}] /\ left \in [Slots -> Values] /\ global \in Values BY <1>2 DEF Values
  <2>6. pending \in [obj : Values, pops : 0..MaxStack, slot : 0..MaxStack] BY <1>1, <1>3, Kinds DEF Values
  <2>7. loose \in BOOLEAN BY DEF Init
  <2> QED BY <1>2, <2>1, <2>2, <2>3, <2>4, <2>5, <2>6, <2>7 DEF TypeOK
<1>6. Making /\ pending.obj = m /\ pending.pops = 1 BY <1>1, <1>2 DEF Making
<1>7. Framed
  <2>1. 1 <= Len(stack) /\ Len(stack) - 1 < MaxStack BY <1>4, Kinds
  <2> QED BY <1>2, <1>3, <1>4, <1>6, <2>1 DEF Framed
<1>8. OpenUnderOperands BY <1>2, <1>3, <1>6 DEF OpenUnderOperands, OpenOnStack
<1>9. LeftOpen BY <1>2 DEF LeftOpen
<1> QED BY <1>5, <1>7, <1>8, <1>9 DEF Shaped

(* Every step keeps above the top of the stack what upvalues point to there. *)
LEMMA NextLeaves == ASSUME Shaped, [Next]_vars PROVE LeftKept
<1>1. Leaves => LeftKept BY LeavesTyped
<1>2. UNCHANGED <<left, open, stack>> => LeftKept BY Parts DEF LeftKept, LeftOpen, Shaped
<1>3. CASE Collector
  <2>1. CASE MarkRootObjects \/ MarkGrayObjects \/ Sweep
    BY <1>2, <2>1 DEF MarkRootObjects, MarkGrayObjects, Sweep, mutator
  <2>2. CASE \E o \in Objects : Link(o) BY <1>1, <2>2 DEF Link
  <2>3. CASE \E o \in Objects : LinkUpValue(o)
    <3>1. PICK o \in UpValues : open' = [open EXCEPT ![pending.slot] = o] /\ UNCHANGED <<stack, left>>
      BY <2>3 DEF LinkUpValue
    <3>2. \A s \in Slots : open[s] # Null => open'[s] # Null BY <3>1, Parts, Kinds
    <3> QED BY <3>1, <3>2, Parts DEF LeftKept, LeftOpen, Shaped
  <2> QED BY <1>3, <2>1, <2>2, <2>3 DEF Collector
<1>4. CASE Load \/ Pop \/ GetElement \/ SetLocal \/ SetElement
  BY <1>1, <1>4 DEF Load, Pop, GetElement, SetLocal, SetElement, Moves
<1>5. CASE SetGlobal \/ Capture \/ Inherit \/ Ready
  BY <1>2, <1>5 DEF SetGlobal, Capture, Inherit, Gives, Ready, mutator
<1>6. CASE SetUpValue
  <2>1. phase = "run" /\ Top \in Values BY <1>6, RunningFrame, TopTyped DEF SetUpValue, HasOperands
  <2>2. CASE \E u \in Captured : \E s \in Slots \ DOMAIN stack :
          open[s] = u /\ left' = [left EXCEPT ![s] = Top] /\ UNCHANGED <<stack, open>>
    <3>1. PICK s \in Slots \ DOMAIN stack :
            open[s] \in UpValues /\ left' = [left EXCEPT ![s] = Top] /\ UNCHANGED <<stack, open>>
      BY <2>2 DEF Captured
    <3>2. open[s] # Null /\ s > Len(stack) BY <3>1, Parts, Kinds DEF Slots
    <3> QED BY <2>1, <3>1, <3>2, Parts DEF LeftKept, LeftOpen, Shaped
  <2>3. CASE Leaves \/ UNCHANGED <<left, open, stack>> BY <1>1, <1>2, <2>3
  <2> QED BY <1>6, <2>2, <2>3 DEF SetUpValue, Moves, mutator
<1>7. CASE \E n \in 1..MaxStack : \E last \in 0..n : ExitScope(n, last) BY <1>1, <1>7 DEF ExitScope
<1>8. CASE MakeClosure \/ Bind \/ Return BY <1>1, <1>8 DEF MakeClosure, Bind, Return
<1>9. CASE \E n \in 0..2 : MakeContainer(n) BY <1>2, <1>9 DEF MakeContainer, mutator
<1>10. CASE \E argCount \in 0..MaxStack : Call(argCount) \/ CallPacked(argCount) \/ CallCached(argCount)
  BY <1>1, <1>10 DEF Call, CallPacked, CallCached, PushFrame, Moves
<1>11. CASE UNCHANGED vars BY <1>2, <1>11 DEF vars
<1> QED BY <1>3, <1>4, <1>5, <1>6, <1>7, <1>8, <1>9, <1>10, <1>11 DEF Next, Instruction

(* Every step keeps the shape. *)
LEMMA NextShape == ASSUME Shaped, [Next]_vars PROVE Shaped'
<1>0. LeftKept BY NextLeaves
<1>1. CASE MarkRootObjects BY <1>0, <1>1, MarkRootObjectsShape
<1>2. CASE MarkGrayObjects BY <1>0, <1>2, MarkGrayObjectsShape
<1>3. CASE Sweep BY <1>0, <1>3, SweepShape
<1>4. CASE \E o \in Objects : Link(o) \/ LinkUpValue(o) BY <1>0, <1>4, LinkShape, LinkUpValueShape
<1>5. CASE Load BY <1>0, <1>5, LoadShape
<1>6. CASE Pop BY <1>0, <1>6, PopShape
<1>7. CASE GetElement BY <1>0, <1>7, GetElementShape
<1>8. CASE SetGlobal BY <1>0, <1>8, SetGlobalShape
<1>9. CASE SetLocal BY <1>0, <1>9, SetLocalShape
<1>10. CASE SetUpValue BY <1>0, <1>10, SetUpValueShape
<1>11. CASE SetElement BY <1>0, <1>11, SetElementShape
<1>12. CASE \E n \in 1..MaxStack : \E last \in 0..n : ExitScope(n, last) BY <1>0, <1>12, ExitScopeShape
<1>13. CASE Capture BY <1>0, <1>13, CaptureShape
<1>14. CASE Inherit BY <1>0, <1>14, InheritShape
<1>15. CASE Ready BY <1>0, <1>15, ReadyShape
<1>16. CASE \E n \in 0..2 : MakeContainer(n)
  <2>1. PICK n \in 0..2 : MakeContainer(n) BY <1>16
  <2>2. n \in Nat OBVIOUS
  <2> QED BY <1>0, <2>1, <2>2, MakeContainerShape
<1>17. CASE MakeClosure BY <1>0, <1>17, MakeClosureShape
<1>18. CASE Bind BY <1>0, <1>18, BindShape
<1>19. CASE Return BY <1>0, <1>19, ReturnShape
<1>20. CASE \E argCount \in 0..MaxStack : Call(argCount) \/ CallPacked(argCount) \/ CallCached(argCount)
  <2>1. PICK argCount \in 0..MaxStack : Call(argCount) \/ CallPacked(argCount) \/ CallCached(argCount) BY <1>20
  <2>2. argCount \in Nat OBVIOUS
  <2> QED BY <1>0, <2>1, <2>2, CallShape, CallPackedShape, CallCachedShape
<1>21. CASE UNCHANGED vars
  <2>1. UNCHANGED <<heap, refs, stack, left, frames, open, global, loose, marked, gray, phase, pending>> BY <1>21 DEF vars
  <2> QED BY <2>1 DEF Shaped, TypeOK, Framed, LeftOpen, OpenUnderOperands, OpenOnStack, Making, Top
<1> QED BY <1>1, <1>2, <1>3, <1>4, <1>5, <1>6, <1>7, <1>8, <1>9, <1>10, <1>11, <1>12, <1>13, <1>14, <1>15,
           <1>16, <1>17, <1>18, <1>19, <1>20, <1>21 DEF Next, Collector, Instruction

(* The shape is inductive by itself. *)
THEOREM AlwaysShaped == Spec => []Shaped
<1>1. Shaped /\ [Next]_vars => Shaped' BY NextShape
<1> QED BY InitShape, <1>1, PTL DEF Spec

(* In every program the heap, the references, the stack and the frames are   *)
(* what they are declared to be, within the bounds of the stack.             *)
THEOREM TypeCorrect == Spec => []TypeOK
<1>1. Shaped => TypeOK BY DEF Shaped
<1> QED BY <1>1, AlwaysShaped, PTL

(* In every program, until one of its blocks leaves an upvalue open on what  *)
(* it pops, the slot of an open upvalue is on the stack: OP_CLOSE_UPVALUE    *)
(* and OP_RETURN close what they take, no instruction and no collection      *)
(* loses a captured variable in between (VM.cpp:245, VM.cpp:139).            *)
THEOREM AlwaysOpenOnStack == Spec => []OpenOnStack
<1>1. Shaped => OpenOnStack BY DEF Shaped, OpenUnderOperands
<1> QED BY <1>1, AlwaysShaped, PTL

(* A block that has left an upvalue open has done so for good. *)
LEMMA LooseStays == ASSUME [Next]_vars, loose PROVE loose'
<1>1. UNCHANGED loose => loose' OBVIOUS
<1>2. CASE Collector
  BY <1>1, <1>2 DEF Collector, MarkRootObjects, MarkGrayObjects, Sweep, Link, LinkUpValue, Linked, mutator
<1>3. CASE Load \/ Pop \/ GetElement \/ SetGlobal \/ SetLocal \/ SetUpValue \/ SetElement
  BY <1>1, <1>3 DEF Load, Pop, GetElement, SetGlobal, SetLocal, SetUpValue, SetElement, Moves, mutator
<1>4. CASE \E n \in 1..MaxStack : \E last \in 0..n : ExitScope(n, last) BY <1>4 DEF ExitScope
<1>5. CASE Capture \/ Inherit \/ Ready BY <1>1, <1>5 DEF Capture, Inherit, Gives, Ready, mutator
<1>6. CASE (\E n \in 0..2 : MakeContainer(n)) \/ MakeClosure \/ Bind \/ Return
  BY <1>1, <1>6 DEF MakeContainer, MakeClosure, Bind, Return, mutator
<1>7. CASE \E argCount \in 0..MaxStack : Call(argCount) \/ CallPacked(argCount) \/ CallCached(argCount)
  BY <1>1, <1>7 DEF Call, CallPacked, CallCached, PushFrame, Moves
<1>8. CASE UNCHANGED vars BY <1>1, <1>8 DEF vars
<1> QED BY <1>2, <1>3, <1>4, <1>5, <1>6, <1>7, <1>8 DEF Next, Instruction

-----------------------------------------------------------------------------
(* Marks and garbage *)

(* No instruction marks an object, nor puts one in the chain. *)
LEMMA InstructionSpares ==
  ASSUME Shaped, Instruction
  PROVE  /\ phase \in {"run", "capture"} /\ phase' \in {"run", "capture", "create", "ended"}
         /\ UNCHANGED <<marked, gray>> /\ In("chain")' = In("chain")
<1>1. ASSUME phase \in {"run", "capture"}, phase' \in {"run", "capture", "ended"}, UNCHANGED <<heap, marked, gray>>
      PROVE  /\ phase \in {"run", "capture"} /\ phase' \in {"run", "capture", "create", "ended"}
             /\ UNCHANGED <<marked, gray>> /\ In("chain")' = In("chain")
  BY <1>1 DEF In
<1>2. ASSUME phase \in {"run", "capture"}, NEW o, NEW held, NEW pops, NEW slot, Create(o, held, pops, slot)
      PROVE  /\ phase \in {"run", "capture"} /\ phase' \in {"run", "capture", "create", "ended"}
             /\ UNCHANGED <<marked, gray>> /\ In("chain")' = In("chain")
  <2>1. heap[o] = "unused" /\ heap' = [heap EXCEPT ![o] = "new"] /\ phase' = "create" /\ UNCHANGED <<marked, gray>>
    BY <1>2 DEF Create, colours
  <2>2. \A x \in Objects : heap'[x] = IF x = o THEN "new" ELSE heap[x] BY <2>1, Parts
  <2>3. In("chain")' = In("chain") BY <2>1, <2>2 DEF In
  <2> QED BY <1>2, <2>1, <2>3
<1>3. CASE Load \/ Pop \/ GetElement \/ SetGlobal \/ SetLocal \/ SetElement \/ Ready
  BY <1>1, <1>3 DEF Load, Pop, GetElement, SetGlobal, SetLocal, SetElement, Ready, HasOperands, Moves, colours
<1>4. CASE SetUpValue BY <1>1, <1>4 DEF SetUpValue, HasOperands, Moves, colours
<1>5. CASE Inherit BY <1>1, <1>5 DEF Inherit, Gives, colours
<1>6. CASE Capture
  <2>1. phase = "capture" /\ ((\E u : Gives(u)) \/ (\E u, s : Create(u, {}, 0, s))) BY <1>6 DEF Capture
  <2>2. CASE \E u : Gives(u) BY <1>1, <2>1, <2>2 DEF Gives, colours
  <2>3. CASE \E u, s : Create(u, {}, 0, s) BY <1>2, <2>1, <2>3
  <2> QED BY <2>1, <2>2, <2>3
<1>7. CASE \E n \in 0..2 : MakeContainer(n) BY <1>2, <1>7 DEF MakeContainer, HasOperands
<1>8. CASE MakeClosure BY <1>2, <1>8 DEF MakeClosure
<1>9. CASE Bind BY <1>2, <1>9 DEF Bind, HasOperands
<1>10. CASE Return
  <2>1. phase = "run" /\ phase' \in {"run", "ended"} /\ UNCHANGED <<heap, marked, gray>> BY <1>10 DEF Return, colours
  <2> QED BY <1>1, <2>1
<1>11. CASE \E argCount \in 0..MaxStack : Call(argCount) \/ CallCached(argCount)
  BY <1>1, <1>11 DEF Call, CallCached, PushFrame, Moves, HasOperands, colours
<1>12. CASE \E argCount \in 0..MaxStack : CallPacked(argCount)
  <2>1. PICK a \in VarArgs : heap[a] = "unused" /\ heap' = [heap EXCEPT ![a] = "off"] BY <1>12 DEF CallPacked
  <2>2. phase = "run" /\ phase' = "run" /\ UNCHANGED <<marked, gray>>
    BY <1>12 DEF CallPacked, PushFrame, HasOperands, colours
  <2>3. \A x \in Objects : heap'[x] = IF x = a THEN "off" ELSE heap[x] BY <2>1, Parts
  <2>4. In("chain")' = In("chain") BY <2>1, <2>3 DEF In
  <2> QED BY <2>2, <2>4
<1>13. CASE \E n \in 1..MaxStack : \E last \in 0..n : ExitScope(n, last) BY <1>1, <1>13 DEF ExitScope, colours
<1> QED BY <1>3, <1>4, <1>5, <1>6, <1>7, <1>8, <1>9, <1>10, <1>11, <1>12, <1>13 DEF Instruction

(* The invariant of a collection. *)
Accounted == Tidy /\ Traced /\ GarbageCollected

(* The roots are met first. *)
LEMMA MarkRootObjectsAccounted == ASSUME Shaped, Accounted, MarkRootObjects PROVE Accounted'
<1>1. /\ phase = "create" /\ phase' = "trace" /\ UNCHANGED <<heap, refs, stack, left, frames, open, global, loose, pending>>
      /\ marked' = marked \cup Roots /\ gray' = Roots \ marked
  BY DEF MarkRootObjects, mutator
<1>2. marked \cap In("chain") = {} BY <1>1 DEF Accounted, Tidy
<1>3. Roots' = Roots /\ In("chain")' = In("chain") /\ Held' = Held
  BY <1>1 DEF Roots, OpenUpValues, In, Held
<1>4. Roots \subseteq Held /\ Roots \subseteq Objects BY RootsTyped DEF Held
<1>5. gray' \cup (marked' \cap In("chain")') \subseteq Roots BY <1>1, <1>2, <1>3
<1>6. Roots \subseteq Met' BY <1>3, <1>4 DEF Met
<1>7. Traced' BY <1>5, <1>6 DEF Traced
<1>8. Tidy' BY <1>1 DEF Tidy
<1>9. GarbageCollected' BY <1>1 DEF GarbageCollected
<1> QED BY <1>7, <1>8, <1>9 DEF Accounted

(* What a gray object refers to is met next, over an object that is marked. *)
LEMMA MarkGrayObjectsAccounted == ASSUME Shaped, Accounted, MarkGrayObjects PROVE Accounted'
<1> DEFINE met == UNION {Blackened(o) : o \in gray}
<1>1. /\ phase = "trace" /\ phase' = "trace" /\ UNCHANGED <<heap, refs, stack, left, frames, open, global, loose, pending>>
      /\ marked' = marked \cup met /\ gray' = met \ marked
  BY DEF MarkGrayObjects, mutator
<1>2. gray \subseteq marked /\ gray \cup (marked \cap In("chain")) \subseteq Met
  BY <1>1 DEF Accounted, Tidy, Traced
<1>3. Held' = Held /\ In("chain")' = In("chain") BY <1>1 DEF Roots, OpenUpValues, In, Held
<1>4. \A o : Children(o)' = Children(o) BY <1>1 DEF Children
<1>5. met \subseteq Objects BY Parts, ChildrenTyped DEF Blackened
<1>6. \A o \in gray : Children(o) \subseteq met BY DEF Blackened
<1>7. \A S : (\A o \in gray : Children(o) \subseteq S) => met \subseteq S BY DEF Blackened
<1> HIDE DEF met
<1>8. ASSUME NEW S \in SUBSET Objects, Held' \subseteq S, \A p \in S \cap marked' : Children(p)' \subseteq S
      PROVE  gray' \cup (marked' \cap In("chain")') \subseteq S
  <2>1. \A p \in S \cap marked : Children(p) \subseteq S BY <1>1, <1>4, <1>8
  <2>2. Met \subseteq S BY <1>3, <1>8, <2>1 DEF Met
  <2>3. \A o \in gray : Children(o) \subseteq S BY <1>2, <2>1, <2>2
  <2>4. met \subseteq S BY <1>7, <2>3
  <2> QED BY <1>1, <1>2, <1>3, <2>2, <2>4
<1>9. gray' \cup (marked' \cap In("chain")') \subseteq Objects BY <1>1, <1>3, <1>5 DEF In
<1>10. gray' \cup (marked' \cap In("chain")') \subseteq Met' BY <1>8, <1>9 DEF Met
<1>11. Traced' BY <1>10 DEF Traced
<1>12. Tidy' BY <1>1 DEF Tidy
<1>13. GarbageCollected' BY <1>1 DEF GarbageCollected
<1> QED BY <1>11, <1>12, <1>13 DEF Accounted

(* What is left in the chain is still reachable: the objects on the way to it *)
(* are marked, and keep their references.                                     *)
LEMMA SweepAccounted == ASSUME Shaped, Accounted, Sweep PROVE Accounted'
<1> DEFINE unreached == In("chain") \ marked
<1>1. /\ phase = "trace" /\ gray = {} /\ phase' = "link"
      /\ heap' = [o \in Objects |-> IF o \in unreached THEN "freed" ELSE heap[o]]
      /\ refs' = [o \in Objects |-> IF o \in unreached THEN {} ELSE refs[o]]
      /\ marked' = marked \ In("chain") /\ gray' = {}
      /\ UNCHANGED <<stack, left, frames, open, global, loose, pending>>
  BY DEF Sweep, mutator
<1>2. marked \cap In("chain") \subseteq Met BY <1>1 DEF Accounted, Traced
<1>3. In("chain")' = In("chain") \cap marked BY <1>1, Parts DEF In
<1>4. Held' = Held BY <1>1 DEF Roots, OpenUpValues, Held
<1>5. \A p \in Objects \cap marked : refs'[p] = refs[p] BY <1>1
<1>6. \A p \in Objects \cap marked : Children(p)' = Children(p) BY <1>5 DEF Children
<1> HIDE DEF unreached
<1>7. ASSUME NEW S \in SUBSET Objects, Held' \subseteq S, \A p \in S : Children(p)' \subseteq S
      PROVE  In("chain")' \subseteq S
  <2>1. \A p \in S \cap marked : Children(p) \subseteq S BY <1>6, <1>7
  <2>2. Met \subseteq S BY <1>4, <1>7, <2>1 DEF Met
  <2> QED BY <1>2, <1>3, <2>2
<1>8. In("chain")' \subseteq Objects BY DEF In
<1>9. GarbageCollected' BY <1>7, <1>8 DEF GarbageCollected, Reachable
<1>10. Tidy' BY <1>1, <1>3 DEF Tidy
<1>11. Traced' BY <1>1 DEF Traced
<1> QED BY <1>9, <1>10, <1>11 DEF Accounted

(* The object enters the chain unmarked. *)
LEMMA LinkedAccounted == ASSUME Shaped, Accounted, NEW o \in Objects, Link(o) \/ LinkUpValue(o) PROVE Accounted'
<1>1. /\ phase \in {"create", "link"} /\ phase' \in {"run", "capture"}
      /\ heap' = [heap EXCEPT ![o] = "chain"] /\ marked' = marked \ {o} /\ gray' = gray
  BY DEF Link, LinkUpValue, Linked
<1>2. gray = {} /\ marked \cap In("chain") = {} BY <1>1 DEF Accounted, Tidy
<1>3. \A x \in Objects : heap'[x] = IF x = o THEN "chain" ELSE heap[x] BY <1>1, Parts
<1>4. In("chain")' = In("chain") \cup {o} BY <1>3 DEF In
<1>5. Tidy' BY <1>1, <1>2, <1>4 DEF Tidy
<1> QED BY <1>1, <1>5 DEF Accounted, Traced, GarbageCollected

(* Every step keeps the account. *)
LEMMA NextAccounted == ASSUME Shaped, Accounted, [Next]_vars PROVE Accounted'
<1>1. CASE MarkRootObjects BY <1>1, MarkRootObjectsAccounted
<1>2. CASE MarkGrayObjects BY <1>2, MarkGrayObjectsAccounted
<1>3. CASE Sweep BY <1>3, SweepAccounted
<1>4. CASE \E o \in Objects : Link(o) \/ LinkUpValue(o) BY <1>4, LinkedAccounted
<1>5. CASE Instruction
  <2>1. /\ phase \in {"run", "capture"} /\ phase' \in {"run", "capture", "create", "ended"}
        /\ UNCHANGED <<marked, gray>> /\ In("chain")' = In("chain")
    BY <1>5, InstructionSpares
  <2> QED BY <2>1 DEF Accounted, Tidy, Traced, GarbageCollected
<1>6. CASE UNCHANGED vars
  <2>1. UNCHANGED <<heap, refs, stack, left, frames, open, global, loose, marked, gray, phase, pending>> BY <1>6 DEF vars
  <2> QED BY <2>1 DEF Accounted, Tidy, Traced, GarbageCollected, Met, Reachable, Held, Roots, OpenUpValues, Children, In
<1> QED BY <1>1, <1>2, <1>3, <1>4, <1>5, <1>6 DEF Next, Collector

(* The account holds throughout, in every program. *)
LEMMA AlwaysAccounted == Spec => [](Shaped /\ Accounted)
<1>1. Init => Shaped /\ Accounted
  <2>1. Init => Accounted BY DEF Init, Accounted, Tidy, Traced, GarbageCollected
  <2> QED BY <2>1, InitShape
<1>2. (Shaped /\ Accounted) /\ [Next]_vars => (Shaped /\ Accounted)' BY NextShape, NextAccounted
<1> QED BY <1>1, <1>2, PTL DEF Spec

(* Between two collections Object::marked is clear in the whole chain, in    *)
(* every program: Object::Mark never takes an object of the chain for one it *)
(* has traced when a collection begins.                                      *)
THEOREM MarksStayClean == Spec => []CleanMarks
<1>1. Tidy => CleanMarks BY DEF Tidy, CleanMarks
<1> QED BY <1>1, AlwaysAccounted, PTL DEF Accounted

(* Allocator::GC leaves no garbage, in every program and at any sizes: what   *)
(* Sweep keeps in the chain the program, or CreateObject, can still get to.   *)
THEOREM AlwaysCollected == Spec => []GarbageCollected
<1> QED BY AlwaysAccounted, PTL DEF Accounted

-----------------------------------------------------------------------------
(* Lemmas about the sound states *)

(* A sound state, as long as no block has left an upvalue open. *)
Firm == ~loose /\ Shaped /\ Closed /\ OffChain /\ Anchored /\ Marking


(* In a sound state the stack, the frames and the open upvalues hold Kept objects. *)
LEMMA Places ==
  ASSUME Firm
  PROVE  /\ stack \in Seq(Kept \cup {Null})
         /\ \A i \in 1..Len(stack) : stack[i] \in Kept \cup {Null}
         /\ frames \in Seq(Frame)
         /\ \A i \in 1..Len(frames) : frames[i].closure \in Kept
         /\ \A s \in Slots : open[s] \in Kept \cup {Null}
         /\ global \in Kept \cup {Null}
         /\ Kept \subseteq Objects
<1>1. Roots \subseteq Kept BY DEF Firm, Closed
<1>2. stack \in Seq(Values) /\ DOMAIN stack = 1..Len(stack) BY Parts DEF Firm
<1>3. frames \in Seq(Frame) /\ DOMAIN frames = 1..Len(frames) BY Parts DEF Firm
<1>4. \A i \in 1..Len(stack) : stack[i] \in Kept \cup {Null} BY <1>1, <1>2 DEF Roots, Range
<1>5. \A i \in 1..Len(frames) : frames[i].closure \in Kept
  <2> TAKE i \in 1..Len(frames)
  <2>1. frames[i] \in Frame BY <1>3
  <2>2. frames[i].closure \in Closures BY <2>1 DEF Frame
  <2>3. frames[i].closure # Null BY <2>2, Kinds
  <2> QED BY <2>3, <1>1, <1>3 DEF Roots
<1>6. \A s \in Slots : open[s] \in Kept \cup {Null} BY <1>1 DEF Roots, OpenUpValues
<1>7. global \in Kept \cup {Null} BY <1>1 DEF Roots
<1>8. stack \in Seq(Kept \cup {Null}) BY <1>2, <1>4, Narrowed
<1>9. Kept \subseteq Objects BY DEF Kept, In
<1> QED BY <1>3, <1>4, <1>5, <1>6, <1>7, <1>8, <1>9

(* What is placed in Kept makes roots of Kept. *)
LEMMA RootsKept ==
  ASSUME stack' \in Seq(Kept' \cup {Null}),
         frames' \in Seq(Frame), \A i \in 1..Len(frames') : frames'[i].closure \in Kept',
         \A s \in Slots : open'[s] \in Kept' \cup {Null},
         global' \in Kept' \cup {Null}
  PROVE  Roots' \subseteq Kept'
<1>1. \A i \in DOMAIN stack' : stack'[i] \in Kept' \cup {Null} OBVIOUS
<1>2. DOMAIN frames' = 1..Len(frames') OBVIOUS
<1> QED BY <1>1, <1>2 DEF Roots, OpenUpValues, Range


(* What the frame that runs adds to RunningFrame. *)
LEMMA Running ==
  ASSUME Firm, phase \in {"run", "capture"}
  PROVE  Shaped /\ Current.closure \in Kept \cap Closures /\ pending = NoPending /\ ~Making
<1>1. Shaped /\ ~Making BY DEF Firm, Making
<1>2. Len(frames) \in 1..Len(frames) /\ Current.closure \in Closures BY <1>1, RunningFrame
<1>3. Current.closure \in Kept BY <1>2, Places DEF Current
<1> QED BY <1>1, <1>2, <1>3 DEF Firm, Anchored

(* A step of the program that makes no object and frees none. *)
LEMMA Stepped ==
  ASSUME Firm, Shaped', ~loose', phase \in {"run", "capture"}, phase' \in {"run", "capture", "ended"},
         UNCHANGED <<heap, marked, gray, pending>>,
         \A o \in Kept : refs'[o] \subseteq Kept,
         \A o \in In("off") : refs'[o] \subseteq In("off"),
         stack' \in Seq(Kept \cup {Null}),
         \A i \in 1..Len(frames') : frames'[i].closure \in Kept,
         \A s \in Slots : open'[s] \in Kept \cup {Null},
         global' \in Kept \cup {Null}
  PROVE  Firm'
<1>1. Kept' = Kept /\ In("off")' = In("off") /\ In("chain")' = In("chain") BY DEF Kept, In
<1>2. ~Making /\ ~Making' /\ pending = NoPending BY Running DEF Making
<1>3. frames' \in Seq(Frame) BY DEF Shaped, TypeOK
<1>4. Closed'
  <2>1. Roots' \subseteq Kept' BY <1>1, <1>3, RootsKept
  <2>2. \A o \in Kept : Constants[o] \subseteq Kept \/ o \notin Programs
    BY DEF Firm, Closed, Children
  <2>3. \A o \in Kept' : Children(o)' \subseteq Kept' BY <1>1, <2>2 DEF Children
  <2> QED BY <2>1, <2>3 DEF Closed
<1>5. OffChain'
  <2>1. \A o \in In("off") : Constants[o] \subseteq In("off") \/ o \notin Programs
    BY DEF Firm, OffChain, Children
  <2> QED BY <1>1, <2>1 DEF Firm, OffChain, Children
<1>6. Anchored' BY <1>2 DEF Anchored, NoPending
<1>7. Marking' BY <1>1 DEF Firm, Marking
<1> QED BY <1>4, <1>5, <1>6, <1>7 DEF Firm

(* What a step that leaves them alone may rely on. *)
LEMMA Unchanged ==
  ASSUME Firm
  PROVE  /\ \A o \in Kept : refs[o] \subseteq Kept
         /\ \A o \in In("off") : refs[o] \subseteq In("off")
         /\ Shaped
<1>1. \A o \in Kept : refs[o] \subseteq Kept BY DEF Firm, Closed, Children
<1>2. \A o \in In("off") : refs[o] \subseteq In("off") BY DEF Firm, OffChain, Children
<1> QED BY <1>1, <1>2 DEF Firm

(* A step that only changes the stack. *)
LEMMA MovesKeeps ==
  ASSUME Firm, Shaped', ~loose', phase = "run", NEW s \in Seq(Kept \cup {Null}), Moves(s)
  PROVE  Firm'
<1>1. stack' = s /\ UNCHANGED <<heap, refs, frames, open, global, loose, marked, gray, phase, pending>>
  BY DEF Moves, colours
<1> QED BY <1>1, Unchanged, Places, Stepped

(* The operands are Kept. *)
LEMMA Operands ==
  ASSUME Firm, NEW n \in Nat, HasOperands(n)
  PROVE  /\ phase = "run" /\ n < Len(stack) /\ Len(stack) \in 1..MaxStack /\ Len(stack) - n \in 1..Len(stack)
         /\ Below(n) \in Seq(Kept \cup {Null})
<1>1. Shaped BY DEF Firm
<1>2. phase = "run" /\ n < Len(stack) /\ Len(stack) \in 1..MaxStack /\ Len(stack) - n \in 1..Len(stack)
  BY <1>1, UnderOperands
<1>3. Len(stack) - n \in 0..Len(stack) BY <1>2
<1> QED BY <1>2, <1>3, Places, Prefix DEF Below

(* An operand is Kept. *)
LEMMA TopKept ==
  ASSUME Firm, HasOperands(1)
  PROVE  Top \in Kept \cup {Null}
<1>1. 1 \in Nat /\ Len(stack) \in 1..Len(stack) BY Operands
<1> QED BY <1>1, Places DEF Top

(* What an open upvalue points to is Kept: it is on the stack. *)
LEMMA CellKept ==
  ASSUME WellBehaved, Firm, NEW s \in Slots, open[s] # Null
  PROVE  Cell(s) \in Kept \cup {Null}
<1>1. s <= Len(stack) BY Unchanged, Parts DEF Firm
<1>2. s \in 1..Len(stack) BY <1>1 DEF Slots
<1> QED BY <1>1, <1>2, Places DEF Cell

(* Whatever an instruction can load is Kept. *)
LEMMA LoadableKept ==
  ASSUME WellBehaved, Firm, phase = "run"
  PROVE  Loadable \subseteq Kept \cup {Null}
<1>1. ASSUME NEW f \in refs[Current.closure] \cap Programs
      PROVE  Constants[f] \subseteq Kept
  <2>1. f \in Kept BY <1>1, Running DEF Firm, Closed, Children
  <2> QED BY <2>1, <1>1 DEF Firm, Closed, Children
<1>2. ASSUME NEW i \in Locals
      PROVE  stack[i] \in Kept \cup {Null}
  <2>1. i \in 1..Len(stack) BY <1>2, Running, RunningFrame DEF Locals
  <2> QED BY <2>1, Places
<1>3. ASSUME NEW u \in Captured
      PROVE  ValuesOf(u) \subseteq Kept \cup {Null}
  <2>1. u \in Kept BY <1>3, Running DEF Captured, Firm, Closed, Children
  <2>2. \A s \in Slots : open[s] = u => Cell(s) \in Kept \cup {Null}
    <3>1. u # Null BY <1>3, Kinds DEF Captured
    <3> QED BY <3>1, CellKept
  <2>3. refs[u] \subseteq Kept BY <2>1 DEF Firm, Closed, Children
  <2> QED BY <2>2, <2>3 DEF ValuesOf
<1>4. UNION {Constants[f] \cap Strings : f \in refs[Current.closure] \cap Programs} \subseteq Kept BY <1>1
<1>5. {stack[i] : i \in Locals} \subseteq Kept \cup {Null} BY <1>2
<1>6. UNION {ValuesOf(u) : u \in Captured} \subseteq Kept \cup {Null} BY <1>3
<1>7. {Null, global} \subseteq Kept \cup {Null} BY Places
<1> QED BY <1>4, <1>5, <1>6, <1>7 DEF Loadable

-----------------------------------------------------------------------------
(* The instructions *)

(* OP_CONSTANT, OP_NULL, OP_GET_GLOBAL, OP_GET_LOCAL and OP_GET_UPVALUE. *)
LEMMA LoadKeeps == ASSUME WellBehaved, Firm, Shaped', ~loose', Load PROVE Firm'
<1>1. phase = "run" BY DEF Load
<1>2. PICK v \in Loadable : Moves(Append(stack, v)) BY DEF Load
<1>3. v \in Kept \cup {Null} BY <1>1, LoadableKept
<1>4. Append(stack, v) \in Seq(Kept \cup {Null}) BY <1>3, Places, Longer
<1> QED BY <1>1, <1>2, <1>4, MovesKeeps

(* OP_POP. *)
LEMMA PopKeeps == ASSUME Firm, Shaped', ~loose', Pop PROVE Firm'
<1>1. HasOperands(1) /\ Moves(Below(1)) /\ 1 \in Nat BY DEF Pop
<1>2. Below(1) \in Seq(Kept \cup {Null}) /\ phase = "run" BY <1>1, Operands
<1> QED BY <1>1, <1>2, MovesKeeps

(* OP_GET_INDEX and OP_GET_PROPERTY of a field. *)
LEMMA GetElementKeeps == ASSUME Firm, Shaped', ~loose', GetElement PROVE Firm'
<1>1. HasOperands(1) /\ Top \in Containers \cup VarArgs /\ 1 \in Nat BY DEF GetElement
<1>2. PICK v \in Elements(Top) : Moves(Append(Below(1), v)) BY DEF GetElement
<1>3. Top \in Kept BY <1>1, TopKept, Kinds
<1>4. v \in Kept \cup {Null} BY <1>2, <1>3 DEF Elements, Firm, Closed, Children
<1>5. Append(Below(1), v) \in Seq(Kept \cup {Null}) /\ phase = "run" BY <1>1, <1>4, Operands, Longer
<1> QED BY <1>2, <1>5, MovesKeeps

(* The value on top goes to a slot. *)
LEMMA SetSlotKeeps ==
  ASSUME Firm, Shaped', ~loose', HasOperands(1), NEW s \in 1..Len(stack), Moves([stack EXCEPT ![s] = Top])
  PROVE  Firm'
<1>1. phase = "run" BY DEF HasOperands
<1>2. [stack EXCEPT ![s] = Top] \in Seq(Kept \cup {Null}) BY TopKept, Places, Replaced
<1> QED BY <1>1, <1>2, MovesKeeps

(* OP_SET_LOCAL. *)
LEMMA SetLocalKeeps == ASSUME Firm, Shaped', ~loose', SetLocal PROVE Firm'
<1>1. HasOperands(1) /\ phase = "run" BY DEF SetLocal, HasOperands
<1>2. PICK s \in Locals : Moves([stack EXCEPT ![s] = Top]) BY DEF SetLocal
<1>3. s \in 1..Len(stack) BY <1>1, Running, RunningFrame DEF Locals
<1> QED BY <1>1, <1>2, <1>3, SetSlotKeeps

(* OP_SET_GLOBAL. *)
LEMMA SetGlobalKeeps == ASSUME Firm, Shaped', ~loose', SetGlobal PROVE Firm'
<1>1. /\ HasOperands(1) /\ phase = "run"
      /\ global' = Top /\ UNCHANGED <<heap, refs, stack, frames, open, loose, marked, gray, phase, pending>>
  BY DEF SetGlobal, HasOperands, colours
<1> QED BY <1>1, TopKept, Unchanged, Places, Stepped

(* A step of the running frame that only gives references. *)
LEMMA GivesKeeps ==
  ASSUME Firm, Shaped', ~loose', phase \in {"run", "capture"}, NEW o \in Objects \ In("off"), NEW held \in SUBSET Kept,
         refs' = [refs EXCEPT ![o] = held],
         UNCHANGED <<heap, frames, open, global, loose, marked, gray, phase, pending>>,
         stack' \in Seq(Kept \cup {Null})
  PROVE  Firm'
<1>1. refs \in [Objects -> SUBSET Objects] BY Unchanged, Parts
<1>2. \A p \in Objects : refs'[p] = IF p = o THEN held ELSE refs[p] BY <1>1
<1>3. \A p \in Kept : refs'[p] \subseteq Kept BY <1>2, Unchanged, Places
<1>4. \A p \in In("off") : refs'[p] \subseteq In("off") BY <1>2, Unchanged DEF In
<1> QED BY <1>3, <1>4, Places, Stepped

(* What is not off the chain. *)
LEMMA OnChain ==
  ASSUME Firm
  PROVE  (UpValues \cup Closures \cup Containers \cup Binds) \cap In("off") = {}
BY Kinds DEF Firm, OffChain

(* OP_SET_UPVALUE, of an open and of a closed upvalue. *)
LEMMA SetUpValueKeeps == ASSUME Firm, Shaped', ~loose', SetUpValue PROVE Firm'
<1>1. HasOperands(1) /\ phase = "run" BY DEF SetUpValue, HasOperands
<1>2. PICK u \in Captured :
       \/ \E s \in DOMAIN stack : open[s] = u /\ Moves([stack EXCEPT ![s] = Top])
       \/ UNCHANGED <<heap, refs, stack, frames, open, global, loose, colours, phase, pending>>
       \/ /\ u \notin OpenUpValues
          /\ refs' = [refs EXCEPT ![u] = {Top} \ {Null}]
          /\ UNCHANGED <<heap, mutator, colours, phase, pending>>
  BY DEF SetUpValue
<1>3. CASE \E s \in DOMAIN stack : open[s] = u /\ Moves([stack EXCEPT ![s] = Top])
  <2>1. PICK s \in 1..Len(stack) : Moves([stack EXCEPT ![s] = Top]) BY <1>3, Unchanged, Parts
  <2> QED BY <1>1, <2>1, SetSlotKeeps
<1>4. CASE /\ refs' = [refs EXCEPT ![u] = {Top} \ {Null}]
           /\ UNCHANGED <<heap, mutator, colours, phase, pending>>
  <2>1. u \in Objects \ In("off") BY OnChain, Kinds DEF Captured
  <2>2. {Top} \ {Null} \in SUBSET Kept BY <1>1, TopKept
  <2> QED BY <1>1, <1>4, <2>1, <2>2, Places, GivesKeeps DEF mutator, colours
<1>5. CASE UNCHANGED <<heap, refs, stack, frames, open, global, loose, colours, phase, pending>>
  BY <1>1, <1>5, Unchanged, Places, Stepped DEF colours
<1> QED BY <1>2, <1>3, <1>4, <1>5

(* OP_SET_INDEX and OP_SET_PROPERTY. *)
LEMMA SetElementKeeps == ASSUME WellBehaved, Firm, Shaped', ~loose', SetElement PROVE Firm'
<1> DEFINE v == stack[Len(stack) - 1]
<1>1. HasOperands(2) /\ phase = "run" /\ Top \in Containers \cup VarArgs BY DEF SetElement, HasOperands
<1>2. /\ Top \in VarArgs => v \in Strings \cup {Null}
      /\ \E lost \in {{}} \cup {{x} : x \in refs[Top]} :
           refs' = [refs EXCEPT ![Top] = (@ \ lost) \cup ({v} \ {Null})]
      /\ stack' = Below(1)
      /\ UNCHANGED <<heap, frames, open, global, loose, marked, gray, phase, pending>>
  BY DEF SetElement, WellBehaved, colours
<1>3. HasOperands(1)
  <2>1. Current.base \in Nat /\ Len(stack) \in Nat BY <1>1, Running, RunningFrame
  <2> QED BY <1>1, <2>1 DEF HasOperands, Uncaptured
<1>4. Len(stack) - 1 \in 1..Len(stack) /\ 1 \in Nat BY <1>3, Operands
<1>5. Top \in Kept /\ Top \in Objects /\ v \in Kept \cup {Null} BY <1>1, <1>3, <1>4, TopKept, Kinds, Places
<1>6. PICK lost : refs' = [refs EXCEPT ![Top] = (@ \ lost) \cup ({v} \ {Null})] BY <1>2
<1> DEFINE held == (refs[Top] \ lost) \cup ({v} \ {Null})
<1>7. refs' = [refs EXCEPT ![Top] = held] BY <1>6
<1>8. held \in SUBSET Kept BY <1>5, Unchanged
<1>9. stack' \in Seq(Kept \cup {Null}) BY <1>2, <1>3, <1>4, Operands
<1>10. CASE Top \in Containers \/ Top \notin In("off")
  <2>1. Top \in Objects \ In("off") BY <1>10, OnChain, <1>5
  <2> QED BY <1>1, <1>2, <1>7, <1>8, <1>9, <2>1, GivesKeeps
<1>11. CASE Top \in VarArgs /\ Top \in In("off")
  <2>1. held \subseteq In("off")
    <3>1. {v} \ {Null} \subseteq In("off") BY <1>11, <1>2 DEF Firm, OffChain, Compiled
    <3> QED BY <3>1, <1>11, Unchanged
  <2>2. \A p \in Objects : refs'[p] = IF p = Top THEN held ELSE refs[p] BY <1>7, Unchanged, Parts
  <2>3. \A p \in Kept : refs'[p] \subseteq Kept BY <2>2, <1>8, Unchanged, Places
  <2>4. \A p \in In("off") : refs'[p] \subseteq In("off") BY <2>1, <2>2, Unchanged DEF In
  <2> QED BY <1>1, <1>2, <1>9, <2>3, <2>4, Places, Stepped
<1> QED BY <1>1, <1>10, <1>11

(* Closing upvalues gives them what the stack keeps. *)
LEMMA Closing ==
  ASSUME WellBehaved, Firm, NEW first \in Nat
  PROVE  /\ \A o \in Kept : ClosedUpValues(first)[o] \subseteq Kept
         /\ \A o \in In("off") : ClosedUpValues(first)[o] = refs[o]
         /\ \A s \in Slots : OpenBelow(first)[s] \in Kept \cup {Null}
<1>1. \A o \in Objects : \A t \in Slots : open[t] = o => Cell(t) \in Kept \cup {Null} BY CellKept, Kinds
<1>2. \A o \in Objects : {Cell(s) : s \in {t \in Slots : open[t] = o}} \ {Null} \subseteq Kept BY <1>1
<1>3. \A o \in Objects : ClosedUpValues(first)[o] \subseteq Kept \/ ClosedUpValues(first)[o] = refs[o]
  BY <1>2 DEF ClosedUpValues
<1>4. \A o \in Kept : ClosedUpValues(first)[o] \subseteq Kept BY <1>3, Unchanged, Places
<1>5. \A o \in In("off") : ClosedUpValues(first)[o] = refs[o]
  <2> TAKE o \in In("off")
  <2>1. o \in Objects /\ o # Null BY Kinds DEF In
  <2>2. ~\E s \in Slots : s >= first /\ open[s] = o
    BY <2>1, OnChain, Unchanged, Parts
  <2> QED BY <2>1, <2>2 DEF ClosedUpValues
<1>6. \A s \in Slots : OpenBelow(first)[s] \in Kept \cup {Null} BY Places DEF OpenBelow
<1> QED BY <1>4, <1>5, <1>6

(* The end of a block. *)
LEMMA ExitScopeKeeps ==
  ASSUME WellBehaved, Firm, Shaped', ~loose', NEW n \in 1..MaxStack, NEW last \in 0..n, ExitScope(n, last)
  PROVE  Firm'
<1> DEFINE first == (Len(stack) - last) + 1
<1>1. /\ phase = "run" /\ Len(stack) >= Current.base + n /\ stack' = Below(n)
      /\ UNCHANGED <<heap, frames, global, marked, gray, phase, pending>>
  BY DEF ExitScope, colours
<1>2. UNCHANGED <<refs, open>> \/ (refs' = ClosedUpValues(first) /\ open' = OpenBelow(first)) BY DEF ExitScope
<1>3. Len(stack) \in Nat /\ Current.base \in 1..Len(stack) /\ Len(stack) - n \in 0..Len(stack) /\ first \in Nat
  BY <1>1, Running, RunningFrame, Kinds
<1> HIDE DEF first
<1>4. stack' \in Seq(Kept \cup {Null}) BY <1>1, <1>3, Prefix, Places DEF Below
<1>5. /\ \A o \in Kept : refs'[o] \subseteq Kept
      /\ \A o \in In("off") : refs'[o] \subseteq In("off")
      /\ \A s \in Slots : open'[s] \in Kept \cup {Null}
  <2>1. CASE UNCHANGED <<refs, open>> BY <2>1, Unchanged, Places
  <2>2. CASE refs' = ClosedUpValues(first) /\ open' = OpenBelow(first) BY <1>3, <2>2, Closing, Unchanged
  <2> QED BY <1>2, <2>1, <2>2
<1> QED BY <1>1, <1>4, <1>5, Places, Stepped

(* The closure on top of the stack is given an upvalue. *)
LEMMA UpValueGiven == ASSUME Firm, Shaped', ~loose', phase = "capture", NEW u \in Kept, Gives(u) PROVE Firm'
<1>1. Shaped /\ Top \in Closures /\ Top \in Objects \ In("off") BY OnChain, Kinds DEF Firm, Shaped, Framed
<1>2. Top \in Kept
  <2>1. Len(stack) \in 1..Len(stack) BY <1>1, RunningFrame
  <2> QED BY <1>1, <2>1, Places, Kinds DEF Top
<1>3. refs' = [refs EXCEPT ![Top] = refs[Top] \cup {u}]
      /\ UNCHANGED <<heap, stack, frames, open, global, loose, marked, gray, phase, pending>>
  BY DEF Gives, mutator, colours
<1>4. refs[Top] \cup {u} \in SUBSET Kept BY <1>2, Unchanged
<1> QED BY <1>1, <1>3, <1>4, Places, GivesKeeps

(* OP_CLOSURE hands on an upvalue of the closure that runs. *)
LEMMA InheritKeeps == ASSUME Firm, Shaped', ~loose', Inherit PROVE Firm'
<1>1. PICK u \in Captured : Gives(u) BY DEF Inherit
<1>2. phase = "capture" BY DEF Inherit
<1>3. u \in Kept BY <1>1, <1>2, Running, Unchanged DEF Captured
<1> QED BY <1>1, <1>2, <1>3, UpValueGiven

(* OP_CLOSURE has all its upvalues. *)
LEMMA ReadyKeeps == ASSUME Firm, Shaped', ~loose', Ready PROVE Firm'
<1>1. phase = "capture" /\ phase' = "run" /\ UNCHANGED <<heap, refs, stack, frames, open, global, loose, marked, gray, pending>>
  BY DEF Ready, mutator, colours
<1> QED BY <1>1, Unchanged, Places, Stepped

(* What a callee can mean is Kept with it. *)
LEMMA TargetKept ==
  ASSUME Firm, NEW callee \in Kept \cup {Null}, NEW target \in Targets(callee)
  PROVE  target[1] \in Kept /\ target[2] \in Kept \cap Closures
<1>1. CASE callee \in Closures
  <2>1. Targets(callee) = {<<callee, callee>>} BY <1>1, Kinds DEF Targets
  <2> QED BY <1>1, <2>1, Kinds
<1>2. CASE callee \notin Closures /\ callee \in Binds
  <2>1. Targets(callee) = {<<r, c>> : r \in refs[callee] \cap Containers, c \in refs[callee] \cap Closures}
    BY <1>2, Kinds DEF Targets
  <2> QED BY <1>2, <2>1, Kinds, Unchanged
<1>3. CASE callee \notin Closures /\ callee \notin Binds /\ callee \in Containers
  <2>1. Targets(callee) = {<<callee, c>> : c \in refs[callee] \cap Closures}
    BY <1>3, Kinds DEF Targets
  <2> QED BY <1>3, <2>1, Kinds, Unchanged
<1>4. CASE callee \notin Closures /\ callee \notin Binds /\ callee \notin Containers
  <2>1. Targets(callee) = {} BY <1>4, Kinds DEF Targets
  <2> QED BY <2>1
<1> QED BY <1>1, <1>2, <1>3, <1>4

(* The callee of a call is Kept. *)
LEMMA CalleeKept ==
  ASSUME Firm, NEW argCount \in Nat, HasOperands(argCount + 1),
         NEW target \in Targets(stack[Len(stack) - argCount])
  PROVE  /\ phase = "run" /\ Len(stack) - argCount \in 1..Len(stack)
         /\ target[1] \in Kept /\ target[2] \in Kept \cap Closures
<1>1. phase = "run" /\ Len(stack) - argCount \in 1..Len(stack) BY Unchanged, CalleeSlot
<1>2. stack[Len(stack) - argCount] \in Kept \cup {Null} BY <1>1, Places
<1> QED BY <1>1, <1>2, TargetKept

(* The frame of a callee has its closure. *)
LEMMA FramePushed ==
  ASSUME Firm, NEW closure \in Kept, NEW base, frames' = Append(frames, [closure |-> closure, base |-> base])
  PROVE  \A i \in 1..Len(frames') : frames'[i].closure \in Kept
<1> DEFINE n == Len(frames)
<1>1. n \in Nat /\ Len(frames') = n + 1 /\ frames'[n + 1].closure = closure
      /\ \A i \in 1..n : frames'[i] = frames[i]
  BY Places
<1> HIDE DEF n
<1>2. \A i \in 1..(n + 1) : i \in 1..n \/ i = n + 1 BY <1>1
<1> QED BY <1>1, <1>2, Places DEF n

(* OP_CALL. *)
LEMMA CallKeeps == ASSUME Firm, Shaped', ~loose', NEW argCount \in Nat, Call(argCount) PROVE Firm'
<1> DEFINE base == Len(stack) - argCount
<1>1. HasOperands(argCount + 1) /\ UNCHANGED <<heap, refs>> BY DEF Call
<1>2. PICK target \in Targets(stack[base]) :
        PushFrame([stack EXCEPT ![base] = target[1]], target[2], base)
  BY DEF Call
<1>3. phase = "run" /\ base \in 1..Len(stack) /\ target[1] \in Kept /\ target[2] \in Kept BY <1>1, CalleeKept
<1>4. [stack EXCEPT ![base] = target[1]] \in Seq(Kept \cup {Null}) BY <1>3, Places, Replaced
<1>5. /\ stack' \in Seq(Kept \cup {Null})
      /\ frames' = Append(frames, [closure |-> target[2], base |-> base])
      /\ UNCHANGED <<open, global, loose, marked, gray, phase, pending>>
  BY <1>2, <1>4 DEF PushFrame, colours
<1> HIDE DEF base
<1>6. \A i \in 1..Len(frames') : frames'[i].closure \in Kept BY <1>3, <1>5, FramePushed
<1> QED BY <1>1, <1>3, <1>5, <1>6, Unchanged, Places, Stepped

(* OP_CALL that finds its result in FunctionObject::caches. *)
LEMMA CallCachedKeeps == ASSUME Firm, Shaped', ~loose', NEW argCount \in Nat, CallCached(argCount) PROVE Firm'
<1> DEFINE base == Len(stack) - argCount
           s == SubSeq(stack, 1, base - 1)
<1>1. HasOperands(argCount + 1) BY DEF CallCached
<1>2. PICK target \in Targets(stack[base]) :
        \E f \in refs[target[2]] \cap Programs : \E v \in Elements(f) : Moves(Append(s, v))
  BY DEF CallCached
<1>3. PICK f \in refs[target[2]] \cap Programs : \E v \in Elements(f) : Moves(Append(s, v)) BY <1>2
<1>4. PICK v \in Elements(f) : Moves(Append(s, v)) BY <1>3
<1>5. phase = "run" /\ base \in 1..Len(stack) /\ target[2] \in Kept BY <1>1, CalleeKept
<1>6. v \in Kept \cup {Null} BY <1>3, <1>4, <1>5, Unchanged DEF Elements
<1>7. base - 1 \in 0..Len(stack) BY <1>5
<1>8. Append(s, v) \in Seq(Kept \cup {Null}) BY <1>6, <1>7, Places, Prefix, Longer
<1> HIDE DEF s
<1> QED BY <1>4, <1>5, <1>8, MovesKeeps

(* OP_RETURN: what the function remembers is Kept, and off the chain. *)
LEMMA ReturnKeeps == ASSUME WellBehaved, Firm, Shaped', ~loose', Return PROVE Firm'
<1> DEFINE first == Current.base
           n == Len(frames)
           s == SubSeq(stack, 1, first - 1)
<1>1. phase = "run" BY DEF Return
<1>2. PICK v \in {Top, Null}, f \in refs[Current.closure] \cap Programs :
        /\ FunctionCache /\ ~ReturnsObjects => v \in Strings \cup {Null}
        /\ stack' = Append(s, v)
        /\ refs' = [ClosedUpValues(first) EXCEPT ![f] = IF FunctionCache THEN @ \cup ({v} \ {Null}) ELSE @]
  BY DEF Return
<1>3. /\ open' = OpenBelow(first) /\ frames' = SubSeq(frames, 1, n - 1)
      /\ phase' = (IF n = 1 THEN "ended" ELSE "run")
      /\ UNCHANGED <<heap, global, marked, gray, pending>>
  BY DEF Return, colours
<1>4. first \in 1..Len(stack) /\ first \in Nat /\ n \in 1..MaxFrames
  BY <1>1, Running, RunningFrame
<1>5. v \in Kept \cup {Null}
  <2>1. Len(stack) \in 1..Len(stack) BY <1>4
  <2> QED BY <1>2, <2>1, Places DEF Top
<1>6. f \in Programs /\ f \in Objects /\ f \in In("off") BY <1>2, Kinds DEF Firm, OffChain, Compiled
<1>7. ClosedUpValues(first)[f] = refs[f] BY <1>4, <1>6, Closing
<1> DEFINE held == IF FunctionCache THEN refs[f] \cup ({v} \ {Null}) ELSE refs[f]
<1>8. refs' = [ClosedUpValues(first) EXCEPT ![f] = held] BY <1>2, <1>7
<1>9. held \subseteq In("off")
  <2>1. refs[f] \subseteq In("off") BY <1>6, Unchanged
  <2>2. FunctionCache => {v} \ {Null} \subseteq In("off")
    <3>1. FunctionCache => v \in Strings \cup {Null} BY <1>2 DEF WellBehaved
    <3> QED BY <3>1 DEF Firm, OffChain, Compiled
  <2> QED BY <2>1, <2>2
<1>10. held \subseteq Kept BY <1>9 DEF Kept
<1> HIDE DEF held
<1>11. \A o \in Objects : refs'[o] = IF o = f THEN held ELSE ClosedUpValues(first)[o]
  BY <1>4, <1>8, Unchanged, ClosingShape
<1>12. \A o \in Kept : refs'[o] \subseteq Kept BY <1>4, <1>10, <1>11, Closing, Places
<1>13. \A o \in In("off") : refs'[o] \subseteq In("off") BY <1>4, <1>9, <1>11, Closing, Unchanged DEF In
<1>14. stack' \in Seq(Kept \cup {Null})
  <2>1. first - 1 \in 0..Len(stack) BY <1>4
  <2>2. s \in Seq(Kept \cup {Null}) BY <2>1, Places, Prefix
  <2> QED BY <1>2, <1>5, <2>2, Longer
<1>15. \A i \in 1..Len(frames') : frames'[i].closure \in Kept
  <2>1. n - 1 \in 0..n BY <1>4
  <2>2. Len(frames') = n - 1 /\ \A i \in 1..(n - 1) : frames'[i] = frames[i] BY <1>3, <2>1, Places, Prefix
  <2>3. \A i \in 1..(n - 1) : i \in 1..n BY <1>4
  <2> QED BY <2>2, <2>3, Places
<1>16. \A i \in Slots : open'[i] \in Kept \cup {Null} BY <1>3, <1>4, Closing
<1>17. phase' \in {"run", "ended"} /\ global' \in Kept \cup {Null} BY <1>3, Places
<1> QED BY <1>1, <1>3, <1>12, <1>13, <1>14, <1>15, <1>16, <1>17, Stepped

(* A packed array is a new object off the chain, and refers to nothing that *)
(* is on it.                                                                *)
LEMMA CallPackedKeeps == ASSUME WellBehaved, Firm, Shaped', ~loose', NEW argCount \in Nat, CallPacked(argCount) PROVE Firm'
<1> DEFINE base == Len(stack) - argCount
           packed == Above(base)
           s == SubSeq(stack, 1, base - 1)
<1>1. HasOperands(argCount + 1) BY DEF CallPacked
<1>2. PICK target \in Targets(stack[base]), a \in VarArgs :
        /\ heap[a] = "unused"
        /\ PacksObjects \/ packed \subseteq Strings
        /\ heap' = [heap EXCEPT ![a] = "off"]
        /\ refs' = [refs EXCEPT ![a] = packed]
        /\ PushFrame(Append(Append(s, target[1]), a), target[2], base)
  BY DEF CallPacked
<1>3. phase = "run" /\ base \in 1..Len(stack) /\ target[1] \in Kept /\ target[2] \in Kept BY <1>1, CalleeKept
<1>4. /\ stack' = Append(Append(s, target[1]), a)
      /\ frames' = Append(frames, [closure |-> target[2], base |-> base])
      /\ UNCHANGED <<open, global, loose, marked, gray, phase, pending>>
  BY <1>2 DEF PushFrame, colours
<1>5. packed \subseteq In("off")
  <2>1. packed \subseteq Strings BY <1>2 DEF WellBehaved
  <2> QED BY <2>1 DEF Firm, OffChain, Compiled
<1>6. a \in Objects /\ a \notin Kept /\ heap \in [Objects -> {"unused", "new", "chain", "off", "freed"}]
      /\ refs \in [Objects -> SUBSET Objects]
  BY <1>2, Kinds, Unchanged, Parts DEF Kept, In
<1>7. Kept' = Kept \cup {a} /\ In("off")' = In("off") \cup {a} /\ In("chain")' = In("chain")
  <2>1. \A o \in Objects : heap'[o] = IF o = a THEN "off" ELSE heap[o] BY <1>2, <1>6
  <2> QED BY <2>1, <1>2, <1>6 DEF Kept, In
<1>8. \A o \in Objects : refs'[o] = IF o = a THEN packed ELSE refs[o] BY <1>2, <1>6
<1> HIDE DEF packed
<1>9. s \in Seq(Kept \cup {Null})
  <2>1. base - 1 \in 0..Len(stack) BY <1>3
  <2> QED BY <2>1, Places, Prefix
<1> HIDE DEF s
<1>10. stack' \in Seq(Kept' \cup {Null})
  <2>1. s \in Seq(Kept' \cup {Null}) BY <1>7, <1>9
  <2>2. Append(s, target[1]) \in Seq(Kept' \cup {Null}) BY <1>3, <1>7, <2>1, Longer
  <2>3. a \in Kept' BY <1>7
  <2> QED BY <1>4, <2>2, <2>3, Longer
<1> HIDE DEF base
<1>11. \A i \in 1..Len(frames') : frames'[i].closure \in Kept BY <1>3, <1>4, FramePushed
<1>12. Closed'
  <2>1. Roots' \subseteq Kept'
    <3>1. frames' \in Seq(Frame) /\ \A i \in 1..Len(frames') : frames'[i].closure \in Kept'
      BY <1>7, <1>11 DEF Shaped, TypeOK
    <3>2. \A i \in Slots : open'[i] \in Kept' \cup {Null} BY <1>4, <1>7, Places
    <3>3. global' \in Kept' \cup {Null} BY <1>4, <1>7, Places
    <3> QED BY <1>10, <3>1, <3>2, <3>3, RootsKept
  <2>2. \A o \in Kept : Children(o)' \subseteq Kept
    BY <1>6, <1>8, Places DEF Children, Firm, Closed
  <2>3. Children(a)' \subseteq Kept'
    <3>1. a \notin Programs BY Kinds DEF Compiled
    <3> QED BY <3>1, <1>5, <1>6, <1>7, <1>8 DEF Children, Kept
  <2> QED BY <2>1, <2>2, <2>3, <1>7 DEF Closed
<1>13. OffChain'
  <2>1. a \notin Programs BY Kinds DEF Compiled
  <2>2. Children(a)' \subseteq In("off")' BY <2>1, <1>5, <1>6, <1>7, <1>8 DEF Children
  <2>3. \A o \in In("off") : Children(o)' \subseteq In("off")'
    <3>1. \A o \in In("off") : o \in Objects /\ o # a BY <1>6 DEF In, Kept
    <3> QED BY <3>1, <1>7, <1>8 DEF Children, Firm, OffChain
  <2> QED BY <2>2, <2>3, <1>7 DEF Firm, OffChain
<1>14. Anchored' BY <1>3, <1>4, Running DEF Anchored, Making, NoPending
<1>15. Marking' BY <1>3, <1>4, <1>7 DEF Firm, Marking
<1> QED BY <1>12, <1>13, <1>14, <1>15 DEF Firm

(* What the roots are or refer to when a step is done that changes no object *)
(* there was.                                                                *)
AtRoots == Roots' \cup UNION {Children(r) : r \in Roots'}

(* CreateObject begins: the new object is not Kept yet, and refers to what *)
(* the roots are or refer to.                                              *)
LEMMA CreateKeeps ==
  ASSUME Firm, Shaped', ~loose',
         NEW o \in Objects, NEW held \in SUBSET Kept, NEW pops, NEW slot,
         phase \in {"run", "capture"}, Create(o, held, pops, slot), UNCHANGED <<frames, open, global, loose>>,
         stack' \in Seq(Kept \cup {Null}),
         held \subseteq AtRoots
  PROVE  Firm'
<1>1. /\ heap[o] = "unused" /\ heap' = [heap EXCEPT ![o] = "new"] /\ refs' = [refs EXCEPT ![o] = held]
      /\ pending' = [obj |-> o, pops |-> pops, slot |-> slot] /\ phase' = "create"
      /\ UNCHANGED <<marked, gray>>
  BY DEF Create, colours
<1>2. heap \in [Objects -> {"unused", "new", "chain", "off", "freed"}] /\ refs \in [Objects -> SUBSET Objects]
  BY Unchanged, Parts
<1>3. o \notin Kept /\ o \notin Programs
  <2>1. o \notin Kept BY <1>1 DEF Kept, In
  <2> QED BY <2>1 DEF Firm, OffChain, Compiled, Kept
<1>4. \A x \in Objects : heap'[x] = IF x = o THEN "new" ELSE heap[x] BY <1>1, <1>2
<1>5. Kept' = Kept /\ In("off")' = In("off") /\ In("chain")' = In("chain") BY <1>1, <1>4 DEF Kept, In
<1>6. \A x \in Objects : refs'[x] = IF x = o THEN held ELSE refs[x] BY <1>1, <1>2
<1>7. \A x \in Kept : Children(x)' = Children(x) BY <1>3, <1>6, Places DEF Children
<1>8. Roots' \subseteq Kept' BY <1>5, Places, RootsKept
<1>9. Closed' BY <1>5, <1>7, <1>8 DEF Closed, Firm
<1>10. OffChain'
  <2>1. In("off") \subseteq Kept BY DEF Kept
  <2> QED BY <1>5, <1>7, <2>1 DEF OffChain, Firm
<1>11. Anchored'
  <2>1. Children(o)' = held BY <1>3, <1>6 DEF Children
  <2>2. \A c \in held : c \in Roots' \/ \E r \in Roots' : c \in Children(r)' BY <1>5, <1>7, <1>8 DEF AtRoots
  <2>3. pending'.obj = o /\ heap'[o] = "new" /\ Making' BY <1>1, <1>4 DEF Making
  <2>4. \A c \in Children(pending.obj)' : c \in Roots' \/ \E r \in Roots' : c \in Children(r)'
    BY <2>1, <2>2, <2>3 DEF Children
  <2> QED BY <2>3, <2>4 DEF Anchored
<1>12. Marking' BY <1>1, <1>5 DEF Marking, Firm
<1> QED BY <1>9, <1>10, <1>11, <1>12 DEF Firm

(* OP_CLOSURE captures a slot. *)
LEMMA CaptureKeeps == ASSUME Firm, Shaped', ~loose', Capture PROVE Firm'
<1>1. phase = "capture" BY DEF Capture
<1>2. PICK s \in Locals :
        \/ open[s] # Null /\ Gives(open[s])
        \/ /\ open[s] = Null
           /\ \E u \in UpValues : Create(u, {}, 0, s)
           /\ UNCHANGED mutator
  BY DEF Capture
<1>3. s \in Slots
  <2>1. Current.base \in 1..Len(stack) /\ Len(stack) \in 1..MaxStack BY <1>1, Running, RunningFrame
  <2> QED BY <2>1, Kinds DEF Locals, Slots
<1>4. CASE open[s] # Null /\ Gives(open[s])
  <2>1. open[s] \in Kept BY <1>3, <1>4, Places
  <2> QED BY <1>1, <1>4, <2>1, UpValueGiven
<1>5. CASE UNCHANGED mutator /\ \E u \in UpValues : Create(u, {}, 0, s)
  <2>1. PICK u \in UpValues : Create(u, {}, 0, s) BY <1>5
  <2>2. UNCHANGED <<stack, frames, open, global, loose>> BY <1>5 DEF mutator
  <2>3. stack' \in Seq(Kept \cup {Null}) BY <2>2, Places
  <2>4. u \in Objects /\ {} \in SUBSET Kept /\ {} \subseteq AtRoots BY Kinds
  <2>5. phase \in {"run", "capture"} /\ UNCHANGED <<frames, open, global, loose>> BY <1>1, <2>2
  <2> QED BY <2>1, <2>3, <2>4, <2>5, CreateKeeps
<1> QED BY <1>2, <1>4, <1>5

(* The operands are still roots when the container is made of them. *)
LEMMA MakeContainerKeeps == ASSUME Firm, Shaped', ~loose', NEW n \in Nat, MakeContainer(n) PROVE Firm'
<1> DEFINE held == Above(Len(stack) - n)
<1>1. HasOperands(n) /\ UNCHANGED <<stack, frames, open, global, loose>> BY DEF MakeContainer, mutator
<1>2. PICK o \in Containers : Create(o, held, n, 0) BY DEF MakeContainer
<1>3. phase = "run" /\ n < Len(stack) /\ Len(stack) \in 1..MaxStack BY <1>1, Operands
<1>4. \A c \in held : c \in Roots
  <2>1. \A i \in ((Len(stack) - n) + 1)..Len(stack) : i \in DOMAIN stack BY <1>3, Places
  <2> QED BY <2>1 DEF Above, Roots, Range
<1>5. Roots' = Roots BY <1>1 DEF Roots, OpenUpValues
<1>6. held \in SUBSET Kept BY <1>4 DEF Firm, Closed
<1> HIDE DEF held
<1>7. o \in Objects /\ stack' \in Seq(Kept \cup {Null}) BY <1>1, Kinds, Places
<1>8. held \subseteq AtRoots BY <1>4, <1>5 DEF AtRoots
<1>9. Create(o, held, n, 0) BY <1>2 DEF held
<1>10. phase \in {"run", "capture"} /\ UNCHANGED <<frames, open, global, loose>> BY <1>1, <1>3
<1> QED BY <1>6, <1>7, <1>8, <1>9, <1>10, CreateKeeps

(* OP_CLOSURE keeps the function on the stack while its closure is made. *)
LEMMA MakeClosureKeeps == ASSUME Firm, Shaped', ~loose', MakeClosure PROVE Firm'
<1>1. phase = "run" /\ UNCHANGED <<frames, open, global, loose>> BY DEF MakeClosure
<1>2. PICK p \in refs[Current.closure] \cap Programs :
        \E f \in Constants[p] \cap Programs, o \in Closures :
          Create(o, {f}, 1, 0) /\ stack' = Append(stack, f)
  BY DEF MakeClosure
<1>3. PICK f \in Constants[p] \cap Programs, o \in Closures :
          Create(o, {f}, 1, 0) /\ stack' = Append(stack, f)
  BY <1>2
<1>4. f \in Kept BY <1>3 DEF Firm, OffChain, Compiled, Kept
<1>5. stack' \in Seq(Kept \cup {Null}) /\ Len(stack') = Len(stack) + 1 /\ stack'[Len(stack) + 1] = f
  BY <1>3, <1>4, Places, Longer
<1>6. f \in Roots'
  <2>1. Len(stack) + 1 \in DOMAIN stack'
    <3>1. Len(stack) \in Nat /\ DOMAIN stack' = 1..Len(stack') BY <1>5, Places
    <3> QED BY <1>5, <3>1
  <2>2. f # Null BY <1>3, Kinds
  <2> QED BY <1>5, <2>1, <2>2 DEF Roots, Range
<1> DEFINE held == {f}
<1>7. held \in SUBSET Kept /\ held \subseteq AtRoots BY <1>4, <1>6 DEF AtRoots
<1>8. Create(o, held, 1, 0) BY <1>3
<1> HIDE DEF held
<1>9. o \in Objects BY Kinds
<1> QED BY <1>1, <1>5, <1>7, <1>8, <1>9, CreateKeeps

(* The receiver is popped, but something else holds it. *)
LEMMA BindKeeps == ASSUME WellBehaved, Firm, Shaped', ~loose', Bind PROVE Firm'
<1>1. /\ HasOperands(1) /\ Top \in Containers /\ Top \in Range(Below(1)) \cup {global}
      /\ stack' = Below(1) /\ UNCHANGED <<frames, open, global, loose>> /\ 1 \in Nat
  BY DEF Bind, WellBehaved
<1>2. PICK c \in refs[Top] \cap Closures, o \in Binds : Create(o, {Top, c}, 0, 0) BY DEF Bind
<1>3. phase = "run" /\ stack' \in Seq(Kept \cup {Null}) BY <1>1, Operands
<1>4. Top \in Kept /\ Top # Null BY <1>1, TopKept, Kinds
<1>5. Top \in Roots' BY <1>1, <1>4 DEF Roots
<1>6. c \in Children(Top) /\ c \in Kept BY <1>2, <1>4, Unchanged DEF Children
<1> DEFINE held == {Top, c}
<1>7. held \in SUBSET Kept /\ held \subseteq AtRoots /\ Create(o, held, 0, 0)
  BY <1>2, <1>4, <1>5, <1>6 DEF AtRoots
<1> HIDE DEF held
<1>8. o \in Objects BY <1>2, Kinds
<1> QED BY <1>1, <1>3, <1>7, <1>8, CreateKeeps

-----------------------------------------------------------------------------
(* The collector *)

(* A step that only colours objects. *)
LEMMA ColoursKeep ==
  ASSUME Firm, Shaped', ~loose', Making, phase' = "trace", UNCHANGED <<heap, refs, mutator, pending>>, Marking'
  PROVE  Firm'
<1>1. UNCHANGED <<heap, refs, stack, frames, open, global, loose, pending>> BY DEF mutator
<1>2. Kept' = Kept /\ In("off")' = In("off") /\ Roots' = Roots
  BY <1>1 DEF Kept, In, Roots, OpenUpValues
<1>3. \A o : Children(o)' = Children(o) BY <1>1 DEF Children
<1>4. Closed' BY <1>2, <1>3 DEF Firm, Closed
<1>5. OffChain' BY <1>2, <1>3 DEF Firm, OffChain
<1>6. Anchored' BY <1>1, <1>2, <1>3 DEF Firm, Anchored, Making, Children
<1> QED BY <1>4, <1>5, <1>6 DEF Firm

(* Nothing of the chain is black when the roots turn gray. *)
LEMMA MarkRootObjectsKeeps == ASSUME Firm, Shaped', ~loose', MarkRootObjects PROVE Firm'
<1>1. /\ phase = "create" /\ phase' = "trace" /\ UNCHANGED <<heap, refs, mutator, pending>>
      /\ marked' = marked \cup Roots /\ gray' = Roots \ marked
  BY DEF MarkRootObjects
<1>2. Roots' = Roots /\ Kept' = Kept /\ In("chain")' = In("chain")
  BY <1>1 DEF Roots, OpenUpValues, Kept, In, mutator
<1>3. marked \cap In("chain") = {} /\ marked \subseteq Kept /\ Roots \subseteq Kept
  BY <1>1 DEF Firm, Marking, Closed
<1>4. (marked' \ gray') \cap In("chain") = {} BY <1>1, <1>3
<1>5. Marking' BY <1>1, <1>2, <1>3, <1>4 DEF Marking
<1> QED BY <1>1, <1>5, ColoursKeep DEF Making

(* A wave leaves no black object that refers to a white one. *)
LEMMA MarkGrayObjectsKeeps == ASSUME Firm, Shaped', ~loose', MarkGrayObjects PROVE Firm'
<1> DEFINE met == UNION {Blackened(o) : o \in gray}
<1>1. /\ phase = "trace" /\ phase' = phase /\ UNCHANGED <<heap, refs, mutator, pending>>
      /\ marked' = marked \cup met /\ gray' = met \ marked
  BY DEF MarkGrayObjects
<1>2. Roots' = Roots /\ Kept' = Kept /\ In("chain")' = In("chain")
  BY <1>1 DEF Roots, OpenUpValues, Kept, In, mutator
<1>3. /\ marked \subseteq Kept /\ gray \subseteq marked /\ Roots \subseteq marked
      /\ \A o \in (marked \ gray) \cap In("chain") : Children(o) \subseteq marked
  BY <1>1 DEF Firm, Marking
<1>4. \A o \in gray : Children(o) \subseteq met BY DEF Blackened
<1>5. met \subseteq Kept BY <1>3 DEF Firm, Closed, Blackened
<1> HIDE DEF met
<1>6. \A o \in (marked' \ gray') \cap In("chain") : Children(o) \subseteq marked' BY <1>1, <1>3, <1>4
<1>7. \A o : Children(o)' = Children(o) BY <1>1 DEF Children
<1>8. Marking' BY <1>1, <1>2, <1>3, <1>5, <1>6, <1>7 DEF Marking
<1> QED BY <1>1, <1>8, ColoursKeep DEF Making

(* Sweep frees only what nothing that stays refers to. *)
LEMMA SweepKeeps == ASSUME Firm, Shaped', ~loose', Sweep PROVE Firm'
<1> DEFINE unreached == In("chain") \ marked
<1>1. /\ phase = "trace" /\ gray = {} /\ phase' = "link"
      /\ heap' = [o \in Objects |-> IF o \in unreached THEN "freed" ELSE heap[o]]
      /\ refs' = [o \in Objects |-> IF o \in unreached THEN {} ELSE refs[o]]
      /\ marked' = marked \ In("chain") /\ gray' = {}
      /\ UNCHANGED <<stack, frames, open, global, loose, pending>>
  BY DEF Sweep, mutator
<1>2. /\ marked \subseteq Kept /\ Roots \subseteq marked
      /\ \A o \in marked \cap In("chain") : Children(o) \subseteq marked
  BY <1>1 DEF Firm, Marking
<1>3. In("chain")' = In("chain") \cap marked /\ In("off")' = In("off")
  BY <1>1, Unchanged, Parts DEF In
<1>4. Kept' = In("off") \cup (In("chain") \cap marked) /\ Kept' \subseteq Kept /\ marked \subseteq Kept'
  BY <1>2, <1>3 DEF Kept
<1>5. In("off") \cap In("chain") = {} /\ In("off") \cup In("chain") \subseteq Objects BY DEF In
<1>6. \A o \in Objects \ unreached : refs'[o] = refs[o] /\ heap'[o] = heap[o] BY <1>1
<1>7. \A o \in Kept' : o \in Objects /\ o \notin unreached BY <1>4, <1>5
<1>8. \A o \in Kept' : Children(o)' = Children(o) BY <1>6, <1>7 DEF Children
<1>9. Roots' = Roots BY <1>1 DEF Roots, OpenUpValues
<1>10. Closed'
  <2>1. \A o \in In("off") : Children(o) \subseteq In("off") BY DEF Firm, OffChain
  <2>2. \A o \in Kept' : Children(o) \subseteq Kept' BY <1>2, <1>4, <2>1
  <2> QED BY <1>2, <1>4, <1>8, <1>9, <2>2 DEF Closed
<1>11. OffChain'
  <2>1. \A o \in In("off") : Children(o)' = Children(o) BY <1>4, <1>8
  <2> QED BY <1>3, <2>1 DEF Firm, OffChain
<1> HIDE DEF unreached
<1>12. Anchored'
  <2>1. PICK o \in Objects : o = pending.obj BY <1>1 DEF Firm, Anchored, Making
  <2>2. /\ heap[o] = "new" /\ pending'.obj = o /\ Making'
        /\ \A c \in Children(o) : c \in Roots \/ \E r \in Roots : c \in Children(r)
    BY <1>1, <2>1 DEF Firm, Anchored, Making
  <2>3. o \notin unreached BY <2>2 DEF unreached, In
  <2>4. heap'[o] = "new" /\ refs'[o] = refs[o] BY <1>6, <2>2, <2>3
  <2>5. \A r \in Roots : Children(r)' = Children(r) BY <1>2, <1>4, <1>8
  <2>6. Children(pending.obj)' = Children(o) BY <2>2, <2>4 DEF Children
  <2>7. \A c \in Children(pending.obj)' : c \in Roots' \/ \E r \in Roots' : c \in Children(r)'
    BY <1>9, <2>2, <2>5, <2>6
  <2> QED BY <2>2, <2>4, <2>7 DEF Anchored
<1>13. Marking' BY <1>1, <1>2, <1>3, <1>4 DEF Marking, Kept
<1> QED BY <1>10, <1>11, <1>12, <1>13 DEF Firm

(* The object that is linked is Kept from then on. *)
LEMMA LinkedKept ==
  ASSUME Firm, NEW o \in Objects, Linked(o), phase' \in {"run", "capture"}
  PROVE  /\ o \notin Kept /\ o \notin Programs
         /\ Kept' = Kept \cup {o} /\ In("off")' = In("off")
         /\ Children(o) \subseteq Kept
         /\ global' = global
         /\ Anchored' /\ Marking'
<1>1. /\ phase \in {"create", "link"} /\ o = pending.obj /\ heap' = [heap EXCEPT ![o] = "chain"]
      /\ marked' = marked \ {o} /\ pending' = NoPending /\ global' = global /\ gray' = gray
  BY DEF Linked
<1>2. heap \in [Objects -> {"unused", "new", "chain", "off", "freed"}] BY Unchanged, Parts
<1>3. /\ heap[o] = "new"
      /\ \A c \in Children(o) : c \in Roots \/ \E r \in Roots : c \in Children(r)
  BY <1>1 DEF Firm, Anchored, Making
<1>4. o \notin Kept BY <1>3 DEF Kept, In
<1>5. o \notin Programs BY <1>4 DEF Firm, OffChain, Compiled, Kept
<1>6. \A x \in Objects : heap'[x] = IF x = o THEN "chain" ELSE heap[x] BY <1>1, <1>2
<1>7. In("chain")' = In("chain") \cup {o} /\ In("off")' = In("off") BY <1>3, <1>6 DEF In
<1>8. Kept' = Kept \cup {o} BY <1>7 DEF Kept
<1>9. Children(o) \subseteq Kept BY <1>3 DEF Firm, Closed
<1>10. gray = {} /\ marked \subseteq Kept /\ marked \cap In("chain") = {} BY <1>1 DEF Firm, Marking
<1>11. Marking' BY <1>1, <1>7, <1>8, <1>10 DEF Marking
<1>12. Anchored' BY <1>1 DEF Anchored, Making
<1> QED BY <1>1, <1>4, <1>5, <1>7, <1>8, <1>9, <1>11, <1>12

(* An upvalue is linked: it is open, and its closure has it. *)
LEMMA LinkUpValueKeeps == ASSUME Firm, Shaped', ~loose', NEW o \in Objects, LinkUpValue(o) PROVE Firm'
<1>1. /\ Linked(o) /\ o \in UpValues /\ open' = [open EXCEPT ![pending.slot] = o]
      /\ refs' = [refs EXCEPT ![Top] = refs[Top] \cup {o}] /\ phase' = "capture"
      /\ UNCHANGED <<stack, frames>> /\ o = pending.obj /\ Making
  BY DEF LinkUpValue, Linked, Making
<1>2. /\ o \notin Kept /\ o \notin Programs /\ Kept' = Kept \cup {o} /\ In("off")' = In("off")
      /\ Children(o) \subseteq Kept /\ global' = global /\ Anchored' /\ Marking'
  BY <1>1, LinkedKept
<1>3. Top \in Closures BY <1>1 DEF Firm, Shaped, Framed
<1>4. Top \in Kept /\ Top \in Objects \ In("off")
  <2>1. stack # <<>> /\ Len(stack) \in Nat BY <1>1, Places DEF Firm, Shaped, Framed, Making
  <2>2. Len(stack) \in 1..Len(stack) BY <2>1, Places
  <2> QED BY <1>3, <2>2, Places, Kinds, OnChain DEF Top
<1>5. \A x \in Objects : refs'[x] = IF x = Top THEN refs[Top] \cup {o} ELSE refs[x] BY <1>1, Unchanged, Parts
<1>6. \A s \in Slots : open'[s] = IF s = pending.slot THEN o ELSE open[s] BY <1>1, Unchanged, Parts
<1>7. Top \notin Programs BY <1>3, Kinds DEF Compiled
<1>8. Closed'
  <2>1. Roots' \subseteq Kept'
    <3>1. stack' \in Seq(Kept' \cup {Null})
      <4>1. \A i \in 1..Len(stack) : stack[i] \in Kept' \cup {Null} BY <1>2, Places
      <4> QED BY <1>1, <4>1, Places, Narrowed
    <3>2. frames' \in Seq(Frame) /\ \A i \in 1..Len(frames') : frames'[i].closure \in Kept' BY <1>1, <1>2, Places
    <3>3. \A s \in Slots : open'[s] \in Kept' \cup {Null} BY <1>2, <1>6, Places
    <3>4. global' \in Kept' \cup {Null} BY <1>2, Places
    <3> QED BY <3>1, <3>2, <3>3, <3>4, RootsKept
  <2>2. \A x \in Kept : Children(x)' \subseteq Kept'
    BY <1>2, <1>5, <1>7, Places DEF Children, Firm, Closed
  <2>3. Children(o)' \subseteq Kept' BY <1>2, <1>4, <1>5 DEF Children
  <2> QED BY <1>2, <2>1, <2>2, <2>3 DEF Closed
<1>9. OffChain'
  <2>1. \A x \in In("off") : Children(x)' = Children(x) BY <1>4, <1>5 DEF Children, In
  <2> QED BY <1>2, <2>1 DEF Firm, OffChain
<1> QED BY <1>2, <1>8, <1>9 DEF Firm

(* Any other object is linked and pushed; the first closure gets the frame. *)
LEMMA LinkKeeps == ASSUME Firm, Shaped', ~loose', NEW o \in Objects, Link(o) PROVE Firm'
<1> DEFINE s == Below(pending.pops)
<1>1. /\ Linked(o) /\ o \notin UpValues /\ stack' = Append(s, o)
      /\ frames' = (IF frames = <<>> THEN <<[closure |-> o, base |-> Len(stack')]>> ELSE frames)
      /\ phase' \in {"run", "capture"}
      /\ UNCHANGED <<refs, open>> /\ o = pending.obj /\ Making
  BY DEF Link, Linked, Making
<1>2. /\ o \notin Kept /\ o \notin Programs /\ Kept' = Kept \cup {o} /\ In("off")' = In("off")
      /\ Children(o) \subseteq Kept /\ global' = global /\ Anchored' /\ Marking'
  BY <1>1, LinkedKept
<1>3. s \in Seq(Kept \cup {Null})
  <2>1. pending.pops \in 0..MaxStack /\ Len(stack) \in Nat /\ pending.pops <= Len(stack)
    BY <1>1, Unchanged, Parts DEF Shaped, TypeOK, Framed
  <2>2. Len(stack) - pending.pops \in 0..Len(stack) BY <2>1, Kinds
  <2> QED BY <2>2, Places, Prefix DEF Below
<1> HIDE DEF s
<1>4. stack' \in Seq(Kept' \cup {Null})
  <2>1. s \in Seq(Kept' \cup {Null}) BY <1>2, <1>3
  <2> QED BY <1>1, <1>2, <2>1, Longer
<1>5. frames' \in Seq(Frame) /\ \A i \in 1..Len(frames') : frames'[i].closure \in Kept'
  <2>1. frames' \in Seq(Frame) BY DEF Shaped, TypeOK
  <2>2. CASE frames = <<>>
    <3>1. Len(frames') = 1 /\ frames'[1].closure = o BY <1>1, <2>2
    <3> QED BY <1>2, <2>1, <3>1
  <2>3. CASE frames # <<>> BY <1>1, <1>2, <2>1, <2>3, Places
  <2> QED BY <2>2, <2>3
<1>6. \A x \in Objects : Children(x)' = Children(x) BY <1>1 DEF Children
<1>7. Closed'
  <2>1. Roots' \subseteq Kept'
    <3>1. \A i \in Slots : open'[i] \in Kept' \cup {Null} BY <1>1, <1>2, Places
    <3>2. global' \in Kept' \cup {Null} BY <1>2, Places
    <3> QED BY <1>4, <1>5, <3>1, <3>2, RootsKept
  <2>2. \A x \in Kept : Children(x)' \subseteq Kept' BY <1>2, <1>6, Places DEF Firm, Closed
  <2>3. Children(o)' \subseteq Kept' BY <1>2, <1>6
  <2> QED BY <1>2, <2>1, <2>2, <2>3 DEF Closed
<1>8. OffChain'
  <2>1. \A x \in In("off") : Children(x)' = Children(x) BY <1>6 DEF In
  <2> QED BY <1>2, <2>1 DEF Firm, OffChain
<1> QED BY <1>2, <1>7, <1>8 DEF Firm

-----------------------------------------------------------------------------
(* The specification *)

(* The script's function and the closure VM::Run is making. *)
LEMMA InitSound == ASSUME Init PROVE Firm
<1>1. PICK m \in Closures :
        /\ heap = [o \in Objects |-> IF o \in Compiled THEN "off" ELSE IF o = m THEN "new" ELSE "unused"]
        /\ refs = [o \in Objects |-> IF o = m THEN {Main} ELSE {}]
        /\ pending = [obj |-> m, pops |-> 1, slot |-> 0]
  BY DEF Init
<1>2. /\ stack = <<Main>> /\ frames = <<>> /\ open = [s \in Slots |-> Null] /\ global = Null
      /\ left = [s \in Slots |-> Null] /\ marked = {} /\ gray = {} /\ phase = "create"
  BY DEF Init
<1>3. m \in Objects /\ m \notin Compiled /\ Main \in Programs /\ Main \in Compiled /\ Compiled \subseteq Objects
      /\ m \notin UpValues /\ Programs \subseteq Compiled
  BY Kinds, ConstantsAssumption DEF Compiled, Objects
<1>4. \A o \in Objects : heap[o] = IF o \in Compiled THEN "off" ELSE IF o = m THEN "new" ELSE "unused" BY <1>1
<1>5. \A o \in Objects : refs[o] = IF o = m THEN {Main} ELSE {} BY <1>1
<1>6. In("off") = Compiled /\ In("chain") = {} BY <1>3, <1>4 DEF In
<1>7. Kept = Compiled BY <1>6 DEF Kept
<1>8. DOMAIN stack = {1} /\ stack[1] = Main BY <1>2
<1>9. Roots = {Main}
  <2>1. Range(stack) = {Main} BY <1>8 DEF Range
  <2>2. DOMAIN frames = {} BY <1>2
  <2>3. {frames[i].closure : i \in DOMAIN frames} = {} BY <2>2
  <2>4. OpenUpValues = {} BY <1>2 DEF OpenUpValues
  <2>5. Main # Null BY <1>3, Kinds
  <2> QED BY <1>2, <2>1, <2>3, <2>4, <2>5 DEF Roots
<1>10. \A o \in Compiled : Children(o) \subseteq Compiled BY <1>3, <1>5, ConstantsAssumption DEF Children
<1>11. Children(m) = {Main} BY <1>3, <1>5 DEF Children
<1>12. Shaped BY InitShape
<1>13. Closed BY <1>3, <1>7, <1>9, <1>10 DEF Closed
<1>14. OffChain BY <1>6, <1>10 DEF OffChain
<1>15. Anchored BY <1>1, <1>2, <1>3, <1>4, <1>9, <1>11 DEF Anchored, Making
<1>16. Marking BY <1>2 DEF Marking
<1>17. ~loose BY DEF Init
<1> QED BY <1>12, <1>13, <1>14, <1>15, <1>16, <1>17 DEF Firm

(* A step that changes nothing. *)
LEMMA StutterKeeps == ASSUME Firm, Shaped', ~loose', UNCHANGED vars PROVE Firm'
<1>1. UNCHANGED <<heap, refs, stack, frames, open, global, loose, marked, gray, phase, pending>> BY DEF vars
<1> QED BY <1>1 DEF Firm, Closed, OffChain, Anchored, Marking, Making, Kept, In, Roots,
           OpenUpValues, Children, NoPending

(* Every step keeps Firm. *)
LEMMA NextKeeps == ASSUME WellBehaved, Firm, ~loose', [Next]_vars PROVE Firm'
<1>0. Shaped' BY Unchanged, NextShape
<1>1. CASE MarkRootObjects BY <1>0, <1>1, MarkRootObjectsKeeps
<1>2. CASE MarkGrayObjects BY <1>0, <1>2, MarkGrayObjectsKeeps
<1>3. CASE Sweep BY <1>0, <1>3, SweepKeeps
<1>4. CASE \E o \in Objects : Link(o) \/ LinkUpValue(o) BY <1>0, <1>4, LinkKeeps, LinkUpValueKeeps
<1>5. CASE Load BY <1>0, <1>5, LoadKeeps
<1>6. CASE Pop BY <1>0, <1>6, PopKeeps
<1>7. CASE GetElement BY <1>0, <1>7, GetElementKeeps
<1>8. CASE SetGlobal BY <1>0, <1>8, SetGlobalKeeps
<1>9. CASE SetLocal BY <1>0, <1>9, SetLocalKeeps
<1>10. CASE SetUpValue BY <1>0, <1>10, SetUpValueKeeps
<1>11. CASE SetElement BY <1>0, <1>11, SetElementKeeps
<1>12. CASE \E n \in 1..MaxStack : \E last \in 0..n : ExitScope(n, last) BY <1>0, <1>12, ExitScopeKeeps
<1>13. CASE Capture BY <1>0, <1>13, CaptureKeeps
<1>14. CASE Inherit BY <1>0, <1>14, InheritKeeps
<1>15. CASE Ready BY <1>0, <1>15, ReadyKeeps
<1>16. CASE \E n \in 0..2 : MakeContainer(n)
  <2>1. PICK n \in 0..2 : MakeContainer(n) BY <1>16
  <2>2. n \in Nat OBVIOUS
  <2> QED BY <1>0, <2>1, <2>2, MakeContainerKeeps
<1>17. CASE MakeClosure BY <1>0, <1>17, MakeClosureKeeps
<1>18. CASE Bind BY <1>0, <1>18, BindKeeps
<1>19. CASE Return BY <1>0, <1>19, ReturnKeeps
<1>20. CASE \E argCount \in 0..MaxStack : Call(argCount) \/ CallPacked(argCount) \/ CallCached(argCount)
  <2>1. PICK argCount \in 0..MaxStack : Call(argCount) \/ CallPacked(argCount) \/ CallCached(argCount) BY <1>20
  <2>2. argCount \in Nat OBVIOUS
  <2> QED BY <1>0, <2>1, <2>2, CallKeeps, CallPackedKeeps, CallCachedKeeps
<1>21. CASE UNCHANGED vars BY <1>0, <1>21, StutterKeeps
<1> QED BY <1>1, <1>2, <1>3, <1>4, <1>5, <1>6, <1>7, <1>8, <1>9, <1>10, <1>11, <1>12, <1>13, <1>14, <1>15,
           <1>16, <1>17, <1>18, <1>19, <1>20, <1>21 DEF Next, Collector, Instruction

(* In a well-behaved program the inductive invariant holds throughout: all   *)
(* of it until a block leaves an upvalue open on what it pops, and Shaped    *)
(* from then on.                                                             *)
THEOREM AlwaysSound == WellBehaved /\ Spec => []Sound
<1>1. WellBehaved => []WellBehaved
  <2>1. WellBehaved => WellBehaved' BY DEF WellBehaved
  <2> QED BY <2>1, PTL
<1>2. Init => Sound BY InitSound DEF Firm, Sound
<1>3. WellBehaved /\ Sound /\ [Next]_vars => Sound'
  <2> SUFFICES ASSUME WellBehaved, Sound, [Next]_vars PROVE Sound' OBVIOUS
  <2>1. Shaped' BY NextShape DEF Sound
  <2>2. CASE loose' BY <2>1, <2>2 DEF Sound
  <2>3. CASE ~loose'
    <3>1. ~loose BY <2>3, LooseStays
    <3>2. Firm BY <3>1 DEF Sound, Firm
    <3> QED BY <2>3, <3>2, NextKeeps DEF Firm, Sound
  <2> QED BY <2>2, <2>3
<1> QED BY <1>1, <1>2, <1>3, PTL DEF Spec

(* What the roots reach is in the chain, off it, or the object that         *)
(* CreateObject is making: never freed.                                     *)
LEMMA FirmNeverDangles == ASSUME WellBehaved, Firm PROVE NoDangling
<1> DEFINE S == Kept \cup ({pending.obj} \ {Null})
<1>1. S \subseteq Objects
  <2>1. pending.obj \in Values BY DEF Firm, Shaped, TypeOK
  <2> QED BY <2>1, Places DEF Values
<1>2. Held \subseteq S
  <2>1. \A s \in Slots : left[s] = Null
    <3> TAKE s \in Slots
    <3>1. ~(open[s] # Null /\ s > Len(stack)) BY Unchanged, Parts DEF Firm, Slots
    <3> QED BY <3>1, Unchanged DEF Shaped, LeftOpen
  <2>2. Range(left) \subseteq {Null} BY <2>1, Unchanged, Parts DEF Range
  <2> QED BY <2>2 DEF Held, Firm, Closed
<1>3. \A p \in S : Children(p) \subseteq S
  <2>1. \A p \in Kept : Children(p) \subseteq Kept BY DEF Firm, Closed
  <2>2. pending.obj # Null => Children(pending.obj) \subseteq Kept
    <3>1. CASE Making BY <3>1 DEF Firm, Anchored, Closed
    <3>2. CASE ~Making BY <3>2 DEF Firm, Anchored, NoPending
    <3> QED BY <3>1, <3>2
  <2> QED BY <2>1, <2>2
<1>4. Reachable(Held) \subseteq S BY <1>1, <1>2, <1>3 DEF Reachable
<1>5. Kept \cap In("freed") = {} BY DEF Kept, In
<1>6. pending.obj # Null => pending.obj \notin In("freed")
  <2>1. CASE Making BY <2>1 DEF Firm, Anchored, In
  <2>2. CASE ~Making BY <2>2 DEF Firm, Anchored, NoPending
  <2> QED BY <2>1, <2>2
<1> QED BY <1>4, <1>5, <1>6 DEF NoDangling

(* Allocator::GC keeps its promise to VM::Execute, whatever the sizes: a     *)
(* well-behaved program never gets to an object that Sweep has freed, at     *)
(* whichever calls of CreateObject the collector runs.                       *)
THEOREM NeverDangling == WellBehaved /\ Spec => []NoDangling
<1>1. WellBehaved => []WellBehaved
  <2>1. WellBehaved => WellBehaved' BY DEF WellBehaved
  <2> QED BY <2>1, PTL
<1>2. WellBehaved /\ Sound => NoDangling
  <2> SUFFICES ASSUME WellBehaved, Sound, ~loose PROVE NoDangling BY DEF NoDangling
  <2>1. Firm BY DEF Firm, Sound
  <2> QED BY <2>1, FirmNeverDangles
<1> QED BY <1>1, <1>2, AlwaysSound, PTL
=============================================================================

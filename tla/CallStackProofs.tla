--------------------------- MODULE CallStackProofs ---------------------------
(* Proofs about CallStack, for a stack of any size and any set of functions: *)
(* the type invariant, for every program; and for well-typed programs, that  *)
(* no instruction takes operands that are not its own, whatever it calls.    *)
EXTENDS CallStack, SequenceTheorems, TLAPS

-----------------------------------------------------------------------------
(* Type correctness, of every program *)

Started ==
  /\ TypeOK
  /\ status = "idle" => top = 0
  /\ status = "running" => frames # <<>>

(* The frame that runs is a frame, and lies inside the stack. *)
LEMMA CurrentFrame ==
  ASSUME Started, status = "running"
  PROVE  /\ top \in 0..StackMax /\ frames \in Seq(Frame)
         /\ Len(frames) \in Nat \ {0}
         /\ Current \in Frame /\ Current.fn \in Callables
         /\ Current.slots \in 0..(StackMax - 1) /\ Current.depth \in Nat
<1>1. frames \in Seq(Frame) /\ frames # <<>> /\ top \in 0..StackMax BY DEF Started, TypeOK
<1>2. Len(frames) \in Nat \ {0} BY <1>1, EmptySeq
<1>3. Current \in Frame BY <1>1, <1>2, ElementOfSeq DEF Current
<1> QED BY <1>1, <1>2, <1>3 DEF Frame

(* Recounted gives the frame that runs another count and leaves the rest      *)
(* alone.                                                                     *)
LEMMA Recounting ==
  ASSUME Started, status = "running", NEW d \in Nat
  PROVE  /\ Recounted(d) \in Seq(Frame) /\ Recounted(d) # <<>>
         /\ Len(Recounted(d)) = Len(frames)
         /\ Recounted(d)[Len(frames)].slots = Current.slots
         /\ Recounted(d)[Len(frames)].depth = d
         /\ \A i \in 1..(Len(frames) - 1) : Recounted(d)[i] = frames[i]
<1> DEFINE n == Len(frames)
           t == Recounted(d)
<1>1. frames \in Seq(Frame) /\ n \in 1..n BY CurrentFrame
<1>2. [Current EXCEPT !.depth = d] \in Frame BY CurrentFrame DEF Frame
<1>3. t = [frames EXCEPT ![n] = [Current EXCEPT !.depth = d]] BY DEF Recounted, Current
<1>4. t \in Seq(Frame) /\ Len(t) = n BY <1>1, <1>2, <1>3, ExceptSeq
<1>5. t[n] = [Current EXCEPT !.depth = d] BY <1>1, <1>3, LenProperties
<1>6. \A i \in 1..(n - 1) : t[i] = frames[i] BY <1>1, <1>3, LenProperties
<1>7. t # <<>> BY <1>1, <1>4, EmptySeq
<1> QED BY <1>4, <1>5, <1>6, <1>7, CurrentFrame DEF Frame

(* An error keeps types. *)
LEMMA HaltTyped ==
  ASSUME Started, status # "overrun", NEW error \in Errors \ {"overrun"}, Halt(error)
  PROVE  Started'
BY DEF Started, TypeOK, Halt, Errors

(* Nor does a push past the end, of a build that tests it or of one that does *)
(* not.                                                                       *)
LEMMA PastTyped ==
  ASSUME Started, status = "running", NEW height \in Nat, PushPast(height)
  PROVE  Started'
BY HaltTyped DEF PushPast, Started, TypeOK, Errors

(* A step that changes the height of the stack and the depth of the frame. *)
LEMMA DepthTyped ==
  ASSUME Started, status = "running", NEW d \in Nat,
         top' \in 0..StackMax,
         frames' = Recounted(d),
         UNCHANGED <<cached, status>>
  PROVE  Started'
<1>1. frames' \in Seq(Frame) /\ frames' # <<>> BY Recounting
<1> QED BY <1>1 DEF Started, TypeOK

(* So does an instruction that pops and pushes, *)
LEMMA EffectTyped ==
  ASSUME Started,
         NEW pops \in Nat, NEW pushes \in Nat, NEW expected \in Nat,
         NEW short \in Errors \ {"overrun"}, Effect(pops, pushes, expected, short)
  PROVE  Started'
<1>1. status = "running" BY DEF Effect, Operands
<1>2. CASE Halt(short) BY <1>1, <1>2, HaltTyped
<1>3. CASE top >= pops /\ PushPast((top - pops) + pushes)
  <2>1. (top - pops) + pushes \in Nat BY <1>1, <1>3, CurrentFrame
  <2> QED BY <1>1, <1>3, <2>1, PastTyped
<1>4. CASE /\ top >= pops /\ (top - pops) + pushes <= StackMax
           /\ top' = (top - pops) + pushes
           /\ frames' = Recounted((Current.depth - pops) + expected)
           /\ UNCHANGED <<cached, status>>
  <2>1. top' \in 0..StackMax BY <1>1, <1>4, CurrentFrame, ConstantsAssumption
  <2>2. (Current.depth - pops) + expected \in Nat
    BY <1>1, CurrentFrame DEF Effect, Operands
  <2> QED BY <1>1, <1>4, <2>1, <2>2, DepthTyped
<1> QED BY <1>2, <1>3, <1>4 DEF Effect

(* ... each instruction that is one of these, *)
LEMMA InstructionTyped ==
  ASSUME Started, Instruction
  PROVE  Started'
<1> USE EffectTyped DEF Popped, Moved, Underflow, Errors
<1>1. CASE LoadConstant \/ LoadVariable \/ CloseUpValue \/ Addition \/ Arithmetic \/ Pop
  BY <1>1 DEF LoadConstant, LoadVariable, CloseUpValue, Addition, Arithmetic, Pop
<1>2. CASE MakeRef \/ MakeIndexedRef \/ MakeClosure
  BY <1>2 DEF MakeRef, MakeIndexedRef, MakeClosure
<1>3. CASE SetIndex \/ GetProperty \/ SetProperty \/ GetBase
  BY <1>3 DEF SetIndex, GetProperty, SetProperty, GetBase
<1>4. CASE GetIndex
  BY <1>4 DEF GetIndex
<1>5. CASE \E n \in 0..MaxCount :
             MakeArray(n) \/ MakeDict(n) \/ MakeStruct(n) \/ MakeModule(n) \/ Reset(n)
  BY <1>5, ConstantsAssumption DEF MakeArray, MakeDict, MakeStruct, MakeModule, Reset
<1>6. CASE \E ctors, pairs \in 0..MaxCount : MakeClass(ctors, pairs)
  BY <1>6, ConstantsAssumption DEF MakeClass
<1>7. CASE \E count \in PatternSizes : Resolve(count) \/ ResolveVarArg(count)
  BY <1>7, ConstantsAssumption DEF Resolve, ResolveVarArg
<1>8. CASE \E locals \in 1..MaxLocals : LeaveBlock(locals)
  <2>1. PICK locals \in 1..MaxLocals : LeaveBlock(locals) BY <1>8
  <2>2. status = "running" /\ locals \in Nat /\ top' = top
    BY <2>1, ConstantsAssumption DEF LeaveBlock, Operands
  <2>3. Current.depth - locals \in Nat BY <2>1, <2>2, CurrentFrame DEF LeaveBlock, Operands
  <2> QED BY <2>1, <2>2, <2>3, CurrentFrame, DepthTyped DEF LeaveBlock
<1>9. CASE RuntimeError
  BY <1>9, HaltTyped DEF RuntimeError
<1> QED BY <1>1, <1>2, <1>3, <1>4, <1>5, <1>6, <1>7, <1>8, <1>9 DEF Instruction

(* Packing the surplus arguments of a variadic call moves the top and the    *)
(* number of arguments by as much, and leaves a slot for every parameter.    *)
LEMMA Packing ==
  ASSUME top \in Nat, NEW f \in Functions, NEW argCount \in Nat,
         top > argCount, Accepts(f, argCount)
  PROVE  /\ Parameters(f) \in Nat /\ PackedCount(f, argCount) \in Nat
         /\ PackedCount(f, argCount) >= Parameters(f)
         /\ PackedTop(f, argCount) \in Nat
         /\ PackedTop(f, argCount) - PackedCount(f, argCount) = top - argCount
<1> DEFINE n == Arity[f]
<1>1. n \in Nat /\ VarArg[f] \in {"NONE", "WITH_NAME", "WITHOUT_NAME"}
      /\ (VarArg[f] # "NONE" => n > 0)
  BY ConstantsAssumption
<1>2. CASE VarArg[f] = "NONE"
  BY <1>1, <1>2 DEF Accepts, Parameters, PackedCount, PackedTop
<1>3. CASE VarArg[f] = "WITH_NAME"
  BY <1>1, <1>3 DEF Accepts, Parameters, PackedCount, PackedTop, Surplus
<1>4. CASE VarArg[f] = "WITHOUT_NAME"
  BY <1>1, <1>4 DEF Accepts, Parameters, PackedCount, PackedTop, Surplus
<1> QED BY <1>1, <1>2, <1>3, <1>4

(* The frames after a call, and those below the new one. *)
LEMMA FramesCalled ==
  ASSUME Started, status = "running", NEW argCount \in Nat, Current.depth > argCount,
         NEW f \in Functions, Parameters(f) \in Nat, NEW slots \in 0..(StackMax - 1)
  PROVE  LET t == Append(Suspended(argCount), NewFrame(f, slots))
         IN  /\ t \in Seq(Frame) /\ t # <<>> /\ Len(t) = Len(frames) + 1
             /\ t[Len(frames) + 1].slots = slots
             /\ t[Len(frames) + 1].depth = 1 + Parameters(f)
             /\ t[Len(frames)].slots = Current.slots
             /\ t[Len(frames)].depth = Current.depth - argCount
             /\ \A i \in 1..(Len(frames) - 1) : t[i] = frames[i]
<1> DEFINE s == Suspended(argCount)
           new == NewFrame(f, slots)
           t == Append(s, new)
<1>1. Current.depth - argCount \in Nat BY CurrentFrame
<1>2. /\ s \in Seq(Frame) /\ Len(s) = Len(frames)
      /\ s[Len(frames)].slots = Current.slots
      /\ s[Len(frames)].depth = Current.depth - argCount
      /\ \A i \in 1..(Len(frames) - 1) : s[i] = frames[i]
  BY <1>1, Recounting DEF Suspended
<1>3. new \in Frame /\ new.slots = slots /\ new.depth = 1 + Parameters(f)
  BY DEF NewFrame, Frame, Callables
<1> HIDE DEF s, new
<1>4. /\ t \in Seq(Frame) /\ t # <<>> /\ Len(t) = Len(s) + 1
      /\ \A i \in 1..Len(s) : t[i] = s[i]
      /\ t[Len(s) + 1] = new
  BY <1>2, <1>3, AppendProperties
<1> HIDE DEF t
<1>5. /\ t[Len(frames)] = s[Len(frames)]
      /\ \A i \in 1..(Len(frames) - 1) : t[i] = s[i]
  <2>1. Len(frames) \in Nat \ {0} BY CurrentFrame
  <2>2. Len(frames) \in 1..Len(s) /\ \A i \in 1..(Len(frames) - 1) : i \in 1..Len(s) BY <1>2, <2>1
  <2> QED BY <1>4, <2>2
<1> QED BY <1>2, <1>3, <1>4, <1>5 DEF t, s, new

(* ... the frame of a call, *)
LEMMA PushTyped ==
  ASSUME Started, status = "running",
         NEW argCount \in Nat, Current.depth > argCount,
         NEW f \in Functions, Parameters(f) \in Nat, NEW slots \in 0..(StackMax - 1),
         top' \in 0..StackMax, PushCallFrame(f, slots, argCount)
  PROVE  Started'
<1>1. CASE status' = "corrupt" /\ UNCHANGED <<frames, cached>>
  BY <1>1 DEF Started, TypeOK, Errors
<1>2. CASE /\ frames' = Append(Suspended(argCount), NewFrame(f, slots))
           /\ UNCHANGED <<cached, status>>
  <2>1. frames' \in Seq(Frame) /\ frames' # <<>> BY <1>2, FramesCalled
  <2> QED BY <1>2, <2>1 DEF Started, TypeOK
<1> QED BY <1>1, <1>2 DEF PushCallFrame

(* The frames after a return: the caller is as the call left it. *)
LEMMA FramesReturned ==
  ASSUME Started, status = "running", NEW t, t = SubSeq(frames, 1, Len(frames) - 1)
  PROVE  /\ t \in Seq(Frame) /\ Len(t) = Len(frames) - 1
         /\ \A i \in 1..(Len(frames) - 1) : t[i] = frames[i]
<1>1. frames \in Seq(Frame) /\ Len(frames) \in Nat \ {0} BY CurrentFrame
<1> DEFINE n == Len(frames) - 1
<1>2. n \in Nat /\ \A i \in 1..n : frames[i] \in Frame BY <1>1, ElementOfSeq
<1>3. /\ SubSeq(frames, 1, n) \in Seq(Frame)
      /\ Len(SubSeq(frames, 1, n)) = IF 1 <= n THEN n - 1 + 1 ELSE 0
      /\ \A i \in 1..(n - 1 + 1) : SubSeq(frames, 1, n)[i] = frames[1 + i - 1]
  <2> HIDE DEF n
  <2> QED BY <1>2, SubSeqProperties
<1>4. t = SubSeq(frames, 1, n) OBVIOUS
<1> HIDE DEF n
<1>5. Len(t) = n /\ \A i \in 1..n : t[i] = frames[i] BY <1>2, <1>3, <1>4
<1> QED BY <1>3, <1>4, <1>5 DEF n

(* ... each kind of call, *)
LEMMA CallTyped ==
  ASSUME Started, Call
  PROVE  Started'
<1>1. PICK argCount \in 0..MaxArgs :
        \/ CallNative(argCount) \/ CallCorrupt(argCount)
        \/ \E f \in Functions \ Constructors :
             CallClosure(f, argCount) \/ CallCached(f, argCount) \/ CallRefused(f, argCount)
        \/ \E f \in Constructors : CallConstructor(f, argCount)
  BY DEF Call
<1>2. argCount \in Nat BY ConstantsAssumption
<1>3. Constructors \subseteq Functions BY ConstantsAssumption
<1>4. CASE CallNative(argCount)
  BY <1>2, <1>4, EffectTyped DEF CallNative, Moved, Errors
<1>5. CASE CallCorrupt(argCount)
  BY <1>5, HaltTyped DEF CallCorrupt, Operands, Errors
<1>6. ASSUME NEW f \in Functions, CallRefused(f, argCount) PROVE Started'
  <2>1. status = "running" /\ top > argCount BY <1>6 DEF CallRefused, Callee, Operands
  <2>2. CASE Halt("error") BY <2>1, <2>2, HaltTyped DEF Errors
  <2>3. CASE Accepts(f, argCount) /\ PushPast(PackedTop(f, argCount))
    <3>1. PackedTop(f, argCount) \in Nat BY <1>2, <2>1, <2>3, CurrentFrame, Packing
    <3> QED BY <2>1, <2>3, <3>1, PastTyped
  <2> QED BY <1>6, <2>2, <2>3 DEF CallRefused
<1>7. ASSUME NEW f \in Functions, CallClosure(f, argCount) PROVE Started'
  <2>1. status = "running" /\ top > argCount /\ Accepts(f, argCount)
        /\ Current.depth > argCount + 1
    BY <1>7 DEF CallClosure, Callee, Operands
  <2>2. top \in 0..StackMax /\ Current.depth \in Nat /\ StackMax \in Nat
    BY <2>1, CurrentFrame, ConstantsAssumption
  <2>3. /\ Parameters(f) \in Nat
        /\ PackedTop(f, argCount) \in Nat
        /\ PackedTop(f, argCount) - PackedCount(f, argCount) = top - argCount
    BY <1>2, <2>1, <2>2, Packing
  <2>4. top' \in 0..StackMax BY <1>7, <2>2, <2>3 DEF CallClosure
  <2>5. PushCallFrame(f, top - argCount - 1, argCount)
    BY <1>7, <2>3 DEF CallClosure
  <2>6. top - argCount - 1 \in 0..(StackMax - 1) /\ Current.depth > argCount
    BY <1>2, <2>1, <2>2
  <2> QED BY <1>2, <2>1, <2>3, <2>4, <2>5, <2>6, PushTyped
<1>8. ASSUME NEW f \in Functions, CallCached(f, argCount) PROVE Started'
  <2>1. status = "running" /\ top > argCount /\ Accepts(f, argCount)
        /\ Current.depth > argCount + 1
    BY <1>8 DEF CallCached, Callee, Operands
  <2>2. top \in 0..StackMax /\ Current.depth \in Nat /\ StackMax \in Nat
    BY <2>1, CurrentFrame, ConstantsAssumption
  <2>3. top' = top - argCount BY <1>2, <1>8, <2>1, <2>2, Packing DEF CallCached
  <2>4. top' \in 0..StackMax /\ Current.depth - argCount \in Nat
    BY <1>2, <2>1, <2>2, <2>3
  <2>5. frames' = Recounted(Current.depth - argCount) /\ UNCHANGED <<cached, status>>
    BY <1>8 DEF CallCached, Suspended
  <2> QED BY <2>1, <2>4, <2>5, DepthTyped
<1>9. ASSUME NEW f \in Constructors, CallConstructor(f, argCount) PROVE Started'
  <2>1. status = "running" /\ top > argCount /\ Current.depth > argCount + 1
        /\ top' = top
    BY <1>9 DEF CallConstructor, Callee, Operands
  <2>2. top \in 0..StackMax /\ Current.depth \in Nat BY <2>1, CurrentFrame
  <2>3. f \in Functions /\ Parameters(f) \in Nat
    BY <1>3, ConstantsAssumption DEF Parameters
  <2>4. /\ top' \in 0..StackMax /\ Current.depth > argCount
        /\ top - argCount - 1 \in 0..(StackMax - 1)
    BY <1>2, <2>1, <2>2, ConstantsAssumption
  <2> QED BY <1>2, <1>9, <2>1, <2>3, <2>4, PushTyped DEF CallConstructor
<1> QED BY <1>1, <1>3, <1>4, <1>5, <1>6, <1>7, <1>8, <1>9

(* ... the return from one, *)
LEMMA ReturnTyped ==
  ASSUME Started, NEW retCount \in {0, 1}, Return(retCount)
  PROVE  Started'
<1>1. status = "running" BY DEF Return, Operands
<1>2. frames' \in Seq(Frame) /\ Len(frames') = Len(frames) - 1
  BY <1>1, FramesReturned DEF Return
<1>3. top' \in 0..StackMax BY <1>1, CurrentFrame, ConstantsAssumption DEF Return
<1>4. cached' \subseteq Callables BY <1>1, CurrentFrame DEF Return, Started, TypeOK
<1>5. status' \in {"returned", "running"} BY DEF Return
<1>6. status' = "running" => frames' # <<>>
  <2>1. Len(frames) = 1 \/ Len(frames') # 0 BY <1>1, <1>2, CurrentFrame
  <2> QED BY <2>1, EmptySeq DEF Return
<1> QED BY <1>2, <1>3, <1>4, <1>5, <1>6 DEF Started, TypeOK

(* ... and every step. *)
LEMMA StepTyped ==
  ASSUME Started, [Next]_vars
  PROVE  Started'
<1>1. CASE Start
  <2> DEFINE main == [fn |-> Main, slots |-> top, depth |-> 1]
  <2>1. top' \in 0..StackMax /\ main \in Frame
    BY <1>1, ConstantsAssumption DEF Start, Started, Frame, Callables
  <2> QED BY <1>1, <2>1 DEF Start, Started, TypeOK
<1>2. CASE Finish
  <2>1. CASE Halt(IF StackChecks THEN "occupied" ELSE "corrupt")
    BY <1>2, <2>1, HaltTyped DEF Finish, Errors
  <2>2. CASE top' = 0 /\ status' = "idle" /\ UNCHANGED <<frames, cached>>
    BY <2>2, ConstantsAssumption DEF Started, TypeOK
  <2> QED BY <1>2, <2>1, <2>2 DEF Finish
<1>3. CASE Instruction BY <1>3, InstructionTyped
<1>4. CASE Call BY <1>4, CallTyped
<1>5. CASE \E retCount \in {0, 1} : Return(retCount) BY <1>5, ReturnTyped
<1>6. CASE UNCHANGED vars BY <1>6 DEF vars, Started, TypeOK
<1> QED BY <1>1, <1>2, <1>3, <1>4, <1>5, <1>6 DEF Next

(* Whatever the program, the slots of every frame lie within the value stack; *)
(* and so does the top of the stack, up to the push behind its end that only  *)
(* a build without the tests of PushStack lets through.                       *)
THEOREM TypeCorrect == Spec => []TypeOK
<1>1. Init => Started
  BY ConstantsAssumption DEF Init, Started, TypeOK, Errors
<1>2. Started /\ [Next]_vars => Started' BY StepTyped
<1>3. Started => TypeOK BY DEF Started
<1> QED BY <1>1, <1>2, <1>3, PTL DEF Spec

-----------------------------------------------------------------------------
(* What a script leaves behind, of every program *)

(* The frames may have lost or left values, but the first of them starts at  *)
(* the bottom of the stack, where the last `return' puts its result.         *)
Bottomed ==
  /\ Started
  /\ OneResult
  /\ status = "running" => frames[1].slots = 0

(* An error leaves the frames alone. *)
LEMMA HaltBottomed ==
  ASSUME Bottomed, status # "overrun", NEW error \in Errors \ {"overrun"}, Halt(error)
  PROVE  Bottomed'
<1>1. status' \notin {"running", "returned"} BY DEF Halt, Errors
<1> QED BY <1>1, HaltTyped DEF Bottomed, OneResult

(* So does a value written behind the stack, *)
LEMMA PastBottomed ==
  ASSUME Bottomed, status = "running", NEW height \in Nat, PushPast(height)
  PROVE  Bottomed'
<1>1. Started' BY PastTyped DEF Bottomed
<1>2. status' \notin {"running", "returned"} BY DEF PushPast, Halt
<1> QED BY <1>1, <1>2 DEF Bottomed, OneResult

(* ... another count, *)
LEMMA DepthBottomed ==
  ASSUME Bottomed, status = "running", NEW d \in Nat,
         frames' = Recounted(d), status' = status, Started'
  PROVE  Bottomed'
<1>1. Started /\ frames[1].slots = 0 BY DEF Bottomed
<1>2. Len(frames) \in Nat \ {0} BY <1>1, CurrentFrame
<1>3. Len(frames) = 1 \/ 1 \in 1..(Len(frames) - 1) BY <1>2
<1>4. frames'[1].slots = 0 BY <1>1, <1>3, Recounting DEF Current
<1> QED BY <1>4 DEF Bottomed, OneResult

(* ... an instruction that pops and pushes, *)
LEMMA EffectBottomed ==
  ASSUME Bottomed,
         NEW pops \in Nat, NEW pushes \in Nat, NEW expected \in Nat,
         NEW short \in Errors \ {"overrun"}, Effect(pops, pushes, expected, short)
  PROVE  Bottomed'
<1>1. Started /\ status = "running" BY DEF Bottomed, Effect, Operands
<1>2. Started' BY <1>1, EffectTyped
<1>3. CASE Halt(short) BY <1>1, <1>3, HaltBottomed
<1>4. CASE top >= pops /\ PushPast((top - pops) + pushes)
  <2>1. (top - pops) + pushes \in Nat BY <1>1, <1>4, CurrentFrame
  <2> QED BY <1>1, <1>4, <2>1, PastBottomed
<1>5. CASE /\ frames' = Recounted((Current.depth - pops) + expected)
           /\ UNCHANGED <<cached, status>>
  <2>1. (Current.depth - pops) + expected \in Nat
    BY <1>1, CurrentFrame DEF Effect, Operands
  <2> QED BY <1>1, <1>2, <1>5, <2>1, DepthBottomed
<1> QED BY <1>3, <1>4, <1>5 DEF Effect

(* ... and each that is one of these. *)
LEMMA InstructionBottomed ==
  ASSUME Bottomed, Instruction
  PROVE  Bottomed'
<1> USE EffectBottomed DEF Popped, Moved, Underflow, Errors
<1>1. CASE LoadConstant \/ LoadVariable \/ CloseUpValue \/ Addition \/ Arithmetic \/ Pop
  BY <1>1 DEF LoadConstant, LoadVariable, CloseUpValue, Addition, Arithmetic, Pop
<1>2. CASE MakeRef \/ MakeIndexedRef \/ MakeClosure
  BY <1>2 DEF MakeRef, MakeIndexedRef, MakeClosure
<1>3. CASE SetIndex \/ GetProperty \/ SetProperty \/ GetBase
  BY <1>3 DEF SetIndex, GetProperty, SetProperty, GetBase
<1>4. CASE GetIndex
  BY <1>4 DEF GetIndex
<1>5. CASE \E n \in 0..MaxCount :
             MakeArray(n) \/ MakeDict(n) \/ MakeStruct(n) \/ MakeModule(n) \/ Reset(n)
  BY <1>5, ConstantsAssumption DEF MakeArray, MakeDict, MakeStruct, MakeModule, Reset
<1>6. CASE \E ctors, pairs \in 0..MaxCount : MakeClass(ctors, pairs)
  BY <1>6, ConstantsAssumption DEF MakeClass
<1>7. CASE \E count \in PatternSizes : Resolve(count) \/ ResolveVarArg(count)
  BY <1>7, ConstantsAssumption DEF Resolve, ResolveVarArg
<1>8. CASE \E locals \in 1..MaxLocals : LeaveBlock(locals)
  <2>1. PICK locals \in 1..MaxLocals : LeaveBlock(locals) BY <1>8
  <2>2. Started /\ status = "running" /\ locals \in Nat
    BY <2>1, ConstantsAssumption DEF LeaveBlock, Operands, Bottomed
  <2>3. Current.depth - locals \in Nat BY <2>1, <2>2, CurrentFrame DEF LeaveBlock, Operands
  <2>4. Started' BY <2>2, InstructionTyped
  <2> QED BY <2>1, <2>2, <2>3, <2>4, DepthBottomed DEF LeaveBlock
<1>9. CASE RuntimeError
  BY <1>9, HaltBottomed DEF RuntimeError
<1> QED BY <1>1, <1>2, <1>3, <1>4, <1>5, <1>6, <1>7, <1>8, <1>9 DEF Instruction

(* A new frame is not the lowest one, *)
LEMMA PushBottomed ==
  ASSUME Bottomed, status = "running",
         NEW argCount \in Nat, Current.depth > argCount,
         NEW f \in Functions, Parameters(f) \in Nat, NEW slots \in 0..(StackMax - 1),
         PushCallFrame(f, slots, argCount), Started'
  PROVE  Bottomed'
<1> DEFINE n == Len(frames)
           t == Append(Suspended(argCount), NewFrame(f, slots))
<1>1. Started /\ frames[1].slots = 0 BY DEF Bottomed
<1>2. n \in Nat \ {0} BY <1>1, CurrentFrame
<1>3. t[n].slots = Current.slots /\ \A i \in 1..(n - 1) : t[i] = frames[i]
  BY <1>1, FramesCalled
<1>4. n = 1 \/ 1 \in 1..(n - 1)
  <2> HIDE DEF n
  <2> QED BY <1>2
<1>5. t[1].slots = 0 BY <1>1, <1>3, <1>4 DEF Current
<1>6. CASE status' = "corrupt" /\ UNCHANGED <<frames, cached>>
  BY <1>6 DEF Bottomed, OneResult
<1>7. CASE frames' = t /\ UNCHANGED <<cached, status>>
  BY <1>5, <1>7 DEF Bottomed, OneResult
<1> QED BY <1>6, <1>7 DEF PushCallFrame

(* ... whatever is called, *)
LEMMA CallBottomed ==
  ASSUME Bottomed, Call
  PROVE  Bottomed'
<1>1. PICK argCount \in 0..MaxArgs :
        \/ CallNative(argCount) \/ CallCorrupt(argCount)
        \/ \E f \in Functions \ Constructors :
             CallClosure(f, argCount) \/ CallCached(f, argCount) \/ CallRefused(f, argCount)
        \/ \E f \in Constructors : CallConstructor(f, argCount)
  BY DEF Call
<1>2. argCount \in Nat /\ Started BY ConstantsAssumption DEF Bottomed
<1>3. status = "running" /\ Current.depth > argCount + 1
  BY <1>1 DEF CallNative, CallCorrupt, CallClosure, CallCached, CallRefused,
              CallConstructor, Callee, Operands
<1>4. /\ top \in 0..StackMax /\ Current.depth \in Nat /\ StackMax \in Nat
      /\ Current.depth - argCount \in Nat /\ Current.depth > argCount
  BY <1>2, <1>3, CurrentFrame, ConstantsAssumption
<1>5. Started' BY <1>2, CallTyped
<1>6. ASSUME top > argCount, NEW f \in Functions, Parameters(f) \in Nat,
             PushCallFrame(f, top - argCount - 1, argCount)
      PROVE  Bottomed'
  <2>1. top - argCount - 1 \in 0..(StackMax - 1) BY <1>2, <1>4, <1>6
  <2> QED BY <1>2, <1>3, <1>4, <1>5, <1>6, <2>1, PushBottomed
<1>7. CASE CallNative(argCount)
  BY <1>2, <1>7, EffectBottomed DEF CallNative, Moved, Errors
<1>8. CASE CallCorrupt(argCount)
  BY <1>3, <1>8, HaltBottomed DEF CallCorrupt, Errors
<1>9. ASSUME NEW f \in Functions, CallRefused(f, argCount) PROVE Bottomed'
  <2>1. CASE Halt("error") BY <1>3, <2>1, HaltBottomed DEF Errors
  <2>2. CASE Accepts(f, argCount) /\ PushPast(PackedTop(f, argCount))
    <3>1. top > argCount BY <1>9 DEF CallRefused, Callee
    <3>2. PackedTop(f, argCount) \in Nat BY <1>2, <1>4, <2>2, <3>1, Packing
    <3> QED BY <1>3, <2>2, <3>2, PastBottomed
  <2> QED BY <1>9, <2>1, <2>2 DEF CallRefused
<1>10. ASSUME NEW f \in Functions, CallClosure(f, argCount) PROVE Bottomed'
  <2>1. top > argCount /\ Accepts(f, argCount) BY <1>10 DEF CallClosure, Callee
  <2>2. /\ Parameters(f) \in Nat
        /\ PackedTop(f, argCount) - PackedCount(f, argCount) = top - argCount
    BY <1>2, <1>4, <2>1, Packing
  <2>3. PushCallFrame(f, top - argCount - 1, argCount)
    BY <1>10, <2>2 DEF CallClosure
  <2> QED BY <1>6, <2>1, <2>2, <2>3
<1>11. ASSUME NEW f \in Functions, CallCached(f, argCount) PROVE Bottomed'
  <2>1. frames' = Recounted(Current.depth - argCount) /\ status' = status
    BY <1>11 DEF CallCached, Suspended
  <2> QED BY <1>3, <1>4, <1>5, <2>1, DepthBottomed
<1>12. ASSUME NEW f \in Constructors, CallConstructor(f, argCount) PROVE Bottomed'
  <2>1. f \in Functions /\ Parameters(f) \in Nat BY ConstantsAssumption DEF Parameters
  <2> QED BY <1>6, <1>12, <2>1 DEF CallConstructor, Callee
<1>13. Constructors \subseteq Functions BY ConstantsAssumption
<1> QED BY <1>1, <1>7, <1>8, <1>9, <1>10, <1>11, <1>12, <1>13

(* ... the last one takes the stack down to its one result, *)
LEMMA ReturnBottomed ==
  ASSUME Bottomed, NEW retCount \in {0, 1}, Return(retCount)
  PROVE  Bottomed'
<1> DEFINE n == Len(frames)
<1>1. /\ status = "running" /\ top' = Current.slots + 1
      /\ frames' = SubSeq(frames, 1, n - 1)
      /\ status' = IF n = 1 THEN "returned" ELSE "running"
  BY DEF Return, Operands
<1>2. Started /\ frames[1].slots = 0 BY <1>1 DEF Bottomed
<1>3. n \in Nat \ {0} BY <1>1, <1>2, CurrentFrame
<1>4. /\ frames' \in Seq(Frame) /\ Len(frames') = n - 1
      /\ \A i \in 1..(n - 1) : frames'[i] = frames[i]
  BY <1>1, <1>2, FramesReturned
<1>5. Started' BY <1>2, ReturnTyped
<1>6. CASE n = 1
  <2>1. frames' = <<>> BY <1>4, <1>6, EmptySeq
  <2>2. top' = 1 BY <1>1, <1>2, <1>6 DEF Current
  <2> QED BY <1>1, <1>5, <1>6, <2>1, <2>2 DEF Bottomed, OneResult
<1>7. CASE n # 1
  <2>1. 1 \in 1..(n - 1) BY <1>3, <1>7
  <2>2. frames'[1].slots = 0 BY <1>2, <1>4, <2>1
  <2> QED BY <1>1, <1>5, <1>7, <2>2 DEF Bottomed, OneResult
<1> QED BY <1>6, <1>7

(* ... and no step does otherwise. *)
LEMMA StepBottomed ==
  ASSUME Bottomed, [Next]_vars
  PROVE  Bottomed'
<1>1. Started' BY StepTyped DEF Bottomed
<1>2. CASE Start
  <2>1. top = 0 BY <1>2 DEF Start, Bottomed, Started
  <2> QED BY <1>1, <1>2, <2>1 DEF Start, Bottomed, OneResult
<1>3. CASE Finish
  <2>1. status' \in {"idle", "occupied", "corrupt"} BY <1>3 DEF Finish, Halt
  <2> QED BY <1>1, <2>1 DEF Bottomed, OneResult
<1>4. CASE Instruction BY <1>4, InstructionBottomed
<1>5. CASE Call BY <1>5, CallBottomed
<1>6. CASE \E retCount \in {0, 1} : Return(retCount) BY <1>6, ReturnBottomed
<1>7. CASE UNCHANGED vars BY <1>1, <1>7 DEF vars, Bottomed, OneResult
<1> QED BY <1>2, <1>3, <1>4, <1>5, <1>6, <1>7 DEF Next

(* Whatever values a program loses or leaves behind, the end of its script   *)
(* finds exactly one value on the stack: VM::Run never pops another one, and *)
(* never starts the next script on top of a leftover.                        *)
THEOREM AlwaysOneResult == Spec => []OneResult
<1>1. Init => Bottomed
  BY ConstantsAssumption DEF Init, Bottomed, OneResult, Started, TypeOK, Errors
<1>2. Bottomed /\ [Next]_vars => Bottomed' BY StepBottomed
<1>3. Bottomed => OneResult BY DEF Bottomed
<1> QED BY <1>1, <1>2, <1>3, PTL DEF Spec

-----------------------------------------------------------------------------
(* The operands of a well-typed program *)

(* What is true of the types, by itself. *)
LEMMA DisciplineTyped == Discipline => Started
BY DEF Discipline, Started, OperandsPresent

(* What Discipline says of the frames while the program runs. *)
LEMMA Running ==
  ASSUME Discipline, status = "running"
  PROVE  /\ Len(frames) \in Nat \ {0} /\ top >= Current.slots + Current.depth
         /\ Current.slots \in Nat /\ Current.slots >= Len(frames) - 1
         /\ Current.depth \in Nat \ {0}
         /\ top \in 0..StackMax
BY DisciplineTyped, CurrentFrame DEF Discipline, OperandsPresent, Current

(* An error changes no frame. *)
LEMMA HaltDiscipline ==
  ASSUME Discipline, status = "running", NEW error \in {"error", "overflow"}, Halt(error)
  PROVE  Discipline'
<1>1. TypeOK' BY DEF Discipline, TypeOK, Halt, Errors
<1> QED BY <1>1 DEF Discipline, OneResult, OperandsPresent, Halt

(* ... nor does a value written behind the stack: the frames end below it.    *)
LEMMA PastDiscipline ==
  ASSUME Discipline, status = "running", NEW height \in Nat, PushPast(height)
  PROVE  Discipline'
<1>1. TypeOK' BY DisciplineTyped, PastTyped DEF Started
<1>2. CASE Halt("overflow") BY <1>2, HaltDiscipline
<1>3. CASE top' = height /\ status' = "overrun" /\ UNCHANGED <<frames, cached>>
  <2>1. Len(frames) \in Nat /\ Len(frames) <= top /\ top \in 0..StackMax /\ StackMax \in Nat
    BY Running, ConstantsAssumption DEF Discipline
  <2>2. Len(frames') <= top' BY <1>3, <2>1 DEF PushPast
  <2> QED BY <1>1, <1>3, <2>2 DEF Discipline, OneResult, OperandsPresent
<1> QED BY <1>2, <1>3 DEF PushPast

(* An instruction that leaves in the frame at least what the compiler counts *)
(* on keeps the discipline.                                                  *)
LEMMA DepthDiscipline ==
  ASSUME Discipline, status = "running", NEW d \in Nat \ {0},
         top' \in 0..StackMax, top' >= Current.slots + d,
         frames' = Recounted(d),
         UNCHANGED <<cached, status>>
  PROVE  Discipline'
<1> DEFINE n == Len(frames)
<1>1. Started BY DisciplineTyped
<1>2. TypeOK' BY <1>1, DepthTyped DEF Started
<1>3. /\ frames' # <<>> /\ Len(frames') = n
      /\ frames'[n].slots = Current.slots /\ frames'[n].depth = d
      /\ \A i \in 1..(n - 1) : frames'[i] = frames[i]
  BY <1>1, Recounting
<1>4. /\ n \in Nat \ {0} /\ Current.slots \in Nat /\ Current.slots >= n - 1
  BY Running
<1>5. frames'[1].slots = 0
  <2>1. frames[1].slots = 0 BY DEF Discipline
  <2>2. CASE n = 1 BY <1>3, <2>1, <2>2 DEF Current
  <2>3. CASE n # 1
    <3>1. 1 \in 1..(n - 1)
      <4>1. n \in Nat \ {0} BY <1>4
      <4> HIDE DEF n
      <4> QED BY <2>3, <4>1
    <3> QED BY <1>3, <2>1, <3>1
  <2> QED BY <2>2, <2>3
<1>6. \A i \in 1..n : frames'[i].slots >= i - 1 /\ frames'[i].depth >= 1
  <2>1. \A i \in 1..(n - 1) : frames[i].slots >= i - 1 /\ frames[i].depth >= 1
    BY <1>4 DEF Discipline
  <2>2. frames'[n].slots >= n - 1 /\ frames'[n].depth >= 1 BY <1>3, <1>4
  <2>3. \A i \in 1..n : i = n \/ i \in 1..(n - 1) BY <1>4
  <2> HIDE DEF n
  <2> QED BY <1>3, <2>1, <2>2, <2>3
<1>7. \A i \in 1..(n - 1) : frames'[i].slots + frames'[i].depth <= frames'[i + 1].slots + 1
  <2>1. \A i \in 1..(n - 1) : frames'[i + 1].slots = frames[i + 1].slots
    BY <1>3, <1>4 DEF Current
  <2> QED BY <1>3, <2>1 DEF Discipline, OperandsPresent
<1>8. Current' = frames'[n] BY <1>3 DEF Current
<1> QED BY <1>2, <1>3, <1>4, <1>5, <1>6, <1>7, <1>8
        DEF Discipline, OneResult, OperandsPresent

(* The slots an instruction pops are those the compiler counts, *)
LEMMA EffectDiscipline ==
  ASSUME Discipline,
         NEW pops \in Nat, NEW pushes \in Nat, NEW expected \in Nat, pushes >= expected,
         NEW short, Effect(pops, pushes, expected, short)
  PROVE  Discipline'
<1>1. status = "running" /\ Current.depth > pops BY DEF Effect, Operands
<1>2. top > pops BY <1>1, Running
<1>3. CASE top >= pops /\ PushPast((top - pops) + pushes)
  <2>1. (top - pops) + pushes \in Nat BY <1>1, <1>3, Running
  <2> QED BY <1>1, <1>3, <2>1, PastDiscipline
<1>4. CASE /\ (top - pops) + pushes <= StackMax
           /\ top' = (top - pops) + pushes
           /\ frames' = Recounted((Current.depth - pops) + expected)
           /\ UNCHANGED <<cached, status>>
  <2> DEFINE d == (Current.depth - pops) + expected
  <2>1. d \in Nat \ {0} BY <1>1, Running
  <2>2. top' \in 0..StackMax /\ top' >= Current.slots + d
    <3>1. /\ top \in 0..StackMax /\ StackMax \in Nat /\ Current.slots \in Nat /\ Current.depth \in Nat
          /\ top >= Current.slots + Current.depth
      BY <1>1, Running, ConstantsAssumption
    <3> QED BY <1>1, <1>2, <1>4, <3>1
  <2> HIDE DEF d
  <2>3. frames' = Recounted(d) BY <1>4 DEF d
  <2> QED BY <1>1, <1>4, <2>1, <2>2, <2>3, DepthDiscipline
<1> QED BY <1>1, <1>2, <1>3, <1>4, Running DEF Effect

(* ... in every instruction of a well-typed program, *)
LEMMA InstructionDiscipline ==
  ASSUME WellTyped, Discipline, Instruction
  PROVE  Discipline'
<1> USE EffectDiscipline DEF Popped, Moved, Underflow
<1>1. CASE LoadConstant \/ LoadVariable \/ CloseUpValue \/ Addition \/ Arithmetic \/ Pop
  BY <1>1 DEF LoadConstant, LoadVariable, CloseUpValue, Addition, Arithmetic, Pop
<1>2. CASE MakeRef \/ MakeIndexedRef \/ MakeClosure
  BY <1>2 DEF MakeRef, MakeIndexedRef, MakeClosure
<1>3. CASE SetIndex \/ GetProperty \/ SetProperty \/ GetBase
  BY <1>3 DEF SetIndex, GetProperty, SetProperty, GetBase
<1>4. CASE GetIndex
  BY <1>4 DEF GetIndex, WellTyped
<1>5. CASE \E n \in 0..MaxCount :
             MakeArray(n) \/ MakeDict(n) \/ MakeStruct(n) \/ MakeModule(n) \/ Reset(n)
  BY <1>5, ConstantsAssumption DEF MakeArray, MakeDict, MakeStruct, MakeModule, Reset
<1>6. CASE \E ctors, pairs \in 0..MaxCount : MakeClass(ctors, pairs)
  BY <1>6, ConstantsAssumption DEF MakeClass
<1>7. CASE \E count \in PatternSizes : Resolve(count) \/ ResolveVarArg(count)
  BY <1>7, ConstantsAssumption DEF Resolve, ResolveVarArg, WellTyped
<1>8. CASE \E locals \in 1..MaxLocals : LeaveBlock(locals)
  <2>1. PICK locals \in 1..MaxLocals : LeaveBlock(locals) BY <1>8
  <2>2. status = "running" /\ locals \in Nat /\ top' = top /\ Current.depth > locals
    BY <2>1, ConstantsAssumption DEF LeaveBlock, Operands
  <2>3. /\ Current.depth - locals \in Nat \ {0}
        /\ top' \in 0..StackMax /\ top' >= Current.slots + (Current.depth - locals)
    BY <2>2, Running
  <2> QED BY <2>1, <2>2, <2>3, DepthDiscipline DEF LeaveBlock
<1>9. CASE RuntimeError
  BY <1>9, HaltDiscipline DEF RuntimeError
<1> QED BY <1>1, <1>2, <1>3, <1>4, <1>5, <1>6, <1>7, <1>8, <1>9 DEF Instruction

(* A call starts its frame where the operands of the caller end, with every  *)
(* parameter in its slot; and there is always room for its frame.            *)
LEMMA PushDiscipline ==
  ASSUME Discipline, status = "running",
         NEW argCount \in Nat, Current.depth > argCount + 1, top > argCount,
         NEW f \in Functions, Parameters(f) \in Nat,
         top' \in 0..StackMax, top' >= (top - argCount) + Parameters(f),
         PushCallFrame(f, top - argCount - 1, argCount)
  PROVE  Discipline'
<1> DEFINE n == Len(frames)
           slots == top - argCount - 1
           t == Append(Suspended(argCount), NewFrame(f, slots))
<1>1. Started BY DisciplineTyped
<1>2. /\ n \in Nat \ {0} /\ top >= Current.slots + Current.depth
      /\ Current.slots \in Nat /\ Current.slots >= n - 1
      /\ Current.depth \in Nat \ {0} /\ top \in 0..StackMax
  BY Running
<1> HIDE DEF n
<1>3. slots \in 0..(StackMax - 1) /\ slots >= n /\ Current.depth > argCount
  <2>1. StackMax \in Nat BY ConstantsAssumption
  <2> QED BY <1>2, <2>1
<1>4. frames' = t /\ UNCHANGED <<cached, status>>
  <2>1. StackMax \in Nat BY ConstantsAssumption
  <2>2. ~(n >= StackMax) BY <1>2, <1>3, <2>1
  <2> HIDE DEF t
  <2> QED BY <2>2 DEF PushCallFrame, n, t
<1>5. /\ t \in Seq(Frame) /\ t # <<>> /\ Len(t) = n + 1
      /\ t[n + 1].slots = slots /\ t[n + 1].depth = 1 + Parameters(f)
      /\ t[n].slots = Current.slots /\ t[n].depth = Current.depth - argCount
      /\ \A i \in 1..(n - 1) : t[i] = frames[i]
  <2>1. Started /\ slots \in 0..(StackMax - 1) /\ Current.depth > argCount BY <1>1, <1>3
  <2> HIDE DEF slots
  <2> QED BY <2>1, FramesCalled DEF n
<1>6. TypeOK'
  <2> HIDE DEF t
  <2> QED BY <1>1, <1>4, <1>5 DEF Started, TypeOK
<1> HIDE DEF t, slots
<1>7. \A i \in 1..(n + 1) : i = n + 1 \/ i = n \/ i \in 1..(n - 1) BY <1>2
<1>8. frames'[1].slots = 0
  <2>1. n = 1 \/ 1 \in 1..(n - 1) BY <1>2
  <2> QED BY <1>4, <1>5, <2>1 DEF Discipline, Current, n
<1>9. \A i \in 1..(n + 1) : frames'[i].slots >= i - 1 /\ frames'[i].depth >= 1
  <2>1. \A i \in 1..(n - 1) : frames[i].slots >= i - 1 /\ frames[i].depth >= 1
    BY <1>2 DEF Discipline, n
  <2>2. t[n + 1].slots >= n /\ t[n + 1].depth >= 1 BY <1>3, <1>5
  <2>3. t[n].slots >= n - 1 /\ t[n].depth >= 1 BY <1>2, <1>5
  <2>4. n + 1 - 1 = n BY <1>2
  <2>5. \A i \in 1..(n + 1) : t[i].slots >= i - 1 /\ t[i].depth >= 1
    <3> TAKE i \in 1..(n + 1)
    <3>1. CASE i = n + 1 BY <1>2, <2>2, <2>4, <3>1
    <3>2. CASE i = n BY <2>3, <3>2
    <3>3. CASE i \in 1..(n - 1) BY <1>5, <2>1, <3>3
    <3> QED BY <1>7, <3>1, <3>2, <3>3
  <2> QED BY <1>4, <2>5
<1>10. \A i \in 1..n : t[i].slots + t[i].depth <= t[i + 1].slots + 1
  <2>1. t[n].slots + t[n].depth <= t[n + 1].slots + 1
    <3>1. t[n].slots + t[n].depth = Current.slots + (Current.depth - argCount) BY <1>5
    <3>2. t[n + 1].slots = top - argCount - 1 BY <1>5 DEF slots
    <3>3. Current.slots + (Current.depth - argCount) <= (top - argCount - 1) + 1 BY <1>2
    <3> QED BY <3>1, <3>2, <3>3
  <2>2. \A i \in 1..(n - 1) : frames[i].slots + frames[i].depth <= frames[i + 1].slots + 1
    BY DEF Discipline, OperandsPresent, n
  <2>3. \A i \in 1..(n - 1) : t[i + 1].slots = frames[i + 1].slots
    <3>1. \A i \in 1..(n - 1) : i + 1 = n \/ i + 1 \in 1..(n - 1) BY <1>2
    <3> QED BY <1>5, <3>1 DEF Current, n
  <2>4. \A i \in 1..n : i = n \/ i \in 1..(n - 1) BY <1>2
  <2> QED BY <1>5, <2>1, <2>2, <2>3, <2>4
<1>11. Len(frames') = n + 1 /\ Current' = t[n + 1] BY <1>4, <1>5 DEF Current
<1>12. top' >= t[n + 1].slots + t[n + 1].depth /\ n + 1 <= top'
  BY <1>2, <1>3, <1>5 DEF slots
<1>13. (n + 1) - 1 = n BY <1>2
<1> QED BY <1>4, <1>5, <1>6, <1>8, <1>9, <1>10, <1>11, <1>12, <1>13
        DEF Discipline, OneResult, OperandsPresent

(* ... a call hands over the slots of the callee and its arguments, *)
LEMMA CallDiscipline ==
  ASSUME Discipline, Call
  PROVE  Discipline'
<1>1. PICK argCount \in 0..MaxArgs :
        \/ CallNative(argCount) \/ CallCorrupt(argCount)
        \/ \E f \in Functions \ Constructors :
             CallClosure(f, argCount) \/ CallCached(f, argCount) \/ CallRefused(f, argCount)
        \/ \E f \in Constructors : CallConstructor(f, argCount)
  BY DEF Call
<1>2. argCount \in Nat /\ StackMax \in Nat BY ConstantsAssumption
<1>3. status = "running" /\ Current.depth > argCount + 1
  BY <1>1 DEF CallNative, CallCorrupt, CallClosure, CallCached, CallRefused,
              CallConstructor, Callee, Operands
<1>4. /\ top \in 0..StackMax /\ Current.slots \in Nat /\ Current.depth \in Nat
      /\ top >= Current.slots + Current.depth
  BY <1>3, Running
<1>5. top > argCount + 1 BY <1>2, <1>3, <1>4
<1>6. CASE CallNative(argCount)
  BY <1>2, <1>6, EffectDiscipline DEF CallNative, Moved
<1>7. CASE CallCorrupt(argCount)
  BY <1>2, <1>4, <1>5, <1>7 DEF CallCorrupt
<1>8. ASSUME NEW f \in Functions, CallRefused(f, argCount) PROVE Discipline'
  <2>1. CASE Halt("error") BY <1>3, <2>1, HaltDiscipline
  <2>2. CASE Accepts(f, argCount) /\ PushPast(PackedTop(f, argCount))
    <3>1. top \in Nat /\ top > argCount BY <1>4, <1>8 DEF CallRefused, Callee
    <3>2. PackedTop(f, argCount) \in Nat BY <1>2, <2>2, <3>1, Packing
    <3> QED BY <1>3, <2>2, <3>2, PastDiscipline
  <2> QED BY <1>8, <2>1, <2>2 DEF CallRefused
<1>9. ASSUME NEW f \in Functions, CallClosure(f, argCount) PROVE Discipline'
  <2>1. /\ Parameters(f) \in Nat /\ PackedCount(f, argCount) \in Nat
        /\ PackedCount(f, argCount) >= Parameters(f)
        /\ PackedTop(f, argCount) \in Nat
        /\ PackedTop(f, argCount) - PackedCount(f, argCount) = top - argCount
    BY <1>2, <1>4, <1>9, Packing DEF CallClosure, Callee
  <2>2. /\ top' = PackedTop(f, argCount) /\ top' <= StackMax
        /\ PushCallFrame(f, top - argCount - 1, argCount)
    BY <1>9, <2>1 DEF CallClosure
  <2>3. top' \in 0..StackMax /\ top' >= (top - argCount) + Parameters(f)
    BY <1>2, <1>4, <2>1, <2>2
  <2>4. top > argCount BY <1>2, <1>4, <1>5
  <2> QED BY <1>2, <1>3, <2>1, <2>2, <2>3, <2>4, PushDiscipline
<1>10. ASSUME NEW f \in Functions, CallCached(f, argCount) PROVE Discipline'
  <2>1. top' = top - argCount
    BY <1>2, <1>4, <1>10, Packing DEF CallCached, Callee
  <2>2. frames' = Recounted(Current.depth - argCount) /\ UNCHANGED <<cached, status>>
    BY <1>10 DEF CallCached, Suspended
  <2>3. /\ Current.depth - argCount \in Nat \ {0}
        /\ top' \in 0..StackMax /\ top' >= Current.slots + (Current.depth - argCount)
    BY <1>2, <1>3, <1>4, <1>5, <2>1
  <2> QED BY <1>3, <2>2, <2>3, DepthDiscipline
<1>11. ASSUME NEW f \in Constructors, CallConstructor(f, argCount) PROVE Discipline'
  <2>1. f \in Functions /\ Parameters(f) \in Nat /\ Parameters(f) <= argCount
    BY <1>11, ConstantsAssumption DEF CallConstructor, Parameters
  <2>2. top' \in 0..StackMax /\ top' >= (top - argCount) + Parameters(f) /\ top > argCount
    BY <1>2, <1>4, <1>5, <1>11, <2>1 DEF CallConstructor
  <2> QED BY <1>2, <1>3, <1>11, <2>1, <2>2, PushDiscipline DEF CallConstructor
<1>12. Constructors \subseteq Functions BY ConstantsAssumption
<1> QED BY <1>1, <1>6, <1>7, <1>8, <1>9, <1>10, <1>11, <1>12

(* ... a return gives them back with one result in their place, *)
LEMMA ReturnDiscipline ==
  ASSUME Discipline, NEW retCount \in {0, 1}, Return(retCount)
  PROVE  Discipline'
<1> DEFINE n == Len(frames)
<1>1. status = "running" /\ top' = Current.slots + 1
      /\ frames' = SubSeq(frames, 1, n - 1)
      /\ status' = IF n = 1 THEN "returned" ELSE "running"
  BY DEF Return, Operands
<1>2. n \in Nat \ {0} /\ Current.slots \in Nat /\ Current.slots >= n - 1
  BY <1>1, Running
<1>3. Started BY DisciplineTyped
<1>4. /\ Len(frames') = n - 1 /\ frames' \in Seq(Frame)
      /\ \A i \in 1..(n - 1) : frames'[i] = frames[i]
  BY <1>1, <1>3, FramesReturned
<1>5. TypeOK' BY <1>3, ReturnTyped DEF Started
<1>6. Len(frames') <= top' BY <1>1, <1>2, <1>4
<1>7. CASE n = 1
  <2>1. frames' = <<>> BY <1>4, <1>7, EmptySeq
  <2>2. Current.slots = 0 BY <1>1, <1>7 DEF Discipline, Current
  <2> QED BY <1>1, <1>5, <1>6, <1>7, <2>1, <2>2
          DEF Discipline, OneResult, OperandsPresent
<1>8. CASE n # 1
  <2> DEFINE m == n - 1
  <2>1. m \in 1..m /\ m + 1 = n
    <3>1. \A k \in Nat \ {0} : k # 1 => k - 1 \in 1..(k - 1) /\ (k - 1) + 1 = k
      OBVIOUS
    <3> HIDE DEF n
    <3> QED BY <1>2, <1>8, <3>1
  <2>2. frames' # <<>> BY <1>4, <1>8, <1>2, EmptySeq
  <2>3. frames[m].slots + frames[m].depth <= Current.slots + 1
    BY <1>1, <2>1 DEF Discipline, OperandsPresent, Current
  <2>4. Current' = frames[m] BY <1>4, <2>1 DEF Current
  <2>5. top' >= Current'.slots + Current'.depth BY <1>1, <2>3, <2>4
  <2>6. \A i \in 1..(m - 1) :
          frames[i].slots + frames[i].depth <= frames[i + 1].slots + 1
    BY <1>1, <2>1 DEF Discipline, OperandsPresent
  <2>7. \A i \in 1..(m - 1) : i \in 1..m /\ i + 1 \in 1..m BY <2>1
  <2>8. \A i \in 1..m : i \in 1..n BY <2>1
  <2>9. /\ frames[1].slots = 0
        /\ \A i \in 1..m : frames[i].slots >= i - 1 /\ frames[i].depth >= 1
    BY <1>1, <2>8 DEF Discipline
  <2>10. status' = "running" BY <1>1, <1>8
  <2> HIDE DEF m
  <2>11. Len(frames') = m /\ \A i \in 1..m : frames'[i] = frames[i] BY <1>4 DEF m
  <2>12. 1 \in 1..m BY <2>1
  <2> QED BY <1>5, <1>6, <2>2, <2>5, <2>6, <2>7, <2>9, <2>10, <2>11, <2>12
          DEF Discipline, OneResult, OperandsPresent
<1> QED BY <1>7, <1>8

(* ... and no step does otherwise. *)
LEMMA StepDiscipline ==
  ASSUME WellTyped, Discipline, [Next]_vars
  PROVE  Discipline'
<1>1. CASE Start
  <2>1. top = 0 /\ Started BY <1>1, DisciplineTyped DEF Start, Discipline
  <2>2. TypeOK' BY <1>1, <2>1, StepTyped DEF Started, Next
  <2>3. Len(frames') = 1 /\ frames' # <<>> /\ frames'[1].slots = 0 /\ frames'[1].depth = 1
    BY <1>1, <2>1 DEF Start
  <2>4. Current' = frames'[1] BY <2>3 DEF Current
  <2> QED BY <1>1, <2>1, <2>2, <2>3, <2>4
          DEF Start, Discipline, OneResult, OperandsPresent
<1>2. CASE Finish
  <2>1. /\ top = 1 /\ frames = <<>> /\ top' = 0 /\ status' = "idle"
        /\ UNCHANGED <<frames, cached>>
    BY <1>2 DEF Finish, Discipline, OneResult
  <2>2. TypeOK' BY <1>2, StepTyped, DisciplineTyped DEF Started, Next
  <2>3. Len(frames') = 0 BY <2>1, EmptySeq
  <2> QED BY <2>1, <2>2, <2>3 DEF Discipline, OneResult, OperandsPresent
<1>3. CASE Instruction BY <1>3, InstructionDiscipline
<1>4. CASE Call BY <1>4, CallDiscipline
<1>5. CASE \E retCount \in {0, 1} : Return(retCount) BY <1>5, ReturnDiscipline
<1>6. CASE UNCHANGED vars
  BY <1>6 DEF vars, Discipline, TypeOK, OneResult, OperandsPresent, Current
<1> QED BY <1>1, <1>2, <1>3, <1>4, <1>5, <1>6 DEF Next

(* The inductive invariant of well-typed programs. *)
LEMMA AlwaysDiscipline == WellTyped /\ Spec => []Discipline
<1>1. Init => Discipline
  <2>1. SUFFICES ASSUME Init PROVE Discipline OBVIOUS
  <2>2. TypeOK BY <2>1, ConstantsAssumption DEF Init, TypeOK, Errors
  <2> QED BY <2>1, <2>2, EmptySeq DEF Init, Discipline, OneResult, OperandsPresent
<1>2. WellTyped /\ Discipline /\ [Next]_vars => Discipline' BY StepDiscipline
<1>3. WellTyped => []WellTyped
  <2>1. WellTyped => WellTyped' BY DEF WellTyped
  <2> QED BY <2>1, PTL DEF WellTyped
<1> QED BY <1>1, <1>2, <1>3, PTL DEF Spec

(* In a well-typed program no instruction ever takes operands that are not   *)
(* its own: the frame that runs, and every frame that waits for a call, keep *)
(* what the compiler counts on.                                              *)
THEOREM OperandsAlwaysPresent == WellTyped /\ Spec => []OperandsPresent
<1>1. Discipline => OperandsPresent BY DEF Discipline
<1> QED BY <1>1, AlwaysDiscipline, PTL

(* Nor does a frame ever overrun the call-frame stack, which no build tests:  *)
(* the value stack ends first, in "Stack overflow.", or in a build without    *)
(* that test in the one write behind it after which nothing is claimed.       *)
THEOREM FramesAlwaysBounded == WellTyped /\ Spec => []FramesBounded
<1>1. Discipline => FramesBounded BY DEF Discipline, FramesBounded
<1> QED BY <1>1, AlwaysDiscipline, PTL

(* PopStack and the end of VM::Run never find too little or too much, tested  *)
(* or not.                                                                    *)
THEOREM NeverUnderflow == WellTyped /\ Spec => []NoUnderflow
<1>1. Discipline => NoUnderflow BY DEF Discipline, NoUnderflow
<1> QED BY <1>1, AlwaysDiscipline, PTL
-----------------------------------------------------------------------------
(* The height of the stack in a well-counted program *)

(* A program that has stopped counts no more. *)
LEMMA HaltAligned ==
  ASSUME NEW error, error # "running", Halt(error)
  PROVE  Aligned'
BY DEF Halt, Aligned

(* Nor does one that has written behind the stack. *)
LEMMA PastAligned ==
  ASSUME NEW height, PushPast(height)
  PROVE  Aligned'
BY HaltAligned DEF PushPast, Aligned

(* An instruction that leaves in the frame what the compiler counts on, and  *)
(* nothing else, keeps the stack aligned.                                    *)
LEMMA DepthAligned ==
  ASSUME Discipline, Aligned, status = "running", NEW d \in Nat,
         top' = Current.slots + d,
         frames' = Recounted(d)
  PROVE  Aligned'
<1> DEFINE n == Len(frames)
<1>1. n \in Nat \ {0} BY Running
<1>2. /\ Len(frames') = n
      /\ frames'[n].slots = Current.slots /\ frames'[n].depth = d
      /\ \A i \in 1..(n - 1) : frames'[i] = frames[i]
  BY DisciplineTyped, Recounting
<1>3. top' = Current'.slots + Current'.depth BY <1>2 DEF Current
<1>4. \A i \in 1..(n - 1) : frames'[i + 1].slots = frames[i + 1].slots
  BY <1>1, <1>2 DEF Current
<1>5. \A i \in 1..(n - 1) : frames'[i].slots + frames'[i].depth = frames'[i + 1].slots + 1
  BY <1>2, <1>4 DEF Aligned
<1> QED BY <1>2, <1>3, <1>5 DEF Aligned

(* An instruction that leaves what the compiler expects keeps the count, *)
LEMMA EffectAligned ==
  ASSUME Discipline, Aligned,
         NEW pops \in Nat, NEW pushes \in Nat,
         NEW short \in Errors, Effect(pops, pushes, pushes, short)
  PROVE  Aligned'
<1>1. status = "running" /\ Current.depth > pops BY DEF Effect, Operands
<1>2. CASE Halt(short) BY <1>2, HaltAligned DEF Errors
<1>4. CASE PushPast((top - pops) + pushes) BY <1>4, PastAligned
<1>3. CASE /\ top' = (top - pops) + pushes
           /\ frames' = Recounted((Current.depth - pops) + pushes)
  <2> DEFINE d == (Current.depth - pops) + pushes
  <2>1. top = Current.slots + Current.depth BY <1>1 DEF Aligned
  <2>2. d \in Nat /\ top' = Current.slots + d
    <3>1. Current.slots \in Nat /\ Current.depth \in Nat BY <1>1, Running
    <3> QED BY <1>1, <1>3, <2>1, <3>1
  <2> HIDE DEF d
  <2>3. frames' = Recounted(d) BY <1>3 DEF d
  <2> QED BY <1>1, <2>2, <2>3, DepthAligned
<1> QED BY <1>2, <1>3, <1>4 DEF Effect

(* ... as each instruction of a well-counted program does, *)
LEMMA InstructionAligned ==
  ASSUME WellCounted, Discipline, Aligned, Instruction
  PROVE  Aligned'
<1> USE EffectAligned DEF Popped, Moved, Underflow, Errors
<1>1. CASE LoadConstant \/ LoadVariable \/ CloseUpValue \/ Addition \/ Arithmetic \/ Pop
  BY <1>1 DEF LoadConstant, LoadVariable, CloseUpValue, Addition, Arithmetic, Pop
<1>2. CASE MakeRef \/ MakeIndexedRef \/ MakeClosure
  BY <1>2 DEF MakeRef, MakeIndexedRef, MakeClosure
<1>3. CASE SetIndex \/ GetProperty \/ SetProperty \/ GetBase
  BY <1>3 DEF SetIndex, GetProperty, SetProperty, GetBase
<1>4. CASE GetIndex
  BY <1>4 DEF GetIndex, WellCounted, WellTyped
<1>5. CASE \E n \in 0..MaxCount :
             MakeArray(n) \/ MakeDict(n) \/ MakeStruct(n) \/ MakeModule(n) \/ Reset(n)
  BY <1>5, ConstantsAssumption DEF MakeArray, MakeDict, MakeStruct, MakeModule, Reset
<1>6. CASE \E ctors, pairs \in 0..MaxCount : MakeClass(ctors, pairs)
  BY <1>6, ConstantsAssumption DEF MakeClass
<1>7. CASE \E count \in PatternSizes : Resolve(count) \/ ResolveVarArg(count)
  <2>1. PICK count \in PatternSizes : Resolve(count) \/ ResolveVarArg(count) BY <1>7
  <2>2. count \in Nat /\ count # 0 BY ConstantsAssumption DEF WellCounted, WellTyped
  <2>3. CASE Resolve(count) BY <2>2, <2>3 DEF Resolve
  <2>4. CASE ResolveVarArg(count)
    <3>1. PICK kind \in DestructuredKinds :
            Effect(1, IF kind = "other" /\ count = 1 THEN 2 ELSE count, count, Underflow)
      BY <2>4 DEF ResolveVarArg
    <3>2. ~(kind = "other" /\ count = 1) BY DEF WellCounted
    <3>3. Effect(1, count, count, Underflow) BY <3>1, <3>2
    <3> QED BY <2>2, <3>3
  <2> QED BY <2>1, <2>3, <2>4
<1>8. CASE \E locals \in 1..MaxLocals : LeaveBlock(locals)
  BY <1>8 DEF WellCounted
<1>9. CASE RuntimeError
  BY <1>9, HaltAligned DEF RuntimeError
<1> QED BY <1>1, <1>2, <1>3, <1>4, <1>5, <1>6, <1>7, <1>8, <1>9 DEF Instruction

(* A call that leaves in the new frame its parameters and nothing else. *)
LEMMA PushAligned ==
  ASSUME Discipline, Aligned, status = "running",
         NEW argCount \in Nat, Current.depth > argCount + 1, top > argCount,
         NEW f \in Functions, Parameters(f) \in Nat,
         top' = (top - argCount) + Parameters(f),
         PushCallFrame(f, top - argCount - 1, argCount)
  PROVE  Aligned'
<1> DEFINE n == Len(frames)
           slots == top - argCount - 1
           t == Append(Suspended(argCount), NewFrame(f, slots))
<1>1. /\ n \in Nat \ {0} /\ Current.slots \in Nat /\ Current.depth \in Nat
      /\ top \in 0..StackMax /\ StackMax \in Nat
  BY Running, ConstantsAssumption
<1> HIDE DEF n
<1>2. slots \in 0..(StackMax - 1) /\ Current.depth > argCount BY <1>1
<1>3. CASE status' = "corrupt" BY <1>3 DEF Aligned
<1>4. CASE frames' = t /\ UNCHANGED <<cached, status>>
  <2>1. /\ Len(t) = n + 1
        /\ t[n + 1].slots = slots /\ t[n + 1].depth = 1 + Parameters(f)
        /\ t[n].slots = Current.slots /\ t[n].depth = Current.depth - argCount
        /\ \A i \in 1..(n - 1) : t[i] = frames[i]
    <3>1. Started /\ slots \in 0..(StackMax - 1) /\ Current.depth > argCount BY <1>2, DisciplineTyped
    <3> HIDE DEF slots
    <3> QED BY <3>1, FramesCalled DEF n
  <2> HIDE DEF t, slots
  <2>2. top = Current.slots + Current.depth BY DEF Aligned
  <2>3. t[n].slots + t[n].depth = t[n + 1].slots + 1
    <3>1. slots + 1 = Current.slots + (Current.depth - argCount)
      BY <1>1, <2>2 DEF slots
    <3> QED BY <2>1, <3>1
  <2>4. \A i \in 1..(n - 1) : frames[i].slots + frames[i].depth = frames[i + 1].slots + 1
    BY DEF Aligned, n
  <2>5. \A i \in 1..(n - 1) : t[i + 1].slots = frames[i + 1].slots
    <3>1. \A i \in 1..(n - 1) : i + 1 = n \/ i + 1 \in 1..(n - 1) BY <1>1
    <3> QED BY <2>1, <3>1 DEF Current, n
  <2>6. \A i \in 1..n : i = n \/ i \in 1..(n - 1) BY <1>1
  <2>7. \A i \in 1..n : t[i].slots + t[i].depth = t[i + 1].slots + 1
    BY <2>1, <2>3, <2>4, <2>5, <2>6
  <2>8. Len(frames') = n + 1 /\ Current' = t[n + 1] BY <1>4, <2>1 DEF Current
  <2>9. top' = t[n + 1].slots + t[n + 1].depth BY <1>1, <2>1 DEF slots
  <2>10. (n + 1) - 1 = n BY <1>1
  <2> QED BY <1>4, <2>7, <2>8, <2>9, <2>10 DEF Aligned
<1> QED BY <1>3, <1>4 DEF PushCallFrame

(* Packing leaves exactly one slot for each parameter of the callee. *)
LEMMA ExactPacking ==
  ASSUME top \in Nat, NEW f \in Functions, NEW argCount \in Nat,
         top > argCount, Accepts(f, argCount)
  PROVE  PackedTop(f, argCount) = (top - argCount) + Parameters(f)
<1> DEFINE n == Arity[f]
<1>1. n \in Nat /\ VarArg[f] \in {"NONE", "WITH_NAME", "WITHOUT_NAME"}
      /\ (VarArg[f] # "NONE" => n > 0)
  BY ConstantsAssumption
<1>2. CASE VarArg[f] = "NONE"
  BY <1>1, <1>2 DEF Accepts, Parameters, PackedTop
<1>3. CASE VarArg[f] = "WITH_NAME"
  BY <1>1, <1>3 DEF Accepts, Parameters, PackedTop, Surplus
<1>4. CASE VarArg[f] = "WITHOUT_NAME"
  BY <1>1, <1>4 DEF Accepts, Parameters, PackedTop, Surplus
<1> QED BY <1>1, <1>2, <1>3, <1>4

(* ... with the frames that wait during a call, *)
LEMMA CallAligned ==
  ASSUME WellCounted, Discipline, Aligned, Call
  PROVE  Aligned'
<1>1. PICK argCount \in 0..MaxArgs :
        \/ CallNative(argCount) \/ CallCorrupt(argCount)
        \/ \E f \in Functions \ Constructors :
             CallClosure(f, argCount) \/ CallCached(f, argCount) \/ CallRefused(f, argCount)
        \/ \E f \in Constructors : CallConstructor(f, argCount)
  BY DEF Call
<1>2. argCount \in Nat /\ StackMax \in Nat BY ConstantsAssumption
<1>3. status = "running" /\ Current.depth > argCount + 1
  BY <1>1 DEF CallNative, CallCorrupt, CallClosure, CallCached, CallRefused,
              CallConstructor, Callee, Operands
<1>4. /\ top \in 0..StackMax /\ Current.slots \in Nat /\ Current.depth \in Nat
      /\ top = Current.slots + Current.depth
  BY <1>3, Running DEF Aligned
<1>5. top \in Nat /\ top > argCount BY <1>2, <1>3, <1>4
<1>6. CASE CallNative(argCount)
  BY <1>2, <1>6, EffectAligned DEF CallNative, Moved, Errors
<1>7. CASE CallCorrupt(argCount)
  BY <1>7, HaltAligned DEF CallCorrupt
<1>8. ASSUME NEW f \in Functions, CallRefused(f, argCount) PROVE Aligned'
  BY <1>8, HaltAligned, PastAligned DEF CallRefused
<1>9. ASSUME NEW f \in Functions, CallClosure(f, argCount) PROVE Aligned'
  <2>1. Accepts(f, argCount) BY <1>9 DEF CallClosure
  <2>2. /\ Parameters(f) \in Nat
        /\ PackedTop(f, argCount) - PackedCount(f, argCount) = top - argCount
        /\ PackedTop(f, argCount) = (top - argCount) + Parameters(f)
    BY <1>2, <1>5, <2>1, Packing, ExactPacking
  <2>3. /\ top' = (top - argCount) + Parameters(f)
        /\ PushCallFrame(f, top - argCount - 1, argCount)
    BY <1>9, <2>2 DEF CallClosure
  <2> QED BY <1>2, <1>3, <1>5, <2>2, <2>3, PushAligned
<1>10. ASSUME NEW f \in Functions, CallCached(f, argCount) PROVE Aligned'
  <2>1. top' = top - argCount BY <1>2, <1>5, <1>10, Packing DEF CallCached
  <2>2. frames' = Recounted(Current.depth - argCount) BY <1>10 DEF CallCached, Suspended
  <2>3. /\ Current.depth - argCount \in Nat
        /\ top' = Current.slots + (Current.depth - argCount)
    BY <1>2, <1>3, <1>4, <2>1
  <2> QED BY <1>3, <2>2, <2>3, DepthAligned
<1>11. ASSUME NEW f \in Constructors, CallConstructor(f, argCount) PROVE Aligned'
  <2>1. f \in Functions /\ Parameters(f) = argCount
    BY <1>11, ConstantsAssumption DEF CallConstructor, Parameters, WellCounted
  <2>2. top' = (top - argCount) + Parameters(f)
    BY <1>2, <1>5, <1>11, <2>1 DEF CallConstructor
  <2>3. PushCallFrame(f, top - argCount - 1, argCount) BY <1>11 DEF CallConstructor
  <2> QED BY <1>2, <1>3, <1>5, <2>1, <2>2, <2>3, PushAligned
<1>12. Constructors \subseteq Functions BY ConstantsAssumption
<1> QED BY <1>1, <1>6, <1>7, <1>8, <1>9, <1>10, <1>11, <1>12

(* ... which find one result on return. *)
LEMMA ReturnAligned ==
  ASSUME Discipline, Aligned, NEW retCount \in {0, 1}, Return(retCount)
  PROVE  Aligned'
<1> DEFINE n == Len(frames)
           m == n - 1
<1>1. /\ status = "running" /\ top' = Current.slots + 1
      /\ frames' = SubSeq(frames, 1, m)
      /\ status' = IF n = 1 THEN "returned" ELSE "running"
  BY DEF Return, Operands
<1>2. n \in Nat \ {0} BY <1>1, Running
<1>3. Len(frames') = m /\ \A i \in 1..m : frames'[i] = frames[i]
  BY <1>1, DisciplineTyped, FramesReturned
<1>4. CASE n = 1 BY <1>1, <1>4 DEF Aligned
<1>5. CASE n # 1
  <2>1. m \in 1..m /\ m + 1 = n
    <3> HIDE DEF n
    <3> QED BY <1>2, <1>5
  <2>2. frames[m].slots + frames[m].depth = Current.slots + 1
    BY <1>1, <2>1 DEF Aligned, Current
  <2>3. Current' = frames[m] BY <1>3, <2>1 DEF Current
  <2>4. top' = Current'.slots + Current'.depth BY <1>1, <2>2, <2>3
  <2>5. \A i \in 1..(m - 1) : i \in 1..m /\ i + 1 \in 1..m BY <2>1
  <2>6. \A i \in 1..m : frames[i].slots + frames[i].depth = frames[i + 1].slots + 1
    BY <1>1 DEF Aligned
  <2> HIDE DEF m
  <2>7. \A i \in 1..(m - 1) : frames'[i].slots + frames'[i].depth = frames'[i + 1].slots + 1
    BY <1>3, <2>5, <2>6
  <2> QED BY <1>3, <2>4, <2>7 DEF Aligned
<1> QED BY <1>4, <1>5

(* No step does otherwise. *)
LEMMA StepAligned ==
  ASSUME WellCounted, Discipline, Aligned, [Next]_vars
  PROVE  Aligned'
<1>1. CASE Start
  <2>1. top = 0 BY <1>1 DEF Start, Discipline
  <2>2. Len(frames') = 1 /\ frames'[1].slots = 0 /\ frames'[1].depth = 1 /\ top' = 1
    BY <1>1, <2>1 DEF Start
  <2> QED BY <2>2 DEF Aligned, Current
<1>2. CASE Finish BY <1>2 DEF Finish, Halt, Aligned
<1>3. CASE Instruction BY <1>3, InstructionAligned
<1>4. CASE Call BY <1>4, CallAligned
<1>5. CASE \E retCount \in {0, 1} : Return(retCount) BY <1>5, ReturnAligned
<1>6. CASE UNCHANGED vars BY <1>6 DEF vars, Aligned, Current
<1> QED BY <1>1, <1>2, <1>3, <1>4, <1>5, <1>6 DEF Next

(* In a well-counted program the stack is exactly as tall as the compiler    *)
(* counts, in the frame that runs and in every frame that waits: the slot    *)
(* given to the next variable is the one its value is pushed to.             *)
THEOREM AlwaysAligned == WellCounted /\ Spec => []Aligned
<1>1. Init => Aligned BY DEF Init, Aligned
<1>2. WellCounted /\ Discipline /\ Aligned /\ [Next]_vars => Aligned' BY StepAligned
<1>3. WellCounted => []WellCounted
  <2>1. WellCounted => WellCounted' BY DEF WellCounted, WellTyped
  <2> QED BY <2>1, PTL
<1>4. WellCounted => WellTyped BY DEF WellCounted
<1> QED BY <1>1, <1>2, <1>3, <1>4, AlwaysDiscipline, PTL DEF Spec
=============================================================================

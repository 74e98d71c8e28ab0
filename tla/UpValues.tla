------------------------------ MODULE UpValues ------------------------------
(***************************************************************************)
(* Captured variables as the virtual machine keeps them.                   *)
(*                                                                         *)
(* A variable is a slot of mValueStack.  A closure that captures it gets   *)
(* the one UpValueObject whose location is that slot, found in or put into *)
(* mOpenUpValues, a list linked from the highest slot down.  When the slot *)
(* goes, the object is taken off the list, copies the value and points to  *)
(* its own copy.                                                           *)
(*                                                                         *)
(* This implements SharedVariables.                                        *)
(***************************************************************************)
EXTENDS Naturals, Sequences, SequencesExt

CONSTANTS
  MaxStack,   \* bound on the slots of the value stack
  UpValueObjects, \* the UpValueObjects there can be at a time
  Captures,   \* the places ClosureObject::upvalues has for them
  Values,     \* what a slot can hold
  None,       \* no upvalue in such a place, or no value
  AnyBlock    \* the script has blocks that end in a variable no closure
              \* captures, under which is one that a closure has

ASSUME UpValuesAssumption ==
  /\ MaxStack \in Nat \ {0}
  /\ None \notin UpValueObjects /\ None \notin Values
  /\ Captures \cap Nat = {}
  /\ AnyBlock \in BOOLEAN

VARIABLES
  slots,      \* mValueStack, what lies above the top included
  top,        \* the slots below mStackTop
  openList,   \* mOpenUpValues and what nextUpValue leads to
  location,   \* UpValueObject::location
  closed,     \* UpValueObject::closed
  holds       \* ClosureObject::upvalues, of all closures

vars == <<slots, top, openList, location, closed, holds>>

Slots == 1..MaxStack

(* location = &closed *)
Itself == 0

TypeOK ==
  /\ slots \in [Slots -> Values]
  /\ top \in 0..MaxStack
  /\ openList \in Seq(UpValueObjects)
  /\ location \in [UpValueObjects -> 0..MaxStack]
  /\ closed \in [UpValueObjects -> Values \cup {None}]
  /\ holds \in [Captures -> UpValueObjects \cup {None}]

Init ==
  /\ \E v \in Values : slots = [s \in Slots |-> v]
  /\ top = 0
  /\ openList = <<>>
  /\ location = [u \in UpValueObjects |-> Itself]
  /\ closed = [u \in UpValueObjects |-> None]
  /\ holds = [k \in Captures |-> None]

-----------------------------------------------------------------------------
(* The list *)

(* Mutant: the walk goes past the upvalue it is looking for. *)
StopPast(s) ==
  CHOOSE i \in 1..(Len(openList) + 1) :
    /\ \A j \in 1..(i - 1) : location[openList[j]] >= s
    /\ i <= Len(openList) => location[openList[i]] < s

(* Where the walk of CaptureUpValue stops: at the first upvalue that is not *)
(* above slot s, or at the end.                                             *)
Stop(s) ==
  CHOOSE i \in 1..(Len(openList) + 1) :
    /\ \A j \in 1..(i - 1) : location[openList[j]] > s
    /\ i <= Len(openList) => location[openList[i]] <= s

(* How many upvalues ClosedUpValues takes off the front of the list. *)
Closing(first) ==
  CHOOSE i \in 0..Len(openList) :
    /\ \A j \in 1..i : location[openList[j]] >= first
    /\ i < Len(openList) => location[openList[i + 1]] < first

ClosedUpValues(first) ==
  /\ openList' = SubSeq(openList, Closing(first) + 1, Len(openList))
  /\ LET gone == {openList[i] : i \in 1..Closing(first)} IN
       /\ closed' = [u \in UpValueObjects |-> IF u \in gone THEN slots[location[u]] ELSE closed[u]]
       /\ location' = [u \in UpValueObjects |-> IF u \in gone THEN Itself ELSE location[u]]

(* An object that is neither open nor held by a closure: the collector has *)
(* freed it, or it was never made.                                         *)
Free(u) == location[u] = Itself /\ \A k \in Captures : holds[k] # u

-----------------------------------------------------------------------------
(* Instructions *)

(* Mutant: the bound of the stack is tested too late. *)
DeclareLate(v) ==
  /\ top <= MaxStack
  /\ top' = top + 1
  /\ slots' = [slots EXCEPT ![top + 1] = v]
  /\ UNCHANGED <<openList, location, closed, holds>>

(* A variable is declared: its initial value is pushed. *)
Declare(v) ==
  /\ top < MaxStack
  /\ top' = top + 1
  /\ slots' = [slots EXCEPT ![top + 1] = v]
  /\ UNCHANGED <<openList, location, closed, holds>>

(* Mutant: a new upvalue goes to the front of the list. *)
CaptureAtFront(s, k) ==
  /\ s <= top /\ holds[k] = None
  /\ LET i == Stop(s) IN
       IF i <= Len(openList) /\ location[openList[i]] = s
         THEN holds' = [holds EXCEPT ![k] = openList[i]] /\ UNCHANGED <<openList, location, closed>>
         ELSE \E u \in UpValueObjects :
                /\ Free(u)
                /\ location' = [location EXCEPT ![u] = s]
                /\ closed' = [closed EXCEPT ![u] = None]
                /\ openList' = <<u>> \o openList
                /\ holds' = [holds EXCEPT ![k] = u]
  /\ UNCHANGED <<slots, top>>

(* OP_CLOSURE gives a closure the upvalue of a slot: the one in the list, or *)
(* a new one at its place in it.                                             *)
Capture(s, k) ==
  /\ s <= top /\ holds[k] = None
  /\ LET i == Stop(s) IN
       IF i <= Len(openList) /\ location[openList[i]] = s
         THEN holds' = [holds EXCEPT ![k] = openList[i]] /\ UNCHANGED <<openList, location, closed>>
         ELSE \E u \in UpValueObjects :
                /\ Free(u)
                /\ location' = [location EXCEPT ![u] = s]
                /\ closed' = [closed EXCEPT ![u] = None]
                /\ openList' = InsertAt(openList, i, u)
                /\ holds' = [holds EXCEPT ![k] = u]
  /\ UNCHANGED <<slots, top>>

(* ... or the upvalue of the closure that runs. *)
Inherit(j, k) ==
  /\ holds[j] # None /\ holds[k] = None
  /\ holds' = [holds EXCEPT ![k] = holds[j]]
  /\ UNCHANGED <<slots, top, openList, location, closed>>

SetLocal(s, v) ==
  /\ s <= top
  /\ slots' = [slots EXCEPT ![s] = v]
  /\ UNCHANGED <<top, openList, location, closed, holds>>

SetUpValue(k, v) ==
  /\ holds[k] # None
  /\ LET u == holds[k] IN
       IF location[u] = Itself
         THEN closed' = [closed EXCEPT ![u] = v] /\ UNCHANGED slots
         ELSE slots' = [slots EXCEPT ![location[u]] = v] /\ UNCHANGED closed
  /\ UNCHANGED <<top, openList, location, holds>>

IsOpen(s) == \E i \in DOMAIN openList : location[openList[i]] = s

(* What the compiler makes of the end of a block of n variables: for each,  *)
(* first to last, OP_CLOSE_UPVALUE if a closure may have captured it and     *)
(* OP_POP otherwise.  Each instruction takes the topmost slot, so that the  *)
(* one for the i-th variable meets the i-th slot from the top: the last     *)
(* OP_CLOSE_UPVALUE closes what is from its slot on.                         *)
ExitScope(n, captured) ==
  /\ n <= top
  /\ \A i \in 1..n : IsOpen(top - n + i) => i \in captured
  /\ AnyBlock \/ n \in captured \/ captured = {}
  /\ IF captured = {}
       THEN UNCHANGED <<openList, location, closed>>
       ELSE \E last \in captured :
              /\ \A i \in captured : i <= last
              /\ ClosedUpValues(top - last + 1)
  /\ top' = top - n
  /\ UNCHANGED <<slots, holds>>

(* OP_RETURN closes what is from the frame's first slot on. *)
Return(first) ==
  /\ first <= top
  /\ ClosedUpValues(first)
  /\ top' = first - 1
  /\ UNCHANGED <<slots, holds>>

(* A closure is freed. *)
Forget(k) ==
  /\ holds[k] # None
  /\ holds' = [holds EXCEPT ![k] = None]
  /\ UNCHANGED <<slots, top, openList, location, closed>>

Next ==
  \/ \E v \in Values : Declare(v)
  \/ \E s \in Slots, k \in Captures : Capture(s, k)
  \/ \E j, k \in Captures : Inherit(j, k)
  \/ \E s \in Slots, v \in Values : SetLocal(s, v)
  \/ \E k \in Captures, v \in Values : SetUpValue(k, v)
  \/ \E n \in Slots : \E captured \in SUBSET (1..n) : ExitScope(n, captured)
  \/ \E s \in Slots : Return(s)
  \/ \E k \in Captures : Forget(k)

Spec == Init /\ [][Next]_vars

-----------------------------------------------------------------------------
(* Properties *)

(* The list goes from the highest slot down, has each slot and each upvalue  *)
(* once, and nothing above the top: what CaptureUpValue and ClosedUpValues    *)
(* rely on when they stop early.                                             *)
ListSorted ==
  /\ \A i \in DOMAIN openList : location[openList[i]] \in 1..top
  /\ \A i, j \in DOMAIN openList : i < j => location[openList[i]] > location[openList[j]]
  /\ \A u \in UpValueObjects : location[u] # Itself => \E i \in DOMAIN openList : openList[i] = u

(* The variables a script sees. *)
Used == 1..top \cup {k \in Captures : holds[k] # None}

SameVariable(m, n) ==
  \/ m = n
  \/ m \in Captures /\ n \in Captures /\ holds[m] = holds[n]
  \/ m \in Slots /\ n \in Captures /\ location[holds[n]] = m
  \/ m \in Captures /\ n \in Slots /\ location[holds[m]] = n

ValueOf(n) ==
  IF n \in Slots THEN slots[n]
  ELSE IF location[holds[n]] = Itself THEN closed[holds[n]] ELSE slots[location[holds[n]]]

Names == Slots \cup Captures

SameNames == [n \in Names |-> IF n \in Used THEN {m \in Used : SameVariable(m, n)} ELSE {}]
ValueNow  == [n \in Names |-> IF n \in Used THEN ValueOf(n) ELSE None]

Variables == INSTANCE SharedVariables WITH same <- SameNames, value <- ValueNow

(* Every instruction does to the variables what the script expects of it:    *)
(* a captured variable is shared, assigned and outlives its block as one     *)
(* (SharedVariables; Allocator::CaptureUpValue, ClosedUpValues).             *)
SharesVariables == Variables!Spec
=============================================================================

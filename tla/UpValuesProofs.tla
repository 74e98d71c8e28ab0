---------------------------- MODULE UpValuesProofs ----------------------------
(***************************************************************************)
(* The list of open upvalues stays sorted, and it implements shared        *)
(* variables, for any stack, upvalues, closures and values, in scripts     *)
(* whose blocks end in a captured variable or have none.                   *)
(***************************************************************************)
EXTENDS UpValues, SequenceTheorems, WellFoundedInduction, TLAPS

-----------------------------------------------------------------------------
(* The list *)

(* What InsertAt gives. *)
LEMMA InsertAtProperties ==
  ASSUME NEW S, NEW q \in Seq(S), NEW i \in 1..(Len(q) + 1), NEW e \in S
  PROVE  /\ InsertAt(q, i, e) \in Seq(S)
         /\ Len(InsertAt(q, i, e)) = Len(q) + 1
         /\ \A j \in 1..(Len(q) + 1) :
              InsertAt(q, i, e)[j] = IF j < i THEN q[j] ELSE IF j = i THEN e ELSE q[j - 1]
<1>1. Len(q) \in Nat /\ \A j \in 1..Len(q) : q[j] \in S BY LenProperties, ElementOfSeq
<1>2. PICK p : p = SubSeq(q, 1, i - 1) OBVIOUS
<1>3. PICK r : r = SubSeq(q, i, Len(q)) OBVIOUS
<1>4. /\ p \in Seq(S) /\ Len(p) = i - 1
      /\ \A j \in 1..(i - 1) : p[j] = q[j]
  <2>1. 1 \in Int /\ i - 1 \in Int /\ \A j \in 1..(i - 1) : q[j] \in S BY <1>1
  <2> QED BY <1>2, <2>1, SubSeqProperties
<1>5. /\ r \in Seq(S) /\ Len(r) = Len(q) - i + 1
      /\ \A j \in 1..(Len(q) - i + 1) : r[j] = q[i + j - 1]
  <2>1. i \in Int /\ Len(q) \in Int /\ \A j \in i..Len(q) : q[j] \in S BY <1>1
  <2>2. /\ r \in Seq(S) /\ Len(r) = IF i <= Len(q) THEN Len(q) - i + 1 ELSE 0
        /\ \A j \in 1..(Len(q) - i + 1) : r[j] = q[i + j - 1]
    BY <1>3, <2>1, SubSeqProperties
  <2> QED BY <2>1, <2>2, <1>1
<1>6. PICK o : o = p \o <<e>> OBVIOUS
<1>7. /\ o \in Seq(S) /\ Len(o) = i
      /\ \A j \in 1..i : o[j] = IF j < i THEN q[j] ELSE e
  <2>1. <<e>> \in Seq(S) /\ Len(<<e>>) = 1 /\ <<e>>[1] = e OBVIOUS
  <2>2. /\ o \in Seq(S) /\ Len(o) = Len(p) + 1
        /\ \A j \in 1..(Len(p) + 1) : o[j] = IF j <= Len(p) THEN p[j] ELSE <<e>>[j - Len(p)]
    BY <1>4, <1>6, <2>1, ConcatProperties
  <2>3. i \in Nat /\ i - 1 + 1 = i /\ \A j \in 1..i : (j <= i - 1 <=> j < i) /\ (j >= i => j - (i - 1) = 1)
    BY <1>1
  <2>4. o \in Seq(S) /\ Len(o) = i BY <1>4, <2>2, <2>3
  <2>5. ASSUME NEW j \in 1..i PROVE o[j] = IF j < i THEN q[j] ELSE e
    <3>1. o[j] = IF j <= i - 1 THEN p[j] ELSE <<e>>[j - (i - 1)] BY <1>4, <2>2, <2>3
    <3>2. CASE j < i
      <4>1. j \in 1..(i - 1) BY <3>2, <1>1
      <4> QED BY <3>1, <3>2, <4>1, <1>4, <2>3
    <3>3. CASE ~(j < i)
      <4>1. j - (i - 1) = 1 /\ ~(j <= i - 1) BY <3>3, <1>1
      <4> QED BY <3>1, <3>3, <4>1, <2>1
    <3> QED BY <3>2, <3>3
  <2> QED BY <2>4, <2>5
<1>8. InsertAt(q, i, e) = o \o r BY <1>2, <1>3, <1>6 DEF InsertAt
<1>9. /\ o \o r \in Seq(S) /\ Len(o \o r) = Len(q) + 1
      /\ \A j \in 1..(Len(q) + 1) : (o \o r)[j] = IF j <= i THEN o[j] ELSE r[j - i]
  <2>1. Len(o) + Len(r) = Len(q) + 1 BY <1>1, <1>5, <1>7
  <2> QED BY <1>5, <1>7, <2>1, ConcatProperties
<1>10. ASSUME NEW j \in 1..(Len(q) + 1)
       PROVE  (o \o r)[j] = IF j < i THEN q[j] ELSE IF j = i THEN e ELSE q[j - 1]
  <2>1. CASE j <= i
    <3>1. j \in 1..i BY <2>1, <1>1
    <3>2. (o \o r)[j] = o[j] BY <2>1, <1>9
    <3>3. o[j] = IF j < i THEN q[j] ELSE e BY <3>1, <1>7
    <3>4. j < i \/ j = i BY <2>1, <1>1
    <3> QED BY <3>2, <3>3, <3>4
  <2>2. CASE ~(j <= i)
    <3>1. j - i \in 1..(Len(q) - i + 1) /\ i + (j - i) - 1 = j - 1 /\ ~(j < i) /\ j # i BY <2>2, <1>1
    <3>2. (o \o r)[j] = r[j - i] BY <2>2, <1>9
    <3>3. r[j - i] = q[i + (j - i) - 1] BY <3>1, <1>5
    <3> QED BY <3>1, <3>2, <3>3
  <2> QED BY <2>1, <2>2
<1> QED BY <1>8, <1>9, <1>10

(* Every set of numbers has a least one. *)
LEMMA LeastNatural == ASSUME NEW T \in SUBSET Nat, T # {} PROVE \E n \in T : \A m \in T : n <= m
<1>1. PICK R : R = OpToRel(<, Nat) OBVIOUS
<1>2. R = {ss \in Nat \X Nat : ss[1] < ss[2]} BY <1>1 DEF OpToRel
<1>3. IsWellFoundedOn(R, Nat) BY <1>1, NatLessThanWellFounded
<1>4. PICK n \in T : \A m \in T : ~ (<<m, n>> \in R) BY <1>3, WFMin
<1>5. \A m \in T : n <= m
  <2> SUFFICES ASSUME NEW m \in T PROVE n <= m OBVIOUS
  <2>1. ~ (<<m, n>> \in R) BY <1>4
  <2>2. m \in Nat /\ n \in Nat OBVIOUS
  <2>3. ~ (m < n) BY <1>2, <2>1, <2>2
  <2> QED BY <2>2, <2>3
<1> QED BY <1>5

(* The inductive invariant. *)
Inv == TypeOK /\ ListSorted

(* The inductive invariant has the types. *)
LEMMA InvTyped == Inv => TypeOK
BY DEF Inv

(* What its type says of the list. *)
LEMMA ListTyped ==
  ASSUME TypeOK
  PROVE  /\ top \in 0..MaxStack /\ MaxStack \in Nat
         /\ Len(openList) \in Nat /\ DOMAIN openList = 1..Len(openList)
         /\ \A i \in 1..Len(openList) :
              openList[i] \in UpValueObjects /\ location[openList[i]] \in 0..MaxStack
<1>1. /\ top \in 0..MaxStack /\ openList \in Seq(UpValueObjects) /\ MaxStack \in Nat
      /\ location \in [UpValueObjects -> 0..MaxStack]
  BY UpValuesAssumption DEF TypeOK
<1>2. /\ Len(openList) \in Nat /\ DOMAIN openList = 1..Len(openList)
      /\ \A i \in 1..Len(openList) : openList[i] \in UpValueObjects
  BY <1>1, LenProperties, ElementOfSeq
<1> QED BY <1>1, <1>2

(* What the list says of the objects. *)
LEMMA ListFacts ==
  ASSUME Inv
  PROVE  /\ top \in 0..MaxStack /\ MaxStack \in Nat
         /\ Len(openList) \in Nat /\ DOMAIN openList = 1..Len(openList)
         /\ \A i \in 1..Len(openList) : openList[i] \in UpValueObjects /\ location[openList[i]] \in 1..top
         /\ \A i, j \in 1..Len(openList) : i < j => location[openList[i]] > location[openList[j]]
         /\ \A u \in UpValueObjects : /\ location[u] \in 0..top
                                      /\ location[u] # 0 => \E i \in 1..Len(openList) : openList[i] = u
         /\ \A u, w \in UpValueObjects : location[u] # 0 /\ location[u] = location[w] => u = w
<1>1. /\ top \in 0..MaxStack /\ openList \in Seq(UpValueObjects) /\ MaxStack \in Nat
      /\ location \in [UpValueObjects -> 0..MaxStack]
  BY UpValuesAssumption DEF Inv, TypeOK
<1>2. /\ Len(openList) \in Nat /\ DOMAIN openList = 1..Len(openList)
      /\ \A i \in 1..Len(openList) : openList[i] \in UpValueObjects
  BY <1>1, LenProperties, ElementOfSeq
<1>3. \A i \in 1..Len(openList) : location[openList[i]] \in 1..top BY <1>2 DEF Inv, ListSorted
<1>4. \A i, j \in 1..Len(openList) : i < j => location[openList[i]] > location[openList[j]]
  BY <1>2 DEF Inv, ListSorted
<1>5. \A u \in UpValueObjects : location[u] # 0 => \E i \in 1..Len(openList) : openList[i] = u
  BY <1>2 DEF Inv, ListSorted, Itself
<1>6. ASSUME NEW u \in UpValueObjects PROVE location[u] \in 0..top BY <1>1, <1>3, <1>5
<1>7. ASSUME NEW u \in UpValueObjects, NEW w \in UpValueObjects, location[u] # 0, location[u] = location[w]
      PROVE  u = w
  <2>1. PICK i \in 1..Len(openList) : openList[i] = u BY <1>5, <1>7
  <2>2. PICK j \in 1..Len(openList) : openList[j] = w BY <1>5, <1>7
  <2>3. location[u] \in Nat /\ ~(location[u] > location[w]) /\ ~(location[w] > location[u]) BY <1>1, <1>7
  <2>4. ~(i < j) /\ ~(j < i) BY <1>4, <2>1, <2>2, <2>3
  <2>5. i = j BY <2>4, <1>2
  <2> QED BY <2>1, <2>2, <2>5
<1> QED BY <1>1, <1>2, <1>3, <1>4, <1>5, <1>6, <1>7

(* The walk of CaptureUpValue ends where it should. *)
LEMMA StopIs ==
  ASSUME TypeOK, NEW s \in Slots
  PROVE  /\ Stop(s) \in 1..(Len(openList) + 1)
         /\ \A j \in 1..(Stop(s) - 1) : location[openList[j]] > s
         /\ Stop(s) <= Len(openList) => location[openList[Stop(s)]] <= s
<1>1. PICK len \in Nat : len = Len(openList) BY ListTyped
<1>2. \A i \in 1..len : location[openList[i]] \in Nat BY <1>1, ListTyped
<1>3. s \in Nat BY UpValuesAssumption DEF Slots
<1>4. PICK T : T = {i \in 1..(len + 1) : i <= len => location[openList[i]] <= s} OBVIOUS
<1>5. len + 1 \in T /\ T \in SUBSET Nat BY <1>1, <1>4
<1>6. PICK n \in T : \A m \in T : n <= m BY <1>5, LeastNatural
<1>7. ASSUME NEW j \in 1..(n - 1) PROVE location[openList[j]] > s
  <2>1. j \in 1..len /\ ~(n <= j) BY <1>1, <1>4, <1>6
  <2>2. j \notin T BY <1>6, <2>1
  <2>3. ~(location[openList[j]] <= s) BY <1>4, <2>1, <2>2
  <2> QED BY <1>2, <1>3, <2>1, <2>3
<1> DEFINE P(i) == /\ \A j \in 1..(i - 1) : location[openList[j]] > s
                   /\ i <= Len(openList) => location[openList[i]] <= s
<1>8. \E i \in 1..(Len(openList) + 1) : P(i) BY <1>1, <1>4, <1>6, <1>7
<1>9. Stop(s) = CHOOSE i \in 1..(Len(openList) + 1) : P(i) BY DEF Stop
<1>10. Stop(s) \in 1..(Len(openList) + 1) /\ P(Stop(s))
  <2> HIDE DEF P
  <2> QED BY <1>8, <1>9
<1> QED BY <1>10

(* And so does that of ClosedUpValues. *)
LEMMA ClosingIs ==
  ASSUME TypeOK, NEW first \in Slots
  PROVE  /\ Closing(first) \in 0..Len(openList)
         /\ \A j \in 1..Closing(first) : location[openList[j]] >= first
         /\ Closing(first) < Len(openList) => location[openList[Closing(first) + 1]] < first
<1>1. PICK len \in Nat : len = Len(openList) BY ListTyped
<1>2. \A i \in 1..len : location[openList[i]] \in Nat BY <1>1, ListTyped
<1>3. first \in Nat BY UpValuesAssumption DEF Slots
<1>4. PICK T : T = {i \in 0..len : i < len => location[openList[i + 1]] < first} OBVIOUS
<1>5. len \in T /\ T \in SUBSET Nat BY <1>1, <1>4
<1>6. PICK n \in T : \A m \in T : n <= m BY <1>5, LeastNatural
<1>7. ASSUME NEW j \in 1..n PROVE location[openList[j]] >= first
  <2>1. j \in 1..len /\ j - 1 \in 0..len /\ j - 1 < len /\ (j - 1) + 1 = j /\ ~(n <= j - 1)
    BY <1>1, <1>4, <1>6
  <2>2. j - 1 \notin T BY <1>6, <2>1
  <2>3. ~(location[openList[j]] < first) BY <1>4, <2>1, <2>2
  <2> QED BY <1>2, <1>3, <2>1, <2>3
<1> DEFINE P(i) == /\ \A j \in 1..i : location[openList[j]] >= first
                   /\ i < Len(openList) => location[openList[i + 1]] < first
<1>8. \E i \in 0..Len(openList) : P(i) BY <1>1, <1>4, <1>6, <1>7
<1>9. Closing(first) = CHOOSE i \in 0..Len(openList) : P(i) BY DEF Closing
<1>10. Closing(first) \in 0..Len(openList) /\ P(Closing(first))
  <2> HIDE DEF P
  <2> QED BY <1>8, <1>9
<1> QED BY <1>10

-----------------------------------------------------------------------------
(* Types, of every script *)

(* A captured slot keeps types, whether its upvalue is new or not. *)
LEMMA CaptureTyped ==
  ASSUME TypeOK, NEW s \in Slots, NEW k \in Captures, Capture(s, k)
  PROVE  TypeOK'
<1>1. UNCHANGED <<slots, top>> BY DEF Capture
<1>2. CASE /\ Stop(s) <= Len(openList)
           /\ holds' = [holds EXCEPT ![k] = openList[Stop(s)]]
           /\ UNCHANGED <<openList, location, closed>>
  <2>1. openList[Stop(s)] \in UpValueObjects BY <1>2, StopIs, ListTyped
  <2> QED BY <1>1, <1>2, <2>1 DEF TypeOK
<1>3. CASE \E u \in UpValueObjects :
             /\ location' = [location EXCEPT ![u] = s]
             /\ closed' = [closed EXCEPT ![u] = None]
             /\ openList' = InsertAt(openList, Stop(s), u)
             /\ holds' = [holds EXCEPT ![k] = u]
  <2>1. PICK u \in UpValueObjects :
             /\ location' = [location EXCEPT ![u] = s]
             /\ closed' = [closed EXCEPT ![u] = None]
             /\ openList' = InsertAt(openList, Stop(s), u)
             /\ holds' = [holds EXCEPT ![k] = u]
    BY <1>3
  <2>2. openList' \in Seq(UpValueObjects)
    <3>1. openList \in Seq(UpValueObjects) /\ Stop(s) \in 1..(Len(openList) + 1)
      BY StopIs DEF TypeOK
    <3> QED BY <2>1, <3>1, InsertAtProperties
  <2>3. s \in 0..MaxStack BY UpValuesAssumption DEF Slots
  <2> QED BY <1>1, <2>1, <2>2, <2>3 DEF TypeOK
<1> QED BY <1>2, <1>3 DEF Capture

(* Whatever ClosedUpValues takes off the list points to a slot. *)
LEMMA ClosedTyped ==
  ASSUME TypeOK, NEW first \in Slots, ClosedUpValues(first), UNCHANGED <<slots, holds>>,
         top' \in 0..MaxStack
  PROVE  TypeOK'
<1>1. PICK c \in 0..Len(openList) : c = Closing(first) BY ClosingIs
<1>2. PICK gone : gone = {openList[i] : i \in 1..c} OBVIOUS
<1>3. /\ openList' = SubSeq(openList, c + 1, Len(openList))
      /\ closed' = [u \in UpValueObjects |-> IF u \in gone THEN slots[location[u]] ELSE closed[u]]
      /\ location' = [u \in UpValueObjects |-> IF u \in gone THEN 0 ELSE location[u]]
  BY <1>1, <1>2 DEF ClosedUpValues, Itself
<1>4. first \in 1..MaxStack /\ MaxStack \in Nat BY UpValuesAssumption DEF Slots
<1>5. openList' \in Seq(UpValueObjects)
  <2>1. PICK q : q = openList OBVIOUS
  <2>2. /\ c + 1 \in Int /\ Len(q) \in Int
        /\ \A j \in (c + 1)..Len(q) : q[j] \in UpValueObjects
    BY <2>1, <1>1, ListTyped
  <2> QED BY <1>3, <2>1, <2>2, SubSeqProperties
<1>6. location' \in [UpValueObjects -> 0..MaxStack] BY <1>3, <1>4 DEF TypeOK
<1>7. closed' \in [UpValueObjects -> Values \cup {None}]
  <2>1. ASSUME NEW u \in gone PROVE slots[location[u]] \in Values
    <3>1. PICK i \in 1..c : u = openList[i] BY <1>2
    <3>2. i \in 1..Len(openList) BY <1>1, ListTyped
    <3>3. location[u] \in 0..MaxStack /\ location[u] >= first
      BY <1>1, <3>1, <3>2, ClosingIs, ListTyped
    <3>4. location[u] \in Slots BY <1>4, <3>3 DEF Slots
    <3> QED BY <3>4 DEF TypeOK
  <2> QED BY <1>3, <2>1 DEF TypeOK
<1> QED BY <1>5, <1>6, <1>7 DEF TypeOK

(* Every step keeps types. *)
LEMMA StepTyped == ASSUME TypeOK, [Next]_vars PROVE TypeOK'
<1>1. top \in 0..MaxStack /\ MaxStack \in Nat BY ListTyped
<1>2. ASSUME NEW v \in Values, Declare(v) PROVE TypeOK'
  <2>1. top' = top + 1 /\ top < MaxStack /\ slots' = [slots EXCEPT ![top + 1] = v]
        /\ UNCHANGED <<openList, location, closed, holds>>
    BY <1>2 DEF Declare
  <2>2. top' \in 0..MaxStack BY <1>1, <2>1
  <2> QED BY <2>1, <2>2 DEF TypeOK
<1>3. ASSUME NEW s \in Slots, NEW k \in Captures, Capture(s, k) PROVE TypeOK' BY <1>3, CaptureTyped
<1>4. ASSUME NEW j \in Captures, NEW k \in Captures, Inherit(j, k) PROVE TypeOK'
  BY <1>4 DEF Inherit, TypeOK
<1>5. ASSUME NEW s \in Slots, NEW v \in Values, SetLocal(s, v) PROVE TypeOK'
  BY <1>5 DEF SetLocal, TypeOK
<1>6. ASSUME NEW k \in Captures, NEW v \in Values, SetUpValue(k, v) PROVE TypeOK'
  BY <1>6 DEF SetUpValue, TypeOK
<1>7. ASSUME NEW n \in Slots, NEW captured \in SUBSET (1..n), ExitScope(n, captured) PROVE TypeOK'
  <2>1. n \in 1..MaxStack /\ n <= top /\ top' = top - n /\ UNCHANGED <<slots, holds>>
    BY <1>7 DEF ExitScope, Slots
  <2>2. top' \in 0..MaxStack BY <1>1, <2>1
  <2>3. CASE UNCHANGED <<openList, location, closed>> BY <2>1, <2>2, <2>3 DEF TypeOK
  <2>4. CASE \E last \in captured : ClosedUpValues(top - last + 1)
    <3>1. PICK last \in captured : ClosedUpValues(top - last + 1) BY <2>4
    <3>2. last \in 1..n BY <3>1
    <3>3. top - last + 1 \in Slots BY <1>1, <2>1, <3>2 DEF Slots
    <3> QED BY <2>1, <2>2, <3>1, <3>3, ClosedTyped
  <2> QED BY <1>7, <2>3, <2>4 DEF ExitScope
<1>8. ASSUME NEW s \in Slots, Return(s) PROVE TypeOK'
  <2>1. ClosedUpValues(s) /\ top' = s - 1 /\ UNCHANGED <<slots, holds>> BY <1>8 DEF Return
  <2>2. top' \in 0..MaxStack BY <1>1, <2>1 DEF Slots
  <2> QED BY <2>1, <2>2, ClosedTyped
<1>9. ASSUME NEW k \in Captures, Forget(k) PROVE TypeOK'
  BY <1>9 DEF Forget, TypeOK
<1>10. CASE UNCHANGED vars BY <1>10 DEF vars, TypeOK
<1> QED BY <1>2, <1>3, <1>4, <1>5, <1>6, <1>7, <1>8, <1>9, <1>10 DEF Next

(* They hold at first. *)
LEMMA InitTyped == Init => TypeOK
<1> SUFFICES ASSUME Init PROVE TypeOK OBVIOUS
<1>1. 0 \in 0..MaxStack /\ openList \in Seq(UpValueObjects) BY UpValuesAssumption, EmptySeq DEF Init
<1> QED BY <1>1 DEF Init, TypeOK, Itself

(* In every script, also one whose blocks leave upvalues open above the top, *)
(* an upvalue points into the value stack or to itself, and what             *)
(* ClosedUpValues copies is the value of a slot.                             *)
THEOREM TypeCorrect == Spec => []TypeOK
<1> QED BY InitTyped, StepTyped, PTL DEF Spec

-----------------------------------------------------------------------------
(* What the instructions do to a sorted list *)

(* What capturing a slot does: it gives the one object that is open on it,   *)
(* or opens a free one.                                                      *)
LEMMA CaptureEffect ==
  ASSUME Inv, NEW s \in Slots, NEW k \in Captures, Capture(s, k)
  PROVE  \/ \E u \in UpValueObjects :
              /\ location[u] = s
              /\ holds' = [holds EXCEPT ![k] = u]
              /\ UNCHANGED <<openList, location, closed>>
         \/ \E u \in UpValueObjects :
              /\ Free(u) /\ \A w \in UpValueObjects : location[w] # s
              /\ holds' = [holds EXCEPT ![k] = u]
              /\ location' = [location EXCEPT ![u] = s]
              /\ closed' = [closed EXCEPT ![u] = None]
              /\ openList' = InsertAt(openList, Stop(s), u)
<1>1. CASE Stop(s) <= Len(openList) /\ location[openList[Stop(s)]] = s
  <2>1. Stop(s) \in 1..Len(openList) BY <1>1, InvTyped, StopIs, ListFacts
  <2>2. openList[Stop(s)] \in UpValueObjects BY <2>1, ListFacts
  <2>3. holds' = [holds EXCEPT ![k] = openList[Stop(s)]] /\ UNCHANGED <<openList, location, closed>>
    BY <1>1 DEF Capture
  <2> QED BY <1>1, <2>2, <2>3
<1>2. CASE ~(Stop(s) <= Len(openList) /\ location[openList[Stop(s)]] = s)
  <2>1. PICK u \in UpValueObjects :
          /\ Free(u)
          /\ holds' = [holds EXCEPT ![k] = u]
          /\ location' = [location EXCEPT ![u] = s]
          /\ closed' = [closed EXCEPT ![u] = None]
          /\ openList' = InsertAt(openList, Stop(s), u)
    BY <1>2 DEF Capture
  <2>2. ASSUME NEW w \in UpValueObjects, location[w] = s PROVE FALSE
    <3>1. s \in Nat /\ s # 0 BY UpValuesAssumption DEF Slots
    <3>2. PICK j \in 1..Len(openList) : openList[j] = w BY <2>2, <3>1, ListFacts
    <3>3. PICK i \in 1..(Len(openList) + 1) : i = Stop(s) BY InvTyped, StopIs
    <3>4. /\ \A m \in 1..(i - 1) : location[openList[m]] > s
          /\ i <= Len(openList) => location[openList[i]] <= s
      BY <3>3, InvTyped, StopIs
    <3>5. Len(openList) \in Nat /\ j \notin 1..(i - 1) BY <2>2, <3>1, <3>2, <3>4, ListFacts
    <3>6. i <= j /\ i \in 1..Len(openList) BY <3>3, <3>5
    <3>7. location[openList[i]] <= s /\ location[openList[i]] # s BY <1>2, <3>3, <3>4, <3>6
    <3>8. i < j BY <2>2, <3>2, <3>6, <3>7
    <3>9. location[openList[i]] > s /\ location[openList[i]] \in Nat BY <2>2, <3>2, <3>6, <3>8, ListFacts
    <3> QED BY <3>1, <3>7, <3>9
  <2> QED BY <2>1, <2>2
<1> QED BY <1>1, <1>2

(* What closing does: exactly the objects open from a slot on are closed,    *)
(* with the value of their slot, and the others stay in the list in order.   *)
LEMMA ClosedEffect ==
  ASSUME Inv, NEW first \in Slots, ClosedUpValues(first)
  PROVE  /\ \A u \in UpValueObjects :
              /\ location'[u] = IF location[u] >= first THEN 0 ELSE location[u]
              /\ closed'[u] = IF location[u] >= first THEN slots[location[u]] ELSE closed[u]
         /\ openList' = SubSeq(openList, Closing(first) + 1, Len(openList))
         /\ \A i \in 1..Len(openList) : i > Closing(first) <=> location[openList[i]] < first
<1>1. PICK c \in 0..Len(openList) : c = Closing(first) BY InvTyped, ClosingIs
<1>2. /\ \A j \in 1..c : location[openList[j]] >= first
      /\ c < Len(openList) => location[openList[c + 1]] < first
  BY <1>1, InvTyped, ClosingIs
<1>3. first \in Nat /\ first # 0 /\ Len(openList) \in Nat BY UpValuesAssumption, ListFacts DEF Slots
<1>4. ASSUME NEW i \in 1..Len(openList) PROVE i > c <=> location[openList[i]] < first
  <2>1. location[openList[i]] \in Nat BY ListFacts
  <2>2. CASE i > c
    <3>1. c < Len(openList) /\ c + 1 \in 1..Len(openList) BY <2>2, <1>1, <1>3
    <3>2. i = c + 1 \/ c + 1 < i BY <2>2, <1>1, <1>3
    <3>3. location[openList[c + 1]] < first /\ location[openList[c + 1]] \in Nat BY <3>1, <1>2, ListFacts
    <3>4. c + 1 < i => location[openList[c + 1]] > location[openList[i]] BY <3>1, ListFacts
    <3> QED BY <2>1, <2>2, <3>2, <3>3, <3>4, <1>3
  <2>3. CASE ~(i > c)
    <3>1. i \in 1..c BY <2>3, <1>1, <1>3
    <3> QED BY <2>1, <2>3, <3>1, <1>2, <1>3
  <2> QED BY <2>2, <2>3
<1>5. PICK gone : gone = {openList[i] : i \in 1..c} OBVIOUS
<1>6. ASSUME NEW u \in UpValueObjects, u \in gone PROVE location[u] >= first
  BY <1>2, <1>5, <1>6
<1>8. ASSUME NEW u \in UpValueObjects, location[u] >= first PROVE u \in gone
  <2>1. location[u] \in Nat /\ location[u] # 0 BY <1>3, <1>8, ListFacts
  <2>2. PICK i \in 1..Len(openList) : openList[i] = u BY <2>1, ListFacts
  <2>3. ~(location[openList[i]] < first) BY <2>1, <1>8, <2>2, <1>3
  <2>4. i \in 1..c BY <2>3, <1>1, <1>3, <1>4
  <2> QED BY <2>2, <2>4, <1>5
<1>7. /\ openList' = SubSeq(openList, Closing(first) + 1, Len(openList))
      /\ closed' = [u \in UpValueObjects |-> IF u \in gone THEN slots[location[u]] ELSE closed[u]]
      /\ location' = [u \in UpValueObjects |-> IF u \in gone THEN 0 ELSE location[u]]
  BY <1>1, <1>5 DEF ClosedUpValues, Itself
<1>9. ASSUME NEW u \in UpValueObjects
      PROVE  /\ location'[u] = IF location[u] >= first THEN 0 ELSE location[u]
             /\ closed'[u] = IF location[u] >= first THEN slots[location[u]] ELSE closed[u]
  BY <1>6, <1>7, <1>8
<1> QED BY <1>1, <1>4, <1>7, <1>9

-----------------------------------------------------------------------------
(* The invariant *)

(* At first the list is empty. *)
LEMMA InitInv == Init => Inv
<1> SUFFICES ASSUME Init PROVE Inv OBVIOUS
<1>2. openList = <<>> /\ Len(openList) = 0 /\ DOMAIN openList = {}
  BY EmptySeq DEF Init
<1>3. TypeOK BY InitTyped
<1>4. ListSorted BY <1>2 DEF Init, ListSorted, Itself
<1> QED BY <1>3, <1>4 DEF Inv

(* The list stays sorted when its objects keep their slots and those slots  *)
(* stay below the top.                                                       *)
LEMMA SameList ==
  ASSUME Inv, UNCHANGED <<openList, location>>, top' \in top..MaxStack
  PROVE  ListSorted'
<1>1. top \in Nat /\ MaxStack \in Nat BY ListFacts
<1>2. 1..top \subseteq 1..top' BY <1>1
<1> QED BY <1>2 DEF Inv, ListSorted

(* Opening an object keeps the list sorted. *)
LEMMA CaptureKeeps ==
  ASSUME Inv, NEW s \in Slots, NEW k \in Captures, Capture(s, k)
  PROVE  Inv'
<1>1. UNCHANGED <<slots, top>> /\ s <= top BY DEF Capture
<1>2. top' \in top..MaxStack BY <1>1, ListFacts
<1>3. CASE \E u \in UpValueObjects :
             /\ location[u] = s
             /\ holds' = [holds EXCEPT ![k] = u]
             /\ UNCHANGED <<openList, location, closed>>
  <2>1. TypeOK' BY InvTyped, CaptureTyped
  <2>2. ListSorted' BY <1>2, <1>3, SameList
  <2> QED BY <2>1, <2>2 DEF Inv
<1>4. CASE \E u \in UpValueObjects :
             /\ Free(u) /\ \A w \in UpValueObjects : location[w] # s
             /\ holds' = [holds EXCEPT ![k] = u]
             /\ location' = [location EXCEPT ![u] = s]
             /\ closed' = [closed EXCEPT ![u] = None]
             /\ openList' = InsertAt(openList, Stop(s), u)
  <2>1. PICK u \in UpValueObjects :
             /\ Free(u) /\ \A w \in UpValueObjects : location[w] # s
             /\ holds' = [holds EXCEPT ![k] = u]
             /\ location' = [location EXCEPT ![u] = s]
             /\ closed' = [closed EXCEPT ![u] = None]
             /\ openList' = InsertAt(openList, Stop(s), u)
    BY <1>4
  <2>2. PICK len \in Nat : len = Len(openList) BY ListFacts
  <2>3. PICK i \in 1..(len + 1) : i = Stop(s) BY <2>2, InvTyped, StopIs
  <2>4. /\ \A j \in 1..(i - 1) : location[openList[j]] > s
        /\ i <= len => location[openList[i]] <= s
    BY <2>2, <2>3, InvTyped, StopIs
  <2>5. /\ openList' \in Seq(UpValueObjects) /\ Len(openList') = len + 1
        /\ \A j \in 1..(len + 1) :
             openList'[j] = IF j < i THEN openList[j] ELSE IF j = i THEN u ELSE openList[j - 1]
    <3>1. openList \in Seq(UpValueObjects) BY DEF Inv, TypeOK
    <3>2. i \in 1..(Len(openList) + 1) BY <2>2, <2>3
    <3>3. openList' = InsertAt(openList, i, u) BY <2>1, <2>3
    <3>4. /\ InsertAt(openList, i, u) \in Seq(UpValueObjects)
          /\ Len(InsertAt(openList, i, u)) = Len(openList) + 1
          /\ \A j \in 1..(Len(openList) + 1) :
               InsertAt(openList, i, u)[j] = IF j < i THEN openList[j] ELSE IF j = i THEN u ELSE openList[j - 1]
      BY <3>1, <3>2, InsertAtProperties
    <3> QED BY <2>2, <3>3, <3>4
  <2>6. /\ s \in 1..top /\ s \in 0..MaxStack /\ top \in Nat
    BY <1>1, UpValuesAssumption, ListFacts DEF Slots
  <2>7. TypeOK' BY InvTyped, CaptureTyped
  <2>8. /\ \A j \in 1..len : openList[j] \in UpValueObjects /\ openList[j] # u
        /\ \A w \in UpValueObjects : location'[w] = IF w = u THEN s ELSE location[w]
    <3>1. location[u] = 0 BY <2>1 DEF Free, Itself
    <3>2. \A j \in 1..len : openList[j] \in UpValueObjects /\ location[openList[j]] # 0
      BY <2>2, ListFacts
    <3> QED BY <3>1, <3>2, <2>1 DEF Inv, TypeOK
  <2>9. \A j \in 1..len : location'[openList[j]] = location[openList[j]] /\ location[openList[j]] \in 1..top
    BY <2>2, <2>8, ListFacts
  <2>10. DOMAIN openList' = 1..(len + 1) BY <2>5, LenProperties
  <2>11. ASSUME NEW j \in 1..(len + 1)
         PROVE  /\ location'[openList'[j]] \in 1..top
                /\ j < i => j \in 1..len /\ location'[openList'[j]] = location[openList[j]]
                /\ j = i => location'[openList'[j]] = s
                /\ j > i => j - 1 \in 1..len /\ location'[openList'[j]] = location[openList[j - 1]]
    <3>1. CASE j < i
      <4>1. j \in 1..len BY <3>1, <2>2, <2>3
      <4> QED BY <3>1, <4>1, <2>5, <2>9, <2>3
    <3>2. CASE j = i BY <3>2, <2>3, <2>5, <2>6, <2>8
    <3>3. CASE j > i
      <4>1. j - 1 \in 1..len /\ ~(j < i) /\ j # i BY <3>3, <2>2, <2>3
      <4> QED BY <4>1, <3>3, <2>5, <2>9, <2>3
    <3> QED BY <3>1, <3>2, <3>3, <2>3
  <2>12. ASSUME NEW j \in 1..(len + 1), NEW m \in 1..(len + 1), j < m
         PROVE  location'[openList'[j]] > location'[openList'[m]]
    <3>1. \A x \in 1..len : location[openList[x]] \in Nat /\ location[openList[x]] # s
      BY <2>1, <2>2, <2>8, ListFacts
    <3>2. \A x \in 1..len : x >= i => location[openList[x]] < s
      <4> SUFFICES ASSUME NEW x \in 1..len, x >= i PROVE location[openList[x]] < s OBVIOUS
      <4>1. i \in 1..len /\ location[openList[i]] <= s BY <2>3, <2>4
      <4>2. i < x => location[openList[i]] > location[openList[x]] BY <2>2, <4>1, ListFacts
      <4>3. i = x \/ i < x BY <2>3
      <4>4. location[openList[i]] \in Nat /\ location[openList[x]] \in Nat /\ location[openList[x]] # s
        BY <3>1, <4>1
      <4>5. s \in Nat BY <2>6
      <4> QED BY <4>1, <4>2, <4>3, <4>4, <4>5
    <3>3. \A x, y \in 1..len : x < y => location[openList[x]] > location[openList[y]] BY <2>2, ListFacts
    <3>4. s \in Nat /\ len \in Nat BY <2>2, <2>6
    <3>5. CASE j < i
      <4>1. j \in 1..len /\ j \in 1..(i - 1) /\ location'[openList'[j]] = location[openList[j]]
        BY <3>5, <2>3, <2>11
      <4>2. location[openList[j]] > s BY <2>4, <4>1
      <4>3. CASE m < i
        <5>1. m \in 1..len /\ location'[openList'[m]] = location[openList[m]] BY <4>3, <2>11
        <5> QED BY <2>12, <3>3, <4>1, <5>1
      <4>4. CASE m = i BY <4>1, <4>2, <4>4, <2>11
      <4>5. CASE m > i
        <5>1. m - 1 \in 1..len /\ location'[openList'[m]] = location[openList[m - 1]] /\ j < m - 1
          BY <4>5, <3>5, <2>3, <2>11
        <5> QED BY <3>3, <4>1, <5>1
      <4> QED BY <4>3, <4>4, <4>5, <2>3
    <3>6. CASE j >= i
      <4>1. m > i /\ m - 1 \in 1..len /\ location'[openList'[m]] = location[openList[m - 1]] /\ m - 1 >= i
        <5>1. m > i BY <2>12, <3>6, <2>3
        <5> QED BY <5>1, <2>3, <2>11
      <4>2. CASE j = i
        <5>1. location[openList[m - 1]] < s /\ location[openList[m - 1]] \in Nat BY <3>1, <3>2, <4>1
        <5> QED BY <4>1, <4>2, <5>1, <2>11, <3>4
      <4>3. CASE j > i
        <5>1. j - 1 \in 1..len /\ location'[openList'[j]] = location[openList[j - 1]] /\ j - 1 < m - 1
          BY <4>3, <2>12, <2>11
        <5> QED BY <3>3, <4>1, <5>1
      <4> QED BY <4>2, <4>3, <3>6, <2>3
    <3> QED BY <3>5, <3>6, <2>3
  <2>13. ASSUME NEW w \in UpValueObjects, location'[w] # 0
         PROVE  \E j \in 1..(len + 1) : openList'[j] = w
    <3>1. CASE w = u BY <3>1, <2>3, <2>5
    <3>2. CASE w # u
      <4>1. location[w] # 0 BY <2>8, <2>13, <3>2
      <4>2. PICK j \in 1..len : openList[j] = w BY <4>1, <2>2, ListFacts
      <4>3. CASE j < i
        <5>1. j \in 1..(len + 1) /\ openList'[j] = w BY <4>2, <4>3, <2>2, <2>5
        <5> QED BY <5>1
      <4>4. CASE ~(j < i)
        <5>1. j + 1 \in 1..(len + 1) /\ ~(j + 1 < i) /\ j + 1 # i /\ (j + 1) - 1 = j BY <4>4, <2>2, <2>3
        <5>2. openList'[j + 1] = openList[(j + 1) - 1] BY <5>1, <2>5
        <5> QED BY <4>2, <5>1, <5>2
      <4> QED BY <4>3, <4>4
    <3> QED BY <3>1, <3>2
  <2>14. ListSorted' BY <1>1, <2>10, <2>11, <2>12, <2>13 DEF ListSorted, Itself
  <2> QED BY <2>7, <2>14 DEF Inv
<1> QED BY <1>3, <1>4, CaptureEffect

(* So does closing, when only the slots below are kept. *)
LEMMA ClosedKeeps ==
  ASSUME Inv, NEW first \in Slots, ClosedUpValues(first), UNCHANGED <<slots, holds>>,
         top' = first - 1
  PROVE  Inv'
<1>1. PICK len \in Nat : len = Len(openList) BY ListFacts
<1>2. PICK c \in 0..len : c = Closing(first) BY <1>1, InvTyped, ClosingIs
<1>3. first \in 1..MaxStack /\ MaxStack \in Nat BY UpValuesAssumption DEF Slots
<1>4. /\ \A u \in UpValueObjects :
           /\ location'[u] = IF location[u] >= first THEN 0 ELSE location[u]
           /\ closed'[u] = IF location[u] >= first THEN slots[location[u]] ELSE closed[u]
      /\ openList' = SubSeq(openList, c + 1, len)
      /\ \A i \in 1..len : i > c <=> location[openList[i]] < first
  BY <1>1, <1>2, ClosedEffect
<1>5. /\ openList' \in Seq(UpValueObjects) /\ Len(openList') = len - c
      /\ \A j \in 1..(len - c) : openList'[j] = openList[c + j]
  <2>1. \A j \in (c + 1)..len : openList[j] \in UpValueObjects BY <1>1, <1>2, ListFacts
  <2>2. PICK q : q = openList OBVIOUS
  <2>3. c + 1 \in Int /\ len \in Int /\ \A j \in (c + 1)..len : q[j] \in UpValueObjects BY <2>1, <2>2, <1>2
  <2>4. /\ SubSeq(q, c + 1, len) \in Seq(UpValueObjects)
        /\ Len(SubSeq(q, c + 1, len)) = IF c + 1 <= len THEN len - (c + 1) + 1 ELSE 0
        /\ \A j \in 1..(len - (c + 1) + 1) : SubSeq(q, c + 1, len)[j] = q[(c + 1) + j - 1]
    BY <2>3, SubSeqProperties
  <2>5. (IF c + 1 <= len THEN len - (c + 1) + 1 ELSE 0) = len - c /\ len - (c + 1) + 1 = len - c BY <1>2
  <2>6. \A j \in 1..(len - c) : (c + 1) + j - 1 = c + j BY <1>2
  <2>7. openList' = SubSeq(q, c + 1, len) BY <1>4, <2>2
  <2> QED BY <2>2, <2>4, <2>5, <2>6, <2>7
<1>6. DOMAIN openList' = 1..(len - c) BY <1>5, LenProperties
<1>7. ASSUME NEW j \in 1..(len - c)
      PROVE  /\ c + j \in 1..len /\ openList'[j] \in UpValueObjects
             /\ location'[openList'[j]] = location[openList[c + j]]
             /\ location'[openList'[j]] \in 1..(first - 1)
  <2>1. c + j \in 1..len /\ c + j > c BY <1>2
  <2>2. openList[c + j] \in UpValueObjects /\ location[openList[c + j]] \in 1..top /\ top \in Nat
    BY <1>1, <2>1, ListFacts
  <2>3. location[openList[c + j]] < first BY <1>4, <2>1
  <2>4. location[openList[c + j]] \in Nat /\ ~(location[openList[c + j]] >= first) BY <1>3, <2>2, <2>3
  <2>5. location'[openList[c + j]] = location[openList[c + j]] BY <1>4, <2>2, <2>4
  <2> QED BY <1>3, <1>5, <2>1, <2>2, <2>3, <2>5
<1>8. ASSUME NEW j \in 1..(len - c), NEW m \in 1..(len - c), j < m
      PROVE  location'[openList'[j]] > location'[openList'[m]]
  <2>1. c + j \in 1..len /\ c + m \in 1..len /\ c + j < c + m BY <1>2, <1>8
  <2>2. location[openList[c + j]] > location[openList[c + m]] BY <1>1, <2>1, ListFacts
  <2> QED BY <2>2, <1>7
<1>9. ASSUME NEW w \in UpValueObjects, location'[w] # 0
      PROVE  \E j \in 1..(len - c) : openList'[j] = w
  <2>1. location[w] \in Nat /\ ~(location[w] >= first) /\ location[w] # 0 BY <1>4, <1>9, ListFacts
  <2>2. PICK i \in 1..len : openList[i] = w BY <2>1, <1>1, ListFacts
  <2>3. i > c BY <2>1, <2>2, <1>3, <1>4
  <2>4. i - c \in 1..(len - c) /\ c + (i - c) = i BY <2>3, <1>2
  <2>5. openList'[i - c] = w BY <2>2, <2>4, <1>5
  <2> QED BY <2>4, <2>5
<1>10. ListSorted'
  <2>1. \A j \in 1..(len - c) : location'[openList'[j]] \in 1..top' BY <1>7
  <2> QED BY <1>6, <2>1, <1>8, <1>9 DEF ListSorted, Itself
<1>11. TypeOK'
  <2>1. top' \in 0..MaxStack BY <1>3
  <2> QED BY <2>1, InvTyped, ClosedTyped
<1> QED BY <1>10, <1>11 DEF Inv

(* Leaving a block: either nothing in it is open, or all of it is closed. *)
LEMMA ExitScopeEffect ==
  ASSUME Inv, ~AnyBlock, NEW n \in Slots, NEW captured \in SUBSET (1..n), ExitScope(n, captured)
  PROVE  /\ top - n + 1 \in Slots /\ top' = top - n /\ top - n \in Nat
         /\ UNCHANGED <<slots, holds>>
         /\ \/ /\ UNCHANGED <<openList, location, closed>>
               /\ \A u \in UpValueObjects : location[u] <= top - n
            \/ ClosedUpValues(top - n + 1)
<1>1. n \in 1..MaxStack /\ n <= top /\ top \in 0..MaxStack /\ MaxStack \in Nat
  BY ListFacts DEF ExitScope, Slots
<1>2. top - n + 1 \in Slots /\ top' = top - n /\ top - n \in Nat /\ UNCHANGED <<slots, holds>>
  BY <1>1 DEF ExitScope, Slots
<1>3. CASE captured = {}
  <2>1. UNCHANGED <<openList, location, closed>> BY <1>3 DEF ExitScope
  <2>2. \A i \in 1..n : ~IsOpen(top - n + i) BY <1>3 DEF ExitScope
  <2>3. ASSUME NEW u \in UpValueObjects, ~(location[u] <= top - n) PROVE FALSE
    <3>1. location[u] \in 0..top BY ListFacts
    <3>2. location[u] # 0 /\ location[u] - (top - n) \in 1..n
          /\ (top - n) + (location[u] - (top - n)) = location[u]
      BY <1>1, <2>3, <3>1
    <3>3. PICK i \in 1..Len(openList) : openList[i] = u BY <3>2, ListFacts
    <3>4. i \in DOMAIN openList BY ListFacts
    <3>5. IsOpen(location[u]) BY <3>3, <3>4 DEF IsOpen
    <3>6. ~IsOpen(top - n + (location[u] - (top - n))) BY <2>2, <3>2
    <3> QED BY <3>2, <3>5, <3>6
  <2> QED BY <1>2, <2>1, <2>3
<1>4. CASE captured # {}
  <2>1. n \in captured BY <1>4 DEF ExitScope
  <2>2. PICK last \in captured : (\A i \in captured : i <= last) /\ ClosedUpValues(top - last + 1)
    BY <1>4 DEF ExitScope
  <2>3. last = n BY <1>1, <2>1, <2>2
  <2> QED BY <1>2, <2>2, <2>3
<1> QED BY <1>3, <1>4

(* Every step keeps the list sorted and complete. *)
LEMMA NextInv == ASSUME Inv, ~AnyBlock, [Next]_vars PROVE Inv'
<1>1. TypeOK' BY InvTyped, StepTyped
<1>2. top \in top..MaxStack /\ top \in 0..MaxStack /\ MaxStack \in Nat BY ListFacts
<1>3. ASSUME NEW v \in Values, Declare(v) PROVE ListSorted'
  <2>1. top < MaxStack /\ top' = top + 1 /\ UNCHANGED <<openList, location>> BY <1>3 DEF Declare
  <2>2. top' \in top..MaxStack BY <1>2, <2>1
  <2> QED BY <2>1, <2>2, SameList
<1>4. ASSUME NEW s \in Slots, NEW k \in Captures, Capture(s, k) PROVE Inv' BY <1>4, CaptureKeeps
<1>5. CASE UNCHANGED <<top, openList, location>>
  <2>1. top' \in top..MaxStack BY <1>2, <1>5
  <2>2. ListSorted' BY <1>5, <2>1, SameList
  <2> QED BY <1>1, <2>2 DEF Inv
<1>6. ASSUME NEW n \in Slots, NEW captured \in SUBSET (1..n), ExitScope(n, captured) PROVE Inv'
  <2>1. /\ top - n + 1 \in Slots /\ top' = top - n /\ top - n \in Nat
        /\ UNCHANGED <<slots, holds>>
        /\ \/ /\ UNCHANGED <<openList, location, closed>>
              /\ \A u \in UpValueObjects : location[u] <= top - n
           \/ ClosedUpValues(top - n + 1)
    BY <1>6, ExitScopeEffect
  <2>2. n \in Nat BY UpValuesAssumption DEF Slots
  <2>3. CASE UNCHANGED <<openList, location, closed>> /\ \A u \in UpValueObjects : location[u] <= top - n
    <3>1. \A i \in 1..Len(openList) : location[openList[i]] \in 1..top'
      <4> SUFFICES ASSUME NEW i \in 1..Len(openList) PROVE location[openList[i]] \in 1..top' OBVIOUS
      <4>1. openList[i] \in UpValueObjects /\ location[openList[i]] \in 1..top BY ListFacts
      <4>2. location[openList[i]] <= top - n BY <2>3, <4>1
      <4> QED BY <1>2, <2>1, <2>2, <4>1, <4>2
    <3>2. DOMAIN openList = 1..Len(openList) BY ListFacts
    <3>3. ListSorted' BY <2>3, <3>1, <3>2 DEF Inv, ListSorted
    <3> QED BY <1>1, <3>3 DEF Inv
  <2>4. CASE ClosedUpValues(top - n + 1)
    <3>1. top' = (top - n + 1) - 1 BY <1>2, <2>1, <2>2
    <3> QED BY <2>1, <2>4, <3>1, ClosedKeeps
  <2> QED BY <2>1, <2>3, <2>4
<1>7. ASSUME NEW s \in Slots, Return(s) PROVE Inv'
  <2>1. ClosedUpValues(s) /\ top' = s - 1 /\ UNCHANGED <<slots, holds>> BY <1>7 DEF Return
  <2> QED BY <2>1, ClosedKeeps
<1>8. ASSUME NEW j \in Captures, NEW k \in Captures, Inherit(j, k)
      PROVE  UNCHANGED <<top, openList, location>>
  BY <1>8 DEF Inherit
<1>9. ASSUME NEW s \in Slots, NEW v \in Values, SetLocal(s, v)
      PROVE  UNCHANGED <<top, openList, location>>
  BY <1>9 DEF SetLocal
<1>10. ASSUME NEW k \in Captures, NEW v \in Values, SetUpValue(k, v)
       PROVE  UNCHANGED <<top, openList, location>>
  BY <1>10 DEF SetUpValue
<1>11. ASSUME NEW k \in Captures, Forget(k) PROVE UNCHANGED <<top, openList, location>>
  BY <1>11 DEF Forget
<1>12. CASE UNCHANGED vars BY <1>5, <1>12 DEF vars, Inv
<1> QED BY <1>1, <1>3, <1>4, <1>5, <1>6, <1>7, <1>8, <1>9, <1>10, <1>11, <1>12 DEF Next, Inv

(* The open upvalues are in one list, from the highest slot down, each slot  *)
(* once, and none is above the top of the stack.                             *)
THEOREM AlwaysSorted == ASSUME ~AnyBlock PROVE Spec => []ListSorted
<1>1. Inv /\ [Next]_vars => Inv' BY NextInv
<1>2. Inv => ListSorted BY DEF Inv
<1> QED BY InitInv, <1>1, <1>2, PTL DEF Spec

-----------------------------------------------------------------------------
(* The variables a script sees *)

(* The slot of the variable n names, 0 if that has gone. *)
At(n) == IF n \in Slots THEN n ELSE location[holds[n]]

(* A name is a slot or a place in a closure, and not both. *)
LEMMA NamesApart == Slots \subseteq Nat /\ 0 \notin Slots /\ Slots \cap Captures = {}
BY UpValuesAssumption DEF Slots

(* What a name in use stands for. *)
LEMMA UsedIs ==
  ASSUME Inv
  PROVE  /\ Used \subseteq Names
         /\ \A s \in Slots : s \in Used <=> s <= top
         /\ \A k \in Captures : k \in Used <=> holds[k] # None
         /\ \A k \in Captures : k \in Used => holds[k] \in UpValueObjects
         /\ \A n \in Used : At(n) \in 0..top
         /\ \A n \in Used : At(n) = 0 => n \in Captures
<1>1. top \in 0..MaxStack /\ MaxStack \in Nat /\ holds \in [Captures -> UpValueObjects \cup {None}]
  BY ListFacts DEF Inv, TypeOK
<1>2. 1..top \subseteq Slots BY <1>1 DEF Slots
<1>3. \A s \in Slots : s \in 1..top <=> s <= top BY <1>1 DEF Slots
<1>4. Used \subseteq Names BY <1>2 DEF Used, Names
<1>5. \A s \in Slots : s \in Used <=> s <= top BY <1>3, NamesApart DEF Used
<1>6. \A k \in Captures : k \in Used <=> holds[k] # None
  <2>1. \A k \in Captures : k \notin 1..top BY <1>2, NamesApart
  <2> QED BY <2>1 DEF Used
<1>7. \A k \in Captures : k \in Used => holds[k] \in UpValueObjects BY <1>1, <1>6
<1>8. ASSUME NEW n \in Used PROVE At(n) \in 0..top /\ (At(n) = 0 => n \in Captures)
  <2>1. CASE n \in Slots
    <3>1. n \in Nat /\ n # 0 /\ n <= top BY <1>5, <2>1, NamesApart
    <3> QED BY <1>1, <2>1, <3>1 DEF At
  <2>2. CASE n \notin Slots
    <3>1. n \in Captures BY <1>4, <2>2 DEF Names
    <3>2. holds[n] \in UpValueObjects BY <1>7, <3>1
    <3> QED BY <2>2, <3>1, <3>2, ListFacts DEF At
  <2> QED BY <2>1, <2>2
<1> QED BY <1>4, <1>5, <1>6, <1>7, <1>8

(* Names stand for one variable if they lead to one slot, or to one upvalue. *)
LEMMA SameIs ==
  ASSUME Inv, NEW m \in Used, NEW n \in Used
  PROVE  SameVariable(m, n) <=> At(m) = At(n) /\ (At(n) = 0 => holds[m] = holds[n])
<1>1. m \in Names /\ n \in Names BY UsedIs
<1>2. CASE m \in Slots /\ n \in Slots
  <2>1. SameVariable(m, n) <=> m = n BY <1>2, NamesApart DEF SameVariable
  <2>2. At(m) = m /\ At(n) = n /\ n # 0 BY <1>2, NamesApart DEF At
  <2> QED BY <2>1, <2>2
<1>3. CASE m \in Slots /\ n \notin Slots
  <2>1. n \in Captures /\ m \notin Captures BY <1>1, <1>3, NamesApart DEF Names
  <2>2. SameVariable(m, n) <=> location[holds[n]] = m BY <1>3, <2>1 DEF SameVariable
  <2>3. At(m) = m /\ At(n) = location[holds[n]] /\ m # 0 BY <1>3, NamesApart DEF At
  <2> QED BY <2>2, <2>3
<1>4. CASE m \notin Slots /\ n \in Slots
  <2>1. m \in Captures /\ n \notin Captures BY <1>1, <1>4, NamesApart DEF Names
  <2>2. SameVariable(m, n) <=> location[holds[m]] = n BY <1>4, <2>1 DEF SameVariable
  <2>3. At(n) = n /\ At(m) = location[holds[m]] /\ n # 0 BY <1>4, NamesApart DEF At
  <2> QED BY <2>2, <2>3
<1>5. CASE m \notin Slots /\ n \notin Slots
  <2>1. m \in Captures /\ n \in Captures BY <1>1, <1>5 DEF Names
  <2>2. SameVariable(m, n) <=> holds[m] = holds[n] BY <1>5, <2>1 DEF SameVariable
  <2>3. At(m) = location[holds[m]] /\ At(n) = location[holds[n]] BY <1>5 DEF At
  <2>4. holds[m] \in UpValueObjects /\ holds[n] \in UpValueObjects BY <2>1, UsedIs
  <2>5. location[holds[n]] # 0 /\ location[holds[m]] = location[holds[n]] => holds[m] = holds[n]
    BY <2>4, ListFacts
  <2> QED BY <2>2, <2>3, <2>5
<1> QED BY <1>2, <1>3, <1>4, <1>5

(* What a name gives, by where it leads. *)
LEMMA ValueIs ==
  ASSUME Inv, NEW n \in Used
  PROVE  ValueOf(n) = IF At(n) = 0 THEN closed[holds[n]] ELSE slots[At(n)]
BY NamesApart DEF ValueOf, At, Itself

(* When two names are names of one variable, for all of them at once. *)
LEMMA SameAll ==
  Inv => \A l, m \in Used : SameVariable(l, m) <=> At(l) = At(m) /\ (At(m) = 0 => holds[l] = holds[m])
BY SameIs

(* What names give, for all of them at once. *)
LEMMA ValueAll ==
  Inv => \A m \in Used : ValueOf(m) = IF At(m) = 0 THEN closed[holds[m]] ELSE slots[At(m)]
BY ValueIs

(* Names that go away leave the others as they were. *)
LEMMA LoseShared ==
  ASSUME NEW gone, Used' = Used \ gone,
         \A m, n \in Used' : SameVariable(m, n)' <=> SameVariable(m, n),
         \A n \in Used' : ValueOf(n)' = ValueOf(n)
  PROVE  Variables!Lose(gone)
<1>1. \A n \in Names : SameNames'[n] = IF n \in Used' THEN {m \in Used' : SameVariable(m, n)'} ELSE {}
  BY DEF SameNames
<1>2. \A n \in Names : SameNames[n] = IF n \in Used THEN {m \in Used : SameVariable(m, n)} ELSE {}
  BY DEF SameNames
<1>3. ASSUME NEW n \in Names PROVE SameNames'[n] = IF n \in gone THEN {} ELSE SameNames[n] \ gone
  <2>1. CASE n \in Used'
    <3>1. {m \in Used' : SameVariable(m, n)'} = {m \in Used : SameVariable(m, n)} \ gone BY <2>1
    <3> QED BY <1>1, <1>2, <2>1, <3>1
  <2>2. CASE n \notin Used' BY <1>1, <1>2, <2>2
  <2> QED BY <2>1, <2>2
<1>4. SameNames' = [n \in Names |-> IF n \in gone THEN {} ELSE SameNames[n] \ gone]
  BY <1>3 DEF SameNames
<1>5. ASSUME NEW n \in Names PROVE ValueNow'[n] = IF n \in gone THEN None ELSE ValueNow[n]
  BY DEF ValueNow
<1>6. ValueNow' = [n \in Names |-> IF n \in gone THEN None ELSE ValueNow[n]] BY <1>5 DEF ValueNow
<1> QED BY <1>4, <1>6 DEF Variables!Lose, Variables!Names, Names

(* A name that comes to lead where another does shares its variable. *)
LEMMA ShareShared ==
  ASSUME Inv, Inv', NEW n \in Used, NEW k \in Captures, k \notin Used, Used' = Used \cup {k},
         \A m \in Used : /\ At(m)' = At(m)
                         /\ At(m) = 0 => holds'[m] = holds[m]
                         /\ ValueOf(m)' = ValueOf(m),
         At(k)' = At(n), At(n) = 0 => holds'[k] = holds[n]
  PROVE  Variables!Share(n, k)
<1>1. \A m \in Names : SameNames'[m] = IF m \in Used' THEN {l \in Used' : SameVariable(l, m)'} ELSE {}
  BY DEF SameNames
<1>2. \A m \in Names : SameNames[m] = IF m \in Used THEN {l \in Used : SameVariable(l, m)} ELSE {}
  BY DEF SameNames
<1>3. \A l, m \in Used : SameVariable(l, m) <=> At(l) = At(m) /\ (At(m) = 0 => holds[l] = holds[m])
  BY SameIs
<1>4. \A l, m \in Used' : SameVariable(l, m)' <=> At(l)' = At(m)' /\ (At(m)' = 0 => holds'[l] = holds'[m])
  <2>1. (Inv => \A l, m \in Used : SameVariable(l, m) <=> At(l) = At(m) /\ (At(m) = 0 => holds[l] = holds[m]))'
    BY SameAll, PTL
  <2> QED BY <2>1
<1>5. Used \subseteq Names /\ k \in Names BY UsedIs DEF Names
<1>6. PICK all : all = SameNames[n] \cup {k} OBVIOUS
<1>7. SameNames[n] = {l \in Used : SameVariable(l, n)} BY <1>2, <1>5
<1>8. \A l, m \in Used : SameVariable(l, m)' <=> SameVariable(l, m) BY <1>3, <1>4
<1>9. \A l \in Used : SameVariable(l, k)' <=> SameVariable(l, n) BY <1>3, <1>4
<1>10. \A l \in Used : SameVariable(k, l)' <=> SameVariable(l, n) BY <1>3, <1>4
<1>11. SameVariable(k, k)' /\ SameVariable(n, n) BY <1>3, <1>4
<1>12. ASSUME NEW m \in Names PROVE SameNames'[m] = IF m \in all THEN all ELSE SameNames[m]
  <2>1. CASE m = k
    <3>1. {l \in Used' : SameVariable(l, k)'} = {l \in Used : SameVariable(l, n)} \cup {k} BY <1>9, <1>11
    <3> QED BY <1>1, <1>6, <1>7, <2>1, <3>1
  <2>2. CASE m # k /\ m \in Used /\ SameVariable(m, n)
    <3>1. \A l \in Used : SameVariable(l, m)' <=> SameVariable(l, n) BY <1>3, <1>8, <2>2
    <3>2. SameVariable(k, m)' BY <1>10, <2>2
    <3>3. {l \in Used' : SameVariable(l, m)'} = {l \in Used : SameVariable(l, n)} \cup {k} BY <3>1, <3>2
    <3>4. m \in all BY <1>6, <1>7, <2>2
    <3> QED BY <1>1, <1>6, <1>7, <2>2, <3>3, <3>4
  <2>3. CASE m # k /\ m \in Used /\ ~SameVariable(m, n)
    <3>1. ~SameVariable(k, m)' BY <1>10, <2>3
    <3>2. {l \in Used' : SameVariable(l, m)'} = {l \in Used : SameVariable(l, m)} BY <1>8, <2>3, <3>1
    <3>3. m \notin all BY <1>6, <1>7, <2>3
    <3> QED BY <1>1, <1>2, <2>3, <3>2, <3>3
  <2>4. CASE m # k /\ m \notin Used
    <3>1. m \notin all BY <1>6, <1>7, <2>4
    <3> QED BY <1>1, <1>2, <2>4, <3>1
  <2> QED BY <2>1, <2>2, <2>3, <2>4
<1>13. SameNames' = [m \in Names |-> IF m \in all THEN all ELSE SameNames[m]] BY <1>12 DEF SameNames
<1>14. ValueOf(k)' = ValueOf(n)
  <2>1. (Inv => \A m \in Used : ValueOf(m) = IF At(m) = 0 THEN closed[holds[m]] ELSE slots[At(m)])'
    BY ValueAll, PTL
  <2>2. ValueOf(k)' = IF At(k)' = 0 THEN closed'[holds'[k]] ELSE slots'[At(k)'] BY <2>1
  <2>3. ValueOf(n)' = IF At(n)' = 0 THEN closed'[holds'[n]] ELSE slots'[At(n)'] BY <2>1
  <2> QED BY <2>2, <2>3
<1>15. ASSUME NEW m \in Names PROVE ValueNow'[m] = IF m = k THEN ValueNow[n] ELSE ValueNow[m]
  BY <1>5, <1>14, <1>15 DEF ValueNow
<1>16. ValueNow' = [ValueNow EXCEPT ![k] = ValueNow[n]] BY <1>15 DEF ValueNow
<1>17. SameNames[n] # {} /\ SameNames[k] = {} BY <1>2, <1>5, <1>7, <1>11
<1> QED BY <1>6, <1>13, <1>16, <1>17 DEF Variables!Share, Variables!Names, Names

(* A value given to all the names of a variable, and to no other, is assigned. *)
LEMMA AssignShared ==
  ASSUME Inv, NEW n \in Used, NEW v, UNCHANGED <<top, holds, location>>,
         \A m \in Used : ValueOf(m)' = IF SameVariable(m, n) THEN v ELSE ValueOf(m)
  PROVE  Variables!Assign(n, v)
<1>1. Used' = Used /\ \A l, m \in Names : SameVariable(l, m)' <=> SameVariable(l, m)
  BY DEF Used, SameVariable
<1>2. UNCHANGED SameNames BY <1>1, UsedIs DEF SameNames
<1>3. n \in Names /\ SameNames[n] = {m \in Used : SameVariable(m, n)} BY UsedIs DEF SameNames
<1>4. SameVariable(n, n) BY DEF SameVariable
<1>5. ASSUME NEW m \in Names PROVE ValueNow'[m] = IF m \in SameNames[n] THEN v ELSE ValueNow[m]
  BY <1>1, <1>3 DEF ValueNow
<1>6. ValueNow' = [m \in Names |-> IF m \in SameNames[n] THEN v ELSE ValueNow[m]]
  BY <1>5 DEF ValueNow
<1>7. SameNames[n] # {} BY <1>3, <1>4
<1> QED BY <1>2, <1>6, <1>7 DEF Variables!Assign, Variables!Names, Names

-----------------------------------------------------------------------------
(* Each instruction does what SharedVariables has for it. *)

(* At first there is no variable in either. *)
LEMMA InitShares == Init => Variables!Init
<1> SUFFICES ASSUME Init PROVE Variables!Init OBVIOUS
<1>1. 1..top = {} BY UpValuesAssumption DEF Init
<1>2. Used = {} BY <1>1 DEF Used, Init
<1> QED BY <1>2 DEF Variables!Init, Variables!Names, SameNames, ValueNow, Names

(* A declaration is a new variable with one name. *)
LEMMA DeclareShares ==
  ASSUME Inv, Inv', NEW v \in Values, Declare(v)
  PROVE  top + 1 \in Slots /\ Variables!Declare(top + 1, v)
<1>1. /\ top \in Nat /\ MaxStack \in Nat /\ top < MaxStack /\ top' = top + 1
      /\ slots' = [slots EXCEPT ![top + 1] = v] /\ UNCHANGED <<openList, location, closed, holds>>
  BY ListFacts DEF Declare
<1>2. PICK s \in Slots : s = top + 1 BY <1>1 DEF Slots
<1>3. s \notin Used /\ s \in Names BY <1>1, <1>2, UsedIs DEF Names
<1>4. 1..(top + 1) = 1..top \cup {top + 1} BY <1>1
<1>5. Used' = Used \cup {s} BY <1>1, <1>2, <1>4 DEF Used
<1>6. \A n \in Used : At(n) # s BY <1>1, <1>2, UsedIs
<1>7. \A n \in Names : At(n)' = At(n) BY <1>1 DEF At
<1>8. At(s) = s /\ s # 0 BY NamesApart DEF At
<1>9. \A l, m \in Used' : SameVariable(l, m)' <=> At(l) = At(m) /\ (At(m) = 0 => holds[l] = holds[m])
  <2>1. (Inv => \A l, m \in Used : SameVariable(l, m) <=> At(l) = At(m) /\ (At(m) = 0 => holds[l] = holds[m]))'
    BY SameAll, PTL
  <2>2. \A l \in Used' : l \in Names BY <1>3, <1>5, UsedIs
  <2> QED BY <1>1, <1>7, <2>1, <2>2
<1>10. \A l, m \in Used : SameVariable(l, m)' <=> SameVariable(l, m) BY <1>5, <1>9, SameAll
<1>11. \A l \in Used : ~SameVariable(l, s)' /\ ~SameVariable(s, l)' BY <1>5, <1>6, <1>8, <1>9
<1>12. SameVariable(s, s)' BY <1>5, <1>9
<1>13. ASSUME NEW n \in Names PROVE SameNames'[n] = IF n = s THEN {s} ELSE SameNames[n]
  <2>1. SameNames'[n] = IF n \in Used' THEN {m \in Used' : SameVariable(m, n)'} ELSE {} BY DEF SameNames
  <2>2. SameNames[n] = IF n \in Used THEN {m \in Used : SameVariable(m, n)} ELSE {} BY DEF SameNames
  <2>3. CASE n = s
    <3>1. {m \in Used' : SameVariable(m, s)'} = {s} BY <1>5, <1>11, <1>12
    <3> QED BY <1>5, <2>1, <2>3, <3>1
  <2>4. CASE n # s /\ n \in Used
    <3>1. {m \in Used' : SameVariable(m, n)'} = {m \in Used : SameVariable(m, n)} BY <1>5, <1>10, <1>11, <2>4
    <3> QED BY <1>5, <2>1, <2>2, <2>4, <3>1
  <2>5. CASE n # s /\ n \notin Used BY <1>5, <2>1, <2>2, <2>5
  <2> QED BY <2>3, <2>4, <2>5
<1>14. SameNames' = [SameNames EXCEPT ![s] = {s}] BY <1>13 DEF SameNames
<1>15. ValueOf(s)' = v
  <2>1. slots'[s] = v BY <1>1, <1>2 DEF Inv, TypeOK
  <2> QED BY <2>1 DEF ValueOf
<1>16. \A n \in Used : ValueOf(n)' = ValueOf(n)
  <2>1. (Inv => \A m \in Used : ValueOf(m) = IF At(m) = 0 THEN closed[holds[m]] ELSE slots[At(m)])'
    BY ValueAll, PTL
  <2> SUFFICES ASSUME NEW n \in Used PROVE ValueOf(n)' = ValueOf(n) OBVIOUS
  <2>2. n \in Names BY UsedIs
  <2>3. ValueOf(n)' = IF At(n) = 0 THEN closed[holds[n]] ELSE slots'[At(n)] BY <1>1, <1>5, <1>7, <2>1, <2>2
  <2>4. At(n) # 0 => slots'[At(n)] = slots[At(n)]
    <3>1. slots \in [Slots -> Values] BY DEF Inv, TypeOK
    <3>2. At(n) # top + 1 BY <1>2, <1>6
    <3>3. At(n) # 0 => At(n) \in Slots BY <1>1, UsedIs DEF Slots
    <3> QED BY <1>1, <3>1, <3>2, <3>3
  <2> QED BY <2>3, <2>4, ValueAll
<1>17. ASSUME NEW n \in Names PROVE ValueNow'[n] = IF n = s THEN v ELSE ValueNow[n]
  BY <1>5, <1>15, <1>16 DEF ValueNow
<1>18. ValueNow' = [ValueNow EXCEPT ![s] = v] BY <1>17 DEF ValueNow
<1>19. SameNames[s] = {} BY <1>3 DEF SameNames
<1> QED BY <1>2, <1>14, <1>18, <1>19 DEF Variables!Declare

(* A captured slot is a new name of the same variable, *)
LEMMA CaptureShares ==
  ASSUME Inv, Inv', NEW s \in Slots, NEW k \in Captures, Capture(s, k)
  PROVE  Variables!Share(s, k)
<1>1. UNCHANGED <<slots, top>> /\ s <= top /\ holds[k] = None BY DEF Capture
<1>2. s \in Used /\ k \notin Used /\ At(s) = s /\ At(s)' = s /\ s # 0 BY <1>1, UsedIs, NamesApart DEF At
<1>3. PICK u \in UpValueObjects :
        /\ holds' = [holds EXCEPT ![k] = u]
        /\ location'[u] = s
        /\ \A w \in UpValueObjects : w = u \/ (location'[w] = location[w] /\ closed'[w] = closed[w])
        /\ Free(u) \/ (location'[u] = location[u] /\ closed'[u] = closed[u])
  <2>1. location \in [UpValueObjects -> 0..MaxStack] /\ closed \in [UpValueObjects -> Values \cup {None}]
    BY DEF Inv, TypeOK
  <2> QED BY <2>1, CaptureEffect
<1>4. /\ holds'[k] = u
      /\ \A j \in Captures : j # k => holds'[j] = holds[j]
  <2>1. holds \in [Captures -> UpValueObjects \cup {None}] BY DEF Inv, TypeOK
  <2> QED BY <1>3, <2>1
<1>5. u # None BY UpValuesAssumption
<1>6. Used' = Used \cup {k}
  <2>1. {j \in Captures : holds'[j] # None} = {j \in Captures : holds[j] # None} \cup {k} BY <1>4, <1>5
  <2> QED BY <1>1, <2>1 DEF Used
<1>7. ASSUME NEW m \in Used
      PROVE  At(m)' = At(m) /\ (At(m) = 0 => holds'[m] = holds[m]) /\ ValueOf(m)' = ValueOf(m)
  <2>1. CASE m \in Slots
    <3>1. At(m)' = At(m) /\ At(m) # 0 BY <2>1, NamesApart DEF At
    <3>2. ValueOf(m)' = ValueOf(m) BY <1>1, <2>1 DEF ValueOf
    <3> QED BY <3>1, <3>2
  <2>2. CASE m \notin Slots
    <3>1. m \in Captures /\ m # k /\ holds[m] \in UpValueObjects BY <1>2, <2>2, UsedIs DEF Names
    <3>2. holds'[m] = holds[m] BY <1>4, <3>1
    <3>3. Free(u) => holds[m] # u BY <3>1 DEF Free
    <3>4. location'[holds[m]] = location[holds[m]] /\ closed'[holds[m]] = closed[holds[m]]
      BY <1>3, <3>1, <3>3
    <3>5. At(m)' = At(m) BY <2>2, <3>2, <3>4 DEF At
    <3>6. ValueOf(m)' = ValueOf(m) BY <1>1, <2>2, <3>2, <3>4 DEF ValueOf
    <3> QED BY <3>2, <3>5, <3>6
  <2> QED BY <2>1, <2>2
<1>8. At(k)' = s BY <1>3, <1>4, NamesApart DEF At
<1> QED BY <1>2, <1>6, <1>7, <1>8, ShareShared

(* ... and so is an upvalue that a closure takes from the one around. *)
LEMMA InheritShares ==
  ASSUME Inv, Inv', NEW j \in Captures, NEW k \in Captures, Inherit(j, k)
  PROVE  Variables!Share(j, k)
<1>1. /\ UNCHANGED <<slots, top, openList, location, closed>> /\ holds[j] # None /\ holds[k] = None
      /\ holds' = [holds EXCEPT ![k] = holds[j]]
  BY DEF Inherit
<1>2. holds'[k] = holds[j] /\ \A i \in Captures : i # k => holds'[i] = holds[i]
  <2>1. holds \in [Captures -> UpValueObjects \cup {None}] BY DEF Inv, TypeOK
  <2> QED BY <1>1, <2>1
<1>3. j \in Used /\ k \notin Used BY <1>1, UsedIs
<1>4. Used' = Used \cup {k}
  <2>1. {i \in Captures : holds'[i] # None} = {i \in Captures : holds[i] # None} \cup {k} BY <1>1, <1>2
  <2> QED BY <1>1, <2>1 DEF Used
<1>5. ASSUME NEW m \in Used
      PROVE  At(m)' = At(m) /\ (At(m) = 0 => holds'[m] = holds[m]) /\ ValueOf(m)' = ValueOf(m)
  <2>1. CASE m \in Slots
    <3>1. At(m)' = At(m) /\ At(m) # 0 BY <2>1, NamesApart DEF At
    <3>2. ValueOf(m)' = ValueOf(m) BY <1>1, <2>1 DEF ValueOf
    <3> QED BY <3>1, <3>2
  <2>2. CASE m \notin Slots
    <3>1. m \in Captures /\ m # k BY <1>3, <2>2, UsedIs DEF Names
    <3>2. holds'[m] = holds[m] BY <1>2, <3>1
    <3>3. At(m)' = At(m) BY <1>1, <2>2, <3>2 DEF At
    <3>4. ValueOf(m)' = ValueOf(m) BY <1>1, <2>2, <3>2 DEF ValueOf
    <3> QED BY <3>2, <3>3, <3>4
  <2> QED BY <2>1, <2>2
<1>6. At(k)' = At(j) BY <1>1, <1>2, NamesApart DEF At
<1> QED BY <1>2, <1>3, <1>4, <1>5, <1>6, ShareShared

(* A write through a slot is a write to its variable, *)
LEMMA SetLocalShares ==
  ASSUME Inv, NEW s \in Slots, NEW v \in Values, SetLocal(s, v)
  PROVE  Variables!Assign(s, v)
<1>1. s <= top /\ slots' = [slots EXCEPT ![s] = v] /\ UNCHANGED <<top, openList, location, closed, holds>>
  BY DEF SetLocal
<1>2. s \in Used /\ At(s) = s /\ s # 0 BY <1>1, UsedIs, NamesApart DEF At
<1>3. slots \in [Slots -> Values] BY DEF Inv, TypeOK
<1>4. ASSUME NEW m \in Used PROVE ValueOf(m)' = IF SameVariable(m, s) THEN v ELSE ValueOf(m)
  <2>1. SameVariable(m, s) <=> At(m) = s BY <1>2, SameIs
  <2>2. ValueOf(m)' = IF At(m) = 0 THEN closed[holds[m]] ELSE slots'[At(m)]
    BY <1>1, NamesApart DEF ValueOf, At, Itself
  <2>3. At(m) # 0 => At(m) \in Slots BY UsedIs, ListFacts DEF Slots
  <2>4. At(m) # 0 => slots'[At(m)] = IF At(m) = s THEN v ELSE slots[At(m)] BY <1>1, <1>3, <2>3
  <2> QED BY <1>2, <2>1, <2>2, <2>4, ValueIs
<1> QED BY <1>1, <1>2, <1>4, AssignShared

(* ... and so is one through an upvalue. *)
LEMMA SetUpValueShares ==
  ASSUME Inv, NEW k \in Captures, NEW v \in Values, SetUpValue(k, v)
  PROVE  Variables!Assign(k, v)
<1>1. PICK u \in UpValueObjects : u = holds[k]
  <2>1. holds[k] # None BY DEF SetUpValue
  <2> QED BY <2>1, UsedIs
<1>2. UNCHANGED <<top, openList, location, holds>> BY DEF SetUpValue
<1>3. k \in Used /\ At(k) = location[u] BY <1>1, UsedIs, NamesApart DEF At, SetUpValue
<1>4. slots \in [Slots -> Values] /\ closed \in [UpValueObjects -> Values \cup {None}] BY DEF Inv, TypeOK
<1>5. ASSUME NEW m \in Used PROVE ValueOf(m)' = IF SameVariable(m, k) THEN v ELSE ValueOf(m)
  <2>1. SameVariable(m, k) <=> At(m) = At(k) /\ (At(k) = 0 => holds[m] = u) BY <1>1, <1>3, SameIs
  <2>2. ValueOf(m)' = IF At(m) = 0 THEN closed'[holds[m]] ELSE slots'[At(m)]
    BY <1>2, NamesApart DEF ValueOf, At, Itself
  <2>3. At(m) # 0 => At(m) \in Slots BY UsedIs, ListFacts DEF Slots
  <2>4. At(m) = 0 => holds[m] \in UpValueObjects BY UsedIs
  <2>5. CASE location[u] = 0
    <3>1. closed' = [closed EXCEPT ![u] = v] /\ UNCHANGED slots BY <1>1, <2>5 DEF SetUpValue, Itself
    <3> QED BY <1>3, <1>4, <2>1, <2>2, <2>4, <2>5, <3>1, ValueIs
  <2>6. CASE location[u] # 0
    <3>1. slots' = [slots EXCEPT ![location[u]] = v] /\ UNCHANGED closed BY <1>1, <2>6 DEF SetUpValue, Itself
    <3> QED BY <1>3, <1>4, <2>1, <2>2, <2>3, <2>6, <3>1, ValueIs
  <2> QED BY <2>5, <2>6
<1> QED BY <1>2, <1>3, <1>5, AssignShared

(* What ClosedUpValues does to the variables. *)
LEMMA ClosedShares ==
  ASSUME Inv, Inv', NEW first \in Slots, first <= top, ClosedUpValues(first),
         UNCHANGED <<slots, holds>>, top' = first - 1
  PROVE  Variables!Leave(first)
<1>1. first \in Nat /\ top \in Nat BY NamesApart, ListFacts
<1>2. Used' = Used \ {s \in Slots : s >= first}
  <2>1. 1..(first - 1) = 1..top \ {s \in Slots : s >= first} BY <1>1, ListFacts DEF Slots
  <2>2. {k \in Captures : holds[k] # None} \cap Slots = {} BY NamesApart
  <2> QED BY <2>1, <2>2 DEF Used
<1>3. ASSUME NEW m \in Used'
      PROVE  /\ At(m)' = IF At(m) >= first THEN 0 ELSE At(m)
             /\ At(m) >= first => m \in Captures /\ closed'[holds[m]] = slots[At(m)]
             /\ At(m) < first => closed'[holds[m]] = closed[holds[m]] \/ At(m) # 0
  <2>1. m \in Used /\ m \in Names BY <1>2, UsedIs
  <2>2. CASE m \in Slots
    <3>1. m < first /\ m \in Nat /\ m # 0 BY <1>1, <1>2, <2>2, NamesApart
    <3> QED BY <1>1, <2>2, <3>1 DEF At
  <2>3. CASE m \notin Slots
    <3>1. m \in Captures /\ holds[m] \in UpValueObjects BY <2>1, <2>3, UsedIs DEF Names
    <3>2. At(m) = location[holds[m]] /\ At(m)' = location'[holds[m]] BY <2>3 DEF At
    <3>3. At(m) \in Nat BY <1>1, <2>1, UsedIs
    <3> QED BY <1>1, <3>1, <3>2, <3>3, ClosedEffect
  <2> QED BY <2>2, <2>3
<1>4. (Inv => \A l, m \in Used : SameVariable(l, m) <=> At(l) = At(m) /\ (At(m) = 0 => holds[l] = holds[m]))'
  BY SameAll, PTL
<1>5. (Inv => \A m \in Used : ValueOf(m) = IF At(m) = 0 THEN closed[holds[m]] ELSE slots[At(m)])'
  BY ValueAll, PTL
<1>6. ASSUME NEW m \in Used', NEW n \in Used' PROVE SameVariable(m, n)' <=> SameVariable(m, n)
  <2>2. SameVariable(m, n)' <=> At(m)' = At(n)' /\ (At(n)' = 0 => holds[m] = holds[n]) BY <1>4
  <2>3. m \in Used /\ n \in Used /\ At(m) \in Nat /\ At(n) \in Nat BY <1>1, <1>2, UsedIs
  <2>4. SameVariable(m, n) <=> At(m) = At(n) /\ (At(n) = 0 => holds[m] = holds[n]) BY <2>3, SameIs
  <2>5. CASE At(m) >= first /\ At(n) >= first
    <3>1. m \in Captures /\ n \in Captures BY <1>3, <2>5
    <3>2. holds[m] \in UpValueObjects /\ holds[n] \in UpValueObjects BY <2>3, <3>1, UsedIs
    <3>3. At(m) = location[holds[m]] /\ At(n) = location[holds[n]] BY <3>1, NamesApart DEF At
    <3>4. At(m) = At(n) <=> holds[m] = holds[n]
      <4>1. At(m) # 0 BY <1>1, <2>3, <2>5, NamesApart
      <4> QED BY <3>2, <3>3, <4>1, ListFacts
    <3>5. At(n) # 0 /\ At(m)' = 0 /\ At(n)' = 0 BY <1>1, <1>3, <2>5, NamesApart
    <3> QED BY <2>2, <2>4, <3>4, <3>5
  <2>6. CASE At(m) >= first /\ At(n) < first
    <3>1. At(m)' = 0 /\ At(n)' = At(n) /\ At(m) # At(n) BY <1>1, <1>3, <2>3, <2>6
    <3>2. At(n) = 0 => holds[m] # holds[n]
      <4>1. m \in Captures BY <1>3, <2>6
      <4>2. At(n) = 0 => n \in Captures BY <2>3, UsedIs
      <4> QED BY <4>1, <4>2, <3>1, NamesApart DEF At
    <3> QED BY <2>2, <2>4, <3>1, <3>2
  <2>7. CASE At(m) < first /\ At(n) >= first
    <3>1. At(n)' = 0 /\ At(m)' = At(m) /\ At(m) # At(n) BY <1>1, <1>3, <2>3, <2>7
    <3>2. At(m) = 0 => holds[m] # holds[n]
      <4>1. n \in Captures BY <1>3, <2>7
      <4>2. At(m) = 0 => m \in Captures BY <2>3, UsedIs
      <4> QED BY <4>1, <4>2, <3>1, NamesApart DEF At
    <3> QED BY <2>2, <2>4, <3>1, <3>2
  <2>8. CASE At(m) < first /\ At(n) < first
    <3>1. At(m)' = At(m) /\ At(n)' = At(n) BY <1>1, <1>3, <2>3, <2>8
    <3> QED BY <2>2, <2>4, <3>1
  <2> QED BY <1>1, <2>3, <2>5, <2>6, <2>7, <2>8
<1>7. ASSUME NEW m \in Used' PROVE ValueOf(m)' = ValueOf(m)
  <2>2. ValueOf(m)' = IF At(m)' = 0 THEN closed'[holds[m]] ELSE slots[At(m)'] BY <1>5
  <2>3. m \in Used /\ At(m) \in Nat BY <1>1, <1>2, UsedIs
  <2>4. ValueOf(m) = IF At(m) = 0 THEN closed[holds[m]] ELSE slots[At(m)] BY <2>3, ValueIs
  <2>5. CASE At(m) >= first
    <3>1. At(m) # 0 BY <1>1, <2>3, <2>5, NamesApart
    <3> QED BY <1>3, <2>2, <2>4, <2>5, <3>1
  <2>6. CASE At(m) < first
    <3>1. ~(At(m) >= first) BY <1>1, <2>3, <2>6
    <3> QED BY <1>3, <2>2, <2>4, <2>6, <3>1
  <2> QED BY <1>1, <2>3, <2>5, <2>6
<1>8. Variables!Lose({s \in Slots : s >= first}) BY <1>2, <1>6, <1>7, LoseShared
<1> QED BY <1>8 DEF Variables!Leave

(* The end of a block takes the slots' names away and leaves the variables    *)
(* that have others.                                                          *)
LEMMA ExitScopeShares ==
  ASSUME Inv, Inv', ~AnyBlock, NEW n \in Slots, NEW captured \in SUBSET (1..n), ExitScope(n, captured)
  PROVE  \E first \in Slots : Variables!Leave(first)
<1>1. /\ top - n + 1 \in Slots /\ top' = top - n /\ top - n \in Nat /\ UNCHANGED <<slots, holds>>
      /\ \/ UNCHANGED <<openList, location, closed>> /\ \A u \in UpValueObjects : location[u] <= top - n
         \/ ClosedUpValues(top - n + 1)
  BY ExitScopeEffect
<1>2. PICK first \in Slots : first = top - n + 1 BY <1>1
<1>3. top \in Nat /\ n \in Nat /\ n # 0 /\ first <= top /\ top' = first - 1
  BY <1>1, <1>2, NamesApart, ListFacts
<1>4. CASE ClosedUpValues(top - n + 1) BY <1>1, <1>2, <1>3, <1>4, ClosedShares
<1>5. CASE UNCHANGED <<openList, location, closed>>
  <2>1. Used' = Used \ {s \in Slots : s >= first}
    <3>1. 1..(first - 1) = 1..top \ {s \in Slots : s >= first} BY <1>3, NamesApart, ListFacts DEF Slots
    <3>2. {k \in Captures : holds[k] # None} \cap Slots = {} BY NamesApart
    <3> QED BY <1>1, <1>3, <3>1, <3>2 DEF Used
  <2>2. \A l, m \in Used' : SameVariable(l, m)' <=> SameVariable(l, m) BY <1>1, <1>5 DEF SameVariable
  <2>3. \A m \in Used' : ValueOf(m)' = ValueOf(m) BY <1>1, <1>5 DEF ValueOf
  <2>4. Variables!Lose({s \in Slots : s >= first}) BY <2>1, <2>2, <2>3, LoseShared
  <2> QED BY <2>4 DEF Variables!Leave
<1> QED BY <1>1, <1>4, <1>5

(* A closure that goes takes its names away. *)
LEMMA ForgetShares ==
  ASSUME Inv, NEW k \in Captures, Forget(k)
  PROVE  Variables!Forget(k)
<1>1. holds' = [holds EXCEPT ![k] = None] /\ UNCHANGED <<slots, top, openList, location, closed>>
  BY DEF Forget
<1>2. holds'[k] = None /\ \A j \in Captures : j # k => holds'[j] = holds[j]
  <2>1. holds \in [Captures -> UpValueObjects \cup {None}] BY DEF Inv, TypeOK
  <2> QED BY <1>1, <2>1
<1>3. Used' = Used \ {k}
  <2>1. {j \in Captures : holds'[j] # None} = {j \in Captures : holds[j] # None} \ {k} BY <1>2
  <2>2. k \notin 1..top
    <3>1. 1..top \subseteq Slots BY ListFacts DEF Slots
    <3> QED BY <3>1, NamesApart
  <2> QED BY <1>1, <2>1, <2>2 DEF Used
<1>4. ASSUME NEW m \in Used' PROVE m \in Slots \/ (m \in Captures /\ m \notin Slots /\ holds'[m] = holds[m])
  BY <1>2, <1>3, UsedIs DEF Names
<1>5. ASSUME NEW m \in Used', NEW n \in Used' PROVE SameVariable(m, n)' <=> SameVariable(m, n)
  BY <1>1, <1>4, NamesApart DEF SameVariable
<1>6. ASSUME NEW m \in Used' PROVE ValueOf(m)' = ValueOf(m) BY <1>1, <1>4 DEF ValueOf
<1>7. Variables!Lose({k}) BY <1>3, <1>5, <1>6, LoseShared
<1> QED BY <1>7 DEF Variables!Forget

(* Every step is one of SharedVariables, or none. *)
LEMMA NextShares ==
  ASSUME Inv, Inv', ~AnyBlock, [Next]_vars
  PROVE  [Variables!Next]_(Variables!shared)
<1>1. ASSUME NEW v \in Values, Declare(v) PROVE Variables!Next BY <1>1, DeclareShares DEF Variables!Next
<1>2. ASSUME NEW s \in Slots, NEW k \in Captures, Capture(s, k) PROVE Variables!Next
  BY <1>2, CaptureShares DEF Variables!Next, Variables!Names
<1>3. ASSUME NEW j \in Captures, NEW k \in Captures, Inherit(j, k) PROVE Variables!Next
  BY <1>3, InheritShares DEF Variables!Next, Variables!Names
<1>4. ASSUME NEW s \in Slots, NEW v \in Values, SetLocal(s, v) PROVE Variables!Next
  BY <1>4, SetLocalShares DEF Variables!Next, Variables!Names
<1>5. ASSUME NEW k \in Captures, NEW v \in Values, SetUpValue(k, v) PROVE Variables!Next
  BY <1>5, SetUpValueShares DEF Variables!Next, Variables!Names
<1>6. ASSUME NEW n \in Slots, NEW captured \in SUBSET (1..n), ExitScope(n, captured) PROVE Variables!Next
  BY <1>6, ExitScopeShares DEF Variables!Next
<1>7. ASSUME NEW s \in Slots, Return(s) PROVE Variables!Next
  <2>1. s <= top /\ ClosedUpValues(s) /\ top' = s - 1 /\ UNCHANGED <<slots, holds>> BY <1>7 DEF Return
  <2> QED BY <2>1, ClosedShares DEF Variables!Next
<1>8. ASSUME NEW k \in Captures, Forget(k) PROVE Variables!Next BY <1>8, ForgetShares DEF Variables!Next
<1>9. CASE UNCHANGED vars
  <2>1. UNCHANGED <<slots, top, openList, location, closed, holds>> BY <1>9 DEF vars
  <2>2. Used' = Used /\ \A l, m \in Names : SameVariable(l, m)' <=> SameVariable(l, m)
    BY <2>1 DEF Used, SameVariable
  <2>3. \A m \in Names : ValueOf(m)' = ValueOf(m) BY <2>1 DEF ValueOf
  <2>4. UNCHANGED SameNames BY <2>2, UsedIs DEF SameNames
  <2>5. UNCHANGED ValueNow BY <2>2, <2>3 DEF ValueNow
  <2> QED BY <2>4, <2>5 DEF Variables!shared
<1> QED BY <1>1, <1>2, <1>3, <1>4, <1>5, <1>6, <1>7, <1>8, <1>9 DEF Next

(* Captured variables are shared, assigned and kept as SharedVariables has   *)
(* it: what CaptureUpValue, ClosedUpValues and the instructions for upvalues  *)
(* do to the list and its objects implements that.                           *)
THEOREM ImplementsSharing == ASSUME ~AnyBlock PROVE Spec => SharesVariables
<1>1. Inv /\ [Next]_vars => Inv' BY NextInv
<1>2. Inv /\ Inv' /\ [Next]_vars => [Variables!Next]_(Variables!shared) BY NextShares
<1> QED BY InitInv, InitShares, <1>1, <1>2, PTL DEF Spec, SharesVariables, Variables!Spec

-----------------------------------------------------------------------------
(* What shared variables promise *)

(* Their inductive invariant. *)
Shared == Variables!TypeOK /\ Variables!Coherent

(* A new variable has one name. *)
LEMMA DeclareCoheres ==
  ASSUME Shared, NEW s \in Slots, NEW v \in Values, Variables!Declare(s, v)
  PROVE  Shared'
<1>1. /\ SameNames' = [SameNames EXCEPT ![s] = {s}] /\ ValueNow' = [ValueNow EXCEPT ![s] = v] /\ SameNames[s] = {}
      /\ s \in Variables!Names
  BY DEF Variables!Declare, Variables!Names
<1>2. Variables!TypeOK' BY <1>1 DEF Shared, Variables!TypeOK
<1>3. \A m \in Variables!Names : s \notin SameNames[m]
  <2> SUFFICES ASSUME NEW m \in Variables!Names, s \in SameNames[m] PROVE FALSE OBVIOUS
  <2>1. s \in SameNames[s] BY <1>1 DEF Shared, Variables!Coherent
  <2> QED BY <1>1, <2>1
<1>4. \A m \in Variables!Names : SameNames'[m] = (IF m = s THEN {s} ELSE SameNames[m])
                                 /\ ValueNow'[m] = (IF m = s THEN v ELSE ValueNow[m])
  BY <1>1 DEF Shared, Variables!TypeOK
<1>5. Variables!Coherent'
  <2> SUFFICES ASSUME NEW m \in Variables!Names, NEW n \in Variables!Names, n \in SameNames'[m]
               PROVE  {m, n} \subseteq SameNames'[n] /\ SameNames'[n] = SameNames'[m] /\ ValueNow'[n] = ValueNow'[m]
    BY DEF Variables!Coherent
  <2>1. CASE m = s BY <2>1, <1>4
  <2>2. CASE m # s
    <3>1. n \in SameNames[m] /\ n # s BY <2>2, <1>3, <1>4
    <3> QED BY <2>2, <3>1, <1>4 DEF Shared, Variables!Coherent
  <2> QED BY <2>1, <2>2
<1> QED BY <1>2, <1>5 DEF Shared

(* All names learn of the new one. *)
LEMMA ShareCoheres ==
  ASSUME Shared, NEW n \in Variables!Names, NEW k \in Captures, Variables!Share(n, k)
  PROVE  Shared'
<1> DEFINE all == SameNames[n] \cup {k}
<1>1. /\ SameNames[n] # {} /\ SameNames[k] = {} /\ k \in Variables!Names
      /\ SameNames' = [m \in Variables!Names |-> IF m \in all THEN all ELSE SameNames[m]]
      /\ ValueNow' = [ValueNow EXCEPT ![k] = ValueNow[n]]
  BY DEF Variables!Share, Variables!Names
<1>2. /\ SameNames \in [Variables!Names -> SUBSET Variables!Names]
      /\ ValueNow \in [Variables!Names -> Values \cup {None}]
  BY DEF Shared, Variables!TypeOK
<1>3. Variables!TypeOK' BY <1>1, <1>2 DEF Variables!TypeOK
<1>4. \A m \in Variables!Names : k \notin SameNames[m]
  <2> SUFFICES ASSUME NEW m \in Variables!Names, k \in SameNames[m] PROVE FALSE OBVIOUS
  <2>1. k \in SameNames[k] BY <1>1 DEF Shared, Variables!Coherent
  <2> QED BY <1>1, <2>1
<1>5. \A m \in Variables!Names : SameNames'[m] = (IF m \in all THEN all ELSE SameNames[m])
                                 /\ ValueNow'[m] = (IF m = k THEN ValueNow[n] ELSE ValueNow[m])
  BY <1>1, <1>2
<1>6. \A m \in SameNames[n] : m \in Variables!Names /\ SameNames[m] = SameNames[n] /\ ValueNow[m] = ValueNow[n]
  BY <1>2 DEF Shared, Variables!Coherent
<1>7. \A m \in all : m \in Variables!Names /\ SameNames'[m] = all /\ ValueNow'[m] = ValueNow[n] BY <1>1, <1>4, <1>5, <1>6
<1>8. Variables!Coherent'
  <2> SUFFICES ASSUME NEW m \in Variables!Names, NEW j \in Variables!Names, j \in SameNames'[m]
               PROVE  {m, j} \subseteq SameNames'[j] /\ SameNames'[j] = SameNames'[m] /\ ValueNow'[j] = ValueNow'[m]
    BY DEF Variables!Coherent
  <2>1. CASE m \in all BY <2>1, <1>7
  <2>2. CASE m \notin all
    <3>1. j \in SameNames[m] BY <2>2, <1>5
    <3>2. {m, j} \subseteq SameNames[j] /\ SameNames[j] = SameNames[m] /\ ValueNow[j] = ValueNow[m]
      BY <3>1 DEF Shared, Variables!Coherent
    <3>3. j \notin all BY <2>2, <3>1, <3>2, <1>4, <1>6
    <3>4. j # k /\ m # k BY <2>2, <3>3
    <3> QED BY <2>2, <3>2, <3>3, <3>4, <1>5
  <2> QED BY <2>1, <2>2
<1> QED BY <1>3, <1>8 DEF Shared

(* All names see the assignment. *)
LEMMA AssignCoheres ==
  ASSUME Shared, NEW n \in Variables!Names, NEW v \in Values, Variables!Assign(n, v)
  PROVE  Shared'
<1>1. UNCHANGED SameNames /\ ValueNow' = [m \in Variables!Names |-> IF m \in SameNames[n] THEN v ELSE ValueNow[m]]
  BY DEF Variables!Assign
<1>2. Variables!TypeOK' BY <1>1 DEF Shared, Variables!TypeOK
<1>3. Variables!Coherent'
  <2> SUFFICES ASSUME NEW m \in Variables!Names, NEW j \in Variables!Names, j \in SameNames[m]
               PROVE  {m, j} \subseteq SameNames[j] /\ SameNames[j] = SameNames[m] /\ ValueNow'[j] = ValueNow'[m]
    BY <1>1 DEF Variables!Coherent
  <2>1. {m, j} \subseteq SameNames[j] /\ SameNames[j] = SameNames[m] /\ ValueNow[j] = ValueNow[m]
    BY DEF Shared, Variables!Coherent
  <2>2. j \in SameNames[n] <=> m \in SameNames[n] BY <2>1 DEF Shared, Variables!Coherent
  <2> QED BY <1>1, <2>1, <2>2
<1> QED BY <1>2, <1>3 DEF Shared

(* The names that are left still belong together. *)
LEMMA LoseCoheres ==
  ASSUME Shared, NEW gone \in SUBSET Variables!Names, Variables!Lose(gone)
  PROVE  Shared'
<1>1. /\ SameNames' = [m \in Variables!Names |-> IF m \in gone THEN {} ELSE SameNames[m] \ gone]
      /\ ValueNow' = [m \in Variables!Names |-> IF m \in gone THEN None ELSE ValueNow[m]]
  BY DEF Variables!Lose
<1>2. Variables!TypeOK' BY <1>1 DEF Shared, Variables!TypeOK
<1>3. ASSUME NEW m \in Variables!Names, m \in gone PROVE SameNames'[m] = {}
  BY <1>1, <1>3
<1>5. ASSUME NEW m \in Variables!Names, m \notin gone PROVE SameNames'[m] = SameNames[m] \ gone /\ ValueNow'[m] = ValueNow[m]
  BY <1>1, <1>5
<1>4. Variables!Coherent'
  <2> SUFFICES ASSUME NEW m \in Variables!Names, NEW j \in Variables!Names, j \in SameNames'[m]
               PROVE  {m, j} \subseteq SameNames'[j] /\ SameNames'[j] = SameNames'[m] /\ ValueNow'[j] = ValueNow'[m]
    BY DEF Variables!Coherent
  <2>1. m \notin gone BY <1>3
  <2>3. SameNames'[m] = SameNames[m] \ gone BY <1>5, <2>1
  <2>4. j \notin gone /\ j \in SameNames[m] BY <2>3
  <2>2. {m, j} \subseteq SameNames[j] /\ SameNames[j] = SameNames[m] /\ ValueNow[j] = ValueNow[m]
      BY <2>4 DEF Shared, Variables!Coherent
  <2>5. /\ SameNames'[m] = SameNames[m] \ gone /\ ValueNow'[m] = ValueNow[m]
        /\ SameNames'[j] = SameNames[j] \ gone /\ ValueNow'[j] = ValueNow[j]
    BY <1>5, <2>1, <2>4
  <2> QED BY <2>1, <2>2, <2>4, <2>5
<1> QED BY <1>2, <1>4 DEF Shared

(* What is implemented here promises that names that stand for one variable  *)
(* agree on its names and on its value, whatever was declared, captured,     *)
(* assigned and left before.                                                 *)
THEOREM AlwaysCoherent == Variables!Spec => []Variables!Coherent
<1>1. Variables!Init => Shared BY DEF Variables!Init, Shared, Variables!TypeOK, Variables!Coherent
<1>2. Shared /\ [Variables!Next]_(Variables!shared) => Shared'
  <2> SUFFICES ASSUME Shared, [Variables!Next]_(Variables!shared) PROVE Shared' OBVIOUS
  <2>1. CASE \E s \in Slots, v \in Values : Variables!Declare(s, v) BY <2>1, DeclareCoheres
  <2>2. CASE \E n \in Variables!Names, k \in Captures : Variables!Share(n, k) BY <2>2, ShareCoheres
  <2>3. CASE \E n \in Variables!Names, v \in Values : Variables!Assign(n, v) BY <2>3, AssignCoheres
  <2>4. CASE \E first \in Slots : Variables!Leave(first)
    <3>1. PICK first \in Slots : Variables!Lose({s \in Slots : s >= first}) BY <2>4 DEF Variables!Leave
    <3>2. {s \in Slots : s >= first} \subseteq Variables!Names BY DEF Variables!Names
    <3> QED BY <3>1, <3>2, LoseCoheres
  <2>5. CASE \E k \in Captures : Variables!Forget(k)
    <3>1. PICK k \in Captures : Variables!Lose({k}) BY <2>5 DEF Variables!Forget
    <3>2. {k} \subseteq Variables!Names BY DEF Variables!Names
    <3> QED BY <3>1, <3>2, LoseCoheres
  <2>6. CASE UNCHANGED Variables!shared BY <2>6 DEF Variables!shared, Shared, Variables!TypeOK, Variables!Coherent
  <2> QED BY <2>1, <2>2, <2>3, <2>4, <2>5, <2>6 DEF Variables!Next
<1>3. Shared => Variables!Coherent BY DEF Shared
<1> QED BY <1>1, <1>2, <1>3, PTL DEF Variables!Spec
=============================================================================

--------------------------- MODULE SharedVariables ---------------------------
(***************************************************************************)
(* What captured variables promise a script.                               *)
(*                                                                         *)
(* A variable is named by the slot it was declared in and by every closure *)
(* that captured it.  All of its names give the same value, an assignment  *)
(* by any of them is seen by all, and the variable lives on when its slot  *)
(* is gone.                                                                *)
(***************************************************************************)
EXTENDS Naturals

CONSTANTS
  Slots,     \* the slots a variable can be declared in, which are numbers
  Captures,  \* the places a closure can hold a captured variable in
  Values,    \* what a variable can hold
  None       \* the value of a name that is not in use

Names == Slots \cup Captures

VARIABLES
  same,   \* the names of the variable a name stands for, none if it stands for none
  value   \* its value

shared == <<same, value>>

TypeOK ==
  /\ same \in [Names -> SUBSET Names]
  /\ value \in [Names -> Values \cup {None}]

Init == same = [n \in Names |-> {}] /\ value = [n \in Names |-> None]

Declare(s, v) ==
  /\ same[s] = {}
  /\ same' = [same EXCEPT ![s] = {s}]
  /\ value' = [value EXCEPT ![s] = v]

(* k becomes one more name of the variable n. *)
Share(n, k) ==
  /\ same[n] # {} /\ same[k] = {}
  /\ LET all == same[n] \cup {k} IN same' = [m \in Names |-> IF m \in all THEN all ELSE same[m]]
  /\ value' = [value EXCEPT ![k] = value[n]]

Assign(n, v) ==
  /\ same[n] # {}
  /\ value' = [m \in Names |-> IF m \in same[n] THEN v ELSE value[m]]
  /\ UNCHANGED same

(* The names in `gone' stand for nothing any more, the others for what they did. *)
Lose(gone) ==
  /\ same' = [m \in Names |-> IF m \in gone THEN {} ELSE same[m] \ gone]
  /\ value' = [m \in Names |-> IF m \in gone THEN None ELSE value[m]]

(* A block or a function is left. *)
Leave(first) == Lose({s \in Slots : s >= first})

Forget(k) == Lose({k})

Next ==
  \/ \E s \in Slots, v \in Values : Declare(s, v)
  \/ \E n \in Names, k \in Captures : Share(n, k)
  \/ \E n \in Names, v \in Values : Assign(n, v)
  \/ \E first \in Slots : Leave(first)
  \/ \E k \in Captures : Forget(k)

Spec == Init /\ [][Next]_shared

(* Two names either stand for one variable, and then agree on its names and  *)
(* its value, or for two (the sharing that ClosureObject::upvalues gives).   *)
Coherent ==
  \A m, n \in Names : n \in same[m] => {m, n} \subseteq same[n] /\ same[n] = same[m] /\ value[n] = value[m]
=============================================================================

------------------------------ MODULE MCCallStack ------------------------------
(* Instances of CallStack: one function of every kind of parameter list and  *)
(* a constructor, on a value stack of a few slots.                           *)
EXTENDS CallStack

CONSTANTS plain, named, unnamed, ctor

MCFunctions == {plain, named, unnamed, ctor}

MCArity == [f \in MCFunctions |-> 1]

MCVarArg == [f \in MCFunctions |->
  CASE f = named   -> "WITH_NAME"
    [] f = unnamed -> "WITHOUT_NAME"
    [] OTHER       -> "NONE"]

(* The constructor takes an unnamed "..." too. *)
MCVariadicConstructor == [MCVarArg EXCEPT ![ctor] = "WITHOUT_NAME"]

MCTwo == [f \in MCFunctions |-> 2]
=============================================================================

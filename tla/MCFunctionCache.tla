--------------------------- MODULE MCFunctionCache ---------------------------
(* Scripts for FunctionCache: "down" calls itself, "twice" and "also" are   *)
(* closures of one function that makes calls, "init" is a constructor,      *)
(* "Node" makes an object.                                                  *)
EXTENDS FunctionCache, Hashing

Num(n) == [kind |-> "int", data |-> n]
True == [kind |-> "bool", data |-> 1]
Values == {Num(n) : n \in 0..1} \cup {True}

Function == [c \in Closures |-> IF c = "also" THEN "twice" ELSE c]
SameCaptured == [c \in Closures |-> None]

Script ==
  [f \in Functions |-> [a \in Values |->
     CASE f = "down" /\ a # Num(0) -> <<<<"down", Num(0)>>, <<"init", a>>>>
       [] f = "twice" -> <<<<"down", a>>, <<"init", a>>, <<"down", a>>>>
       [] f = "Node" -> <<<<"init", a>>>>
       [] OTHER -> <<>>]]
=============================================================================

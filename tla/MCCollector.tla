----------------------------- MODULE MCCollector -----------------------------
(* Small instances of Collector. *)
EXTENDS Collector, TLC

CONSTANTS main, f, s1, null, c1, c2, c3, u1, o1, o2, b1, a1

(* Both functions make closures of f and use a literal, if the instance has them. *)
ScriptConstants == [p \in Programs |-> {f, s1} \cap Compiled]

Symmetry == Permutations(Closures) \cup Permutations(UpValues) \cup Permutations(Containers)
              \cup Permutations(Binds) \cup Permutations(VarArgs)
=============================================================================

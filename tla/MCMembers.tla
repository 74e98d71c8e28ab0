----------------------------- MODULE MCMembers -----------------------------
(***************************************************************************)
(* Chains of three classes, two parents and the diamond of                 *)
(* examples/class-multi-inherit.cys, with every way to declare a member.   *)
(***************************************************************************)
EXTENDS Members, FiniteSetsExt

Class(parents, declared, methods, constructors) ==
  [parents |-> parents, lets |-> IF declared = "let" THEN {"x"} ELSE {},
   consts |-> IF declared = "const" THEN {"x"} ELSE {}, methods |-> methods, constructors |-> constructors]

Set == "set" :> <<"set", "x">>
Restore == "restore" :> <<"restore", "x">>
On(p) == "on" :> <<"on", p, "set">>

Chain(d) ==
  [A |-> Class(<<>>, d[1], Set, <<>>), B |-> Class(<<"A">>, d[2], Restore, <<>>),
   C |-> Class(<<"B">>, d[3], On("A"), 1 :> <<"set", "x">>)]

Fork(d) ==
  [A |-> Class(<<>>, d[1], <<>>, <<>>), B |-> Class(<<>>, d[2], Set, <<>>),
   C |-> Class(<<"B", "A">>, d[3], On("B") @@ Restore, 1 :> <<"set", "x">>)]

Diamond(d) ==
  [A |-> Class(<<>>, d[1], <<>>, <<>>), B |-> Class(<<"A">>, d[2], <<>>, <<>>), C |-> Class(<<"A">>, d[3], Set, <<>>),
   D |-> Class(<<"B", "C">>, "none", Restore, <<>>)]

Declarations == [1..3 -> {"none", "let", "const"}]

RECURSIVE Has(_, _, _)
Has(h, c, n) ==
  n \in h[c].lets \cup h[c].consts \cup DOMAIN h[c].methods \/ \E p \in Range(h[c].parents) : Has(h, p, n)

(* What one parent has, the last parent in the order of their names has,   *)
(* too.                                                                    *)
LastParent(h, c) == ByName[Max({k \in DOMAIN ByName : ByName[k] \in Range(h[c].parents)})]
NothingHidden(h) ==
  \A c \in DOMAIN h, n \in Names \cup Methods :
    (\E p \in Range(h[c].parents) : Has(h, p, n)) => Has(h, LastParent(h, c), n)

MCByName == <<"A", "B", "C", "D">>

MCHierarchies ==
  {h \in {Chain(d) : d \in Declarations} \cup {Fork(d) : d \in Declarations} \cup {Diamond(d) : d \in Declarations} :
     NothingHidden(h)}

MCSymmetry == Permutations(Variables)

=============================================================================

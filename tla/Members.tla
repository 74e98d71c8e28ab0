------------------------------ MODULE Members ------------------------------
(***************************************************************************)
(* Classes, their objects and the members found through parents.           *)
(*                                                                         *)
(* A class is a function in the code, and an object of it is made by       *)
(* calling that function, which calls those of the parents first: each     *)
(* object has objects of its own for its parents, and no constructor of a  *)
(* parent runs.  A member is looked up in the object and then in those of  *)
(* its parents, and always written to the object itself.                   *)
(*                                                                         *)
(* A member is a record of its value `v' and the permission that goes with *)
(* the value wherever it is copied to.  Values are <<"declared", class>>,  *)
(* what a member begins with, <<"value", k>>, what a script writes,        *)
(* <<"object", address>> and <<"method", body>>.  A body is one of         *)
(*   <<"set", n>>        this.n = argument                                 *)
(*   <<"restore", n>>    this.n = base.n                                   *)
(*   <<"on", p, m>>      this.p.m(argument)                                *)
(* Calls are not answered from the cache of results (FunctionCache).       *)
(***************************************************************************)
EXTENDS Naturals, Sequences, FiniteSets, SequencesExt, TLC

CONSTANTS
  Hierarchies,  \* the classes of a script: what each class name declares
  ByName,       \* the names of classes in the order of std::map
  Names,        \* the names of members that are written and read
  Methods,      \* the names of members that are called
  Values,       \* what is written
  Variables,    \* the variables of the script that hold objects
  MaxWritten    \* how many members of objects are written at most, a bound on the exploration

ASSUME MembersAssumption == \A classes \in Hierarchies : DOMAIN classes \subseteq Range(ByName)

VARIABLES
  classes,  \* the classes of this script
  heap,     \* the objects, by address
  vars,     \* the object each variable holds, 0 before
  bound,    \* the method that was named last
  failed,   \* an error has been reported
  written   \* not in the code: what was written last through an object, by object and name

state == <<classes, heap, vars, bound, failed, written>>

Missing == [v |-> <<"missing">>, permission |-> "MUTABLE"]
ValueOf(k) == [v |-> <<"value", k>>, permission |-> "MUTABLE"]
ObjectAt(a) == [v |-> <<"object", a>>, permission |-> "MUTABLE"]
IsObject(member) == member.v[1] = "object"
IsMethod(member) == member.v[1] = "method"

-----------------------------------------------------------------------------
(* OP_CLASS: the variables, then the constants and the methods. *)
MembersOf(c) ==
  [n \in classes[c].lets |-> [v |-> <<"declared", c>>, permission |-> "MUTABLE"]]
    @@ [n \in classes[c].consts |-> [v |-> <<"declared", c>>, permission |-> "IMMUTABLE"]]
    @@ [m \in DOMAIN classes[c].methods |-> [v |-> <<"method", classes[c].methods[m]>>, permission |-> "IMMUTABLE"]]

RECURSIVE Instantiate(_, _)

(* Mutant of Instantiate: one object of a parent class for all. *)
RECURSIVE InstantiateShared(_, _)
InstantiateShared(c, h) ==
  LET made == FoldLeft(LAMBDA s, p : LET same == {a \in DOMAIN s.heap : s.heap[a].class = p}
                                         t == IF same = {} THEN InstantiateShared(p, s.heap)
                                              ELSE [heap |-> s.heap, object |-> CHOOSE a \in same : TRUE]
                                     IN  [heap |-> t.heap, parents |-> (p :> t.object) @@ s.parents],
                       [heap |-> h, parents |-> <<>>], classes[c].parents)
  IN  [heap |-> Append(made.heap, [class |-> c, members |-> MembersOf(c), parents |-> made.parents]),
       object |-> Len(made.heap) + 1]

(* The function of a class, called: its object, after those of the parents. *)
Instantiate(c, h) ==
  LET made == FoldLeft(LAMBDA s, p : LET t == Instantiate(p, s.heap)
                                     IN  [heap |-> t.heap, parents |-> (p :> t.object) @@ s.parents],
                       [heap |-> h, parents |-> <<>>], classes[c].parents)
  IN  [heap |-> Append(made.heap, [class |-> c, members |-> MembersOf(c), parents |-> made.parents]),
       object |-> Len(made.heap) + 1]

ParentsInOrder(object) == SelectSeq(ByName, LAMBDA p : p \in DOMAIN object.parents)

RECURSIVE GetMember(_, _, _)

(* The answer of each parent replaces that of the one before. *)
GetParentMember(h, o, n) ==
  FoldLeft(LAMBDA found, p : IF p = n THEN ObjectAt(h[o].parents[p]) ELSE GetMember(h, h[o].parents[p], n),
           Missing, ParentsInOrder(h[o]))

(* Mutant of GetMember: a class does not override its parents. *)
GetMemberParentsFirst(h, o, n) ==
  IF GetParentMember(h, o, n) # Missing THEN GetParentMember(h, o, n)
  ELSE IF n \in DOMAIN h[o].members THEN h[o].members[n] ELSE Missing

GetMember(h, o, n) == IF n \in DOMAIN h[o].members THEN h[o].members[n] ELSE GetParentMember(h, o, n)

-----------------------------------------------------------------------------
(* What an operation results in: the heap after it, or an error, and what  *)
(* was written for the script that did it.                                 *)
Error == [failed |-> TRUE, heap |-> <<>>, written |-> <<>>]
Done(h, w) == [failed |-> FALSE, heap |-> h, written |-> w]

(* Mutants of SetProperty: any name may be written; only the constants of  *)
(* the object itself are refused.                                          *)
SetPropertyUnfound(h, o, n, member) ==
  IF GetMember(h, o, n).permission = "IMMUTABLE" THEN Error ELSE Done([h EXCEPT ![o].members = (n :> member) @@ @], <<>>)

SetPropertyOwn(h, o, n, member) ==
  IF GetMember(h, o, n) = Missing \/ (n \in DOMAIN h[o].members /\ h[o].members[n].permission = "IMMUTABLE") THEN Error
  ELSE Done([h EXCEPT ![o].members = (n :> member) @@ @], <<>>)

(* OP_SET_PROPERTY: the member must be found, and not be constant. *)
SetProperty(h, o, n, member) ==
  IF GetMember(h, o, n) = Missing \/ GetMember(h, o, n).permission = "IMMUTABLE" THEN Error
  ELSE Done([h EXCEPT ![o].members = (n :> member) @@ @], <<>>)

(* The same, remembered as what was written through the object `on'. *)
Write(h, on, o, n, member) ==
  LET done == SetProperty(h, o, n, member)
  IN  IF done.failed THEN Error ELSE Done(done.heap, <<on, n>> :> member.v)

RECURSIVE Owner(_, _, _)
Owner(h, o, n) ==
  IF n \in DOMAIN h[o].members THEN o
  ELSE FoldLeft(LAMBDA found, p : Owner(h, h[o].parents[p], n), 0, ParentsInOrder(h[o]))

(* Mutant of Bound: this is the object of the class the method is in. *)
BoundToOwner(h, o, m) == [on |-> o, receiver |-> Owner(h, o, m), body |-> GetMember(h, o, m).v[2]]

(* OP_GET_PROPERTY of a method: it keeps the object it was named of. *)
Bound(h, o, m) == [on |-> o, receiver |-> o, body |-> GetMember(h, o, m).v[2]]

(* OP_CALL of a bound method: the receiver is this. *)
RECURSIVE Run(_, _, _)
Run(h, method, argument) ==
  LET this == method.receiver
      body == method.body
  IN  CASE body[1] = "set" -> Write(h, method.on, this, body[2], argument)
        [] body[1] = "restore" ->
             LET base == GetParentMember(h, this, body[2])
             IN  IF base = Missing THEN Error ELSE Write(h, method.on, this, body[2], base)
        [] body[1] = "on" ->
             LET part == GetMember(h, this, body[2])
             IN  IF ~ IsObject(part) \/ ~ IsMethod(GetMember(h, part.v[2], body[3])) THEN Error
                 ELSE Run(h, Bound(h, part.v[2], body[3]), argument)

(* A constructor is chosen by its number of parameters, 0 or 1 here; a     *)
(* class that has none needs none.                                         *)
Construct(c, made, arguments) ==
  LET constructors == classes[c].constructors
  IN  CASE arguments = <<>> /\ constructors = <<>> -> Done(made.heap, <<>>)
        [] Len(arguments) \in DOMAIN constructors ->
             Run(made.heap, [on |-> made.object, receiver |-> made.object, body |-> constructors[Len(arguments)]],
                 Last(arguments))
        [] OTHER -> Error

-----------------------------------------------------------------------------
NoMethod == [on |-> 0, receiver |-> 0, body |-> <<"none">>]

Init ==
  /\ classes \in Hierarchies
  /\ heap = <<>> /\ vars = [x \in Variables |-> 0]
  /\ bound = NoMethod /\ failed = FALSE /\ written = <<>>

(* The objects a script gets to by naming a variable and then parents. *)
Parts(h, o) ==
  LET Of(a) == {GetMember(h, a, p).v[2] : p \in {q \in DOMAIN h[a].parents : IsObject(GetMember(h, a, q))}}
      one == Of(o)
  IN  {o} \cup one \cup UNION {Of(a) : a \in one}

Named == UNION {Parts(heap, vars[x]) : x \in {y \in Variables : vars[y] # 0}}

(* What is assigned or passed: a value, or that of a member. *)
Sources ==
  {ValueOf(k) : k \in Values}
    \cup {member \in {GetMember(heap, o, n) : o \in Named, n \in Names} : member # Missing}

Does(result) ==
  /\ Cardinality(DOMAIN (result.written @@ written)) <= MaxWritten
  /\ failed' = result.failed
  /\ IF result.failed THEN UNCHANGED <<heap, written>>
     ELSE heap' = result.heap /\ written' = result.written @@ written
  /\ UNCHANGED classes

(* let x = new c(arguments); *)
New(x, c, arguments) ==
  LET made == Instantiate(c, heap)
      result == Construct(c, made, arguments)
  IN  /\ ~ failed /\ vars[x] = 0
      /\ Does(result)
      /\ vars' = IF result.failed THEN vars ELSE [vars EXCEPT ![x] = made.object]
      /\ UNCHANGED bound

(* o.n = source; *)
Assign(o, n, source) ==
  /\ ~ failed
  /\ Does(Write(heap, o, o, n, source))
  /\ UNCHANGED <<vars, bound>>

(* o.m, as a value. *)
Bind(o, m) ==
  /\ ~ failed
  /\ IF IsMethod(GetMember(heap, o, m)) THEN bound' = Bound(heap, o, m) /\ failed' = FALSE
     ELSE bound' = bound /\ failed' = TRUE
  /\ UNCHANGED <<classes, heap, vars, written>>

CallBound(source) ==
  /\ ~ failed /\ bound # NoMethod
  /\ Does(Run(heap, bound, source))
  /\ UNCHANGED <<vars, bound>>

Next ==
  \/ \E x \in Variables, c \in DOMAIN classes, arguments \in {<<>>} \cup {<<ValueOf(k)>> : k \in Values} : New(x, c, arguments)
  \/ \E o \in Named, n \in Names, source \in Sources : Assign(o, n, source)
  \/ \E o \in Named, m \in Methods : Bind(o, m)
  \/ \E source \in Sources : CallBound(source)

Spec == Init /\ [][Next]_state

-----------------------------------------------------------------------------
RECURSIVE Ancestry(_)
Ancestry(c) == {c} \cup UNION {Ancestry(p) : p \in Range(classes[c].parents)}

Declares(c) == classes[c].lets \cup classes[c].consts \cup DOMAIN classes[c].methods

(* An object has an object for each parent of its class, made before it,   *)
(* and only members that its class or an ancestor declares.                *)
TypeOK ==
  /\ \A a \in DOMAIN heap :
       /\ DOMAIN heap[a].parents = Range(classes[heap[a].class].parents)
       /\ \A p \in DOMAIN heap[a].parents : heap[a].parents[p] < a /\ heap[heap[a].parents[p]].class = p
       /\ DOMAIN heap[a].members \subseteq UNION {Declares(d) : d \in Ancestry(heap[a].class)}
  /\ \A x \in Variables : vars[x] \in 0..Len(heap)

(* Where a name comes from: the classes that declare it with none of the   *)
(* classes on the way that does.                                           *)
RECURSIVE Bearers(_, _)
Bearers(c, n) == IF n \in Declares(c) THEN {c} ELSE UNION {Bearers(p, n) : p \in Range(classes[c].parents)}

RECURSIVE AllParts(_)
AllParts(a) == {a} \cup UNION {AllParts(heap[a].parents[p]) : p \in DOMAIN heap[a].parents}

(* A member that nobody has written is found if an ancestor declares it,   *)
(* with what the nearest one gives it: a class overrides its parents       *)
(* (Object.cpp:526).                                                       *)
Inherits ==
  \A a \in DOMAIN heap, n \in Names :
    (\A b \in AllParts(a) : <<b, n>> \notin DOMAIN written) =>
      GetMember(heap, a, n).v
        \in IF Bearers(heap[a].class, n) = {} THEN {Missing.v}
            ELSE {<<"declared", b>> : b \in Bearers(heap[a].class, n)}

(* What was written last through an object, by an assignment or by a       *)
(* method called on it, is what is read of it, wherever the member was     *)
(* declared and whichever object the method was found in (VM.cpp:582).     *)
WrittenIsRead == \A w \in DOMAIN written : GetMember(heap, w[1], w[2]).v = written[w]

(* A member that is read as a constant never reads differently, whatever   *)
(* is written to the object or to those of its parents (VM.cpp:835).       *)
ConstantsKept ==
  [][\A a \in DOMAIN heap, n \in Names \cup Methods :
       GetMember(heap, a, n).permission = "IMMUTABLE" => GetMember(heap', a, n) = GetMember(heap, a, n)]_state

ReadsOf(h, a) == {<<b, n, GetMember(h, b, n).v>> : b \in Parts(h, a), n \in Names}

(* A step changes what is read of at most one of the objects that the      *)
(* variables hold: no two have a parent's object in common                 *)
(* (Compiler.cpp:1350).                                                    *)
ReadsConfined ==
  [][\A x, y \in Variables :
       x # y /\ vars[x] # 0 /\ vars[y] # 0
         => ReadsOf(heap', vars[x]) = ReadsOf(heap, vars[x]) \/ ReadsOf(heap', vars[y]) = ReadsOf(heap, vars[y])]_state

=============================================================================

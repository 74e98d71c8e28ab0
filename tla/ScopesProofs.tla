---------------------------- MODULE ScopesProofs ----------------------------
(***************************************************************************)
(* The compiler's symbol tables keep their shape, whatever a script uses.  *)
(*                                                                         *)
(* TypeOK is not inductive.  ExitScope pops as many slots as it marks      *)
(* symbols as gone: that there are as many is Counted, which relates the   *)
(* symbols that are still local to the slots, while slot 0 has a symbol    *)
(* that is older than every block (HasSelf).  EndFunction stores the value *)
(* of a function in the table around it: Founded says what it stores.      *)
(***************************************************************************)
EXTENDS Scopes, SequenceFacts, FiniteSetTheorems

(* Slot 0 of every function has the closure that runs, and its symbol is    *)
(* older than every block.                                                   *)
HasSelf(t) ==
  /\ t.symbols # <<>> /\ t.slots # <<>>
  /\ t.symbols[1].params = None /\ t.symbols[1].location = "LOCAL" /\ t.symbols[1].index = 0
  /\ t.symbols[1].scopeDepth + Len(t.blocks) = t.depth + 1
  /\ t.kind = "main" => t.blocks # <<>> /\ t.symbols[1].scopeDepth = 0 /\ t.symbols[1].name = None /\ t.slots[1] = Nothing
  /\ t.kind # "main" => Len(t.blocks) >= 2 /\ t.symbols[1].scopeDepth >= 1

(* The value of the last declaration is not there yet. *)
Awaits(k, location) == k < Len(tables) /\ tables[k + 1].kind = "function" /\ tables[k + 1].into.location = location

LocalsOf(t) == {i \in DOMAIN t.symbols : t.symbols[i].location = "LOCAL"}

(* A local has a slot, once it has a value. *)
Counted(k) ==
  Cardinality(LocalsOf(tables[k])) = Len(tables[k].slots) + (IF Awaits(k, "LOCAL") THEN 1 ELSE 0)

Founded(k) ==
  /\ HasSelf(tables[k]) /\ Counted(k)
  /\ tables[k].kind = "main" <=> k = 1
  /\ \A i \in DOMAIN tables[k].slots : tables[k].slots[i] <= declared
  /\ tables[k].kind = "function" => tables[k].into.name # None
  /\ k # 1 /\ tables[k].into.name # None /\ tables[k].into.location = "GLOBAL" => tables[k].into.index <= Len(globals)

Basic == TypeOK /\ \A k \in DOMAIN tables : Founded(k)

-----------------------------------------------------------------------------
(* What the operators make of a table *)

(* The symbol of slot 0 is a symbol. *)
LEMMA SelfType ==
  ASSUME NEW n \in Names \cup {None}, NEW d \in Nat
  PROVE  Self(n, d) \in Symbol
BY DEF Self, Symbol

(* The fields of a table, *)
LEMMA TableFields ==
  ASSUME NEW t \in Table
  PROVE  /\ t.symbols \in Seq(Symbol) /\ t.locals \in Nat /\ t.depth \in Nat
         /\ t.upvalues \in Seq([location : Nat, depth : Nat]) /\ t.kind \in {"main", "function", "lambda"}
         /\ t.into \in Symbol /\ t.blocks \in Seq(Seq(Declaration)) /\ t.slots \in Seq(Nat) /\ t.frame \in Nat
         /\ t = [symbols |-> t.symbols, locals |-> t.locals, depth |-> t.depth, upvalues |-> t.upvalues, kind |-> t.kind,
                 into |-> t.into, blocks |-> t.blocks, slots |-> t.slots, frame |-> t.frame]
BY DEF Table

(* ... which make a table. *)
LEMMA IsTable ==
  ASSUME NEW symbols \in Seq(Symbol), NEW locals \in Nat, NEW depth \in Nat,
         NEW upvalues \in Seq([location : Nat, depth : Nat]), NEW kind \in {"main", "function", "lambda"},
         NEW into \in Symbol, NEW blocks \in Seq(Seq(Declaration)), NEW slots \in Seq(Nat), NEW frame \in Nat
  PROVE  [symbols |-> symbols, locals |-> locals, depth |-> depth, upvalues |-> upvalues, kind |-> kind,
          into |-> into, blocks |-> blocks, slots |-> slots, frame |-> frame] \in Table
BY DEF Table

(* The table of a script, with the libraries. *)
LEMMA StartTable ==
  /\ Start \in Table
  /\ Len(Start.symbols) = Len(Libraries) + 1 /\ Start.symbols[1] = Self(None, 0)
  /\ \A i \in 1..Len(Libraries) :
       LET s == Start.symbols[i + 1] IN
         s.name = Libraries[i] /\ s.params = None /\ s.location = "GLOBAL" /\ s.index = i - 1 /\ s.scopeDepth = 0
  /\ Start.locals = 1 /\ Start.depth = 0 /\ Start.kind = "main" /\ Start.slots = <<Nothing>> /\ Start.upvalues = <<>>
  /\ Start.frame = 0
  /\ Start.blocks = <<[i \in DOMAIN Libraries |-> [name |-> Libraries[i], params |-> None, variable |-> i]]>>
<1> DEFINE S(i) == [Self(Libraries[i], 0) EXCEPT !.location = "GLOBAL", !.index = i - 1]
           D(i) == [name |-> Libraries[i], params |-> None, variable |-> i]
           symbols == [i \in DOMAIN Libraries |-> S(i)]
           decls == [i \in DOMAIN Libraries |-> D(i)]
<1>1. Libraries \in Seq(Names) /\ DOMAIN Libraries = 1..Len(Libraries) /\ Len(Libraries) \in Nat
  BY ScopesAssumption
<1>2. ASSUME NEW i \in 1..Len(Libraries) PROVE S(i) \in Symbol /\ D(i) \in Declaration
  <2>1. Libraries[i] \in Names BY <1>1
  <2>2. i - 1 \in Nat OBVIOUS
  <2>3. D(i) \in Declaration BY <2>1 DEF Declaration
  <2>4. Self(Libraries[i], 0) \in Symbol BY <2>1, SelfType
  <2>5. S(i) \in Symbol BY <2>2, <2>4 DEF Symbol
  <2> QED BY <2>3, <2>5
<1>20. ASSUME NEW i \in 1..Len(Libraries)
       PROVE  S(i).name = Libraries[i] /\ S(i).params = None /\ S(i).location = "GLOBAL" /\ S(i).index = i - 1 /\ S(i).scopeDepth = 0
  BY DEF Self
<1>3. symbols \in Seq(Symbol) /\ Len(symbols) = Len(Libraries) /\ \A i \in 1..Len(Libraries) : symbols[i] = S(i)
  <2> HIDE DEF S
  <2>1. symbols \in [1..Len(Libraries) -> Symbol] BY <1>1, <1>2
  <2>2. \A i \in 1..Len(Libraries) : symbols[i] = S(i) BY <1>1
  <2> HIDE DEF symbols
  <2> QED BY <1>1, <2>1, <2>2, IsSeq
<1>4. decls \in Seq(Declaration)
  <2> HIDE DEF D
  <2>1. decls \in [1..Len(Libraries) -> Declaration] BY <1>1, <1>2
  <2> HIDE DEF decls
  <2> QED BY <1>1, <2>1, IsSeq
<1>5. Self(None, 0) \in Symbol BY SelfType
<1>6. Start = [symbols |-> <<Self(None, 0)>> \o symbols, locals |-> 1, depth |-> 0, upvalues |-> <<>>, kind |-> "main",
               into |-> Self(None, 0), blocks |-> <<decls>>, slots |-> <<Nothing>>, frame |-> 0]
  BY DEF Start
<1> HIDE DEF symbols, decls, S, D
<1>8. <<Self(None, 0)>> \o symbols \in Seq(Symbol) /\ Len(<<Self(None, 0)>> \o symbols) = Len(Libraries) + 1
      /\ (<<Self(None, 0)>> \o symbols)[1] = Self(None, 0)
      /\ \A i \in 1..Len(Libraries) : (<<Self(None, 0)>> \o symbols)[i + 1] = symbols[i]
  BY <1>3, <1>5, Prepended
<1>7. Start \in Table
  <2>1. <<decls>> \in Seq(Seq(Declaration)) /\ <<Nothing>> \in Seq(Nat) /\ <<>> \in Seq([location : Nat, depth : Nat])
    BY <1>4 DEF Nothing
  <2> QED BY <2>1, <1>5, <1>6, <1>8, IsTable
<1>10. Start.symbols = <<Self(None, 0)>> \o symbols BY <1>6
<1>11. /\ Len(Start.symbols) = Len(Libraries) + 1 /\ Start.symbols[1] = Self(None, 0)
       /\ \A i \in 1..Len(Libraries) : Start.symbols[i + 1] = S(i)
  BY <1>3, <1>8, <1>10
<1>12. Start.locals = 1 /\ Start.depth = 0 /\ Start.kind = "main" /\ Start.slots = <<Nothing>> /\ Start.upvalues = <<>>
       /\ Start.frame = 0 /\ Start.blocks = <<decls>>
  BY <1>6
<1> QED BY <1>7, <1>11, <1>12, <1>20 DEF decls, D

(* What Define makes is a symbol. *)
LEMMA DefinedType ==
  ASSUME NEW t \in Table, NEW n \in Names, NEW p \in ParamCounts \cup {None}, NEW c \in Nat
  PROVE  Defined(t, n, p, c) \in Symbol
<1>1. t.depth \in Nat /\ t.locals \in Nat BY TableFields
<1> QED BY <1>1 DEF Defined, Symbol

(* The table with a symbol more, *)
LEMMA WithSymbolTable ==
  ASSUME NEW t \in Table, t.blocks # <<>>, NEW s \in Symbol, s.name # None, NEW v \in Nat
  PROVE  LET u == WithSymbol(t, s, v)
             d == [name |-> s.name, params |-> s.params, variable |-> v]
         IN /\ u \in Table /\ u.symbols = Append(t.symbols, s)
            /\ u.locals = IF s.location = "LOCAL" THEN t.locals + 1 ELSE t.locals
            /\ u.depth = t.depth /\ u.upvalues = t.upvalues /\ u.kind = t.kind /\ u.into = t.into
            /\ u.slots = t.slots /\ u.frame = t.frame
            /\ d \in Declaration
            /\ u.blocks = Append(Front(t.blocks), Append(Last(t.blocks), d))
            /\ Len(u.blocks) = Len(t.blocks)
<1> DEFINE d == [name |-> s.name, params |-> s.params, variable |-> v]
           b == t.blocks
           e == Append(b[Len(b)], d)
           c == [b EXCEPT ![Len(b)] = e]
           l == IF s.location = "LOCAL" THEN t.locals + 1 ELSE t.locals
<1>1. d \in Declaration BY DEF Symbol, Declaration
<1>2. b \in Seq(Seq(Declaration)) /\ b # <<>> BY TableFields
<1>3. c \in Seq(Seq(Declaration)) /\ Len(c) = Len(b) /\ c = Append(Front(b), Append(Last(b), d))
  <2> HIDE DEF b, d
  <2>1. Last(b) = b[Len(b)] /\ b[Len(b)] \in Seq(Declaration) BY <1>2, Fronted
  <2>2. e \in Seq(Declaration) BY <1>1, <2>1
  <2>3. e = Append(Last(b), d) BY <2>1
  <2> HIDE DEF e
  <2>4. c \in Seq(Seq(Declaration)) /\ Len(c) = Len(b) /\ c = Append(Front(b), e) BY <1>2, <2>2, LastReplaced
  <2> QED BY <2>3, <2>4
<1>4. WithSymbol(t, s, v) =
        [symbols |-> Append(t.symbols, s), locals |-> l, depth |-> t.depth, upvalues |-> t.upvalues, kind |-> t.kind,
         into |-> t.into, blocks |-> c, slots |-> t.slots, frame |-> t.frame]
  <2>1. WithSymbol(t, s, v) = [t EXCEPT !.symbols = Append(@, s), !.locals = l, !.blocks = c]
    BY DEF WithSymbol, Table
  <2>2. t = [symbols |-> t.symbols, locals |-> t.locals, depth |-> t.depth, upvalues |-> t.upvalues, kind |-> t.kind,
             into |-> t.into, blocks |-> t.blocks, slots |-> t.slots, frame |-> t.frame]
    BY TableFields
  <2> HIDE DEF c, l
  <2> QED BY <2>1, <2>2
<1>5. Append(t.symbols, s) \in Seq(Symbol) /\ l \in Nat BY TableFields
<1>8. /\ t.depth \in Nat /\ t.upvalues \in Seq([location : Nat, depth : Nat]) /\ t.kind \in {"main", "function", "lambda"}
      /\ t.into \in Symbol /\ t.slots \in Seq(Nat) /\ t.frame \in Nat
  BY TableFields
<1> HIDE DEF b, c, d, e, l
<1>6. WithSymbol(t, s, v) \in Table BY <1>3, <1>4, <1>5, <1>8 DEF Table
<1>7. l = IF s.location = "LOCAL" THEN t.locals + 1 ELSE t.locals BY DEF l
<1> QED BY <1>1, <1>3, <1>4, <1>6, <1>7 DEF b, d

(* ... with a value more, *)
LEMMA StoredTable ==
  ASSUME NEW t \in Table, NEW s \in Symbol, NEW v \in Nat
  PROVE  LET u == Stored(t, s, v)
         IN /\ u \in Table
            /\ u.symbols = t.symbols /\ u.locals = t.locals /\ u.depth = t.depth /\ u.upvalues = t.upvalues
            /\ u.kind = t.kind /\ u.into = t.into /\ u.blocks = t.blocks /\ u.frame = t.frame
            /\ s.location = "GLOBAL" => u.slots = t.slots
            /\ s.location = "LOCAL" => u.slots = Append(t.slots, v)
<1>1. CASE s.location = "GLOBAL" BY <1>1 DEF Stored
<1>2. CASE s.location # "GLOBAL"
  <2> DEFINE c == Append(t.slots, v)
  <2>1. c \in Seq(Nat) BY TableFields
  <2>2. Stored(t, s, v) = [t EXCEPT !.slots = c] BY <1>2 DEF Stored
  <2> HIDE DEF c
  <2>3. Stored(t, s, v) \in Table BY <2>1, <2>2 DEF Table
  <2>4. LET u == Stored(t, s, v)
        IN /\ u.symbols = t.symbols /\ u.locals = t.locals /\ u.depth = t.depth /\ u.upvalues = t.upvalues
           /\ u.kind = t.kind /\ u.into = t.into /\ u.blocks = t.blocks /\ u.frame = t.frame /\ u.slots = c
    BY <2>2 DEF Table
  <2> QED BY <1>2, <2>3, <2>4 DEF c
<1> QED BY <1>1, <1>2

(* ... the parameters of a function, *)
LEMMA ParametersType ==
  ASSUME NEW n, NEW params \in Parameters(n)
  PROVE  /\ params \in Seq(Names) /\ Len(params) \in ParamCounts /\ Len(params) \in Nat
         /\ DOMAIN params = 1..Len(params) /\ \A i \in 1..Len(params) : params[i] \in Names /\ params[i] # None
<1>1. PICK p \in ParamCounts : params \in [1..p -> Names] BY DEF Parameters
<1>2. p \in Nat BY ScopesAssumption
<1>3. params \in Seq(Names) /\ Len(params) = p BY <1>1, <1>2, IsSeq
<1>4. \A i \in 1..Len(params) : params[i] \in Names BY <1>3, SeqParts
<1> QED BY <1>2, <1>3, <1>4, SeqParts, ScopesAssumption

(* What a table for a function has. *)
NewShape(u, name, params, v, depth, kind, into, frame) ==
  /\ u \in Table
  /\ Len(u.symbols) = Len(params) + 1 /\ u.symbols[1] = Self(name, depth)
  /\ \A i \in 1..Len(params) :
       LET s == u.symbols[i + 1] IN
         s.name = params[i] /\ s.params = None /\ s.location = "LOCAL" /\ s.index = i /\ s.scopeDepth = depth
  /\ u.locals = Len(params) + 1 /\ u.depth = depth + 1 /\ u.upvalues = <<>>
  /\ u.kind = kind /\ u.into = into /\ u.frame = frame
  /\ Len(u.slots) = Len(params) + 1 /\ u.slots[1] = v /\ \A i \in 1..Len(params) : u.slots[i + 1] = v + i
  /\ u.blocks = <<[i \in DOMAIN params |-> [name |-> params[i], params |-> None, variable |-> v + i]], <<>>>>

(* ... and the table of a function. *)
LEMMA NewTableTable ==
  ASSUME Here \in Table, NEW name \in Names \cup {None}, NEW params \in Seq(Names), NEW v \in Nat,
         NEW kind \in {"function", "lambda"}, NEW into \in Symbol, NEW frame \in Nat
  PROVE  NewShape(NewTable(name, params, v, kind, into, frame), name, params, v, Here.depth + 1, kind, into, frame)
<1> DEFINE depth == Here.depth + 1
           S(i) == [Self(params[i], depth) EXCEPT !.index = i]
           D(i) == [name |-> params[i], params |-> None, variable |-> v + i]
           symbols == [i \in DOMAIN params |-> S(i)]
           decls == [i \in DOMAIN params |-> D(i)]
           slots == [i \in DOMAIN params |-> v + i]
           u == NewTable(name, params, v, kind, into, frame)
<1>1. DOMAIN params = 1..Len(params) /\ Len(params) \in Nat /\ \A i \in 1..Len(params) : params[i] \in Names
  BY SeqParts
<1>2. depth \in Nat /\ Here.depth + 2 = depth + 1 BY TableFields
<1>3. ASSUME NEW i \in 1..Len(params)
      PROVE  /\ S(i) \in Symbol /\ D(i) \in Declaration /\ v + i \in Nat
             /\ S(i).name = params[i] /\ S(i).params = None /\ S(i).location = "LOCAL" /\ S(i).index = i
             /\ S(i).scopeDepth = depth
  <2> HIDE DEF depth
  <2>1. params[i] \in Names BY <1>1
  <2>2. Self(params[i], depth) \in Symbol BY <1>2, <2>1, SelfType
  <2>3. S(i) \in Symbol BY <2>2 DEF Symbol
  <2>4. v + i \in Nat OBVIOUS
  <2>5. D(i) \in Declaration BY <2>1, <2>4 DEF Declaration
  <2>6. S(i).name = params[i] /\ S(i).params = None /\ S(i).location = "LOCAL" /\ S(i).index = i /\ S(i).scopeDepth = depth
    BY DEF Self
  <2> QED BY <2>3, <2>4, <2>5, <2>6
<1>4. symbols \in Seq(Symbol) /\ Len(symbols) = Len(params) /\ \A i \in 1..Len(params) : symbols[i] = S(i)
  <2> HIDE DEF S
  <2>1. symbols \in [1..Len(params) -> Symbol] /\ \A i \in 1..Len(params) : symbols[i] = S(i) BY <1>1, <1>3
  <2> HIDE DEF symbols
  <2> QED BY <1>1, <2>1, IsSeq
<1>5. decls \in Seq(Declaration)
  <2> HIDE DEF D
  <2>1. decls \in [1..Len(params) -> Declaration] BY <1>1, <1>3
  <2> HIDE DEF decls
  <2> QED BY <1>1, <2>1, IsSeq
<1>6. slots \in Seq(Nat) /\ Len(slots) = Len(params) /\ \A i \in 1..Len(params) : slots[i] = v + i
  <2>1. slots \in [1..Len(params) -> Nat] /\ \A i \in 1..Len(params) : slots[i] = v + i BY <1>1, <1>3
  <2> HIDE DEF slots
  <2> QED BY <1>1, <2>1, IsSeq
<1>7. u = [symbols |-> <<Self(name, depth)>> \o symbols, locals |-> Len(params) + 1, depth |-> depth + 1,
           upvalues |-> <<>>, kind |-> kind, into |-> into, blocks |-> <<decls, <<>>>>, slots |-> <<v>> \o slots, frame |-> frame]
  BY DEF NewTable
<1>8. Self(name, depth) \in Symbol
  <2> HIDE DEF depth
  <2> QED BY <1>2, SelfType
<1> HIDE DEF symbols, decls, slots, S, D, depth, u
<1>9. /\ <<Self(name, depth)>> \o symbols \in Seq(Symbol)
      /\ Len(<<Self(name, depth)>> \o symbols) = Len(params) + 1
      /\ (<<Self(name, depth)>> \o symbols)[1] = Self(name, depth)
      /\ \A i \in 1..Len(params) : (<<Self(name, depth)>> \o symbols)[i + 1] = S(i)
  BY <1>4, <1>8, Prepended
<1>10. /\ <<v>> \o slots \in Seq(Nat) /\ Len(<<v>> \o slots) = Len(params) + 1
       /\ (<<v>> \o slots)[1] = v /\ \A i \in 1..Len(params) : (<<v>> \o slots)[i + 1] = v + i
  BY <1>6, Prepended
<1>11. u \in Table
  <2>1. <<decls, <<>>>> \in Seq(Seq(Declaration)) /\ <<>> \in Seq([location : Nat, depth : Nat]) BY <1>5
  <2>2. Len(params) + 1 \in Nat /\ depth + 1 \in Nat /\ kind \in {"main", "function", "lambda"} BY <1>1, <1>2
  <2> QED BY <2>1, <2>2, <1>7, <1>9, <1>10 DEF Table
<1>12. /\ u.symbols = <<Self(name, depth)>> \o symbols /\ u.locals = Len(params) + 1 /\ u.depth = depth + 1
       /\ u.upvalues = <<>> /\ u.kind = kind /\ u.into = into /\ u.frame = frame
       /\ u.slots = <<v>> \o slots /\ u.blocks = <<decls, <<>>>>
  BY <1>7
<1>13. \A i \in 1..Len(params) :
         LET s == u.symbols[i + 1] IN
           s.name = params[i] /\ s.params = None /\ s.location = "LOCAL" /\ s.index = i /\ s.scopeDepth = depth
  <2> SUFFICES ASSUME NEW i \in 1..Len(params)
               PROVE  LET s == u.symbols[i + 1] IN
                        s.name = params[i] /\ s.params = None /\ s.location = "LOCAL" /\ s.index = i /\ s.scopeDepth = depth
    OBVIOUS
  <2>1. u.symbols[i + 1] = S(i) BY <1>9, <1>12
  <2> QED BY <1>3, <2>1
<1>14. NewShape(u, name, params, v, depth, kind, into, frame)
  BY <1>9, <1>10, <1>11, <1>12, <1>13 DEF NewShape, decls, D
<1> QED BY <1>14 DEF u, depth

-----------------------------------------------------------------------------
(* Resolve *)

Matches(t, i, n, c) ==
  t.symbols[i].name = n /\ Compatible(t.symbols[i].params, c) /\ t.symbols[i].scopeDepth <= t.depth

(* Found is the last symbol that matches. *)
LEMMA FoundIs ==
  ASSUME NEW t \in Table, NEW n, NEW c
  PROVE  /\ Found(t, n, c) \in 0..Len(t.symbols)
         /\ Found(t, n, c) # 0 => Matches(t, Found(t, n, c), n, c)
         /\ \A i \in 1..Len(t.symbols) : Matches(t, i, n, c) => i <= Found(t, n, c)
<1> DEFINE T == {0} \cup {i \in DOMAIN t.symbols : Matches(t, i, n, c)}
<1>1. Len(t.symbols) \in Nat /\ DOMAIN t.symbols = 1..Len(t.symbols) BY TableFields
<1>2. T \in SUBSET Nat /\ T # {} /\ \A x \in T : x <= Len(t.symbols) BY <1>1
<1>3. Found(t, n, c) = Max(T) BY DEF Found, Matches
<1>4. Max(T) \in T /\ \A x \in T : x <= Max(T)
  <2> HIDE DEF T
  <2> QED BY <1>1, <1>2, Greatest
<1> HIDE DEF T
<1>5. Max(T) \in 0..Len(t.symbols) /\ (Max(T) # 0 => Matches(t, Max(T), n, c)) BY <1>1, <1>4 DEF T
<1>6. \A i \in 1..Len(t.symbols) : Matches(t, i, n, c) => i <= Max(T) BY <1>1, <1>4 DEF T
<1> QED BY <1>3, <1>5, <1>6

(* Home is the innermost table that has one. *)
LEMMA HomeIs ==
  ASSUME tables \in Seq(Table), NEW n, NEW c
  PROVE  /\ Home(n, c) \in 0..Len(tables)
         /\ Home(n, c) # 0 => Found(tables[Home(n, c)], n, c) # 0
         /\ \A k \in 1..Len(tables) : Found(tables[k], n, c) # 0 => k <= Home(n, c)
<1> DEFINE T == {0} \cup {k \in DOMAIN tables : Found(tables[k], n, c) # 0}
<1>1. Len(tables) \in Nat /\ DOMAIN tables = 1..Len(tables) OBVIOUS
<1>2. T \in SUBSET Nat /\ T # {} /\ \A x \in T : x <= Len(tables) BY <1>1
<1>3. Home(n, c) = Max(T) BY DEF Home
<1>4. Max(T) \in T /\ \A x \in T : x <= Max(T)
  <2> HIDE DEF T
  <2> QED BY <1>1, <1>2, Greatest
<1> HIDE DEF T
<1>5. Max(T) \in 0..Len(tables) /\ (Max(T) # 0 => Found(tables[Max(T)], n, c) # 0) BY <1>1, <1>4 DEF T
<1>6. \A k \in 1..Len(tables) : Found(tables[k], n, c) # 0 => k <= Max(T) BY <1>1, <1>4 DEF T
<1> QED BY <1>3, <1>5, <1>6

(* A table that Resolve has not changed, but for what is captured. *)
Alike(t, u) ==
  /\ u.locals = t.locals /\ u.depth = t.depth /\ u.kind = t.kind /\ u.into = t.into /\ u.blocks = t.blocks
  /\ u.slots = t.slots /\ u.frame = t.frame /\ Len(u.symbols) = Len(t.symbols)
  /\ \A i \in 1..Len(t.symbols) :
       /\ u.symbols[i].name = t.symbols[i].name /\ u.symbols[i].params = t.symbols[i].params
       /\ u.symbols[i].location = t.symbols[i].location /\ u.symbols[i].index = t.symbols[i].index
       /\ u.symbols[i].scopeDepth = t.symbols[i].scopeDepth
       /\ t.symbols[i].isCaptured => u.symbols[i].isCaptured

(* A symbol that is marked leaves the rest of its table alone. *)
LEMMA CapturedTable ==
  ASSUME NEW t \in Table, NEW i \in 1..Len(t.symbols)
  PROVE  LET u == [t EXCEPT !.symbols[i].isCaptured = TRUE]
         IN u \in Table /\ Alike(t, u) /\ u.upvalues = t.upvalues /\ u.symbols[i].isCaptured
<1> DEFINE s == t.symbols
           e == [s[i] EXCEPT !.isCaptured = TRUE]
           r == [s EXCEPT ![i] = e]
           u == [t EXCEPT !.symbols[i].isCaptured = TRUE]
<1>1. s \in Seq(Symbol) BY TableFields
<1>2. s[i] \in Symbol BY <1>1
<1>3. e \in Symbol /\ e.name = s[i].name /\ e.params = s[i].params /\ e.location = s[i].location /\ e.index = s[i].index
      /\ e.scopeDepth = s[i].scopeDepth /\ e.isCaptured
  BY <1>2 DEF Symbol
<1>4. u = [t EXCEPT !.symbols = r] BY DEF Table
<1> HIDE DEF e
<1>5. r \in Seq(Symbol) /\ Len(r) = Len(s) /\ r[i] = e /\ \A j \in 1..Len(s) : j # i => r[j] = s[j]
  <2>1. i \in 1..Len(s) OBVIOUS
  <2> HIDE DEF s
  <2> QED BY <1>1, <1>3, <2>1
<1> HIDE DEF r, u
<1>6. u \in Table BY <1>4, <1>5 DEF Table
<1>7. u.symbols = r /\ u.locals = t.locals /\ u.depth = t.depth /\ u.kind = t.kind /\ u.into = t.into /\ u.blocks = t.blocks
      /\ u.slots = t.slots /\ u.frame = t.frame /\ u.upvalues = t.upvalues
  BY <1>4 DEF Table
<1>8. Alike(t, u) BY <1>3, <1>5, <1>7 DEF Alike
<1> QED BY <1>3, <1>5, <1>6, <1>7, <1>8 DEF u

(* A table gets an upvalue if it does not have it. *)
LEMMA AddUpValueTable ==
  ASSUME NEW t \in Table, NEW l \in Nat, NEW d \in Nat
  PROVE  LET u == AddUpValue(t, l, d)
             x == [location |-> l, depth |-> d]
         IN /\ u \in Table /\ Alike(t, u) /\ u.symbols = t.symbols
            /\ \E j \in 1..Len(u.upvalues) : u.upvalues[j] = x
            /\ \A j \in 1..Len(u.upvalues) : u.upvalues[j] = x \/ \E i \in 1..Len(t.upvalues) : u.upvalues[j] = t.upvalues[i]
<1> DEFINE x == [location |-> l, depth |-> d]
           u == AddUpValue(t, l, d)
           U == [location : Nat, depth : Nat]
<1>1. t.upvalues \in Seq(U) /\ x \in U BY TableFields
<1>2. CASE \E i \in DOMAIN t.upvalues : t.upvalues[i] = x
  <2>1. u = t BY <1>2 DEF AddUpValue
  <2>2. \E i \in 1..Len(t.upvalues) : t.upvalues[i] = x BY <1>1, <1>2
  <2> HIDE DEF u, x
  <2> QED BY <2>1, <2>2 DEF Alike, u, x
<1>3. CASE ~\E i \in DOMAIN t.upvalues : t.upvalues[i] = x
  <2> DEFINE r == Append(t.upvalues, x)
  <2>1. u = [t EXCEPT !.upvalues = r] BY <1>3 DEF AddUpValue
  <2> HIDE DEF u, x
  <2>2. r \in Seq(U) /\ Len(r) = Len(t.upvalues) + 1 /\ r[Len(t.upvalues) + 1] = x
        /\ \A j \in 1..Len(t.upvalues) : r[j] = t.upvalues[j]
    BY <1>1
  <2>3. Len(t.upvalues) \in Nat BY <1>1
  <2>4. /\ \E j \in 1..Len(r) : r[j] = x
        /\ \A j \in 1..Len(r) : r[j] = x \/ \E i \in 1..Len(t.upvalues) : r[j] = t.upvalues[i]
    BY <2>2, <2>3
  <2> HIDE DEF r
  <2>5. u \in Table BY <2>1, <2>2 DEF Table
  <2>6. u.upvalues = r /\ u.symbols = t.symbols /\ u.locals = t.locals /\ u.depth = t.depth /\ u.kind = t.kind /\ u.into = t.into
        /\ u.blocks = t.blocks /\ u.slots = t.slots /\ u.frame = t.frame
    BY <2>1 DEF Table
  <2>7. Alike(t, u) BY <2>6 DEF Alike
  <2> QED BY <2>4, <2>5, <2>6, <2>7 DEF u, x
<1> QED BY <1>2, <1>3

(* Resolve leaves every table as it is, but for what is captured. *)
LEMMA ResolvedTables ==
  ASSUME tables \in Seq(Table), NEW n, NEW c, Home(n, c) # 0
  PROVE  /\ Resolved(n, c) \in Seq(Table) /\ Len(Resolved(n, c)) = Len(tables)
         /\ \A k \in 1..Len(tables) : Alike(tables[k], Resolved(n, c)[k])
<1> DEFINE home == Home(n, c)
           i == Found(tables[home], n, c)
           symbol == tables[home].symbols[i]
           after == Resolved(n, c)
<1>1. home \in 1..Len(tables) /\ i # 0 BY HomeIs
<1>2. tables[home] \in Table BY <1>1
<1>3. i \in 1..Len(tables[home].symbols) BY <1>1, <1>2, FoundIs
<1>4. symbol \in Symbol
  <2>1. tables[home].symbols \in Seq(Symbol) BY <1>2, TableFields
  <2> QED BY <1>3, <2>1
<1>5. ASSUME NEW k \in 1..Len(tables) PROVE after[k] \in Table /\ Alike(tables[k], after[k])
  <2>1. tables[k] \in Table BY <1>5
  <2>2. Alike(tables[k], tables[k]) BY DEF Alike
  <2>3. CASE k = home /\ Len(tables) = home + 1
    <3>1. after[k] = [tables[home] EXCEPT !.symbols[i].isCaptured = TRUE] BY <2>3 DEF Resolved
    <3> HIDE DEF i, home, after
    <3> QED BY <1>2, <1>3, <2>3, <3>1, CapturedTable
  <2>4. CASE ~(k = home /\ Len(tables) = home + 1) /\ k > home /\ symbol.location = "LOCAL"
    <3>1. after[k] = AddUpValue(tables[k], symbol.index, k - 2) BY <2>4 DEF Resolved
    <3>2. symbol.index \in Nat
      <4> HIDE DEF symbol
      <4> QED BY <1>4 DEF Symbol
    <3>3. k - 2 \in Nat BY <1>1, <2>4
    <3> DEFINE l == symbol.index
               d == k - 2
    <3> HIDE DEF after, l, d
    <3>4. l \in Nat /\ d \in Nat /\ after[k] = AddUpValue(tables[k], l, d) BY <3>1, <3>2, <3>3 DEF l, d
    <3>5. AddUpValue(tables[k], l, d) \in Table /\ Alike(tables[k], AddUpValue(tables[k], l, d))
      BY <2>1, <3>4, AddUpValueTable
    <3> QED BY <3>4, <3>5
  <2>5. CASE ~(k = home /\ Len(tables) = home + 1) /\ ~(k > home /\ symbol.location = "LOCAL")
    <3>1. after[k] = tables[k] BY <2>5 DEF Resolved
    <3> QED BY <2>1, <2>2, <3>1
  <2> QED BY <2>3, <2>4, <2>5
<1>6. after \in [1..Len(tables) -> Table]
  <2>1. after = [k \in 1..Len(tables) |-> after[k]]
    <3>1. DOMAIN tables = 1..Len(tables) OBVIOUS
    <3> QED BY <3>1 DEF Resolved
  <2> HIDE DEF after
  <2> QED BY <1>5, <2>1
<1>7. after \in Seq(Table) /\ Len(after) = Len(tables)
  <2>1. Len(tables) \in Nat OBVIOUS
  <2> HIDE DEF after
  <2> QED BY <1>6, <2>1, IsSeq
<1> QED BY <1>5, <1>7

-----------------------------------------------------------------------------
(* Blocks *)

(* The table in a block more, *)
LEMMA EnteredTable ==
  ASSUME NEW t \in Table
  PROVE  LET u == [t EXCEPT !.depth = @ + 1, !.blocks = Append(@, <<>>)]
         IN /\ u \in Table /\ u.depth = t.depth + 1 /\ u.blocks = Append(t.blocks, <<>>)
            /\ u.symbols = t.symbols /\ u.locals = t.locals /\ u.upvalues = t.upvalues /\ u.kind = t.kind /\ u.into = t.into
            /\ u.slots = t.slots /\ u.frame = t.frame
<1> DEFINE d == t.depth + 1
           b == Append(t.blocks, <<>>)
           u == [t EXCEPT !.depth = d, !.blocks = b]
<1>1. d \in Nat /\ b \in Seq(Seq(Declaration)) BY TableFields
<1> HIDE DEF d, b
<1>2. u \in Table BY <1>1 DEF Table
<1>3. /\ u.depth = d /\ u.blocks = b /\ u.symbols = t.symbols /\ u.locals = t.locals /\ u.upvalues = t.upvalues
      /\ u.kind = t.kind /\ u.into = t.into /\ u.slots = t.slots /\ u.frame = t.frame
  BY DEF Table
<1> QED BY <1>2, <1>3 DEF d, b

(* The locals that are popped at the end of a block, *)
Gone(t) == {i \in DOMAIN t.symbols : t.symbols[i].location = "LOCAL" /\ t.symbols[i].scopeDepth >= t.depth}

(* ... and the table then. *)
Exited(t) ==
  [t EXCEPT !.depth = @ - 1, !.blocks = Front(@),
            !.symbols = [i \in DOMAIN @ |-> IF i \in Gone(t) THEN [t.symbols[i] EXCEPT !.location = "GLOBAL"] ELSE t.symbols[i]],
            !.slots = SubSeq(@, 1, Len(@) - Cardinality(Gone(t)))]

(* ... and in a block less. *)
LEMMA ExitedTable ==
  ASSUME NEW t \in Table, t.depth >= 1, t.blocks # <<>>,
         Cardinality(Gone(t)) \in Nat, Cardinality(Gone(t)) <= Len(t.slots)
  PROVE  LET u == Exited(t)
         IN /\ u \in Table /\ u.depth = t.depth - 1 /\ u.blocks = Front(t.blocks)
            /\ u.locals = t.locals /\ u.upvalues = t.upvalues /\ u.kind = t.kind /\ u.into = t.into /\ u.frame = t.frame
            /\ Len(u.symbols) = Len(t.symbols)
            /\ \A i \in 1..Len(t.symbols) :
                 /\ u.symbols[i].name = t.symbols[i].name /\ u.symbols[i].params = t.symbols[i].params
                 /\ u.symbols[i].index = t.symbols[i].index /\ u.symbols[i].scopeDepth = t.symbols[i].scopeDepth
                 /\ u.symbols[i].isCaptured = t.symbols[i].isCaptured
                 /\ i \in Gone(t) => u.symbols[i].location = "GLOBAL"
                 /\ i \notin Gone(t) => u.symbols[i].location = t.symbols[i].location
            /\ Len(u.slots) = Len(t.slots) - Cardinality(Gone(t))
            /\ \A i \in 1..Len(u.slots) : u.slots[i] = t.slots[i]
<1> DEFINE M(i) == IF i \in Gone(t) THEN [t.symbols[i] EXCEPT !.location = "GLOBAL"] ELSE t.symbols[i]
           m == [i \in DOMAIN t.symbols |-> M(i)]
           n == Len(t.slots) - Cardinality(Gone(t))
           r == SubSeq(t.slots, 1, n)
           d == t.depth - 1
           b == Front(t.blocks)
           u == Exited(t)
<1>1. t.symbols \in Seq(Symbol) /\ DOMAIN t.symbols = 1..Len(t.symbols) /\ Len(t.symbols) \in Nat BY TableFields
<1>2. ASSUME NEW i \in 1..Len(t.symbols)
      PROVE  /\ M(i) \in Symbol
             /\ M(i).name = t.symbols[i].name /\ M(i).params = t.symbols[i].params
             /\ M(i).index = t.symbols[i].index /\ M(i).scopeDepth = t.symbols[i].scopeDepth
             /\ M(i).isCaptured = t.symbols[i].isCaptured
             /\ i \in Gone(t) => M(i).location = "GLOBAL"
             /\ i \notin Gone(t) => M(i).location = t.symbols[i].location
  <2> DEFINE s == t.symbols[i]
             e == [s EXCEPT !.location = "GLOBAL"]
  <2>1. s \in Symbol BY <1>1
  <2> HIDE DEF s
  <2>2. /\ e \in Symbol /\ e.location = "GLOBAL"
        /\ e.name = s.name /\ e.params = s.params /\ e.index = s.index /\ e.scopeDepth = s.scopeDepth /\ e.isCaptured = s.isCaptured
    BY <2>1 DEF Symbol
  <2> HIDE DEF e
  <2>3. M(i) = IF i \in Gone(t) THEN e ELSE s BY DEF e, s
  <2> HIDE DEF M
  <2> QED BY <2>1, <2>2, <2>3 DEF s
<1>3. m \in Seq(Symbol) /\ Len(m) = Len(t.symbols) /\ \A i \in 1..Len(t.symbols) : m[i] = M(i)
  <2> HIDE DEF M
  <2>1. m \in [1..Len(t.symbols) -> Symbol] /\ \A i \in 1..Len(t.symbols) : m[i] = M(i) BY <1>1, <1>2
  <2> HIDE DEF m
  <2> QED BY <1>1, <2>1, IsSeq
<1>4. n \in Nat /\ n <= Len(t.slots) /\ t.slots \in Seq(Nat)
  <2>1. t.slots \in Seq(Nat) /\ Len(t.slots) \in Nat BY TableFields
  <2> QED BY <2>1
<1>5. r \in Seq(Nat) /\ Len(r) = n /\ \A i \in 1..n : r[i] = t.slots[i]
  <2> HIDE DEF n
  <2> QED BY <1>4
<1>6. d \in Nat BY TableFields
<1>7. b \in Seq(Seq(Declaration)) BY TableFields, Fronted
<1>8. u = [t EXCEPT !.depth = d, !.blocks = b, !.symbols = m, !.slots = r] BY DEF Exited, Table
<1> HIDE DEF m, n, r, d, b, u, M
<1>9. u \in Table BY <1>3, <1>5, <1>6, <1>7, <1>8 DEF Table
<1>10. /\ u.depth = d /\ u.blocks = b /\ u.symbols = m /\ u.slots = r
       /\ u.locals = t.locals /\ u.upvalues = t.upvalues /\ u.kind = t.kind /\ u.into = t.into /\ u.frame = t.frame
  BY <1>8 DEF Table
<1>11. \A i \in 1..Len(t.symbols) : u.symbols[i] = M(i) BY <1>3, <1>10
<1>12. /\ Len(u.symbols) = Len(t.symbols)
       /\ \A i \in 1..Len(t.symbols) :
            /\ u.symbols[i].name = t.symbols[i].name /\ u.symbols[i].params = t.symbols[i].params
            /\ u.symbols[i].index = t.symbols[i].index /\ u.symbols[i].scopeDepth = t.symbols[i].scopeDepth
            /\ u.symbols[i].isCaptured = t.symbols[i].isCaptured
            /\ i \in Gone(t) => u.symbols[i].location = "GLOBAL"
            /\ i \notin Gone(t) => u.symbols[i].location = t.symbols[i].location
  BY <1>2, <1>3, <1>10, <1>11
<1>13. Len(u.slots) = n /\ \A i \in 1..Len(u.slots) : u.slots[i] = t.slots[i] BY <1>5, <1>10
<1> QED BY <1>9, <1>10, <1>12, <1>13 DEF n, d, b, u

-----------------------------------------------------------------------------
(* Slot 0, and the number of slots *)

(* The locals of a table can be counted. *)
LEMMA LocalsFinite ==
  ASSUME NEW t \in Table, NEW S \in SUBSET LocalsOf(t)
  PROVE  IsFiniteSet(S) /\ Cardinality(S) \in Nat
<1>1. DOMAIN t.symbols = 1..Len(t.symbols) /\ Len(t.symbols) \in Nat BY TableFields
<1>2. IsFiniteSet(1..Len(t.symbols)) BY <1>1, FS_Interval
<1>3. S \in SUBSET (1..Len(t.symbols)) BY <1>1 DEF LocalsOf
<1>4. IsFiniteSet(S) BY <1>2, <1>3, FS_Subset
<1> QED BY <1>4, FS_CardinalityType

(* There is always a block, a symbol and a slot. *)
LEMMA SelfHasBlock ==
  ASSUME NEW t \in Table, HasSelf(t)
  PROVE  t.blocks # <<>> /\ Len(t.blocks) >= 1 /\ Len(t.symbols) >= 1 /\ Len(t.slots) >= 1
<1>1. t.blocks # <<>>
  <2>1. CASE t.kind = "main" BY <2>1 DEF HasSelf
  <2>2. CASE t.kind # "main" BY <2>2 DEF HasSelf
  <2> QED BY <2>1, <2>2
<1>2. t.symbols # <<>> /\ t.slots # <<>> BY DEF HasSelf
<1>3. t.blocks \in Seq(Seq(Declaration)) /\ t.symbols \in Seq(Symbol) /\ t.slots \in Seq(Nat) BY TableFields
<1> QED BY <1>1, <1>2, <1>3

(* Resolve keeps slot 0 and the number of locals. *)
LEMMA AlikeSelf ==
  ASSUME NEW t \in Table, NEW u \in Table, Alike(t, u)
  PROVE  LocalsOf(u) = LocalsOf(t) /\ (HasSelf(t) => HasSelf(u))
<1>1. DOMAIN t.symbols = 1..Len(t.symbols) /\ DOMAIN u.symbols = 1..Len(t.symbols) BY TableFields DEF Alike
<1>2. LocalsOf(u) = LocalsOf(t) BY <1>1 DEF LocalsOf, Alike
<1>3. ASSUME HasSelf(t) PROVE HasSelf(u)
  <2>1. Len(t.symbols) >= 1 /\ 1 \in 1..Len(t.symbols) BY <1>3, SelfHasBlock
  <2>2. u.symbols # <<>>
    <3>1. Len(u.symbols) >= 1 BY <2>1 DEF Alike
    <3> QED BY <3>1
  <2> QED BY <1>3, <2>1, <2>2 DEF HasSelf, Alike
<1> QED BY <1>2, <1>3

(* A new symbol keeps slot 0, and is a local or not. *)
LEMMA WithSymbolSelf ==
  ASSUME NEW t \in Table, HasSelf(t), NEW s \in Symbol, s.name # None, NEW v \in Nat
  PROVE  LET u == WithSymbol(t, s, v)
         IN /\ HasSelf(u)
            /\ s.location = "LOCAL" => Cardinality(LocalsOf(u)) = Cardinality(LocalsOf(t)) + 1
            /\ s.location # "LOCAL" => Cardinality(LocalsOf(u)) = Cardinality(LocalsOf(t))
<1> DEFINE u == WithSymbol(t, s, v)
           n == Len(t.symbols) + 1
<1>1. t.blocks # <<>> /\ Len(t.symbols) >= 1 BY SelfHasBlock
<1>2. /\ u \in Table /\ u.symbols = Append(t.symbols, s) /\ u.depth = t.depth /\ u.kind = t.kind /\ u.slots = t.slots
      /\ Len(u.blocks) = Len(t.blocks)
  BY <1>1, WithSymbolTable
<1>3. t.symbols \in Seq(Symbol) /\ Len(t.symbols) \in Nat /\ DOMAIN t.symbols = 1..Len(t.symbols) BY TableFields
<1> HIDE DEF u
<1>4. /\ DOMAIN u.symbols = 1..n /\ u.symbols[n] = s /\ \A i \in 1..Len(t.symbols) : u.symbols[i] = t.symbols[i]
  BY <1>2, <1>3
<1>5. HasSelf(u)
  <2>1. u.symbols[1] = t.symbols[1] BY <1>1, <1>3, <1>4
  <2>2. u.symbols # <<>> BY <1>2, <1>3
  <2>3. u.kind = "main" => u.blocks # <<>>
    <3>1. u.blocks \in Seq(Seq(Declaration)) /\ t.blocks \in Seq(Seq(Declaration)) BY <1>2, TableFields
    <3> QED BY <1>1, <1>2, <3>1
  <2> QED BY <1>2, <2>1, <2>2, <2>3 DEF HasSelf
<1>6. IsFiniteSet(LocalsOf(t)) BY LocalsFinite
<1>7. n \notin LocalsOf(t) BY <1>3 DEF LocalsOf
<1>8. CASE s.location = "LOCAL"
  <2>1. LocalsOf(u) = LocalsOf(t) \cup {n} BY <1>3, <1>4, <1>8 DEF LocalsOf
  <2>2. Cardinality(LocalsOf(u)) = Cardinality(LocalsOf(t)) + 1 BY <1>6, <1>7, <2>1, FS_AddElement
  <2> QED BY <1>5, <1>8, <2>2 DEF u
<1>9. CASE s.location # "LOCAL"
  <2>1. LocalsOf(u) = LocalsOf(t) BY <1>3, <1>4, <1>9 DEF LocalsOf
  <2> QED BY <1>5, <1>9, <2>1 DEF u
<1> QED BY <1>8, <1>9

(* A value keeps slot 0 and the number of locals. *)
LEMMA StoredSelf ==
  ASSUME NEW t \in Table, HasSelf(t), NEW s \in Symbol, NEW v \in Nat
  PROVE  HasSelf(Stored(t, s, v)) /\ LocalsOf(Stored(t, s, v)) = LocalsOf(t)
<1> DEFINE u == Stored(t, s, v)
<1>1. /\ u \in Table /\ u.symbols = t.symbols /\ u.depth = t.depth /\ u.kind = t.kind /\ u.blocks = t.blocks
      /\ s.location = "GLOBAL" => u.slots = t.slots
      /\ s.location = "LOCAL" => u.slots = Append(t.slots, v)
  BY StoredTable
<1>2. s.location \in {"GLOBAL", "LOCAL"} BY DEF Symbol
<1>3. t.slots \in Seq(Nat) /\ Len(t.slots) >= 1 BY TableFields, SelfHasBlock
<1> HIDE DEF u
<1>4. u.slots # <<>> /\ u.slots[1] = t.slots[1] BY <1>1, <1>2, <1>3
<1>5. HasSelf(u) BY <1>1, <1>4 DEF HasSelf
<1>6. LocalsOf(u) = LocalsOf(t) BY <1>1 DEF LocalsOf
<1> QED BY <1>5, <1>6 DEF u

(* A function begins with its slot 0 and its parameters. *)
LEMMA NewTableSelf ==
  ASSUME NEW u, NEW name \in Names \cup {None}, NEW params \in Seq(Names), NEW v, NEW depth \in Nat, depth >= 1,
         NEW kind, kind # "main", NEW into, NEW frame, NewShape(u, name, params, v, depth, kind, into, frame)
  PROVE  HasSelf(u) /\ Cardinality(LocalsOf(u)) = Len(params) + 1
<1>1. Len(params) \in Nat OBVIOUS
<1>2. u \in Table /\ DOMAIN u.symbols = 1..(Len(params) + 1) BY TableFields DEF NewShape
<1>3. Len(u.blocks) = 2 BY DEF NewShape
<1>4. u.symbols # <<>> /\ u.slots # <<>> BY <1>1 DEF NewShape
<1>5. HasSelf(u) BY <1>3, <1>4 DEF HasSelf, NewShape, Self
<1>6. ASSUME NEW i \in 1..(Len(params) + 1) PROVE u.symbols[i].location = "LOCAL"
  <2>1. CASE i = 1 BY <2>1 DEF NewShape, Self
  <2>2. CASE i # 1
    <3>1. PICK j \in 1..Len(params) : i = j + 1
      <4>1. i - 1 \in 1..Len(params) /\ i = (i - 1) + 1 BY <1>1, <2>2
      <4> QED BY <4>1
    <3> QED BY <3>1 DEF NewShape
  <2> QED BY <2>1, <2>2
<1>7. LocalsOf(u) = 1..(Len(params) + 1) BY <1>2, <1>6 DEF LocalsOf
<1>8. Cardinality(1..(Len(params) + 1)) = Len(params) + 1 BY <1>1, FS_Interval
<1> QED BY <1>5, <1>7, <1>8

(* The locals that the end of a block marks as gone are as many as it pops. *)
LEMMA ExitedSelf ==
  ASSUME NEW t \in Table, HasSelf(t), Len(t.blocks) > (IF t.kind = "main" THEN 1 ELSE 2),
         Cardinality(LocalsOf(t)) = Len(t.slots)
  PROVE  /\ Cardinality(Gone(t)) \in Nat /\ Cardinality(Gone(t)) < Len(t.slots) /\ t.depth >= 1 /\ 1 \notin Gone(t)
         /\ HasSelf(Exited(t)) /\ Cardinality(LocalsOf(Exited(t))) = Len(Exited(t).slots)
<1> DEFINE u == Exited(t)
<1>1. t.blocks # <<>> /\ Len(t.blocks) >= 1 /\ Len(t.symbols) >= 1 BY SelfHasBlock
<1>2. t.depth \in Nat /\ Len(t.symbols) \in Nat /\ DOMAIN t.symbols = 1..Len(t.symbols) /\ t.slots \in Seq(Nat)
      /\ Len(t.blocks) \in Nat /\ t.blocks \in Seq(Seq(Declaration))
  BY TableFields
<1>3. t.symbols[1].scopeDepth \in Nat
  <2>1. t.symbols \in Seq(Symbol) BY TableFields
  <2>2. t.symbols[1] \in Symbol BY <1>1, <2>1
  <2> QED BY <2>2 DEF Symbol
<1>4. t.depth >= 1 /\ t.symbols[1].scopeDepth < t.depth
  <2>1. CASE t.kind = "main" BY <1>2, <1>3, <2>1 DEF HasSelf
  <2>2. CASE t.kind # "main" BY <1>2, <1>3, <2>2 DEF HasSelf
  <2> QED BY <2>1, <2>2
<1>5. 1 \notin Gone(t) BY <1>2, <1>3, <1>4 DEF Gone
<1>6. Gone(t) \in SUBSET LocalsOf(t) BY DEF Gone, LocalsOf
<1>7. /\ IsFiniteSet(LocalsOf(t)) /\ IsFiniteSet(Gone(t)) /\ Cardinality(Gone(t)) \in Nat
      /\ IsFiniteSet(LocalsOf(t) \ Gone(t)) /\ Cardinality(LocalsOf(t) \ Gone(t)) \in Nat
  BY <1>6, LocalsFinite
<1>8. Cardinality(LocalsOf(t) \ Gone(t)) = Cardinality(LocalsOf(t)) - Cardinality(Gone(t))
  <2>1. LocalsOf(t) \cap Gone(t) = Gone(t) BY <1>6
  <2>2. IsFiniteSet(LocalsOf(t)) BY <1>7
  <2>3. Cardinality(LocalsOf(t) \ Gone(t)) = Cardinality(LocalsOf(t)) - Cardinality(LocalsOf(t) \cap Gone(t))
    BY <2>2, FS_Difference
  <2> QED BY <2>1, <2>3
<1>9. 1 \in LocalsOf(t) \ Gone(t) BY <1>1, <1>2, <1>5 DEF LocalsOf, HasSelf
<1>10. Cardinality(LocalsOf(t) \ Gone(t)) # 0 BY <1>7, <1>9, FS_EmptySet
<1>11. Cardinality(Gone(t)) < Len(t.slots) BY <1>2, <1>7, <1>8, <1>10
<1>12. /\ u \in Table /\ u.depth = t.depth - 1 /\ u.blocks = Front(t.blocks) /\ u.kind = t.kind
       /\ Len(u.symbols) = Len(t.symbols)
       /\ \A i \in 1..Len(t.symbols) :
            /\ u.symbols[i].name = t.symbols[i].name /\ u.symbols[i].params = t.symbols[i].params
            /\ u.symbols[i].index = t.symbols[i].index /\ u.symbols[i].scopeDepth = t.symbols[i].scopeDepth
            /\ i \in Gone(t) => u.symbols[i].location = "GLOBAL"
            /\ i \notin Gone(t) => u.symbols[i].location = t.symbols[i].location
       /\ Len(u.slots) = Len(t.slots) - Cardinality(Gone(t))
       /\ \A i \in 1..Len(u.slots) : u.slots[i] = t.slots[i]
  <2>1. t.depth >= 1 /\ t.blocks # <<>> BY <1>1, <1>4
  <2>2. Cardinality(Gone(t)) \in Nat /\ Cardinality(Gone(t)) <= Len(t.slots) BY <1>2, <1>7, <1>11
  <2> QED BY <2>1, <2>2, ExitedTable
<1> HIDE DEF u
<1>13. DOMAIN u.symbols = 1..Len(t.symbols) BY <1>12, TableFields
<1>14. LocalsOf(u) = LocalsOf(t) \ Gone(t) BY <1>2, <1>12, <1>13 DEF LocalsOf
<1>15. Cardinality(LocalsOf(u)) = Len(u.slots) BY <1>8, <1>12, <1>14
<1>16. HasSelf(u)
  <2>1. Len(u.blocks) = Len(t.blocks) - 1
    <3>1. Len(Front(t.blocks)) = Len(t.blocks) - 1 BY <1>1, <1>2, Fronted
    <3> QED BY <1>12, <3>1
  <2>2. u.symbols # <<>> /\ u.slots # <<>> /\ u.slots[1] = t.slots[1]
    <3>1. Len(u.symbols) >= 1 /\ Len(u.slots) >= 1 BY <1>1, <1>2, <1>7, <1>11, <1>12
    <3> QED BY <1>12, <3>1
  <2>3. /\ u.symbols[1].name = t.symbols[1].name /\ u.symbols[1].params = t.symbols[1].params
        /\ u.symbols[1].index = t.symbols[1].index /\ u.symbols[1].scopeDepth = t.symbols[1].scopeDepth
        /\ u.symbols[1].location = t.symbols[1].location
    BY <1>1, <1>5, <1>12
  <2>4. u.kind = "main" => u.blocks # <<>>
    <3>1. u.kind = "main" => Len(u.blocks) >= 1 BY <1>2, <1>12, <2>1
    <3> QED BY <3>1
  <2>5. u.symbols[1].scopeDepth + Len(u.blocks) = u.depth + 1
    <3>1. t.symbols[1].scopeDepth + Len(t.blocks) = t.depth + 1 BY DEF HasSelf
    <3>2. u.depth = t.depth - 1 BY <1>12
    <3>3. u.symbols[1].scopeDepth = t.symbols[1].scopeDepth BY <2>3
    <3> DEFINE a == t.symbols[1].scopeDepth
               b == Len(t.blocks)
               d == t.depth
    <3>4. a \in Nat /\ b \in Nat /\ d \in Nat /\ a + b = d + 1 BY <1>2, <1>3, <3>1
    <3>5. u.symbols[1].scopeDepth = a /\ Len(u.blocks) = b - 1 /\ u.depth = d - 1 BY <2>1, <3>2, <3>3
    <3> HIDE DEF a, b, d
    <3> QED BY <3>4, <3>5
  <2>6. u.kind # "main" => Len(u.blocks) >= 2 BY <1>2, <1>12, <2>1
  <2> QED BY <1>12, <2>2, <2>3, <2>4, <2>5, <2>6 DEF HasSelf
<1> QED BY <1>4, <1>5, <1>7, <1>11, <1>15, <1>16 DEF u

(* What a function's value becomes is a symbol. *)
LEMMA IntoFields ==
  ASSUME NEW t \in Table
  PROVE  t.into.index \in Nat /\ t.into.location \in {"GLOBAL", "LOCAL"} /\ t.into.name \in Names \cup {None} /\ t.into \in Symbol
         /\ t.into.scopeDepth \in Nat /\ t.into.params \in ParamCounts \cup {None}
<1>1. t.into \in Symbol BY TableFields
<1> QED BY <1>1 DEF Symbol

-----------------------------------------------------------------------------
(* Handlers *)

(* A script begins with its slot 0 alone. *)
LEMMA StartSelf == HasSelf(Start) /\ LocalsOf(Start) = {1} /\ Cardinality(LocalsOf(Start)) = 1
<1>1. Len(Libraries) \in Nat BY ScopesAssumption
<1>2. Start \in Table /\ DOMAIN Start.symbols = 1..(Len(Libraries) + 1) /\ Start.symbols[1] = Self(None, 0)
  BY StartTable, TableFields
<1>3. ASSUME NEW i \in 1..(Len(Libraries) + 1), i # 1 PROVE Start.symbols[i].location = "GLOBAL"
  <2>1. PICK j \in 1..Len(Libraries) : i = j + 1
    <3>1. i - 1 \in 1..Len(Libraries) /\ i = (i - 1) + 1 BY <1>1, <1>3
    <3> QED BY <3>1
  <2> QED BY <2>1, StartTable
<1>4. Start.symbols[1].location = "LOCAL" BY <1>2 DEF Self
<1>5. LocalsOf(Start) = {1} BY <1>1, <1>2, <1>3, <1>4 DEF LocalsOf
<1>6. Cardinality(LocalsOf(Start)) = 1 BY <1>5, FS_Singleton
<1>7. Start.symbols # <<>> /\ Start.slots # <<>> /\ Start.blocks # <<>> /\ Len(Start.blocks) = 1
  <2>1. Len(Start.symbols) >= 1 BY <1>1, StartTable
  <2>2. Start.slots = <<Nothing>> /\ Len(Start.blocks) = 1 BY StartTable
  <2> QED BY <2>1, <2>2
<1>8. HasSelf(Start) BY <1>2, <1>7, StartTable DEF HasSelf, Self
<1> QED BY <1>5, <1>6, <1>8

(* Basic holds at first. *)
LEMMA InitBasic == Init => Basic
<1> SUFFICES ASSUME Init PROVE Basic OBVIOUS
<1>1. tables = <<Start>> /\ declared = Len(Libraries) /\ globals = [i \in DOMAIN Libraries |-> i] BY DEF Init
<1>2. Libraries \in Seq(Names) /\ Len(Libraries) \in 0..MaxDeclarations BY ScopesAssumption
<1>3. Start \in Table BY StartTable
<1>4. tables \in Seq(Table) /\ Len(tables) = 1 /\ tables[1] = Start BY <1>1, <1>3
<1>5. globals \in [1..Len(Libraries) -> 0..declared] BY <1>1, <1>2
<1>6. globals \in Seq(0..declared)
  <2>1. Len(Libraries) \in Nat BY <1>2
  <2> QED BY <1>5, <2>1, IsSeq
<1>7. TypeOK BY <1>1, <1>2, <1>4, <1>6 DEF TypeOK
<1>8. Founded(1)
  <2>1. \A location : ~Awaits(1, location) BY <1>4 DEF Awaits
  <2>2. Start.slots = <<Nothing>> /\ Start.kind = "main" BY StartTable
  <2>3. Counted(1) BY <1>4, <2>1, <2>2, StartSelf DEF Counted
  <2>4. \A i \in DOMAIN Start.slots : Start.slots[i] <= declared BY <1>1, <1>2, <2>2 DEF Nothing
  <2> QED BY <1>4, <2>2, <2>3, <2>4, StartSelf DEF Founded
<1>9. DOMAIN tables = {1} BY <1>4
<1> QED BY <1>7, <1>8, <1>9 DEF Basic

(* The table on top *)
LEMMA OnTop ==
  ASSUME Basic
  PROVE  /\ tables \in Seq(Table) /\ Len(tables) \in Nat /\ Len(tables) >= 1 /\ DOMAIN tables = 1..Len(tables)
         /\ Here = tables[Len(tables)] /\ Here \in Table /\ HasSelf(Here)
         /\ Cardinality(LocalsOf(Here)) = Len(Here.slots)
         /\ Here.depth \in Nat /\ Here.blocks # <<>> /\ Here.slots \in Seq(Nat) /\ Len(Here.slots) >= 1
         /\ Here.blocks \in Seq(Seq(Declaration))
         /\ Here.kind = "main" <=> Len(tables) = 1
         /\ \A i \in 1..Len(Here.slots) : Here.slots[i] <= declared
         /\ Founded(Len(tables))
         /\ globals \in Seq(0..declared) /\ Len(globals) \in Nat /\ declared \in 0..MaxDeclarations /\ MaxDeclarations \in Nat
<1>1. TypeOK BY DEF Basic
<1>2. tables \in Seq(Table) /\ Len(tables) \in Nat /\ Len(tables) >= 1 /\ DOMAIN tables = 1..Len(tables) BY <1>1 DEF TypeOK
<1>3. Here = tables[Len(tables)] /\ Here \in Table BY <1>2 DEF Here, Last
<1>4. Founded(Len(tables)) BY <1>2 DEF Basic
<1>5. ~Awaits(Len(tables), "LOCAL") BY <1>2 DEF Awaits
<1>6. HasSelf(Here) /\ Cardinality(LocalsOf(Here)) = Len(Here.slots)
  <2>1. Len(Here.slots) \in Nat BY <1>3, TableFields
  <2> QED BY <1>3, <1>4, <1>5, <2>1 DEF Founded, Counted
<1>7. Here.depth \in Nat /\ Here.slots \in Seq(Nat) /\ Here.blocks \in Seq(Seq(Declaration)) BY <1>3, TableFields
<1>8. Here.blocks # <<>> /\ Len(Here.slots) >= 1 BY <1>3, <1>6, SelfHasBlock
<1>9. globals \in Seq(0..declared) /\ declared \in 0..MaxDeclarations /\ MaxDeclarations \in Nat BY <1>1, ScopesAssumption DEF TypeOK
<1>10. (Here.kind = "main" <=> Len(tables) = 1) /\ \A i \in 1..Len(Here.slots) : Here.slots[i] <= declared
  BY <1>3, <1>4, <1>7 DEF Founded
<1> QED BY <1>2, <1>3, <1>4, <1>6, <1>7, <1>8, <1>9, <1>10

(* A global variable gets its value, at the end or in place. *)
LEMMA GlobalsWithIs ==
  ASSUME globals \in Seq(0..declared), declared \in Nat, NEW s \in Symbol, NEW v \in Nat, NEW d \in Nat, declared <= d, v <= d,
         s.location = "GLOBAL" => s.index <= Len(globals)
  PROVE  LET g == GlobalsWith(s, v) IN
         /\ g \in Seq(0..d) /\ Len(globals) <= Len(g)
         /\ s.location = "LOCAL" => g = globals
         /\ s.location = "GLOBAL" =>
              /\ s.index < Len(globals) => Len(g) = Len(globals)
              /\ s.index = Len(globals) => Len(g) = Len(globals) + 1
              /\ g[s.index + 1] = v
              /\ \A i \in 1..Len(globals) : i # s.index + 1 => g[i] = globals[i]
<1> DEFINE g == GlobalsWith(s, v)
           x == s.index + 1
           m == Max({Len(globals), x})
<1>1. s.index \in Nat /\ s.location \in {"GLOBAL", "LOCAL"} BY DEF Symbol
<1>2. Len(globals) \in Nat /\ \A i \in 1..Len(globals) : globals[i] \in 0..declared OBVIOUS
<1>3. CASE s.location = "LOCAL"
  <2>1. g = globals BY <1>3 DEF GlobalsWith
  <2>2. globals \in Seq(0..d)
    <3>1. globals \in [1..Len(globals) -> 0..d] BY <1>2
    <3> QED BY <1>2, <3>1, IsSeq
  <2> QED BY <1>2, <1>3, <2>1, <2>2
<1>4. CASE s.location = "GLOBAL"
  <2>1. g = [i \in 1..m |-> IF i = x THEN v ELSE globals[i]] BY <1>4 DEF GlobalsWith
  <2>2. x \in Nat /\ x >= 1 /\ x <= Len(globals) + 1 BY <1>1, <1>4
  <2>3. m \in Nat /\ m >= Len(globals) /\ m >= x /\ (x <= Len(globals) => m = Len(globals)) /\ (x = Len(globals) + 1 => m = x)
    <3> DEFINE n == Len(globals)
    <3>1. n \in Nat BY <1>2
    <3> HIDE DEF x, n
    <3>2. m \in Nat /\ (n <= x => m = x) /\ (x <= n => m = n) BY <2>2, <3>1, MaxOfTwo DEF n
    <3> HIDE DEF m
    <3>3. m \in Nat /\ m >= n /\ m >= x /\ (x <= n => m = n) /\ (x = n + 1 => m = x) BY <2>2, <3>1, <3>2 DEF n
    <3> QED BY <3>3 DEF n
  <2> HIDE DEF m, g, x
  <2>4. g \in [1..m -> 0..d]
    <3>1. ASSUME NEW i \in 1..m, i # x PROVE globals[i] \in 0..d
      <4>1. i \in 1..Len(globals) BY <1>2, <2>2, <2>3, <3>1
      <4>2. globals[i] \in 0..declared BY <1>2, <4>1
      <4> QED BY <4>2
    <3>2. \A i \in 1..m : (IF i = x THEN v ELSE globals[i]) \in 0..d
      <4>1. \A i \in 1..m : i # x => globals[i] \in 0..d BY <3>1
      <4>2. v \in 0..d OBVIOUS
      <4> QED BY <4>1, <4>2
    <3> QED BY <2>1, <3>2
  <2>5. g \in Seq(0..d) /\ Len(g) = m BY <2>3, <2>4, IsSeq
  <2>6. g[x] = v /\ \A i \in 1..Len(globals) : i # x => g[i] = globals[i] BY <1>2, <2>1, <2>2, <2>3
  <2>7. s.location # "LOCAL" BY <1>4
  <2>8. (s.index < Len(globals) => x <= Len(globals)) /\ (s.index = Len(globals) => x = Len(globals) + 1) BY <1>1, <1>2 DEF x
  <2> QED BY <2>2, <2>3, <2>5, <2>6, <2>7, <2>8 DEF g, x
<1> QED BY <1>1, <1>3, <1>4

(* A table that a handler leaves alone stays as it was. *)
LEMMA Kept ==
  ASSUME Basic, TypeOK', NEW k \in 1..Len(tables), Alike(tables[k], tables'[k]), k <= Len(tables'),
         Awaits(k, "LOCAL")' <=> Awaits(k, "LOCAL"), declared <= declared', Len(globals) <= Len(globals')
  PROVE  Founded(k)'
<1>1. tables[k] \in Table /\ tables'[k] \in Table /\ declared \in Nat /\ declared' \in Nat /\ Len(globals) \in Nat /\ Len(globals') \in Nat
  BY DEF Basic, TypeOK
<1>2. Founded(k)
  <2>1. k \in DOMAIN tables BY DEF Basic, TypeOK
  <2> QED BY <2>1 DEF Basic
<1> DEFINE t == tables[k]
           u == tables'[k]
<1>3. HasSelf(u) /\ LocalsOf(u) = LocalsOf(t) BY <1>1, <1>2, AlikeSelf DEF Founded
<1>4. u.slots = t.slots /\ u.kind = t.kind /\ u.into = t.into BY DEF Alike
<1>5. t.slots \in Seq(Nat) /\ t.into.index \in Nat BY <1>1, TableFields DEF Symbol
<1>6. Counted(k)'
  <2>1. Cardinality(LocalsOf(t)) = Len(t.slots) + (IF Awaits(k, "LOCAL") THEN 1 ELSE 0) BY <1>2 DEF Founded, Counted
  <2> QED BY <1>3, <1>4, <2>1 DEF Counted
<1>7. \A i \in DOMAIN u.slots : u.slots[i] <= declared'
  <2>1. \A i \in DOMAIN t.slots : t.slots[i] <= declared /\ t.slots[i] \in Nat BY <1>2, <1>5 DEF Founded
  <2> QED BY <1>1, <1>4, <2>1
<1>8. k # 1 /\ u.into.name # None /\ u.into.location = "GLOBAL" => u.into.index <= Len(globals')
  <2>1. k # 1 /\ t.into.name # None /\ t.into.location = "GLOBAL" => t.into.index <= Len(globals) BY <1>2 DEF Founded
  <2> QED BY <1>1, <1>4, <1>5, <2>1
<1>9. (u.kind = "main" <=> k = 1) /\ (u.kind = "function" => u.into.name # None) BY <1>2, <1>4 DEF Founded
<1> QED BY <1>3, <1>6, <1>7, <1>8, <1>9 DEF Founded

(* What a handler has to show: that the tables it changes are founded. *)
LEMMA Changed ==
  ASSUME Basic, TypeOK', NEW m \in 1..Len(tables), m <= Len(tables'), declared <= declared', Len(globals) <= Len(globals'),
         \A k \in 1..(m - 1) : Alike(tables[k], tables'[k]),
         tables'[m].kind = tables[m].kind, tables'[m].into = tables[m].into,
         \A k \in m..Len(tables') : Founded(k)'
  PROVE  Basic'
<1>1. Len(tables) \in Nat /\ Len(tables') \in Nat /\ DOMAIN tables' = 1..Len(tables') BY DEF Basic, TypeOK
<1>2. ASSUME NEW k \in 1..Len(tables') PROVE Founded(k)'
  <2>1. CASE k >= m BY <1>1, <2>1
  <2>2. CASE k < m
    <3>1. k \in 1..Len(tables) /\ k \in 1..(m - 1) BY <1>1, <2>2
    <3>2. Alike(tables[k], tables'[k]) BY <3>1
    <3>3. k < Len(tables) /\ k < Len(tables') BY <1>1, <2>2
    <3>4. tables'[k + 1].kind = tables[k + 1].kind /\ tables'[k + 1].into = tables[k + 1].into
      <4>1. CASE k + 1 = m BY <4>1
      <4>2. CASE k + 1 # m
        <5>1. k + 1 \in 1..(m - 1) BY <1>1, <2>2, <4>2
        <5>2. Alike(tables[k + 1], tables'[k + 1]) BY <5>1
        <5> QED BY <5>2 DEF Alike
      <4> QED BY <4>1, <4>2
    <3>5. Awaits(k, "LOCAL")' <=> Awaits(k, "LOCAL") BY <3>3, <3>4 DEF Awaits
    <3>6. k <= Len(tables') BY <1>1
    <3> QED BY <3>1, <3>2, <3>5, <3>6, Kept
  <2> QED BY <1>1, <2>1, <2>2
<1> QED BY <1>1, <1>2 DEF Basic

(* A handler that changes the table on top only *)
LEMMA TopChanged ==
  ASSUME Basic, NEW u \in Table, tables' = [tables EXCEPT ![Len(tables)] = u], u.kind = Here.kind, u.into = Here.into,
         HasSelf(u), Cardinality(LocalsOf(u)) = Len(u.slots), \A i \in DOMAIN u.slots : u.slots[i] <= declared',
         declared <= declared', declared' \in 0..MaxDeclarations, globals' \in Seq(0..declared'), Len(globals) <= Len(globals')
  PROVE  Basic'
<1>0. PICK m \in Nat : m = Len(tables) BY OnTop
<1>1. tables \in Seq(Table) /\ m \in Nat /\ m >= 1 /\ Here = tables[m] /\ Founded(m) /\ Len(globals) \in Nat BY <1>0, OnTop
<1>2. tables' \in Seq(Table) /\ Len(tables') = m /\ tables'[m] = u /\ \A k \in 1..(m - 1) : tables'[k] = tables[k] BY <1>0, <1>1
<1>9. m = Len(tables) /\ Len(tables') = m /\ m \in Nat /\ m >= 1 BY <1>0, <1>1, <1>2
<1>3. TypeOK'
  <2>1. tables' # <<>> BY <1>1, <1>2
  <2> QED BY <1>2, <2>1 DEF TypeOK
<1>4. Founded(m)'
  <2>1. ~Awaits(m, "LOCAL")'
    <3>1. ~(m < Len(tables')) BY <1>9
    <3> QED BY <3>1 DEF Awaits
  <2>2. Len(u.slots) \in Nat BY TableFields
  <2>3. Counted(m)'
    <3>1. Cardinality(LocalsOf(u)) = Len(u.slots) + 0 BY <2>2
    <3>2. Cardinality(LocalsOf(tables'[m])) = Len(tables'[m].slots) + (IF Awaits(m, "LOCAL")' THEN 1 ELSE 0)
      BY <1>2, <2>1, <3>1
    <3> QED BY <3>2 DEF Counted
  <2>4. (u.kind = "main" <=> m = 1) /\ (u.kind = "function" => u.into.name # None) BY <1>1 DEF Founded
  <2>5. m # 1 /\ u.into.name # None /\ u.into.location = "GLOBAL" => u.into.index <= Len(globals')
    <3>1. m # 1 /\ u.into.name # None /\ u.into.location = "GLOBAL" => u.into.index <= Len(globals) BY <1>1 DEF Founded
    <3>2. u.into.index \in Nat /\ Len(globals') \in Nat
      <4>1. u.into.index \in Nat BY IntoFields
      <4>2. Len(globals') \in Nat OBVIOUS
      <4> QED BY <4>1, <4>2
    <3> QED BY <1>1, <3>1, <3>2
  <2> QED BY <1>2, <2>3, <2>4, <2>5 DEF Founded
<1>5. \A k \in 1..(m - 1) : Alike(tables[k], tables'[k]) BY <1>2 DEF Alike
<1>6. tables'[m].kind = tables[m].kind /\ tables'[m].into = tables[m].into BY <1>1, <1>2
<1>7. m \in 1..Len(tables) /\ m <= Len(tables') BY <1>9
<1>8. \A k \in m..Len(tables') : Founded(k)'
  <2>1. \A k \in m..Len(tables') : k = m BY <1>9
  <2> QED BY <1>4, <2>1
<1> QED BY <1>3, <1>5, <1>6, <1>7, <1>8, Changed

(* The beginning of a block keeps Basic, *)
LEMMA EnterScopeBasic ==
  ASSUME Basic, EnterScope
  PROVE  Basic'
<1> DEFINE t == Here
           u == [t EXCEPT !.depth = @ + 1, !.blocks = Append(@, <<>>)]
<1>1. /\ t \in Table /\ HasSelf(t) /\ Cardinality(LocalsOf(t)) = Len(t.slots) /\ t.slots \in Seq(Nat) /\ t.depth \in Nat
      /\ t.blocks \in Seq(Seq(Declaration)) /\ (\A i \in 1..Len(t.slots) : t.slots[i] <= declared)
      /\ globals \in Seq(0..declared) /\ Len(globals) \in Nat /\ declared \in 0..MaxDeclarations /\ MaxDeclarations \in Nat
  BY OnTop
<1>2. tables' = [tables EXCEPT ![Len(tables)] = u] /\ globals' = globals /\ declared' = declared BY DEF EnterScope
<1> HIDE DEF t
<1>3. /\ u \in Table /\ u.depth = t.depth + 1 /\ u.blocks = Append(t.blocks, <<>>) /\ u.symbols = t.symbols
      /\ u.kind = t.kind /\ u.into = t.into /\ u.slots = t.slots
  BY <1>1, EnteredTable
<1> HIDE DEF u
<1>4. HasSelf(u)
  <2> DEFINE a == t.symbols[1].scopeDepth
             b == Len(t.blocks)
             d == t.depth
  <2>1. b \in Nat /\ d \in Nat /\ Len(u.blocks) = b + 1 /\ u.blocks # <<>>
    <3>1. <<>> \in Seq(Declaration) OBVIOUS
    <3>2. b \in Nat /\ d \in Nat BY <1>1
    <3>3. Len(Append(t.blocks, <<>>)) = b + 1 /\ Append(t.blocks, <<>>) # <<>>
      <4> DEFINE y == t.blocks
                 e == <<>>
      <4>1. y \in Seq(Seq(Declaration)) /\ e \in Seq(Declaration) BY <1>1, <3>1
      <4> HIDE DEF y, e
      <4>2. Len(Append(y, e)) = Len(y) + 1 /\ Append(y, e) # <<>> BY <4>1, Appended
      <4> QED BY <4>2 DEF y, e
    <3> QED BY <1>3, <3>2, <3>3
  <2>2. a \in Nat
    <3>1. t.symbols \in Seq(Symbol) /\ Len(t.symbols) >= 1 BY <1>1, TableFields, SelfHasBlock
    <3>2. t.symbols[1] \in Symbol BY <3>1
    <3> QED BY <3>2 DEF Symbol
  <2>3. a + b = d + 1 BY <1>1 DEF HasSelf
  <2>4. a + (b + 1) = (d + 1) + 1
    <3> HIDE DEF a, b, d
    <3> QED BY <2>1, <2>2, <2>3
  <2>5. u.symbols[1].scopeDepth + Len(u.blocks) = u.depth + 1 BY <1>3, <2>1, <2>4
  <2>6. u.kind # "main" => Len(u.blocks) >= 2
    <3>1. u.kind # "main" => b >= 2 BY <1>1, <1>3 DEF HasSelf
    <3> QED BY <2>1, <3>1
  <2> QED BY <1>1, <1>3, <2>1, <2>5, <2>6 DEF HasSelf
<1>5. Cardinality(LocalsOf(u)) = Len(u.slots) BY <1>1, <1>3 DEF LocalsOf
<1>6. \A i \in DOMAIN u.slots : u.slots[i] <= declared' BY <1>1, <1>2, <1>3
<1>7. declared <= declared' /\ Len(globals) <= Len(globals') BY <1>1, <1>2
<1> QED BY <1>1, <1>2, <1>3, <1>4, <1>5, <1>6, <1>7, TopChanged DEF t

(* ... and so does its end, *)
LEMMA ExitScopeBasic ==
  ASSUME Basic, ExitScope
  PROVE  Basic'
<1> DEFINE t == Here
           u == Exited(t)
<1>1. /\ t \in Table /\ HasSelf(t) /\ Cardinality(LocalsOf(t)) = Len(t.slots) /\ t.slots \in Seq(Nat)
      /\ t.blocks # <<>> /\ (\A i \in 1..Len(t.slots) : t.slots[i] <= declared)
      /\ globals \in Seq(0..declared) /\ Len(globals) \in Nat /\ declared \in 0..MaxDeclarations /\ MaxDeclarations \in Nat
  BY OnTop
<1>2. tables' = [tables EXCEPT ![Len(tables)] = u] /\ globals' = globals /\ declared' = declared
  BY DEF ExitScope, Exited, Gone
<1>3. Len(t.blocks) > (IF t.kind = "main" THEN 1 ELSE 2) BY DEF ExitScope, InBlock
<1> HIDE DEF t
<1>4. /\ Cardinality(Gone(t)) \in Nat /\ Cardinality(Gone(t)) < Len(t.slots) /\ t.depth >= 1
      /\ HasSelf(u) /\ Cardinality(LocalsOf(u)) = Len(u.slots)
  BY <1>1, <1>3, ExitedSelf
<1>5. /\ u \in Table /\ u.kind = t.kind /\ u.into = t.into /\ Len(u.slots) = Len(t.slots) - Cardinality(Gone(t))
      /\ \A i \in 1..Len(u.slots) : u.slots[i] = t.slots[i]
  <2>1. Cardinality(Gone(t)) <= Len(t.slots) BY <1>1, <1>4
  <2> QED BY <1>1, <1>4, <2>1, ExitedTable
<1> HIDE DEF u
<1>6. \A i \in DOMAIN u.slots : u.slots[i] <= declared'
  <2>1. DOMAIN u.slots = 1..Len(u.slots) BY <1>5, TableFields
  <2>2. ASSUME NEW i \in 1..Len(u.slots) PROVE i \in 1..Len(t.slots)
    <3>1. Len(t.slots) \in Nat BY <1>1
    <3> QED BY <1>4, <1>5, <3>1
  <2> QED BY <1>1, <1>2, <1>5, <2>1, <2>2
<1>7. declared <= declared' /\ Len(globals) <= Len(globals') BY <1>1, <1>2
<1> QED BY <1>1, <1>2, <1>4, <1>5, <1>6, <1>7, TopChanged DEF t

(* ... and the use of a name. *)
LEMMA IdentifierBasic ==
  ASSUME Basic, NEW n, NEW c, Identifier(n, c)
  PROVE  Basic'
<1> DEFINE m == Len(tables)
           after == Resolved(n, c)
<1>1. tables \in Seq(Table) /\ m \in Nat /\ m >= 1 /\ TypeOK /\ declared \in Nat /\ Len(globals) \in Nat
  BY OnTop DEF Basic
<1>2. Home(n, c) # 0 /\ tables' = after /\ globals' = globals /\ declared' = declared BY DEF Identifier
<1>3. after \in Seq(Table) /\ Len(after) = m /\ \A k \in 1..m : Alike(tables[k], after[k]) BY <1>1, <1>2, ResolvedTables
<1> HIDE DEF m, after
<1>4. TypeOK'
  <2>1. tables' # <<>> BY <1>1, <1>2, <1>3
  <2> QED BY <1>1, <1>2, <1>3, <2>1 DEF TypeOK
<1>5. ASSUME NEW k \in 1..m PROVE Founded(k)'
  <2>1. k < m => Alike(tables[k + 1], tables'[k + 1]) 
    <3>1. k < m => k + 1 \in 1..m BY <1>1
    <3> QED BY <1>2, <1>3, <3>1
  <2>2. Awaits(k, "LOCAL")' <=> Awaits(k, "LOCAL") BY <1>2, <1>3, <2>1 DEF Awaits, Alike, m
  <2>3. Alike(tables[k], tables'[k]) /\ k <= Len(tables') BY <1>2, <1>3
  <2>4. declared <= declared' /\ Len(globals) <= Len(globals') BY <1>1, <1>2
  <2>5. k \in 1..Len(tables) BY DEF m
  <2> QED BY <1>4, <2>2, <2>3, <2>4, <2>5, Kept
<1>6. DOMAIN tables' = 1..m BY <1>2, <1>3
<1> QED BY <1>4, <1>5, <1>6 DEF Basic

(* A handler that begins a function *)
LEMMA Pushed ==
  ASSUME Basic, NEW u \in Table, NEW w \in Table, tables' = Append([tables EXCEPT ![Len(tables)] = u], w),
         u.kind = Here.kind, u.into = Here.into, u.slots = Here.slots, HasSelf(u),
         w.kind = "function" /\ w.into.location = "LOCAL" => Cardinality(LocalsOf(u)) = Len(u.slots) + 1,
         ~(w.kind = "function" /\ w.into.location = "LOCAL") => Cardinality(LocalsOf(u)) = Len(u.slots),
         HasSelf(w), Cardinality(LocalsOf(w)) = Len(w.slots), w.kind # "main", w.kind = "function" => w.into.name # None,
         w.into.name # None /\ w.into.location = "GLOBAL" => w.into.index <= Len(globals'),
         \A i \in DOMAIN w.slots : w.slots[i] <= declared',
         declared <= declared', declared' \in 0..MaxDeclarations, globals' \in Seq(0..declared'), Len(globals) <= Len(globals')
  PROVE  Basic'
<1>0. PICK m \in Nat : m = Len(tables) BY OnTop
<1>1. tables \in Seq(Table) /\ m >= 1 /\ Here = tables[m] /\ Founded(m) /\ Len(globals) \in Nat /\ declared \in Nat
      /\ (Here.kind = "main" <=> m = 1) /\ Here.slots \in Seq(Nat) /\ \A i \in 1..Len(Here.slots) : Here.slots[i] <= declared
  <2>1. tables \in Seq(Table) /\ m >= 1 /\ Here = tables[m] /\ (Here.kind = "main" <=> m = 1) BY <1>0, OnTop
  <2>2. Here.slots \in Seq(Nat) /\ \A i \in 1..Len(Here.slots) : Here.slots[i] <= declared BY OnTop
  <2>3. Founded(m)
    <3>1. m \in DOMAIN tables BY <1>0, <2>1
    <3> QED BY <3>1 DEF Basic
  <2>4. Len(globals) \in Nat /\ declared \in Nat BY OnTop
  <2> QED BY <2>1, <2>2, <2>3, <2>4
<1>2. tables' \in Seq(Table) /\ Len(tables') = m + 1 /\ tables'[m] = u /\ tables'[m + 1] = w
      /\ \A k \in 1..(m - 1) : tables'[k] = tables[k]
  <2> DEFINE ts == [tables EXCEPT ![Len(tables)] = u]
  <2>1. ts \in Seq(Table) /\ Len(ts) = m /\ ts[m] = u /\ \A k \in 1..(m - 1) : ts[k] = tables[k] BY <1>0, <1>1
  <2> HIDE DEF ts
  <2>2. Append(ts, w) \in Seq(Table) /\ Len(Append(ts, w)) = m + 1 /\ Append(ts, w)[m + 1] = w
        /\ \A k \in 1..m : Append(ts, w)[k] = ts[k]
    BY <2>1, Appended
  <2>3. m \in 1..m /\ \A k \in 1..(m - 1) : k \in 1..m BY <1>1
  <2>4. tables' = Append(ts, w) BY DEF ts
  <2> QED BY <2>1, <2>2, <2>3, <2>4
<1>3. TypeOK'
  <2>1. tables' # <<>> BY <1>1, <1>2
  <2> QED BY <1>2, <2>1 DEF TypeOK
<1>4. Founded(m)'
  <2>1. Awaits(m, "LOCAL")' <=> (w.kind = "function" /\ w.into.location = "LOCAL")
    <3>1. m < Len(tables') BY <1>2
    <3> QED BY <1>2, <3>1 DEF Awaits
  <2>2. Len(u.slots) \in Nat
    <3>1. u.slots \in Seq(Nat) BY TableFields
    <3> QED BY <3>1
  <2>3. Counted(m)'
    <3>1. Cardinality(LocalsOf(u)) = Len(u.slots) + (IF Awaits(m, "LOCAL")' THEN 1 ELSE 0)
      <4>1. CASE Awaits(m, "LOCAL")' BY <2>1, <4>1
      <4>2. CASE ~Awaits(m, "LOCAL")'
        <5>1. Cardinality(LocalsOf(u)) = Len(u.slots) BY <2>1, <4>2
        <5>2. Len(u.slots) = Len(u.slots) + 0 BY <2>2
        <5> QED BY <4>2, <5>1, <5>2
      <4> QED BY <4>1, <4>2
    <3>2. Cardinality(LocalsOf(tables'[m])) = Len(tables'[m].slots) + (IF Awaits(m, "LOCAL")' THEN 1 ELSE 0)
      BY <1>2, <3>1
    <3> QED BY <3>2 DEF Counted
  <2>4. (u.kind = "main" <=> m = 1) /\ (u.kind = "function" => u.into.name # None) BY <1>1 DEF Founded
  <2>5. m # 1 /\ u.into.name # None /\ u.into.location = "GLOBAL" => u.into.index <= Len(globals')
    <3>1. m # 1 /\ u.into.name # None /\ u.into.location = "GLOBAL" => u.into.index <= Len(globals) BY <1>1 DEF Founded
    <3>2. u.into.index \in Nat /\ Len(globals') \in Nat
      <4>1. u.into.index \in Nat BY IntoFields
      <4>2. Len(globals') \in Nat OBVIOUS
      <4> QED BY <4>1, <4>2
    <3> QED BY <1>1, <3>1, <3>2
  <2>6. \A i \in DOMAIN u.slots : u.slots[i] <= declared'
    <3>1. declared' \in Nat BY ScopesAssumption
    <3>2. DOMAIN u.slots = 1..Len(Here.slots) BY <1>1
    <3>3. ASSUME NEW i \in 1..Len(Here.slots) PROVE Here.slots[i] <= declared'
      <4>1. Here.slots[i] \in Nat
        <5>1. Here.slots \in Seq(Nat) BY <1>1
        <5> QED BY <5>1, SeqParts
      <4>2. Here.slots[i] <= declared BY <1>1
      <4>3. declared \in Nat BY <1>1
      <4> QED BY <3>1, <4>1, <4>2, <4>3
    <3> QED BY <3>2, <3>3
  <2> QED BY <1>2, <2>3, <2>4, <2>5, <2>6 DEF Founded
<1>5. Founded(m + 1)'
  <2>1. ~Awaits(m + 1, "LOCAL")'
    <3>1. ~(m + 1 < Len(tables')) BY <1>2
    <3> QED BY <3>1 DEF Awaits
  <2>2. Len(w.slots) \in Nat BY TableFields
  <2>3. Counted(m + 1)'
    <3>1. Cardinality(LocalsOf(w)) = Len(w.slots) + 0 BY <2>2
    <3>2. Cardinality(LocalsOf(tables'[m + 1])) = Len(tables'[m + 1].slots) + (IF Awaits(m + 1, "LOCAL")' THEN 1 ELSE 0)
      BY <1>2, <2>1, <3>1
    <3> QED BY <3>2 DEF Counted
  <2>4. m + 1 # 1 BY <1>1
  <2> QED BY <1>2, <2>3, <2>4 DEF Founded
<1>6. \A k \in 1..(m - 1) : Alike(tables[k], tables'[k]) BY <1>2 DEF Alike
<1>7. tables'[m].kind = tables[m].kind /\ tables'[m].into = tables[m].into BY <1>1, <1>2
<1>8. m \in 1..Len(tables) /\ m <= Len(tables') BY <1>0, <1>1, <1>2
<1>9. \A k \in m..Len(tables') : Founded(k)'
  <2>1. \A k \in m..Len(tables') : k = m \/ k = m + 1 BY <1>2
  <2> QED BY <1>4, <1>5, <2>1
<1> QED BY <1>3, <1>6, <1>7, <1>8, <1>9, Changed

(* A handler that ends one *)
LEMMA Popped ==
  ASSUME Basic, NEW m \in Nat, m = Len(tables) - 1, m >= 1, NEW u \in Table,
         tables' = [Front(tables) EXCEPT ![m] = u],
         u.kind = tables[m].kind, u.into = tables[m].into, HasSelf(u), Cardinality(LocalsOf(u)) = Len(u.slots),
         \A i \in DOMAIN u.slots : u.slots[i] <= declared', declared' = declared,
         globals' \in Seq(0..declared'), Len(globals) <= Len(globals')
  PROVE  Basic'
<1>1. tables \in Seq(Table) /\ Len(tables) = m + 1 /\ Len(globals) \in Nat /\ declared \in 0..MaxDeclarations /\ MaxDeclarations \in Nat
      /\ m \in 1..Len(tables) /\ DOMAIN tables = 1..Len(tables) 
  BY OnTop
<1>2. Founded(m) BY <1>1 DEF Basic
<1>3. tables' \in Seq(Table) /\ Len(tables') = m /\ tables'[m] = u /\ \A k \in 1..(m - 1) : tables'[k] = tables[k]
  <2>1. Front(tables) \in Seq(Table) /\ Len(Front(tables)) = m /\ \A k \in 1..m : Front(tables)[k] = tables[k]
    <3>1. tables # <<>> BY <1>1
    <3>2. Front(tables) \in Seq(Table) /\ Len(Front(tables)) = Len(tables) - 1
          /\ \A k \in 1..(Len(tables) - 1) : Front(tables)[k] = tables[k]
      BY <1>1, <3>1, Fronted
    <3> QED BY <3>2
  <2>2. Front(tables) # <<>> BY <2>1
  <2> DEFINE f == Front(tables)
  <2> HIDE DEF f
  <2>3. f \in Seq(Table) /\ Len(f) = m /\ f # <<>> /\ (\A k \in 1..m : f[k] = tables[k]) /\ tables' = [f EXCEPT ![Len(f)] = u]
    BY <2>1, <2>2 DEF f
  <2>4. /\ [f EXCEPT ![Len(f)] = u] \in Seq(Table) /\ Len([f EXCEPT ![Len(f)] = u]) = Len(f)
        /\ [f EXCEPT ![Len(f)] = u][Len(f)] = u
        /\ \A i \in 1..(Len(f) - 1) : [f EXCEPT ![Len(f)] = u][i] = f[i]
    BY <2>3, LastReplaced
  <2>5. tables' \in Seq(Table) /\ Len(tables') = m /\ tables'[m] = u /\ \A k \in 1..(m - 1) : tables'[k] = f[k]
    BY <2>3, <2>4
  <2>6. \A k \in 1..(m - 1) : k \in 1..m OBVIOUS
  <2> QED BY <2>3, <2>5, <2>6
<1>4. TypeOK'
  <2>1. Len(tables') # 0 BY <1>1, <1>3
  <2>2. tables' # <<>> BY <2>1
  <2> QED BY <1>1, <1>3, <2>2 DEF TypeOK
<1>5. Founded(m)'
  <2>1. ~Awaits(m, "LOCAL")'
    <3>1. ~(m < Len(tables')) BY <1>3
    <3> QED BY <3>1 DEF Awaits
  <2>2. Len(u.slots) \in Nat BY TableFields
  <2>3. Counted(m)'
    <3>1. Cardinality(LocalsOf(u)) = Len(u.slots) + 0 BY <2>2
    <3>2. Cardinality(LocalsOf(tables'[m])) = Len(tables'[m].slots) + (IF Awaits(m, "LOCAL")' THEN 1 ELSE 0)
      BY <1>3, <2>1, <3>1
    <3> QED BY <3>2 DEF Counted
  <2>4. (u.kind = "main" <=> m = 1) /\ (u.kind = "function" => u.into.name # None) BY <1>2 DEF Founded
  <2>5. m # 1 /\ u.into.name # None /\ u.into.location = "GLOBAL" => u.into.index <= Len(globals')
    <3>1. m # 1 /\ u.into.name # None /\ u.into.location = "GLOBAL" => u.into.index <= Len(globals) BY <1>2 DEF Founded
    <3>2. u.into.index \in Nat /\ Len(globals') \in Nat
      <4>1. u.into.index \in Nat BY IntoFields
      <4>2. Len(globals') \in Nat OBVIOUS
      <4> QED BY <4>1, <4>2
    <3> QED BY <1>1, <3>1, <3>2
  <2> QED BY <1>3, <2>3, <2>4, <2>5 DEF Founded
<1>6. \A k \in 1..(m - 1) : Alike(tables[k], tables'[k]) BY <1>3 DEF Alike
<1>7. tables'[m].kind = tables[m].kind /\ tables'[m].into = tables[m].into /\ m <= Len(tables') /\ declared <= declared' BY <1>1, <1>3
<1>8. \A k \in m..Len(tables') : Founded(k)'
  <2>1. \A k \in m..Len(tables') : k = m BY <1>3
  <2> QED BY <1>5, <2>1
<1> QED BY <1>1, <1>4, <1>6, <1>7, <1>8, Changed

(* Outside all blocks a declaration is global, elsewhere local. *)
LEMMA DefinedIs ==
  ASSUME NEW t \in Table, NEW n \in Names, NEW p \in ParamCounts \cup {None}, NEW c \in Nat
  PROVE  LET s == Defined(t, n, p, c) IN
         /\ s \in Symbol /\ s.name = n /\ n # None /\ s.params = p /\ s.scopeDepth = t.depth
         /\ t.depth = 0 => s.location = "GLOBAL" /\ s.index = c
         /\ t.depth # 0 => s.location = "LOCAL" /\ s.index = t.locals
         /\ s.location = "GLOBAL" <=> t.depth = 0
<1>1. Defined(t, n, p, c) \in Symbol BY DefinedType
<1>2. n # None BY ScopesAssumption
<1> QED BY <1>1, <1>2 DEF Defined

(* A variable keeps Basic, *)
LEMMA DeclareBasic ==
  ASSUME Basic, NEW n \in Names, Declare(n)
  PROVE  Basic'
<1> DEFINE t == Here
           v == declared + 1
           s == Defined(t, n, None, Len(globals))
           x == WithSymbol(t, s, v)
           u == Stored(x, s, v)
<1>1. /\ t \in Table /\ HasSelf(t) /\ Cardinality(LocalsOf(t)) = Len(t.slots) /\ t.slots \in Seq(Nat) /\ t.blocks # <<>>
      /\ (\A i \in 1..Len(t.slots) : t.slots[i] <= declared)
      /\ globals \in Seq(0..declared) /\ Len(globals) \in Nat /\ declared \in 0..MaxDeclarations /\ MaxDeclarations \in Nat
  BY OnTop
<1>2. /\ tables' = [tables EXCEPT ![Len(tables)] = u] /\ globals' = GlobalsWith(s, v) /\ declared' = v
      /\ declared < MaxDeclarations
  BY DEF Declare
<1>3. s \in Symbol /\ s.name # None /\ (s.location = "GLOBAL" => s.index = Len(globals)) /\ s.location \in {"LOCAL", "GLOBAL"}
  <2> DEFINE c == Len(globals)
  <2>1. c \in Nat /\ t \in Table /\ None \in ParamCounts \cup {None} BY <1>1
  <2> HIDE DEF t, c
  <2>2. LET r == Defined(t, n, None, c) IN
          /\ r \in Symbol /\ r.name = n /\ n # None
          /\ t.depth = 0 => r.location = "GLOBAL" /\ r.index = c
          /\ r.location = "GLOBAL" <=> t.depth = 0
    BY <2>1, DefinedIs
  <2>3. s \in Symbol /\ s.name # None /\ (s.location = "GLOBAL" => s.index = Len(globals)) BY <2>2 DEF c
  <2> HIDE DEF s
  <2> QED BY <2>3 DEF Symbol
<1>4. v \in Nat /\ declared \in Nat /\ declared <= v /\ v \in 0..MaxDeclarations /\ v <= v BY <1>1, <1>2
<1> HIDE DEF t, s, v, u, x
<1>5. globals' \in Seq(0..v) /\ Len(globals) <= Len(globals')
  <2>1. s.location = "GLOBAL" => s.index <= Len(globals) BY <1>1, <1>3
  <2>2. LET g == GlobalsWith(s, v) IN g \in Seq(0..v) /\ Len(globals) <= Len(g) BY <1>1, <1>3, <1>4, <2>1, GlobalsWithIs
  <2> QED BY <1>2, <2>2
<1>6. /\ HasSelf(x) /\ x \in Table /\ x.kind = t.kind /\ x.into = t.into /\ x.slots = t.slots
      /\ s.location = "LOCAL" => Cardinality(LocalsOf(x)) = Len(t.slots) + 1
      /\ s.location # "LOCAL" => Cardinality(LocalsOf(x)) = Len(t.slots)
  <2>1. /\ WithSymbol(t, s, v) \in Table /\ WithSymbol(t, s, v).kind = t.kind /\ WithSymbol(t, s, v).into = t.into
        /\ WithSymbol(t, s, v).slots = t.slots
    BY <1>1, <1>3, <1>4, WithSymbolTable
  <2>2. /\ HasSelf(WithSymbol(t, s, v))
        /\ s.location = "LOCAL" => Cardinality(LocalsOf(WithSymbol(t, s, v))) = Cardinality(LocalsOf(t)) + 1
        /\ s.location # "LOCAL" => Cardinality(LocalsOf(WithSymbol(t, s, v))) = Cardinality(LocalsOf(t))
    BY <1>1, <1>3, <1>4, WithSymbolSelf
  <2> QED BY <1>1, <2>1, <2>2 DEF x
<1>7. /\ u \in Table /\ u.kind = t.kind /\ u.into = t.into
      /\ s.location = "GLOBAL" => u.slots = t.slots
      /\ s.location = "LOCAL" => u.slots = Append(t.slots, v)
      /\ HasSelf(u) /\ LocalsOf(u) = LocalsOf(x)
  <2>1. /\ Stored(x, s, v) \in Table /\ Stored(x, s, v).kind = x.kind /\ Stored(x, s, v).into = x.into
        /\ s.location = "GLOBAL" => Stored(x, s, v).slots = x.slots
        /\ s.location = "LOCAL" => Stored(x, s, v).slots = Append(x.slots, v)
    BY <1>3, <1>4, <1>6, StoredTable
  <2>2. HasSelf(Stored(x, s, v)) /\ LocalsOf(Stored(x, s, v)) = LocalsOf(x)
    BY <1>3, <1>4, <1>6, StoredSelf
  <2> QED BY <1>6, <2>1, <2>2 DEF u
<1>8. Len(Append(t.slots, v)) = Len(t.slots) + 1 /\ Append(t.slots, v)[Len(t.slots) + 1] = v
      /\ \A i \in 1..Len(t.slots) : Append(t.slots, v)[i] = t.slots[i]
  BY <1>1, <1>4, Appended
<1>9. Cardinality(LocalsOf(u)) = Len(u.slots) BY <1>3, <1>6, <1>7, <1>8
<1>10. \A i \in DOMAIN u.slots : u.slots[i] <= declared'
  <2>1. DOMAIN u.slots = 1..Len(u.slots) /\ Len(t.slots) \in Nat BY <1>1, <1>7, TableFields
  <2>2. \A i \in 1..Len(t.slots) : t.slots[i] \in Nat /\ t.slots[i] <= v
    <3>1. \A i \in 1..Len(t.slots) : t.slots[i] \in Nat BY <1>1, SeqParts
    <3> QED BY <1>1, <1>4, <3>1
  <2>3. CASE s.location = "GLOBAL" BY <1>2, <1>7, <2>1, <2>2, <2>3
  <2>4. CASE s.location = "LOCAL"
    <3>1. ASSUME NEW i \in 1..(Len(t.slots) + 1) PROVE Append(t.slots, v)[i] <= v
      <4>1. CASE i = Len(t.slots) + 1 BY <1>4, <1>8, <4>1
      <4>2. CASE i # Len(t.slots) + 1
        <5>1. i \in 1..Len(t.slots) BY <2>1, <4>2
        <5> QED BY <1>8, <2>2, <5>1
      <4> QED BY <4>1, <4>2
    <3> QED BY <1>2, <1>7, <1>8, <2>1, <2>4, <3>1
  <2> QED BY <1>3, <2>3, <2>4
<1>11. declared <= declared' /\ declared' \in 0..MaxDeclarations /\ globals' \in Seq(0..declared') BY <1>2, <1>4, <1>5
<1>12. u.kind = Here.kind /\ u.into = Here.into BY <1>7 DEF t
<1> QED BY <1>2, <1>5, <1>7, <1>9, <1>10, <1>11, <1>12, TopChanged

(* The table of a new function is in order. *)
LEMMA NewTableFounded ==
  ASSUME Basic, NEW name \in Names \cup {None}, NEW params \in Parameters(name), NEW kind \in {"function", "lambda"},
         NEW into \in Symbol, NEW frame \in Frames, declared' = declared + 1 + Len(params), declared' <= MaxDeclarations
  PROVE  LET w == NewTable(name, params, declared + 1, kind, into, frame) IN
         /\ w \in Table /\ w.kind = kind /\ w.into = into /\ w.slots[1] = declared + 1
         /\ HasSelf(w) /\ Cardinality(LocalsOf(w)) = Len(w.slots)
         /\ \A i \in DOMAIN w.slots : w.slots[i] <= declared'
         /\ declared <= declared' /\ declared' \in 0..MaxDeclarations
<1> DEFINE v == declared + 1
           n == Len(params)
           w == NewTable(name, params, v, kind, into, frame)
           d == Here.depth + 1
<1>1. Here \in Table /\ Here.depth \in Nat /\ declared \in Nat /\ MaxDeclarations \in Nat BY OnTop
<1>2. params \in Seq(Names) /\ n \in Nat BY ParametersType
<1>3. frame \in Nat
  <2>1. MaxTables \in Nat /\ Len(tables) \in Nat BY ScopesAssumption, OnTop
  <2> QED BY <2>1 DEF Frames
<1>4. v \in Nat /\ d \in Nat /\ d >= 1 BY <1>1
<1>5. declared' = v + n /\ declared <= declared' /\ declared' \in 0..MaxDeclarations BY <1>1, <1>2
<1> HIDE DEF v, w, d
<1>6. NewShape(w, name, params, v, d, kind, into, frame) BY <1>1, <1>2, <1>3, <1>4, NewTableTable DEF w, d
<1>7. HasSelf(w) /\ Cardinality(LocalsOf(w)) = n + 1
  <2>1. kind # "main" OBVIOUS
  <2> QED BY <1>2, <1>4, <1>6, <2>1, NewTableSelf
<1>8. /\ w \in Table /\ w.kind = kind /\ w.into = into /\ Len(w.slots) = n + 1 /\ w.slots[1] = v
      /\ \A i \in 1..n : w.slots[i + 1] = v + i
  BY <1>6 DEF NewShape
<1>9. \A i \in DOMAIN w.slots : w.slots[i] <= declared'
  <2>1. DOMAIN w.slots = 1..(n + 1) BY <1>8, TableFields
  <2>2. ASSUME NEW i \in 1..(n + 1) PROVE w.slots[i] <= v + n
    <3>1. CASE i = 1 BY <1>2, <1>4, <1>8, <3>1
    <3>2. CASE i # 1
      <4>1. PICK j \in 1..n : i = j + 1
        <5>1. i - 1 \in 1..n /\ i = (i - 1) + 1 BY <1>2, <3>2
        <5> QED BY <5>1
      <4>2. w.slots[i] = v + j BY <1>8, <4>1
      <4> HIDE DEF n
      <4> QED BY <1>2, <1>4, <4>1, <4>2
    <3> QED BY <3>1, <3>2
  <2> QED BY <1>5, <2>1, <2>2
<1> QED BY <1>5, <1>7, <1>8, <1>9 DEF w, v

(* Front of the tables, with nothing changed *)
LEMMA FrontTables ==
  ASSUME tables \in Seq(Table), NEW m \in Nat, m >= 1, Len(tables) = m + 1
  PROVE  Front(tables) = [Front(tables) EXCEPT ![m] = tables[m]]
<1>1. tables # <<>> OBVIOUS
<1>2. Front(tables) \in Seq(Table) /\ Len(Front(tables)) = Len(tables) - 1
      /\ \A k \in 1..(Len(tables) - 1) : Front(tables)[k] = tables[k]
  BY <1>1, Fronted
<1> DEFINE f == Front(tables)
<1>3. f \in Seq(Table) /\ Len(f) = m /\ f[m] = tables[m] BY <1>2
<1> HIDE DEF f
<1>4. f = [f EXCEPT ![m] = f[m]] BY <1>3
<1> QED BY <1>3, <1>4 DEF f

(* ... and so does a function, *)
LEMMA BeginFunctionBasic ==
  ASSUME Basic, NEW n \in Names, NEW params \in Parameters(n), BeginFunction(n, params)
  PROVE  Basic'
<1> DEFINE t == Here
           v == declared + 1
           c == Len(globals)
           p == Len(params)
           s == Defined(t, n, p, c)
           x == WithSymbol(t, s, v)
<1>1. /\ t \in Table /\ HasSelf(t) /\ Cardinality(LocalsOf(t)) = Len(t.slots) /\ t.slots \in Seq(Nat) /\ t.blocks # <<>>
      /\ globals \in Seq(0..declared) /\ c \in Nat /\ declared \in 0..MaxDeclarations /\ MaxDeclarations \in Nat
  BY OnTop
<1>2. p \in Nat /\ p \in ParamCounts BY ParametersType
<1>3. PICK frame \in Frames :
        tables' = Append([tables EXCEPT ![Len(tables)] = x], NewTable(n, params, v, "function", s, frame))
  BY DEF BeginFunction
<1>4. globals' = GlobalsWith(s, Nothing) /\ declared' = v + p /\ v + p <= MaxDeclarations BY DEF BeginFunction
<1>5. s \in Symbol /\ s.name # None /\ (s.location = "GLOBAL" => s.index = c) /\ s.location \in {"LOCAL", "GLOBAL"}
  <2>1. p \in ParamCounts \cup {None} BY <1>2
  <2> HIDE DEF t, c, p
  <2>2. LET r == Defined(t, n, p, c) IN
          /\ r \in Symbol /\ r.name = n /\ n # None
          /\ t.depth = 0 => r.location = "GLOBAL" /\ r.index = c
          /\ r.location = "GLOBAL" <=> t.depth = 0
    BY <1>1, <2>1, DefinedIs
  <2>3. s \in Symbol /\ s.name # None /\ (s.location = "GLOBAL" => s.index = c) BY <2>2
  <2> HIDE DEF s
  <2> QED BY <2>3 DEF Symbol
<1>6. v \in Nat /\ declared \in Nat /\ declared' \in Nat /\ declared <= declared' /\ Nothing \in Nat /\ Nothing <= declared'
  BY <1>1, <1>2, <1>4 DEF Nothing
<1> DEFINE w == NewTable(n, params, v, "function", s, frame)
<1>7. /\ w \in Table /\ w.kind = "function" /\ w.into = s
      /\ HasSelf(w) /\ Cardinality(LocalsOf(w)) = Len(w.slots)
      /\ \A i \in DOMAIN w.slots : w.slots[i] <= declared'
      /\ declared' \in 0..MaxDeclarations
  <2>1. declared' = declared + 1 + Len(params) /\ declared' <= MaxDeclarations BY <1>4
  <2> HIDE DEF s
  <2> QED BY <1>5, <2>1, NewTableFounded
<1> HIDE DEF t, v, c, p, s, x, w
<1>8. globals' \in Seq(0..declared') /\ Len(globals) <= Len(globals') /\ (s.location = "GLOBAL" => s.index <= Len(globals'))
  <2>1. s.location = "GLOBAL" => s.index <= Len(globals)
    <3>1. s.location = "GLOBAL" => s.index = Len(globals) BY <1>5 DEF c
    <3>2. Len(globals) <= Len(globals) BY <1>1 DEF c
    <3> QED BY <3>1, <3>2
  <2>2. LET g == GlobalsWith(s, Nothing) IN g \in Seq(0..declared') /\ Len(globals) <= Len(g)
    BY <1>1, <1>5, <1>6, <2>1, GlobalsWithIs
  <2>3. globals' \in Seq(0..declared') /\ Len(globals) <= Len(globals') BY <1>4, <2>2
  <2>4. Len(globals') \in Nat /\ Len(globals) \in Nat BY <1>1, <2>3 DEF c
  <2>5. s.index \in Nat BY <1>5 DEF Symbol
  <2> QED BY <2>1, <2>3, <2>4, <2>5
<1>9. /\ HasSelf(x) /\ x \in Table /\ x.kind = t.kind /\ x.into = t.into /\ x.slots = t.slots
      /\ s.location = "LOCAL" => Cardinality(LocalsOf(x)) = Len(t.slots) + 1
      /\ s.location # "LOCAL" => Cardinality(LocalsOf(x)) = Len(t.slots)
  <2>1. /\ WithSymbol(t, s, v) \in Table /\ WithSymbol(t, s, v).kind = t.kind /\ WithSymbol(t, s, v).into = t.into
        /\ WithSymbol(t, s, v).slots = t.slots
    BY <1>1, <1>5, <1>6, WithSymbolTable
  <2>2. /\ HasSelf(WithSymbol(t, s, v))
        /\ s.location = "LOCAL" => Cardinality(LocalsOf(WithSymbol(t, s, v))) = Cardinality(LocalsOf(t)) + 1
        /\ s.location # "LOCAL" => Cardinality(LocalsOf(WithSymbol(t, s, v))) = Cardinality(LocalsOf(t))
    BY <1>1, <1>5, <1>6, WithSymbolSelf
  <2> QED BY <1>1, <2>1, <2>2 DEF x
<1>10. tables' = Append([tables EXCEPT ![Len(tables)] = x], w) BY <1>3 DEF w
<1>11. x.kind = Here.kind /\ x.into = Here.into /\ x.slots = Here.slots BY <1>9 DEF t
<1>12. /\ w.kind = "function" /\ w.into.location = "LOCAL" => Cardinality(LocalsOf(x)) = Len(x.slots) + 1
       /\ ~(w.kind = "function" /\ w.into.location = "LOCAL") => Cardinality(LocalsOf(x)) = Len(x.slots)
       /\ w.into.name # None /\ w.into.location = "GLOBAL" => w.into.index <= Len(globals')
       /\ w.kind = "function" => w.into.name # None
       /\ w.kind # "main"
  BY <1>5, <1>7, <1>8, <1>9
<1> QED BY <1>6, <1>7, <1>8, <1>9, <1>10, <1>11, <1>12, Pushed

(* ... a lambda, *)
LEMMA BeginLambdaBasic ==
  ASSUME Basic, NEW n \in Names \cup {None}, NEW params \in Parameters(None), BeginLambda(n, params)
  PROVE  Basic'
<1> DEFINE t == Here
           v == declared + 1
           c == Len(globals)
           s == IF n = None THEN Self(None, 0) ELSE Defined(t, n, None, c)
<1>1. /\ t \in Table /\ HasSelf(t) /\ Cardinality(LocalsOf(t)) = Len(t.slots)
      /\ globals \in Seq(0..declared) /\ c \in Nat /\ declared \in 0..MaxDeclarations /\ MaxDeclarations \in Nat
      /\ tables \in Seq(Table) /\ Len(tables) >= 1 /\ t = tables[Len(tables)]
  BY OnTop
<1>2. Len(params) \in Nat BY ParametersType
<1>3. PICK frame \in Frames : tables' = Append(tables, NewTable(None, params, v, "lambda", s, frame))
  BY DEF BeginLambda
<1>4. globals' = globals /\ declared' = v + Len(params) /\ v + Len(params) <= MaxDeclarations BY DEF BeginLambda
<1>5. s \in Symbol /\ (s.name # None /\ s.location = "GLOBAL" => s.index = c)
  <2>1. CASE n = None
    <3>1. s = Self(None, 0) BY <2>1
    <3>2. Self(None, 0) \in Symbol BY SelfType
    <3>3. Self(None, 0).name = None BY DEF Self
    <3> HIDE DEF s
    <3> QED BY <3>1, <3>2, <3>3
  <2>2. CASE n # None
    <3>1. n \in Names /\ None \in ParamCounts \cup {None} /\ t \in Table /\ c \in Nat BY <1>1, <2>2
    <3> HIDE DEF t, c
    <3>2. LET r == Defined(t, n, None, c) IN
            /\ r \in Symbol
            /\ t.depth = 0 => r.location = "GLOBAL" /\ r.index = c
            /\ r.location = "GLOBAL" <=> t.depth = 0
      <4> HIDE DEF s
      <4> QED BY <3>1, DefinedIs
    <3> QED BY <2>2, <3>2
  <2> QED BY <2>1, <2>2
<1>6. v \in Nat /\ declared \in Nat /\ declared' \in Nat /\ declared <= declared' BY <1>1, <1>2, <1>4
<1> DEFINE w == NewTable(None, params, v, "lambda", s, frame)
<1>7. /\ w \in Table /\ w.kind = "lambda" /\ w.into = s
      /\ HasSelf(w) /\ Cardinality(LocalsOf(w)) = Len(w.slots)
      /\ \A i \in DOMAIN w.slots : w.slots[i] <= declared'
      /\ declared' \in 0..MaxDeclarations
  <2>1. declared' = declared + 1 + Len(params) /\ declared' <= MaxDeclarations BY <1>4
  <2>2. None \in Names \cup {None} OBVIOUS
  <2> HIDE DEF s
  <2> QED BY <1>5, <2>1, <2>2, NewTableFounded
<1>8. tables = [tables EXCEPT ![Len(tables)] = t]
  <2> HIDE DEF t
  <2> QED BY <1>1
<1> HIDE DEF t, c, s, w
<1>9. tables' = Append([tables EXCEPT ![Len(tables)] = t], w) BY <1>3, <1>8 DEF w
<1>10. globals' \in Seq(0..declared') /\ Len(globals) <= Len(globals')
  <2>1. \A i \in 1..Len(globals) : globals[i] \in 0..declared' BY <1>1, <1>6
  <2>2. globals \in [1..Len(globals) -> 0..declared'] BY <1>1, <2>1
  <2>3. Len(globals) \in Nat BY <1>1 DEF c
  <2>4. globals \in Seq(0..declared') BY <2>2, <2>3, IsSeq
  <2> QED BY <1>4, <2>3, <2>4
<1>11. t.kind = Here.kind /\ t.into = Here.into /\ t.slots = Here.slots BY DEF t
<1>12. /\ w.kind = "function" /\ w.into.location = "LOCAL" => Cardinality(LocalsOf(t)) = Len(t.slots) + 1
       /\ ~(w.kind = "function" /\ w.into.location = "LOCAL") => Cardinality(LocalsOf(t)) = Len(t.slots)
       /\ w.kind = "function" => w.into.name # None
       /\ w.kind # "main"
  BY <1>1, <1>7
<1>13. w.into.name # None /\ w.into.location = "GLOBAL" => w.into.index <= Len(globals')
  <2>1. Len(globals) \in Nat /\ Len(globals) <= Len(globals) BY <1>1 DEF c
  <2> QED BY <1>4, <1>5, <1>7, <2>1 DEF c
<1> QED BY <1>1, <1>6, <1>7, <1>9, <1>10, <1>11, <1>12, <1>13, Pushed

(* ... and the end of each. *)
LEMMA EndFunctionBasic ==
  ASSUME Basic, EndFunction
  PROVE  Basic'
<1> DEFINE s == Here.into
           v == Here.slots[1]
<1>1. /\ tables \in Seq(Table) /\ Len(tables) \in Nat /\ Here = tables[Len(tables)] /\ Here \in Table /\ Here.slots \in Seq(Nat)
      /\ Len(Here.slots) >= 1 /\ (Here.kind = "main" <=> Len(tables) = 1) /\ Len(tables) >= 1
      /\ globals \in Seq(0..declared) /\ Len(globals) \in Nat /\ declared \in 0..MaxDeclarations /\ MaxDeclarations \in Nat
      /\ (\A i \in 1..Len(Here.slots) : Here.slots[i] <= declared) /\ Founded(Len(tables))
  BY OnTop
<1>2. Here.kind # "main" /\ declared' = declared BY DEF EndFunction
<1>3. PICK m \in Nat : m = Len(tables) - 1
  <2>1. Len(tables) - 1 \in Nat BY <1>1
  <2> QED BY <2>1
<1>4. m >= 1 /\ Len(tables) = m + 1 /\ m \in DOMAIN tables /\ m < Len(tables) BY <1>1, <1>2, <1>3
<1> DEFINE t == tables[m]
<1>5. t \in Table /\ Founded(m)
  <2>1. t \in Table BY <1>1, <1>4
  <2>2. Founded(m) BY <1>4 DEF Basic
  <2> QED BY <2>1, <2>2
<1>6. /\ HasSelf(t) /\ t.slots \in Seq(Nat) /\ t.blocks # <<>>
      /\ \A i \in DOMAIN t.slots : t.slots[i] <= declared
  BY <1>5, TableFields, SelfHasBlock DEF Founded
<1>7. Awaits(m, "LOCAL") <=> (Here.kind = "function" /\ s.location = "LOCAL")
  <2>1. m + 1 = Len(tables) BY <1>4
  <2> QED BY <1>1, <1>4, <2>1 DEF Awaits
<1>8. /\ Here.kind = "function" /\ s.location = "LOCAL" => Cardinality(LocalsOf(t)) = Len(t.slots) + 1
      /\ ~(Here.kind = "function" /\ s.location = "LOCAL") => Cardinality(LocalsOf(t)) = Len(t.slots)
  <2>1. Counted(m) BY <1>5 DEF Founded
  <2>2. Awaits(m, "LOCAL") => Cardinality(LocalsOf(t)) = Len(t.slots) + 1 BY <2>1 DEF Counted
  <2>3. ~Awaits(m, "LOCAL") => Cardinality(LocalsOf(t)) = Len(t.slots)
    <3>1. Len(t.slots) = Len(t.slots) + 0 BY <1>6
    <3>2. ~Awaits(m, "LOCAL") => Cardinality(LocalsOf(t)) = Len(t.slots) + 0 BY <2>1 DEF Counted
    <3> QED BY <3>1, <3>2
  <2> QED BY <1>7, <2>2, <2>3
<1>9. s \in Symbol /\ s.location \in {"LOCAL", "GLOBAL"} /\ Here.kind \in {"function", "lambda"}
      /\ (Here.kind = "function" => s.name # None)
      /\ (s.name # None /\ s.location = "GLOBAL" => s.index <= Len(globals))
  <2>1. s \in Symbol /\ s.location \in {"LOCAL", "GLOBAL"} BY <1>1, IntoFields
  <2>2. Here.kind \in {"function", "lambda"} BY <1>1, <1>2, TableFields
  <2>3. Len(tables) # 1 BY <1>1, <1>2
  <2> QED BY <1>1, <2>1, <2>2, <2>3 DEF Founded
<1>10. v \in Nat /\ v <= declared BY <1>1
<1>11. declared \in Nat /\ declared <= declared BY <1>1
<1> HIDE DEF s, v, t
<1>12. CASE s.name = None
  <2>1. tables' = Front(tables) /\ globals' = globals BY <1>12 DEF EndFunction, s
  <2>2. tables' = [Front(tables) EXCEPT ![m] = t] BY <1>1, <1>4, <2>1, FrontTables DEF t
  <2>3. Cardinality(LocalsOf(t)) = Len(t.slots) BY <1>8, <1>9, <1>12
  <2>4. globals' \in Seq(0..declared') /\ Len(globals) <= Len(globals') BY <1>1, <1>2, <2>1
  <2>5. \A i \in DOMAIN t.slots : t.slots[i] <= declared' BY <1>2, <1>6
  <2>6. t.kind = tables[m].kind /\ t.into = tables[m].into BY DEF t
  <2> QED BY <1>2, <1>3, <1>4, <1>5, <1>6, <2>2, <2>3, <2>4, <2>5, <2>6, Popped
<1>13. CASE s.name # None
  <2> DEFINE x == IF Here.kind = "lambda" THEN WithSymbol(t, s, v) ELSE t
             u == Stored(x, s, v)
  <2>1. tables' = [Front(tables) EXCEPT ![m] = u] /\ globals' = GlobalsWith(s, v) BY <1>3, <1>13 DEF EndFunction, s, v, t
  <2>2. /\ x \in Table /\ x.kind = t.kind /\ x.into = t.into /\ x.slots = t.slots /\ HasSelf(x)
        /\ s.location = "LOCAL" => Cardinality(LocalsOf(x)) = Len(t.slots) + 1
        /\ s.location # "LOCAL" => Cardinality(LocalsOf(x)) = Len(t.slots)
    <3>1. CASE Here.kind = "function" BY <1>5, <1>6, <1>8, <3>1
    <3>2. CASE Here.kind = "lambda"
      <4>1. /\ WithSymbol(t, s, v) \in Table /\ WithSymbol(t, s, v).kind = t.kind /\ WithSymbol(t, s, v).into = t.into
            /\ WithSymbol(t, s, v).slots = t.slots
        BY <1>5, <1>6, <1>9, <1>10, <1>13, WithSymbolTable
      <4>2. /\ HasSelf(WithSymbol(t, s, v))
            /\ s.location = "LOCAL" => Cardinality(LocalsOf(WithSymbol(t, s, v))) = Cardinality(LocalsOf(t)) + 1
            /\ s.location # "LOCAL" => Cardinality(LocalsOf(WithSymbol(t, s, v))) = Cardinality(LocalsOf(t))
        BY <1>5, <1>6, <1>9, <1>10, <1>13, WithSymbolSelf
      <4>3. x = WithSymbol(t, s, v) BY <3>2
      <4>4. Cardinality(LocalsOf(t)) = Len(t.slots) BY <1>8, <3>2
      <4> HIDE DEF x
      <4> QED BY <4>1, <4>2, <4>3, <4>4
    <3> QED BY <1>9, <3>1, <3>2
  <2> HIDE DEF x
  <2>3. /\ u \in Table /\ u.kind = t.kind /\ u.into = t.into
        /\ s.location = "GLOBAL" => u.slots = t.slots
        /\ s.location = "LOCAL" => u.slots = Append(t.slots, v)
        /\ HasSelf(u) /\ LocalsOf(u) = LocalsOf(x)
    <3>1. /\ Stored(x, s, v) \in Table /\ Stored(x, s, v).kind = x.kind /\ Stored(x, s, v).into = x.into
          /\ s.location = "GLOBAL" => Stored(x, s, v).slots = x.slots
          /\ s.location = "LOCAL" => Stored(x, s, v).slots = Append(x.slots, v)
      BY <1>9, <1>10, <2>2, StoredTable
    <3>2. HasSelf(Stored(x, s, v)) /\ LocalsOf(Stored(x, s, v)) = LocalsOf(x)
      BY <1>9, <1>10, <2>2, StoredSelf
    <3> QED BY <2>2, <3>1, <3>2
  <2> HIDE DEF u
  <2>4. Len(Append(t.slots, v)) = Len(t.slots) + 1 /\ Append(t.slots, v)[Len(t.slots) + 1] = v
        /\ \A i \in 1..Len(t.slots) : Append(t.slots, v)[i] = t.slots[i]
    BY <1>6, <1>10, Appended
  <2>5. Cardinality(LocalsOf(u)) = Len(u.slots) BY <1>9, <2>2, <2>3, <2>4
  <2>6. \A i \in DOMAIN u.slots : u.slots[i] <= declared'
    <3>1. DOMAIN u.slots = 1..Len(u.slots) /\ Len(t.slots) \in Nat /\ DOMAIN t.slots = 1..Len(t.slots) BY <1>6, <2>3, TableFields
    <3>2. CASE s.location = "GLOBAL" BY <1>2, <1>6, <2>3, <3>1, <3>2
    <3>3. CASE s.location = "LOCAL"
      <4>1. ASSUME NEW i \in 1..(Len(t.slots) + 1) PROVE Append(t.slots, v)[i] <= declared
        <5>1. CASE i = Len(t.slots) + 1 BY <1>10, <2>4, <5>1
        <5>2. CASE i # Len(t.slots) + 1
          <6>1. i \in 1..Len(t.slots) BY <3>1, <5>2
          <6> QED BY <1>6, <2>4, <3>1, <6>1
        <5> QED BY <5>1, <5>2
      <4> QED BY <1>2, <2>3, <2>4, <3>1, <3>3, <4>1
    <3> QED BY <1>9, <3>2, <3>3
  <2>7. globals' \in Seq(0..declared') /\ Len(globals) <= Len(globals')
    <3>1. s.location = "GLOBAL" => s.index <= Len(globals) BY <1>9, <1>13
    <3>2. LET g == GlobalsWith(s, v) IN g \in Seq(0..declared) /\ Len(globals) <= Len(g)
      BY <1>1, <1>9, <1>10, <1>11, <3>1, GlobalsWithIs
    <3> QED BY <1>2, <2>1, <3>2
  <2>8. u.kind = tables[m].kind /\ u.into = tables[m].into BY <2>3 DEF t
  <2> QED BY <1>2, <1>3, <1>4, <2>1, <2>3, <2>5, <2>6, <2>7, <2>8, Popped
<1> QED BY <1>12, <1>13

(* Every step keeps Basic, whatever a script uses. *)
LEMMA NextBasic ==
  ASSUME Basic, [Next]_vars
  PROVE  Basic'
<1>1. ASSUME NEW n \in Names, Declare(n) PROVE Basic' BY <1>1, DeclareBasic
<1>2. ASSUME NEW n \in Names, NEW params \in Parameters(n), BeginFunction(n, params) PROVE Basic' BY <1>2, BeginFunctionBasic
<1>3. ASSUME NEW n \in Names \cup {None}, NEW params \in Parameters(None), BeginLambda(n, params) PROVE Basic'
  BY <1>3, BeginLambdaBasic
<1>4. CASE EndFunction BY <1>4, EndFunctionBasic
<1>5. CASE EnterScope BY <1>5, EnterScopeBasic
<1>6. CASE ExitScope BY <1>6, ExitScopeBasic
<1>7. ASSUME NEW n \in Names, NEW c \in ParamCounts \cup {None}, Identifier(n, c) PROVE Basic' BY <1>7, IdentifierBasic
<1>8. CASE Compile
  <2>1. Init' BY <1>8 DEF Compile, Init
  <2>2. Init' => Basic' BY InitBasic, PTL
  <2> QED BY <2>1, <2>2
<1>9. CASE UNCHANGED vars BY <1>9 DEF vars, Basic, TypeOK, Founded, Counted, Awaits
<1> QED BY <1>1, <1>2, <1>3, <1>4, <1>5, <1>6, <1>7, <1>8, <1>9 DEF Next

(* Whatever a script uses, every table has its fields: an index, a depth or a *)
(* count never goes below zero, and the end of a block has as many slots to   *)
(* pop as it pops (SymbolTable::Define, EnterScope, ExitScope).               *)
THEOREM TypeCorrect == Spec => []TypeOK
<1>1. Basic => TypeOK BY DEF Basic
<1> QED BY <1>1, InitBasic, NextBasic, PTL DEF Spec

=============================================================================

-------------------------- MODULE ScopesShapeProofs --------------------------
(***************************************************************************)
(* Symbols and slots are where the text has their variables, in scripts    *)
(* that do not declare after a block that declared ("siblings").           *)
(*                                                                         *)
(* The inductive invariant is Shaped.  The symbols that are not gone are,  *)
(* in their order, those of the declarations in the blocks that are open,  *)
(* each with its index and with the depth of its block (Placed); a frame   *)
(* has the values of its variables in the same order (InFrame), up to one  *)
(* that waits for the end of a function; and what that function is stored  *)
(* in is the last declaration of the table around (Joined).  A declaration *)
(* after a block with locals gets an index that is too large: the script   *)
(* may then go on only where Whole says that no symbol is gone, or outside *)
(* all blocks, where variables are global.                                 *)
(*                                                                         *)
(* That a name means its variable needs two more: variables are numbered   *)
(* in the order of the text, so that each belongs to one function          *)
(* (InTextOrder), and functions run in frames in their order               *)
(* (FramesInOrder).  LookedUp says that Resolve and the reader of the text *)
(* look a name up alike, LocalSlot, GlobalPlace and FoundCaptured that the *)
(* code for it then finds the variable.                                    *)
(***************************************************************************)
EXTENDS ScopesProofs

(* The declarations of a function that is open, in their order, *)
Flat(t) == FlattenSeq(t.blocks)

(* ... how many of them are in its first b blocks, *)
Within(t, b) == LengthOf(t.blocks, b)

(* ... how many are variables of the script itself, *)
Top(t) == IF t.kind = "main" THEN Len(t.blocks[1]) ELSE 0

(* ... and how many are in its frame. *)
Locals(t) == Len(Flat(t)) - Top(t)

(* s is the symbol of declaration p. *)
PlacedAt(t, p, s) ==
  /\ s.name = Flat(t)[p].name /\ s.params = Flat(t)[p].params /\ s.scopeDepth <= t.depth
  /\ p <= Top(t) => s.location = "GLOBAL" /\ s.index = p - 1
  /\ p > Top(t) => s.location = "LOCAL" /\ s.index = p - Top(t)
  /\ \A b \in 1..Len(t.blocks) : p <= Within(t, b) <=> s.scopeDepth + Len(t.blocks) <= t.depth + b

(* The symbols that are not gone are those of the declarations, in their    *)
(* order: that of declaration p is at[p].                                    *)
Places(t, at) ==
  /\ at \in Seq(Nat) /\ Len(at) = Len(Flat(t))
  /\ \A p \in 1..Len(at) : at[p] \in 2..Len(t.symbols) /\ PlacedAt(t, p, t.symbols[at[p]])
  /\ \A p, q \in 1..Len(at) : p < q => at[p] < at[q]
  /\ \A i \in 2..Len(t.symbols) : t.symbols[i].scopeDepth <= t.depth => \E p \in 1..Len(at) : at[p] = i

(* No block with locals has ended. *)
Whole(t) == \A i \in 2..Len(t.symbols) : t.symbols[i].scopeDepth <= t.depth

Placed(t) ==
  /\ \E at \in Seq(Nat) : Places(t, at)
  /\ \A i \in 2..Len(t.symbols) : t.symbols[i].scopeDepth > t.depth => t.symbols[i].location = "GLOBAL"
  /\ t.locals > Locals(t)
  /\ t.locals = Locals(t) + 1 => Whole(t)

-----------------------------------------------------------------------------
(* Declarations *)

(* Flat is a sequence, and its parts have their lengths. *)
LEMMA FlatType ==
  ASSUME NEW t \in Table, t.blocks # <<>>
  PROVE  /\ Flat(t) \in Seq(Declaration) /\ Len(Flat(t)) \in Nat
         /\ Len(t.blocks) \in Nat /\ Len(t.blocks) >= 1 /\ t.depth \in Nat
         /\ Top(t) \in Nat /\ Top(t) <= Len(Flat(t)) /\ Locals(t) \in Nat
         /\ \A b \in 0..Len(t.blocks) : Within(t, b) \in Nat
         /\ Within(t, Len(t.blocks)) = Len(Flat(t))
         /\ t.kind = "main" => Within(t, 1) = Top(t)
<1>1. t.blocks \in Seq(Seq(Declaration)) /\ t.depth \in Nat BY TableFields
<1> DEFINE b == t.blocks
<1>2. b \in Seq(Seq(Declaration)) /\ b # <<>> BY <1>1
<1> HIDE DEF b
<1>3. FlattenSeq(b) \in Seq(Declaration) BY <1>2, FlattenType
<1>4. Len(b) \in Nat /\ Len(b) >= 1
  <2> DEFINE Y == Seq(Declaration)
  <2>1. b \in Seq(Y) /\ b # <<>> BY <1>2
  <2> HIDE DEF Y
  <2> QED BY <2>1
<1>5. b[1] \in Seq(Declaration)
  <2> DEFINE Y == Seq(Declaration)
  <2>1. b \in Seq(Y) BY <1>2
  <2> HIDE DEF Y
  <2>2. b[1] \in Y BY <1>4, <2>1
  <2> QED BY <2>2 DEF Y
<1>6. Len(b[1]) \in Nat BY <1>5
<1>7. Len(b[1]) <= Len(FlattenSeq(b)) BY <1>2, FlattenHead
<1>8. /\ \A c \in 0..Len(b) : LengthOf(b, c) \in Nat
      /\ LengthOf(b, Len(b)) = Len(FlattenSeq(b)) /\ LengthOf(b, 1) = Len(b[1])
  BY <1>2, LengthOfParts
<1>9. Len(FlattenSeq(b)) \in Nat BY <1>3
<1>10. Top(t) \in Nat /\ Top(t) <= Len(FlattenSeq(b)) /\ (t.kind = "main" => Top(t) = Len(b[1]))
  BY <1>6, <1>7, <1>9 DEF Top, b
<1> QED BY <1>1, <1>3, <1>4, <1>8, <1>9, <1>10 DEF Flat, Within, Locals, b

(* u has the declarations of t, and one more. *)
LEMMA FlatDeclared ==
  ASSUME NEW t \in Table, t.blocks # <<>>, NEW u \in Table, NEW d \in Declaration,
         u.blocks = Append(Front(t.blocks), Append(Last(t.blocks), d)), u.kind = t.kind
  PROVE  /\ Len(u.blocks) = Len(t.blocks) /\ u.blocks # <<>>
         /\ Flat(u) = Append(Flat(t), d)
         /\ Len(Flat(u)) = Len(Flat(t)) + 1 /\ Flat(u)[Len(Flat(t)) + 1] = d
         /\ \A p \in 1..Len(Flat(t)) : Flat(u)[p] = Flat(t)[p]
         /\ \A b \in 1..(Len(t.blocks) - 1) : Within(u, b) = Within(t, b)
         /\ Within(u, Len(t.blocks)) = Len(Flat(t)) + 1
         /\ t.kind = "main" /\ Len(t.blocks) = 1 => Top(t) = Len(Flat(t)) /\ Top(u) = Len(Flat(t)) + 1
         /\ ~(t.kind = "main" /\ Len(t.blocks) = 1) => Top(u) = Top(t)
<1> DEFINE s == t.blocks
           r == Append(Front(s), Append(Last(s), d))
<1>1. s \in Seq(Seq(Declaration)) /\ s # <<>> BY TableFields
<1>2. Flat(t) \in Seq(Declaration) /\ Len(Flat(t)) \in Nat /\ Len(s) \in Nat /\ Len(s) >= 1 BY FlatType
<1>3. u.blocks = r OBVIOUS
<1> HIDE DEF s
<1>4. /\ r \in Seq(Seq(Declaration)) /\ Len(r) = Len(s)
      /\ FlattenSeq(r) = Append(FlattenSeq(s), d) /\ FlattenSeq(s) \in Seq(Declaration)
      /\ \A b \in 0..(Len(s) - 1) : LengthOf(r, b) = LengthOf(s, b)
      /\ LengthOf(r, Len(s)) = LengthOf(s, Len(s)) + 1
      /\ LengthOf(s, Len(s)) = Len(FlattenSeq(s))
      /\ Len(s) = 1 => r[1] = Append(s[1], d)
      /\ Len(s) # 1 => r[1] = s[1]
  BY <1>1, LengthOfLast
<1> HIDE DEF r
<1>5. Flat(u) = Append(Flat(t), d) BY <1>3, <1>4 DEF Flat, s
<1>6. Len(Flat(u)) = Len(Flat(t)) + 1 /\ Flat(u)[Len(Flat(t)) + 1] = d /\ \A p \in 1..Len(Flat(t)) : Flat(u)[p] = Flat(t)[p]
  BY <1>2, <1>5, Appended
<1>7. Len(u.blocks) = Len(t.blocks) BY <1>3, <1>4 DEF s
<1>8. u.blocks # <<>>
  <2>1. Len(u.blocks) # 0 BY <1>2, <1>7 DEF s
  <2>2. Len(<<>>) = 0 OBVIOUS
  <2> QED BY <2>1, <2>2, Zenon
<1>9. \A b \in 1..(Len(t.blocks) - 1) : Within(u, b) = Within(t, b)
  <2>1. \A b \in 1..(Len(s) - 1) : b \in 0..(Len(s) - 1) OBVIOUS
  <2> QED BY <1>3, <1>4, <2>1 DEF Within, s
<1>10. Within(u, Len(t.blocks)) = Len(Flat(t)) + 1 BY <1>3, <1>4 DEF Within, Flat, s
<1>11. CASE t.kind = "main" /\ Len(t.blocks) = 1
  <2>1. Top(t) = Len(Flat(t))
    <3>1. Within(t, 1) = Top(t) /\ Within(t, Len(t.blocks)) = Len(Flat(t)) BY <1>11, FlatType
    <3> QED BY <1>11, <3>1
  <2>2. Top(u) = Len(Append(s[1], d)) BY <1>3, <1>4, <1>11 DEF Top, s
  <2>3. Len(Append(s[1], d)) = Len(s[1]) + 1
    <3> DEFINE Y == Seq(Declaration)
    <3>1. s \in Seq(Y) BY <1>1
    <3> HIDE DEF Y
    <3>2. s[1] \in Y BY <1>2, <3>1
    <3>3. s[1] \in Seq(Declaration) BY <3>2 DEF Y
    <3> QED BY <3>3
  <2>4. Top(t) = Len(s[1]) BY <1>11 DEF Top, s
  <2> QED BY <1>5, <1>6, <1>7, <1>8, <1>9, <1>10, <1>11, <2>1, <2>2, <2>3, <2>4
<1>12. CASE ~(t.kind = "main" /\ Len(t.blocks) = 1)
  <2>1. Top(u) = Top(t) BY <1>3, <1>4, <1>12 DEF Top, s
  <2> QED BY <1>5, <1>6, <1>7, <1>8, <1>9, <1>10, <1>12, <2>1
<1> QED BY <1>11, <1>12

(* u has one block more, which is empty. *)
LEMMA FlatEntered ==
  ASSUME NEW t \in Table, t.blocks # <<>>, NEW u \in Table, u.blocks = Append(t.blocks, <<>>), u.kind = t.kind
  PROVE  /\ Len(u.blocks) = Len(t.blocks) + 1 /\ Flat(u) = Flat(t) /\ Top(u) = Top(t) /\ u.blocks # <<>>
         /\ \A b \in 1..Len(t.blocks) : Within(u, b) = Within(t, b)
         /\ Within(u, Len(t.blocks) + 1) = Len(Flat(t))
<1> DEFINE s == t.blocks
           e == <<>>
<1>1. s \in Seq(Seq(Declaration)) /\ e \in Seq(Declaration) /\ Len(e) = 0 BY TableFields
<1>2. Flat(t) \in Seq(Declaration) /\ Len(Flat(t)) \in Nat /\ Len(s) \in Nat /\ Len(s) >= 1 BY FlatType
<1>3. u.blocks = Append(s, e) /\ Flat(t) \o e = Flat(t) BY <1>2
<1> HIDE DEF s, e
<1>4. /\ \A b \in 0..Len(s) : LengthOf(Append(s, e), b) = LengthOf(s, b)
      /\ LengthOf(Append(s, e), Len(s) + 1) = Len(FlattenSeq(s)) + Len(e)
      /\ FlattenSeq(Append(s, e)) = FlattenSeq(s) \o e
  BY <1>1, LengthOfAppend
<1>5. Len(Append(s, e)) = Len(s) + 1 /\ Append(s, e)[1] = s[1] /\ Append(s, e) # <<>>
  <2> DEFINE Y == Seq(Declaration)
  <2>1. s \in Seq(Y) /\ e \in Y BY <1>1
  <2> HIDE DEF Y
  <2> QED BY <1>2, <2>1
<1>6. Flat(u) = Flat(t) BY <1>3, <1>4 DEF Flat, s
<1>7. Top(u) = Top(t) BY <1>3, <1>5 DEF Top, s
<1>8. \A b \in 1..Len(t.blocks) : Within(u, b) = Within(t, b)
  <2>1. \A b \in 1..Len(s) : b \in 0..Len(s) OBVIOUS
  <2> QED BY <1>3, <1>4, <2>1 DEF Within, s
<1>9. Within(u, Len(t.blocks) + 1) = Len(Flat(t)) BY <1>1, <1>2, <1>3, <1>4 DEF Within, Flat, s
<1> QED BY <1>3, <1>5, <1>6, <1>7, <1>8, <1>9 DEF s

(* u has one block less. *)
LEMMA FlatExited ==
  ASSUME NEW t \in Table, Len(t.blocks) > 1, NEW u \in Table, u.blocks = Front(t.blocks), u.kind = t.kind
  PROVE  /\ Len(u.blocks) = Len(t.blocks) - 1 /\ u.blocks # <<>> /\ Flat(t) = Flat(u) \o Last(t.blocks)
         /\ Top(u) = Top(t) /\ Len(Flat(u)) <= Len(Flat(t)) /\ Len(Flat(u)) \in Nat
         /\ \A p \in 1..Len(Flat(u)) : Flat(u)[p] = Flat(t)[p]
         /\ \A b \in 1..(Len(t.blocks) - 1) : Within(u, b) = Within(t, b)
         /\ Within(t, Len(t.blocks) - 1) = Len(Flat(u))
         /\ Len(Flat(t)) = Len(Flat(u)) + Len(Last(t.blocks)) /\ Len(Last(t.blocks)) \in Nat
         /\ \A i \in 1..Len(Last(t.blocks)) : Last(t.blocks)[i] = Flat(t)[Len(Flat(u)) + i]
<1> DEFINE s == t.blocks
           Y == Seq(Declaration)
           f == Front(s)
           l == Last(s)
<1>1. s \in Seq(Seq(Declaration)) BY TableFields
<1>2. s # <<>> /\ Len(s) \in Nat /\ Len(s) > 1
  <2>1. s \in Seq(Y) BY <1>1
  <2> HIDE DEF Y
  <2> QED BY <2>1
<1>3. f \in Seq(Y) /\ l \in Y /\ Len(f) = Len(s) - 1 /\ s = Append(f, l) /\ \A i \in 1..(Len(s) - 1) : f[i] = s[i]
  <2>1. s \in Seq(Y) BY <1>1
  <2> HIDE DEF Y, s
  <2> QED BY <1>2, <2>1, Fronted
<1>4. u.blocks = f OBVIOUS
<1> HIDE DEF s, f, l
<1>5. f # <<>>
  <2>1. Len(f) # 0 BY <1>2, <1>3
  <2> QED BY <2>1
<1>6. /\ \A b \in 0..Len(f) : LengthOf(s, b) = LengthOf(f, b)
      /\ FlattenSeq(f) \in Seq(Declaration)
      /\ FlattenSeq(s) = FlattenSeq(f) \o l
  <2>1. f \in Seq(Seq(Declaration)) /\ l \in Seq(Declaration) BY <1>3
  <2>2. /\ \A b \in 0..Len(f) : LengthOf(Append(f, l), b) = LengthOf(f, b)
        /\ FlattenSeq(f) \in Seq(Declaration)
        /\ FlattenSeq(Append(f, l)) = FlattenSeq(f) \o l
    BY <2>1, LengthOfAppend
  <2> QED BY <1>3, <2>2
<1>7. Flat(t) = Flat(u) \o l /\ Flat(u) \in Seq(Declaration) /\ l \in Seq(Declaration) BY <1>3, <1>4, <1>6 DEF Flat, s
<1>8. Top(u) = Top(t)
  <2>1. f[1] = s[1] BY <1>2, <1>3
  <2> QED BY <1>4, <2>1 DEF Top, s
<1>9. /\ Len(Flat(u)) <= Len(Flat(t)) /\ Len(Flat(u)) \in Nat /\ Len(l) \in Nat /\ Len(Flat(t)) = Len(Flat(u)) + Len(l)
      /\ \A p \in 1..Len(Flat(u)) : Flat(u)[p] = Flat(t)[p]
      /\ \A i \in 1..Len(l) : l[i] = Flat(t)[Len(Flat(u)) + i]
  <2> DEFINE x == Flat(u)
             y == Flat(t)
  <2>1. x \in Seq(Declaration) /\ y = x \o l BY <1>7
  <2> HIDE DEF x, y
  <2>2. /\ Len(x) <= Len(y) /\ Len(x) \in Nat /\ Len(l) \in Nat /\ Len(y) = Len(x) + Len(l)
        /\ \A p \in 1..Len(x) : x[p] = y[p]
        /\ \A i \in 1..Len(l) : l[i] = y[Len(x) + i]
    BY <1>7, <2>1
  <2> QED BY <2>2 DEF x, y
<1>10. \A b \in 1..(Len(s) - 1) : Within(u, b) = Within(t, b)
  <2>1. \A b \in 1..(Len(s) - 1) : b \in 0..Len(f) BY <1>3
  <2> QED BY <1>4, <1>6, <2>1 DEF Within, s
<1>11. Within(t, Len(s) - 1) = Len(Flat(u))
  <2>1. LengthOf(s, Len(s) - 1) = Len(FlattenSeq(f)) BY <1>1, <1>2, LengthOfParts DEF f
  <2> QED BY <1>4, <2>1 DEF Within, Flat, s
<1> QED BY <1>3, <1>4, <1>5, <1>7, <1>8, <1>9, <1>10, <1>11 DEF s, l

-----------------------------------------------------------------------------
(* Symbols *)

(* The fields of a symbol. *)
LEMMA SymbolFields ==
  ASSUME NEW t \in Table, NEW i \in 1..Len(t.symbols)
  PROVE  t.symbols[i].scopeDepth \in Nat /\ t.symbols[i].index \in Nat /\ t.symbols[i].location \in {"GLOBAL", "LOCAL"}
         /\ t.symbols[i].name \in Names \cup {None} /\ t.symbols[i].params \in ParamCounts \cup {None}
         /\ t.symbols[i].isCaptured \in BOOLEAN
<1>1. t.symbols \in Seq(Symbol) BY TableFields
<1>2. t.symbols[i] \in Symbol BY <1>1
<1> QED BY <1>2 DEF Symbol

(* u has the symbols of t, but for what is captured, and its declarations. *)
SameSymbols(t, u) ==
  /\ u.locals = t.locals /\ u.depth = t.depth /\ u.kind = t.kind /\ u.blocks = t.blocks /\ Len(u.symbols) = Len(t.symbols)
  /\ \A i \in 1..Len(t.symbols) :
       /\ u.symbols[i].name = t.symbols[i].name /\ u.symbols[i].params = t.symbols[i].params
       /\ u.symbols[i].location = t.symbols[i].location /\ u.symbols[i].index = t.symbols[i].index
       /\ u.symbols[i].scopeDepth = t.symbols[i].scopeDepth

(* The declarations are the same, *)
LEMMA SameFlat ==
  ASSUME NEW t, NEW u, SameSymbols(t, u)
  PROVE  /\ Flat(u) = Flat(t) /\ Top(u) = Top(t) /\ Locals(u) = Locals(t) /\ \A b : Within(u, b) = Within(t, b)
         /\ Len(u.blocks) = Len(t.blocks)
BY DEF SameSymbols, Flat, Top, Locals, Within

(* ... and so are the places of their symbols. *)
LEMMA SamePlaced ==
  ASSUME NEW t \in Table, NEW u \in Table, SameSymbols(t, u), Placed(t)
  PROVE  Placed(u)
<1>1. PICK at \in Seq(Nat) : Places(t, at) BY DEF Placed
<1>2. /\ Flat(u) = Flat(t) /\ Top(u) = Top(t) /\ Locals(u) = Locals(t) /\ (\A b : Within(u, b) = Within(t, b))
      /\ Len(u.blocks) = Len(t.blocks) /\ u.depth = t.depth /\ u.locals = t.locals /\ Len(u.symbols) = Len(t.symbols)
  BY SameFlat DEF SameSymbols
<1>3. Len(t.symbols) \in Nat BY TableFields
<1>4. \A i \in 2..Len(t.symbols) : i \in 1..Len(t.symbols) BY <1>3
<1>5. ASSUME NEW p \in 1..Len(at) PROVE at[p] \in 2..Len(u.symbols) /\ PlacedAt(u, p, u.symbols[at[p]])
  <2>1. at[p] \in 2..Len(t.symbols) /\ PlacedAt(t, p, t.symbols[at[p]]) BY <1>1 DEF Places
  <2>2. at[p] \in 1..Len(t.symbols) BY <1>4, <2>1
  <2> DEFINE s == t.symbols[at[p]]
             r == u.symbols[at[p]]
  <2>3. r.name = s.name /\ r.params = s.params /\ r.location = s.location /\ r.index = s.index /\ r.scopeDepth = s.scopeDepth
    BY <2>2 DEF SameSymbols
  <2>4. PlacedAt(t, p, s) BY <2>1
  <2> HIDE DEF s, r
  <2>5. PlacedAt(u, p, r) BY <1>2, <2>3, <2>4 DEF PlacedAt
  <2> QED BY <1>2, <2>1, <2>5 DEF r
<1>6. \A i \in 2..Len(t.symbols) : u.symbols[i].scopeDepth = t.symbols[i].scopeDepth /\ u.symbols[i].location = t.symbols[i].location
  BY <1>4 DEF SameSymbols
<1>7. Places(u, at) BY <1>1, <1>2, <1>5, <1>6 DEF Places
<1>8. \A i \in 2..Len(u.symbols) : u.symbols[i].scopeDepth > u.depth => u.symbols[i].location = "GLOBAL"
  BY <1>2, <1>6 DEF Placed
<1>9. u.locals = Locals(u) + 1 => Whole(u) BY <1>2, <1>6 DEF Placed, Whole
<1>10. u.locals > Locals(u) BY <1>2 DEF Placed
<1> QED BY <1>1, <1>7, <1>8, <1>9, <1>10 DEF Placed

(* A symbol is defined where the text declares it. *)
LEMMA DefinedPlaced ==
  ASSUME NEW t \in Table, t.blocks # <<>>, Len(t.symbols) >= 1, Placed(t), NEW s \in Symbol, NEW v \in Nat, s.name # None, s.scopeDepth = t.depth,
         t.kind = "main" /\ Len(t.blocks) = 1 => s.location = "GLOBAL" /\ s.index = Top(t),
         ~(t.kind = "main" /\ Len(t.blocks) = 1) => s.location = "LOCAL" /\ s.index = Locals(t) + 1
  PROVE  Placed(WithSymbol(t, s, v))
<1> DEFINE u == WithSymbol(t, s, v)
           d == [name |-> s.name, params |-> s.params, variable |-> v]
           n == Len(t.symbols)
           f == Len(Flat(t))
           m == Len(t.blocks)
<1>1. /\ u \in Table /\ u.symbols = Append(t.symbols, s)
      /\ u.locals = IF s.location = "LOCAL" THEN t.locals + 1 ELSE t.locals
      /\ u.depth = t.depth /\ u.kind = t.kind /\ d \in Declaration
      /\ u.blocks = Append(Front(t.blocks), Append(Last(t.blocks), d))
  BY WithSymbolTable
<1>2. PICK at \in Seq(Nat) : Places(t, at) BY DEF Placed
<1>3. /\ f \in Nat /\ m \in Nat /\ m >= 1 /\ t.depth \in Nat /\ Top(t) \in Nat /\ Top(t) <= f
      /\ Locals(t) = f - Top(t) /\ t.locals \in Nat /\ n \in Nat /\ n >= 1
      /\ \A b \in 1..m : Within(t, b) \in Nat
  <2>1. \A b \in 1..m : b \in 0..m
    <3>1. m \in Nat BY FlatType
    <3> QED BY <3>1
  <2> QED BY <2>1, FlatType, TableFields DEF Locals
<1>4. d.name = s.name /\ d.params = s.params OBVIOUS
<1> HIDE DEF u, d
<1>5. /\ Len(u.blocks) = m /\ Len(Flat(u)) = f + 1 /\ Flat(u)[f + 1] = d
      /\ \A p \in 1..f : Flat(u)[p] = Flat(t)[p]
      /\ \A b \in 1..(m - 1) : Within(u, b) = Within(t, b)
      /\ Within(u, m) = f + 1 /\ Within(t, m) = f
      /\ t.kind = "main" /\ m = 1 => Top(t) = f /\ Top(u) = f + 1
      /\ ~(t.kind = "main" /\ m = 1) => Top(u) = Top(t)
  <2>1. Within(t, m) = f BY FlatType
  <2>2. /\ Len(u.blocks) = m /\ Len(Flat(u)) = f + 1 /\ Flat(u)[f + 1] = d
        /\ \A p \in 1..f : Flat(u)[p] = Flat(t)[p]
        /\ \A b \in 1..(m - 1) : Within(u, b) = Within(t, b)
        /\ Within(u, m) = f + 1
        /\ t.kind = "main" /\ m = 1 => Top(t) = f /\ Top(u) = f + 1
        /\ ~(t.kind = "main" /\ m = 1) => Top(u) = Top(t)
    BY <1>1, FlatDeclared
  <2> QED BY <2>1, <2>2
<1> DEFINE new == n + 1
           bt == Append(at, new)
<1>6. Len(at) = f /\ at \in Seq(Nat) BY <1>2 DEF Places
<1>7. /\ Len(u.symbols) = new /\ u.symbols[new] = s /\ \A i \in 1..n : u.symbols[i] = t.symbols[i]
  <2>1. t.symbols \in Seq(Symbol) /\ s \in Symbol BY TableFields
  <2> QED BY <1>1, <2>1, Appended
<1>8. new \in Nat /\ new >= 2 BY <1>3
<1>9. bt \in Seq(Nat) /\ Len(bt) = f + 1 /\ bt[f + 1] = new /\ \A p \in 1..f : bt[p] = at[p]
  BY <1>6, <1>8, Appended
<1> HIDE DEF bt, f, m, n, new
<1>10. ASSUME NEW p \in 1..f PROVE bt[p] \in 2..n /\ u.symbols[bt[p]] = t.symbols[at[p]] /\ PlacedAt(u, p, u.symbols[bt[p]])
  <2>1. at[p] \in 2..n /\ PlacedAt(t, p, t.symbols[at[p]]) BY <1>2, <1>6 DEF Places, n
  <2>2. bt[p] = at[p] /\ at[p] \in 1..n BY <1>3, <1>9, <2>1
  <2> DEFINE r == t.symbols[at[p]]
  <2>3. u.symbols[bt[p]] = r BY <1>7, <2>2
  <2>4. r.scopeDepth \in Nat BY <2>2, SymbolFields DEF n
  <2>5. PlacedAt(t, p, r) BY <2>1
  <2> HIDE DEF r
  <2>6. Flat(u)[p] = Flat(t)[p] BY <1>5
  <2>7. /\ p <= Top(u) => r.location = "GLOBAL" /\ r.index = p - 1
        /\ p > Top(u) => r.location = "LOCAL" /\ r.index = p - Top(u)
    <3>1. CASE t.kind = "main" /\ m = 1
      <4>1. p <= Top(t) /\ ~(p > Top(u)) BY <1>3, <1>5, <3>1
      <4> QED BY <2>5, <4>1 DEF PlacedAt
    <3>2. CASE ~(t.kind = "main" /\ m = 1) BY <1>5, <2>5, <3>2 DEF PlacedAt
    <3> QED BY <3>1, <3>2
  <2>8. ASSUME NEW b \in 1..m PROVE p <= Within(u, b) <=> r.scopeDepth + m <= t.depth + b
    <3>1. p <= Within(t, b) <=> r.scopeDepth + m <= t.depth + b BY <2>5 DEF PlacedAt, m
    <3>2. CASE b = m
      <4>1. p <= Within(t, b) /\ p <= Within(u, b) BY <1>3, <1>5, <3>2
      <4> QED BY <3>1, <4>1
    <3>3. CASE b # m
      <4>1. b \in 1..(m - 1) BY <1>3, <3>3
      <4> QED BY <1>5, <3>1, <4>1
    <3> QED BY <3>2, <3>3
  <2>9. r.name = Flat(t)[p].name /\ r.params = Flat(t)[p].params /\ r.scopeDepth <= t.depth BY <2>5 DEF PlacedAt
  <2>10. PlacedAt(u, p, r) BY <1>1, <1>5, <2>6, <2>7, <2>8, <2>9 DEF PlacedAt
  <2> QED BY <2>1, <2>2, <2>3, <2>10 DEF r
<1>11. PlacedAt(u, f + 1, s)
  <2>1. s.scopeDepth = u.depth /\ s.scopeDepth <= u.depth BY <1>1, <1>3
  <2>2. /\ f + 1 <= Top(u) => s.location = "GLOBAL" /\ s.index = (f + 1) - 1
        /\ f + 1 > Top(u) => s.location = "LOCAL" /\ s.index = (f + 1) - Top(u)
    <3>1. CASE t.kind = "main" /\ m = 1
      <4>1. ~(f + 1 > Top(u)) BY <1>3, <1>5, <3>1
      <4>2. s.location = "GLOBAL" /\ s.index = f BY <1>5, <3>1 DEF m
      <4>3. f = (f + 1) - 1 BY <1>3
      <4> QED BY <4>1, <4>2, <4>3
    <3>2. CASE ~(t.kind = "main" /\ m = 1)
      <4>1. ~(f + 1 <= Top(u)) BY <1>3, <1>5, <3>2
      <4>2. s.location = "LOCAL" /\ s.index = Locals(t) + 1 BY <3>2 DEF m
      <4>3. (f - Top(t)) + 1 = (f + 1) - Top(u) BY <1>3, <1>5, <3>2
      <4> QED BY <1>3, <4>1, <4>2, <4>3
    <3> QED BY <3>1, <3>2
  <2>3. ASSUME NEW b \in 1..m PROVE f + 1 <= Within(u, b) <=> s.scopeDepth + m <= u.depth + b
    <3>1. CASE b = m BY <1>3, <1>5, <2>1, <3>1
    <3>2. CASE b # m
      <4>1. b \in 1..(m - 1) BY <1>3, <3>2
      <4>2. Within(u, b) <= f
        <5>1. Within(u, b) = Within(t, b) BY <1>5, <4>1
        <5>2. Within(t, b) <= Within(t, m)
          <6>1. LengthOf(t.blocks, b) <= LengthOf(t.blocks, Len(t.blocks))
            <7>1. t.blocks \in Seq(Seq(Declaration)) BY TableFields
            <7>2. b \in 0..Len(t.blocks) BY <1>3, <4>1 DEF m
            <7> QED BY <7>1, <7>2, LengthOfGrows
          <6> QED BY <6>1 DEF Within, m
        <5> QED BY <1>5, <5>1, <5>2
      <4>3. Within(u, b) \in Nat BY <1>3, <1>5, <4>1
      <4>4. ~(f + 1 <= Within(u, b)) BY <1>3, <4>2, <4>3
      <4>5. ~(s.scopeDepth + m <= u.depth + b) BY <1>1, <1>3, <2>1, <4>1
      <4> QED BY <4>4, <4>5
    <3> QED BY <3>1, <3>2
  <2> QED BY <1>4, <1>5, <2>1, <2>2, <2>3 DEF PlacedAt
<1>12. Places(u, bt)
  <2>1. Len(bt) = Len(Flat(u)) BY <1>5, <1>9
  <2>2. ASSUME NEW p \in 1..Len(bt) PROVE bt[p] \in 2..Len(u.symbols) /\ PlacedAt(u, p, u.symbols[bt[p]])
    <3>1. CASE p = f + 1 BY <1>7, <1>8, <1>9, <1>11, <3>1
    <3>2. CASE p # f + 1
      <4>1. p \in 1..f BY <1>3, <1>9, <3>2
      <4>2. bt[p] \in 2..n /\ PlacedAt(u, p, u.symbols[bt[p]]) BY <1>10, <4>1
      <4>3. bt[p] \in 2..Len(u.symbols) BY <1>3, <1>7, <4>2 DEF new
      <4> QED BY <4>2, <4>3
    <3> QED BY <3>1, <3>2
  <2>3. ASSUME NEW p \in 1..Len(bt), NEW q \in 1..Len(bt), p < q PROVE bt[p] < bt[q]
    <3>1. p \in 1..f BY <1>3, <1>9, <2>3
    <3>2. CASE q = f + 1
      <4>1. bt[p] \in 2..n /\ bt[q] = n + 1 BY <1>9, <1>10, <3>1, <3>2 DEF new
      <4> QED BY <1>3, <4>1
    <3>3. CASE q # f + 1
      <4>1. q \in 1..f BY <1>3, <1>9, <3>3
      <4>2. at[p] < at[q] BY <1>2, <1>6, <2>3, <3>1, <4>1 DEF Places
      <4> QED BY <1>9, <3>1, <4>1, <4>2
    <3> QED BY <3>2, <3>3
  <2>4. ASSUME NEW i \in 2..Len(u.symbols), u.symbols[i].scopeDepth <= u.depth PROVE \E p \in 1..Len(bt) : bt[p] = i
    <3>1. CASE i = new
      <4>1. f + 1 \in 1..Len(bt) /\ bt[f + 1] = i BY <1>3, <1>9, <3>1
      <4> QED BY <4>1
    <3>2. CASE i # new
      <4>1. i \in 2..n /\ i \in 1..n BY <1>3, <1>7, <3>2 DEF new
      <4>2. t.symbols[i].scopeDepth <= t.depth BY <1>1, <1>7, <2>4, <4>1
      <4>3. PICK p \in 1..Len(at) : at[p] = i BY <1>2, <4>1, <4>2 DEF Places, n
      <4>4. p \in 1..f /\ p \in 1..Len(bt) BY <1>3, <1>6, <1>9
      <4> QED BY <1>9, <4>3, <4>4
    <3> QED BY <3>1, <3>2
  <2> QED BY <1>9, <2>1, <2>2, <2>3, <2>4 DEF Places
<1>13. Locals(u) \in Nat /\ (s.location = "LOCAL" => Locals(u) = Locals(t) + 1) /\ (s.location = "GLOBAL" => Locals(u) = Locals(t))
  <2>1. Locals(u) = (f + 1) - Top(u) BY <1>5 DEF Locals
  <2>2. CASE t.kind = "main" /\ m = 1
    <3>1. s.location = "GLOBAL" BY <2>2 DEF m
    <3> QED BY <1>3, <1>5, <2>1, <2>2, <3>1
  <2>3. CASE ~(t.kind = "main" /\ m = 1)
    <3>1. s.location = "LOCAL" BY <2>3 DEF m
    <3> QED BY <1>3, <1>5, <2>1, <2>3, <3>1
  <2> QED BY <2>2, <2>3
<1>14. \A i \in 2..Len(u.symbols) : u.symbols[i].scopeDepth > u.depth => i \in 2..n /\ t.symbols[i].scopeDepth > t.depth /\ u.symbols[i] = t.symbols[i]
  <2> SUFFICES ASSUME NEW i \in 2..Len(u.symbols), u.symbols[i].scopeDepth > u.depth
               PROVE  i \in 2..n /\ t.symbols[i].scopeDepth > t.depth /\ u.symbols[i] = t.symbols[i]
    OBVIOUS
  <2>1. i # new
    <3>1. s.scopeDepth = u.depth /\ u.depth \in Nat BY <1>1, <1>3
    <3> QED BY <1>7, <3>1
  <2>2. i \in 2..n /\ i \in 1..n BY <1>3, <1>7, <2>1 DEF new
  <2> QED BY <1>1, <1>7, <2>2
<1>15. s.location \in {"LOCAL", "GLOBAL"} BY DEF Symbol
<1>16. u.locals > Locals(u) /\ (u.locals = Locals(u) + 1 => t.locals = Locals(t) + 1)
  <2>1. t.locals > Locals(t) BY DEF Placed
  <2>2. Locals(t) \in Nat BY FlatType
  <2> QED BY <1>1, <1>3, <1>13, <1>15, <2>1, <2>2
<1>17. u.locals = Locals(u) + 1 => Whole(u)
  <2> SUFFICES ASSUME u.locals = Locals(u) + 1, NEW i \in 2..Len(u.symbols) PROVE u.symbols[i].scopeDepth <= u.depth
    BY DEF Whole
  <2>1. Whole(t) BY <1>16 DEF Placed
  <2>2. CASE i = new
    <3>1. s.scopeDepth = u.depth /\ u.depth \in Nat BY <1>1, <1>3
    <3> QED BY <1>7, <2>2, <3>1
  <2>3. CASE i # new
    <3>1. i \in 2..n /\ i \in 1..n BY <1>3, <1>7, <2>3 DEF new
    <3> QED BY <1>1, <1>7, <2>1, <3>1 DEF Whole, n
  <2> QED BY <2>2, <2>3
<1>18. \A i \in 2..Len(u.symbols) : u.symbols[i].scopeDepth > u.depth => u.symbols[i].location = "GLOBAL"
  BY <1>14 DEF Placed, n
<1>19. Placed(u) BY <1>9, <1>12, <1>16, <1>17, <1>18 DEF Placed
<1> QED BY <1>19 DEF u

(* The beginning of a block moves no symbol, *)
LEMMA EnteredPlaced ==
  ASSUME NEW t \in Table, t.blocks # <<>>, Placed(t), Whole(t),
         NEW u \in Table, u.depth = t.depth + 1, u.blocks = Append(t.blocks, <<>>), u.symbols = t.symbols, u.locals = t.locals,
         u.kind = t.kind
  PROVE  Placed(u) /\ Flat(u) = Flat(t) /\ Top(u) = Top(t) /\ Locals(u) = Locals(t)
<1> DEFINE m == Len(t.blocks)
           f == Len(Flat(t))
<1>1. /\ Len(u.blocks) = m + 1 /\ Flat(u) = Flat(t) /\ Top(u) = Top(t)
      /\ \A b \in 1..m : Within(u, b) = Within(t, b)
      /\ Within(u, m + 1) = f
  BY FlatEntered
<1>2. f \in Nat /\ m \in Nat /\ m >= 1 /\ t.depth \in Nat BY FlatType
<1>3. PICK at \in Seq(Nat) : Places(t, at) BY DEF Placed
<1>4. Len(at) = f /\ Len(t.symbols) \in Nat BY <1>3, TableFields DEF Places
<1> HIDE DEF m, f
<1>5. ASSUME NEW p \in 1..Len(at) PROVE at[p] \in 2..Len(u.symbols) /\ PlacedAt(u, p, u.symbols[at[p]])
  <2> DEFINE s == t.symbols[at[p]]
  <2>1. at[p] \in 2..Len(t.symbols) /\ PlacedAt(t, p, s) BY <1>3 DEF Places
  <2>2. s.scopeDepth \in Nat
    <3>1. at[p] \in 1..Len(t.symbols) BY <1>4, <2>1
    <3> QED BY <3>1, SymbolFields
  <2> HIDE DEF s
  <2>3. s.scopeDepth <= t.depth /\ s.scopeDepth <= u.depth BY <1>2, <2>1, <2>2 DEF PlacedAt
  <2>4. ASSUME NEW b \in 1..(m + 1) PROVE p <= Within(u, b) <=> s.scopeDepth + (m + 1) <= u.depth + b
    <3>1. CASE b = m + 1
      <4>1. p <= Within(u, b) BY <1>1, <1>2, <1>4, <3>1
      <4> QED BY <1>2, <2>2, <2>3, <3>1, <4>1
    <3>2. CASE b # m + 1
      <4>1. b \in 1..m BY <1>2, <3>2
      <4>2. p <= Within(t, b) <=> s.scopeDepth + m <= t.depth + b BY <2>1, <4>1 DEF PlacedAt, m
      <4>3. s.scopeDepth + m <= t.depth + b <=> s.scopeDepth + (m + 1) <= (t.depth + 1) + b
        <5>1. PICK x \in Nat : x = s.scopeDepth BY <2>2
        <5>2. PICK y \in Nat : y = t.depth BY <1>2
        <5>3. b \in Int BY <1>2
        <5>4. x + m <= y + b <=> x + (m + 1) <= (y + 1) + b BY <1>2, <5>3
        <5> QED BY <5>1, <5>2, <5>4
      <4> QED BY <1>1, <4>1, <4>2, <4>3
    <3> QED BY <3>1, <3>2
  <2>5. PlacedAt(u, p, s) BY <1>1, <2>1, <2>3, <2>4 DEF PlacedAt
  <2> QED BY <2>1, <2>5 DEF s
<1>6. ASSUME NEW i \in 2..Len(u.symbols), u.symbols[i].scopeDepth <= u.depth PROVE \E p \in 1..Len(at) : at[p] = i
  <2>1. t.symbols[i].scopeDepth <= t.depth BY DEF Whole
  <2> QED BY <1>3, <2>1 DEF Places
<1>7. Places(u, at) BY <1>1, <1>3, <1>5, <1>6 DEF Places
<1>8. Whole(u)
  <2> SUFFICES ASSUME NEW i \in 2..Len(t.symbols) PROVE t.symbols[i].scopeDepth <= t.depth + 1
    BY DEF Whole
  <2>1. t.symbols[i].scopeDepth <= t.depth BY DEF Whole
  <2>2. t.symbols[i].scopeDepth \in Nat
    <3>1. i \in 1..Len(t.symbols) BY <1>4
    <3> QED BY <3>1, SymbolFields
  <2> QED BY <1>2, <2>1, <2>2
<1>9. ASSUME NEW i \in 2..Len(u.symbols), u.symbols[i].scopeDepth > u.depth PROVE FALSE
  <2>1. u.symbols[i].scopeDepth <= u.depth BY <1>8 DEF Whole
  <2>2. u.symbols[i].scopeDepth \in Nat /\ u.depth \in Nat
    <3>1. i \in 1..Len(u.symbols) BY <1>4
    <3> QED BY <1>2, <3>1, SymbolFields
  <2> QED BY <1>9, <2>1, <2>2
<1>10. Locals(u) = Locals(t) BY <1>1 DEF Locals
<1>11. u.locals > Locals(u) BY <1>10 DEF Placed
<1> QED BY <1>1, <1>3, <1>7, <1>8, <1>9, <1>10, <1>11 DEF Placed

(* ... and its end takes those of its declarations, and no other. *)
LEMMA ExitedPlaced ==
  ASSUME NEW t \in Table, Len(t.blocks) > 1, t.depth >= 1, Placed(t), 1 \notin Gone(t),
         NEW u \in Table, u.depth = t.depth - 1, u.blocks = Front(t.blocks), u.kind = t.kind, u.locals = t.locals,
         Len(u.symbols) = Len(t.symbols),
         \A i \in 1..Len(t.symbols) :
           /\ u.symbols[i].name = t.symbols[i].name /\ u.symbols[i].params = t.symbols[i].params
           /\ u.symbols[i].index = t.symbols[i].index /\ u.symbols[i].scopeDepth = t.symbols[i].scopeDepth
           /\ i \in Gone(t) => u.symbols[i].location = "GLOBAL"
           /\ i \notin Gone(t) => u.symbols[i].location = t.symbols[i].location
  PROVE  /\ Placed(u) /\ Cardinality(Gone(t)) = Len(Last(t.blocks)) /\ Top(u) = Top(t) /\ Locals(u) \in Nat
         /\ Locals(t) = Locals(u) + Len(Last(t.blocks)) /\ Len(Last(t.blocks)) \in Nat
         /\ Len(Flat(u)) <= Len(Flat(t)) /\ \A p \in 1..Len(Flat(u)) : Flat(u)[p] = Flat(t)[p]
<1> DEFINE m == Len(t.blocks)
           f == Len(Flat(t))
           g == Len(Flat(u))
           l == Len(Last(t.blocks))
           n == Len(t.symbols)
<1>1. /\ Len(u.blocks) = m - 1 /\ u.blocks # <<>> /\ Top(u) = Top(t) /\ g <= f /\ g \in Nat /\ l \in Nat /\ f = g + l
      /\ \A p \in 1..g : Flat(u)[p] = Flat(t)[p]
      /\ \A b \in 1..(m - 1) : Within(u, b) = Within(t, b)
      /\ Within(t, m - 1) = g
  BY FlatExited
<1>2. t.blocks # <<>>
  <2>1. t.blocks = <<>> => Len(t.blocks) = 0 OBVIOUS
  <2> QED BY <2>1
<1>3. f \in Nat /\ m \in Nat /\ m > 1 /\ t.depth \in Nat /\ Top(t) \in Nat /\ Top(t) <= f /\ n \in Nat
  BY <1>2, FlatType, TableFields
<1>4. Top(u) <= g BY <1>1, FlatType
<1>5. PICK at \in Seq(Nat) : Places(t, at) BY DEF Placed
<1>6. Len(at) = f BY <1>5 DEF Places
<1> HIDE DEF m, f, g, l, n
<1>7. ASSUME NEW p \in 1..f
      PROVE  /\ at[p] \in 2..n /\ at[p] \in 1..n /\ PlacedAt(t, p, t.symbols[at[p]]) /\ t.symbols[at[p]].scopeDepth \in Nat
             /\ t.symbols[at[p]].scopeDepth <= t.depth
             /\ p <= g <=> t.symbols[at[p]].scopeDepth <= t.depth - 1
             /\ p > g => t.symbols[at[p]].location = "LOCAL" /\ at[p] \in Gone(t)
             /\ p <= g => at[p] \notin Gone(t)
  <2> DEFINE s == t.symbols[at[p]]
  <2>1. at[p] \in 2..n /\ PlacedAt(t, p, s) BY <1>5, <1>6 DEF Places, n
  <2>2. at[p] \in 1..n BY <1>3, <2>1
  <2>3. s.scopeDepth \in Nat BY <2>2, SymbolFields DEF n
  <2>4. at[p] \in Gone(t) <=> s.location = "LOCAL" /\ s.scopeDepth >= t.depth
    <3>1. DOMAIN t.symbols = 1..n BY TableFields DEF n
    <3> QED BY <2>2, <3>1 DEF Gone
  <2> HIDE DEF s
  <2>5. s.scopeDepth <= t.depth BY <2>1 DEF PlacedAt
  <2>6. m - 1 \in 1..Len(t.blocks) BY <1>3 DEF m
  <2>7. p <= Within(t, m - 1) <=> s.scopeDepth + m <= t.depth + (m - 1) BY <2>1, <2>6 DEF PlacedAt, m
  <2>8. p <= g <=> s.scopeDepth <= t.depth - 1 BY <1>1, <1>3, <2>3, <2>7
  <2>9. ASSUME p > g PROVE s.location = "LOCAL" /\ s.scopeDepth >= t.depth
    <3>1. p > Top(t) BY <1>1, <1>3, <1>4, <2>9
    <3>2. ~(p <= g) BY <1>1, <2>9
    <3> QED BY <1>3, <2>1, <2>3, <2>8, <3>1, <3>2 DEF PlacedAt
  <2>10. ASSUME p <= g PROVE ~(s.scopeDepth >= t.depth)
    <3> QED BY <1>3, <2>3, <2>8, <2>10
  <2> QED BY <2>1, <2>2, <2>3, <2>4, <2>5, <2>8, <2>9, <2>10 DEF s
<1> DEFINE bt == SubSeq(at, 1, g)
<1>8. bt \in Seq(Nat) /\ Len(bt) = g /\ \A p \in 1..g : bt[p] = at[p] BY <1>1, <1>6
<1> HIDE DEF bt
<1>9. ASSUME NEW p \in 1..g PROVE bt[p] \in 2..n /\ PlacedAt(u, p, u.symbols[bt[p]])
  <2> DEFINE s == t.symbols[at[p]]
             r == u.symbols[at[p]]
  <2>1. p \in 1..f BY <1>1, <1>3
  <2>2. at[p] \in 2..n /\ at[p] \in 1..n /\ PlacedAt(t, p, s) /\ s.scopeDepth \in Nat /\ s.scopeDepth <= t.depth - 1 /\ at[p] \notin Gone(t)
    BY <1>1, <1>7, <2>1
  <2>3. r.name = s.name /\ r.params = s.params /\ r.index = s.index /\ r.scopeDepth = s.scopeDepth /\ r.location = s.location
    BY <2>2 DEF n
  <2> HIDE DEF s, r
  <2>4. ASSUME NEW b \in 1..(m - 1) PROVE p <= Within(u, b) <=> r.scopeDepth + (m - 1) <= u.depth + b
    <3>1. b \in 1..m BY <1>3
    <3>2. p <= Within(t, b) <=> s.scopeDepth + m <= t.depth + b BY <2>2, <3>1 DEF PlacedAt, m
    <3> DEFINE x == s.scopeDepth
               y == t.depth
    <3>4. x \in Nat /\ y \in Nat /\ b \in Nat /\ m \in Nat BY <1>3, <2>2
    <3> HIDE DEF x, y
    <3>5. x + m <= y + b <=> x + (m - 1) <= (y - 1) + b BY <3>4
    <3>3. s.scopeDepth + m <= t.depth + b <=> s.scopeDepth + (m - 1) <= (t.depth - 1) + b BY <3>5 DEF x, y
    <3> QED BY <1>1, <2>3, <3>2, <3>3
  <2>5. PlacedAt(u, p, r) BY <1>1, <2>2, <2>3, <2>4 DEF PlacedAt
  <2> QED BY <1>8, <2>2, <2>5 DEF r
<1>10. ASSUME NEW i \in 2..n, u.symbols[i].scopeDepth <= u.depth PROVE \E p \in 1..g : bt[p] = i
  <2>1. i \in 1..n BY <1>3
  <2>2. t.symbols[i].scopeDepth <= t.depth - 1 /\ t.symbols[i].scopeDepth \in Nat BY <1>10, <2>1, SymbolFields DEF n
  <2>3. t.symbols[i].scopeDepth <= t.depth BY <1>3, <2>2
  <2>4. PICK p \in 1..f : at[p] = i BY <1>5, <1>6, <2>3 DEF Places, n
  <2>5. p <= g BY <1>7, <2>2, <2>4
  <2>6. p \in 1..g BY <1>1, <2>5
  <2> QED BY <1>8, <2>4, <2>6
<1>11. Places(u, bt)
  <2>1. Len(bt) = Len(Flat(u)) /\ Len(u.symbols) = n BY <1>8 DEF g, n
  <2>2. \A p \in 1..Len(bt) : bt[p] \in 2..Len(u.symbols) /\ PlacedAt(u, p, u.symbols[bt[p]]) BY <1>8, <1>9, <2>1
  <2>3. \A p, q \in 1..Len(bt) : p < q => bt[p] < bt[q]
    <3>1. \A p \in 1..g : p \in 1..Len(at) BY <1>1, <1>3, <1>6
    <3>2. \A p, q \in 1..Len(at) : p < q => at[p] < at[q] BY <1>5 DEF Places
    <3> QED BY <1>8, <3>1, <3>2
  <2>4. \A i \in 2..Len(u.symbols) : u.symbols[i].scopeDepth <= u.depth => \E p \in 1..Len(bt) : bt[p] = i BY <1>8, <1>10, <2>1
  <2> QED BY <1>8, <2>1, <2>2, <2>3, <2>4 DEF Places
<1>12. Locals(t) = f - Top(t) /\ Locals(u) = g - Top(t) /\ Locals(u) \in Nat /\ Locals(t) = Locals(u) + l
  <2>1. Locals(t) = f - Top(t) /\ Locals(u) = g - Top(t) BY <1>1 DEF Locals, f, g
  <2> QED BY <1>1, <1>3, <1>4, <2>1
<1>13. ASSUME NEW i \in 2..n, u.symbols[i].scopeDepth > u.depth PROVE u.symbols[i].location = "GLOBAL"
  <2>1. i \in 1..n /\ DOMAIN t.symbols = 1..n BY <1>3, TableFields DEF n
  <2>2. t.symbols[i].scopeDepth \in Nat /\ t.symbols[i].location \in {"GLOBAL", "LOCAL"} BY <2>1, SymbolFields DEF n
  <2>3. t.symbols[i].scopeDepth >= t.depth BY <1>3, <1>13, <2>1, <2>2 DEF n
  <2>4. CASE i \in Gone(t) BY <2>1, <2>4 DEF n
  <2>5. CASE i \notin Gone(t)
    <3>1. t.symbols[i].location = "GLOBAL" BY <2>1, <2>2, <2>3, <2>5 DEF Gone
    <3> QED BY <2>1, <2>5, <3>1 DEF n
  <2> QED BY <2>4, <2>5
<1>14. t.locals > Locals(t) /\ t.locals \in Nat BY TableFields DEF Placed
<1>15. u.locals > Locals(u) BY <1>1, <1>12, <1>14
<1>16. ASSUME u.locals = Locals(u) + 1 PROVE Whole(u)
  <2>1. l = 0 /\ t.locals = Locals(t) + 1 BY <1>1, <1>12, <1>14, <1>16
  <2>2. Whole(t) BY <2>1 DEF Placed
  <2> SUFFICES ASSUME NEW i \in 2..n PROVE u.symbols[i].scopeDepth <= u.depth BY DEF Whole, n
  <2>3. t.symbols[i].scopeDepth <= t.depth BY <2>2 DEF Whole, n
  <2>4. PICK p \in 1..f : at[p] = i BY <1>5, <1>6, <2>3 DEF Places, n
  <2>5. p <= g BY <1>1, <1>3, <2>1
  <2>6. t.symbols[i].scopeDepth <= t.depth - 1 BY <1>7, <2>4, <2>5
  <2>7. i \in 1..n BY <1>3
  <2> QED BY <2>6, <2>7 DEF n
<1>17. Placed(u)
  <2>1. Len(u.symbols) = n BY DEF n
  <2> QED BY <1>8, <1>11, <1>13, <1>15, <1>16, <2>1 DEF Placed
<1>18. Cardinality(Gone(t)) = l
  <2> DEFINE G == Gone(t)
             h == [q \in 1..l |-> at[g + q]]
  <2>1. ASSUME NEW q \in 1..l PROVE g + q \in 1..f /\ g + q > g /\ at[g + q] \in G
    <3>1. g + q \in 1..f /\ g + q > g BY <1>1, <1>3
    <3> QED BY <1>7, <3>1
  <2>2. ASSUME NEW i \in G PROVE \E q \in 1..l : h[q] = i
    <3>1. DOMAIN t.symbols = 1..n BY TableFields DEF n
    <3>2. i \in 1..n /\ t.symbols[i].location = "LOCAL" /\ t.symbols[i].scopeDepth >= t.depth BY <3>1 DEF Gone
    <3>3. i \in 2..n BY <1>3, <3>2
    <3>4. t.symbols[i].scopeDepth \in Nat BY <3>2, SymbolFields DEF n
    <3>5. t.symbols[i].scopeDepth <= t.depth
      <4>1. ~(t.symbols[i].scopeDepth > t.depth) BY <3>2, <3>3 DEF Placed, n
      <4> QED BY <1>3, <3>4, <4>1
    <3>6. PICK p \in 1..f : at[p] = i BY <1>5, <1>6, <3>3, <3>5 DEF Places, n
    <3>7. ~(p <= g)
      <4>1. ~(t.symbols[i].scopeDepth <= t.depth - 1) BY <1>3, <3>2, <3>4
      <4> QED BY <1>7, <3>6, <4>1
    <3>8. p - g \in 1..l /\ g + (p - g) = p BY <1>1, <1>3, <3>7
    <3> QED BY <3>6, <3>8
  <2>3. ASSUME NEW p \in 1..l, NEW q \in 1..l, p # q PROVE h[p] # h[q]
    <3>1. \A x, y \in 1..Len(at) : x < y => at[x] < at[y] BY <1>5 DEF Places
    <3>2. g + p \in 1..Len(at) /\ g + q \in 1..Len(at) BY <1>6, <2>1
    <3>3. at[g + p] \in Nat /\ at[g + q] \in Nat BY <1>5, <3>2
    <3>4. g + p < g + q \/ g + q < g + p BY <1>1, <2>3
    <3>5. at[g + p] # at[g + q] BY <3>1, <3>2, <3>3, <3>4
    <3> QED BY <3>5
  <2>4. h \in [1..l -> G] BY <2>1
  <2> HIDE DEF h, G
  <2>5. h \in Bijection(1..l, G) BY <2>2, <2>3, <2>4 DEF Bijection, Injection, Surjection, IsInjective
  <2>6. ExistsBijection(1..l, G) BY <2>5 DEF ExistsBijection
  <2>7. Cardinality(G) = l BY <1>1, <2>6, FS_CountingElements
  <2> QED BY <2>7 DEF G
<1> QED BY <1>1, <1>12, <1>17, <1>18 DEF f, g, l

(* A table whose declarations are its symbols but the first *)
LEMMA NextPlaced ==
  ASSUME NEW u \in Table, u.blocks # <<>>, NEW n \in Nat, Len(Flat(u)) = n, Len(u.symbols) = n + 1, u.locals = Locals(u) + 1,
         \A p \in 1..n : PlacedAt(u, p, u.symbols[p + 1])
  PROVE  Placed(u)
<1> DEFINE at == [p \in 1..n |-> p + 1]
<1>1. at \in [1..n -> Nat] /\ \A p \in 1..n : at[p] = p + 1 OBVIOUS
<1> HIDE DEF at
<1>2. at \in Seq(Nat) /\ Len(at) = n BY <1>1, IsSeq
<1>3. \A p \in 1..n : at[p] \in 2..(n + 1) BY <1>1
<1>4. \A p, q \in 1..n : p < q => at[p] < at[q] BY <1>1
<1>5. ASSUME NEW i \in 2..(n + 1) PROVE \E p \in 1..n : at[p] = i
  <2>1. i - 1 \in 1..n /\ (i - 1) + 1 = i OBVIOUS
  <2>2. at[i - 1] = i BY <1>1, <2>1
  <2> QED BY <2>1, <2>2
<1>6. Places(u, at) BY <1>1, <1>2, <1>3, <1>4, <1>5 DEF Places
<1>7. Whole(u)
  <2> SUFFICES ASSUME NEW i \in 2..(n + 1) PROVE u.symbols[i].scopeDepth <= u.depth BY DEF Whole
  <2>1. PICK p \in 1..n : at[p] = i BY <1>5
  <2>2. PlacedAt(u, p, u.symbols[i]) BY <1>1, <2>1
  <2> QED BY <2>2 DEF PlacedAt
<1>8. Locals(u) \in Nat /\ u.depth \in Nat BY FlatType
<1>9. u.locals > Locals(u) BY <1>8
<1>10. \A i \in 2..Len(u.symbols) : ~(u.symbols[i].scopeDepth > u.depth)
  <2> SUFFICES ASSUME NEW i \in 2..(n + 1) PROVE ~(u.symbols[i].scopeDepth > u.depth) OBVIOUS
  <2>1. i \in 1..Len(u.symbols) OBVIOUS
  <2>2. u.symbols[i].scopeDepth \in Nat BY <2>1, SymbolFields
  <2>3. u.symbols[i].scopeDepth <= u.depth BY <1>7 DEF Whole
  <2> QED BY <1>8, <2>2, <2>3
<1> QED BY <1>2, <1>6, <1>7, <1>9, <1>10 DEF Placed

(* A function begins with its parameters in place, *)
LEMMA NewPlaced ==
  ASSUME NEW u, NEW name, NEW params \in Seq(Names), NEW v \in Nat, NEW depth \in Nat, NEW kind, kind # "main", NEW into, NEW frame,
         NewShape(u, name, params, v, depth, kind, into, frame)
  PROVE  /\ Placed(u) /\ Top(u) = 0 /\ Locals(u) = Len(params) /\ Len(Flat(u)) = Len(params)
         /\ \A p \in 1..Len(params) : Flat(u)[p].variable = v + p
<1> DEFINE n == Len(params)
           D(i) == [name |-> params[i], params |-> None, variable |-> v + i]
           d == [i \in DOMAIN params |-> D(i)]
<1>1. u \in Table /\ u.blocks = <<d, <<>>>> /\ u.kind = kind /\ u.depth = depth + 1 /\ u.locals = n + 1 /\ Len(u.symbols) = n + 1
  BY DEF NewShape
<1>2. n \in Nat /\ DOMAIN params = 1..n /\ \A i \in 1..n : params[i] \in Names BY SeqParts
<1>3. d \in Seq(Declaration) /\ Len(d) = n /\ \A i \in 1..n : d[i] = D(i)
  <2>1. ASSUME NEW i \in 1..n PROVE D(i) \in Declaration
    <3>1. v + i \in Nat OBVIOUS
    <3> QED BY <1>2, <3>1 DEF Declaration
  <2> HIDE DEF D
  <2>2. d \in [1..n -> Declaration] /\ \A i \in 1..n : d[i] = D(i) BY <1>2, <2>1
  <2> HIDE DEF d
  <2> QED BY <1>2, <2>2, IsSeq
<1>4. \A i \in 1..n : d[i].name = params[i] /\ d[i].params = None /\ d[i].variable = v + i BY <1>3
<1> HIDE DEF d, n
<1>5. Flat(u) = d /\ Within(u, 1) = n /\ Within(u, 2) = n BY <1>1, <1>3, FlattenOne DEF Flat, Within
<1>6. Len(u.blocks) = 2 /\ u.blocks # <<>> BY <1>1
<1>7. Top(u) = 0 BY <1>1 DEF Top
<1>8. Locals(u) = n BY <1>2, <1>3, <1>5, <1>7 DEF Locals
<1>9. ASSUME NEW p \in 1..n PROVE PlacedAt(u, p, u.symbols[p + 1])
  <2> DEFINE s == u.symbols[p + 1]
  <2>1. s.name = params[p] /\ s.params = None /\ s.location = "LOCAL" /\ s.index = p /\ s.scopeDepth = depth
    BY DEF NewShape, n
  <2> HIDE DEF s
  <2>2. s.scopeDepth <= u.depth BY <1>1, <2>1
  <2>3. p > 0 /\ ~(p <= 0) /\ p - 0 = p OBVIOUS
  <2>4. ASSUME NEW b \in 1..2 PROVE p <= Within(u, b) <=> s.scopeDepth + 2 <= u.depth + b
    <3>1. b = 1 \/ b = 2 OBVIOUS
    <3>2. p <= Within(u, b) BY <1>2, <1>5, <3>1
    <3>3. depth + 2 <= (depth + 1) + b OBVIOUS
    <3> QED BY <1>1, <2>1, <3>2, <3>3
  <2>5. PlacedAt(u, p, s) BY <1>4, <1>5, <1>6, <1>7, <2>1, <2>2, <2>3, <2>4 DEF PlacedAt
  <2> QED BY <2>5 DEF s
<1>10. Len(Flat(u)) = n /\ u.locals = Locals(u) + 1 BY <1>1, <1>3, <1>5, <1>8
<1>11. Placed(u) BY <1>1, <1>2, <1>6, <1>9, <1>10, NextPlaced
<1> QED BY <1>4, <1>5, <1>7, <1>8, <1>10, <1>11 DEF n

(* ... and a script with the libraries. *)
LEMMA StartPlaced ==
  /\ Placed(Start) /\ Top(Start) = Len(Libraries) /\ Locals(Start) = 0 /\ Len(Flat(Start)) = Len(Libraries)
  /\ \A p \in 1..Len(Libraries) : Flat(Start)[p].variable = p
<1> DEFINE n == Len(Libraries)
           u == Start
           D(i) == [name |-> Libraries[i], params |-> None, variable |-> i]
           d == [i \in DOMAIN Libraries |-> D(i)]
<1>1. u \in Table /\ u.blocks = <<d>> /\ u.kind = "main" /\ u.depth = 0 /\ u.locals = 1 /\ Len(u.symbols) = n + 1
  BY StartTable
<1>2. n \in Nat /\ DOMAIN Libraries = 1..n /\ \A i \in 1..n : Libraries[i] \in Names
  <2>1. Libraries \in Seq(Names) BY ScopesAssumption
  <2> QED BY <2>1, SeqParts
<1>3. d \in Seq(Declaration) /\ Len(d) = n /\ \A i \in 1..n : d[i] = D(i)
  <2>1. ASSUME NEW i \in 1..n PROVE D(i) \in Declaration
    <3>1. i \in Nat OBVIOUS
    <3> QED BY <1>2, <3>1 DEF Declaration
  <2> HIDE DEF D
  <2>2. d \in [1..n -> Declaration] /\ \A i \in 1..n : d[i] = D(i) BY <1>2, <2>1
  <2> HIDE DEF d
  <2> QED BY <1>2, <2>2, IsSeq
<1>4. \A i \in 1..n : d[i].name = Libraries[i] /\ d[i].params = None /\ d[i].variable = i BY <1>3
<1>40. \A i \in 1..n :
        LET s == u.symbols[i + 1] IN
          s.name = Libraries[i] /\ s.params = None /\ s.location = "GLOBAL" /\ s.index = i - 1 /\ s.scopeDepth = 0
  BY StartTable
<1> HIDE DEF d, n, u
<1>5. Flat(u) = d /\ Within(u, 1) = n BY <1>1, <1>3, FlattenOne DEF Flat, Within
<1>6. Len(u.blocks) = 1 /\ u.blocks # <<>> /\ u.blocks[1] = d BY <1>1
<1>7. Top(u) = n BY <1>1, <1>3, <1>6 DEF Top
<1>8. Locals(u) = 0 BY <1>2, <1>3, <1>5, <1>7 DEF Locals
<1>9. ASSUME NEW p \in 1..n PROVE PlacedAt(u, p, u.symbols[p + 1])
  <2> DEFINE s == u.symbols[p + 1]
  <2>1. s.name = Libraries[p] /\ s.params = None /\ s.location = "GLOBAL" /\ s.index = p - 1 /\ s.scopeDepth = 0
    BY <1>40
  <2> HIDE DEF s
  <2>2. s.scopeDepth <= u.depth BY <1>1, <2>1
  <2>3. p <= n /\ ~(p > n) BY <1>2
  <2>4. ASSUME NEW b \in 1..1 PROVE p <= Within(u, b) <=> s.scopeDepth + 1 <= u.depth + b
    <3>1. b = 1 OBVIOUS
    <3> QED BY <1>1, <1>5, <2>1, <2>3, <3>1
  <2>5. PlacedAt(u, p, s) BY <1>4, <1>5, <1>6, <1>7, <2>1, <2>2, <2>3, <2>4 DEF PlacedAt
  <2> QED BY <2>5 DEF s
<1>10. Len(Flat(u)) = n /\ u.locals = Locals(u) + 1 BY <1>1, <1>3, <1>5, <1>8
<1>11. Placed(u) BY <1>1, <1>2, <1>6, <1>9, <1>10, NextPlaced
<1> QED BY <1>4, <1>5, <1>7, <1>8, <1>10, <1>11 DEF n, u

-----------------------------------------------------------------------------
(* The tables together *)

(* The table of the script itself, outside its blocks *)
AtTop(t) == t.kind = "main" /\ Len(t.blocks) = 1

(* A frame has the first n of its locals. *)
InFrame(t, n) ==
  /\ Len(t.slots) = n + 1
  /\ \A i \in 1..n : t.slots[i + 1] = Flat(t)[Top(t) + i].variable

(* A function was declared last in the one around it. *)
FunctionInto(t, around) ==
  /\ t.symbols[1].name = t.into.name
  /\ Flat(around) # <<>>
  /\ Flat(around)[Len(Flat(around))] = [name |-> t.into.name, params |-> t.into.params, variable |-> t.slots[1]]
  /\ AtTop(around) => t.into.location = "GLOBAL" /\ t.into.index + 1 = Top(around)
  /\ ~AtTop(around) => t.into.location = "LOCAL" /\ t.into.index = Locals(around)

(* The variable of a lambda will be. *)
LambdaInto(t, around) ==
  /\ t.symbols[1].name = None
  /\ t.into.name # None =>
       /\ t.into.params = None /\ t.into.scopeDepth = around.depth
       /\ AtTop(around) => t.into.location = "GLOBAL" /\ t.into.index = Top(around)
       /\ ~AtTop(around) => t.into.location = "LOCAL" /\ t.into.index = Locals(around) + 1

Joined(t, around) ==
  /\ t.kind = "function" => FunctionInto(t, around)
  /\ t.kind = "lambda" => LambdaInto(t, around)

Formed(k) ==
  /\ Placed(tables[k])
  /\ Awaits(k, "LOCAL") => Locals(tables[k]) >= 1 /\ InFrame(tables[k], Locals(tables[k]) - 1)
  /\ ~Awaits(k, "LOCAL") => InFrame(tables[k], Locals(tables[k]))
  /\ k # 1 => Joined(tables[k], tables[k - 1])

GlobalsPlaced ==
  /\ Len(globals) = Top(tables[1])
  /\ \A i \in 1..Len(globals) : globals[i] = Flat(tables[1])[i].variable \/ (i = Len(globals) /\ Awaits(1, "GLOBAL"))

Shaped == Basic /\ GlobalsPlaced /\ \A k \in DOMAIN tables : Formed(k)

SameHead(t, u) ==
  u.kind = t.kind /\ u.into = t.into /\ u.slots[1] = t.slots[1] /\ u.symbols[1].name = t.symbols[1].name

(* Resolve keeps the declarations and slot 0. *)
LEMMA AlikeIsSame ==
  ASSUME NEW t \in Table, HasSelf(t), NEW u \in Table, Alike(t, u)
  PROVE  SameSymbols(t, u) /\ SameHead(t, u)
<1>1. SameSymbols(t, u) BY DEF Alike, SameSymbols
<1>2. 1 \in 1..Len(t.symbols)
  <2>1. Len(t.symbols) \in Nat /\ Len(t.symbols) >= 1 BY TableFields, SelfHasBlock
  <2> QED BY <2>1
<1>3. SameHead(t, u) BY <1>2 DEF Alike, SameHead
<1> QED BY <1>1, <1>3

(* A function and the one around it stay joined when neither changes its head *)
(* or its declarations.                                                       *)
LEMMA JoinedKept ==
  ASSUME NEW t, NEW u, NEW around, NEW about, SameHead(t, u), SameSymbols(around, about), Joined(t, around)
  PROVE  Joined(u, about)
<1>1. Flat(about) = Flat(around) /\ Top(about) = Top(around) /\ Locals(about) = Locals(around) BY SameFlat
<1>2. about.depth = around.depth /\ (AtTop(about) <=> AtTop(around)) BY DEF SameSymbols, AtTop
<1>3. ASSUME u.kind = "function" PROVE FunctionInto(u, about)
  <2>1. FunctionInto(t, around) BY <1>3 DEF Joined, SameHead
  <2> QED BY <1>1, <1>2, <2>1 DEF FunctionInto, SameHead
<1>4. ASSUME u.kind = "lambda" PROVE LambdaInto(u, about)
  <2>1. LambdaInto(t, around) BY <1>4 DEF Joined, SameHead
  <2> QED BY <1>1, <1>2, <2>1 DEF LambdaInto, SameHead
<1> QED BY <1>3, <1>4 DEF Joined

(* What Basic says of all tables, *)
LEMMA TablesOf ==
  ASSUME Basic
  PROVE  /\ tables \in Seq(Table) /\ Len(tables) \in Nat /\ DOMAIN tables = 1..Len(tables) /\ Len(tables) >= 1
         /\ \A k \in 1..Len(tables) : tables[k] \in Table /\ HasSelf(tables[k]) /\ Founded(k)
<1>1. tables \in Seq(Table) /\ Len(tables) \in Nat /\ DOMAIN tables = 1..Len(tables) /\ Len(tables) >= 1 BY OnTop
<1>2. \A k \in 1..Len(tables) : Founded(k) /\ tables[k] \in Table BY <1>1 DEF Basic
<1> QED BY <1>1, <1>2 DEF Founded

(* ... and of those after a step. *)
LEMMA TablesNext ==
  ASSUME Basic'
  PROVE  /\ tables' \in Seq(Table) /\ Len(tables') \in Nat /\ DOMAIN tables' = 1..Len(tables') /\ Len(tables') >= 1
         /\ \A k \in 1..Len(tables') : tables'[k] \in Table /\ HasSelf(tables'[k]) /\ Founded(k)'
<1>1. tables' \in Seq(Table) /\ Len(tables') \in Nat /\ DOMAIN tables' = 1..Len(tables') /\ Len(tables') >= 1
  <2>1. tables' \in Seq(Table) /\ tables' # <<>> BY DEF Basic, TypeOK
  <2> QED BY <2>1
<1>2. \A k \in 1..Len(tables') : Founded(k)' /\ tables'[k] \in Table BY <1>1 DEF Basic
<1> QED BY <1>1, <1>2 DEF Founded

(* A table that a handler leaves alone *)
LEMMA FormedKept ==
  ASSUME Shaped, Basic', NEW k \in 1..Len(tables), k <= Len(tables'), Alike(tables[k], tables'[k]),
         k # 1 => Alike(tables[k - 1], tables'[k - 1]), Awaits(k, "LOCAL")' <=> Awaits(k, "LOCAL")
  PROVE  Formed(k)'
<1>1. Formed(k) /\ tables[k] \in Table /\ HasSelf(tables[k]) /\ k \in Nat /\ k >= 1
  <2>1. k \in 1..Len(tables) /\ Len(tables) \in Nat BY TablesOf DEF Shaped
  <2>2. k \in Nat /\ k >= 1 BY <2>1
  <2> QED BY <2>2, TablesOf DEF Shaped
<1>2. tables'[k] \in Table
  <2>1. Len(tables') \in Nat BY TablesNext
  <2>2. k \in 1..Len(tables') BY <1>1, <2>1
  <2> QED BY <2>2, TablesNext
<1>3. SameSymbols(tables[k], tables'[k]) /\ SameHead(tables[k], tables'[k]) BY <1>1, <1>2, AlikeIsSame
<1>4. Placed(tables'[k]) BY <1>1, <1>2, <1>3, SamePlaced DEF Formed
<1>5. /\ Flat(tables'[k]) = Flat(tables[k]) /\ Top(tables'[k]) = Top(tables[k]) /\ Locals(tables'[k]) = Locals(tables[k])
      /\ tables'[k].slots = tables[k].slots
  BY <1>3, SameFlat DEF Alike
<1>6. \A n : InFrame(tables[k], n) => InFrame(tables'[k], n) BY <1>5 DEF InFrame
<1>7. ASSUME k # 1 PROVE Joined(tables'[k], tables'[k - 1])
  <2>1. k - 1 \in 1..Len(tables) /\ k - 1 \in 1..Len(tables')
    <3>1. Len(tables) \in Nat /\ Len(tables') \in Nat BY TablesOf, TablesNext DEF Shaped
    <3> QED BY <1>1, <1>7, <3>1
  <2>2. tables[k - 1] \in Table /\ HasSelf(tables[k - 1]) /\ tables'[k - 1] \in Table BY <2>1, TablesOf, TablesNext DEF Shaped
  <2>3. SameSymbols(tables[k - 1], tables'[k - 1]) BY <1>7, <2>2, AlikeIsSame
  <2>4. Joined(tables[k], tables[k - 1]) BY <1>1, <1>7 DEF Formed
  <2> QED BY <1>3, <2>3, <2>4, JoinedKept
<1>8. Awaits(k, "LOCAL")' => Locals(tables'[k]) >= 1 /\ InFrame(tables'[k], Locals(tables'[k]) - 1)
  BY <1>1, <1>5, <1>6 DEF Formed
<1>9. ~Awaits(k, "LOCAL")' => InFrame(tables'[k], Locals(tables'[k]))
  BY <1>1, <1>5, <1>6 DEF Formed
<1> QED BY <1>4, <1>7, <1>8, <1>9 DEF Formed

(* What a handler has to show: that the tables it changes are as they should. *)
LEMMA FormedChanged ==
  ASSUME Shaped, Basic', GlobalsPlaced', NEW m \in 1..Len(tables), m <= Len(tables'),
         \A k \in 1..(m - 1) : Alike(tables[k], tables'[k]), SameHead(tables[m], tables'[m]),
         Placed(tables'[m]),
         Awaits(m, "LOCAL")' => Locals(tables'[m]) >= 1 /\ InFrame(tables'[m], Locals(tables'[m]) - 1),
         ~Awaits(m, "LOCAL")' => InFrame(tables'[m], Locals(tables'[m])),
         \A k \in (m + 1)..Len(tables') : Formed(k)'
  PROVE  Shaped'
<1>1. Len(tables) \in Nat /\ Len(tables') \in Nat /\ DOMAIN tables' = 1..Len(tables') BY TablesOf, TablesNext DEF Shaped
<1>2. ASSUME NEW k \in 1..Len(tables') PROVE Formed(k)'
  <2>1. CASE k > m BY <1>1, <2>1
  <2>2. CASE k = m
    <3>1. ASSUME m # 1 PROVE Joined(tables'[m], tables'[m - 1])
      <4>1. m - 1 \in 1..(m - 1) /\ m - 1 \in 1..Len(tables) /\ m - 1 \in 1..Len(tables') BY <1>1, <3>1
      <4>2. tables[m - 1] \in Table /\ HasSelf(tables[m - 1]) /\ tables'[m - 1] \in Table BY <4>1, TablesOf, TablesNext DEF Shaped
      <4>3. SameSymbols(tables[m - 1], tables'[m - 1]) BY <4>1, <4>2, AlikeIsSame
      <4>4. Joined(tables[m], tables[m - 1])
        <5>1. Formed(m) BY TablesOf DEF Shaped
        <5> QED BY <3>1, <5>1 DEF Formed
      <4> QED BY <4>3, <4>4, JoinedKept
    <3> QED BY <2>2, <3>1 DEF Formed
  <2>3. CASE k < m
    <3>1. k \in 1..Len(tables) /\ k \in 1..(m - 1) /\ k < Len(tables) /\ k < Len(tables') /\ k <= Len(tables') BY <1>1, <2>3
    <3>2. k # 1 => k - 1 \in 1..(m - 1) BY <1>1, <2>3
    <3>3. tables'[k + 1].kind = tables[k + 1].kind /\ tables'[k + 1].into = tables[k + 1].into
      <4>1. CASE k + 1 = m BY <4>1 DEF SameHead
      <4>2. CASE k + 1 # m
        <5>1. k + 1 \in 1..(m - 1) BY <1>1, <2>3, <4>2
        <5> QED BY <5>1 DEF Alike
      <4> QED BY <4>1, <4>2
    <3>4. Awaits(k, "LOCAL")' <=> Awaits(k, "LOCAL") BY <3>1, <3>3 DEF Awaits
    <3> QED BY <3>1, <3>2, <3>4, FormedKept
  <2> QED BY <1>1, <2>1, <2>2, <2>3
<1> QED BY <1>1, <1>2 DEF Shaped

(* Global variables stay where they are. *)
LEMMA GlobalsKept ==
  ASSUME Shaped, Basic', globals' = globals, NEW m \in 1..Len(tables), m <= Len(tables'),
         \A k \in 1..(m - 1) : Alike(tables[k], tables'[k]), SameHead(tables[m], tables'[m]),
         m = 1 => /\ Top(tables'[1]) = Top(tables[1])
                  /\ \A p \in 1..Top(tables[1]) : Flat(tables'[1])[p] = Flat(tables[1])[p]
                  /\ ~Awaits(1, "GLOBAL")
  PROVE  GlobalsPlaced'
<1>1. Len(tables) \in Nat /\ Len(tables') \in Nat /\ m \in Nat BY TablesOf, TablesNext DEF Shaped
<1>2. /\ Len(globals) = Top(tables[1])
      /\ \A i \in 1..Len(globals) : globals[i] = Flat(tables[1])[i].variable \/ (i = Len(globals) /\ Awaits(1, "GLOBAL"))
  BY DEF Shaped, GlobalsPlaced
<1>3. CASE m = 1
  <2>1. \A i \in 1..Len(globals) : globals'[i] = Flat(tables'[1])[i].variable BY <1>2, <1>3
  <2> QED BY <1>2, <1>3, <2>1 DEF GlobalsPlaced
<1>4. CASE m # 1
  <2>1. 1 \in 1..(m - 1) /\ 1 \in 1..Len(tables) /\ 1 \in 1..Len(tables') /\ 1 < Len(tables) /\ 1 < Len(tables') BY <1>1, <1>4
  <2>2. tables[1] \in Table /\ HasSelf(tables[1]) /\ tables'[1] \in Table BY <2>1, TablesOf, TablesNext DEF Shaped
  <2>3. SameSymbols(tables[1], tables'[1]) BY <2>1, <2>2, AlikeIsSame
  <2>4. Flat(tables'[1]) = Flat(tables[1]) /\ Top(tables'[1]) = Top(tables[1]) BY <2>3, SameFlat
  <2>5. tables'[1 + 1].kind = tables[1 + 1].kind /\ tables'[1 + 1].into = tables[1 + 1].into
    <3>1. CASE 1 + 1 = m BY <3>1 DEF SameHead
    <3>2. CASE 1 + 1 # m
      <4>1. 1 + 1 \in 1..(m - 1) BY <1>1, <1>4, <3>2
      <4> QED BY <4>1 DEF Alike
    <3> QED BY <3>1, <3>2
  <2>6. Awaits(1, "GLOBAL")' <=> Awaits(1, "GLOBAL") BY <2>1, <2>5 DEF Awaits
  <2> QED BY <1>2, <2>4, <2>6 DEF GlobalsPlaced
<1> QED BY <1>3, <1>4

(* The depth is 0 outside the blocks of the script, and nowhere else. *)
LEMMA AtTopIs ==
  ASSUME NEW t \in Table, HasSelf(t)
  PROVE  /\ AtTop(t) <=> t.depth = 0
         /\ AtTop(t) => Top(t) = Len(Flat(t)) /\ Locals(t) = 0
         /\ Top(t) \in Nat /\ Locals(t) \in Nat /\ Len(Flat(t)) \in Nat /\ Len(Flat(t)) = Top(t) + Locals(t) /\ t.depth \in Nat
<1>1. t.blocks # <<>> /\ Len(t.symbols) >= 1 BY SelfHasBlock
<1>2. /\ Len(t.blocks) \in Nat /\ Len(t.blocks) >= 1 /\ t.depth \in Nat
      /\ Top(t) \in Nat /\ Top(t) <= Len(Flat(t)) /\ Locals(t) \in Nat /\ Len(Flat(t)) \in Nat
      /\ Within(t, Len(t.blocks)) = Len(Flat(t)) /\ (t.kind = "main" => Within(t, 1) = Top(t))
  BY <1>1, FlatType
<1>3. t.symbols[1].scopeDepth \in Nat
  <2>1. 1 \in 1..Len(t.symbols) BY <1>1, TableFields
  <2> QED BY <2>1, SymbolFields
<1>4. AtTop(t) <=> t.depth = 0
  <2> DEFINE a == t.symbols[1].scopeDepth
             b == Len(t.blocks)
             d == t.depth
  <2>1. a \in Nat /\ b \in Nat /\ d \in Nat /\ a + b = d + 1 BY <1>2, <1>3 DEF HasSelf
  <2>2. t.kind = "main" => a = 0 BY DEF HasSelf
  <2>3. t.kind # "main" => b >= 2 /\ a >= 1 BY DEF HasSelf
  <2>4. AtTop(t) <=> t.kind = "main" /\ b = 1 BY DEF AtTop
  <2> HIDE DEF a, b, d
  <2>5. AtTop(t) <=> d = 0 BY <2>1, <2>2, <2>3, <2>4
  <2> QED BY <2>5 DEF d
<1>5. AtTop(t) => Top(t) = Len(Flat(t)) BY <1>2 DEF AtTop
<1>6. Locals(t) = Len(Flat(t)) - Top(t) BY DEF Locals
<1> QED BY <1>2, <1>4, <1>5, <1>6

(* What Shaped says of the table on top. *)
LEMMA ShapedTop ==
  ASSUME Shaped
  PROVE  /\ Here = tables[Len(tables)] /\ Here \in Table /\ HasSelf(Here) /\ Placed(Here) /\ InFrame(Here, Locals(Here))
         /\ Here.blocks # <<>> /\ Here.slots \in Seq(Nat) /\ Len(Here.slots) = Locals(Here) + 1 /\ Here.locals \in Nat
         /\ \A location : ~Awaits(Len(tables), location)
         /\ ~Spent => Here.locals = Locals(Here) + 1 /\ Whole(Here)
         /\ AtTop(Here) => Len(tables) = 1
         /\ Here.kind = "main" <=> Len(tables) = 1
<1>1. /\ Here = tables[Len(tables)] /\ Here \in Table /\ HasSelf(Here) /\ Len(tables) \in Nat /\ Len(tables) >= 1
      /\ (Here.kind = "main" <=> Len(tables) = 1) /\ Here.blocks # <<>> /\ Here.slots \in Seq(Nat) /\ DOMAIN tables = 1..Len(tables)
  BY OnTop DEF Shaped
<1>2. \A location : ~Awaits(Len(tables), location) BY <1>1 DEF Awaits
<1>3. Formed(Len(tables)) BY <1>1 DEF Shaped
<1>4. Placed(Here) /\ InFrame(Here, Locals(Here)) BY <1>1, <1>2, <1>3 DEF Formed
<1>5. Len(Here.slots) = Locals(Here) + 1 BY <1>4 DEF InFrame
<1>6. ~Spent => Here.locals = Locals(Here) + 1 /\ Whole(Here) BY <1>4, <1>5 DEF Spent, Placed
<1>7. Here.locals \in Nat BY <1>1, TableFields
<1> QED BY <1>1, <1>2, <1>4, <1>5, <1>6, <1>7 DEF AtTop

(* A declaration *)
LEMMA DefinedFormed ==
  ASSUME NEW t \in Table, HasSelf(t), Placed(t), NEW s \in Symbol, NEW v \in Nat, s.name # None, s.scopeDepth = t.depth,
         AtTop(t) => s.location = "GLOBAL" /\ s.index = Top(t),
         ~AtTop(t) => s.location = "LOCAL" /\ s.index = Locals(t) + 1
  PROVE  LET u == WithSymbol(t, s, v) IN
         /\ u \in Table /\ Placed(u) /\ SameHead(t, u) /\ u.slots = t.slots /\ u.depth = t.depth
         /\ AtTop(u) <=> AtTop(t)
         /\ AtTop(t) => Top(u) = Top(t) + 1 /\ Locals(u) = Locals(t)
         /\ ~AtTop(t) => Top(u) = Top(t) /\ Locals(u) = Locals(t) + 1
         /\ Flat(u) # <<>> /\ Len(Flat(u)) = Len(Flat(t)) + 1
         /\ Flat(u)[Len(Flat(u))] = [name |-> s.name, params |-> s.params, variable |-> v]
         /\ \A p \in 1..Len(Flat(t)) : Flat(u)[p] = Flat(t)[p]
<1> DEFINE u == WithSymbol(t, s, v)
           d == [name |-> s.name, params |-> s.params, variable |-> v]
<1>1. t.blocks # <<>> /\ Len(t.symbols) >= 1 BY SelfHasBlock
<1>2. /\ u \in Table /\ u.symbols = Append(t.symbols, s) /\ u.depth = t.depth /\ u.kind = t.kind /\ u.into = t.into
      /\ u.slots = t.slots /\ d \in Declaration
      /\ u.blocks = Append(Front(t.blocks), Append(Last(t.blocks), d))
  BY <1>1, WithSymbolTable
<1>3. Placed(u) BY <1>1, DefinedPlaced DEF AtTop
<1> HIDE DEF u, d
<1>4. SameHead(t, u)
  <2>1. u.symbols[1] = t.symbols[1]
    <3>1. t.symbols \in Seq(Symbol) /\ 1 \in 1..Len(t.symbols) BY <1>1, TableFields
    <3> QED BY <1>2, <3>1, Appended
  <2> QED BY <1>2, <2>1 DEF SameHead
<1>5. /\ Len(u.blocks) = Len(t.blocks) /\ u.blocks # <<>>
      /\ Len(Flat(u)) = Len(Flat(t)) + 1 /\ Flat(u)[Len(Flat(t)) + 1] = d
      /\ \A p \in 1..Len(Flat(t)) : Flat(u)[p] = Flat(t)[p]
      /\ AtTop(t) => Top(t) = Len(Flat(t)) /\ Top(u) = Len(Flat(t)) + 1
      /\ ~AtTop(t) => Top(u) = Top(t)
  BY <1>1, <1>2, FlatDeclared DEF AtTop
<1>6. Len(Flat(t)) \in Nat /\ Top(t) \in Nat BY AtTopIs
<1>7. Flat(u) # <<>>
  <2>1. Len(Flat(u)) # 0 BY <1>5, <1>6
  <2> QED BY <2>1
<1>8. Locals(u) = Len(Flat(u)) - Top(u) /\ Locals(t) = Len(Flat(t)) - Top(t) BY DEF Locals
<1>9. AtTop(t) => Top(u) = Top(t) + 1 /\ Locals(u) = Locals(t) BY <1>5, <1>6, <1>8
<1>10. ~AtTop(t) => Top(u) = Top(t) /\ Locals(u) = Locals(t) + 1 BY <1>5, <1>6, <1>8
<1>11. AtTop(u) <=> AtTop(t) BY <1>2, <1>5 DEF AtTop
<1> QED BY <1>2, <1>3, <1>4, <1>5, <1>7, <1>9, <1>10, <1>11 DEF u, d

(* The slots that were there stay. *)
LEMMA InFrameKept ==
  ASSUME NEW t, NEW u, NEW n \in Nat, InFrame(t, n), u.slots = t.slots,
         Top(u) = Top(t), Top(t) \in Nat, Top(t) + n <= Len(Flat(t)), Len(Flat(t)) \in Nat,
         \A p \in 1..Len(Flat(t)) : Flat(u)[p] = Flat(t)[p]
  PROVE  InFrame(u, n)
<1>1. ASSUME NEW i \in 1..n PROVE Flat(u)[Top(t) + i] = Flat(t)[Top(t) + i]
  <2>1. Top(t) + i \in 1..Len(Flat(t)) OBVIOUS
  <2> QED BY <2>1
<1> QED BY <1>1 DEF InFrame

(* A value on top of the stack is that of the last local. *)
LEMMA InFrameNext ==
  ASSUME NEW t, NEW u, NEW n \in Nat, InFrame(t, n), t.slots \in Seq(Nat), NEW v \in Nat, u.slots = Append(t.slots, v),
         Top(u) = Top(t), Flat(u) = Flat(t), Flat(t)[Top(t) + (n + 1)].variable = v
  PROVE  InFrame(u, n + 1)
<1>1. Len(t.slots) = n + 1 BY DEF InFrame
<1>2. Len(u.slots) = (n + 1) + 1 /\ u.slots[(n + 1) + 1] = v /\ \A i \in 1..(n + 1) : u.slots[i] = t.slots[i]
  BY <1>1, Appended
<1>3. ASSUME NEW i \in 1..(n + 1) PROVE u.slots[i + 1] = Flat(u)[Top(u) + i].variable
  <2>1. CASE i = n + 1 BY <1>2, <2>1
  <2>2. CASE i # n + 1
    <3>1. i \in 1..n /\ i + 1 \in 1..(n + 1) BY <2>2
    <3> QED BY <1>2, <3>1 DEF InFrame
  <2> QED BY <2>1, <2>2
<1> QED BY <1>2, <1>3 DEF InFrame

-----------------------------------------------------------------------------
(* Handlers *)

(* A handler that changes the table on top keeps Shaped if it keeps that in   *)
(* place,                                                                     *)
LEMMA TopFormed ==
  ASSUME Shaped, Basic', GlobalsPlaced', NEW u \in Table, tables' = [tables EXCEPT ![Len(tables)] = u],
         SameHead(Here, u), Placed(u), InFrame(u, Locals(u))
  PROVE  Shaped'
<1>0. PICK m \in Nat : m = Len(tables) BY TablesOf DEF Shaped
<1>1. tables \in Seq(Table) /\ m >= 1 /\ Here = tables[m] BY <1>0, TablesOf, ShapedTop DEF Shaped
<1>2. Len(tables') = m /\ tables'[m] = u /\ \A k \in 1..(m - 1) : tables'[k] = tables[k] BY <1>0, <1>1
<1>3. \A k \in 1..(m - 1) : Alike(tables[k], tables'[k]) BY <1>2 DEF Alike
<1>4. ~Awaits(m, "LOCAL")'
  <2>1. ~(m < Len(tables')) BY <1>2
  <2> QED BY <2>1 DEF Awaits
<1>5. \A k \in (m + 1)..Len(tables') : FALSE BY <1>2
<1>6. m \in 1..Len(tables) /\ m <= Len(tables') BY <1>0, <1>1, <1>2
<1> QED BY <1>1, <1>2, <1>3, <1>4, <1>5, <1>6, FormedChanged

(* ... and the global variables if it declares none. *)
LEMMA TopGlobals ==
  ASSUME Shaped, Basic', NEW u \in Table, tables' = [tables EXCEPT ![Len(tables)] = u],
         SameHead(Here, u), globals' = globals, Top(u) = Top(Here), \A p \in 1..Top(Here) : Flat(u)[p] = Flat(Here)[p]
  PROVE  GlobalsPlaced'
<1>0. PICK m \in Nat : m = Len(tables) BY TablesOf DEF Shaped
<1>1. tables \in Seq(Table) /\ m >= 1 /\ Here = tables[m] /\ ~Awaits(m, "GLOBAL") BY <1>0, TablesOf, ShapedTop DEF Shaped
<1>2. Len(tables') = m /\ tables'[m] = u /\ \A k \in 1..(m - 1) : tables'[k] = tables[k] BY <1>0, <1>1
<1>3. \A k \in 1..(m - 1) : Alike(tables[k], tables'[k]) BY <1>2 DEF Alike
<1>4. m \in 1..Len(tables) /\ m <= Len(tables') BY <1>0, <1>1, <1>2
<1> QED BY <1>1, <1>2, <1>3, <1>4, GlobalsKept

(* The beginning of a block keeps Shaped, *)
LEMMA EnterScopeShaped ==
  ASSUME "siblings" \notin Uses, Shaped, EnterScope
  PROVE  Shaped'
<1> DEFINE t == Here
           u == [t EXCEPT !.depth = @ + 1, !.blocks = Append(@, <<>>)]
<1>0. Basic' BY EnterScopeBasic DEF Shaped
<1>1. /\ t \in Table /\ HasSelf(t) /\ Placed(t) /\ InFrame(t, Locals(t)) /\ t.blocks # <<>>
      /\ (~Spent => Whole(t))
  BY ShapedTop
<1>2. tables' = [tables EXCEPT ![Len(tables)] = u] /\ globals' = globals /\ ~Spent BY DEF EnterScope
<1> HIDE DEF t
<1>3. /\ u \in Table /\ u.depth = t.depth + 1 /\ u.blocks = Append(t.blocks, <<>>) /\ u.symbols = t.symbols /\ u.locals = t.locals
      /\ u.kind = t.kind /\ u.into = t.into /\ u.slots = t.slots
  BY <1>1, EnteredTable
<1> HIDE DEF u
<1>4. Placed(u) /\ Flat(u) = Flat(t) /\ Top(u) = Top(t) /\ Locals(u) = Locals(t) BY <1>1, <1>2, <1>3, EnteredPlaced
<1>5. InFrame(u, Locals(u)) BY <1>1, <1>3, <1>4 DEF InFrame
<1>6. SameHead(Here, u) BY <1>3 DEF SameHead, t
<1>7. GlobalsPlaced' BY <1>0, <1>2, <1>3, <1>4, <1>6, TopGlobals DEF t
<1> QED BY <1>0, <1>2, <1>3, <1>4, <1>5, <1>6, <1>7, TopFormed

(* ... and so does its end: it pops the slots of the last block, *)
LEMMA ExitScopeShaped ==
  ASSUME Shaped, ExitScope
  PROVE  Shaped'
<1> DEFINE t == Here
           u == Exited(t)
           l == Len(Last(t.blocks))
<1>0. Basic' BY ExitScopeBasic DEF Shaped
<1>1. /\ t \in Table /\ HasSelf(t) /\ Placed(t) /\ InFrame(t, Locals(t)) /\ t.blocks # <<>> /\ Cardinality(LocalsOf(t)) = Len(t.slots)
      /\ t.slots \in Seq(Nat) /\ Len(t.slots) = Locals(t) + 1
  BY ShapedTop, OnTop DEF Shaped
<1>2. tables' = [tables EXCEPT ![Len(tables)] = u] /\ globals' = globals BY DEF ExitScope, Exited, Gone
<1>3. Len(t.blocks) > (IF t.kind = "main" THEN 1 ELSE 2) BY DEF ExitScope, InBlock
<1> HIDE DEF t, l
<1>4. /\ Cardinality(Gone(t)) \in Nat /\ Cardinality(Gone(t)) < Len(t.slots) /\ t.depth >= 1 /\ 1 \notin Gone(t)
      /\ HasSelf(u)
  BY <1>1, <1>3, ExitedSelf
<1>5. /\ u \in Table /\ u.depth = t.depth - 1 /\ u.blocks = Front(t.blocks)
      /\ u.kind = t.kind /\ u.into = t.into /\ u.locals = t.locals
      /\ Len(u.symbols) = Len(t.symbols)
      /\ \A i \in 1..Len(t.symbols) :
           /\ u.symbols[i].name = t.symbols[i].name /\ u.symbols[i].params = t.symbols[i].params
           /\ u.symbols[i].index = t.symbols[i].index /\ u.symbols[i].scopeDepth = t.symbols[i].scopeDepth
           /\ i \in Gone(t) => u.symbols[i].location = "GLOBAL"
           /\ i \notin Gone(t) => u.symbols[i].location = t.symbols[i].location
      /\ Len(u.slots) = Len(t.slots) - Cardinality(Gone(t))
      /\ \A i \in 1..Len(u.slots) : u.slots[i] = t.slots[i]
  <2>1. Cardinality(Gone(t)) <= Len(t.slots) BY <1>1, <1>4
  <2> QED BY <1>1, <1>4, <2>1, ExitedTable
<1> HIDE DEF u
<1>6. Len(t.blocks) > 1
  <2>1. Len(t.blocks) \in Nat BY <1>1, FlatType
  <2> QED BY <1>3, <2>1
<1>7. /\ Placed(u) /\ Cardinality(Gone(t)) = l /\ Top(u) = Top(t) /\ Locals(u) \in Nat
      /\ Locals(t) = Locals(u) + l /\ l \in Nat
      /\ \A p \in 1..Len(Flat(u)) : Flat(u)[p] = Flat(t)[p]
  BY <1>1, <1>4, <1>5, <1>6, ExitedPlaced DEF l
<1>8. Len(Flat(u)) = Top(u) + Locals(u) /\ Top(u) \in Nat /\ Len(Flat(u)) \in Nat BY <1>4, <1>5, AtTopIs
<1>9. Len(u.slots) = Locals(u) + 1 BY <1>1, <1>5, <1>7
<1>10. ASSUME NEW i \in 1..Locals(u) PROVE u.slots[i + 1] = Flat(u)[Top(u) + i].variable
  <2>1. i \in 1..Locals(t) /\ i + 1 \in 1..Len(u.slots) BY <1>7, <1>9
  <2>2. Top(u) + i \in 1..Len(Flat(u)) BY <1>7, <1>8
  <2>3. t.slots[i + 1] = Flat(t)[Top(t) + i].variable BY <1>1, <2>1 DEF InFrame
  <2> QED BY <1>5, <1>7, <2>1, <2>2, <2>3
<1>11. InFrame(u, Locals(u)) BY <1>9, <1>10 DEF InFrame
<1>12. SameHead(Here, u)
  <2>1. 1 \in 1..Len(t.symbols) BY <1>1, SelfHasBlock, TableFields
  <2>2. 1 \in 1..Len(u.slots) BY <1>7, <1>9
  <2> QED BY <1>5, <2>1, <2>2 DEF SameHead, t
<1>13. \A p \in 1..Top(t) : Flat(u)[p] = Flat(t)[p]
  <2>1. \A p \in 1..Top(t) : p \in 1..Len(Flat(u)) BY <1>7, <1>8
  <2> QED BY <1>7, <2>1
<1>14. GlobalsPlaced' BY <1>0, <1>2, <1>5, <1>7, <1>12, <1>13, TopGlobals DEF t
<1> QED BY <1>0, <1>2, <1>5, <1>7, <1>11, <1>12, <1>14, TopFormed

(* ... and the use of a name. *)
LEMMA IdentifierShaped ==
  ASSUME Shaped, NEW n, NEW c, Identifier(n, c)
  PROVE  Shaped'
<1>0. Basic' BY IdentifierBasic DEF Shaped
<1>1. PICK m \in Nat : m = Len(tables) BY TablesOf DEF Shaped
<1>2. tables \in Seq(Table) /\ m >= 1 /\ Here = tables[m] /\ Here \in Table /\ HasSelf(Here)
      /\ (\A location : ~Awaits(m, location)) /\ Placed(Here) /\ InFrame(Here, Locals(Here))
  BY <1>1, TablesOf, ShapedTop DEF Shaped
<1>3. Home(n, c) # 0 /\ tables' = Resolved(n, c) /\ globals' = globals BY DEF Identifier
<1>4. tables' \in Seq(Table) /\ Len(tables') = m /\ \A k \in 1..m : Alike(tables[k], tables'[k])
  BY <1>1, <1>2, <1>3, ResolvedTables
<1>5. tables'[m] \in Table BY <1>2, <1>4
<1>6. SameSymbols(Here, tables'[m]) /\ SameHead(Here, tables'[m]) /\ tables'[m].slots = Here.slots
  <2>1. Alike(Here, tables'[m]) BY <1>2, <1>4
  <2> QED BY <1>2, <1>5, <2>1, AlikeIsSame DEF Alike
<1>7. Placed(tables'[m]) BY <1>2, <1>5, <1>6, SamePlaced
<1>8. Flat(tables'[m]) = Flat(Here) /\ Top(tables'[m]) = Top(Here) /\ Locals(tables'[m]) = Locals(Here) BY <1>6, SameFlat
<1>9. InFrame(tables'[m], Locals(tables'[m])) BY <1>2, <1>6, <1>8 DEF InFrame
<1>10. m \in 1..Len(tables) /\ m <= Len(tables') /\ \A k \in 1..(m - 1) : Alike(tables[k], tables'[k])
  <2>1. \A k \in 1..(m - 1) : k \in 1..m OBVIOUS
  <2> QED BY <1>1, <1>2, <1>4, <2>1
<1>11. SameHead(tables[m], tables'[m]) BY <1>2, <1>6
<1>12. GlobalsPlaced' BY <1>0, <1>2, <1>3, <1>8, <1>10, <1>11, GlobalsKept
<1>13. ~Awaits(m, "LOCAL")'
  <2>1. ~(m < Len(tables')) BY <1>4
  <2> QED BY <2>1 DEF Awaits
<1>14. \A k \in (m + 1)..Len(tables') : FALSE BY <1>4
<1> QED BY <1>0, <1>7, <1>9, <1>10, <1>11, <1>12, <1>13, <1>14, FormedChanged

(* The index that Define gives is the number of variables, of the script or   *)
(* of the frame.                                                              *)
LEMMA DefinedHere ==
  ASSUME "siblings" \notin Uses, Shaped, NEW n \in Names, NEW p \in ParamCounts \cup {None}, Declarable(n)
  PROVE  LET s == Defined(Here, n, p, Len(globals)) IN
         /\ s \in Symbol /\ s.name = n /\ n # None /\ s.params = p /\ s.scopeDepth = Here.depth
         /\ AtTop(Here) => s.location = "GLOBAL" /\ s.index = Top(Here) /\ s.index = Len(globals) /\ Here = tables[1]
         /\ ~AtTop(Here) => s.location = "LOCAL" /\ s.index = Locals(Here) + 1
<1> DEFINE t == Here
           c == Len(globals)
           s == Defined(t, n, p, c)
<1>1. /\ t \in Table /\ HasSelf(t) /\ t = tables[Len(tables)] /\ (~Spent => t.locals = Locals(t) + 1) /\ (AtTop(t) => Len(tables) = 1)
      /\ c \in Nat
  BY ShapedTop, OnTop DEF Shaped
<1>2. AtTop(t) <=> t.depth = 0 BY <1>1, AtTopIs
<1>3. t.depth # 0 => ~Spent BY DEF Declarable
<1>4. AtTop(t) => c = Top(t) /\ t = tables[1] BY <1>1 DEF Shaped, GlobalsPlaced
<1> HIDE DEF t, c, s
<1>5. /\ s \in Symbol /\ s.name = n /\ n # None /\ s.params = p /\ s.scopeDepth = t.depth
      /\ t.depth = 0 => s.location = "GLOBAL" /\ s.index = c
      /\ t.depth # 0 => s.location = "LOCAL" /\ s.index = t.locals
  BY <1>1, DefinedIs DEF s
<1> QED BY <1>1, <1>2, <1>3, <1>4, <1>5 DEF s, t, c

(* A value changes no symbol. *)
LEMMA StoredSame ==
  ASSUME NEW t \in Table, HasSelf(t), NEW s \in Symbol, NEW v \in Nat
  PROVE  SameSymbols(t, Stored(t, s, v)) /\ SameHead(t, Stored(t, s, v))
<1> DEFINE u == Stored(t, s, v)
<1>1. /\ u \in Table
      /\ u.symbols = t.symbols /\ u.locals = t.locals /\ u.depth = t.depth
      /\ u.kind = t.kind /\ u.into = t.into /\ u.blocks = t.blocks
      /\ s.location = "GLOBAL" => u.slots = t.slots
      /\ s.location = "LOCAL" => u.slots = Append(t.slots, v)
  BY StoredTable
<1>2. s.location \in {"GLOBAL", "LOCAL"} BY DEF Symbol
<1>3. t.slots \in Seq(Nat) /\ 1 \in 1..Len(t.slots)
  <2>1. t.slots \in Seq(Nat) /\ Len(t.slots) >= 1 BY TableFields, SelfHasBlock
  <2> QED BY <2>1
<1> HIDE DEF u
<1>4. u.slots[1] = t.slots[1]
  <2>1. s.location = "LOCAL" => u.slots[1] = t.slots[1] BY <1>1, <1>3, Appended
  <2> QED BY <1>1, <1>2, <2>1
<1>5. SameSymbols(t, u) BY <1>1 DEF SameSymbols
<1>6. SameHead(t, u) BY <1>1, <1>4 DEF SameHead
<1> QED BY <1>5, <1>6 DEF u

(* The variable of a declaration gets its value. *)
LEMMA StoredFormed ==
  ASSUME NEW t \in Table, HasSelf(t), Placed(t), NEW s \in Symbol, NEW v \in Nat,
         ~AtTop(t) => s.location = "LOCAL" /\ Locals(t) >= 1 /\ InFrame(t, Locals(t) - 1) /\ Flat(t)[Len(Flat(t))].variable = v,
         AtTop(t) => s.location = "GLOBAL" /\ InFrame(t, Locals(t))
  PROVE  LET u == Stored(t, s, v) IN
         /\ u \in Table /\ Placed(u) /\ InFrame(u, Locals(u)) /\ SameSymbols(t, u) /\ SameHead(t, u)
<1> DEFINE u == Stored(t, s, v)
<1>1. u \in Table /\ (s.location = "GLOBAL" => u.slots = t.slots) /\ (s.location = "LOCAL" => u.slots = Append(t.slots, v))
  BY StoredTable
<1>2. SameSymbols(t, u) /\ SameHead(t, u) BY StoredSame
<1> HIDE DEF u
<1>3. Placed(u) BY <1>1, <1>2, SamePlaced
<1>4. Flat(u) = Flat(t) /\ Top(u) = Top(t) /\ Locals(u) = Locals(t) BY <1>2, SameFlat
<1>5. t.slots \in Seq(Nat) BY TableFields
<1>6. CASE AtTop(t)
  <2>1. InFrame(u, Locals(u)) BY <1>1, <1>4, <1>6 DEF InFrame
  <2> QED BY <1>1, <1>2, <1>3, <2>1 DEF u
<1>7. CASE ~AtTop(t)
  <2>1. Locals(t) \in Nat /\ Top(t) \in Nat /\ Len(Flat(t)) = Top(t) + Locals(t) BY AtTopIs
  <2>2. PICK n \in Nat : n = Locals(t) - 1 BY <1>7, <2>1
  <2>3. n + 1 = Locals(t) BY <2>1, <2>2
  <2>4. Flat(t)[Top(t) + (n + 1)].variable = v BY <1>7, <2>1, <2>3
  <2>5. InFrame(t, n) BY <1>7, <2>2
  <2>6. u.slots = Append(t.slots, v) BY <1>1, <1>7
  <2>7. InFrame(u, n + 1) BY <1>4, <1>5, <2>4, <2>5, <2>6, InFrameNext
  <2>8. InFrame(u, Locals(u)) BY <1>4, <2>3, <2>7
  <2> QED BY <1>1, <1>2, <1>3, <2>8 DEF u
<1> QED BY <1>6, <1>7

(* A variable is declared, and its value is on the stack or in the globals. *)
LEMMA DeclaredFormed ==
  ASSUME NEW t \in Table, HasSelf(t), Placed(t), InFrame(t, Locals(t)),
         NEW s \in Symbol, NEW v \in Nat, s.name # None, s.scopeDepth = t.depth,
         AtTop(t) => s.location = "GLOBAL" /\ s.index = Top(t),
         ~AtTop(t) => s.location = "LOCAL" /\ s.index = Locals(t) + 1
  PROVE  LET u == Stored(WithSymbol(t, s, v), s, v) IN
         /\ u \in Table /\ Placed(u) /\ InFrame(u, Locals(u)) /\ SameHead(t, u)
         /\ AtTop(t) => Top(u) = Top(t) + 1 /\ Flat(u)[Top(t) + 1].variable = v
         /\ ~AtTop(t) => Top(u) = Top(t)
         /\ \A p \in 1..Top(t) : Flat(u)[p] = Flat(t)[p]
<1> DEFINE x == WithSymbol(t, s, v)
           u == Stored(x, s, v)
<1>1. /\ x \in Table /\ Placed(x) /\ SameHead(t, x) /\ x.slots = t.slots
      /\ AtTop(x) <=> AtTop(t)
      /\ AtTop(t) => Top(x) = Top(t) + 1 /\ Locals(x) = Locals(t)
      /\ ~AtTop(t) => Top(x) = Top(t) /\ Locals(x) = Locals(t) + 1
      /\ Flat(x) # <<>> /\ Len(Flat(x)) = Len(Flat(t)) + 1
      /\ Flat(x)[Len(Flat(x))] = [name |-> s.name, params |-> s.params, variable |-> v]
      /\ \A p \in 1..Len(Flat(t)) : Flat(x)[p] = Flat(t)[p]
  BY DefinedFormed
<1>2. HasSelf(x) BY WithSymbolSelf
<1>3. /\ Locals(t) \in Nat /\ Top(t) \in Nat /\ Len(Flat(t)) \in Nat /\ Len(Flat(t)) = Top(t) + Locals(t)
      /\ (AtTop(t) => Locals(t) = 0)
  BY AtTopIs
<1> HIDE DEF x
<1>4. ~AtTop(x) => Locals(x) >= 1 /\ InFrame(x, Locals(x) - 1) /\ Flat(x)[Len(Flat(x))].variable = v
  <2> SUFFICES ASSUME ~AtTop(x) PROVE Locals(x) >= 1 /\ InFrame(x, Locals(x) - 1) /\ Flat(x)[Len(Flat(x))].variable = v OBVIOUS
  <2>1. Locals(x) - 1 = Locals(t) /\ Locals(x) >= 1 /\ Top(x) = Top(t) BY <1>1, <1>3
  <2>2. Top(t) + Locals(t) <= Len(Flat(t)) BY <1>3
  <2>3. InFrame(x, Locals(t)) BY <1>1, <1>3, <2>1, <2>2, InFrameKept
  <2> QED BY <1>1, <2>1, <2>3
<1>5. AtTop(x) => InFrame(x, Locals(x))
  <2> SUFFICES ASSUME AtTop(x) PROVE InFrame(x, 0) BY <1>1, <1>3
  <2>1. Len(x.slots) = 0 + 1 BY <1>1, <1>3 DEF InFrame
  <2> QED BY <2>1 DEF InFrame
<1>6. u \in Table /\ Placed(u) /\ InFrame(u, Locals(u)) /\ SameSymbols(x, u) /\ SameHead(x, u)
  BY <1>1, <1>2, <1>4, <1>5, StoredFormed
<1> HIDE DEF u
<1>7. Flat(u) = Flat(x) /\ Top(u) = Top(x) BY <1>6, SameFlat
<1>8. SameHead(t, u) BY <1>1, <1>6 DEF SameHead
<1>9. AtTop(t) => Top(u) = Top(t) + 1 /\ Flat(u)[Top(t) + 1].variable = v
  <2> SUFFICES ASSUME AtTop(t) PROVE Top(u) = Top(t) + 1 /\ Flat(u)[Top(t) + 1].variable = v OBVIOUS
  <2>1. Len(Flat(x)) = Top(t) + 1 BY <1>1, <1>3
  <2> QED BY <1>1, <1>7, <2>1
<1>10. ~AtTop(t) => Top(u) = Top(t) BY <1>1, <1>7
<1>11. \A p \in 1..Top(t) : Flat(u)[p] = Flat(t)[p]
  <2>1. \A p \in 1..Top(t) : p \in 1..Len(Flat(t)) BY <1>3
  <2> QED BY <1>1, <1>7, <2>1
<1> QED BY <1>6, <1>8, <1>9, <1>10, <1>11 DEF u, x

(* A global variable gets its value. *)
LEMMA GlobalStored ==
  ASSUME Shaped, Basic', NEW s \in Symbol, s.location = "GLOBAL", NEW v \in Nat, v <= declared', declared <= declared',
         globals' = GlobalsWith(s, v), s.index = Len(globals) \/ s.index + 1 = Len(globals),
         Top(tables'[1]) = s.index + 1, Flat(tables'[1])[s.index + 1].variable = v \/ Awaits(1, "GLOBAL")',
         \A p \in 1..Top(tables[1]) : Flat(tables'[1])[p].variable = Flat(tables[1])[p].variable,
         Awaits(1, "GLOBAL") => s.index + 1 = Len(globals)
  PROVE  GlobalsPlaced'
<1>1. s.index \in Nat BY DEF Symbol
<1>2. globals \in Seq(0..declared) /\ declared \in Nat /\ Len(globals) \in Nat /\ declared' \in Nat
  BY DEF Shaped, Basic, TypeOK
<1>3. s.index <= Len(globals) BY <1>1, <1>2
<1>4. s.index < Len(globals) \/ s.index = Len(globals) BY <1>1, <1>2
<1> DEFINE g == GlobalsWith(s, v)
<1>5. /\ s.index < Len(globals) => Len(g) = Len(globals)
      /\ s.index = Len(globals) => Len(g) = Len(globals) + 1
      /\ g[s.index + 1] = v
      /\ \A i \in 1..Len(globals) : i # s.index + 1 => g[i] = globals[i]
  BY <1>2, <1>3, GlobalsWithIs
<1> HIDE DEF g
<1>6. Len(g) = s.index + 1 BY <1>1, <1>2, <1>5
<1>7. /\ Len(globals) = Top(tables[1])
      /\ \A i \in 1..Len(globals) : globals[i] = Flat(tables[1])[i].variable \/ (i = Len(globals) /\ Awaits(1, "GLOBAL"))
  BY DEF Shaped, GlobalsPlaced
<1>8. ASSUME NEW i \in 1..Len(g) PROVE g[i] = Flat(tables'[1])[i].variable \/ (i = Len(g) /\ Awaits(1, "GLOBAL")')
  <2>1. CASE i = s.index + 1 BY <1>5, <1>6, <2>1
  <2>2. CASE i # s.index + 1
    <3>1. i \in 1..Len(globals) /\ ~(i = Len(globals) /\ s.index + 1 = Len(globals)) BY <1>1, <1>2, <1>6, <2>2
    <3>2. globals[i] = Flat(tables[1])[i].variable BY <1>7, <3>1
    <3> QED BY <1>5, <1>7, <2>2, <3>1, <3>2
  <2> QED BY <2>1, <2>2
<1> QED BY <1>6, <1>8 DEF GlobalsPlaced, g

(* A variable keeps Shaped. *)
LEMMA DeclareShaped ==
  ASSUME "siblings" \notin Uses, Shaped, NEW n \in Names, Declare(n)
  PROVE  Shaped'
<1> DEFINE t == Here
           v == declared + 1
           s == Defined(t, n, None, Len(globals))
           u == Stored(WithSymbol(t, s, v), s, v)
<1>0. Basic' BY DeclareBasic DEF Shaped
<1>1. /\ t \in Table /\ HasSelf(t) /\ Placed(t) /\ InFrame(t, Locals(t)) /\ t = tables[Len(tables)]
      /\ (AtTop(t) => Len(tables) = 1) /\ \A location : ~Awaits(Len(tables), location)
  BY ShapedTop
<1>2. tables' = [tables EXCEPT ![Len(tables)] = u] /\ globals' = GlobalsWith(s, v) /\ declared' = v /\ Declarable(n)
  BY DEF Declare
<1>3. v \in Nat /\ declared <= declared' /\ v <= declared'
  <2>1. declared \in Nat BY DEF Shaped, Basic, TypeOK
  <2> QED BY <1>2, <2>1
<1>4. /\ s \in Symbol /\ s.name # None /\ s.scopeDepth = t.depth
      /\ AtTop(t) => s.location = "GLOBAL" /\ s.index = Top(t) /\ s.index = Len(globals) /\ t = tables[1]
      /\ ~AtTop(t) => s.location = "LOCAL" /\ s.index = Locals(t) + 1
  <2>1. None \in ParamCounts \cup {None} OBVIOUS
  <2> QED BY <1>2, <2>1, DefinedHere
<1> HIDE DEF t, s, v
<1>5. /\ u \in Table /\ Placed(u) /\ InFrame(u, Locals(u)) /\ SameHead(t, u)
      /\ AtTop(t) => Top(u) = Top(t) + 1 /\ Flat(u)[Top(t) + 1].variable = v
      /\ ~AtTop(t) => Top(u) = Top(t)
      /\ \A p \in 1..Top(t) : Flat(u)[p] = Flat(t)[p]
  BY <1>1, <1>3, <1>4, DeclaredFormed
<1> HIDE DEF u
<1>6. CASE AtTop(t)
  <2>1. Len(tables) = 1 /\ tables'[1] = u
    <3>1. tables \in Seq(Table) /\ Len(tables) = 1 BY <1>1, <1>6, TablesOf DEF Shaped
    <3> QED BY <1>2, <3>1
  <2>2. ~Awaits(1, "GLOBAL") BY <1>1, <2>1
  <2>3. GlobalsPlaced' BY <1>0, <1>2, <1>3, <1>4, <1>5, <1>6, <2>1, <2>2, GlobalStored
  <2> QED BY <1>0, <1>2, <1>5, <2>3, TopFormed DEF t
<1>7. CASE ~AtTop(t)
  <2>1. globals' = globals BY <1>2, <1>4, <1>7 DEF GlobalsWith
  <2>2. GlobalsPlaced' BY <1>0, <1>2, <1>5, <1>7, <2>1, TopGlobals DEF t
  <2> QED BY <1>0, <1>2, <1>5, <2>2, TopFormed DEF t
<1> QED BY <1>6, <1>7

(* A handler that begins a function *)
LEMMA PushedTables ==
  ASSUME Basic, NEW u \in Table, NEW w \in Table, tables' = Append([tables EXCEPT ![Len(tables)] = u], w)
  PROVE  /\ tables' \in Seq(Table) /\ Len(tables') = Len(tables) + 1 /\ tables'[Len(tables)] = u /\ tables'[Len(tables) + 1] = w
         /\ \A k \in 1..(Len(tables) - 1) : Alike(tables[k], tables'[k])
<1>0. PICK m \in Nat : m = Len(tables) BY OnTop
<1>1. tables \in Seq(Table) /\ m >= 1 BY <1>0, OnTop
<1> DEFINE ts == [tables EXCEPT ![Len(tables)] = u]
<1>2. ts \in Seq(Table) /\ Len(ts) = m /\ ts[m] = u /\ \A k \in 1..(m - 1) : ts[k] = tables[k] BY <1>0, <1>1
<1>3. tables' = Append(ts, w) OBVIOUS
<1> HIDE DEF ts
<1>4. Append(ts, w) \in Seq(Table) /\ Len(Append(ts, w)) = m + 1 /\ Append(ts, w)[m + 1] = w
      /\ \A k \in 1..m : Append(ts, w)[k] = ts[k]
  BY <1>2, Appended
<1>5. m \in 1..m /\ \A k \in 1..(m - 1) : k \in 1..m BY <1>1
<1>6. \A k \in 1..(m - 1) : tables'[k] = tables[k] BY <1>2, <1>3, <1>4, <1>5
<1>7. \A k \in 1..(m - 1) : Alike(tables[k], tables'[k]) BY <1>6 DEF Alike
<1> QED BY <1>0, <1>2, <1>3, <1>4, <1>5, <1>7

(* It keeps Shaped if both tables are in place, *)
LEMMA PushedFormed ==
  ASSUME Shaped, Basic', GlobalsPlaced', NEW u \in Table, NEW w \in Table,
         tables' = Append([tables EXCEPT ![Len(tables)] = u], w),
         SameHead(Here, u), Placed(u), Placed(w), InFrame(w, Locals(w)), Joined(w, u),
         w.kind = "function" /\ w.into.location = "LOCAL" => Locals(u) >= 1 /\ InFrame(u, Locals(u) - 1),
         ~(w.kind = "function" /\ w.into.location = "LOCAL") => InFrame(u, Locals(u))
  PROVE  Shaped'
<1>0. PICK m \in Nat : m = Len(tables) BY TablesOf DEF Shaped
<1>1. m >= 1 /\ Here = tables[m] BY <1>0, TablesOf, ShapedTop DEF Shaped
<1>2. /\ tables' \in Seq(Table) /\ Len(tables') = m + 1 /\ tables'[m] = u /\ tables'[m + 1] = w
      /\ \A k \in 1..(m - 1) : Alike(tables[k], tables'[k])
  BY <1>0, PushedTables DEF Shaped
<1>3. Awaits(m, "LOCAL")' <=> (w.kind = "function" /\ w.into.location = "LOCAL")
  <2>1. m < Len(tables') BY <1>2
  <2> QED BY <1>2, <2>1 DEF Awaits
<1>4. ~Awaits(m + 1, "LOCAL")'
  <2>1. ~(m + 1 < Len(tables')) BY <1>2
  <2> QED BY <2>1 DEF Awaits
<1>5. Formed(m + 1)'
  <2>1. (m + 1) - 1 = m OBVIOUS
  <2>2. Joined(tables'[m + 1], tables'[(m + 1) - 1]) BY <1>2, <2>1
  <2> QED BY <1>2, <1>4, <2>2 DEF Formed
<1>6. \A k \in (m + 1)..Len(tables') : Formed(k)'
  <2>1. \A k \in (m + 1)..Len(tables') : k = m + 1 BY <1>2
  <2> QED BY <1>5, <2>1
<1>7. m \in 1..Len(tables) /\ m <= Len(tables') BY <1>0, <1>1, <1>2
<1> QED BY <1>1, <1>2, <1>3, <1>6, <1>7, FormedChanged

(* ... and the global variables if it declares none. *)
LEMMA PushedGlobals ==
  ASSUME Shaped, Basic', NEW u \in Table, NEW w \in Table, tables' = Append([tables EXCEPT ![Len(tables)] = u], w),
         SameHead(Here, u), globals' = globals, Top(u) = Top(Here), \A p \in 1..Top(Here) : Flat(u)[p] = Flat(Here)[p]
  PROVE  GlobalsPlaced'
<1>0. PICK m \in Nat : m = Len(tables) BY TablesOf DEF Shaped
<1>1. m >= 1 /\ Here = tables[m] /\ ~Awaits(m, "GLOBAL") BY <1>0, TablesOf, ShapedTop DEF Shaped
<1>2. /\ Len(tables') = m + 1 /\ tables'[m] = u
      /\ \A k \in 1..(m - 1) : Alike(tables[k], tables'[k])
  BY <1>0, PushedTables DEF Shaped
<1>3. m \in 1..Len(tables) /\ m <= Len(tables') BY <1>0, <1>1, <1>2
<1> QED BY <1>1, <1>2, <1>3, GlobalsKept

(* The table of a new function is as it should be. *)
LEMMA NewFormed ==
  ASSUME Shaped, NEW name \in Names \cup {None}, NEW params \in Parameters(name), NEW kind \in {"function", "lambda"},
         NEW into \in Symbol, NEW frame \in Frames
  PROVE  LET w == NewTable(name, params, declared + 1, kind, into, frame) IN
         /\ w \in Table /\ w.kind = kind /\ w.into = into /\ w.slots[1] = declared + 1 /\ w.symbols[1].name = name
         /\ Placed(w) /\ InFrame(w, Locals(w))
<1> DEFINE v == declared + 1
           n == Len(params)
           w == NewTable(name, params, v, kind, into, frame)
           d == Here.depth + 1
<1>1. Here \in Table /\ Here.depth \in Nat /\ declared \in Nat BY OnTop DEF Shaped
<1>2. params \in Seq(Names) /\ n \in Nat BY ParametersType
<1>3. frame \in Nat
  <2>1. MaxTables \in Nat /\ Len(tables) \in Nat BY ScopesAssumption, OnTop DEF Shaped
  <2> QED BY <2>1 DEF Frames
<1>4. v \in Nat /\ d \in Nat /\ kind # "main" BY <1>1
<1> HIDE DEF v, w, d
<1>5. NewShape(w, name, params, v, d, kind, into, frame) BY <1>1, <1>2, <1>3, <1>4, NewTableTable DEF w, d
<1>6. /\ Placed(w) /\ Top(w) = 0 /\ Locals(w) = n /\ Len(Flat(w)) = n
      /\ \A p \in 1..n : Flat(w)[p].variable = v + p
  BY <1>2, <1>4, <1>5, NewPlaced
<1>7. /\ w \in Table /\ w.kind = kind /\ w.into = into /\ Len(w.slots) = n + 1 /\ w.slots[1] = v
      /\ w.symbols[1] = Self(name, d)
      /\ \A i \in 1..n : w.slots[i + 1] = v + i
  BY <1>5 DEF NewShape
<1>8. w.symbols[1].name = name BY <1>7 DEF Self
<1>9. InFrame(w, n)
  <2>1. ASSUME NEW i \in 1..n PROVE w.slots[i + 1] = Flat(w)[Top(w) + i].variable
    <3>1. Top(w) + i = i BY <1>2, <1>6
    <3> QED BY <1>6, <1>7, <3>1
  <2> QED BY <1>7, <2>1 DEF InFrame
<1> QED BY <1>6, <1>7, <1>8, <1>9 DEF w, v

(* The beginning of a function keeps Shaped, *)
LEMMA BeginFunctionShaped ==
  ASSUME "siblings" \notin Uses, Shaped, NEW n \in Names, NEW params \in Parameters(n), BeginFunction(n, params)
  PROVE  Shaped'
<1> DEFINE t == Here
           v == declared + 1
           s == Defined(t, n, Len(params), Len(globals))
           x == WithSymbol(t, s, v)
<1>0. Basic' BY BeginFunctionBasic DEF Shaped
<1>1. /\ t \in Table /\ HasSelf(t) /\ Placed(t) /\ InFrame(t, Locals(t)) /\ t = tables[Len(tables)]
      /\ (AtTop(t) => Len(tables) = 1) /\ \A location : ~Awaits(Len(tables), location)
  BY ShapedTop
<1>2. PICK frame \in Frames :
        tables' = Append([tables EXCEPT ![Len(tables)] = x], NewTable(n, params, v, "function", s, frame))
  BY DEF BeginFunction
<1>3. globals' = GlobalsWith(s, Nothing) /\ declared' = v + Len(params) /\ Declarable(n) BY DEF BeginFunction
<1>4. Len(params) \in Nat /\ Len(params) \in ParamCounts \cup {None} BY ParametersType
<1>5. v \in Nat /\ declared <= declared' /\ Nothing \in Nat /\ Nothing <= declared'
  <2>1. declared \in Nat BY DEF Shaped, Basic, TypeOK
  <2> QED BY <1>3, <1>4, <2>1 DEF Nothing
<1>6. /\ s \in Symbol /\ s.name = n /\ s.name # None /\ s.scopeDepth = t.depth
      /\ AtTop(t) => s.location = "GLOBAL" /\ s.index = Top(t) /\ s.index = Len(globals) /\ t = tables[1]
      /\ ~AtTop(t) => s.location = "LOCAL" /\ s.index = Locals(t) + 1
  BY <1>3, <1>4, DefinedHere
<1> DEFINE w == NewTable(n, params, v, "function", s, frame)
<1> HIDE DEF s
<1>7. /\ w \in Table /\ w.kind = "function" /\ w.into = s /\ w.slots[1] = v /\ w.symbols[1].name = n
      /\ Placed(w) /\ InFrame(w, Locals(w))
  BY <1>6, NewFormed
<1> HIDE DEF t, v, x, w
<1>8. /\ x \in Table /\ Placed(x) /\ SameHead(t, x) /\ x.slots = t.slots
      /\ AtTop(x) <=> AtTop(t)
      /\ AtTop(t) => Top(x) = Top(t) + 1 /\ Locals(x) = Locals(t)
      /\ ~AtTop(t) => Top(x) = Top(t) /\ Locals(x) = Locals(t) + 1
      /\ Flat(x) # <<>> /\ Len(Flat(x)) = Len(Flat(t)) + 1
      /\ Flat(x)[Len(Flat(x))] = [name |-> s.name, params |-> s.params, variable |-> v]
      /\ \A p \in 1..Len(Flat(t)) : Flat(x)[p] = Flat(t)[p]
  BY <1>1, <1>5, <1>6, DefinedFormed DEF x
<1>9. /\ Locals(t) \in Nat /\ Top(t) \in Nat /\ Len(Flat(t)) \in Nat /\ Len(Flat(t)) = Top(t) + Locals(t)
      /\ (AtTop(t) => Locals(t) = 0)
  BY <1>1, AtTopIs
<1>10. Joined(w, x)
  <2>1. AtTop(x) => s.location = "GLOBAL" /\ s.index + 1 = Top(x) BY <1>6, <1>8, <1>9
  <2>2. ~AtTop(x) => s.location = "LOCAL" /\ s.index = Locals(x) BY <1>6, <1>8, <1>9
  <2>3. FunctionInto(w, x) BY <1>6, <1>7, <1>8, <2>1, <2>2 DEF FunctionInto
  <2> QED BY <1>7, <2>3 DEF Joined
<1>11. ASSUME ~AtTop(t) PROVE Locals(x) >= 1 /\ InFrame(x, Locals(x) - 1)
  <2>1. Locals(x) - 1 = Locals(t) /\ Locals(x) >= 1 /\ Top(x) = Top(t) BY <1>8, <1>9, <1>11
  <2>2. Top(t) + Locals(t) <= Len(Flat(t)) BY <1>9
  <2>3. InFrame(x, Locals(t)) BY <1>1, <1>8, <1>9, <2>1, <2>2, InFrameKept
  <2> QED BY <2>1, <2>3
<1>12. ASSUME AtTop(t) PROVE InFrame(x, Locals(x))
  <2>1. Locals(x) = 0 /\ Len(x.slots) = 0 + 1 BY <1>1, <1>8, <1>9, <1>12 DEF InFrame
  <2> QED BY <2>1 DEF InFrame
<1>13. /\ w.kind = "function" /\ w.into.location = "LOCAL" => Locals(x) >= 1 /\ InFrame(x, Locals(x) - 1)
       /\ ~(w.kind = "function" /\ w.into.location = "LOCAL") => InFrame(x, Locals(x))
  BY <1>6, <1>7, <1>11, <1>12
<1>14. tables' = Append([tables EXCEPT ![Len(tables)] = x], w) BY <1>2 DEF x, w
<1>15. GlobalsPlaced'
  <2>1. CASE AtTop(t)
    <3>1. Len(tables) = 1 /\ tables'[1] = x /\ Len(tables') = 1 + 1 /\ tables'[1 + 1] = w
      <4>1. Len(tables) = 1 BY <1>1, <2>1
      <4> QED BY <1>7, <1>8, <1>14, <4>1, PushedTables DEF Shaped
    <3>2. ~Awaits(1, "GLOBAL") BY <1>1, <3>1
    <3>3. Awaits(1, "GLOBAL")'
      <4>1. 1 < Len(tables') BY <3>1
      <4> QED BY <1>6, <1>7, <2>1, <3>1, <4>1 DEF Awaits
    <3>4. \A p \in 1..Top(tables[1]) : Flat(x)[p].variable = Flat(tables[1])[p].variable
      <4>1. \A p \in 1..Top(t) : p \in 1..Len(Flat(t)) BY <1>9
      <4> QED BY <1>6, <1>8, <2>1, <4>1
    <3> QED BY <1>0, <1>3, <1>5, <1>6, <1>8, <2>1, <3>1, <3>2, <3>3, <3>4, GlobalStored
  <2>2. CASE ~AtTop(t)
    <3>1. globals' = globals BY <1>3, <1>6, <2>2 DEF GlobalsWith
    <3>2. \A p \in 1..Top(t) : Flat(x)[p] = Flat(t)[p]
      <4>1. \A p \in 1..Top(t) : p \in 1..Len(Flat(t)) BY <1>9
      <4> QED BY <1>8, <4>1
    <3> QED BY <1>0, <1>7, <1>8, <1>14, <2>2, <3>1, <3>2, PushedGlobals DEF t
  <2> QED BY <2>1, <2>2
<1>16. SameHead(Here, x) BY <1>8 DEF t
<1> QED BY <1>0, <1>7, <1>8, <1>10, <1>13, <1>14, <1>15, <1>16, PushedFormed

(* ... and that of a lambda. *)
LEMMA BeginLambdaShaped ==
  ASSUME "siblings" \notin Uses, Shaped, NEW n \in Names \cup {None}, NEW params \in Parameters(None), BeginLambda(n, params)
  PROVE  Shaped'
<1> DEFINE t == Here
           v == declared + 1
           s == IF n = None THEN Self(None, 0) ELSE Defined(t, n, None, Len(globals))
<1>0. Basic' BY BeginLambdaBasic DEF Shaped
<1>1. /\ t \in Table /\ HasSelf(t) /\ Placed(t) /\ InFrame(t, Locals(t)) /\ t = tables[Len(tables)]
      /\ tables \in Seq(Table) /\ Len(tables) >= 1
  BY ShapedTop, TablesOf DEF Shaped
<1>2. PICK frame \in Frames : tables' = Append(tables, NewTable(None, params, v, "lambda", s, frame))
  BY DEF BeginLambda
<1>3. globals' = globals /\ (n # None => Declarable(n)) BY DEF BeginLambda
<1>4. /\ s \in Symbol
      /\ s.name # None =>
           /\ s.params = None /\ s.scopeDepth = t.depth
           /\ AtTop(t) => s.location = "GLOBAL" /\ s.index = Top(t)
           /\ ~AtTop(t) => s.location = "LOCAL" /\ s.index = Locals(t) + 1
  <2>1. CASE n = None
    <3>1. s = Self(None, 0) BY <2>1
    <3>2. Self(None, 0) \in Symbol BY SelfType
    <3>3. Self(None, 0).name = None BY DEF Self
    <3> HIDE DEF s
    <3> QED BY <3>1, <3>2, <3>3
  <2>2. CASE n # None
    <3>1. n \in Names /\ None \in ParamCounts \cup {None} /\ Declarable(n) BY <1>3, <2>2
    <3>2. LET r == Defined(Here, n, None, Len(globals)) IN
          /\ r \in Symbol /\ r.params = None /\ r.scopeDepth = Here.depth
          /\ AtTop(Here) => r.location = "GLOBAL" /\ r.index = Top(Here)
          /\ ~AtTop(Here) => r.location = "LOCAL" /\ r.index = Locals(Here) + 1
      BY <3>1, DefinedHere
    <3>3. s = Defined(Here, n, None, Len(globals)) BY <2>2
    <3> HIDE DEF s
    <3> QED BY <3>2, <3>3
  <2> QED BY <2>1, <2>2
<1> DEFINE w == NewTable(None, params, v, "lambda", s, frame)
<1> HIDE DEF s
<1>5. /\ w \in Table /\ w.kind = "lambda" /\ w.into = s /\ w.symbols[1].name = None
      /\ Placed(w) /\ InFrame(w, Locals(w))
  <2>1. None \in Names \cup {None} OBVIOUS
  <2> QED BY <1>4, <2>1, NewFormed
<1>6. tables = [tables EXCEPT ![Len(tables)] = t]
  <2> HIDE DEF t
  <2> QED BY <1>1
<1> HIDE DEF t, v, w
<1>7. tables' = Append([tables EXCEPT ![Len(tables)] = t], w) BY <1>2, <1>6 DEF w
<1>8. Joined(w, t)
  <2>1. LambdaInto(w, t) BY <1>4, <1>5 DEF LambdaInto
  <2> QED BY <1>5, <2>1 DEF Joined
<1>9. SameHead(Here, t) BY DEF SameHead, t
<1>10. GlobalsPlaced' BY <1>0, <1>1, <1>3, <1>5, <1>7, <1>9, PushedGlobals DEF t
<1>11. ~(w.kind = "function" /\ w.into.location = "LOCAL") BY <1>5
<1> QED BY <1>0, <1>1, <1>5, <1>7, <1>8, <1>9, <1>10, <1>11, PushedFormed

(* A handler that ends one *)
LEMMA PoppedTables ==
  ASSUME Basic, NEW m \in Nat, m >= 1, Len(tables) = m + 1, NEW u \in Table, tables' = [Front(tables) EXCEPT ![m] = u]
  PROVE  /\ Len(tables') = m /\ tables'[m] = u
         /\ \A k \in 1..(m - 1) : Alike(tables[k], tables'[k])
<1>1. tables \in Seq(Table) /\ tables # <<>> BY OnTop
<1> DEFINE f == Front(tables)
<1>2. f \in Seq(Table) /\ Len(f) = m /\ \A k \in 1..m : f[k] = tables[k]
  <2>1. Front(tables) \in Seq(Table) /\ Len(Front(tables)) = Len(tables) - 1
        /\ \A k \in 1..(Len(tables) - 1) : Front(tables)[k] = tables[k]
    BY <1>1, Fronted
  <2> QED BY <2>1
<1>3. tables' = [f EXCEPT ![m] = u] OBVIOUS
<1> HIDE DEF f
<1>4. Len(tables') = m /\ tables'[m] = u /\ \A k \in 1..(m - 1) : tables'[k] = f[k] BY <1>2, <1>3
<1>5. \A k \in 1..(m - 1) : k \in 1..m OBVIOUS
<1>6. \A k \in 1..(m - 1) : tables'[k] = tables[k] BY <1>2, <1>4, <1>5
<1> QED BY <1>4, <1>6 DEF Alike

(* It keeps Shaped if the table around is in place. *)
LEMMA PoppedFormed ==
  ASSUME Shaped, Basic', GlobalsPlaced', NEW m \in Nat, m >= 1, Len(tables) = m + 1, NEW u \in Table,
         tables' = [Front(tables) EXCEPT ![m] = u], SameHead(tables[m], u), Placed(u), InFrame(u, Locals(u))
  PROVE  Shaped'
<1>1. Len(tables') = m /\ tables'[m] = u /\ \A k \in 1..(m - 1) : Alike(tables[k], tables'[k])
  BY PoppedTables DEF Shaped
<1>2. ~Awaits(m, "LOCAL")'
  <2>1. ~(m < Len(tables')) BY <1>1
  <2> QED BY <2>1 DEF Awaits
<1>3. \A k \in (m + 1)..Len(tables') : FALSE BY <1>1
<1>4. m \in 1..Len(tables) /\ m <= Len(tables') BY <1>1
<1> QED BY <1>1, <1>2, <1>3, <1>4, FormedChanged

(* The end of a function keeps Shaped: its value lands in the slot that was   *)
(* counted for it.                                                            *)
LEMMA EndFunctionShaped ==
  ASSUME Shaped, EndFunction
  PROVE  Shaped'
<1>0. Basic' BY EndFunctionBasic DEF Shaped
<1>00. Basic BY DEF Shaped
<1>1. /\ Len(tables) \in Nat /\ Here = tables[Len(tables)] /\ Here \in Table /\ Here.slots \in Seq(Nat)
      /\ Len(Here.slots) >= 1 /\ (Here.kind = "main" <=> Len(tables) = 1) /\ Len(tables) >= 1
      /\ declared \in Nat /\ (\A i \in 1..Len(Here.slots) : Here.slots[i] <= declared) /\ Founded(Len(tables))
      /\ DOMAIN tables = 1..Len(tables) /\ tables \in Seq(Table)
  <2>1. declared \in 0..MaxDeclarations /\ MaxDeclarations \in Nat BY <1>00, OnTop
  <2>2. declared \in Nat BY <2>1
  <2>3. /\ Len(tables) \in Nat /\ Here = tables[Len(tables)] /\ Here \in Table /\ Here.slots \in Seq(Nat)
        /\ Len(Here.slots) >= 1 /\ (Here.kind = "main" <=> Len(tables) = 1) /\ Len(tables) >= 1
        /\ (\A i \in 1..Len(Here.slots) : Here.slots[i] <= declared) /\ Founded(Len(tables))
        /\ DOMAIN tables = 1..Len(tables) /\ tables \in Seq(Table)
    BY <1>00, OnTop
  <2> QED BY <2>2, <2>3
<1> DEFINE s == Here.into
           v == Here.slots[1]
<1>2. Here.kind # "main" /\ declared' = declared BY DEF EndFunction
<1>3. PICK m \in Nat : m = Len(tables) - 1
  <2>1. Len(tables) - 1 \in Nat BY <1>1
  <2> QED BY <2>1
<1>4. m >= 1 /\ Len(tables) = m + 1 /\ m \in 1..Len(tables) /\ m < Len(tables) /\ Here = tables[m + 1] BY <1>1, <1>2, <1>3
<1> DEFINE t == tables[m]
<1>5. t \in Table /\ Founded(m) /\ HasSelf(t) /\ Formed(m) BY <1>4, TablesOf DEF Shaped
<1>6. Joined(Here, t)
  <2>1. Formed(m + 1) /\ (m + 1) - 1 = m /\ m + 1 # 1
    <3>1. m + 1 \in DOMAIN tables BY <1>1, <1>4
    <3> QED BY <1>4, <3>1 DEF Shaped
  <2> QED BY <1>4, <2>1 DEF Formed
<1>7. \A location : Awaits(m, location) <=> (Here.kind = "function" /\ s.location = location)
  BY <1>4 DEF Awaits
<1>8. s \in Symbol /\ s.location \in {"LOCAL", "GLOBAL"} /\ Here.kind \in {"function", "lambda"}
      /\ (Here.kind = "function" => s.name # None)
  <2>1. s \in Symbol /\ s.location \in {"LOCAL", "GLOBAL"} BY <1>1, IntoFields
  <2>2. Here.kind \in {"function", "lambda"} BY <1>1, <1>2, TableFields
  <2> QED BY <1>1, <2>1, <2>2 DEF Founded
<1>9. v \in Nat /\ v <= declared BY <1>1
<1>10. Placed(t) /\ (Awaits(m, "LOCAL") => Locals(t) >= 1 /\ InFrame(t, Locals(t) - 1))
       /\ (~Awaits(m, "LOCAL") => InFrame(t, Locals(t)))
  BY <1>5 DEF Formed
<1>11. AtTop(t) => m = 1 BY <1>5 DEF AtTop, Founded
<1>12. /\ Locals(t) \in Nat /\ Top(t) \in Nat /\ Len(Flat(t)) \in Nat /\ Len(Flat(t)) = Top(t) + Locals(t)
       /\ (AtTop(t) => Top(t) = Len(Flat(t)))
  BY <1>5, AtTopIs
<1>13. m = 1 => Len(globals) = Top(t) BY DEF Shaped, GlobalsPlaced
<1>14. declared <= declared' /\ v <= declared' BY <1>1, <1>2, <1>9
<1> HIDE DEF s, v
<1>15. CASE s.name = None
  <2>1. tables' = Front(tables) /\ globals' = globals BY <1>15 DEF EndFunction, s
  <2>2. tables' = [Front(tables) EXCEPT ![m] = t] BY <1>1, <1>4, <2>1, FrontTables
  <2>3. ~Awaits(m, "LOCAL") /\ ~Awaits(m, "GLOBAL") BY <1>7, <1>8, <1>15
  <2>4. SameHead(tables[m], t) BY DEF SameHead
  <2> HIDE DEF t
  <2>5. Len(tables') = m /\ tables'[m] = t /\ \A k \in 1..(m - 1) : Alike(tables[k], tables'[k])
    BY <1>4, <1>5, <2>2, PoppedTables DEF Shaped
  <2>6. GlobalsPlaced'
    <3>1. m <= Len(tables') BY <2>5
    <3> QED BY <1>0, <1>4, <2>1, <2>3, <2>4, <2>5, <3>1, GlobalsKept DEF t
  <2> QED BY <1>0, <1>4, <1>5, <1>10, <2>2, <2>3, <2>4, <2>6, PoppedFormed
<1>16. CASE s.name # None
  <2> DEFINE u == Stored(IF Here.kind = "lambda" THEN WithSymbol(t, s, v) ELSE t, s, v)
  <2>1. tables' = [Front(tables) EXCEPT ![m] = u] /\ globals' = GlobalsWith(s, v) BY <1>3, <1>16 DEF EndFunction, s, v
  <2>2. /\ u \in Table /\ Placed(u) /\ InFrame(u, Locals(u)) /\ SameHead(t, u)
        /\ AtTop(t) => /\ s.location = "GLOBAL" /\ Top(u) = s.index + 1 /\ Flat(u)[s.index + 1].variable = v
                       /\ s.index = Top(t) \/ s.index + 1 = Top(t)
                       /\ Here.kind = "function" => s.index + 1 = Top(t)
        /\ ~AtTop(t) => s.location = "LOCAL" /\ Top(u) = Top(t)
        /\ \A p \in 1..Top(t) : Flat(u)[p] = Flat(t)[p]
    <3>1. CASE Here.kind = "function"
      <4>1. FunctionInto(Here, t) BY <1>6, <3>1 DEF Joined
      <4>2. /\ Flat(t)[Len(Flat(t))].variable = v
            /\ AtTop(t) => s.location = "GLOBAL" /\ s.index + 1 = Top(t)
            /\ ~AtTop(t) => s.location = "LOCAL"
        BY <4>1 DEF FunctionInto, s, v
      <4>3. u = Stored(t, s, v) BY <3>1
      <4> HIDE DEF t, u
      <4>4. ~AtTop(t) => s.location = "LOCAL" /\ Locals(t) >= 1 /\ InFrame(t, Locals(t) - 1) /\ Flat(t)[Len(Flat(t))].variable = v
        BY <1>7, <1>10, <3>1, <4>2
      <4>5. AtTop(t) => s.location = "GLOBAL" /\ InFrame(t, Locals(t)) BY <1>7, <1>10, <3>1, <4>2
      <4>6. u \in Table /\ Placed(u) /\ InFrame(u, Locals(u)) /\ SameSymbols(t, u) /\ SameHead(t, u)
        BY <1>5, <1>8, <1>9, <1>10, <4>3, <4>4, <4>5, StoredFormed
      <4>7. Flat(u) = Flat(t) /\ Top(u) = Top(t) BY <4>6, SameFlat
      <4> QED BY <1>12, <4>2, <4>6, <4>7
    <3>2. CASE Here.kind = "lambda"
      <4>1. LambdaInto(Here, t) BY <1>6, <3>2 DEF Joined
      <4>2. /\ s.scopeDepth = t.depth
            /\ AtTop(t) => s.location = "GLOBAL" /\ s.index = Top(t)
            /\ ~AtTop(t) => s.location = "LOCAL" /\ s.index = Locals(t) + 1
        BY <1>16, <4>1 DEF LambdaInto, s
      <4>3. u = Stored(WithSymbol(t, s, v), s, v) BY <3>2
      <4>4. InFrame(t, Locals(t)) BY <1>7, <1>10, <3>2
      <4> HIDE DEF t, u
      <4>5. /\ u \in Table /\ Placed(u) /\ InFrame(u, Locals(u)) /\ SameHead(t, u)
            /\ AtTop(t) => Top(u) = Top(t) + 1 /\ Flat(u)[Top(t) + 1].variable = v
            /\ ~AtTop(t) => Top(u) = Top(t)
            /\ \A p \in 1..Top(t) : Flat(u)[p] = Flat(t)[p]
        BY <1>5, <1>8, <1>9, <1>10, <1>16, <4>2, <4>3, <4>4, DeclaredFormed
      <4> QED BY <3>2, <4>2, <4>5
    <3> QED BY <1>8, <3>1, <3>2
  <2> HIDE DEF u
  <2>3. Len(tables') = m /\ tables'[m] = u /\ \A k \in 1..(m - 1) : Alike(tables[k], tables'[k])
    BY <1>4, <2>1, <2>2, PoppedTables DEF Shaped
  <2>4. m <= Len(tables') BY <2>3
  <2>5. GlobalsPlaced'
    <3>1. CASE AtTop(t)
      <4>1. m = 1 /\ tables'[1] = u /\ tables[1] = t /\ Len(globals) = Top(t) BY <1>11, <1>13, <2>3, <3>1
      <4>2. Awaits(1, "GLOBAL") => s.index + 1 = Len(globals) BY <1>7, <2>2, <3>1, <4>1
      <4>3. \A p \in 1..Top(tables[1]) : Flat(tables'[1])[p].variable = Flat(tables[1])[p].variable BY <2>2, <4>1
      <4> HIDE DEF t
      <4> QED BY <1>0, <1>8, <1>9, <1>14, <2>1, <2>2, <3>1, <4>1, <4>2, <4>3, GlobalStored
    <3>2. CASE ~AtTop(t)
      <4>1. globals' = globals BY <2>1, <2>2, <3>2 DEF GlobalsWith
      <4>2. ~Awaits(m, "GLOBAL") BY <1>7, <2>2, <3>2
      <4> QED BY <1>0, <1>4, <2>2, <2>3, <2>4, <3>2, <4>1, <4>2, GlobalsKept
    <3> QED BY <3>1, <3>2
  <2> QED BY <1>0, <1>4, <2>1, <2>2, <2>5, PoppedFormed
<1> QED BY <1>15, <1>16

(* Shaped holds at first. *)
LEMMA InitShaped == Init => Shaped
<1> SUFFICES ASSUME Init PROVE Shaped OBVIOUS
<1>1. Basic BY InitBasic
<1>2. tables = <<Start>> /\ globals = [i \in DOMAIN Libraries |-> i] BY DEF Init
<1>3. Len(tables) = 1 /\ DOMAIN tables = {1} /\ tables[1] = Start BY <1>2
<1>4. Libraries \in Seq(Names) /\ Len(Libraries) \in Nat /\ DOMAIN Libraries = 1..Len(Libraries) BY ScopesAssumption
<1>5. /\ Placed(Start) /\ Top(Start) = Len(Libraries) /\ Locals(Start) = 0
      /\ \A p \in 1..Len(Libraries) : Flat(Start)[p].variable = p
  BY StartPlaced
<1>6. Start.slots = <<Nothing>> BY StartTable
<1>7. \A location : ~Awaits(1, location) BY <1>3 DEF Awaits
<1>8. InFrame(Start, Locals(Start)) BY <1>5, <1>6 DEF InFrame
<1>9. Formed(1) BY <1>3, <1>5, <1>7, <1>8 DEF Formed
<1>10. GlobalsPlaced
  <2>1. Len(globals) = Len(Libraries) /\ \A i \in 1..Len(globals) : globals[i] = i BY <1>2, <1>4
  <2> QED BY <1>3, <1>5, <2>1 DEF GlobalsPlaced
<1> QED BY <1>1, <1>3, <1>9, <1>10 DEF Shaped

(* Every step keeps Shaped. *)
LEMMA NextShaped ==
  ASSUME "siblings" \notin Uses, Shaped, [Next]_vars
  PROVE  Shaped'
<1>1. ASSUME NEW n \in Names, Declare(n) PROVE Shaped' BY <1>1, DeclareShaped
<1>2. ASSUME NEW n \in Names, NEW params \in Parameters(n), BeginFunction(n, params) PROVE Shaped'
  BY <1>2, BeginFunctionShaped
<1>3. ASSUME NEW n \in Names \cup {None}, NEW params \in Parameters(None), BeginLambda(n, params) PROVE Shaped'
  BY <1>3, BeginLambdaShaped
<1>4. CASE EndFunction BY <1>4, EndFunctionShaped
<1>5. CASE EnterScope BY <1>5, EnterScopeShaped
<1>6. CASE ExitScope BY <1>6, ExitScopeShaped
<1>7. ASSUME NEW n \in Names, NEW c \in ParamCounts \cup {None}, Identifier(n, c) PROVE Shaped' BY <1>7, IdentifierShaped
<1>8. CASE Compile
  <2>1. Init' BY <1>8 DEF Compile, Init
  <2>2. Init' => Shaped' BY InitShaped, PTL
  <2> QED BY <2>1, <2>2
<1>9. CASE UNCHANGED vars
  <2>1. Basic' BY <1>9, NextBasic DEF Shaped
  <2>2. tables' = tables /\ globals' = globals BY <1>9 DEF vars
  <2> QED BY <2>1, <2>2 DEF Shaped, GlobalsPlaced, Formed, Awaits
<1> QED BY <1>1, <1>2, <1>3, <1>4, <1>5, <1>6, <1>7, <1>8, <1>9 DEF Next

-----------------------------------------------------------------------------
(* Slots *)

(* The declarations of a frame's own blocks *)
LEMMA OwnBlocks ==
  ASSUME NEW t \in Table, HasSelf(t)
  PROVE  LET all == FlattenSeq(IF t.kind = "main" THEN Tail(t.blocks) ELSE t.blocks) IN
         /\ all \in Seq(Declaration) /\ Len(all) = Locals(t)
         /\ \A i \in 1..Len(all) : all[i] = Flat(t)[Top(t) + i]
<1> DEFINE b == t.blocks
<1>1. b \in Seq(Seq(Declaration)) /\ b # <<>> BY TableFields, SelfHasBlock
<1>2. Flat(t) = FlattenSeq(b) /\ Flat(t) \in Seq(Declaration) /\ Locals(t) = Len(Flat(t)) - Top(t)
  BY <1>1, FlatType DEF Flat, Locals
<1>3. t.kind = "main" => Top(t) = Len(b[1]) BY DEF Top
<1>4. t.kind # "main" => Top(t) = 0 BY DEF Top
<1> HIDE DEF b
<1>5. CASE t.kind = "main"
  <2> DEFINE x == b[1]
             y == FlattenSeq(Tail(b))
             z == Flat(t)
  <2>1. z = x \o y /\ x \in Seq(Declaration) /\ y \in Seq(Declaration) BY <1>1, <1>2, FlattenTail
  <2>2. Top(t) = Len(x) BY <1>3, <1>5
  <2> HIDE DEF x, y, z
  <2>3. Len(y) = Len(z) - Len(x) /\ \A i \in 1..Len(y) : y[i] = z[Len(x) + i] BY <2>1
  <2> QED BY <1>2, <1>5, <2>1, <2>2, <2>3 DEF y, z, b
<1>6. CASE t.kind # "main"
  <2> DEFINE z == Flat(t)
  <2>1. z \in Seq(Declaration) /\ Top(t) = 0 BY <1>2, <1>4, <1>6
  <2> HIDE DEF z
  <2>2. Len(z) \in Nat /\ Len(z) - 0 = Len(z) /\ \A i \in 1..Len(z) : z[i] = z[0 + i] BY <2>1
  <2> QED BY <1>2, <1>6, <2>1, <2>2 DEF z, b
<1> QED BY <1>5, <1>6

(* The slots of a frame after slot 0, as a sequence. *)
LEMMA FrameTail ==
  ASSUME NEW t \in Table, HasSelf(t), NEW n \in Nat, InFrame(t, n), NEW all \in Seq(Declaration), n <= Len(all),
         \A i \in 1..Len(all) : all[i] = Flat(t)[Top(t) + i]
  PROVE  t.slots # <<>> /\ Tail(t.slots) = [i \in 1..n |-> all[i].variable]
<1> DEFINE s == t.slots
           r == [i \in 1..n |-> all[i].variable]
<1>1. s \in Seq(Nat) /\ Len(s) = n + 1 BY TableFields DEF InFrame
<1>2. \A i \in 1..n : s[i + 1] = all[i].variable
  <2>1. ASSUME NEW i \in 1..n PROVE i \in 1..Len(all) OBVIOUS
  <2> QED BY <2>1 DEF InFrame
<1> HIDE DEF s
<1>3. Tail(s) \in Seq(Nat) /\ Len(Tail(s)) = n /\ \A i \in 1..n : Tail(s)[i] = s[i + 1] BY <1>1
<1>4. \A i \in 1..n : all[i].variable \in Nat
  <2>1. ASSUME NEW i \in 1..n PROVE all[i].variable \in Nat
    <3>1. i \in 1..Len(all) OBVIOUS
    <3>2. all[i] \in Declaration BY <3>1
    <3> QED BY <3>2 DEF Declaration
  <2> QED BY <2>1
<1>5. r \in [1..n -> Nat] /\ \A i \in 1..n : r[i] = all[i].variable BY <1>4
<1>6. r \in Seq(Nat) /\ Len(r) = n
  <2> HIDE DEF r
  <2> QED BY <1>5, IsSeq
<1>7. Tail(s) = r
  <2> HIDE DEF r
  <2>1. \A i \in 1..Len(Tail(s)) : Tail(s)[i] = r[i] BY <1>2, <1>3, <1>5
  <2> QED BY <1>3, <1>6, <2>1, SeqEqual
<1>8. s # <<>> BY <1>1
<1> QED BY <1>7, <1>8 DEF s

(* In a shaped state slots are scopes. *)
LEMMA ShapedSlots == Shaped => SlotsAreScopes
<1> SUFFICES ASSUME Shaped, NEW k \in DOMAIN tables
             PROVE  LET t       == tables[k]
                        blocks  == IF t.kind = "main" THEN Tail(t.blocks) ELSE t.blocks
                        all     == FlattenSeq(blocks)
                        pending == k < Len(tables) /\ tables[k + 1].kind = "function" /\ tables[k + 1].into.location = "LOCAL"
                    IN /\ t.slots # <<>>
                       /\ Tail(t.slots) = [i \in 1..(IF pending THEN Len(all) - 1 ELSE Len(all)) |-> all[i].variable]
  BY DEF SlotsAreScopes
<1> DEFINE t   == tables[k]
           all == FlattenSeq(IF t.kind = "main" THEN Tail(t.blocks) ELSE t.blocks)
<1>1. t \in Table /\ HasSelf(t) /\ Formed(k)
  <2>1. k \in 1..Len(tables) BY TablesOf DEF Shaped
  <2> QED BY <2>1, TablesOf DEF Shaped
<1>2. /\ Awaits(k, "LOCAL") => Locals(t) >= 1 /\ InFrame(t, Locals(t) - 1)
      /\ ~Awaits(k, "LOCAL") => InFrame(t, Locals(t))
  BY <1>1 DEF Formed
<1> HIDE DEF t
<1>3. all \in Seq(Declaration) /\ Len(all) = Locals(t) /\ \A i \in 1..Len(all) : all[i] = Flat(t)[Top(t) + i]
  BY <1>1, OwnBlocks
<1> HIDE DEF all
<1>4. Len(all) \in Nat BY <1>3
<1>5. CASE Awaits(k, "LOCAL")
  <2> DEFINE n == Len(all) - 1
  <2>1. n \in Nat /\ n <= Len(all) /\ InFrame(t, n) BY <1>2, <1>3, <1>4, <1>5
  <2> HIDE DEF n
  <2>2. t.slots # <<>> /\ Tail(t.slots) = [i \in 1..n |-> all[i].variable] BY <1>1, <1>3, <2>1, FrameTail
  <2> QED BY <1>5, <2>2 DEF n, Awaits, t, all
<1>6. CASE ~Awaits(k, "LOCAL")
  <2>1. t.slots # <<>> /\ Tail(t.slots) = [i \in 1..Len(all) |-> all[i].variable]
    <3>1. InFrame(t, Len(all)) /\ Len(all) <= Len(all) BY <1>2, <1>3, <1>4, <1>6
    <3> QED BY <1>1, <1>3, <1>4, <3>1, FrameTail
  <2> QED BY <1>6, <2>1 DEF Awaits, t, all
<1> QED BY <1>5, <1>6

(* Where no script declares after a block that declared, a frame's slots are  *)
(* the variables of the blocks that are open in it, in their order: the pops  *)
(* of ExitScope take the variables of its own block and no other, through    *)
(* any nesting of blocks, functions and lambdas.                              *)
THEOREM FramesKeepTheirVariables ==
  ASSUME "siblings" \notin Uses
  PROVE  Spec => []SlotsAreScopes
<1>1. Shaped /\ [Next]_vars => Shaped' BY NextShaped
<1> QED BY <1>1, InitShaped, ShapedSlots, PTL DEF Spec

-----------------------------------------------------------------------------
(* Redefinitions *)

(* The declarations of the last block are those whose symbols are as deep as *)
(* the table.                                                                *)
LEMMA LastBlock ==
  ASSUME NEW t \in Table, HasSelf(t), NEW at \in Seq(Nat), Places(t, at)
  PROVE  LET w == Len(FlattenSeq(Front(t.blocks)))
             l == Last(t.blocks) IN
         /\ w \in Nat /\ Len(l) \in Nat /\ DOMAIN l = 1..Len(l) /\ Len(at) = w + Len(l)
         /\ \A i \in 1..Len(l) : Flat(t)[w + i] = l[i]
         /\ \A q \in 1..Len(at) : q > w <=> t.symbols[at[q]].scopeDepth >= t.depth
<1> DEFINE b == t.blocks
           w == Len(FlattenSeq(Front(b)))
           l == Last(b)
           m == Len(b)
           d == t.depth
<1>1. b \in Seq(Seq(Declaration)) /\ b # <<>> /\ m \in Nat /\ m >= 1 /\ d \in Nat
  <2>1. t.blocks # <<>> BY SelfHasBlock
  <2>2. t.blocks \in Seq(Seq(Declaration)) BY TableFields
  <2>3. Len(t.blocks) \in Nat /\ Len(t.blocks) >= 1 /\ t.depth \in Nat BY <2>1, FlatType
  <2> QED BY <2>1, <2>2, <2>3
<1> HIDE DEF b
<1>2. /\ w \in Nat /\ Len(l) \in Nat /\ l \in Seq(Declaration) /\ Len(FlattenSeq(b)) = w + Len(l)
      /\ \A i \in 1..Len(l) : FlattenSeq(b)[w + i] = l[i]
      /\ LengthOf(b, m - 1) = w /\ (m = 1 => w = 0)
  BY <1>1, FlattenLast
<1> HIDE DEF w, l
<1>3. Flat(t) = FlattenSeq(b) /\ Within(t, m - 1) = w BY <1>2 DEF Flat, Within, b
<1>4. DOMAIN l = 1..Len(l) BY <1>2
<1>5. Len(at) = w + Len(l) BY <1>2, <1>3 DEF Places
<1>6. m = 1 => d = 0
  <2> DEFINE a == t.symbols[1].scopeDepth
  <2>1. a + m = d + 1 /\ (t.kind = "main" => a = 0) /\ (t.kind # "main" => m >= 2) BY DEF HasSelf, b
  <2> HIDE DEF a, m, d
  <2> QED BY <1>1, <2>1
<1>7. ASSUME NEW q \in 1..Len(at) PROVE q > w <=> t.symbols[at[q]].scopeDepth >= t.depth
  <2> DEFINE e == t.symbols[at[q]].scopeDepth
  <2>1. at[q] \in 2..Len(t.symbols) /\ PlacedAt(t, q, t.symbols[at[q]]) BY DEF Places
  <2>2. e \in Nat
    <3>1. at[q] \in 1..Len(t.symbols) BY <2>1
    <3> QED BY <3>1, SymbolFields
  <2>3. \A c \in 1..m : q <= Within(t, c) <=> e + m <= d + c BY <2>1 DEF PlacedAt, b
  <2>4. q \in Nat BY <1>5
  <2> HIDE DEF e, m, d
  <2>5. CASE m = 1
    <3>1. q > w /\ e >= d BY <1>2, <1>6, <2>2, <2>4, <2>5
    <3> QED BY <3>1 DEF e, d
  <2>6. CASE m # 1
    <3>1. m - 1 \in 1..m BY <1>1, <2>6
    <3>2. q <= w <=> e + m <= d + (m - 1) BY <1>3, <2>3, <3>1
    <3>3. q > w <=> e >= d BY <1>1, <1>2, <2>2, <2>4, <3>2
    <3> QED BY <3>3 DEF e, d
  <2> QED BY <2>5, <2>6
<1> QED BY <1>2, <1>3, <1>4, <1>5, <1>7 DEF w, l, b

(* Define finds the declarations of the last block, and no other. *)
LEMMA RedefinedIs ==
  ASSUME NEW t \in Table, HasSelf(t), NEW at \in Seq(Nat), Places(t, at), NEW n \in Names, NEW p,
         \/ Whole(t)
         \/ t.depth = 0 /\ \A i \in DOMAIN t.symbols : t.symbols[i].name = n => t.symbols[i].scopeDepth = 0
  PROVE  Redefined(t, n, p) <=> \E i \in DOMAIN Last(t.blocks) :
                                  Last(t.blocks)[i].name = n /\ Compatible(Last(t.blocks)[i].params, p)
<1> DEFINE w == Len(FlattenSeq(Front(t.blocks)))
           l == Last(t.blocks)
           d == t.depth
           depth(i) == t.symbols[i].scopeDepth
<1>1. /\ w \in Nat /\ Len(l) \in Nat /\ DOMAIN l = 1..Len(l) /\ Len(at) = w + Len(l)
      /\ \A i \in 1..Len(l) : Flat(t)[w + i] = l[i]
      /\ \A q \in 1..Len(at) : q > w <=> depth(at[q]) >= d
  BY LastBlock
<1> HIDE DEF w, l
<1>2. Len(t.symbols) \in Nat /\ DOMAIN t.symbols = 1..Len(t.symbols) /\ d \in Nat BY TableFields
<1>3. \A i \in 1..Len(t.symbols) : depth(i) \in Nat BY SymbolFields
<1>4. \A q \in 1..Len(at) : at[q] \in 2..Len(t.symbols) /\ t.symbols[at[q]].name = Flat(t)[q].name /\ t.symbols[at[q]].params = Flat(t)[q].params
  BY DEF Places, PlacedAt
<1>5. \A i \in 2..Len(t.symbols) : depth(i) <= d => \E q \in 1..Len(at) : at[q] = i BY DEF Places
<1>6. \A q, r \in 1..Len(at) : q < r => at[q] < at[r] BY DEF Places
<1>7. \A q \in 1..Len(at) : at[q] \in Nat BY <1>4
<1>8. t.symbols[1].name = n => depth(1) < d
  <2> DEFINE a == depth(1)
             m == Len(t.blocks)
  <2>1. a + m = d + 1 /\ (t.kind = "main" => t.symbols[1].name = None) /\ (t.kind # "main" => m >= 2) BY DEF HasSelf
  <2>2. a \in Nat /\ m \in Nat
    <3>1. 1 \in 1..Len(t.symbols) BY <1>2, SelfHasBlock
    <3>2. Len(t.blocks) \in Nat BY SelfHasBlock, FlatType
    <3> QED BY <1>3, <3>1, <3>2
  <2>3. n # None BY ScopesAssumption
  <2> HIDE DEF a, m, d, depth
  <2>4. t.symbols[1].name = n => a < d BY <1>2, <2>1, <2>2, <2>3
  <2> QED BY <2>4 DEF a
<1>9. Whole(t) => \A i \in 2..Len(t.symbols) : depth(i) <= d BY DEF Whole
<1>10. ~Whole(t) => d = 0 /\ \A i \in 1..Len(t.symbols) : t.symbols[i].name = n => depth(i) = 0 BY <1>2
<1>11. ASSUME Redefined(t, n, p)
       PROVE  \E i \in DOMAIN l : l[i].name = n /\ Compatible(l[i].params, p)
  <2>1. PICK i \in 1..Len(t.symbols) :
          /\ t.symbols[i].name = n /\ Compatible(t.symbols[i].params, p)
          /\ \A j \in i..Len(t.symbols) : depth(j) >= d
    BY <1>2, <1>11 DEF Redefined
  <2> HIDE DEF d, depth
  <2>2. depth(i) >= d /\ depth(i) \in Nat
    <3>1. i \in i..Len(t.symbols) BY <1>2
    <3> QED BY <1>3, <2>1, <3>1
  <2>3. i # 1
    <3> SUFFICES ASSUME i = 1 PROVE FALSE OBVIOUS
    <3>1. depth(1) < d BY <1>8, <2>1
    <3> QED BY <1>2, <2>2, <3>1
  <2>4. i \in 2..Len(t.symbols) BY <1>2, <2>3
  <2>5. depth(i) <= d
    <3>1. CASE Whole(t) BY <1>9, <2>4, <3>1
    <3>2. CASE ~Whole(t) BY <1>10, <2>1, <3>2
    <3> QED BY <3>1, <3>2
  <2>6. PICK q \in 1..Len(at) : at[q] = i BY <1>5, <2>4, <2>5
  <2>7. q > w BY <1>1, <2>2, <2>6
  <2>8. q - w \in 1..Len(l) /\ q = w + (q - w) BY <1>1, <2>7
  <2>9. Flat(t)[q] = l[q - w] BY <1>1, <2>8
  <2>10. l[q - w].name = n /\ Compatible(l[q - w].params, p) BY <1>4, <2>1, <2>6, <2>9
  <2> QED BY <1>1, <2>8, <2>10
<1>12. ASSUME NEW i \in DOMAIN l, l[i].name = n, Compatible(l[i].params, p)
       PROVE  Redefined(t, n, p)
  <2> DEFINE q == w + i
  <2>1. q \in 1..Len(at) /\ Flat(t)[q] = l[i] /\ q > w BY <1>1
  <2> HIDE DEF q
  <2>2. at[q] \in 1..Len(t.symbols) /\ t.symbols[at[q]].name = n /\ Compatible(t.symbols[at[q]].params, p)
    <3>1. at[q] \in 1..Len(t.symbols) BY <1>4, <2>1
    <3> QED BY <1>4, <1>12, <2>1, <3>1
  <2>3. ASSUME NEW j \in at[q]..Len(t.symbols) PROVE depth(j) >= d
    <3> HIDE DEF d, depth
    <3>1. j \in 2..Len(t.symbols) /\ j \in 1..Len(t.symbols) /\ at[q] <= j
      <4>1. at[q] \in 2..Len(t.symbols) BY <1>4, <2>1
      <4> QED BY <1>2, <4>1
    <3>2. CASE Whole(t)
      <4>1. PICK r \in 1..Len(at) : at[r] = j BY <1>5, <1>9, <3>1, <3>2
      <4>2. ~(r < q)
        <5> SUFFICES ASSUME r < q PROVE FALSE OBVIOUS
        <5>1. at[r] < at[q] BY <1>6, <2>1
        <5>2. at[r] \in Nat /\ at[q] \in Nat BY <1>7, <2>1
        <5> QED BY <3>1, <4>1, <5>1, <5>2
      <4>3. r > w
        <5>1. r \in Nat /\ q \in Nat BY <1>1, <2>1
        <5> QED BY <1>1, <2>1, <4>2, <5>1
      <4> QED BY <1>1, <4>1, <4>3
    <3>3. CASE ~Whole(t)
      <4>1. d = 0 /\ depth(j) \in Nat BY <1>3, <1>10, <3>1, <3>3
      <4> QED BY <4>1
    <3> QED BY <3>2, <3>3
  <2> QED BY <1>2, <2>2, <2>3 DEF Redefined
<1> QED BY <1>11, <1>12 DEF l

(* In a shaped state Define refuses redefinitions only. *)
LEMMA ShapedRedefinitions ==
  ASSUME "siblings" \notin Uses
  PROVE  Shaped => RefusesRedefinitions
<1> SUFFICES ASSUME Shaped, NEW n \in Names, NEW p \in ParamCounts \cup {None}, Declarable(n)
             PROVE  Redefined(Here, n, p) <=> \E i \in DOMAIN Last(Here.blocks) :
                      Last(Here.blocks)[i].name = n /\ Compatible(Last(Here.blocks)[i].params, p)
  BY DEF RefusesRedefinitions
<1>1. Here \in Table /\ HasSelf(Here) /\ Placed(Here) /\ (~Spent => Whole(Here)) BY ShapedTop
<1>2. PICK at \in Seq(Nat) : Places(Here, at) BY <1>1 DEF Placed
<1>3. \/ Whole(Here)
      \/ Here.depth = 0 /\ \A i \in DOMAIN Here.symbols : Here.symbols[i].name = n => Here.symbols[i].scopeDepth = 0
  BY <1>1 DEF Declarable
<1> QED BY <1>1, <1>2, <1>3, RedefinedIs

(* Where no script declares after a block that declared, Define refuses a    *)
(* name if and only if the block that is open has it already, whatever the   *)
(* blocks that have ended and the functions around have.                      *)
THEOREM OneNameOneBlock ==
  ASSUME "siblings" \notin Uses
  PROVE  Spec => []RefusesRedefinitions
<1>1. Shaped /\ [Next]_vars => Shaped' BY NextShaped
<1> QED BY <1>1, InitShaped, ShapedRedefinitions, PTL DEF Spec

-----------------------------------------------------------------------------
(* The order of the text *)

(* Variables are numbered as the text declares them: after the function they *)
(* are in, and each after those before it.                                   *)
Numbered(t, d) ==
  /\ t.slots[1] <= d
  /\ \A p \in 1..Len(Flat(t)) : t.slots[1] < Flat(t)[p].variable /\ Flat(t)[p].variable <= d
  /\ \A p, q \in 1..Len(Flat(t)) : p < q => Flat(t)[p].variable < Flat(t)[q].variable

(* A function begins after what is declared around it, but for its own       *)
(* declaration, which is the last of the table around.                       *)
Ordered(t, w, isNext) ==
  /\ t.slots[1] < w.slots[1]
  /\ \A p \in 1..Len(Flat(t)) :
       Flat(t)[p].variable < w.slots[1] \/ (isNext /\ w.kind = "function" /\ p = Len(Flat(t)))

(* All of this, for the functions that are open. *)
InTextOrder ==
  /\ \A k \in 1..Len(tables) : Numbered(tables[k], declared)
  /\ \A k, l \in 1..Len(tables) : k < l => Ordered(tables[k], tables[l], l = k + 1)

(* A declaration is a record with a number. *)
LEMMA FlatVariable ==
  ASSUME NEW t \in Table, HasSelf(t)
  PROVE  /\ Len(Flat(t)) \in Nat /\ t.slots[1] \in Nat /\ Flat(t) \in Seq(Declaration)
         /\ \A p \in 1..Len(Flat(t)) : Flat(t)[p].variable \in Nat /\ Flat(t)[p] \in Declaration
<1>1. t.blocks # <<>> /\ t.slots # <<>> /\ Len(t.slots) >= 1 BY SelfHasBlock DEF HasSelf
<1>2. Flat(t) \in Seq(Declaration) /\ Len(Flat(t)) \in Nat BY <1>1, FlatType
<1>3. t.slots[1] \in Nat
  <2>1. t.slots \in Seq(Nat) BY TableFields
  <2> QED BY <1>1, <2>1
<1>4. ASSUME NEW p \in 1..Len(Flat(t)) PROVE Flat(t)[p].variable \in Nat /\ Flat(t)[p] \in Declaration
  <2>1. Flat(t)[p] \in Declaration BY <1>2
  <2> QED BY <2>1 DEF Declaration
<1> QED BY <1>2, <1>3, <1>4

(* A table with the first of the declarations, or all, is numbered too. *)
LEMMA NumberedFront ==
  ASSUME NEW t \in Table, HasSelf(t), NEW u \in Table, HasSelf(u), NEW d \in Nat, NEW e \in Nat, d <= e, Numbered(t, d),
         u.slots[1] = t.slots[1], Len(Flat(u)) <= Len(Flat(t)), \A p \in 1..Len(Flat(u)) : Flat(u)[p] = Flat(t)[p]
  PROVE  Numbered(u, e)
<1>1. Len(Flat(t)) \in Nat /\ Len(Flat(u)) \in Nat /\ t.slots[1] \in Nat
      /\ \A p \in 1..Len(Flat(t)) : Flat(t)[p].variable \in Nat
  BY FlatVariable
<1>2. \A p \in 1..Len(Flat(u)) : p \in 1..Len(Flat(t)) BY <1>1
<1> QED BY <1>1, <1>2 DEF Numbered

(* One declaration more has a greater number. *)
LEMMA NumberedMore ==
  ASSUME NEW t \in Table, HasSelf(t), NEW u \in Table, HasSelf(u), NEW d \in Nat, NEW e \in Nat, d <= e, Numbered(t, d),
         u.slots[1] = t.slots[1], Len(Flat(u)) = Len(Flat(t)) + 1, \A p \in 1..Len(Flat(t)) : Flat(u)[p] = Flat(t)[p],
         NEW v \in Nat, v <= e, Flat(u)[Len(Flat(u))].variable = v,
         t.slots[1] < v, \A p \in 1..Len(Flat(t)) : Flat(t)[p].variable < v
  PROVE  Numbered(u, e)
<1> DEFINE n == Len(Flat(t))
<1>1. n \in Nat /\ t.slots[1] \in Nat /\ \A p \in 1..n : Flat(t)[p].variable \in Nat BY FlatVariable
<1>2. Len(Flat(u)) = n + 1 /\ Flat(u)[n + 1].variable = v OBVIOUS
<1>3. \A p \in 1..n : Flat(u)[p].variable = Flat(t)[p].variable /\ Flat(u)[p].variable < v
  OBVIOUS
<1>4. /\ t.slots[1] <= d /\ \A p \in 1..n : t.slots[1] < Flat(t)[p].variable /\ Flat(t)[p].variable <= d
      /\ \A p, q \in 1..n : p < q => Flat(t)[p].variable < Flat(t)[q].variable
  BY DEF Numbered
<1> HIDE DEF n
<1>5. \A p \in 1..(n + 1) : p \in 1..n \/ p = n + 1 BY <1>1
<1>6. \A p \in 1..(n + 1) : t.slots[1] < Flat(u)[p].variable /\ Flat(u)[p].variable <= e
  BY <1>1, <1>2, <1>3, <1>4, <1>5
<1>7. ASSUME NEW p \in 1..(n + 1), NEW q \in 1..(n + 1), p < q PROVE Flat(u)[p].variable < Flat(u)[q].variable
  <2>1. p \in 1..n BY <1>1, <1>7
  <2>2. CASE q \in 1..n BY <1>3, <1>4, <1>7, <2>1, <2>2
  <2>3. CASE q = n + 1 BY <1>2, <1>3, <2>1, <2>3
  <2> QED BY <1>5, <2>2, <2>3
<1> QED BY <1>1, <1>2, <1>4, <1>6, <1>7 DEF Numbered

(* Resolve moves no declaration, *)
LEMMA AlikeFlat ==
  ASSUME NEW t \in Table, HasSelf(t), NEW u \in Table, Alike(t, u)
  PROVE  /\ Flat(u) = Flat(t) /\ Top(u) = Top(t) /\ Locals(u) = Locals(t)
         /\ u.slots = t.slots /\ u.kind = t.kind /\ u.into = t.into /\ u.symbols[1].name = t.symbols[1].name
<1>1. SameSymbols(t, u) /\ SameHead(t, u) BY AlikeIsSame
<1> QED BY <1>1, SameFlat DEF SameHead, Alike

(* ... and keeps it numbered. *)
LEMMA AlikeNumbered ==
  ASSUME NEW t \in Table, HasSelf(t), NEW u \in Table, HasSelf(u), Alike(t, u), NEW d \in Nat, NEW e \in Nat, d <= e, Numbered(t, d)
  PROVE  Numbered(u, e)
<1>1. Flat(u) = Flat(t) /\ u.slots = t.slots BY AlikeFlat
<1>2. Len(Flat(t)) \in Nat BY FlatVariable
<1> QED BY <1>1, <1>2, NumberedFront

(* A handler that leaves the tables below the m-th alone, and of those above *)
(* keeps none, keeps the order if the m-th table is numbered.                *)
LEMMA OrderedTop ==
  ASSUME Basic, Basic', InTextOrder, NEW m \in 1..Len(tables), Len(tables') = m,
         \A k \in 1..(m - 1) : Alike(tables[k], tables'[k]), SameHead(tables[m], tables'[m]),
         declared <= declared', Numbered(tables'[m], declared')
  PROVE  InTextOrder'
<1>1. /\ Len(tables) \in Nat /\ \A k \in 1..Len(tables) : tables[k] \in Table /\ HasSelf(tables[k])
      /\ \A k \in 1..Len(tables') : tables'[k] \in Table /\ HasSelf(tables'[k])
      /\ declared \in Nat /\ declared' \in Nat
  <2>1. declared \in Nat /\ declared' \in Nat BY DEF Basic, TypeOK
  <2> QED BY <2>1, TablesOf, TablesNext
<1>2. m \in Nat /\ m >= 1 BY <1>1
<1>3. ASSUME NEW k \in 1..(m - 1)
      PROVE  /\ k \in 1..Len(tables) /\ k \in 1..Len(tables') /\ tables'[k].slots[1] = tables[k].slots[1]
             /\ Flat(tables'[k]) = Flat(tables[k]) /\ tables'[k].kind = tables[k].kind
  <2>1. k \in 1..Len(tables) /\ k \in 1..Len(tables') BY <1>1, <1>2
  <2>2. /\ tables[k] \in Table /\ HasSelf(tables[k]) /\ tables'[k] \in Table /\ Alike(tables[k], tables'[k])
    BY <1>1, <2>1
  <2>3. /\ Flat(tables'[k]) = Flat(tables[k]) /\ tables'[k].kind = tables[k].kind /\ tables'[k].slots = tables[k].slots
    BY <2>2, AlikeFlat
  <2> QED BY <2>1, <2>3
<1>4. \A k \in 1..m : k \in 1..(m - 1) \/ k = m BY <1>2
<1>5. ASSUME NEW k \in 1..m PROVE Numbered(tables'[k], declared')
  <2>1. CASE k = m BY <2>1
  <2>2. CASE k \in 1..(m - 1)
    <3>1. Numbered(tables[k], declared) BY <1>3, <2>2 DEF InTextOrder
    <3>2. /\ tables[k] \in Table /\ HasSelf(tables[k]) /\ tables'[k] \in Table /\ HasSelf(tables'[k]) BY <1>1, <1>3, <2>2
    <3> QED BY <1>1, <2>2, <3>1, <3>2, AlikeNumbered
  <2> QED BY <1>4, <2>1, <2>2
<1>6. ASSUME NEW k \in 1..m, NEW l \in 1..m, k < l PROVE Ordered(tables'[k], tables'[l], l = k + 1)
  <2>1. k \in 1..(m - 1) /\ k \in 1..Len(tables) /\ l \in 1..Len(tables) BY <1>1, <1>2, <1>6
  <2>2. Ordered(tables[k], tables[l], l = k + 1) BY <1>6, <2>1 DEF InTextOrder
  <2>3. tables'[l].slots[1] = tables[l].slots[1] /\ tables'[l].kind = tables[l].kind
    <3>1. CASE l = m BY <3>1 DEF SameHead
    <3>2. CASE l \in 1..(m - 1) BY <1>3, <3>2
    <3> QED BY <1>4, <3>1, <3>2
  <2>4. tables'[k].slots[1] = tables[k].slots[1] /\ Flat(tables'[k]) = Flat(tables[k]) BY <1>3, <2>1
  <2> QED BY <2>2, <2>3, <2>4 DEF Ordered
<1> QED BY <1>5, <1>6 DEF InTextOrder

(* A handler that begins a function keeps the order if that is declared last. *)
LEMMA OrderedPushed ==
  ASSUME Basic, Basic', InTextOrder, NEW u \in Table, NEW w \in Table,
         Len(tables') = Len(tables) + 1, tables'[Len(tables)] = u, tables'[Len(tables) + 1] = w,
         \A k \in 1..(Len(tables) - 1) : Alike(tables[k], tables'[k]), SameHead(Here, u),
         declared < declared', Numbered(u, declared'), Numbered(w, declared'), w.slots[1] = declared + 1,
         \A p \in 1..Len(Flat(u)) : Flat(u)[p].variable <= declared \/ (w.kind = "function" /\ p = Len(Flat(u)))
  PROVE  InTextOrder'
<1>1. PICK m \in Nat : m = Len(tables) BY TablesOf
<1>2. /\ m >= 1 /\ Here = tables[m] /\ \A k \in 1..m : tables[k] \in Table /\ HasSelf(tables[k])
      /\ \A k \in 1..Len(tables') : tables'[k] \in Table /\ HasSelf(tables'[k])
      /\ declared \in Nat /\ declared' \in Nat
  <2>1. declared \in Nat /\ declared' \in Nat BY DEF Basic, TypeOK
  <2> QED BY <1>1, <2>1, TablesOf, TablesNext, OnTop
<1>3. Len(tables') = m + 1 /\ tables'[m] = u /\ tables'[m + 1] = w /\ \A k \in 1..(m - 1) : Alike(tables[k], tables'[k])
  BY <1>1
<1>4. ASSUME NEW k \in 1..(m - 1)
      PROVE  /\ k \in 1..m /\ tables'[k].slots[1] = tables[k].slots[1] /\ k \in 1..(m + 1)
             /\ Flat(tables'[k]) = Flat(tables[k]) /\ tables'[k].kind = tables[k].kind
  <2>1. k \in 1..m /\ k \in 1..(m + 1) OBVIOUS
  <2>2. /\ tables[k] \in Table /\ HasSelf(tables[k]) /\ tables'[k] \in Table /\ Alike(tables[k], tables'[k])
    BY <1>2, <1>3, <2>1
  <2>3. /\ Flat(tables'[k]) = Flat(tables[k]) /\ tables'[k].kind = tables[k].kind /\ tables'[k].slots = tables[k].slots
    BY <2>2, AlikeFlat
  <2> QED BY <2>1, <2>3
<1>5. /\ \A k \in 1..(m + 1) : k \in 1..(m - 1) \/ k = m \/ k = m + 1
      /\ \A k \in 1..m : k \in 1..(m - 1) \/ k = m
  <2>1. m >= 1 BY <1>2
  <2>2. \A k \in 1..m : k \in 1..(m - 1) \/ k = m BY <2>1
  <2>3. \A k \in 1..(m + 1) : k \in 1..m \/ k = m + 1 BY <2>1
  <2> QED BY <2>2, <2>3
<1>6. ASSUME NEW k \in 1..(m + 1) PROVE Numbered(tables'[k], declared')
  <2>1. CASE k = m BY <1>3, <2>1
  <2>2. CASE k = m + 1 BY <1>3, <2>2
  <2>3. CASE k \in 1..(m - 1)
    <3>1. Numbered(tables[k], declared) BY <1>1, <1>4, <2>3 DEF InTextOrder
    <3>2. /\ tables[k] \in Table /\ HasSelf(tables[k]) /\ tables'[k] \in Table /\ HasSelf(tables'[k])
      BY <1>2, <1>3, <1>4, <2>3
    <3>3. declared \in Nat /\ declared' \in Nat /\ declared <= declared' /\ Alike(tables[k], tables'[k]) BY <1>2, <1>3, <2>3
    <3> QED BY <3>1, <3>2, <3>3, AlikeNumbered
  <2> QED BY <1>5, <2>1, <2>2, <2>3
<1>7. ASSUME NEW k \in 1..(m + 1), NEW l \in 1..(m + 1), k < l PROVE Ordered(tables'[k], tables'[l], l = k + 1)
  <2>1. CASE l = m + 1
    <3>1. k \in 1..m BY <1>7, <2>1
    <3>2. tables[k].slots[1] <= declared /\ tables'[k].slots[1] = tables[k].slots[1] /\ tables[k].slots[1] \in Nat
      <4>1. tables[k].slots[1] <= declared BY <1>1, <3>1 DEF InTextOrder, Numbered
      <4>2. tables[k].slots[1] \in Nat BY <1>2, <3>1, FlatVariable
      <4>3. CASE k = m BY <1>2, <1>3, <4>1, <4>2, <4>3 DEF SameHead
      <4>4. CASE k \in 1..(m - 1) BY <1>4, <4>1, <4>2, <4>4
      <4> QED BY <1>5, <3>1, <4>3, <4>4
    <3>3. tables'[l].slots[1] = declared + 1 /\ tables'[l] = w BY <1>3, <2>1
    <3>4. tables'[k].slots[1] < tables'[l].slots[1]
      <4>1. declared \in Nat BY <1>2
      <4> QED BY <3>2, <3>3, <4>1
    <3>5. ASSUME NEW p \in 1..Len(Flat(tables'[k]))
          PROVE  Flat(tables'[k])[p].variable <= declared \/ (k = m /\ w.kind = "function" /\ p = Len(Flat(tables'[k])))
      <4>1. CASE k = m BY <1>3, <4>1
      <4>2. CASE k \in 1..(m - 1)
        <5>1. Numbered(tables[k], declared) BY <1>1, <3>1 DEF InTextOrder
        <5> QED BY <1>4, <4>2, <5>1 DEF Numbered
      <4> QED BY <1>5, <3>1, <4>1, <4>2
    <3>6. ASSUME NEW p \in 1..Len(Flat(tables'[k])) PROVE Flat(tables'[k])[p].variable \in Nat
      <4>1. tables'[k] \in Table /\ HasSelf(tables'[k]) BY <1>2, <1>3
      <4> QED BY <4>1, FlatVariable
    <3>7. ASSUME NEW p \in 1..Len(Flat(tables'[k])) PROVE Flat(tables'[k])[p].variable <= declared => Flat(tables'[k])[p].variable < declared + 1
      <4>1. declared \in Nat BY <1>2
      <4> QED BY <3>6, <4>1
    <3>8. k = m => l = k + 1 BY <2>1
    <3> QED BY <3>3, <3>4, <3>5, <3>7, <3>8 DEF Ordered
  <2>2. CASE l # m + 1
    <3>1. k \in 1..(m - 1) /\ k \in 1..m /\ l \in 1..m BY <1>7, <2>2
    <3>2. Ordered(tables[k], tables[l], l = k + 1) BY <1>1, <1>7, <3>1 DEF InTextOrder
    <3>3. tables'[l].slots[1] = tables[l].slots[1] /\ tables'[l].kind = tables[l].kind
      <4>1. CASE l = m BY <1>2, <1>3, <4>1 DEF SameHead
      <4>2. CASE l \in 1..(m - 1) BY <1>4, <4>2
      <4> QED BY <1>5, <3>1, <4>1, <4>2
    <3>4. tables'[k].slots[1] = tables[k].slots[1] /\ Flat(tables'[k]) = Flat(tables[k]) BY <1>4, <3>1
    <3> QED BY <3>2, <3>3, <3>4 DEF Ordered
  <2> QED BY <2>1, <2>2
<1> QED BY <1>3, <1>6, <1>7 DEF InTextOrder

(* A handler that changes the table on top keeps the order if it keeps that   *)
(* numbered.                                                                  *)
LEMMA OrderedHere ==
  ASSUME Basic, Basic', InTextOrder, NEW u \in Table, tables' = [tables EXCEPT ![Len(tables)] = u], SameHead(Here, u),
         declared <= declared', Numbered(u, declared')
  PROVE  InTextOrder'
<1>1. PICK m \in Nat : m = Len(tables) BY TablesOf
<1>2. tables \in Seq(Table) /\ m >= 1 /\ Here = tables[m] BY <1>1, OnTop
<1>3. Len(tables') = m /\ tables'[m] = u /\ \A k \in 1..(m - 1) : tables'[k] = tables[k] BY <1>1, <1>2
<1>4. m \in 1..Len(tables) BY <1>1, <1>2
<1>5. \A k \in 1..(m - 1) : Alike(tables[k], tables'[k]) BY <1>3 DEF Alike
<1> QED BY <1>2, <1>3, <1>4, <1>5, OrderedTop

(* The declaration of a variable later than all others keeps a table          *)
(* numbered, and so does its value.                                           *)
LEMMA DeclaredNumbered ==
  ASSUME NEW t \in Table, HasSelf(t), NEW s \in Symbol, s.name # None, NEW v \in Nat, NEW d \in Nat, NEW e \in Nat,
         d <= e, v <= e, Numbered(t, d), t.slots[1] < v, \A p \in 1..Len(Flat(t)) : Flat(t)[p].variable < v
  PROVE  LET x == WithSymbol(t, s, v)
             u == Stored(x, s, v)
         IN /\ x \in Table /\ HasSelf(x) /\ Numbered(x, e) /\ SameHead(t, x)
            /\ Len(Flat(x)) = Len(Flat(t)) + 1 /\ \A p \in 1..Len(Flat(t)) : Flat(x)[p] = Flat(t)[p]
            /\ u \in Table /\ HasSelf(u) /\ Numbered(u, e) /\ SameHead(t, u)
<1> DEFINE x == WithSymbol(t, s, v)
           u == Stored(x, s, v)
           r == [name |-> s.name, params |-> s.params, variable |-> v]
<1>1. t.blocks # <<>> /\ Len(t.symbols) >= 1 BY SelfHasBlock
<1>2. /\ x \in Table /\ x.symbols = Append(t.symbols, s) /\ x.kind = t.kind /\ x.into = t.into /\ x.slots = t.slots
      /\ r \in Declaration /\ x.blocks = Append(Front(t.blocks), Append(Last(t.blocks), r))
  BY <1>1, WithSymbolTable
<1>3. HasSelf(x) BY WithSymbolSelf
<1> HIDE DEF x
<1>4. /\ Len(Flat(x)) = Len(Flat(t)) + 1 /\ Flat(x)[Len(Flat(t)) + 1] = r
      /\ \A p \in 1..Len(Flat(t)) : Flat(x)[p] = Flat(t)[p]
  BY <1>1, <1>2, FlatDeclared
<1>5. Flat(x)[Len(Flat(x))].variable = v BY <1>4
<1>6. x.slots[1] = t.slots[1] BY <1>2
<1>7. Numbered(x, e) BY <1>2, <1>3, <1>4, <1>5, <1>6, NumberedMore
<1>8. SameHead(t, x)
  <2>1. t.symbols \in Seq(Symbol) BY TableFields
  <2>2. x.symbols[1] = t.symbols[1] BY <1>1, <1>2, <2>1
  <2> QED BY <1>2, <2>2 DEF SameHead
<1>9. u \in Table /\ HasSelf(u) BY <1>2, <1>3, StoredTable, StoredSelf
<1>10. SameSymbols(x, u) /\ SameHead(x, u) BY <1>2, <1>3, StoredSame
<1> HIDE DEF u
<1>11. Flat(u) = Flat(x) BY <1>10, SameFlat
<1>12. Len(Flat(x)) \in Nat BY <1>2, <1>3, FlatVariable
<1>13. Numbered(u, e) BY <1>2, <1>3, <1>7, <1>9, <1>10, <1>11, <1>12, NumberedFront DEF SameHead
<1>14. SameHead(t, u) BY <1>8, <1>10 DEF SameHead
<1> QED BY <1>2, <1>3, <1>4, <1>7, <1>8, <1>9, <1>13, <1>14 DEF x, u

(* The table on top is numbered, by what has been declared so far. *)
LEMMA HereNumbered ==
  ASSUME Basic, InTextOrder
  PROVE  /\ Here \in Table /\ HasSelf(Here) /\ Numbered(Here, declared) /\ declared \in Nat
         /\ Here.slots[1] < declared + 1 /\ \A p \in 1..Len(Flat(Here)) : Flat(Here)[p].variable < declared + 1
<1>1. Here \in Table /\ HasSelf(Here) /\ Here = tables[Len(tables)] /\ Len(tables) \in 1..Len(tables) BY OnTop
<1>2. Numbered(Here, declared) BY <1>1 DEF InTextOrder
<1>3. declared \in Nat BY DEF Basic, TypeOK
<1>4. Here.slots[1] \in Nat /\ \A p \in 1..Len(Flat(Here)) : Flat(Here)[p].variable \in Nat BY <1>1, FlatVariable
<1>5. Here.slots[1] <= declared /\ \A p \in 1..Len(Flat(Here)) : Flat(Here)[p].variable <= declared BY <1>2 DEF Numbered
<1>6. \A x \in Nat : x <= declared => x < declared + 1 BY <1>3
<1> QED BY <1>1, <1>2, <1>3, <1>4, <1>5, <1>6

(* A variable keeps the order, *)
LEMMA DeclareOrdered ==
  ASSUME Basic, InTextOrder, NEW n \in Names, Declare(n)
  PROVE  InTextOrder'
<1> DEFINE v == declared + 1
           s == Defined(Here, n, None, Len(globals))
           u == Stored(WithSymbol(Here, s, v), s, v)
<1>1. Basic' BY DeclareBasic
<1>2. tables' = [tables EXCEPT ![Len(tables)] = u] /\ declared' = v BY DEF Declare
<1>3. /\ Here \in Table /\ HasSelf(Here) /\ Numbered(Here, declared) /\ declared \in Nat
      /\ Here.slots[1] < v /\ \A p \in 1..Len(Flat(Here)) : Flat(Here)[p].variable < v
  BY HereNumbered
<1>4. v \in Nat /\ declared <= v /\ v <= v BY <1>3
<1>5. s \in Symbol /\ s.name # None
  <2>1. Len(globals) \in Nat /\ None \in ParamCounts \cup {None} BY OnTop
  <2> QED BY <1>3, <2>1, DefinedIs
<1> HIDE DEF v, s
<1>6. u \in Table /\ Numbered(u, v) /\ SameHead(Here, u) BY <1>3, <1>4, <1>5, DeclaredNumbered
<1> HIDE DEF u
<1> QED BY <1>1, <1>2, <1>4, <1>6, OrderedHere

(* ... and so do the beginning of a block, *)
LEMMA EnterScopeOrdered ==
  ASSUME Basic, InTextOrder, EnterScope
  PROVE  InTextOrder'
<1> DEFINE u == [Here EXCEPT !.depth = @ + 1, !.blocks = Append(@, <<>>)]
<1>1. Basic' BY EnterScopeBasic
<1>2. tables' = [tables EXCEPT ![Len(tables)] = u] /\ declared' = declared BY DEF EnterScope
<1>3. Here \in Table /\ HasSelf(Here) /\ Numbered(Here, declared) /\ declared \in Nat BY HereNumbered
<1>4. /\ u \in Table /\ u.blocks = Append(Here.blocks, <<>>) /\ u.symbols = Here.symbols /\ u.kind = Here.kind
      /\ u.into = Here.into /\ u.slots = Here.slots
  BY <1>3, EnteredTable
<1> HIDE DEF u
<1>5. Here.blocks # <<>> BY <1>3, SelfHasBlock
<1>6. Flat(u) = Flat(Here) BY <1>3, <1>4, <1>5, FlatEntered
<1>7. SameHead(Here, u) BY <1>4 DEF SameHead
<1>8. Numbered(u, declared) BY <1>3, <1>4, <1>6 DEF Numbered
<1>9. declared <= declared' BY <1>2, <1>3
<1> QED BY <1>1, <1>2, <1>4, <1>7, <1>8, <1>9, OrderedHere

(* ... its end, *)
LEMMA ExitScopeOrdered ==
  ASSUME Basic, InTextOrder, ExitScope
  PROVE  InTextOrder'
<1> DEFINE u == Exited(Here)
<1>1. Basic' BY ExitScopeBasic
<1>2. tables' = [tables EXCEPT ![Len(tables)] = u] /\ declared' = declared BY DEF ExitScope, Exited, Gone
<1>3. Len(Here.blocks) > (IF Here.kind = "main" THEN 1 ELSE 2) BY DEF ExitScope, InBlock
<1>4. /\ Here \in Table /\ HasSelf(Here) /\ Numbered(Here, declared) /\ declared \in Nat
      /\ Cardinality(LocalsOf(Here)) = Len(Here.slots) /\ Here.slots \in Seq(Nat) /\ Here.blocks # <<>>
  BY HereNumbered, OnTop
<1>5. /\ Cardinality(Gone(Here)) \in Nat /\ Cardinality(Gone(Here)) < Len(Here.slots) /\ Here.depth >= 1 /\ HasSelf(u)
  BY <1>3, <1>4, ExitedSelf
<1>6. /\ u \in Table /\ u.blocks = Front(Here.blocks) /\ u.kind = Here.kind /\ u.into = Here.into
      /\ Len(u.symbols) = Len(Here.symbols)
      /\ \A i \in 1..Len(Here.symbols) : u.symbols[i].name = Here.symbols[i].name
      /\ Len(u.slots) = Len(Here.slots) - Cardinality(Gone(Here))
      /\ \A i \in 1..Len(u.slots) : u.slots[i] = Here.slots[i]
  <2>1. Cardinality(Gone(Here)) <= Len(Here.slots) BY <1>4, <1>5
  <2> QED BY <1>4, <1>5, <2>1, ExitedTable
<1> HIDE DEF u
<1>7. u.slots[1] = Here.slots[1] /\ u.symbols[1].name = Here.symbols[1].name
  <2>1. 1 \in 1..Len(u.slots) BY <1>4, <1>5, <1>6
  <2>2. 1 \in 1..Len(Here.symbols)
    <3>1. Len(Here.symbols) >= 1 /\ Len(Here.symbols) \in Nat BY <1>4, SelfHasBlock, TableFields
    <3> QED BY <3>1
  <2> QED BY <1>6, <2>1, <2>2
<1>8. Len(Flat(u)) <= Len(Flat(Here)) /\ \A p \in 1..Len(Flat(u)) : Flat(u)[p] = Flat(Here)[p]
  <2>1. Len(Here.blocks) > 1
    <3>1. Len(Here.blocks) \in Nat BY <1>4, FlatType
    <3> QED BY <1>3, <3>1
  <2> QED BY <1>4, <1>6, <2>1, FlatExited
<1>9. declared <= declared BY <1>4
<1>10. Numbered(u, declared) BY <1>4, <1>5, <1>6, <1>7, <1>8, <1>9, NumberedFront
<1>11. SameHead(Here, u) BY <1>6, <1>7 DEF SameHead
<1> QED BY <1>1, <1>2, <1>6, <1>9, <1>10, <1>11, OrderedHere

(* ... the use of a name, *)
LEMMA IdentifierOrdered ==
  ASSUME Basic, InTextOrder, NEW n, NEW c, Identifier(n, c)
  PROVE  InTextOrder'
<1>1. Basic' BY IdentifierBasic
<1>2. PICK m \in Nat : m = Len(tables) BY TablesOf
<1>3. tables \in Seq(Table) /\ m >= 1 /\ Here = tables[m] /\ Here \in Table /\ HasSelf(Here) BY <1>2, OnTop
<1>4. tables' = Resolved(n, c) /\ declared' = declared /\ Home(n, c) # 0 BY DEF Identifier
<1>5. tables' \in Seq(Table) /\ Len(tables') = m /\ \A k \in 1..m : Alike(tables[k], tables'[k])
  BY <1>2, <1>3, <1>4, ResolvedTables
<1>6. tables'[m] \in Table /\ HasSelf(tables'[m]) /\ m \in 1..Len(tables) /\ Alike(Here, tables'[m])
  BY <1>1, <1>2, <1>3, <1>5, TablesNext
<1>7. SameHead(tables[m], tables'[m]) BY <1>3, <1>6, AlikeIsSame
<1>8. declared \in Nat /\ Numbered(Here, declared) BY HereNumbered
<1>9. declared <= declared' BY <1>4, <1>8
<1>10. Numbered(tables'[m], declared') BY <1>3, <1>4, <1>6, <1>8, <1>9, AlikeNumbered
<1>11. \A k \in 1..(m - 1) : Alike(tables[k], tables'[k])
  <2>1. \A k \in 1..(m - 1) : k \in 1..m OBVIOUS
  <2> QED BY <1>5, <2>1
<1> QED BY <1>1, <1>5, <1>6, <1>7, <1>9, <1>10, <1>11, OrderedTop

(* A function numbers its parameters after itself. *)
LEMMA NewNumbered ==
  ASSUME Basic, NEW name \in Names \cup {None}, NEW params \in Parameters(name), NEW kind \in {"function", "lambda"},
         NEW into \in Symbol, NEW frame \in Frames
  PROVE  LET w == NewTable(name, params, declared + 1, kind, into, frame) IN
         /\ w \in Table /\ HasSelf(w) /\ w.kind = kind /\ w.slots[1] = declared + 1 /\ w.upvalues = <<>> /\ w.frame = frame
         /\ Numbered(w, declared + 1 + Len(params)) /\ Len(params) \in Nat /\ declared \in Nat
<1> DEFINE v == declared + 1
           n == Len(params)
           w == NewTable(name, params, v, kind, into, frame)
           d == Here.depth + 1
<1>1. Here \in Table /\ Here.depth \in Nat /\ declared \in Nat BY OnTop
<1>2. params \in Seq(Names) /\ n \in Nat BY ParametersType
<1>3. frame \in Nat
  <2>1. MaxTables \in Nat /\ Len(tables) \in Nat BY ScopesAssumption, OnTop
  <2> QED BY <2>1 DEF Frames
<1>4. v \in Nat /\ d \in Nat /\ d >= 1 /\ kind # "main" BY <1>1
<1> HIDE DEF v, w, d
<1>5. NewShape(w, name, params, v, d, kind, into, frame) BY <1>1, <1>2, <1>3, <1>4, NewTableTable DEF w, d
<1>6. HasSelf(w) BY <1>2, <1>4, <1>5, NewTableSelf
<1>7. w \in Table /\ w.kind = kind /\ w.slots[1] = v /\ w.upvalues = <<>> /\ w.frame = frame BY <1>5 DEF NewShape
<1>8. Len(Flat(w)) = n /\ \A p \in 1..n : Flat(w)[p].variable = v + p BY <1>2, <1>4, <1>5, NewPlaced
<1>9. Numbered(w, v + n)
  <2>1. v \in Nat /\ n \in Nat BY <1>2, <1>4
  <2> HIDE DEF n
  <2> QED BY <1>7, <1>8, <2>1 DEF Numbered
<1> QED BY <1>1, <1>2, <1>6, <1>7, <1>9 DEF w, v

(* ... the beginning of a function, *)
LEMMA BeginFunctionOrdered ==
  ASSUME Basic, InTextOrder, NEW n \in Names, NEW params \in Parameters(n), BeginFunction(n, params)
  PROVE  InTextOrder'
<1> DEFINE v == declared + 1
           s == Defined(Here, n, Len(params), Len(globals))
           x == WithSymbol(Here, s, v)
           e == v + Len(params)
<1>1. Basic' BY BeginFunctionBasic
<1>2. PICK frame \in Frames :
        tables' = Append([tables EXCEPT ![Len(tables)] = x], NewTable(n, params, v, "function", s, frame))
  BY DEF BeginFunction
<1> DEFINE w == NewTable(n, params, v, "function", s, frame)
<1>3. declared' = e BY DEF BeginFunction
<1>4. s \in Symbol /\ s.name # None
  <2>1. Here \in Table /\ Len(globals) \in Nat BY OnTop
  <2>2. Len(params) \in ParamCounts \cup {None} BY ParametersType
  <2> QED BY <2>1, <2>2, DefinedIs
<1> HIDE DEF s
<1>5. /\ w \in Table /\ w.kind = "function" /\ w.slots[1] = v /\ Numbered(w, e) /\ Len(params) \in Nat /\ declared \in Nat
  BY <1>4, NewNumbered
<1>6. /\ Here \in Table /\ HasSelf(Here) /\ Numbered(Here, declared)
      /\ Here.slots[1] < v /\ \A p \in 1..Len(Flat(Here)) : Flat(Here)[p].variable < v
  BY HereNumbered
<1>7. v \in Nat /\ e \in Nat /\ v <= e /\ declared <= e /\ declared < e BY <1>5
<1> HIDE DEF v, w, e
<1>8. /\ x \in Table /\ HasSelf(x) /\ Numbered(x, e) /\ SameHead(Here, x)
      /\ Len(Flat(x)) = Len(Flat(Here)) + 1 /\ \A p \in 1..Len(Flat(Here)) : Flat(x)[p] = Flat(Here)[p]
  BY <1>4, <1>5, <1>6, <1>7, DeclaredNumbered
<1> HIDE DEF x
<1>9. tables' = Append([tables EXCEPT ![Len(tables)] = x], w) BY <1>2 DEF w
<1>10. /\ Len(tables') = Len(tables) + 1 /\ tables'[Len(tables)] = x /\ tables'[Len(tables) + 1] = w
       /\ \A k \in 1..(Len(tables) - 1) : Alike(tables[k], tables'[k])
  BY <1>5, <1>8, <1>9, PushedTables
<1>11. ASSUME NEW p \in 1..Len(Flat(x)) PROVE Flat(x)[p].variable <= declared \/ (w.kind = "function" /\ p = Len(Flat(x)))
  <2>1. Len(Flat(Here)) \in Nat BY <1>6, FlatVariable
  <2>2. CASE p \in 1..Len(Flat(Here)) BY <1>6, <1>8, <2>2 DEF Numbered
  <2>3. CASE p = Len(Flat(x)) BY <1>5, <2>3
  <2> QED BY <1>8, <2>1, <2>2, <2>3
<1> QED BY <1>1, <1>3, <1>5, <1>7, <1>8, <1>10, <1>11, OrderedPushed DEF v

(* ... that of a lambda, *)
LEMMA BeginLambdaOrdered ==
  ASSUME Basic, InTextOrder, NEW n \in Names \cup {None}, NEW params \in Parameters(None), BeginLambda(n, params)
  PROVE  InTextOrder'
<1> DEFINE v == declared + 1
           s == IF n = None THEN Self(None, 0) ELSE Defined(Here, n, None, Len(globals))
           e == v + Len(params)
<1>1. Basic' BY BeginLambdaBasic
<1>2. PICK frame \in Frames : tables' = Append(tables, NewTable(None, params, v, "lambda", s, frame))
  BY DEF BeginLambda
<1> DEFINE w == NewTable(None, params, v, "lambda", s, frame)
<1>3. declared' = e BY DEF BeginLambda
<1>4. s \in Symbol
  <2>1. Here \in Table /\ Len(globals) \in Nat /\ None \in Names \cup {None} /\ None \in ParamCounts \cup {None} BY OnTop
  <2>2. CASE n = None
    <3>1. Self(None, 0) \in Symbol BY <2>1, SelfType
    <3> QED BY <2>2, <3>1
  <2>3. CASE n # None
    <3>1. n \in Names BY <2>3
    <3>2. Defined(Here, n, None, Len(globals)) \in Symbol BY <2>1, <3>1, DefinedIs
    <3> QED BY <2>3, <3>2
  <2> QED BY <2>2, <2>3
<1> HIDE DEF s
<1>5. /\ w \in Table /\ w.kind = "lambda" /\ w.slots[1] = v /\ Numbered(w, e) /\ Len(params) \in Nat /\ declared \in Nat
  <2>1. None \in Names \cup {None} OBVIOUS
  <2> QED BY <1>4, <2>1, NewNumbered
<1>6. /\ Here \in Table /\ HasSelf(Here) /\ Numbered(Here, declared) BY HereNumbered
<1>7. v \in Nat /\ e \in Nat /\ v <= e /\ declared <= e /\ declared < e BY <1>5
<1>8. tables \in Seq(Table) /\ Len(tables) >= 1 /\ Here = tables[Len(tables)] BY OnTop
<1> HIDE DEF v, w, e
<1>9. tables' = Append([tables EXCEPT ![Len(tables)] = Here], w)
  <2>1. tables = [tables EXCEPT ![Len(tables)] = Here] BY <1>8
  <2> QED BY <1>2, <2>1 DEF w
<1>10. /\ Len(tables') = Len(tables) + 1 /\ tables'[Len(tables)] = Here /\ tables'[Len(tables) + 1] = w
       /\ \A k \in 1..(Len(tables) - 1) : Alike(tables[k], tables'[k])
  BY <1>5, <1>6, <1>9, PushedTables
<1>11. Numbered(Here, e)
  <2>1. Len(Flat(Here)) \in Nat BY <1>6, FlatVariable
  <2>2. Len(Flat(Here)) <= Len(Flat(Here)) BY <2>1
  <2> QED BY <1>5, <1>6, <1>7, <2>2, NumberedFront
<1>12. \A p \in 1..Len(Flat(Here)) : Flat(Here)[p].variable <= declared BY <1>6 DEF Numbered
<1>13. SameHead(Here, Here) BY DEF SameHead
<1> QED BY <1>1, <1>3, <1>5, <1>6, <1>7, <1>10, <1>11, <1>12, <1>13, OrderedPushed DEF v

(* ... and the end of each: a lambda's variable is later than all around it. *)
LEMMA EndFunctionOrdered ==
  ASSUME Basic, InTextOrder, EndFunction
  PROVE  InTextOrder'
<1> DEFINE s == Here.into
           v == Here.slots[1]
<1>1. Basic' BY EndFunctionBasic
<1>2. /\ Len(tables) \in Nat /\ Here = tables[Len(tables)] /\ Here \in Table /\ Here.slots \in Seq(Nat)
      /\ Len(Here.slots) >= 1 /\ (Here.kind = "main" <=> Len(tables) = 1) /\ Len(tables) >= 1
      /\ Founded(Len(tables)) /\ tables \in Seq(Table) /\ HasSelf(Here)
  BY OnTop
<1>3. Here.kind # "main" /\ declared' = declared BY DEF EndFunction
<1>4. PICK m \in Nat : m = Len(tables) - 1
  <2>1. Len(tables) - 1 \in Nat BY <1>2
  <2> QED BY <2>1
<1>5. m >= 1 /\ Len(tables) = m + 1 /\ m \in 1..Len(tables) /\ m + 1 \in 1..Len(tables) /\ m < m + 1 /\ Here = tables[m + 1]
  BY <1>2, <1>3, <1>4
<1> DEFINE t == tables[m]
<1>6. t \in Table /\ HasSelf(t) BY <1>5, TablesOf
<1>7. declared \in Nat /\ Numbered(Here, declared) BY HereNumbered
<1>8. Numbered(t, declared) /\ Ordered(t, Here, TRUE)
  <2>1. Ordered(tables[m], tables[m + 1], m + 1 = m + 1) BY <1>5 DEF InTextOrder
  <2>2. (m + 1 = m + 1) = TRUE OBVIOUS
  <2> QED BY <1>5, <2>1, <2>2 DEF InTextOrder
<1>9. s \in Symbol /\ Here.kind \in {"function", "lambda"} /\ (Here.kind = "function" => s.name # None)
  <2>1. s \in Symbol BY <1>2, IntoFields
  <2>2. Here.kind \in {"function", "lambda"} BY <1>2, <1>3, TableFields
  <2> QED BY <1>2, <2>1, <2>2 DEF Founded
<1>10. v \in Nat /\ v <= declared BY <1>2, <1>7 DEF Numbered
<1>11. declared <= declared /\ declared <= declared' BY <1>3, <1>7
<1> HIDE DEF s, v, t
<1>12. ASSUME NEW u \in Table, HasSelf(u), tables' = [Front(tables) EXCEPT ![m] = u], SameHead(t, u), Numbered(u, declared)
       PROVE  InTextOrder'
  <2>1. Len(tables') = m /\ tables'[m] = u /\ \A k \in 1..(m - 1) : Alike(tables[k], tables'[k])
    BY <1>5, <1>12, PoppedTables
  <2>2. SameHead(tables[m], tables'[m]) BY <1>12, <2>1 DEF t
  <2>3. Numbered(tables'[m], declared') BY <1>3, <1>12, <2>1
  <2> QED BY <1>1, <1>5, <1>11, <2>1, <2>2, <2>3, OrderedTop
<1>13. CASE s.name = None
  <2>1. tables' = Front(tables) BY <1>13 DEF EndFunction, s
  <2>2. tables' = [Front(tables) EXCEPT ![m] = t] BY <1>2, <1>5, <2>1, FrontTables DEF t
  <2>3. SameHead(t, t) BY DEF SameHead
  <2> QED BY <1>6, <1>8, <1>12, <2>2, <2>3
<1>14. CASE s.name # None
  <2> DEFINE x == IF Here.kind = "lambda" THEN WithSymbol(t, s, v) ELSE t
             u == Stored(x, s, v)
  <2>1. tables' = [Front(tables) EXCEPT ![m] = u] BY <1>4, <1>14 DEF EndFunction, s, v, t
  <2>2. u \in Table /\ HasSelf(u) /\ SameHead(t, u) /\ Numbered(u, declared)
    <3>1. CASE Here.kind = "lambda"
      <4>1. t.slots[1] < v /\ \A p \in 1..Len(Flat(t)) : Flat(t)[p].variable < v
        BY <1>8, <3>1 DEF Ordered, v
      <4>2. u = Stored(WithSymbol(t, s, v), s, v) BY <3>1
      <4> HIDE DEF u
      <4> QED BY <1>6, <1>7, <1>8, <1>9, <1>10, <1>11, <1>14, <4>1, <4>2, DeclaredNumbered
    <3>2. CASE Here.kind # "lambda"
      <4>1. u = Stored(t, s, v) BY <3>2
      <4> HIDE DEF u
      <4>2. u \in Table /\ HasSelf(u) /\ SameSymbols(t, u) /\ SameHead(t, u)
        BY <1>6, <1>9, <1>10, <4>1, StoredTable, StoredSelf, StoredSame
      <4>3. Flat(u) = Flat(t) /\ u.slots[1] = t.slots[1] BY <4>2, SameFlat DEF SameHead
      <4>4. Numbered(u, declared) BY <1>8, <4>3 DEF Numbered
      <4> QED BY <4>2, <4>4
    <3> QED BY <3>1, <3>2
  <2> HIDE DEF u
  <2> QED BY <1>12, <2>1, <2>2
<1> QED BY <1>13, <1>14

(* The variables of a script begin with the libraries. *)
LEMMA InitOrdered == Init => InTextOrder
<1> SUFFICES ASSUME Init PROVE InTextOrder OBVIOUS
<1>1. tables = <<Start>> /\ declared = Len(Libraries) /\ Len(Libraries) \in Nat BY ScopesAssumption DEF Init
<1>2. Len(tables) = 1 /\ tables[1] = Start BY <1>1
<1>3. Start.slots[1] = 0 BY StartTable DEF Nothing
<1>4. Len(Flat(Start)) = Len(Libraries) /\ \A p \in 1..Len(Libraries) : Flat(Start)[p].variable = p BY StartPlaced
<1>5. Numbered(Start, declared) BY <1>1, <1>3, <1>4 DEF Numbered
<1>6. \A k \in 1..Len(tables) : k = 1 BY <1>2
<1> QED BY <1>2, <1>5, <1>6 DEF InTextOrder

(* Every step keeps the order, whatever a script uses. *)
LEMMA NextOrdered ==
  ASSUME Basic, InTextOrder, [Next]_vars
  PROVE  InTextOrder'
<1>1. ASSUME NEW n \in Names, Declare(n) PROVE InTextOrder' BY <1>1, DeclareOrdered
<1>2. ASSUME NEW n \in Names, NEW params \in Parameters(n), BeginFunction(n, params) PROVE InTextOrder'
  BY <1>2, BeginFunctionOrdered
<1>3. ASSUME NEW n \in Names \cup {None}, NEW params \in Parameters(None), BeginLambda(n, params) PROVE InTextOrder'
  BY <1>3, BeginLambdaOrdered
<1>4. CASE EndFunction BY <1>4, EndFunctionOrdered
<1>5. CASE EnterScope BY <1>5, EnterScopeOrdered
<1>6. CASE ExitScope BY <1>6, ExitScopeOrdered
<1>7. ASSUME NEW n \in Names, NEW c \in ParamCounts \cup {None}, Identifier(n, c) PROVE InTextOrder' BY <1>7, IdentifierOrdered
<1>8. CASE Compile
  <2>1. Init' BY <1>8 DEF Compile, Init
  <2>2. Init' => InTextOrder' BY InitOrdered, PTL
  <2> QED BY <2>1, <2>2
<1>9. CASE UNCHANGED vars BY <1>9 DEF vars, InTextOrder
<1> QED BY <1>1, <1>2, <1>3, <1>4, <1>5, <1>6, <1>7, <1>8, <1>9 DEF Next

-----------------------------------------------------------------------------
(* What a handler leaves alone *)

(* The closure that runs, and what it has captured, stay. *)
SameClosure(t, u) == u.frame = t.frame /\ u.upvalues = t.upvalues /\ u.kind = t.kind

(* The handlers but Identifier change at most the m-th table, not what it     *)
(* captures, end the one above or begin one, which has captured nothing.      *)
Continued(m) ==
  /\ m \in 1..Len(tables) /\ Len(tables') \in {m, m + 1}
  /\ \A k \in 1..(m - 1) : tables'[k] = tables[k]
  /\ SameClosure(tables[m], tables'[m])
  /\ Len(tables') = m + 1 => /\ m = Len(tables) /\ tables'[m + 1].upvalues = <<>>
                             /\ tables'[m + 1].frame \in Frames /\ tables'[m + 1].kind # "main"

(* A handler that changes the table on top, *)
LEMMA ContinuedHere ==
  ASSUME Basic, NEW u \in Table, tables' = [tables EXCEPT ![Len(tables)] = u], SameClosure(Here, u)
  PROVE  Continued(Len(tables))
<1>1. PICK m \in Nat : m = Len(tables) BY TablesOf
<1>2. tables \in Seq(Table) /\ m >= 1 /\ Here = tables[m] BY <1>1, OnTop
<1>3. Len(tables') = m /\ tables'[m] = u /\ \A k \in 1..(m - 1) : tables'[k] = tables[k] BY <1>1, <1>2
<1>4. m \in 1..Len(tables) /\ m # m + 1 BY <1>1, <1>2
<1> QED BY <1>1, <1>2, <1>3, <1>4 DEF Continued

(* ... begins a function, *)
LEMMA ContinuedPushed ==
  ASSUME Basic, NEW u \in Table, NEW w \in Table, tables' = Append([tables EXCEPT ![Len(tables)] = u], w), SameClosure(Here, u),
         w.upvalues = <<>>, w.frame \in Frames, w.kind # "main"
  PROVE  Continued(Len(tables))
<1>1. PICK m \in Nat : m = Len(tables) BY TablesOf
<1>2. tables \in Seq(Table) /\ m >= 1 /\ Here = tables[m] BY <1>1, OnTop
<1> DEFINE f == [tables EXCEPT ![m] = u]
<1>3. f \in Seq(Table) /\ Len(f) = m /\ f[m] = u /\ \A k \in 1..(m - 1) : f[k] = tables[k] BY <1>1, <1>2
<1>4. tables' = Append(f, w) BY <1>1
<1> HIDE DEF f
<1>5. Len(tables') = m + 1 /\ tables'[m + 1] = w /\ \A k \in 1..m : tables'[k] = f[k] BY <1>1, <1>3, <1>4
<1>6. \A k \in 1..(m - 1) : k \in 1..m OBVIOUS
<1>7. m \in 1..Len(tables) /\ m \in 1..m BY <1>1, <1>2
<1> QED BY <1>1, <1>2, <1>3, <1>5, <1>6, <1>7 DEF Continued

(* ... or ends one. *)
LEMMA ContinuedPopped ==
  ASSUME Basic, NEW m \in Nat, m >= 1, Len(tables) = m + 1, NEW u \in Table, tables' = [Front(tables) EXCEPT ![m] = u],
         SameClosure(tables[m], u)
  PROVE  Continued(m)
<1>1. tables \in Seq(Table) /\ tables # <<>> BY OnTop
<1> DEFINE f == Front(tables)
<1>2. f \in Seq(Table) /\ Len(f) = m /\ \A k \in 1..m : f[k] = tables[k]
  <2>1. Front(tables) \in Seq(Table) /\ Len(Front(tables)) = Len(tables) - 1
        /\ \A k \in 1..(Len(tables) - 1) : Front(tables)[k] = tables[k]
    BY <1>1, Fronted
  <2> QED BY <2>1
<1>3. tables' = [f EXCEPT ![m] = u] OBVIOUS
<1> HIDE DEF f
<1>4. Len(tables') = m /\ tables'[m] = u /\ \A k \in 1..(m - 1) : tables'[k] = f[k] BY <1>2, <1>3
<1>5. \A k \in 1..(m - 1) : k \in 1..m OBVIOUS
<1>6. m \in 1..Len(tables) /\ m # m + 1 OBVIOUS
<1> QED BY <1>2, <1>4, <1>5, <1>6 DEF Continued

(* A declaration captures nothing. *)
LEMMA DeclaredClosure ==
  ASSUME NEW t \in Table, HasSelf(t), NEW s \in Symbol, s.name # None, NEW v \in Nat
  PROVE  LET x == WithSymbol(t, s, v)
             u == Stored(x, s, v)
         IN x \in Table /\ SameClosure(t, x) /\ u \in Table /\ SameClosure(t, u)
<1> DEFINE x == WithSymbol(t, s, v)
           u == Stored(x, s, v)
<1>1. t.blocks # <<>> BY SelfHasBlock
<1>2. x \in Table /\ x.frame = t.frame /\ x.upvalues = t.upvalues /\ x.kind = t.kind BY <1>1, WithSymbolTable
<1> HIDE DEF x
<1>3. u \in Table /\ u.frame = x.frame /\ u.upvalues = x.upvalues /\ u.kind = x.kind BY <1>2, StoredTable
<1> HIDE DEF u
<1> QED BY <1>2, <1>3 DEF x, u, SameClosure

(* Every handler but Identifier and Compile goes on like that. *)
LEMMA Continues ==
  ASSUME Basic,
         \/ \E n \in Names : Declare(n)
         \/ \E n \in Names : \E params \in Parameters(n) : BeginFunction(n, params)
         \/ \E n \in Names \cup {None} : \E params \in Parameters(None) : BeginLambda(n, params)
         \/ EndFunction \/ EnterScope \/ ExitScope
  PROVE  \E m \in Nat : Continued(m)
<1>1. /\ tables \in Seq(Table) /\ Len(tables) \in Nat /\ Len(tables) >= 1 /\ Here = tables[Len(tables)] /\ Here \in Table /\ HasSelf(Here)
      /\ declared \in Nat /\ Len(globals) \in Nat /\ (Here.kind = "main" <=> Len(tables) = 1)
  <2>1. declared \in Nat BY DEF Basic, TypeOK
  <2> QED BY <2>1, OnTop
<1>2. ASSUME NEW n \in Names, Declare(n) PROVE Continued(Len(tables))
  <2> DEFINE v == declared + 1
             s == Defined(Here, n, None, Len(globals))
             u == Stored(WithSymbol(Here, s, v), s, v)
  <2>1. tables' = [tables EXCEPT ![Len(tables)] = u] BY <1>2 DEF Declare
  <2>2. s \in Symbol /\ s.name # None
    <3>1. None \in ParamCounts \cup {None} OBVIOUS
    <3> QED BY <1>1, <3>1, DefinedIs
  <2>3. v \in Nat BY <1>1
  <2> HIDE DEF s, v
  <2>4. u \in Table /\ SameClosure(Here, u) BY <1>1, <2>2, <2>3, DeclaredClosure
  <2> HIDE DEF u
  <2> QED BY <2>1, <2>4, ContinuedHere
<1>3. ASSUME NEW n \in Names, NEW params \in Parameters(n), BeginFunction(n, params) PROVE Continued(Len(tables))
  <2> DEFINE v == declared + 1
             s == Defined(Here, n, Len(params), Len(globals))
             x == WithSymbol(Here, s, v)
  <2>1. PICK frame \in Frames :
          tables' = Append([tables EXCEPT ![Len(tables)] = x], NewTable(n, params, v, "function", s, frame))
    BY <1>3 DEF BeginFunction
  <2> DEFINE w == NewTable(n, params, v, "function", s, frame)
  <2>2. s \in Symbol /\ s.name # None
    <3>1. Len(params) \in ParamCounts \cup {None} BY ParametersType
    <3> QED BY <1>1, <3>1, DefinedIs
  <2> HIDE DEF s
  <2>3. w \in Table /\ w.kind = "function" /\ w.upvalues = <<>> /\ w.frame = frame BY <2>2, NewNumbered
  <2>4. v \in Nat BY <1>1
  <2> HIDE DEF v, w
  <2>5. x \in Table /\ SameClosure(Here, x) BY <1>1, <2>2, <2>4, DeclaredClosure
  <2> HIDE DEF x
  <2>6. tables' = Append([tables EXCEPT ![Len(tables)] = x], w) BY <2>1 DEF w
  <2>7. w.kind # "main" BY <2>3
  <2> QED BY <2>3, <2>5, <2>6, <2>7, ContinuedPushed
<1>4. ASSUME NEW n \in Names \cup {None}, NEW params \in Parameters(None), BeginLambda(n, params) PROVE Continued(Len(tables))
  <2> DEFINE v == declared + 1
             s == IF n = None THEN Self(None, 0) ELSE Defined(Here, n, None, Len(globals))
  <2>1. PICK frame \in Frames : tables' = Append(tables, NewTable(None, params, v, "lambda", s, frame))
    BY <1>4 DEF BeginLambda
  <2> DEFINE w == NewTable(None, params, v, "lambda", s, frame)
  <2>2. s \in Symbol
    <3>1. None \in Names \cup {None} /\ None \in ParamCounts \cup {None} OBVIOUS
    <3>2. CASE n = None
      <4>1. Self(None, 0) \in Symbol BY <3>1, SelfType
      <4> QED BY <3>2, <4>1
    <3>3. CASE n # None
      <4>1. n \in Names BY <3>3
      <4>2. Defined(Here, n, None, Len(globals)) \in Symbol BY <1>1, <3>1, <4>1, DefinedIs
      <4> QED BY <3>3, <4>2
    <3> QED BY <3>2, <3>3
  <2> HIDE DEF s
  <2>3. w \in Table /\ w.kind = "lambda" /\ w.upvalues = <<>> /\ w.frame = frame
    <3>1. None \in Names \cup {None} OBVIOUS
    <3> QED BY <2>2, <3>1, NewNumbered
  <2> HIDE DEF v, w
  <2>4. tables' = Append([tables EXCEPT ![Len(tables)] = Here], w)
    <3>1. tables = [tables EXCEPT ![Len(tables)] = Here] BY <1>1
    <3> QED BY <2>1, <3>1 DEF w
  <2>5. SameClosure(Here, Here) /\ w.kind # "main" BY <2>3 DEF SameClosure
  <2> QED BY <1>1, <2>3, <2>4, <2>5, ContinuedPushed
<1>5. CASE EndFunction
  <2> DEFINE s == Here.into
             v == Here.slots[1]
  <2>1. Here.kind # "main" BY <1>5 DEF EndFunction
  <2>2. PICK m \in Nat : m = Len(tables) - 1
    <3>1. Len(tables) - 1 \in Nat BY <1>1
    <3> QED BY <3>1
  <2>3. m >= 1 /\ Len(tables) = m + 1 /\ m \in 1..Len(tables) BY <1>1, <2>1, <2>2
  <2> DEFINE t == tables[m]
  <2>4. t \in Table /\ HasSelf(t) BY <2>3, TablesOf
  <2>5. s \in Symbol BY <1>1, IntoFields
  <2>6. v \in Nat BY <1>1, FlatVariable
  <2> HIDE DEF s, v, t
  <2>7. CASE s.name = None
    <3>1. tables' = Front(tables) BY <1>5, <2>7 DEF EndFunction, s
    <3>2. tables' = [Front(tables) EXCEPT ![m] = t] BY <1>1, <2>3, <3>1, FrontTables DEF t
    <3>3. SameClosure(tables[m], t) BY DEF SameClosure, t
    <3> QED BY <2>3, <2>4, <3>2, <3>3, ContinuedPopped
  <2>8. CASE s.name # None
    <3> DEFINE x == IF Here.kind = "lambda" THEN WithSymbol(t, s, v) ELSE t
               u == Stored(x, s, v)
    <3>1. tables' = [Front(tables) EXCEPT ![m] = u] BY <1>5, <2>2, <2>8 DEF EndFunction, s, v, t
    <3>2. x \in Table /\ SameClosure(t, x)
      <4>1. CASE Here.kind = "lambda"
        <5>1. WithSymbol(t, s, v) \in Table /\ SameClosure(t, WithSymbol(t, s, v)) BY <2>4, <2>5, <2>6, <2>8, DeclaredClosure
        <5> QED BY <4>1, <5>1
      <4>2. CASE Here.kind # "lambda" BY <2>4, <4>2 DEF SameClosure
      <4> QED BY <4>1, <4>2
    <3> HIDE DEF x
    <3>3. u \in Table /\ u.frame = x.frame /\ u.upvalues = x.upvalues /\ u.kind = x.kind BY <2>5, <2>6, <3>2, StoredTable
    <3> HIDE DEF u
    <3>4. SameClosure(tables[m], u) BY <3>2, <3>3 DEF SameClosure, t
    <3> QED BY <2>3, <3>1, <3>3, <3>4, ContinuedPopped
  <2> QED BY <2>7, <2>8
<1>6. CASE EnterScope
  <2> DEFINE u == [Here EXCEPT !.depth = @ + 1, !.blocks = Append(@, <<>>)]
  <2>1. tables' = [tables EXCEPT ![Len(tables)] = u] BY <1>6 DEF EnterScope
  <2>2. u \in Table /\ u.upvalues = Here.upvalues /\ u.kind = Here.kind /\ u.frame = Here.frame BY <1>1, EnteredTable
  <2> HIDE DEF u
  <2>3. SameClosure(Here, u) BY <2>2 DEF SameClosure
  <2> QED BY <1>1, <2>1, <2>2, <2>3, ContinuedHere
<1>7. CASE ExitScope
  <2> DEFINE u == Exited(Here)
  <2>1. tables' = [tables EXCEPT ![Len(tables)] = u] BY <1>7 DEF ExitScope, Exited, Gone
  <2>2. Len(Here.blocks) > (IF Here.kind = "main" THEN 1 ELSE 2) BY <1>7 DEF ExitScope, InBlock
  <2>3. Cardinality(LocalsOf(Here)) = Len(Here.slots) /\ Here.slots \in Seq(Nat) /\ Here.blocks # <<>> BY OnTop
  <2>4. /\ Cardinality(Gone(Here)) \in Nat /\ Cardinality(Gone(Here)) < Len(Here.slots) /\ Here.depth >= 1
    BY <1>1, <2>2, <2>3, ExitedSelf
  <2>5. Cardinality(Gone(Here)) <= Len(Here.slots) BY <2>3, <2>4
  <2>6. u \in Table /\ u.upvalues = Here.upvalues /\ u.kind = Here.kind /\ u.frame = Here.frame BY <1>1, <2>3, <2>4, <2>5, ExitedTable
  <2> HIDE DEF u
  <2>7. SameClosure(Here, u) BY <2>6 DEF SameClosure
  <2> QED BY <1>1, <2>1, <2>6, <2>7, ContinuedHere
<1> QED BY <1>1, <1>2, <1>3, <1>4, <1>5, <1>6, <1>7

-----------------------------------------------------------------------------
(* Names *)

(* The declarations a name can stand for. *)
Meanings(n, c) == {d \in Declaration : d.name = n /\ Compatible(d.params, c)}

(* Resolve finds in a table the last declaration of the name, or slot 0 if    *)
(* there is none and the function has the name.                               *)
LEMMA FoundInTable ==
  ASSUME NEW t \in Table, HasSelf(t), Placed(t), NEW n \in Names, NEW c
  PROVE  LET i == Found(t, n, c)
             M == Meanings(n, c)
         IN /\ i \in 0..Len(t.symbols)
            /\ i < 2 => \A p \in 1..Len(Flat(t)) : Flat(t)[p] \notin M
            /\ i = 0 => t.symbols[1].name # n
            /\ i = 1 => t.symbols[1].name = n
            /\ i >= 2 => \E p \in 1..Len(Flat(t)) :
                           /\ PlacedAt(t, p, t.symbols[i]) /\ Flat(t)[p] \in M
                           /\ \A q \in (p + 1)..Len(Flat(t)) : Flat(t)[q] \notin M
<1> DEFINE i == Found(t, n, c)
           M == Meanings(n, c)
<1>1. /\ i \in 0..Len(t.symbols) /\ (i # 0 => Matches(t, i, n, c))
      /\ \A j \in 1..Len(t.symbols) : Matches(t, j, n, c) => j <= i
  BY FoundIs
<1>2. PICK at \in Seq(Nat) : Places(t, at) BY DEF Placed
<1>3. /\ Len(at) = Len(Flat(t)) /\ \A p \in 1..Len(at) : at[p] \in 2..Len(t.symbols) /\ PlacedAt(t, p, t.symbols[at[p]])
      /\ \A p, q \in 1..Len(at) : p < q => at[p] < at[q]
      /\ \A j \in 2..Len(t.symbols) : t.symbols[j].scopeDepth <= t.depth => \E p \in 1..Len(at) : at[p] = j
  BY <1>2 DEF Places
<1>4. Len(t.symbols) \in Nat /\ Len(t.symbols) >= 1 BY SelfHasBlock, TableFields
<1>5. /\ Len(Flat(t)) \in Nat /\ \A p \in 1..Len(Flat(t)) : Flat(t)[p] \in Declaration
  BY FlatVariable
<1> HIDE DEF i
<1>6. ASSUME NEW p \in 1..Len(Flat(t)) PROVE Matches(t, at[p], n, c) <=> Flat(t)[p] \in M
  <2>1. PlacedAt(t, p, t.symbols[at[p]]) BY <1>3
  <2>2. /\ t.symbols[at[p]].name = Flat(t)[p].name /\ t.symbols[at[p]].params = Flat(t)[p].params
        /\ t.symbols[at[p]].scopeDepth <= t.depth
    BY <2>1 DEF PlacedAt
  <2> QED BY <1>5, <2>2 DEF Matches, Meanings
<1>7. ASSUME NEW p \in 1..Len(Flat(t)), Flat(t)[p] \in M PROVE at[p] <= i /\ i >= 2
  <2>1. at[p] \in 2..Len(t.symbols) /\ at[p] \in 1..Len(t.symbols) BY <1>3
  <2>2. at[p] <= i BY <1>1, <1>6, <1>7, <2>1
  <2> QED BY <1>1, <2>1, <2>2
<1>8. Matches(t, 1, n, c) <=> t.symbols[1].name = n
  <2>1. 1 \in 1..Len(t.symbols) BY <1>4
  <2>2. t.symbols[1].scopeDepth \in Nat /\ t.depth \in Nat /\ Len(t.blocks) \in Nat /\ Len(t.blocks) >= 1
    BY <2>1, SymbolFields, SelfHasBlock, FlatType
  <2>3. t.symbols[1].scopeDepth + Len(t.blocks) = t.depth + 1 /\ t.symbols[1].params = None BY DEF HasSelf
  <2>4. t.symbols[1].scopeDepth <= t.depth BY <2>2, <2>3
  <2> QED BY <2>3, <2>4 DEF Matches, Compatible
<1>9. i < 2 => \A p \in 1..Len(Flat(t)) : Flat(t)[p] \notin M
  <2> SUFFICES ASSUME i < 2, NEW p \in 1..Len(Flat(t)), Flat(t)[p] \in M PROVE FALSE OBVIOUS
  <2>1. i >= 2 BY <1>7
  <2> QED BY <1>1, <2>1
<1>10. i = 0 => t.symbols[1].name # n
  <2> SUFFICES ASSUME i = 0, t.symbols[1].name = n PROVE FALSE OBVIOUS
  <2>1. 1 \in 1..Len(t.symbols) BY <1>4
  <2>2. 1 <= i BY <1>1, <1>8, <2>1
  <2> QED BY <2>2
<1>11. i = 1 => t.symbols[1].name = n BY <1>1, <1>8
<1>12. ASSUME i >= 2
       PROVE  \E p \in 1..Len(Flat(t)) : /\ PlacedAt(t, p, t.symbols[i]) /\ Flat(t)[p] \in M
                                         /\ \A q \in (p + 1)..Len(Flat(t)) : Flat(t)[q] \notin M
  <2>1. i \in 2..Len(t.symbols) /\ Matches(t, i, n, c) BY <1>1, <1>12
  <2>2. t.symbols[i].scopeDepth <= t.depth BY <2>1 DEF Matches
  <2>3. PICK p \in 1..Len(Flat(t)) : at[p] = i BY <1>3, <2>1, <2>2
  <2>4. Flat(t)[p] \in M BY <1>6, <2>1, <2>3
  <2>5. PlacedAt(t, p, t.symbols[i]) BY <1>3, <2>3
  <2>6. ASSUME NEW q \in (p + 1)..Len(Flat(t)), Flat(t)[q] \in M PROVE FALSE
    <3>1. q \in 1..Len(Flat(t)) /\ p < q BY <1>5
    <3>2. at[q] <= i BY <1>7, <2>6, <3>1
    <3>3. at[p] < at[q] BY <1>3, <3>1
    <3>4. at[q] \in 2..Len(t.symbols) BY <1>3, <3>1
    <3> QED BY <1>1, <2>3, <3>2, <3>3, <3>4
  <2> QED BY <2>4, <2>5, <2>6
<1> QED BY <1>1, <1>9, <1>10, <1>11, <1>12 DEF i

(* In the text, a name stands for its last declaration in the innermost table *)
(* that has one.                                                              *)
LEMMA LexicalIs ==
  ASSUME Basic, NEW n, NEW c
  PROVE  /\ (\A k \in 1..Len(tables) : \A p \in 1..Len(Flat(tables[k])) : Flat(tables[k])[p] \notin Meanings(n, c))
              => Lexical(n, c) = None
         /\ \A k \in 1..Len(tables) : \A p \in 1..Len(Flat(tables[k])) :
              /\ Flat(tables[k])[p] \in Meanings(n, c)
              /\ \A q \in (p + 1)..Len(Flat(tables[k])) : Flat(tables[k])[q] \notin Meanings(n, c)
              /\ \A l \in (k + 1)..Len(tables) : \A q \in 1..Len(Flat(tables[l])) : Flat(tables[l])[q] \notin Meanings(n, c)
              => Lexical(n, c) = Flat(tables[k])[p].variable
<1> DEFINE s == [k \in 1..Len(tables) |-> Flat(tables[k])]
           M == Meanings(n, c)
           all == FlattenSeq(s)
           here == {i \in DOMAIN all : all[i].name = n /\ Compatible(all[i].params, c)}
           these == {i \in DOMAIN all : all[i] \in M}
<1>1. /\ Len(tables) \in Nat /\ DOMAIN tables = 1..Len(tables)
      /\ \A k \in 1..Len(tables) : tables[k] \in Table /\ HasSelf(tables[k])
  BY TablesOf
<1>2. ASSUME NEW k \in 1..Len(tables) PROVE Flat(tables[k]) \in Seq(Declaration)
  <2>1. tables[k] \in Table /\ HasSelf(tables[k]) BY <1>1
  <2> QED BY <2>1, FlatVariable
<1>3. s \in Seq(Seq(Declaration)) /\ Len(s) = Len(tables) /\ \A k \in 1..Len(tables) : s[k] = Flat(tables[k])
  <2>1. s \in [1..Len(tables) -> Seq(Declaration)] BY <1>2
  <2>2. \A k \in 1..Len(tables) : s[k] = Flat(tables[k]) OBVIOUS
  <2> HIDE DEF s
  <2> QED BY <1>1, <2>1, <2>2, IsSeq
<1>4. s = [k \in DOMAIN tables |-> FlattenSeq(tables[k].blocks)] BY <1>1 DEF Flat
<1>5. Lexical(n, c) = IF here = {} THEN None ELSE all[Max(here)].variable BY <1>4 DEF Lexical
<1> HIDE DEF s
<1>6. all \in Seq(Declaration) BY <1>3, FlattenType
<1> HIDE DEF all, M
<1>7. here = these
  <2>1. \A i \in DOMAIN all : all[i] \in Declaration BY <1>6
  <2> QED BY <2>1 DEF M, Meanings
<1>8. Lexical(n, c) = IF these = {} THEN None ELSE all[Max(these)].variable BY <1>5, <1>7
<1> HIDE DEF here
<1>9. ASSUME \A k \in 1..Len(tables) : \A p \in 1..Len(Flat(tables[k])) : Flat(tables[k])[p] \notin M
      PROVE  Lexical(n, c) = None
  <2>1. \A k \in 1..Len(s) : \A p \in 1..Len(s[k]) : s[k][p] \notin M BY <1>3, <1>9
  <2>2. \A i \in 1..Len(all) : all[i] \notin M BY <1>3, <2>1, FlattenWithout DEF all
  <2>3. these = {}
    <3>1. DOMAIN all = 1..Len(all) BY <1>6
    <3> QED BY <2>2, <3>1
  <2> QED BY <1>8, <2>3
<1>10. ASSUME NEW k \in 1..Len(tables), NEW p \in 1..Len(Flat(tables[k])), Flat(tables[k])[p] \in M,
              \A q \in (p + 1)..Len(Flat(tables[k])) : Flat(tables[k])[q] \notin M,
              \A l \in (k + 1)..Len(tables) : \A q \in 1..Len(Flat(tables[l])) : Flat(tables[l])[q] \notin M
       PROVE  Lexical(n, c) = Flat(tables[k])[p].variable
  <2> DEFINE x == Flat(tables[k])[p]
  <2>1. k \in 1..Len(s) /\ s[k] = Flat(tables[k]) BY <1>3
  <2>2. LastIn(s[k], M, x) BY <1>10, <2>1 DEF LastIn
  <2>3. \A l \in (k + 1)..Len(s) : \A i \in 1..Len(s[l]) : s[l][i] \notin M
    <3>1. \A l \in (k + 1)..Len(tables) : l \in 1..Len(tables) BY <1>1
    <3> QED BY <1>3, <1>10, <3>1
  <2>4. x \in M BY <1>10
  <2> HIDE DEF x
  <2>5. LastIn(all, M, x) BY <1>3, <2>1, <2>2, <2>3, FlattenLatest DEF all
  <2>6. these # {} /\ all[Max(these)] = x BY <1>6, <2>4, <2>5, LastInMax
  <2> QED BY <1>8, <2>6 DEF x
<1> QED BY <1>9, <1>10 DEF M

(* An overload of a function is not called from its namesake. *)
CallsItself(n, c) == \A k \in 2..Len(tables) : tables[k].symbols[1].name = n => tables[k].into.params = c

(* v is what declaration p of table k names, and that is not the function in  *)
(* the next table.                                                            *)
Denotes(k, p, v) ==
  /\ p \in 1..Len(Flat(tables[k])) /\ v = Flat(tables[k])[p].variable
  /\ k < Len(tables) /\ tables[k + 1].kind = "function" => p # Len(Flat(tables[k]))

(* A name that Resolve finds stands for the function itself, or for the       *)
(* declaration of the symbol; one that it refuses stands for nothing.         *)
LEMMA LookedUp ==
  ASSUME Shaped, NEW n \in Names, NEW c, c = None \/ CallsItself(n, c)
  PROVE  LET h == Home(n, c)
             i == Found(tables[h], n, c)
             v == Lexical(n, c)
         IN /\ h = 0 => v = None
            /\ h # 0 => /\ h \in 1..Len(tables) /\ i \in 1..Len(tables[h].symbols)
                        /\ \/ i = 1 /\ h >= 2 /\ v = tables[h].slots[1]
                           \/ \E p \in 1..Len(Flat(tables[h])) :
                                Denotes(h, p, v) /\ PlacedAt(tables[h], p, tables[h].symbols[i])
<1> DEFINE h == Home(n, c)
           i == Found(tables[h], n, c)
           v == Lexical(n, c)
           M == Meanings(n, c)
<1>1. /\ tables \in Seq(Table) /\ Len(tables) \in Nat /\ DOMAIN tables = 1..Len(tables) /\ Basic
      /\ \A k \in 1..Len(tables) : tables[k] \in Table /\ HasSelf(tables[k]) /\ Founded(k) /\ Formed(k)
  BY TablesOf DEF Shaped
<1>2. \A k \in 1..Len(tables) : Placed(tables[k]) BY <1>1 DEF Formed
<1>3. /\ h \in 0..Len(tables) /\ (h # 0 => Found(tables[h], n, c) # 0)
      /\ \A k \in 1..Len(tables) : Found(tables[k], n, c) # 0 => k <= h
  BY <1>1, HomeIs
<1> HIDE DEF h, v
<1>4. ASSUME NEW k \in 1..Len(tables), k > h
      PROVE  tables[k].symbols[1].name # n /\ \A p \in 1..Len(Flat(tables[k])) : Flat(tables[k])[p] \notin M
  <2>1. Found(tables[k], n, c) = 0 BY <1>1, <1>3, <1>4
  <2>2. tables[k] \in Table /\ HasSelf(tables[k]) /\ Placed(tables[k]) BY <1>1, <1>2
  <2>3. 0 < 2 OBVIOUS
  <2> HIDE DEF M
  <2> QED BY <2>1, <2>2, <2>3, FoundInTable DEF M
<1>5. CASE h = 0
  <2>1. \A k \in 1..Len(tables) : k > h BY <1>1, <1>5
  <2>2. \A k \in 1..Len(tables) : \A p \in 1..Len(Flat(tables[k])) : Flat(tables[k])[p] \notin M BY <1>4, <2>1
  <2>3. Lexical(n, c) = None BY <1>1, <2>2, LexicalIs
  <2> QED BY <1>5, <2>3 DEF h, v
<1>6. CASE h # 0
  <2> DEFINE t == tables[h]
  <2>1. h \in 1..Len(tables) /\ h \in Nat BY <1>1, <1>3, <1>6
  <2>2. t \in Table /\ HasSelf(t) /\ Placed(t) BY <1>1, <1>2, <2>1
  <2>3. i # 0 BY <1>3, <1>6
  <2>4. /\ i \in 0..Len(t.symbols)
        /\ i < 2 => \A p \in 1..Len(Flat(t)) : Flat(t)[p] \notin M
        /\ i = 1 => t.symbols[1].name = n
        /\ i >= 2 => \E p \in 1..Len(Flat(t)) :
                       /\ PlacedAt(t, p, t.symbols[i]) /\ Flat(t)[p] \in M
                       /\ \A q \in (p + 1)..Len(Flat(t)) : Flat(t)[q] \notin M
    BY <2>2, FoundInTable
  <2> HIDE DEF i, t
  <2>5. Len(t.symbols) \in Nat BY <2>2, TableFields
  <2>6. i \in 1..Len(t.symbols) /\ (i = 1 \/ i >= 2) BY <2>3, <2>4, <2>5
  <2>7. n # None BY ScopesAssumption
  <2>8. CASE i = 1
    <3>1. t.symbols[1].name = n /\ \A p \in 1..Len(Flat(t)) : Flat(t)[p] \notin M BY <2>4, <2>8
    <3>2. t.kind # "main" BY <2>2, <2>7, <3>1 DEF HasSelf
    <3>3. h >= 2
      <4>1. Founded(h) BY <1>1, <2>1
      <4>2. h # 1 BY <3>2, <4>1 DEF Founded, t
      <4> QED BY <2>1, <4>2
    <3>4. PICK g \in Nat : g = h - 1
      <4>1. h - 1 \in Nat BY <2>1, <3>3
      <4> QED BY <4>1
    <3>5. g \in 1..Len(tables) /\ g + 1 = h BY <1>1, <2>1, <3>3, <3>4
    <3>6. Joined(t, tables[g])
      <4>1. Formed(h) /\ h # 1 BY <1>1, <2>1, <3>3
      <4> QED BY <3>4, <4>1 DEF Formed, t
    <3>7. t.kind = "function"
      <4>1. t.kind \in {"main", "function", "lambda"} BY <2>2, TableFields
      <4>2. t.kind # "lambda" BY <2>7, <3>1, <3>6 DEF Joined, LambdaInto
      <4> QED BY <3>2, <4>1, <4>2
    <3>8. FunctionInto(t, tables[g]) BY <3>6, <3>7 DEF Joined
    <3> DEFINE f == Flat(tables[g])
    <3>9. f \in Seq(Declaration) /\ Len(f) \in Nat /\ f # <<>> /\ t.into.name = n
          /\ f[Len(f)] = [name |-> t.into.name, params |-> t.into.params, variable |-> t.slots[1]]
      <4>1. tables[g] \in Table /\ HasSelf(tables[g]) BY <1>1, <3>5
      <4>2. f \in Seq(Declaration) /\ Len(f) \in Nat BY <4>1, FlatVariable
      <4> QED BY <3>1, <3>8, <4>2 DEF FunctionInto
    <3> HIDE DEF f
    <3>10. Len(f) >= 1 /\ Len(f) \in 1..Len(f) BY <3>9
    <3>11. c = None \/ t.into.params = c
      <4>1. h \in 2..Len(tables) BY <2>1, <3>3
      <4> QED BY <3>1, <4>1 DEF CallsItself, t
    <3>12. f[Len(f)] \in M /\ f[Len(f)].variable = t.slots[1]
      <4>1. f[Len(f)] \in Declaration BY <3>9, <3>10
      <4>2. f[Len(f)].name = n /\ f[Len(f)].params = t.into.params /\ f[Len(f)].variable = t.slots[1] BY <3>9
      <4>3. Compatible(f[Len(f)].params, c) BY <3>11, <4>2 DEF Compatible
      <4> QED BY <4>1, <4>2, <4>3 DEF Meanings
    <3>13. \A q \in (Len(f) + 1)..Len(f) : f[q] \notin M BY <3>9
    <3>14. \A l \in (g + 1)..Len(tables) : \A q \in 1..Len(Flat(tables[l])) : Flat(tables[l])[q] \notin M
      <4> SUFFICES ASSUME NEW l \in (g + 1)..Len(tables) PROVE \A q \in 1..Len(Flat(tables[l])) : Flat(tables[l])[q] \notin M
        OBVIOUS
      <4>1. l \in 1..Len(tables) /\ (l = h \/ l > h) BY <1>1, <2>1, <3>5
      <4>2. CASE l = h BY <3>1, <4>2 DEF t
      <4>3. CASE l > h BY <1>4, <4>1, <4>3
      <4> QED BY <4>1, <4>2, <4>3
    <3> HIDE DEF M
    <3>15. Lexical(n, c) = f[Len(f)].variable BY <1>1, <3>5, <3>10, <3>12, <3>13, <3>14, LexicalIs DEF f, M
    <3>16. v = t.slots[1] BY <3>12, <3>15 DEF v
    <3> QED BY <1>6, <2>1, <2>6, <2>8, <3>3, <3>16 DEF h, i, t, v
  <2>9. CASE i >= 2
    <3>1. PICK p \in 1..Len(Flat(t)) : /\ PlacedAt(t, p, t.symbols[i]) /\ Flat(t)[p] \in M
                                       /\ \A q \in (p + 1)..Len(Flat(t)) : Flat(t)[q] \notin M
      BY <2>4, <2>9
    <3>2. \A l \in (h + 1)..Len(tables) : \A q \in 1..Len(Flat(tables[l])) : Flat(tables[l])[q] \notin M
      <4>1. \A l \in (h + 1)..Len(tables) : l \in 1..Len(tables) /\ l > h BY <1>1, <2>1
      <4> QED BY <1>4, <4>1
    <3>3. Lexical(n, c) = Flat(t)[p].variable
      <4> HIDE DEF M
      <4> QED BY <1>1, <2>1, <3>1, <3>2, LexicalIs DEF t, M
    <3>4. ASSUME h < Len(tables), tables[h + 1].kind = "function", p = Len(Flat(t)) PROVE FALSE
      <4>1. h + 1 \in 1..Len(tables) /\ h + 1 > h /\ (h + 1) - 1 = h /\ h + 1 # 1 BY <1>1, <2>1, <3>4
      <4>2. tables[h + 1].symbols[1].name # n BY <1>4, <4>1
      <4>3. Joined(tables[h + 1], t)
        <5>1. Formed(h + 1) BY <1>1, <4>1
        <5> QED BY <4>1, <5>1 DEF Formed, t
      <4>4. FunctionInto(tables[h + 1], t) BY <3>4, <4>3 DEF Joined
      <4>5. Flat(t)[p].name = tables[h + 1].symbols[1].name BY <3>4, <4>4 DEF FunctionInto
      <4>6. Flat(t)[p].name = n BY <3>1 DEF Meanings
      <4> QED BY <4>2, <4>5, <4>6
    <3>5. Denotes(h, p, v) BY <3>1, <3>3, <3>4 DEF Denotes, t, v
    <3> QED BY <1>6, <2>1, <2>6, <3>1, <3>5 DEF h, i, t, v
  <2> QED BY <2>6, <2>8, <2>9
<1> QED BY <1>5, <1>6

(* The variables of a function: itself, and those of its open blocks. *)
Owns(t, v) == t.slots[1] = v \/ \E p \in 1..Len(Flat(t)) : Flat(t)[p].variable = v

(* ... wherever in its blocks they are. *)
LEMMA OwnsIs ==
  ASSUME NEW t \in Table, HasSelf(t), NEW v
  PROVE  (\/ Slot(t, 0) = v
          \/ \E b \in DOMAIN t.blocks : \E i \in DOMAIN t.blocks[b] : t.blocks[b][i].variable = v)
         <=> Owns(t, v)
<1> DEFINE M == {d \in Declaration : d.variable = v}
<1>1. t.blocks \in Seq(Seq(Declaration)) /\ t.slots \in Seq(Nat) BY TableFields
<1>2. Len(t.slots) >= 1 BY SelfHasBlock
<1>3. Slot(t, 0) = t.slots[1]
  <2>1. 0 < Len(t.slots) /\ 0 + 1 = 1 BY <1>1, <1>2
  <2> QED BY <2>1 DEF Slot
<1>4. DOMAIN t.blocks = 1..Len(t.blocks) /\ \A b \in 1..Len(t.blocks) : t.blocks[b] \in Seq(Declaration) BY <1>1
<1>5. \A b \in 1..Len(t.blocks) : DOMAIN t.blocks[b] = 1..Len(t.blocks[b]) /\ \A i \in 1..Len(t.blocks[b]) : t.blocks[b][i] \in Declaration
  BY <1>4
<1>6. Flat(t) \in Seq(Declaration) /\ \A p \in 1..Len(Flat(t)) : Flat(t)[p] \in Declaration BY FlatVariable
<1>7. ASSUME NEW b \in 1..Len(t.blocks), NEW i \in 1..Len(t.blocks[b]), t.blocks[b][i].variable = v
      PROVE  \E p \in 1..Len(Flat(t)) : Flat(t)[p].variable = v
  <2>1. \E p \in 1..Len(Flat(t)) : Flat(t)[p] = t.blocks[b][i] BY <1>1, FlattenKeeps DEF Flat
  <2> QED BY <1>7, <2>1
<1>8. ASSUME \A b \in 1..Len(t.blocks) : \A i \in 1..Len(t.blocks[b]) : t.blocks[b][i].variable # v
      PROVE  \A p \in 1..Len(Flat(t)) : Flat(t)[p].variable # v
  <2>1. \A b \in 1..Len(t.blocks) : \A i \in 1..Len(t.blocks[b]) : t.blocks[b][i] \notin M BY <1>8
  <2> HIDE DEF M
  <2>2. \A p \in 1..Len(Flat(t)) : Flat(t)[p] \notin M BY <1>1, <2>1, FlattenWithout DEF Flat
  <2> QED BY <1>6, <2>2 DEF M
<1> QED BY <1>3, <1>4, <1>5, <1>7, <1>8 DEF Owns

(* What a name stands for belongs to the function whose table has its symbol. *)
LEMMA OwnerIs ==
  ASSUME Basic, InTextOrder, NEW h \in 1..Len(tables), NEW v,
         v = tables[h].slots[1] \/ \E p \in 1..Len(Flat(tables[h])) : Denotes(h, p, v)
  PROVE  Owner(v) = h /\ v \in Nat
<1>1. /\ tables \in Seq(Table) /\ Len(tables) \in Nat /\ DOMAIN tables = 1..Len(tables) /\ Len(tables) >= 1
      /\ \A k \in 1..Len(tables) : tables[k] \in Table /\ HasSelf(tables[k])
  BY TablesOf
<1>2. \A k \in 1..Len(tables) : /\ Len(Flat(tables[k])) \in Nat /\ tables[k].slots[1] \in Nat
                                /\ \A p \in 1..Len(Flat(tables[k])) : Flat(tables[k])[p].variable \in Nat
  <2> SUFFICES ASSUME NEW k \in 1..Len(tables)
               PROVE  /\ Len(Flat(tables[k])) \in Nat /\ tables[k].slots[1] \in Nat
                      /\ \A p \in 1..Len(Flat(tables[k])) : Flat(tables[k])[p].variable \in Nat
    OBVIOUS
  <2>1. tables[k] \in Table /\ HasSelf(tables[k]) BY <1>1
  <2> QED BY <2>1, FlatVariable
<1> DEFINE S == {1} \cup {k \in 1..Len(tables) : Owns(tables[k], v)}
<1>3. Owner(v) = Max(S)
  <2> DEFINE R == {k \in DOMAIN tables :
                     \/ Slot(tables[k], 0) = v
                     \/ \E b \in DOMAIN tables[k].blocks : \E i \in DOMAIN tables[k].blocks[b] :
                          tables[k].blocks[b][i].variable = v}
  <2>1. \A k \in 1..Len(tables) : k \in R <=> Owns(tables[k], v)
    <3> SUFFICES ASSUME NEW k \in 1..Len(tables) PROVE k \in R <=> Owns(tables[k], v) OBVIOUS
    <3>1. tables[k] \in Table /\ HasSelf(tables[k]) BY <1>1
    <3> QED BY <1>1, <3>1, OwnsIs
  <2>2. {1} \cup R = S BY <1>1, <2>1
  <2>3. Owner(v) = Max({1} \cup R) BY DEF Owner
  <2> QED BY <2>2, <2>3
<1>4. v \in Nat BY <1>2 DEF Denotes
<1>5. h \in S BY DEF Owns, Denotes
<1>6. ASSUME NEW k \in 1..Len(tables), Owns(tables[k], v), k > h PROVE FALSE
  <2>1. Numbered(tables[k], declared) /\ Ordered(tables[h], tables[k], k = h + 1)
    <3>1. h < k BY <1>1, <1>6
    <3> QED BY <3>1 DEF InTextOrder
  <2>2. tables[k].slots[1] <= v
    <3>1. CASE tables[k].slots[1] = v BY <1>2, <3>1
    <3>2. ASSUME NEW p \in 1..Len(Flat(tables[k])), Flat(tables[k])[p].variable = v PROVE tables[k].slots[1] <= v
      <4>1. tables[k].slots[1] < Flat(tables[k])[p].variable BY <2>1 DEF Numbered
      <4> QED BY <1>2, <1>4, <3>2, <4>1
    <3> QED BY <1>6, <3>1, <3>2 DEF Owns
  <2>3. v < tables[k].slots[1]
    <3>1. CASE v = tables[h].slots[1] BY <2>1, <3>1 DEF Ordered
    <3>2. ASSUME NEW p \in 1..Len(Flat(tables[h])), Denotes(h, p, v) PROVE v < tables[k].slots[1]
      <4>1. v = Flat(tables[h])[p].variable BY <3>2 DEF Denotes
      <4>2. ~(k = h + 1 /\ tables[k].kind = "function" /\ p = Len(Flat(tables[h])))
        <5>1. h < Len(tables) BY <1>1, <1>6
        <5> QED BY <3>2, <5>1 DEF Denotes
      <4> QED BY <2>1, <4>1, <4>2 DEF Ordered
    <3> QED BY <3>1, <3>2
  <2>4. tables[k].slots[1] \in Nat BY <1>2
  <2> QED BY <1>4, <2>2, <2>3, <2>4
<1>7. \A k \in S : k <= h
  <2>1. \A k \in 1..Len(tables) : Owns(tables[k], v) => k <= h BY <1>1, <1>6
  <2>2. 1 <= h BY <1>1
  <2> QED BY <2>1, <2>2
<1>8. S \in SUBSET Nat /\ S # {} /\ h \in Nat BY <1>1
<1> HIDE DEF S
<1>9. Max(S) \in S /\ \A k \in S : k <= Max(S) BY <1>7, <1>8, Greatest
<1>10. Max(S) <= h /\ h <= Max(S) /\ Max(S) \in Nat BY <1>5, <1>7, <1>8, <1>9
<1> QED BY <1>3, <1>4, <1>8, <1>10

(* The symbol of a global variable is global. *)
LEMMA GlobalIs ==
  ASSUME Shaped, InTextOrder, NEW p \in 1..Len(Flat(tables[1])), NEW v, v = Flat(tables[1])[p].variable, IsGlobal(v)
  PROVE  p <= Top(tables[1])
<1> DEFINE t == tables[1]
<1>1. t \in Table /\ HasSelf(t) /\ t.kind = "main" /\ Basic
  <2>1. Basic BY DEF Shaped
  <2>2. 1 \in 1..Len(tables) BY <2>1, TablesOf
  <2> QED BY <2>1, <2>2, TablesOf DEF Founded
<1>2. Numbered(t, declared)
  <2>1. 1 \in 1..Len(tables) BY <1>1, TablesOf
  <2> QED BY <2>1 DEF InTextOrder
<1> HIDE DEF t
<1>3. t.blocks \in Seq(Seq(Declaration)) /\ t.blocks # <<>> BY <1>1, TableFields, SelfHasBlock
<1>4. t.blocks[1] \in Seq(Declaration)
  <2>1. 1 \in 1..Len(t.blocks) BY <1>3
  <2> QED BY <1>3, <2>1
<1>5. PICK j \in 1..Len(t.blocks[1]) : t.blocks[1][j].variable = v
  <2>1. DOMAIN t.blocks[1] = 1..Len(t.blocks[1]) BY <1>4
  <2>2. \E j \in DOMAIN t.blocks[1] : t.blocks[1][j].variable = v BY DEF IsGlobal, t
  <2> QED BY <2>1, <2>2
<1>6. Len(t.blocks[1]) <= Len(Flat(t)) /\ Flat(t)[j] = t.blocks[1][j] BY <1>3, FlattenHead DEF Flat
<1>7. Len(t.blocks[1]) = Top(t) BY <1>1 DEF Top
<1>8. Len(Flat(t)) \in Nat /\ \A q \in 1..Len(Flat(t)) : Flat(t)[q].variable \in Nat BY <1>1, FlatVariable
<1>9. j \in 1..Len(Flat(t)) BY <1>4, <1>6, <1>8
<1>10. p \in 1..Len(Flat(t)) /\ Flat(t)[p].variable = v /\ Flat(t)[j].variable = v BY <1>5, <1>6 DEF t
<1>11. ~(j < p) /\ ~(p < j)
  <2>1. j < p => Flat(t)[j].variable < Flat(t)[p].variable BY <1>2, <1>9, <1>10 DEF Numbered
  <2>2. p < j => Flat(t)[p].variable < Flat(t)[j].variable BY <1>2, <1>9, <1>10 DEF Numbered
  <2>3. v \in Nat BY <1>8, <1>10
  <2> QED BY <1>10, <2>1, <2>2, <2>3
<1>12. p = j BY <1>8, <1>9, <1>10, <1>11
<1> QED BY <1>4, <1>7, <1>12 DEF t

(* A local that a script may name is its function's, or that of the one       *)
(* around, which is then not named from a lambda.                             *)
LEMMA Near ==
  ASSUME Shaped, InTextOrder, Uses \cap {"deep", "overloads"} = {}, NEW n \in Names, NEW c, Nameable(n, c), Home(n, c) # 0,
         tables[Home(n, c)].symbols[Found(tables[Home(n, c)], n, c)].location = "LOCAL"
  PROVE  /\ Home(n, c) = Len(tables) \/ Home(n, c) = Len(tables) - 1
         /\ Home(n, c) # Len(tables) /\ "lambdas" \notin Uses => Here.kind # "lambda"
<1> DEFINE h == Home(n, c)
           i == Found(tables[h], n, c)
           v == Lexical(n, c)
<1>1. Basic BY DEF Shaped
<1>2. c = None \/ CallsItself(n, c) BY DEF Nameable, CallsItself
<1>3. /\ h \in 1..Len(tables)
      /\ \/ i = 1 /\ h >= 2 /\ v = tables[h].slots[1]
         \/ \E p \in 1..Len(Flat(tables[h])) : Denotes(h, p, v) /\ PlacedAt(tables[h], p, tables[h].symbols[i])
  BY <1>2, LookedUp
<1>4. (v = None \/ IsGlobal(v) \/ Owner(v) = Len(tables)) \/ Owner(v) = Len(tables) - 1 BY DEF Nameable
<1>5. "lambdas" \notin Uses => (v = None \/ IsGlobal(v) \/ Owner(v) = Len(tables)) \/ Here.kind # "lambda" BY DEF Nameable
<1>6. tables[h].symbols[i].location = "LOCAL" OBVIOUS
<1> HIDE DEF h, i, v
<1>7. Owner(v) = h /\ v \in Nat BY <1>1, <1>3, OwnerIs
<1>8. v # None BY <1>7, ScopesAssumption
<1>9. ~IsGlobal(v)
  <2> SUFFICES ASSUME IsGlobal(v) PROVE FALSE OBVIOUS
  <2>1. h = 1 BY <1>7 DEF IsGlobal
  <2>2. PICK p \in 1..Len(Flat(tables[1])) : Denotes(1, p, v) /\ PlacedAt(tables[1], p, tables[1].symbols[i]) BY <1>3, <2>1
  <2>3. v = Flat(tables[1])[p].variable BY <2>2 DEF Denotes
  <2>4. p <= Top(tables[1]) BY <2>3, GlobalIs
  <2> QED BY <1>6, <2>1, <2>2, <2>4 DEF PlacedAt
<1>10. h = Len(tables) \/ h = Len(tables) - 1 BY <1>4, <1>7, <1>8, <1>9
<1>11. h # Len(tables) /\ "lambdas" \notin Uses => Here.kind # "lambda" BY <1>5, <1>7, <1>8, <1>9
<1> QED BY <1>10, <1>11 DEF h

-----------------------------------------------------------------------------
(* Captures *)

(* Two symbols of a table do not share a slot. *)
LEMMA OneLocal ==
  ASSUME NEW t \in Table, HasSelf(t), Placed(t), NEW i \in 1..Len(t.symbols), NEW j \in 1..Len(t.symbols),
         t.symbols[i].location = "LOCAL", t.symbols[j].location = "LOCAL", t.symbols[i].index = t.symbols[j].index
  PROVE  i = j
<1>1. PICK at \in Seq(Nat) : Places(t, at) BY DEF Placed
<1>2. Len(at) = Len(Flat(t)) /\ \A p \in 1..Len(at) : PlacedAt(t, p, t.symbols[at[p]]) BY <1>1 DEF Places
<1>3. Len(Flat(t)) \in Nat /\ Top(t) \in Nat BY AtTopIs
<1>4. Len(t.symbols) \in Nat BY TableFields
<1>5. ASSUME NEW a \in 1..Len(t.symbols), a # 1, t.symbols[a].location = "LOCAL"
      PROVE  \E p \in 1..Len(at) : at[p] = a /\ p > Top(t) /\ t.symbols[a].index = p - Top(t)
  <2>1. a \in 2..Len(t.symbols) BY <1>4, <1>5
  <2>2. t.symbols[a].scopeDepth \in Nat /\ t.depth \in Nat BY SymbolFields, TableFields
  <2>3. t.symbols[a].scopeDepth <= t.depth
    <3>1. ~(t.symbols[a].scopeDepth > t.depth) BY <1>5, <2>1 DEF Placed
    <3> QED BY <2>2, <3>1
  <2>4. PICK p \in 1..Len(at) : at[p] = a BY <1>1, <2>1, <2>3 DEF Places
  <2>5. PlacedAt(t, p, t.symbols[a]) BY <1>2, <2>4
  <2>6. p > Top(t) BY <1>2, <1>3, <1>5, <2>5 DEF PlacedAt
  <2> QED BY <2>4, <2>5, <2>6 DEF PlacedAt
<1>6. t.symbols[1].index = 0 BY DEF HasSelf
<1>7. CASE i = 1 /\ j = 1 BY <1>7
<1>8. CASE i # 1 /\ j = 1
  <2>1. PICK p \in 1..Len(at) : p > Top(t) /\ t.symbols[i].index = p - Top(t) BY <1>5, <1>8
  <2>2. p - Top(t) = 0 BY <1>6, <1>8, <2>1
  <2> QED BY <1>2, <1>3, <2>1, <2>2
<1>9. CASE i = 1 /\ j # 1
  <2>1. PICK p \in 1..Len(at) : p > Top(t) /\ t.symbols[j].index = p - Top(t) BY <1>5, <1>9
  <2>2. p - Top(t) = 0 BY <1>6, <1>9, <2>1
  <2> QED BY <1>2, <1>3, <2>1, <2>2
<1>10. CASE i # 1 /\ j # 1
  <2>1. PICK p \in 1..Len(at) : at[p] = i /\ t.symbols[i].index = p - Top(t) BY <1>5, <1>10
  <2>2. PICK q \in 1..Len(at) : at[q] = j /\ t.symbols[j].index = q - Top(t) BY <1>5, <1>10
  <2>3. p - Top(t) = q - Top(t) BY <2>1, <2>2
  <2>4. p \in Nat /\ q \in Nat BY <1>2, <1>3
  <2>5. p = q BY <1>3, <2>3, <2>4
  <2> QED BY <2>1, <2>2, <2>5
<1> QED BY <1>7, <1>8, <1>9, <1>10

(* Resolve captures a local for every function between, of the one around,    *)
(* and marks it when it is of the one around.                                 *)
LEMMA Captures ==
  ASSUME tables \in Seq(Table), NEW n, NEW c, Home(n, c) # 0, NEW k \in 1..Len(tables)
  PROVE  LET h == Home(n, c)
             i == Found(tables[h], n, c)
             s == tables[h].symbols[i]
             u == Resolved(n, c)[k]
             x == [location |-> s.index, depth |-> k - 2]
         IN /\ i \in 1..Len(tables[h].symbols)
            /\ ~(k > h /\ s.location = "LOCAL") => u.upvalues = tables[k].upvalues
            /\ k > h /\ s.location = "LOCAL" =>
                 /\ \E j \in 1..Len(u.upvalues) : u.upvalues[j] = x
                 /\ \A j \in 1..Len(u.upvalues) :
                      u.upvalues[j] = x \/ \E l \in 1..Len(tables[k].upvalues) : u.upvalues[j] = tables[k].upvalues[l]
            /\ k = h /\ Len(tables) = h + 1 => u.symbols[i].isCaptured
<1> DEFINE h == Home(n, c)
           i == Found(tables[h], n, c)
           s == tables[h].symbols[i]
           u == Resolved(n, c)[k]
           x == [location |-> s.index, depth |-> k - 2]
<1>1. /\ h \in 1..Len(tables) /\ DOMAIN tables = 1..Len(tables) /\ Len(tables) \in Nat /\ tables[k] \in Table
      /\ i # 0
  BY HomeIs
<1>2. u = IF k = h /\ Len(tables) = h + 1 THEN [tables[k] EXCEPT !.symbols[i].isCaptured = TRUE]
          ELSE IF k > h /\ s.location = "LOCAL" THEN AddUpValue(tables[k], s.index, k - 2)
          ELSE tables[k]
  BY <1>1 DEF Resolved
<1> HIDE DEF h, u
<1>3. tables[h] \in Table BY <1>1
<1>4. i \in 1..Len(tables[h].symbols)
  <2>1. PICK t \in Table : t = tables[h] BY <1>3
  <2>2. i \in 0..Len(t.symbols) BY <2>1, FoundIs
  <2> HIDE DEF i
  <2>3. Len(t.symbols) \in Nat BY TableFields
  <2> QED BY <1>1, <2>1, <2>2, <2>3
<1>5. s.index \in Nat BY <1>3, <1>4, SymbolFields
<1> HIDE DEF i, s
<1>6. CASE k = h /\ Len(tables) = h + 1
  <2>1. u = [tables[k] EXCEPT !.symbols[i].isCaptured = TRUE] BY <1>2, <1>6
  <2>2. i \in 1..Len(tables[k].symbols) BY <1>4, <1>6
  <2>3. u.upvalues = tables[k].upvalues /\ u.symbols[i].isCaptured BY <1>1, <2>1, <2>2, CapturedTable
  <2>4. ~(k > h) BY <1>1, <1>6
  <2> QED BY <1>4, <2>3, <2>4 DEF h, i, s, u
<1>7. CASE k > h /\ s.location = "LOCAL"
  <2>1. PICK d \in Nat : d = k - 2
    <3>1. k - 2 \in Nat BY <1>1, <1>7
    <3> QED BY <3>1
  <2>2. k # h BY <1>1, <1>7
  <2>3. PICK t \in Table : t = tables[k] BY <1>1
  <2>4. PICK m \in Nat : m = s.index BY <1>5
  <2>5. u = AddUpValue(t, m, d) BY <1>2, <1>7, <2>1, <2>2, <2>3, <2>4
  <2>6. x = [location |-> m, depth |-> d] BY <2>1, <2>4
  <2> HIDE DEF x
  <2>7. /\ \E j \in 1..Len(u.upvalues) : u.upvalues[j] = x
        /\ \A j \in 1..Len(u.upvalues) : u.upvalues[j] = x \/ \E l \in 1..Len(t.upvalues) : u.upvalues[j] = t.upvalues[l]
    <3>1. u = AddUpValue(t, m, d) /\ x = [location |-> m, depth |-> d] BY <2>5, <2>6
    <3>2. LET w == AddUpValue(t, m, d)
              y == [location |-> m, depth |-> d]
          IN /\ w \in Table /\ Alike(t, w) /\ w.symbols = t.symbols
             /\ \E j \in 1..Len(w.upvalues) : w.upvalues[j] = y
             /\ \A j \in 1..Len(w.upvalues) : w.upvalues[j] = y \/ \E l \in 1..Len(t.upvalues) : w.upvalues[j] = t.upvalues[l]
      BY AddUpValueTable
    <3> HIDE DEF u
    <3> QED BY <3>1, <3>2
  <2> QED BY <1>4, <1>7, <2>2, <2>3, <2>7 DEF h, i, s, u, x
<1>8. CASE ~(k = h /\ Len(tables) = h + 1) /\ ~(k > h /\ s.location = "LOCAL")
  <2>1. u = tables[k] BY <1>2, <1>8
  <2> QED BY <1>4, <1>8, <2>1 DEF h, i, s, u
<1> QED BY <1>6, <1>7, <1>8

(* The use of a name marks what it captures, *)
LEMMA IdentifierMarked ==
  ASSUME Uses \cap {"deep", "overloads"} = {}, Shaped, InTextOrder, CapturedIsMarked, NEW n \in Names, NEW c, Identifier(n, c)
  PROVE  CapturedIsMarked'
<1> DEFINE h == Home(n, c)
           i == Found(tables[h], n, c)
           s == tables[h].symbols[i]
<1>1. /\ Basic /\ tables \in Seq(Table) /\ Len(tables) \in Nat
      /\ \A k \in 1..Len(tables) : tables[k] \in Table /\ HasSelf(tables[k]) /\ Placed(tables[k])
  BY TablesOf DEF Shaped, Formed
<1>2. Nameable(n, c) /\ h # 0 /\ tables' = Resolved(n, c) BY DEF Identifier
<1>3. Len(tables') = Len(tables) /\ tables' \in Seq(Table) /\ \A k \in 1..Len(tables) : Alike(tables[k], tables'[k])
  BY <1>1, <1>2, ResolvedTables
<1>4. h \in 1..Len(tables) BY <1>1, <1>2, HomeIs
<1>5. ASSUME NEW k \in 2..Len(tables'), tables'[k].kind = "function", NEW u \in Range(tables'[k].upvalues),
             NEW r \in Range(tables'[k - 1].symbols), u.depth = k - 2, r.location = "LOCAL", r.index = u.location
      PROVE  r.isCaptured
  <2>1. PICK l \in Nat : l = k - 1
    <3>1. k - 1 \in Nat BY <1>1, <1>3
    <3> QED BY <3>1
  <2>2. k \in 1..Len(tables) /\ l \in 1..Len(tables) /\ k \in 2..Len(tables) /\ k \in Nat BY <1>1, <1>3, <2>1
  <2>3. /\ tables[k] \in Table /\ tables[l] \in Table /\ tables'[k] \in Table /\ tables'[l] \in Table
        /\ Alike(tables[k], tables'[k]) /\ Alike(tables[l], tables'[l])
    BY <1>1, <1>3, <2>2
  <2>4. PICK j \in 1..Len(tables'[l].symbols) : r = tables'[l].symbols[j]
    <3>1. tables'[l].symbols \in Seq(Symbol) BY <2>3, TableFields
    <3> QED BY <1>5, <2>1, <3>1 DEF Range
  <2>5. PICK a \in 1..Len(tables'[k].upvalues) : u = tables'[k].upvalues[a]
    <3>1. tables'[k].upvalues \in Seq([location : Nat, depth : Nat]) BY <2>3, TableFields
    <3> QED BY <1>5, <3>1 DEF Range
  <2>6. /\ j \in 1..Len(tables[l].symbols) /\ tables[l].symbols[j].location = "LOCAL" /\ tables[l].symbols[j].index = u.location
        /\ tables[l].symbols[j].isCaptured => r.isCaptured
    BY <1>5, <2>3, <2>4 DEF Alike
  <2>7. CASE \E b \in 1..Len(tables[k].upvalues) : u = tables[k].upvalues[b]
    <3>1. u \in Range(tables[k].upvalues)
      <4>1. tables[k].upvalues \in Seq([location : Nat, depth : Nat]) BY <2>3, TableFields
      <4>2. DOMAIN tables[k].upvalues = 1..Len(tables[k].upvalues) BY <4>1
      <4>3. PICK b \in DOMAIN tables[k].upvalues : u = tables[k].upvalues[b] BY <2>7, <4>2
      <4> QED BY <4>3 DEF Range
    <3>2. tables[l].symbols[j] \in Range(tables[k - 1].symbols)
      <4>1. tables[l].symbols \in Seq(Symbol) BY <2>3, TableFields
      <4> QED BY <2>1, <2>6, <4>1 DEF Range
    <3>3. tables[k].kind = "function" BY <1>5, <2>3 DEF Alike
    <3>4. tables[l].symbols[j].isCaptured BY <1>5, <2>2, <2>6, <3>1, <3>2, <3>3 DEF CapturedIsMarked
    <3> QED BY <2>6, <3>4
  <2>8. CASE ~\E b \in 1..Len(tables[k].upvalues) : u = tables[k].upvalues[b]
    <3>1. /\ i \in 1..Len(tables[h].symbols)
          /\ ~(k > h /\ s.location = "LOCAL") => tables'[k].upvalues = tables[k].upvalues
          /\ k > h /\ s.location = "LOCAL" =>
               \A b \in 1..Len(tables'[k].upvalues) :
                 \/ tables'[k].upvalues[b] = [location |-> s.index, depth |-> k - 2]
                 \/ \E m \in 1..Len(tables[k].upvalues) : tables'[k].upvalues[b] = tables[k].upvalues[m]
      <4>1. tables \in Seq(Table) /\ Home(n, c) # 0 /\ k \in 1..Len(tables) BY <1>1, <1>2, <2>2
      <4>2. tables'[k] = Resolved(n, c)[k] BY <1>2
      <4> QED BY <4>1, <4>2, Captures
    <3>2. s.location = "LOCAL" => h = Len(tables) \/ h = Len(tables) - 1
      <4>1. Home(n, c) # 0 /\ Nameable(n, c) BY <1>2
      <4> QED BY <4>1, Near
    <3>3. Len(tables) = h + 1 => tables'[h].symbols[i].isCaptured
      BY <1>1, <1>2, <1>4, Captures
    <3> HIDE DEF h, i, s
    <3>4. k > h /\ s.location = "LOCAL" BY <2>5, <2>8, <3>1
    <3>5. u.location = s.index
      <4>1. u = [location |-> s.index, depth |-> k - 2] BY <2>5, <2>8, <3>1, <3>4
      <4> QED BY <4>1
    <3>6. h = l /\ Len(tables) = h + 1 BY <1>1, <1>4, <2>1, <2>2, <3>2, <3>4
    <3>7. tables[h].symbols[i].location = "LOCAL" /\ tables[h].symbols[i].index = u.location BY <3>4, <3>5 DEF s
    <3>8. i = j
      <4>1. tables[h] \in Table /\ HasSelf(tables[h]) /\ Placed(tables[h]) BY <1>1, <1>4
      <4>2. j \in 1..Len(tables[h].symbols) /\ tables[h].symbols[j].location = "LOCAL" /\ tables[h].symbols[j].index = u.location
        BY <2>6, <3>6
      <4>3. tables[h].symbols[i].index = tables[h].symbols[j].index BY <3>7, <4>2
      <4> QED BY <3>1, <3>7, <4>1, <4>2, <4>3, OneLocal
    <3> QED BY <2>4, <3>3, <3>6, <3>8
  <2> QED BY <2>7, <2>8
<1> QED BY <1>5 DEF CapturedIsMarked

(* ... and the other handlers capture nothing. *)
LEMMA ContinuedMarked ==
  ASSUME Basic, Basic', CapturedIsMarked, NEW m \in Nat, Continued(m)
  PROVE  CapturedIsMarked'
<1>1. /\ m \in 1..Len(tables) /\ Len(tables') \in {m, m + 1} /\ Len(tables) \in Nat
      /\ \A k \in 1..(m - 1) : tables'[k] = tables[k]
      /\ SameClosure(tables[m], tables'[m])
      /\ Len(tables') = m + 1 => tables'[m + 1].upvalues = <<>>
  BY TablesOf DEF Continued
<1>2. ASSUME NEW k \in 2..Len(tables'), tables'[k].kind = "function", NEW u \in Range(tables'[k].upvalues),
             NEW r \in Range(tables'[k - 1].symbols), u.depth = k - 2, r.location = "LOCAL", r.index = u.location
      PROVE  r.isCaptured
  <2>1. k \in Nat /\ (k = m + 1 \/ k <= m) BY <1>1
  <2>2. CASE k = m + 1
    <3>1. Len(tables') = m + 1 BY <1>1, <2>2
    <3>2. tables'[k].upvalues = <<>> BY <1>1, <2>2, <3>1
    <3>3. DOMAIN tables'[k].upvalues = {} BY <3>2
    <3> QED BY <1>2, <3>3 DEF Range
  <2>3. CASE k <= m
    <3>1. k - 1 \in 1..(m - 1) /\ k \in 2..Len(tables) /\ (k \in 1..(m - 1) \/ k = m) BY <1>1, <2>1, <2>3
    <3>2. tables'[k - 1] = tables[k - 1] BY <1>1, <3>1
    <3>3. tables'[k].upvalues = tables[k].upvalues /\ tables'[k].kind = tables[k].kind BY <1>1, <3>1 DEF SameClosure
    <3> QED BY <1>2, <3>1, <3>2, <3>3 DEF CapturedIsMarked
  <2> QED BY <2>1, <2>2, <2>3
<1> QED BY <1>2 DEF CapturedIsMarked

(* A script begins with one table. *)
LEMMA InitMarked == Init => CapturedIsMarked
<1> SUFFICES ASSUME Init PROVE CapturedIsMarked OBVIOUS
<1>1. Len(tables) = 1 BY DEF Init
<1> QED BY <1>1 DEF CapturedIsMarked

(* Every step marks what it captures. *)
LEMMA NextMarked ==
  ASSUME Uses \cap {"deep", "overloads"} = {}, Shaped, InTextOrder, CapturedIsMarked, [Next]_vars
  PROVE  CapturedIsMarked'
<1>1. Basic /\ Basic' BY NextBasic DEF Shaped
<1>2. ASSUME NEW n \in Names, NEW c \in ParamCounts \cup {None}, Identifier(n, c) PROVE CapturedIsMarked'
  BY <1>2, IdentifierMarked
<1>3. CASE Compile
  <2>1. Init' BY <1>3 DEF Compile, Init
  <2>2. Init' => CapturedIsMarked' BY InitMarked, PTL
  <2> QED BY <2>1, <2>2
<1>4. CASE UNCHANGED vars BY <1>4 DEF vars, CapturedIsMarked
<1>5. CASE \/ \E n \in Names : Declare(n)
           \/ \E n \in Names : \E params \in Parameters(n) : BeginFunction(n, params)
           \/ \E n \in Names \cup {None} : \E params \in Parameters(None) : BeginLambda(n, params)
           \/ EndFunction \/ EnterScope \/ ExitScope
  <2>1. PICK m \in Nat : Continued(m) BY <1>1, <1>5, Continues
  <2> QED BY <1>1, <2>1, ContinuedMarked
<1> QED BY <1>2, <1>3, <1>4, <1>5 DEF Next

(* Where no script declares after a block that declared, names a variable     *)
(* two functions out, or calls an overload from its namesake, a variable that *)
(* a closure captures from the frame around is marked, so that the end of its *)
(* block closes its upvalue (Symbol::isCaptured, OP_CLOSURE).                 *)
THEOREM CapturesAreMarked ==
  ASSUME Uses \cap {"siblings", "deep", "overloads"} = {}
  PROVE  Spec => []CapturedIsMarked
<1>1. Uses \cap {"deep", "overloads"} = {} /\ "siblings" \notin Uses OBVIOUS
<1>2. Init => Shaped /\ InTextOrder /\ CapturedIsMarked BY InitShaped, InitOrdered, InitMarked
<1>3. Shaped /\ InTextOrder /\ CapturedIsMarked /\ [Next]_vars => (Shaped /\ InTextOrder /\ CapturedIsMarked)'
  <2> SUFFICES ASSUME Shaped, InTextOrder, CapturedIsMarked, [Next]_vars PROVE (Shaped /\ InTextOrder /\ CapturedIsMarked)'
    OBVIOUS
  <2>1. Shaped' BY <1>1, NextShaped
  <2>2. InTextOrder' BY NextOrdered DEF Shaped
  <2>3. CapturedIsMarked' BY <1>1, NextMarked
  <2> QED BY <2>1, <2>2, <2>3
<1> QED BY <1>2, <1>3, PTL DEF Spec

-----------------------------------------------------------------------------
(* Where the code for a name finds its variable *)

(* A function runs in the frame after that of the one around. *)
FramesInOrder == \A k \in 1..Len(tables) : tables[k].frame = k - 1

(* A script runs in the first frame. *)
LEMMA InitFrames == Init => FramesInOrder
<1> SUFFICES ASSUME Init PROVE FramesInOrder OBVIOUS
<1>1. Len(tables) = 1 /\ tables[1] = Start BY DEF Init
<1>2. Start.frame = 0 BY StartTable
<1>3. \A k \in 1..Len(tables) : k = 1 BY <1>1
<1> QED BY <1>1, <1>2, <1>3 DEF FramesInOrder

(* Functions that are called where they are declared keep that order. *)
LEMMA NextFrames ==
  ASSUME "callers" \notin Uses, Basic, FramesInOrder, [Next]_vars
  PROVE  FramesInOrder'
<1>1. tables \in Seq(Table) /\ Len(tables) \in Nat BY TablesOf
<1>2. ASSUME NEW n \in Names, NEW c \in ParamCounts \cup {None}, Identifier(n, c) PROVE FramesInOrder'
  <2>1. tables' = Resolved(n, c) /\ Home(n, c) # 0 BY <1>2 DEF Identifier
  <2>2. Len(tables') = Len(tables) /\ \A k \in 1..Len(tables) : tables'[k].frame = tables[k].frame
    BY <1>1, <2>1, ResolvedTables DEF Alike
  <2> QED BY <2>2 DEF FramesInOrder
<1>3. CASE Compile
  <2>1. Init' BY <1>3 DEF Compile, Init
  <2>2. Init' => FramesInOrder' BY InitFrames, PTL
  <2> QED BY <2>1, <2>2
<1>4. CASE UNCHANGED vars BY <1>4 DEF vars, FramesInOrder
<1>5. CASE \/ \E n \in Names : Declare(n)
           \/ \E n \in Names : \E params \in Parameters(n) : BeginFunction(n, params)
           \/ \E n \in Names \cup {None} : \E params \in Parameters(None) : BeginLambda(n, params)
           \/ EndFunction \/ EnterScope \/ ExitScope
  <2>1. PICK m \in Nat : Continued(m) BY <1>5, Continues
  <2>2. /\ m \in 1..Len(tables) /\ Len(tables') \in {m, m + 1}
        /\ \A k \in 1..(m - 1) : tables'[k] = tables[k]
        /\ tables'[m].frame = tables[m].frame
        /\ Len(tables') = m + 1 => m = Len(tables) /\ tables'[m + 1].frame \in Frames
    BY <2>1 DEF Continued, SameClosure
  <2>3. Frames = {Len(tables)} BY DEF Frames
  <2>4. ASSUME NEW k \in 1..Len(tables') PROVE tables'[k].frame = k - 1
    <3>1. k \in Nat /\ (k \in 1..(m - 1) \/ k = m \/ (k = m + 1 /\ Len(tables') = m + 1)) BY <1>1, <2>2
    <3>2. k \in 1..(m - 1) => k \in 1..Len(tables) BY <1>1, <2>2
    <3>3. CASE k = m + 1 /\ Len(tables') = m + 1
      <4>1. tables'[k].frame = m BY <2>2, <2>3, <3>3
      <4> QED BY <3>3, <4>1
    <3> QED BY <2>2, <3>1, <3>2, <3>3 DEF FramesInOrder
  <2> QED BY <2>4 DEF FramesInOrder
<1> QED BY <1>2, <1>3, <1>4, <1>5 DEF Next

(* What OP_CLOSURE captures for the k-th function, when the closure of the    *)
(* one around has captured that.                                              *)
CapturedFrom(ts, k, around) ==
  [j \in DOMAIN ts[k].upvalues |->
    LET u == ts[k].upvalues[j] IN
      IF u.depth = ts[k - 1].frame THEN Slot(ts[k - 1], u.location)
      ELSE IF u.location < Len(around) THEN around[u.location + 1]
      ELSE Nothing]

(* f has what the first m functions have captured. *)
Capturing(ts, m, f) == f = [k \in 1..m |-> IF ts[k].kind # "function" THEN <<>> ELSE CapturedFrom(ts, k, f[k - 1])]

(* The recursion, for one function. *)
LEMMA CapturingAt ==
  ASSUME NEW ts, NEW m \in Nat, NEW f, Capturing(ts, m, f), NEW k \in 1..m
  PROVE  f[k] = IF ts[k].kind # "function" THEN <<>> ELSE CapturedFrom(ts, k, f[k - 1])
<1> DEFINE g == [i \in 1..m |-> IF ts[i].kind # "function" THEN <<>> ELSE CapturedFrom(ts, i, f[i - 1])]
<1>1. f = g BY DEF Capturing
<1>2. g[k] = IF ts[k].kind # "function" THEN <<>> ELSE CapturedFrom(ts, k, f[k - 1]) OBVIOUS
<1> HIDE DEF g
<1> QED BY <1>1, <1>2

(* There is a function that satisfies it, *)
LEMMA CapturingExists ==
  ASSUME NEW ts, ts[1].kind # "function", NEW n \in Nat
  PROVE  \E f : Capturing(ts, n, f)
<1> DEFINE T == {m \in Nat : \E f : Capturing(ts, m, f)}
<1>1. 0 \in T
  <2>1. Capturing(ts, 0, [k \in 1..0 |-> <<>>]) BY DEF Capturing
  <2> QED BY <2>1
<1>2. ASSUME NEW m \in T PROVE m + 1 \in T
  <2>1. PICK f : Capturing(ts, m, f) OBVIOUS
  <2> DEFINE G(k) == IF ts[k].kind # "function" THEN <<>> ELSE CapturedFrom(ts, k, f[k - 1])
             g == [k \in 1..(m + 1) |-> G(k)]
  <2>2. \A k \in 1..m : g[k] = f[k]
    <3> SUFFICES ASSUME NEW k \in 1..m PROVE g[k] = f[k] OBVIOUS
    <3>1. f[k] = G(k) BY <2>1, CapturingAt
    <3>2. k \in 1..(m + 1) OBVIOUS
    <3> HIDE DEF G
    <3> QED BY <3>1, <3>2
  <2>3. \A k \in 1..(m + 1) : k # 1 => k - 1 \in 1..m OBVIOUS
  <2>4. \A k \in 1..(m + 1) : G(k) = IF ts[k].kind # "function" THEN <<>> ELSE CapturedFrom(ts, k, g[k - 1])
    <3> SUFFICES ASSUME NEW k \in 1..(m + 1)
                 PROVE  G(k) = IF ts[k].kind # "function" THEN <<>> ELSE CapturedFrom(ts, k, g[k - 1])
      OBVIOUS
    <3> HIDE DEF g
    <3>1. CASE k = 1 BY <3>1
    <3>2. CASE k # 1
      <4>1. g[k - 1] = f[k - 1] BY <2>2, <2>3, <3>2
      <4> QED BY <4>1
    <3> QED BY <3>1, <3>2
  <2>5. g = [k \in 1..(m + 1) |-> IF ts[k].kind # "function" THEN <<>> ELSE CapturedFrom(ts, k, g[k - 1])]
    <3> HIDE DEF G
    <3>1. g = [k \in 1..(m + 1) |-> G(k)] OBVIOUS
    <3> HIDE DEF g
    <3> QED BY <2>4, <3>1
  <2>6. Capturing(ts, m + 1, g)
    <3> HIDE DEF g
    <3> QED BY <2>5 DEF Capturing
  <2> QED BY <2>6
<1> QED
  <2> HIDE DEF T
  <2>1. T \in SUBSET Nat BY DEF T
  <2>2. T = Nat BY <1>1, <1>2, <2>1, Induction
  <2> QED BY <2>2 DEF T

(* ... and Captured is one. *)
LEMMA CapturedIs ==
  ASSUME NEW ts, Len(ts) \in Nat, ts[1].kind # "function", NEW k \in 1..Len(ts), ts[k].kind = "function"
  PROVE  Captured(ts)[k] = CapturedFrom(ts, k, Captured(ts)[k - 1])
<1> DEFINE f == CHOOSE g : Capturing(ts, Len(ts), g)
<1>1. Capturing(ts, Len(ts), f)
  <2>1. \E g : Capturing(ts, Len(ts), g) BY CapturingExists
  <2> QED BY <2>1
<1>2. Captured(ts) = f BY DEF Captured, Capturing, CapturedFrom
<1> HIDE DEF f
<1>3. f[k] = IF ts[k].kind # "function" THEN <<>> ELSE CapturedFrom(ts, k, f[k - 1]) BY <1>1, CapturingAt
<1> QED BY <1>2, <1>3

(* A local's slot has the variable its symbol stands for. *)
LEMMA LocalSlot ==
  ASSUME Shaped, NEW h \in 1..Len(tables), NEW i \in 1..Len(tables[h].symbols), tables[h].symbols[i].location = "LOCAL", NEW v,
         \/ i = 1 /\ v = tables[h].slots[1]
         \/ \E p \in 1..Len(Flat(tables[h])) : Denotes(h, p, v) /\ PlacedAt(tables[h], p, tables[h].symbols[i])
  PROVE  Slot(tables[h], tables[h].symbols[i].index) = v
<1> DEFINE t == tables[h]
           x == t.symbols[i].index
<1>1. t \in Table /\ HasSelf(t) /\ Formed(h) BY TablesOf DEF Shaped
<1>2. t.slots \in Seq(Nat) /\ Len(t.slots) >= 1 /\ Len(t.slots) \in Nat BY <1>1, TableFields, SelfHasBlock
<1>3. /\ Top(t) \in Nat /\ Locals(t) \in Nat /\ Len(Flat(t)) \in Nat /\ Len(Flat(t)) = Top(t) + Locals(t)
  BY <1>1, AtTopIs
<1>4. CASE i = 1 /\ v = t.slots[1]
  <2>1. x = 0 BY <1>1, <1>4 DEF HasSelf
  <2>2. 0 < Len(t.slots) /\ 0 + 1 = 1 BY <1>2
  <2> QED BY <1>4, <2>1, <2>2 DEF Slot
<1>5. ASSUME NEW p \in 1..Len(Flat(t)), Denotes(h, p, v), PlacedAt(t, p, t.symbols[i]) PROVE Slot(t, x) = v
  <2>1. p > Top(t) BY <1>3, <1>5 DEF PlacedAt
  <2>2. x = p - Top(t) /\ v = Flat(t)[p].variable
    <3>1. x = p - Top(t) BY <1>5, <2>1 DEF PlacedAt
    <3> QED BY <1>5, <3>1 DEF Denotes
  <2>3. x \in Nat /\ x >= 1 /\ x <= Locals(t) /\ Top(t) + x = p BY <1>3, <2>1, <2>2
  <2>4. PICK m \in Nat : InFrame(t, m) /\ x <= m
    <3>1. CASE Awaits(h, "LOCAL")
      <4>1. Locals(t) >= 1 /\ InFrame(t, Locals(t) - 1) BY <1>1, <3>1 DEF Formed
      <4>2. p # Len(Flat(t)) BY <1>5, <3>1 DEF Denotes, Awaits
      <4>3. Locals(t) - 1 \in Nat /\ x <= Locals(t) - 1 BY <1>3, <2>3, <4>1, <4>2
      <4> QED BY <4>1, <4>3
    <3>2. CASE ~Awaits(h, "LOCAL")
      <4>1. InFrame(t, Locals(t)) BY <1>1, <3>2 DEF Formed
      <4> QED BY <1>3, <2>3, <4>1
    <3> QED BY <3>1, <3>2
  <2> HIDE DEF t, x
  <2>5. x \in 1..m BY <2>3, <2>4
  <2>6. Len(t.slots) = m + 1 /\ t.slots[x + 1] = Flat(t)[Top(t) + x].variable BY <2>4, <2>5 DEF InFrame
  <2>7. x < Len(t.slots) BY <2>3, <2>4, <2>6
  <2> QED BY <2>2, <2>3, <2>6, <2>7 DEF Slot
<1> QED BY <1>4, <1>5

(* A global's place in VM::mGlobalVariables has the variable its symbol       *)
(* stands for.                                                                *)
LEMMA GlobalPlace ==
  ASSUME Shaped, NEW h \in 1..Len(tables), NEW i \in 1..Len(tables[h].symbols), tables[h].symbols[i].location = "GLOBAL", NEW v,
         \/ i = 1 /\ v = tables[h].slots[1]
         \/ \E p \in 1..Len(Flat(tables[h])) : Denotes(h, p, v) /\ PlacedAt(tables[h], p, tables[h].symbols[i])
  PROVE  tables[h].symbols[i].index < Len(globals) /\ globals[tables[h].symbols[i].index + 1] = v
<1> DEFINE t == tables[h]
           x == t.symbols[i].index
<1>1. t \in Table /\ HasSelf(t) /\ Founded(h) BY TablesOf DEF Shaped
<1>2. i # 1 BY <1>1 DEF HasSelf
<1>3. PICK p \in 1..Len(Flat(t)) : Denotes(h, p, v) /\ PlacedAt(t, p, t.symbols[i]) BY <1>2
<1>4. /\ Top(t) \in Nat /\ Locals(t) \in Nat /\ Len(Flat(t)) \in Nat /\ Len(Flat(t)) = Top(t) + Locals(t)
      /\ (AtTop(t) => Locals(t) = 0)
  BY <1>1, AtTopIs
<1>5. p <= Top(t) /\ x = p - 1
  <2>1. p <= Top(t) BY <1>3, <1>4 DEF PlacedAt
  <2> QED BY <1>3, <2>1 DEF PlacedAt
<1>6. h = 1
  <2>1. t.kind = "main" BY <1>4, <1>5 DEF Top
  <2> QED BY <1>1, <2>1 DEF Founded
<1>7. Len(globals) = Top(t) /\ (globals[p] = Flat(t)[p].variable \/ (p = Len(globals) /\ Awaits(1, "GLOBAL")))
  <2>1. Len(globals) = Top(t) BY <1>6 DEF Shaped, GlobalsPlaced
  <2>2. p \in 1..Len(globals) BY <1>4, <1>5, <2>1
  <2> QED BY <1>6, <2>1, <2>2 DEF Shaped, GlobalsPlaced
<1>8. ~(p = Len(globals) /\ Awaits(1, "GLOBAL"))
  <2> SUFFICES ASSUME p = Len(globals), Awaits(1, "GLOBAL") PROVE FALSE OBVIOUS
  <2>1. 1 < Len(tables) /\ tables[2].kind = "function" /\ tables[2].into.location = "GLOBAL" BY DEF Awaits
  <2>2. 2 \in 1..Len(tables) /\ DOMAIN tables = 1..Len(tables)
    <3>1. Len(tables) \in Nat /\ DOMAIN tables = 1..Len(tables) BY TablesOf DEF Shaped
    <3> QED BY <2>1, <3>1
  <2>3. Joined(tables[2], tables[2 - 1])
    <3>1. Formed(2) BY <2>2 DEF Shaped
    <3> QED BY <3>1 DEF Formed
  <2>4. FunctionInto(tables[2], t) BY <1>6, <2>1, <2>3 DEF Joined
  <2>5. AtTop(t) BY <2>1, <2>4 DEF FunctionInto
  <2>6. p = Len(Flat(t)) BY <1>4, <1>7, <2>5
  <2> QED BY <1>3, <1>6, <2>1, <2>6 DEF Denotes
<1>9. globals[p] = v BY <1>3, <1>7, <1>8 DEF Denotes
<1>10. x < Len(globals) /\ x + 1 = p BY <1>4, <1>5, <1>7
<1> QED BY <1>9, <1>10

(* The function on top finds what Resolve has captured for it from the one    *)
(* around in the slot of that.                                                *)
LEMMA FoundCaptured ==
  ASSUME Basic, FramesInOrder, NEW n, NEW c, Home(n, c) # 0, Len(tables) = Home(n, c) + 1, Here.kind = "function",
         tables[Home(n, c)].symbols[Found(tables[Home(n, c)], n, c)].location = "LOCAL"
  PROVE  LET h     == Home(n, c)
             s     == tables[h].symbols[Found(tables[h], n, c)]
             after == Resolved(n, c)
             t     == Last(after)
             mine  == Captured(after)[Len(after)]
             j     == CHOOSE i \in DOMAIN t.upvalues : t.upvalues[i] = [location |-> s.index, depth |-> Len(after) - 2]
         IN j \in DOMAIN mine /\ mine[j] = Slot(tables[h], s.index)
<1> DEFINE h     == Home(n, c)
           s     == tables[h].symbols[Found(tables[h], n, c)]
           after == Resolved(n, c)
           t     == Last(after)
           mine  == Captured(after)[Len(after)]
           x     == [location |-> s.index, depth |-> Len(after) - 2]
           j     == CHOOSE i \in DOMAIN t.upvalues : t.upvalues[i] = x
<1>1. /\ tables \in Seq(Table) /\ Len(tables) \in Nat /\ Len(tables) >= 1 /\ Here = tables[Len(tables)]
      /\ \A k \in 1..Len(tables) : tables[k] \in Table /\ HasSelf(tables[k])
      /\ tables[1].kind = "main"
  <2>1. 1 \in 1..Len(tables) BY TablesOf
  <2>2. tables[1].kind = "main" BY <2>1, TablesOf DEF Founded
  <2> QED BY <2>2, TablesOf, OnTop
<1>2. h \in 1..Len(tables) /\ h \in Nat /\ h >= 1 /\ Len(tables) = h + 1 BY <1>1, HomeIs
<1>3. s.location = "LOCAL" OBVIOUS
<1>4. after \in Seq(Table) /\ Len(after) = Len(tables) /\ \A k \in 1..Len(tables) : Alike(tables[k], after[k])
  BY <1>1, ResolvedTables
<1>5. h + 1 \in 1..Len(tables) /\ h + 1 > h BY <1>1, <1>2
<1>6. \E i \in 1..Len(after[h + 1].upvalues) : after[h + 1].upvalues[i] = [location |-> s.index, depth |-> (h + 1) - 2]
  BY <1>1, <1>3, <1>5, Captures
<1> HIDE DEF h, s, after
<1>7. after # <<>> /\ t = after[h + 1]
  <2>1. after # <<>> BY <1>2, <1>4
  <2>2. t = after[Len(after)] BY <1>4, <2>1, Fronted
  <2> QED BY <1>2, <1>4, <2>1, <2>2
<1>8. t \in Table /\ DOMAIN t.upvalues = 1..Len(t.upvalues)
  <2>1. after[h + 1] \in Table BY <1>4, <1>5
  <2>2. t \in Table BY <1>7, <2>1
  <2> HIDE DEF t
  <2>3. t.upvalues \in Seq([location : Nat, depth : Nat]) BY <2>2, TableFields
  <2> QED BY <2>2, <2>3
<1>9. Len(after) - 2 = (h + 1) - 2 /\ (h + 1) - 2 = h - 1 /\ (h + 1) - 1 = h BY <1>2, <1>4
<1>10. \E i \in DOMAIN t.upvalues : t.upvalues[i] = x BY <1>6, <1>7, <1>8, <1>9
<1> HIDE DEF t, x
<1>11. j \in DOMAIN t.upvalues /\ t.upvalues[j] = x BY <1>10
<1> HIDE DEF j
<1>12. after[h + 1].kind = "function" /\ after[1].kind # "function"
  <2>1. after[h + 1].kind = tables[h + 1].kind BY <1>4, <1>5 DEF Alike
  <2>2. 1 \in 1..Len(tables) BY <1>1
  <2>3. after[1].kind = tables[1].kind BY <1>4, <2>2 DEF Alike
  <2> QED BY <1>1, <1>2, <2>1, <2>3
<1>13. mine = CapturedFrom(after, h + 1, Captured(after)[(h + 1) - 1])
  <2>1. Len(after) \in Nat /\ h + 1 \in 1..Len(after) /\ Len(after) = h + 1 BY <1>1, <1>2, <1>4, <1>5
  <2> QED BY <1>12, <2>1, CapturedIs
<1>14. x.depth = after[h].frame /\ x.location = s.index /\ after[h].slots = tables[h].slots
  <2>1. after[h].frame = tables[h].frame /\ after[h].slots = tables[h].slots BY <1>2, <1>4 DEF Alike
  <2>2. tables[h].frame = h - 1 BY <1>2 DEF FramesInOrder
  <2> QED BY <1>9, <2>1, <2>2 DEF x
<1>15. j \in DOMAIN after[h + 1].upvalues /\ after[h + 1].upvalues[j] = x BY <1>7, <1>11
<1> HIDE DEF mine
<1>16. j \in DOMAIN mine /\ mine[j] = Slot(after[h], x.location)
  BY <1>9, <1>13, <1>14, <1>15 DEF CapturedFrom
<1>17. Slot(after[h], x.location) = Slot(tables[h], s.index) BY <1>14 DEF Slot
<1> QED BY <1>16, <1>17 DEF h, s, after, t, mine, x, j

(* What the code for a name reads, where no script does what the compiler     *)
(* gets wrong.                                                                *)
LEMMA MeantIsLexical ==
  ASSUME Uses = {}, Shaped, InTextOrder, FramesInOrder, NEW n \in Names, NEW c, Nameable(n, c)
  PROVE  Meant(n, c) = Lexical(n, c)
<1> DEFINE h     == Home(n, c)
           i     == Found(tables[h], n, c)
           s     == tables[h].symbols[i]
           v     == Lexical(n, c)
           after == Resolved(n, c)
           t     == Last(after)
           mine  == Captured(after)[Len(after)]
           j     == CHOOSE a \in DOMAIN t.upvalues : t.upvalues[a] = [location |-> s.index, depth |-> Len(after) - 2]
<1>1. /\ Basic /\ tables \in Seq(Table) /\ Len(tables) \in Nat /\ Len(tables) >= 1 /\ Here = tables[Len(tables)]
      /\ Here \in Table /\ (Here.kind = "main" <=> Len(tables) = 1)
  BY OnTop DEF Shaped
<1>2. Meant(n, c) = IF h = 0 THEN None
                    ELSE IF s.location = "GLOBAL" THEN (IF s.index < Len(globals) THEN globals[s.index + 1] ELSE Nothing)
                    ELSE IF h = Len(tables) THEN Slot(t, s.index)
                    ELSE IF j \in DOMAIN mine THEN mine[j] ELSE Nothing
  BY DEF Meant
<1>3. c = None \/ CallsItself(n, c) BY DEF Nameable, CallsItself
<1>4. /\ h = 0 => v = None
      /\ h # 0 => /\ h \in 1..Len(tables) /\ i \in 1..Len(tables[h].symbols)
                  /\ \/ i = 1 /\ h >= 2 /\ v = tables[h].slots[1]
                     \/ \E p \in 1..Len(Flat(tables[h])) : Denotes(h, p, v) /\ PlacedAt(tables[h], p, tables[h].symbols[i])
  BY <1>3, LookedUp
<1>5. h # 0 => after \in Seq(Table) /\ Len(after) = Len(tables) /\ \A k \in 1..Len(tables) : Alike(tables[k], after[k])
  BY <1>1, ResolvedTables
<1>6. h # 0 /\ s.location = "LOCAL" => /\ h = Len(tables) \/ h = Len(tables) - 1
                                       /\ h # Len(tables) => Here.kind # "lambda"
  <2>1. Uses \cap {"deep", "overloads"} = {} /\ "lambdas" \notin Uses OBVIOUS
  <2> QED BY <2>1, Near
<1>7. h # 0 /\ Len(tables) = h + 1 /\ Here.kind = "function" /\ s.location = "LOCAL"
      => j \in DOMAIN mine /\ mine[j] = Slot(tables[h], s.index)
  BY <1>1, FoundCaptured
<1> HIDE DEF h, i, v, after, j, mine
<1>8. CASE h = 0 BY <1>2, <1>4, <1>8 DEF v
<1>9. CASE h # 0 /\ s.location = "GLOBAL"
  <2>1. /\ h \in 1..Len(tables) /\ i \in 1..Len(tables[h].symbols) /\ tables[h].symbols[i].location = "GLOBAL"
        /\ \/ i = 1 /\ v = tables[h].slots[1]
           \/ \E p \in 1..Len(Flat(tables[h])) : Denotes(h, p, v) /\ PlacedAt(tables[h], p, tables[h].symbols[i])
    BY <1>4, <1>9
  <2>2. s.index < Len(globals) /\ globals[s.index + 1] = v BY <2>1, GlobalPlace
  <2> QED BY <1>2, <1>9, <2>2 DEF v
<1>10. CASE h # 0 /\ s.location = "LOCAL"
  <2>1. Slot(tables[h], s.index) = v BY <1>4, <1>10, LocalSlot
  <2>2. CASE h = Len(tables)
    <3>1. after # <<>> BY <1>1, <1>5, <1>10
    <3>2. t = after[h] BY <1>5, <1>10, <2>2, <3>1, Fronted
    <3>3. t.slots = tables[h].slots BY <1>4, <1>5, <1>10, <3>2 DEF Alike
    <3> HIDE DEF t
    <3>4. Slot(t, s.index) = Slot(tables[h], s.index) BY <3>3 DEF Slot
    <3>5. Meant(n, c) = Slot(t, s.index) BY <1>2, <1>10, <2>2 DEF t
    <3> QED BY <2>1, <3>4, <3>5 DEF v
  <2>3. CASE h # Len(tables)
    <3>1. h = Len(tables) - 1 /\ Here.kind # "lambda" BY <1>6, <1>10, <2>3
    <3>2. Len(tables) = h + 1 /\ Len(tables) # 1 BY <1>1, <1>4, <1>10, <3>1
    <3>3. Here.kind = "function"
      <4>1. Here.kind \in {"main", "function", "lambda"} BY <1>1, TableFields
      <4> QED BY <1>1, <3>1, <3>2, <4>1
    <3>4. j \in DOMAIN mine /\ mine[j] = Slot(tables[h], s.index) BY <1>7, <1>10, <3>2, <3>3
    <3>5. Meant(n, c) = mine[j] BY <1>2, <1>10, <2>3, <3>4
    <3> QED BY <2>1, <3>4, <3>5 DEF v
  <2> QED BY <2>2, <2>3
<1>11. h # 0 => s.location \in {"GLOBAL", "LOCAL"}
  <2> SUFFICES ASSUME h # 0 PROVE s.location \in {"GLOBAL", "LOCAL"} OBVIOUS
  <2>1. tables[h] \in Table BY <1>1, <1>4
  <2> QED BY <1>4, <2>1, SymbolFields
<1> QED BY <1>8, <1>9, <1>10, <1>11

(* Where no script does what the compiler gets wrong, the code for a name     *)
(* reads the variable the text says, through whatever blocks, functions and   *)
(* closures are between, and a name without a variable is refused             *)
(* (SymbolTable::Resolve, ExitScope, OP_CLOSURE).                             *)
THEOREM NamesMeanTheirVariables ==
  ASSUME Uses = {}
  PROVE  Spec => []ResolvesLexically
<1>1. "siblings" \notin Uses /\ "callers" \notin Uses OBVIOUS
<1>2. Init => Shaped /\ InTextOrder /\ FramesInOrder BY InitShaped, InitOrdered, InitFrames
<1>3. Shaped /\ InTextOrder /\ FramesInOrder /\ [Next]_vars => (Shaped /\ InTextOrder /\ FramesInOrder)'
  <2> SUFFICES ASSUME Shaped, InTextOrder, FramesInOrder, [Next]_vars PROVE (Shaped /\ InTextOrder /\ FramesInOrder)'
    OBVIOUS
  <2>1. Shaped' BY <1>1, NextShaped
  <2>2. InTextOrder' BY NextOrdered DEF Shaped
  <2>3. FramesInOrder' BY <1>1, NextFrames DEF Shaped
  <2> QED BY <2>1, <2>2, <2>3
<1>4. Shaped /\ InTextOrder /\ FramesInOrder => ResolvesLexically BY MeantIsLexical DEF ResolvesLexically
<1> QED BY <1>2, <1>3, <1>4, PTL DEF Spec
=============================================================================

--------------------------- MODULE SequenceFacts ---------------------------
(***************************************************************************)
(* Facts about sequences that the proofs about Scopes cite.                *)
(*                                                                         *)
(* FlattenSeq is defined by a recursive function: FlattenIs says what that *)
(* is, by induction over a set of numbers (Induction, from Least, which    *)
(* WFMin gives), and FlattenAppend is the recursion without the function.  *)
(***************************************************************************)
EXTENDS Integers, SequencesExt, FiniteSetsExt, WellFoundedInduction, TLAPS

(* The numbers are well-founded. *)
LEMMA Smaller == IsWellFoundedOn({ss \in Nat \X Nat : ss[1] < ss[2]}, Nat)
BY NatLessThanWellFounded DEF OpToRel

(* A set of numbers has a least one. *)
LEMMA Least ==
  ASSUME NEW T \in SUBSET Nat, T # {}
  PROVE  \E x \in T : \A y \in T : x <= y
<1> DEFINE R == {ss \in Nat \X Nat : ss[1] < ss[2]}
<1>1. IsWellFoundedOn(R, Nat) BY Smaller
<1>2. PICK x \in T : \A y \in T : ~(<<y, x>> \in R)
  <2> HIDE DEF R
  <2> QED BY <1>1, WFMin
<1>3. ASSUME NEW y \in T, y < x PROVE <<y, x>> \in R
  BY <1>3
<1>4. \A y \in T : ~(y < x)
  BY <1>2, <1>3
<1> QED BY <1>4

(* A set that has 0 and with each number the next has all. *)
LEMMA Induction ==
  ASSUME NEW T \in SUBSET Nat, 0 \in T, \A n \in T : n + 1 \in T
  PROVE  T = Nat
<1> SUFFICES ASSUME T # Nat PROVE FALSE OBVIOUS
<1>1. PICK x \in Nat \ T : \A y \in Nat \ T : x <= y
  <2> DEFINE U == Nat \ T
  <2>1. U \in SUBSET Nat /\ U # {} OBVIOUS
  <2> HIDE DEF U
  <2>2. \E x \in U : \A y \in U : x <= y BY <2>1, Least
  <2> QED BY <2>2 DEF U
<1>2. x # 0 OBVIOUS
<1>3. x - 1 \in Nat /\ x - 1 \in T BY <1>1, <1>2
<1> QED BY <1>1, <1>3

(* A set of numbers with a bound has a maximum. *)
LEMMA Greatest ==
  ASSUME NEW T \in SUBSET Nat, T # {}, NEW bound \in Nat, \A x \in T : x <= bound
  PROVE  Max(T) \in T /\ \A x \in T : x <= Max(T)
<1> DEFINE U == {n \in 0..bound : bound - n \in T}
<1>1. U \in SUBSET Nat OBVIOUS
<1>2. U # {}
  <2>1. PICK x \in T : TRUE OBVIOUS
  <2>2. bound - x \in U BY <2>1
  <2> QED BY <2>2
<1>3. PICK u \in U : \A v \in U : u <= v
  <2> HIDE DEF U
  <2> QED BY <1>1, <1>2, Least
<1>4. ASSUME NEW x \in T PROVE bound - u >= x
  <2>1. bound - x \in U OBVIOUS
  <2>2. u <= bound - x BY <1>3, <2>1
  <2> QED BY <2>2, <1>1
<1>5. \E x \in T : \A y \in T : x >= y BY <1>4
<1>6. Max(T) \in T /\ \A y \in T : Max(T) >= y BY <1>5 DEF Max
<1> QED BY <1>6

(* The maximum of two numbers. *)
LEMMA MaxOfTwo ==
  ASSUME NEW a \in Nat, NEW b \in Nat
  PROVE  /\ Max({a, b}) \in Nat
         /\ a <= b => Max({a, b}) = b
         /\ b <= a => Max({a, b}) = a
<1> DEFINE T == {a, b}
<1>1. T \in SUBSET Nat /\ T # {} /\ (\A x \in T : x <= a + b) /\ a + b \in Nat OBVIOUS
<1>2. Max(T) \in T /\ \A x \in T : x <= Max(T)
  <2> HIDE DEF T
  <2> QED BY <1>1, Greatest
<1>3. /\ Max({a, b}) = a \/ Max({a, b}) = b
      /\ a <= Max({a, b}) /\ b <= Max({a, b})
  BY <1>2
<1> QED BY <1>3

-----------------------------------------------------------------------------
(* Sequences *)

(* What is known of a sequence, *)
LEMMA SeqParts ==
  ASSUME NEW X, NEW s \in Seq(X)
  PROVE  Len(s) \in Nat /\ DOMAIN s = 1..Len(s) /\ \A i \in 1..Len(s) : s[i] \in X
OBVIOUS

(* ... how to know that something is one, *)
LEMMA IsSeq ==
  ASSUME NEW X, NEW n \in Nat, NEW s, s \in [1..n -> X]
  PROVE  s \in Seq(X) /\ Len(s) = n
OBVIOUS

(* ... and that two are the same. *)
LEMMA SeqEqual ==
  ASSUME NEW X, NEW s \in Seq(X), NEW r \in Seq(X), Len(s) = Len(r), \A i \in 1..Len(s) : s[i] = r[i]
  PROVE  s = r
OBVIOUS

(* A sequence with one element more in front, *)
LEMMA Prepended ==
  ASSUME NEW X, NEW s \in Seq(X), NEW e \in X
  PROVE  /\ <<e>> \o s \in Seq(X) /\ Len(<<e>> \o s) = Len(s) + 1 /\ (<<e>> \o s)[1] = e
         /\ \A i \in 1..Len(s) : (<<e>> \o s)[i + 1] = s[i]
OBVIOUS

(* ... with one more at the end, *)
LEMMA Appended ==
  ASSUME NEW X, NEW s \in Seq(X), NEW e \in X
  PROVE  /\ Append(s, e) \in Seq(X) /\ Len(Append(s, e)) = Len(s) + 1 /\ Append(s, e)[Len(s) + 1] = e
         /\ \A i \in 1..Len(s) : Append(s, e)[i] = s[i]
         /\ Append(s, e) # <<>> /\ Front(Append(s, e)) = s /\ Last(Append(s, e)) = e
<1>1. /\ Append(s, e) \in Seq(X) /\ Len(Append(s, e)) = Len(s) + 1 /\ Append(s, e)[Len(s) + 1] = e
      /\ \A i \in 1..Len(s) : Append(s, e)[i] = s[i]
  OBVIOUS
<1>2. SubSeq(Append(s, e), 1, Len(s)) = s OBVIOUS
<1>3. (Len(s) + 1) - 1 = Len(s) OBVIOUS
<1>4. Front(Append(s, e)) = s BY <1>1, <1>2, <1>3 DEF Front
<1> QED BY <1>1, <1>4 DEF Last

(* ... with one less at the end, *)
LEMMA Fronted ==
  ASSUME NEW X, NEW s \in Seq(X), s # <<>>
  PROVE  /\ Front(s) \in Seq(X) /\ Len(Front(s)) = Len(s) - 1 /\ Last(s) \in X /\ Last(s) = s[Len(s)]
         /\ \A i \in 1..(Len(s) - 1) : Front(s)[i] = s[i]
         /\ s = Append(Front(s), Last(s)) /\ Len(s) >= 1
<1>1. Len(s) >= 1 /\ Len(s) \in 1..Len(s) OBVIOUS
<1>2. Last(s) \in X /\ Last(s) = s[Len(s)] BY <1>1 DEF Last
<1>3. Front(s) \in Seq(X) /\ Len(Front(s)) = Len(s) - 1
  <2> DEFINE n == Len(s) - 1
  <2>1. n \in Nat /\ n <= Len(s) BY <1>1
  <2>2. Front(s) = SubSeq(s, 1, n) BY DEF Front
  <2> HIDE DEF n
  <2>3. SubSeq(s, 1, n) \in Seq(X) /\ Len(SubSeq(s, 1, n)) = n BY <2>1
  <2> QED BY <2>2, <2>3 DEF n
<1>4. \A i \in 1..(Len(s) - 1) : Front(s)[i] = s[i] BY <1>1 DEF Front
<1>5. s = Append(Front(s), Last(s)) BY DEF Front, Last
<1> QED BY <1>1, <1>2, <1>3, <1>4, <1>5

(* ... and with another at the end. *)
LEMMA LastReplaced ==
  ASSUME NEW X, NEW s \in Seq(X), s # <<>>, NEW e \in X
  PROVE  /\ [s EXCEPT ![Len(s)] = e] \in Seq(X) /\ Len([s EXCEPT ![Len(s)] = e]) = Len(s)
         /\ [s EXCEPT ![Len(s)] = e][Len(s)] = e
         /\ \A i \in 1..(Len(s) - 1) : [s EXCEPT ![Len(s)] = e][i] = s[i]
         /\ [s EXCEPT ![Len(s)] = e] = Append(Front(s), e)
<1> DEFINE r == [s EXCEPT ![Len(s)] = e]
<1>1. Len(s) \in 1..Len(s) OBVIOUS
<1>2. r \in Seq(X) /\ Len(r) = Len(s) /\ r[Len(s)] = e /\ \A i \in 1..(Len(s) - 1) : r[i] = s[i] BY <1>1
<1>3. Front(s) \in Seq(X) /\ Len(Front(s)) = Len(s) - 1 /\ \A i \in 1..(Len(s) - 1) : Front(s)[i] = s[i] BY Fronted
<1>4. Append(Front(s), e) \in Seq(X) /\ Len(Append(Front(s), e)) = Len(s) BY <1>3
<1>5. \A i \in 1..Len(s) : r[i] = Append(Front(s), e)[i]
  <2> HIDE DEF r
  <2> QED BY <1>1, <1>2, <1>3
<1>6. r = Append(Front(s), e)
  <2> HIDE DEF r
  <2> QED BY <1>2, <1>4, <1>5
<1> QED BY <1>2, <1>6

-----------------------------------------------------------------------------
(* f concatenates the first m elements of s. *)
Concatenates(s, m, f) == f = [i \in 1..m |-> IF i = 1 THEN s[i] ELSE f[i - 1] \o s[i]]

(* The concatenations of a sequence of sequences, from the first, *)
LEMMA ConcatenationFirst ==
  ASSUME NEW s, NEW m \in Nat, NEW f, Concatenates(s, m, f), 1 <= m
  PROVE  f[1] = s[1]
<1>1. 1 \in 1..m OBVIOUS
<1> QED BY <1>1 DEF Concatenates

(* ... to each later one from the one before, *)
LEMMA ConcatenationLater ==
  ASSUME NEW s, NEW m \in Nat, NEW f, Concatenates(s, m, f), NEW i \in 1..m, i # 1
  PROVE  f[i] = f[i - 1] \o s[i]
<1> DEFINE h == [j \in 1..m |-> IF j = 1 THEN s[j] ELSE f[j - 1] \o s[j]]
<1>1. f = h BY DEF Concatenates
<1>2. h[i] = f[i - 1] \o s[i] OBVIOUS
<1> HIDE DEF h
<1> QED BY <1>1, <1>2

(* ... or from each to the next. *)
LEMMA ConcatenationNext ==
  ASSUME NEW s, NEW m \in Nat, NEW f, Concatenates(s, m, f), NEW i \in Nat, 1 <= i, i + 1 <= m
  PROVE  f[i + 1] = f[i] \o s[i + 1]
<1> SUFFICES ASSUME NEW j \in 1..m, j # 1, j - 1 = i PROVE f[j] = f[i] \o s[j]
  <2>1. i + 1 \in 1..m /\ i + 1 # 1 /\ (i + 1) - 1 = i OBVIOUS
  <2> QED BY <2>1
<1>1. f[j] = f[j - 1] \o s[j] BY ConcatenationLater
<1>2. f[j - 1] = f[i] OBVIOUS
<1> QED BY <1>1, <1>2

(* There is a function that satisfies the recursion, *)
LEMMA ConcatenationExists ==
  ASSUME NEW s, NEW n \in Nat
  PROVE  \E f : Concatenates(s, n, f)
<1> DEFINE T == {m \in Nat : \E f : Concatenates(s, m, f)}
<1>1. 0 \in T
  <2>1. Concatenates(s, 0, [i \in 1..0 |-> s[i]]) BY DEF Concatenates
  <2> QED BY <2>1
<1>2. ASSUME NEW m \in T PROVE m + 1 \in T
  <2>1. PICK f : Concatenates(s, m, f) OBVIOUS
  <2> DEFINE g == [i \in 1..(m + 1) |-> IF i = 1 THEN s[i] ELSE f[i - 1] \o s[i]]
  <2>2. ASSUME NEW i \in 1..m PROVE g[i] = f[i]
    <3>1. CASE i = 1
      <4>1. 1 <= m BY <3>1
      <4>2. f[1] = s[1] BY <2>1, <4>1, ConcatenationFirst
      <4> QED BY <3>1, <4>2
    <3>2. CASE i # 1
      <4>1. f[i] = f[i - 1] \o s[i] BY <2>1, <3>2, ConcatenationLater
      <4>2. g[i] = f[i - 1] \o s[i]
        <5>1. i \in 1..(m + 1) OBVIOUS
        <5> QED BY <3>2, <5>1
      <4> HIDE DEF g
      <4> QED BY <4>1, <4>2
    <3> QED BY <3>1, <3>2
  <2>3. \A i \in 1..(m + 1) : i # 1 => i - 1 \in 1..m OBVIOUS
  <2>4. Concatenates(s, m + 1, g)
    <3>1. \A i \in 1..(m + 1) : i # 1 => g[i - 1] = f[i - 1] BY <2>2, <2>3
    <3> QED BY <3>1 DEF Concatenates
  <2> QED BY <2>4
<1> QED
  <2> HIDE DEF T
  <2>1. T \in SUBSET Nat BY DEF T
  <2>2. T = Nat BY <1>1, <1>2, <2>1, Induction
  <2> QED BY <2>2 DEF T

(* ... only one, and it depends on the sequences up to there alone. *)
LEMMA ConcatenationsAgree ==
  ASSUME NEW s, NEW t, NEW m \in Nat, NEW n \in Nat, m <= n,
         NEW f, Concatenates(s, m, f), NEW g, Concatenates(t, n, g),
         \A i \in 1..m : s[i] = t[i]
  PROVE  \A i \in 1..m : f[i] = g[i]
<1> DEFINE T == {i \in Nat : i \in 1..m => f[i] = g[i]}
<1>1. 0 \in T OBVIOUS
<1>2. ASSUME NEW i \in T PROVE i + 1 \in T
  <2> SUFFICES ASSUME i + 1 \in 1..m PROVE f[i + 1] = g[i + 1] OBVIOUS
  <2>1. CASE i = 0 
    <3>1. 1 <= m /\ 1 <= n /\ 1 \in 1..m BY <2>1
    <3>2. f[1] = s[1] /\ g[1] = t[1] BY <3>1, ConcatenationFirst
    <3> QED BY <2>1, <3>1, <3>2
  <2>2. CASE i # 0
    <3>1. f[i] = g[i] BY <2>2
    <3>2. f[i + 1] = f[i] \o s[i + 1]
      <4>1. 1 <= i /\ i + 1 <= m BY <2>2
      <4> QED BY <4>1, ConcatenationNext
    <3>3. g[i + 1] = g[i] \o t[i + 1]
      <4>1. 1 <= i /\ i + 1 <= n BY <2>2
      <4> QED BY <4>1, ConcatenationNext
    <3> QED BY <3>1, <3>2, <3>3
  <2> QED BY <2>1, <2>2
<1> QED
  <2> HIDE DEF T
  <2>1. T \in SUBSET Nat BY DEF T
  <2>2. T = Nat BY <1>1, <1>2, <2>1, Induction
  <2> QED BY <2>2 DEF T

(* Its values are sequences. *)
LEMMA ConcatenationType ==
  ASSUME NEW X, NEW s \in Seq(Seq(X)), NEW m \in 0..Len(s), NEW f, Concatenates(s, m, f)
  PROVE  \A i \in 1..m : f[i] \in Seq(X)
<1> DEFINE T == {i \in Nat : i \in 1..m => f[i] \in Seq(X)}
<1>1. 0 \in T OBVIOUS
<1>2. ASSUME NEW i \in T PROVE i + 1 \in T
  <2> SUFFICES ASSUME i + 1 \in 1..m PROVE f[i + 1] \in Seq(X) OBVIOUS
  <2>1. s[i + 1] \in Seq(X) OBVIOUS
  <2>2. CASE i = 0
    <3>1. m \in Nat /\ 1 <= m BY <2>2
    <3>2. f[1] = s[1] BY <3>1, ConcatenationFirst
    <3> QED BY <2>1, <2>2, <3>2
  <2>3. CASE i # 0
    <3>1. f[i] \in Seq(X) BY <2>3
    <3>2. f[i + 1] = f[i] \o s[i + 1]
      <4>1. 1 <= i /\ i + 1 <= m /\ m \in Nat BY <2>3
      <4> QED BY <4>1, ConcatenationNext
    <3> QED BY <2>1, <3>1, <3>2
  <2> QED BY <2>2, <2>3
<1> QED
  <2> HIDE DEF T
  <2>1. T \in SUBSET Nat BY DEF T
  <2>2. T = Nat BY <1>1, <1>2, <2>1, Induction
  <2> QED BY <2>2 DEF T

(* FlattenSeq is the last of the concatenations. *)
LEMMA FlattenIs ==
  ASSUME NEW X, NEW s \in Seq(Seq(X)), s # <<>>
  PROVE  \E f : Concatenates(s, Len(s), f) /\ FlattenSeq(s) = f[Len(s)]
<1>1. \E f : Concatenates(s, Len(s), f)
  <2>1. Len(s) \in Nat OBVIOUS
  <2> QED BY <2>1, ConcatenationExists
<1>2. Concatenates(s, Len(s), CHOOSE f : Concatenates(s, Len(s), f)) BY <1>1
<1>3. FlattenSeq(s) = (CHOOSE f : Concatenates(s, Len(s), f))[Len(s)]
  BY DEF FlattenSeq, Concatenates
<1> QED BY <1>2, <1>3

(* Nothing, flattened. *)
LEMMA FlattenEmpty == FlattenSeq(<<>>) = <<>>
BY DEF FlattenSeq

(* Flattened, sequences of sequences are sequences. *)
LEMMA FlattenType ==
  ASSUME NEW X, NEW s \in Seq(Seq(X))
  PROVE  FlattenSeq(s) \in Seq(X)
<1>1. CASE s = <<>>
  <2>1. FlattenSeq(s) = <<>> BY <1>1, FlattenEmpty
  <2> QED BY <2>1
<1>2. CASE s # <<>>
  <2>1. PICK f : Concatenates(s, Len(s), f) /\ FlattenSeq(s) = f[Len(s)] BY <1>2, FlattenIs
  <2>2. Len(s) \in 1..Len(s) BY <1>2
  <2> QED BY <2>1, <2>2, ConcatenationType
<1> QED BY <1>1, <1>2

(* One sequence more at the end, *)
LEMMA FlattenAppend ==
  ASSUME NEW X, NEW s \in Seq(Seq(X)), NEW e \in Seq(X)
  PROVE  FlattenSeq(Append(s, e)) = FlattenSeq(s) \o e
<1> DEFINE t == Append(s, e)
           m == Len(s)
<1>1. t \in Seq(Seq(X)) /\ t # <<>> /\ Len(t) = m + 1 /\ t[m + 1] = e /\ \A i \in 1..m : t[i] = s[i]
  <2>1. t \in Seq(Seq(X)) OBVIOUS
  <2>2. Len(t) = m + 1 /\ t[m + 1] = e /\ \A i \in 1..m : t[i] = s[i] OBVIOUS
  <2> QED BY <2>1, <2>2
<1>5. m \in Nat /\ m + 1 \in Nat /\ m <= m + 1 OBVIOUS
<1> HIDE DEF t
<1>2. PICK g : Concatenates(t, m + 1, g) /\ FlattenSeq(t) = g[m + 1] BY <1>1, FlattenIs
<1>3. CASE s = <<>>
  <2>1. FlattenSeq(t) = e
    <3>1. m = 0 BY <1>3
    <3>3. m + 1 \in Nat /\ 1 <= m + 1 BY <3>1
    <3>2. g[1] = t[1] BY <1>2, <3>3, ConcatenationFirst
    <3> QED BY <1>1, <1>2, <3>1, <3>2
  <2> QED BY <1>3, <2>1, FlattenEmpty DEF t
<1>4. CASE s # <<>>
  <2>1. PICK f : Concatenates(s, m, f) /\ FlattenSeq(s) = f[m] BY <1>4, FlattenIs
  <2>2. m \in 1..m BY <1>4
  <2>3. f[m] = g[m]
    <3>1. \A i \in 1..m : s[i] = t[i] BY <1>1
    <3> HIDE DEF m
    <3>2. \A i \in 1..m : f[i] = g[i] BY <3>1, <1>2, <1>5, <2>1, ConcatenationsAgree
    <3> QED BY <3>2, <2>2
  <2>4. g[m + 1] = g[m] \o t[m + 1]
    <3> HIDE DEF m
    <3>1. 1 <= m /\ m + 1 <= m + 1 BY <1>5, <2>2
    <3> QED BY <1>2, <1>5, <3>1, ConcatenationNext
  <2> QED BY <1>1, <1>2, <2>1, <2>3, <2>4 DEF t
<1> QED BY <1>3, <1>4

(* ... or taken apart there. *)
LEMMA FlattenFront ==
  ASSUME NEW X, NEW s \in Seq(Seq(X)), s # <<>>
  PROVE  FlattenSeq(s) = FlattenSeq(Front(s)) \o Last(s)
<1>1. Front(s) \in Seq(Seq(X)) /\ Last(s) \in Seq(X) BY DEF Front, Last
<1>2. s = Append(Front(s), Last(s)) BY DEF Front, Last
<1>3. FlattenSeq(Append(Front(s), Last(s))) = FlattenSeq(Front(s)) \o Last(s)
  BY <1>1, FlattenAppend
<1> QED BY <1>2, <1>3

(* What comes first stays where it is. *)
LEMMA FlattenHead ==
  ASSUME NEW X, NEW s \in Seq(Seq(X)), s # <<>>
  PROVE  /\ Len(s[1]) <= Len(FlattenSeq(s))
         /\ \A i \in 1..Len(s[1]) : FlattenSeq(s)[i] = s[1][i]
<1> DEFINE P(m) == LET p == FlattenSeq(SubSeq(s, 1, m)) IN
             Len(s[1]) <= Len(p) /\ \A i \in 1..Len(s[1]) : p[i] = s[1][i]
           T == {m \in Nat : m \in 1..Len(s) => P(m)}
<1>1. 0 \in T OBVIOUS
<1>2. ASSUME NEW m \in T PROVE m + 1 \in T
  <2> SUFFICES ASSUME m + 1 \in 1..Len(s) PROVE P(m + 1) OBVIOUS
  <2> DEFINE t == SubSeq(s, 1, m)
             e == s[m + 1]
  <2>1. t \in Seq(Seq(X)) /\ e \in Seq(X) /\ s[1] \in Seq(X) OBVIOUS
  <2>2. SubSeq(s, 1, m + 1) = Append(t, e) OBVIOUS
  <2>3. FlattenSeq(SubSeq(s, 1, m + 1)) = FlattenSeq(t) \o e
    <3> HIDE DEF t, e
    <3> QED BY <2>1, <2>2, FlattenAppend
  <2>4. FlattenSeq(t) \in Seq(X)
    <3> HIDE DEF t
    <3> QED BY <2>1, FlattenType
  <2>5. CASE m = 0
    <3>1. t = <<>> BY <2>5
    <3>2. FlattenSeq(t) = <<>> BY <3>1, FlattenEmpty
    <3>4. e = s[1] BY <2>5
    <3>5. <<>> \o e = e BY <2>1
    <3>3. FlattenSeq(SubSeq(s, 1, m + 1)) = s[1]
      <4> HIDE DEF t, e
      <4> QED BY <2>3, <3>2, <3>4, <3>5
    <3> HIDE DEF t, e
    <3> QED BY <2>1, <3>3
  <2>6. CASE m # 0
    <3>1. P(m) BY <2>6
    <3>2. Len(s[1]) <= Len(FlattenSeq(t)) /\ \A i \in 1..Len(s[1]) : FlattenSeq(t)[i] = s[1][i] BY <3>1
    <3> HIDE DEF t, e
    <3> QED BY <2>1, <2>3, <2>4, <3>2
  <2> QED BY <2>5, <2>6
<1>3. P(Len(s))
  <2> HIDE DEF P
  <2>1. T \in SUBSET Nat OBVIOUS
  <2>2. T = Nat
    <3> HIDE DEF T
    <3> QED BY <1>1, <1>2, <2>1, Induction
  <2>3. Len(s) \in 1..Len(s) /\ Len(s) \in Nat OBVIOUS
  <2> QED BY <2>2, <2>3
<1>4. SubSeq(s, 1, Len(s)) = s OBVIOUS
<1> QED BY <1>3, <1>4

(* Induction from a to b. *)
LEMMA InductionBetween ==
  ASSUME NEW T, NEW a \in Nat, NEW b \in Nat, a \in T,
         \A n \in a..b : n \in T /\ n + 1 <= b => n + 1 \in T
  PROVE  \A n \in a..b : n \in T
<1> DEFINE U == {n \in Nat : n \in a..b => n \in T}
<1>1. 0 \in U
  <2>1. 0 \in a..b => a = 0 OBVIOUS
  <2> QED BY <2>1
<1>2. ASSUME NEW n \in U PROVE n + 1 \in U
  <2> SUFFICES ASSUME n + 1 \in a..b PROVE n + 1 \in T OBVIOUS
  <2>1. CASE n \in a..b BY <2>1
  <2>2. CASE n \notin a..b
    <3>1. n + 1 = a BY <2>2
    <3> QED BY <3>1
  <2> QED BY <2>1, <2>2
<1> QED
  <2> HIDE DEF U
  <2>1. U \in SUBSET Nat BY DEF U
  <2>2. U = Nat BY <1>1, <1>2, <2>1, Induction
  <2>3. \A n \in a..b : n \in Nat OBVIOUS
  <2> QED BY <2>2, <2>3 DEF U

(* The first m + 1 sequences are the first m and the next. *)
LEMMA FlattenPrefix ==
  ASSUME NEW X, NEW s \in Seq(Seq(X)), NEW m \in Nat, m + 1 <= Len(s)
  PROVE  /\ FlattenSeq(SubSeq(s, 1, m)) \in Seq(X)
         /\ s[m + 1] \in Seq(X)
         /\ FlattenSeq(SubSeq(s, 1, m + 1)) = FlattenSeq(SubSeq(s, 1, m)) \o s[m + 1]
<1> DEFINE t == SubSeq(s, 1, m)
           e == s[m + 1]
<1>1. t \in Seq(Seq(X)) /\ e \in Seq(X) OBVIOUS
<1>2. SubSeq(s, 1, m + 1) = Append(t, e) OBVIOUS
<1> HIDE DEF t, e
<1>3. FlattenSeq(SubSeq(s, 1, m + 1)) = FlattenSeq(t) \o e BY <1>1, <1>2, FlattenAppend
<1>4. FlattenSeq(t) \in Seq(X) BY <1>1, FlattenType
<1> QED BY <1>1, <1>3, <1>4 DEF t, e

(* Concatenation is associative. *)
LEMMA ConcatAssociative ==
  ASSUME NEW X, NEW u \in Seq(X), NEW v \in Seq(X), NEW w \in Seq(X)
  PROVE  (u \o v) \o w = u \o (v \o w)
OBVIOUS

(* The elements of two sequences, put together. *)
LEMMA Concat ==
  ASSUME NEW X, NEW u \in Seq(X), NEW v \in Seq(X)
  PROVE  /\ u \o v \in Seq(X) /\ Len(u \o v) = Len(u) + Len(v)
         /\ \A j \in 1..Len(u) : (u \o v)[j] = u[j]
         /\ \A j \in (Len(u) + 1)..Len(u \o v) : j - Len(u) \in 1..Len(v) /\ (u \o v)[j] = v[j - Len(u)]
OBVIOUS

(* No element of either sequence is in M. *)
LEMMA ConcatWithout ==
  ASSUME NEW X, NEW u \in Seq(X), NEW v \in Seq(X), NEW M,
         \A i \in 1..Len(u) : u[i] \notin M, \A i \in 1..Len(v) : v[i] \notin M
  PROVE  \A i \in 1..Len(u \o v) : (u \o v)[i] \notin M
<1> SUFFICES ASSUME NEW i \in 1..Len(u \o v) PROVE (u \o v)[i] \notin M
  OBVIOUS
<1>1. CASE i \in 1..Len(u) BY <1>1
<1>2. CASE i \notin 1..Len(u)
  <2>1. i \in (Len(u) + 1)..Len(u \o v) BY <1>2
  <2>2. i - Len(u) \in 1..Len(v) /\ (u \o v)[i] = v[i - Len(u)] BY <2>1, Concat
  <2> QED BY <2>2
<1> QED BY <1>1, <1>2

(* The last element in M, and nothing after it. *)
LastIn(s, M, x) == \E i \in 1..Len(s) : s[i] = x /\ \A j \in (i + 1)..Len(s) : s[j] \notin M

(* The last element in M is in the second sequence, *)
LEMMA LastInSecond ==
  ASSUME NEW X, NEW u \in Seq(X), NEW v \in Seq(X), NEW M, NEW x, LastIn(v, M, x)
  PROVE  LastIn(u \o v, M, x)
<1>1. PICK i \in 1..Len(v) : v[i] = x /\ \A j \in (i + 1)..Len(v) : v[j] \notin M BY DEF LastIn
<1> DEFINE n == Len(u) + i
<1>2. n \in 1..Len(u \o v) /\ (u \o v)[n] = x BY <1>1
<1>3. ASSUME NEW j \in (n + 1)..Len(u \o v) PROVE (u \o v)[j] \notin M
  <2>1. j \in (Len(u) + 1)..Len(u \o v) /\ j - Len(u) \in (i + 1)..Len(v) OBVIOUS
  <2>2. (u \o v)[j] = v[j - Len(u)] BY <2>1, Concat
  <2> QED BY <1>1, <2>1, <2>2
<1> HIDE DEF n
<1> QED BY <1>2, <1>3 DEF LastIn

(* ... or in the first, when the second has none. *)
LEMMA LastInFirst ==
  ASSUME NEW X, NEW u \in Seq(X), NEW v \in Seq(X), NEW M, NEW x, LastIn(u, M, x),
         \A i \in 1..Len(v) : v[i] \notin M
  PROVE  LastIn(u \o v, M, x)
<1>1. PICK i \in 1..Len(u) : u[i] = x /\ \A j \in (i + 1)..Len(u) : u[j] \notin M BY DEF LastIn
<1>2. i \in 1..Len(u \o v) /\ (u \o v)[i] = x BY <1>1
<1>3. ASSUME NEW j \in (i + 1)..Len(u \o v) PROVE (u \o v)[j] \notin M
  <2>1. CASE j \in 1..Len(u)
    <3>1. j \in (i + 1)..Len(u) /\ (u \o v)[j] = u[j] BY <2>1
    <3> QED BY <1>1, <3>1
  <2>2. CASE j \notin 1..Len(u)
    <3>1. j \in (Len(u) + 1)..Len(u \o v) BY <2>2
    <3>2. j - Len(u) \in 1..Len(v) /\ (u \o v)[j] = v[j - Len(u)] BY <3>1, Concat
    <3> QED BY <3>2
  <2> QED BY <2>1, <2>2
<1> QED BY <1>2, <1>3 DEF LastIn

(* No element of any of the sequences is in M. *)
LEMMA FlattenWithout ==
  ASSUME NEW X, NEW s \in Seq(Seq(X)), NEW M,
         \A k \in 1..Len(s) : \A i \in 1..Len(s[k]) : s[k][i] \notin M
  PROVE  \A i \in 1..Len(FlattenSeq(s)) : FlattenSeq(s)[i] \notin M
<1> DEFINE f(m) == FlattenSeq(SubSeq(s, 1, m))
           T == {m \in Nat : \A i \in 1..Len(f(m)) : f(m)[i] \notin M}
<1>1. 0 \in T
  <2>1. SubSeq(s, 1, 0) = <<>> OBVIOUS
  <2>2. f(0) = <<>> BY <2>1, FlattenEmpty
  <2> QED BY <2>2
<1>2. ASSUME NEW m \in 0..Len(s), m \in T, m + 1 <= Len(s) PROVE m + 1 \in T
  <2>1. /\ f(m) \in Seq(X) /\ s[m + 1] \in Seq(X) /\ f(m + 1) = f(m) \o s[m + 1]
    BY <1>2, FlattenPrefix
  <2>2. m \in Nat /\ m + 1 \in Nat /\ \A i \in 1..Len(f(m)) : f(m)[i] \notin M BY <1>2
  <2>3. \A i \in 1..Len(s[m + 1]) : s[m + 1][i] \notin M BY <1>2
  <2> HIDE DEF f
  <2>4. \A i \in 1..Len(f(m + 1)) : f(m + 1)[i] \notin M BY <2>1, <2>2, <2>3, ConcatWithout
  <2> QED BY <2>2, <2>4
<1>3. Len(s) \in T
  <2> HIDE DEF T
  <2>1. \A n \in 0..Len(s) : n \in T
    <3>1. Len(s) \in Nat /\ 0 \in Nat OBVIOUS
    <3> QED BY <1>1, <1>2, <3>1, InductionBetween
  <2> QED BY <2>1
<1>4. SubSeq(s, 1, Len(s)) = s OBVIOUS
<1> QED BY <1>3, <1>4

(* The last element in M is that of the last sequence that has one. *)
LEMMA FlattenLatest ==
  ASSUME NEW X, NEW s \in Seq(Seq(X)), NEW M, NEW x, NEW k \in 1..Len(s), LastIn(s[k], M, x),
         \A l \in (k + 1)..Len(s) : \A i \in 1..Len(s[l]) : s[l][i] \notin M
  PROVE  LastIn(FlattenSeq(s), M, x)
<1> DEFINE f(m) == FlattenSeq(SubSeq(s, 1, m))
           T == {m \in Nat : LastIn(f(m), M, x)}
<1>1. k \in T
  <2>1. PICK n \in Nat : k = n + 1
    <3>1. k - 1 \in Nat /\ k = (k - 1) + 1 OBVIOUS
    <3> QED BY <3>1
  <2>2. /\ f(n) \in Seq(X) /\ s[n + 1] \in Seq(X) /\ f(n + 1) = f(n) \o s[n + 1]
    <3>1. n + 1 <= Len(s) BY <2>1
    <3> QED BY <3>1, FlattenPrefix
  <2>3. k \in Nat OBVIOUS
  <2> HIDE DEF f
  <2>4. LastIn(f(k), M, x) BY <2>1, <2>2, LastInSecond
  <2> QED BY <2>3, <2>4
<1>2. ASSUME NEW m \in k..Len(s), m \in T, m + 1 <= Len(s) PROVE m + 1 \in T
  <2>1. /\ f(m) \in Seq(X) /\ s[m + 1] \in Seq(X) /\ f(m + 1) = f(m) \o s[m + 1]
    BY <1>2, FlattenPrefix
  <2>2. \A j \in 1..Len(s[m + 1]) : s[m + 1][j] \notin M
    <3>1. m + 1 \in (k + 1)..Len(s) BY <1>2
    <3> QED BY <3>1
  <2>3. m + 1 \in Nat /\ LastIn(f(m), M, x) BY <1>2
  <2> HIDE DEF f
  <2>4. LastIn(f(m + 1), M, x) BY <2>1, <2>2, <2>3, LastInFirst
  <2> QED BY <2>3, <2>4
<1>3. Len(s) \in T
  <2> HIDE DEF T
  <2>1. k \in Nat /\ Len(s) \in Nat /\ Len(s) \in k..Len(s) OBVIOUS
  <2>2. \A n \in k..Len(s) : n \in T
    BY <1>1, <1>2, <2>1, InductionBetween
  <2> QED BY <2>1, <2>2
<1>4. SubSeq(s, 1, Len(s)) = s OBVIOUS
<1> QED BY <1>3, <1>4

(* Every element of every sequence is in the flattened one. *)
LEMMA FlattenKeeps ==
  ASSUME NEW X, NEW s \in Seq(Seq(X)), NEW k \in 1..Len(s), NEW i \in 1..Len(s[k])
  PROVE  \E j \in 1..Len(FlattenSeq(s)) : FlattenSeq(s)[j] = s[k][i]
<1> DEFINE x == s[k][i]
           f(m) == FlattenSeq(SubSeq(s, 1, m))
           T == {m \in Nat : \E j \in 1..Len(f(m)) : f(m)[j] = x}
<1>1. k \in T
  <2>1. PICK n \in Nat : k = n + 1
    <3>1. k - 1 \in Nat /\ k = (k - 1) + 1 OBVIOUS
    <3> QED BY <3>1
  <2>2. /\ f(n) \in Seq(X) /\ s[n + 1] \in Seq(X) /\ f(n + 1) = f(n) \o s[n + 1]
    <3>1. n + 1 <= Len(s) BY <2>1
    <3> QED BY <3>1, FlattenPrefix
  <2>3. k \in Nat OBVIOUS
  <2> HIDE DEF f
  <2>4. Len(f(n)) + i \in 1..Len(f(k)) /\ f(k)[Len(f(n)) + i] = x
    BY <2>1, <2>2
  <2> QED BY <2>3, <2>4
<1>2. ASSUME NEW m \in k..Len(s), m \in T, m + 1 <= Len(s) PROVE m + 1 \in T
  <2>1. /\ f(m) \in Seq(X) /\ s[m + 1] \in Seq(X) /\ f(m + 1) = f(m) \o s[m + 1]
    BY <1>2, FlattenPrefix
  <2>2. PICK j \in 1..Len(f(m)) : f(m)[j] = x BY <1>2
  <2>3. m + 1 \in Nat BY <1>2
  <2> HIDE DEF f
  <2>4. j \in 1..Len(f(m + 1)) /\ f(m + 1)[j] = x BY <2>1, <2>2
  <2> QED BY <2>3, <2>4
<1>3. Len(s) \in T
  <2> HIDE DEF T
  <2>1. k \in Nat /\ Len(s) \in Nat /\ Len(s) \in k..Len(s) OBVIOUS
  <2>2. \A n \in k..Len(s) : n \in T
    BY <1>1, <1>2, <2>1, InductionBetween
  <2> QED BY <2>1, <2>2
<1>4. SubSeq(s, 1, Len(s)) = s OBVIOUS
<1> QED BY <1>3, <1>4

(* What LastIn finds is at the greatest place of M. *)
LEMMA LastInMax ==
  ASSUME NEW X, NEW s \in Seq(X), NEW M, NEW x \in M, LastIn(s, M, x)
  PROVE  LET here == {i \in DOMAIN s : s[i] \in M} IN here # {} /\ s[Max(here)] = x
<1> DEFINE here == {i \in DOMAIN s : s[i] \in M}
<1>1. PICK i \in 1..Len(s) : s[i] = x /\ \A j \in (i + 1)..Len(s) : s[j] \notin M BY DEF LastIn
<1>2. here \in SUBSET Nat /\ i \in here /\ \A j \in here : j <= i BY <1>1
<1>3. Max(here) \in here /\ \A j \in here : j <= Max(here)
  <2> HIDE DEF here
  <2>1. i \in Nat OBVIOUS
  <2> QED BY <1>2, <2>1, Greatest
<1>4. Max(here) = i
  <2> HIDE DEF here
  <2>1. Max(here) <= i /\ i <= Max(here) BY <1>2, <1>3
  <2>2. Max(here) \in Nat /\ i \in Nat BY <1>2, <1>3
  <2> QED BY <2>1, <2>2
<1> QED BY <1>1, <1>2, <1>4


(* How long the first b sequences are together. *)
LengthOf(s, b) == Len(FlattenSeq(SubSeq(s, 1, b)))

(* LengthOf, for all b, and where it is known. *)
LEMMA LengthOfParts ==
  ASSUME NEW X, NEW s \in Seq(Seq(X)), s # <<>>
  PROVE  /\ \A b \in 0..Len(s) : LengthOf(s, b) \in Nat
         /\ LengthOf(s, Len(s)) = Len(FlattenSeq(s)) /\ LengthOf(s, 1) = Len(s[1])
         /\ LengthOf(s, Len(s) - 1) = Len(FlattenSeq(Front(s)))
<1>1. ASSUME NEW b \in 0..Len(s) PROVE LengthOf(s, b) \in Nat
  <2> DEFINE t == SubSeq(s, 1, b)
  <2>1. t \in Seq(Seq(X)) OBVIOUS
  <2> HIDE DEF t
  <2>2. FlattenSeq(t) \in Seq(X) BY <2>1, FlattenType
  <2> QED BY <2>2 DEF LengthOf, t
<1>2. SubSeq(s, 1, Len(s)) = s OBVIOUS
<1>3. LengthOf(s, 1) = Len(s[1])
  <2>1. s[1] \in Seq(X) /\ 1 <= Len(s) /\ SubSeq(s, 1, 1) = Append(<<>>, s[1])
    <3> DEFINE Y == Seq(X)
    <3>1. s \in Seq(Y) /\ s # <<>> OBVIOUS
    <3> HIDE DEF Y
    <3>2. s[1] \in Y /\ 1 <= Len(s) /\ Len(s) \in Nat BY <3>1
    <3>3. Len(SubSeq(s, 1, 1)) = 1 /\ SubSeq(s, 1, 1)[1] = s[1] /\ SubSeq(s, 1, 1) \in Seq(Y) BY <3>1, <3>2
    <3>4. Append(<<>>, s[1]) = <<s[1]>> BY <3>2
    <3> DEFINE u == <<s[1]>>
               v == SubSeq(s, 1, 1)
    <3>6. u \in Seq(Y) /\ Len(u) = 1 /\ u[1] = s[1] BY <3>2
    <3> HIDE DEF u, v
    <3>7. v \in Seq(Y) /\ Len(v) = Len(u) /\ \A i \in 1..Len(v) : v[i] = u[i] BY <3>3, <3>6 DEF v
    <3>8. v = u BY <3>6, <3>7, SeqEqual
    <3>5. SubSeq(s, 1, 1) = <<s[1]>> BY <3>8 DEF u, v
    <3> QED BY <3>2, <3>4, <3>5 DEF Y
  <2> DEFINE e == s[1]
             z == <<>>
  <2>2. e \in Seq(X) /\ z \in Seq(Seq(X)) BY <2>1
  <2>3. <<>> \o e = e BY <2>2
  <2> HIDE DEF e, z
  <2>4. FlattenSeq(Append(z, e)) = FlattenSeq(z) \o e BY <2>2, FlattenAppend
  <2>5. FlattenSeq(z) = <<>> BY FlattenEmpty DEF z
  <2>6. FlattenSeq(Append(z, e)) = e BY <2>3, <2>4, <2>5
  <2> QED BY <2>1, <2>6 DEF LengthOf, z, e
<1>4. LengthOf(s, Len(s) - 1) = Len(FlattenSeq(Front(s))) BY DEF LengthOf, Front
<1> QED BY <1>1, <1>2, <1>3, <1>4 DEF LengthOf

(* One sequence more leaves the others as long as they are. *)
LEMMA LengthOfAppend ==
  ASSUME NEW X, NEW s \in Seq(Seq(X)), NEW e \in Seq(X)
  PROVE  /\ \A b \in 0..Len(s) : LengthOf(Append(s, e), b) = LengthOf(s, b)
         /\ LengthOf(Append(s, e), Len(s) + 1) = Len(FlattenSeq(s)) + Len(e)
         /\ Len(FlattenSeq(s)) \in Nat /\ FlattenSeq(s) \in Seq(X)
         /\ FlattenSeq(Append(s, e)) = FlattenSeq(s) \o e
<1>1. ASSUME NEW b \in 0..Len(s) PROVE LengthOf(Append(s, e), b) = LengthOf(s, b)
  <2>1. SubSeq(Append(s, e), 1, b) = SubSeq(s, 1, b) OBVIOUS
  <2> QED BY <2>1 DEF LengthOf
<1>2. FlattenSeq(Append(s, e)) = FlattenSeq(s) \o e /\ FlattenSeq(s) \in Seq(X) BY FlattenAppend, FlattenType
<1>3. LengthOf(Append(s, e), Len(s) + 1) = Len(FlattenSeq(s)) + Len(e)
  <2>1. SubSeq(Append(s, e), 1, Len(s) + 1) = Append(s, e) OBVIOUS
  <2>2. Len(FlattenSeq(s) \o e) = Len(FlattenSeq(s)) + Len(e) BY <1>2
  <2> QED BY <1>2, <2>1, <2>2 DEF LengthOf
<1>4. Len(FlattenSeq(s)) \in Nat BY <1>2
<1> QED BY <1>1, <1>2, <1>3, <1>4

(* So does one element more in the last. *)
LEMMA LengthOfLast ==
  ASSUME NEW X, NEW s \in Seq(Seq(X)), s # <<>>, NEW d \in X
  PROVE  LET r == Append(Front(s), Append(Last(s), d)) IN
         /\ r \in Seq(Seq(X)) /\ Len(r) = Len(s)
         /\ FlattenSeq(r) = Append(FlattenSeq(s), d) /\ FlattenSeq(s) \in Seq(X)
         /\ \A b \in 0..(Len(s) - 1) : LengthOf(r, b) = LengthOf(s, b)
         /\ LengthOf(r, Len(s)) = LengthOf(s, Len(s)) + 1
         /\ LengthOf(s, Len(s)) = Len(FlattenSeq(s))
         /\ Len(s) = 1 => r[1] = Append(s[1], d)
         /\ Len(s) # 1 => r[1] = s[1]
<1> DEFINE f == Front(s)
           l == Last(s)
           e == Append(l, d)
           n == Len(s)
<1>1. f \in Seq(Seq(X)) /\ l \in Seq(X) /\ Len(f) = n - 1 /\ s = Append(f, l) /\ n >= 1 /\ n \in Nat
      /\ (\A i \in 1..(n - 1) : f[i] = s[i]) /\ l = s[n]
  <2> DEFINE Y == Seq(X)
  <2>1. s \in Seq(Y) /\ s # <<>> OBVIOUS
  <2> HIDE DEF Y
  <2>2. Len(s) \in Nat BY <2>1
  <2> QED BY <2>1, <2>2, Fronted DEF Y
<1>2. e \in Seq(X) /\ Len(e) = Len(l) + 1 /\ Len(l) \in Nat
  <2> HIDE DEF l
  <2> QED BY <1>1
<1> HIDE DEF f, l, e, n
<1>3. Append(f, e) \in Seq(Seq(X)) /\ Len(Append(f, e)) = n /\ Append(f, e)[n] = e /\ \A i \in 1..(n - 1) : Append(f, e)[i] = s[i]
  BY <1>1, <1>2
<1>4. /\ \A b \in 0..(n - 1) : LengthOf(Append(f, e), b) = LengthOf(f, b) /\ LengthOf(Append(f, l), b) = LengthOf(f, b)
      /\ LengthOf(Append(f, e), Len(f) + 1) = Len(FlattenSeq(f)) + Len(e)
      /\ LengthOf(Append(f, l), Len(f) + 1) = Len(FlattenSeq(f)) + Len(l)
      /\ Len(FlattenSeq(f)) \in Nat /\ FlattenSeq(f) \in Seq(X)
      /\ FlattenSeq(Append(f, e)) = FlattenSeq(f) \o e /\ FlattenSeq(Append(f, l)) = FlattenSeq(f) \o l
  <2>1. \A b \in 0..(n - 1) : b \in 0..Len(f) BY <1>1
  <2>2. /\ \A b \in 0..Len(f) : LengthOf(Append(f, e), b) = LengthOf(f, b)
        /\ LengthOf(Append(f, e), Len(f) + 1) = Len(FlattenSeq(f)) + Len(e)
        /\ Len(FlattenSeq(f)) \in Nat /\ FlattenSeq(f) \in Seq(X)
        /\ FlattenSeq(Append(f, e)) = FlattenSeq(f) \o e
    BY <1>1, <1>2, LengthOfAppend
  <2>3. /\ \A b \in 0..Len(f) : LengthOf(Append(f, l), b) = LengthOf(f, b)
        /\ LengthOf(Append(f, l), Len(f) + 1) = Len(FlattenSeq(f)) + Len(l)
        /\ Len(FlattenSeq(f)) \in Nat /\ FlattenSeq(f) \in Seq(X)
        /\ FlattenSeq(Append(f, l)) = FlattenSeq(f) \o l
    BY <1>1, <1>2, LengthOfAppend
  <2> QED BY <2>1, <2>2, <2>3
<1>5. FlattenSeq(f) \o e = Append(FlattenSeq(f) \o l, d) BY <1>1, <1>2, <1>4 DEF e
<1>6. Len(f) + 1 = n BY <1>1
<1>7. LengthOf(Append(f, e), n) = LengthOf(Append(f, l), n) + 1 BY <1>2, <1>4, <1>6
<1>8. n = 1 => Append(f, e)[1] = Append(s[1], d) BY <1>1, <1>3 DEF e
<1>9. n # 1 => Append(f, e)[1] = s[1] BY <1>1, <1>3
<1>10. FlattenSeq(s) \in Seq(X) BY FlattenType
<1>11. LengthOf(s, n) = Len(FlattenSeq(s))
  <2>1. s # <<>> OBVIOUS
  <2> QED BY <2>1, LengthOfParts DEF n
<1> QED BY <1>1, <1>3, <1>4, <1>5, <1>7, <1>8, <1>9, <1>10, <1>11 DEF n, f, l, e

(* A part is no longer than the whole. *)
LEMMA LengthOfGrows ==
  ASSUME NEW X, NEW s \in Seq(Seq(X)), NEW b \in 0..Len(s)
  PROVE  LengthOf(s, b) <= LengthOf(s, Len(s))
<1> DEFINE T == {m \in Nat : LengthOf(s, b) <= LengthOf(s, m)}
           n == Len(s)
<1>1. n \in Nat /\ b \in Nat /\ b <= n OBVIOUS
<1>2. ASSUME NEW m \in 0..n PROVE LengthOf(s, m) \in Nat
  <2>1. SubSeq(s, 1, m) \in Seq(Seq(X)) OBVIOUS
  <2> DEFINE t == SubSeq(s, 1, m)
  <2> HIDE DEF t
  <2>2. FlattenSeq(t) \in Seq(X) BY <2>1, FlattenType DEF t
  <2> QED BY <2>2 DEF LengthOf, t
<1>3. b \in T
  <2>1. LengthOf(s, b) \in Nat BY <1>2
  <2> QED BY <1>1, <2>1
<1>4. ASSUME NEW m \in b..n, m \in T, m + 1 <= n PROVE m + 1 \in T
  <2>1. m \in Nat /\ m \in 0..n /\ m + 1 \in 0..n /\ m + 1 <= Len(s) /\ b \in 0..n BY <1>1, <1>4
  <2>2. /\ FlattenSeq(SubSeq(s, 1, m)) \in Seq(X) /\ s[m + 1] \in Seq(X)
        /\ FlattenSeq(SubSeq(s, 1, m + 1)) = FlattenSeq(SubSeq(s, 1, m)) \o s[m + 1]
    BY <2>1, FlattenPrefix
  <2> DEFINE x == FlattenSeq(SubSeq(s, 1, m))
             y == s[m + 1]
             z == FlattenSeq(SubSeq(s, 1, m + 1))
  <2>3. x \in Seq(X) /\ y \in Seq(X) /\ z = x \o y BY <2>2
  <2> HIDE DEF x, y, z
  <2>4. Len(x) <= Len(z) BY <2>3
  <2>5. LengthOf(s, m) <= LengthOf(s, m + 1) BY <2>4 DEF LengthOf, x, z
  <2>6. LengthOf(s, m) \in Nat /\ LengthOf(s, m + 1) \in Nat /\ LengthOf(s, b) \in Nat BY <1>2, <2>1
  <2>7. LengthOf(s, b) <= LengthOf(s, m) BY <1>4
  <2> QED BY <2>1, <2>5, <2>6, <2>7
<1> HIDE DEF T, n
<1>5. \A m \in b..n : m \in T BY <1>1, <1>3, <1>4, InductionBetween
<1>6. n \in T BY <1>1, <1>5
<1> QED BY <1>6 DEF T, n

(* One sequence, or one and an empty one. *)
LEMMA FlattenOne ==
  ASSUME NEW X, NEW d \in Seq(X)
  PROVE  /\ <<d>> \in Seq(Seq(X)) /\ FlattenSeq(<<d>>) = d /\ LengthOf(<<d>>, 1) = Len(d)
         /\ <<d, <<>>>> \in Seq(Seq(X)) /\ FlattenSeq(<<d, <<>>>>) = d
         /\ LengthOf(<<d, <<>>>>, 1) = Len(d) /\ LengthOf(<<d, <<>>>>, 2) = Len(d)
<1> DEFINE Y == Seq(X)
           z == <<>>
           r == <<d>>
           s == <<d, z>>
<1>1. d \in Y /\ z \in Y /\ d \o z = d /\ z \o d = d /\ Len(z) = 0 OBVIOUS
<1> HIDE DEF Y
<1>2. r \in Seq(Y) /\ s \in Seq(Y) /\ Len(r) = 1 /\ Len(s) = 2 /\ r = Append(z, d) /\ s = Append(r, z) /\ r # <<>> /\ s # <<>>
      /\ r[1] = d /\ s[1] = d
  BY <1>1
<1>3. FlattenSeq(z) = <<>> /\ z \in Seq(Seq(X)) BY FlattenEmpty
<1>4. r \in Seq(Seq(X)) /\ s \in Seq(Seq(X)) /\ z \in Seq(X) /\ <<>> \o d = d BY <1>1, <1>2 DEF Y
<1> HIDE DEF r, s, z
<1>5. FlattenSeq(Append(z, d)) = FlattenSeq(z) \o d BY <1>3, FlattenAppend
<1>6. FlattenSeq(r) = d BY <1>2, <1>3, <1>4, <1>5
<1>7. FlattenSeq(Append(r, z)) = FlattenSeq(r) \o z BY <1>4, FlattenAppend
<1>8. FlattenSeq(s) = d BY <1>1, <1>2, <1>6, <1>7
<1>9. LengthOf(r, 1) = Len(d) /\ LengthOf(s, 1) = Len(d) /\ LengthOf(s, 2) = Len(d) BY <1>2, <1>4, <1>6, <1>8, LengthOfParts
<1> QED BY <1>4, <1>6, <1>8, <1>9 DEF r, s, z


(* The first sequence, and then the others. *)
LEMMA FlattenTail ==
  ASSUME NEW X, NEW s \in Seq(Seq(X)), s # <<>>
  PROVE  /\ FlattenSeq(s) = s[1] \o FlattenSeq(Tail(s)) /\ s[1] \in Seq(X) /\ FlattenSeq(Tail(s)) \in Seq(X)
<1> DEFINE r == Tail(s)
           f(m) == FlattenSeq(SubSeq(s, 1, m))
           g(m) == FlattenSeq(SubSeq(r, 1, m))
           T == {m \in Nat : f(m + 1) = s[1] \o g(m)}
<1>1. /\ r \in Seq(Seq(X)) /\ Len(s) \in Nat /\ Len(s) >= 1 /\ Len(r) = Len(s) - 1 /\ s[1] \in Seq(X)
      /\ \A m \in 1..Len(r) : r[m] = s[m + 1]
  <2> DEFINE Y == Seq(X)
  <2>1. s \in Seq(Y) BY DEF Y
  <2> HIDE DEF Y
  <2>2. /\ r \in Seq(Y) /\ Len(s) \in Nat /\ Len(s) >= 1 /\ Len(r) = Len(s) - 1 /\ s[1] \in Y
        /\ \A m \in 1..Len(r) : r[m] = s[m + 1]
    BY <2>1
  <2> QED BY <2>2 DEF Y
<1>2. 0 \in T
  <2>1. SubSeq(s, 1, 0) = <<>> /\ SubSeq(r, 1, 0) = <<>> BY <1>1
  <2>2. 0 + 1 <= Len(s) /\ 0 + 1 = 1 BY <1>1
  <2>3. f(0 + 1) = f(0) \o s[0 + 1] BY <2>2, FlattenPrefix
  <2>4. f(0) = <<>>
    <3>1. FlattenSeq(SubSeq(s, 1, 0)) = FlattenSeq(<<>>) BY <2>1
    <3> QED BY <3>1, FlattenEmpty
  <2>5. g(0) = <<>>
    <3>1. FlattenSeq(SubSeq(r, 1, 0)) = FlattenSeq(<<>>) BY <2>1
    <3> QED BY <3>1, FlattenEmpty
  <2>6. <<>> \o s[1] = s[1] /\ s[1] \o <<>> = s[1] BY <1>1
  <2> HIDE DEF f, g
  <2>7. f(0 + 1) = s[1] \o g(0) BY <2>2, <2>3, <2>4, <2>5, <2>6
  <2> QED BY <2>7
<1>3. ASSUME NEW n \in 0..Len(r), n \in T, n + 1 <= Len(r) PROVE n + 1 \in T
  <2>1. PICK m \in Nat : m = n + 1 BY <1>1
  <2>2. f(m + 1) = f(m) \o s[m + 1] /\ s[m + 1] \in Seq(X)
    <3>1. m + 1 <= Len(s) BY <1>1, <1>3, <2>1
    <3> QED BY <3>1, FlattenPrefix
  <2>3. g(n + 1) = g(n) \o s[m + 1] /\ g(n) \in Seq(X)
    <3>1. r[n + 1] = s[m + 1] /\ n \in Nat BY <1>1, <1>3, <2>1
    <3>2. /\ FlattenSeq(SubSeq(r, 1, n)) \in Seq(X)
          /\ FlattenSeq(SubSeq(r, 1, n + 1)) = FlattenSeq(SubSeq(r, 1, n)) \o r[n + 1]
      <4> HIDE DEF r
      <4> QED BY <1>1, <1>3, <3>1, FlattenPrefix
    <3> QED BY <3>1, <3>2
  <2>4. f(n + 1) = s[1] \o g(n) BY <1>3
  <2> HIDE DEF f, g
  <2> DEFINE a == s[1]
             b == g(n)
             c == s[m + 1]
  <2>5. a \in Seq(X) /\ b \in Seq(X) /\ c \in Seq(X) BY <1>1, <2>2, <2>3
  <2> HIDE DEF a, b, c
  <2>6. (a \o b) \o c = a \o (b \o c)
    BY <2>5
  <2>7. f(m + 1) = s[1] \o g(m) BY <2>1, <2>2, <2>3, <2>4, <2>6 DEF a, b, c
  <2> QED BY <2>1, <2>7
<1>4. Len(r) \in T
  <2> HIDE DEF T
  <2>1. 0 \in Nat /\ Len(r) \in Nat /\ Len(r) \in 0..Len(r) BY <1>1
  <2>2. \A n \in 0..Len(r) : n \in T BY <1>2, <1>3, <2>1, InductionBetween
  <2> QED BY <2>1, <2>2
<1>5. SubSeq(s, 1, Len(r) + 1) = s /\ SubSeq(r, 1, Len(r)) = r
  <2> DEFINE Y == Seq(X)
  <2>1. s \in Seq(Y) /\ r \in Seq(Y) BY <1>1 DEF Y
  <2> HIDE DEF Y, r
  <2> QED BY <1>1, <2>1
<1>6. FlattenSeq(r) \in Seq(X)
  <2> HIDE DEF r
  <2> QED BY <1>1, FlattenType
<1> QED BY <1>1, <1>4, <1>5, <1>6

(* The last sequence is at the end. *)
LEMMA FlattenLast ==
  ASSUME NEW X, NEW s \in Seq(Seq(X)), s # <<>>
  PROVE  LET w == Len(FlattenSeq(Front(s))) IN
         /\ w \in Nat /\ Len(Last(s)) \in Nat /\ Last(s) \in Seq(X) /\ Len(FlattenSeq(s)) = w + Len(Last(s))
         /\ \A i \in 1..Len(Last(s)) : FlattenSeq(s)[w + i] = Last(s)[i]
         /\ LengthOf(s, Len(s) - 1) = w /\ (Len(s) = 1 => w = 0)
<1> DEFINE f == Front(s)
           l == Last(s)
<1>1. f \in Seq(Seq(X)) /\ l \in Seq(X) /\ Len(f) = Len(s) - 1
  <2> DEFINE Y == Seq(X)
  <2>1. s \in Seq(Y) BY DEF Y
  <2> HIDE DEF Y
  <2>2. f \in Seq(Y) /\ l \in Y /\ Len(f) = Len(s) - 1 BY <2>1, Fronted
  <2> QED BY <2>2 DEF Y
<1>2. FlattenSeq(s) = FlattenSeq(f) \o l BY FlattenFront
<1>3. LengthOf(s, Len(s) - 1) = Len(FlattenSeq(f)) BY LengthOfParts
<1>4. Len(s) = 1 => f = <<>> BY <1>1
<1> HIDE DEF f, l
<1>5. FlattenSeq(f) \in Seq(X) BY <1>1, FlattenType
<1>6. Len(s) = 1 => Len(FlattenSeq(f)) = 0 BY <1>4, FlattenEmpty
<1> DEFINE x == FlattenSeq(f)
           y == FlattenSeq(s)
<1>7. x \in Seq(X) /\ y = x \o l BY <1>2, <1>5
<1> HIDE DEF x, y
<1>8. /\ Len(x) \in Nat /\ Len(l) \in Nat /\ Len(y) = Len(x) + Len(l)
      /\ \A i \in 1..Len(l) : y[Len(x) + i] = l[i]
  BY <1>1, <1>7
<1> QED BY <1>1, <1>3, <1>6, <1>8 DEF x, y, f, l
=============================================================================

---------------------------- MODULE LexingProofs ----------------------------
(***************************************************************************)
(* Tokens are where they say they are, in every text that has no line      *)
(* break where a character between single quotes, or its second quote,     *)
(* should be.                                                              *)
(*                                                                         *)
(* Located is not inductive: it says nothing of the line and the column of *)
(* the next character, from which the next token gets its own.  In the     *)
(* inductive invariant Counted the line is one more than the breaks that   *)
(* have been read, and what the tokens of that line (Placed) and the next  *)
(* character have as column and as position differ by the same.  A step    *)
(* that reads a break ends the line, so that no token is on it any more    *)
(* but strings, which Located leaves out.                                  *)
(***************************************************************************)
EXTENDS Lexing, SequenceFacts, FiniteSetTheorems

(* What a token is. *)
Kinds == {Joined(l) : l \in Seq(STRING)} \cup Keywords \cup {"IDENTIFIER", "NUMBER", "STR", "CHARACTER", "%=", "%"}

Token == [kind : Kinds, literal : Seq(STRING), line : Int, column : Int, pos : Nat]

(* A token that is in the text that has been read. *)
Placed(t) ==
  /\ t.pos + Len(t.literal) <= mCurPos
  /\ Substr(t.pos, t.pos + Len(t.literal)) = t.literal
  /\ t.line = 1 + Cardinality(Breaks(0, t.pos))
  /\ t.line = mLine => t.column - t.pos = mColumn - mCurPos

(* Tokens of one line are as far from each other as their columns say. *)
Apart(t, u) == t.line = u.line => t.column - t.pos = u.column - u.pos

(* The inductive invariant. *)
Counted ==
  /\ mSource \in Seq(STRING) /\ \A i \in 1..Len(mSource) : ~ BreakInQuotes(mSource, i)
  /\ mCurPos \in 0..Len(mSource)
  /\ mColumn \in Int
  /\ mLine = 1 + Cardinality(Breaks(0, mCurPos))
  /\ mTokens \in Seq(Token)
  /\ \A k \in 1..Len(mTokens) : mTokens[k].kind # "STR" => Placed(mTokens[k])
  /\ \A j, k \in 1..Len(mTokens) : mTokens[j].kind # "STR" /\ mTokens[k].kind # "STR" => Apart(mTokens[j], mTokens[k])

-----------------------------------------------------------------------------
(* Line breaks *)

(* There are finitely many breaks in a piece of text, *)
LEMMA BreaksFinite ==
  ASSUME NEW from \in Nat, NEW to \in Nat
  PROVE  /\ IsFiniteSet(Breaks(from, to)) /\ Cardinality(Breaks(from, to)) \in Nat
         /\ Breaks(from, to) \in SUBSET Nat /\ \A p \in Breaks(from, to) : from <= p /\ p < to /\ CharAt(p) = "\n"
<1>1. IsFiniteSet(from..(to - 1)) BY FS_Interval
<1>2. Breaks(from, to) \subseteq from..(to - 1) BY DEF Breaks
<1>3. IsFiniteSet(Breaks(from, to)) BY <1>1, <1>2, FS_Subset
<1>4. Cardinality(Breaks(from, to)) \in Nat BY <1>3, FS_CardinalityType
<1> QED BY <1>3, <1>4 DEF Breaks

(* ... and as many as in its two parts. *)
LEMMA BreaksAdd ==
  ASSUME NEW p \in Nat, NEW q \in Nat, p <= q
  PROVE  Cardinality(Breaks(0, q)) = Cardinality(Breaks(0, p)) + Cardinality(Breaks(p, q))
<1>1. /\ IsFiniteSet(Breaks(0, p)) /\ Cardinality(Breaks(0, p)) \in Nat
      /\ IsFiniteSet(Breaks(p, q)) /\ Cardinality(Breaks(p, q)) \in Nat
  BY BreaksFinite
<1>2. Breaks(0, q) = Breaks(0, p) \cup Breaks(p, q) BY DEF Breaks
<1>3. Breaks(0, p) \cap Breaks(p, q) = {} BY DEF Breaks
<1>4. Cardinality(Breaks(0, p) \cup Breaks(p, q)) =
        Cardinality(Breaks(0, p)) + Cardinality(Breaks(p, q)) - Cardinality(Breaks(0, p) \cap Breaks(p, q))
  BY <1>1, FS_Union
<1>5. Cardinality({}) = 0 BY FS_EmptySet
<1>6. PICK a \in Nat : a = Cardinality(Breaks(0, p)) BY <1>1
<1>7. PICK b \in Nat : b = Cardinality(Breaks(p, q)) BY <1>1
<1>8. Cardinality(Breaks(0, q)) = a + b - 0 BY <1>2, <1>3, <1>4, <1>5, <1>6, <1>7
<1> QED BY <1>6, <1>7, <1>8

(* No breaks are none. *)
LEMMA NoBreaks ==
  ASSUME NEW p \in Nat, NEW q \in Nat
  PROVE  Cardinality(Breaks(p, q)) = 0 <=> Breaks(p, q) = {}
<1>1. IsFiniteSet(Breaks(p, q)) BY BreaksFinite
<1> QED BY <1>1, FS_EmptySet

(* The text stays, and what is said of it. *)
LEMMA SameText ==
  ASSUME UNCHANGED mSource, NEW p, NEW q
  PROVE  Breaks(p, q)' = Breaks(p, q) /\ Substr(p, q)' = Substr(p, q)
BY DEF Breaks, CharAt, Substr

(* A piece of the text that has been read, with its length. *)
LEMMA SubstrIs ==
  ASSUME mSource \in Seq(STRING), NEW p \in Nat, NEW q \in Nat, p <= q, q <= Len(mSource)
  PROVE  Substr(p, q) \in Seq(STRING) /\ Len(Substr(p, q)) = q - p
<1>1. p + 1 \in Nat /\ q \in Nat /\ p + 1 \in 1..(Len(mSource) + 1) /\ Len(mSource) \in Nat OBVIOUS
<1> QED BY <1>1 DEF Substr

-----------------------------------------------------------------------------
(* Any step *)

(* A new token of the line that is being read. *)
Fresh(t, to) ==
  /\ t.pos >= mCurPos /\ t.pos + Len(t.literal) <= to
  /\ Substr(t.pos, t.pos + Len(t.literal)) = t.literal
  /\ t.line = mLine /\ t.column - t.pos = mColumn - mCurPos
  /\ Breaks(mCurPos, to) = {}

(* A step that counts the breaks it reads and adds fresh tokens, or strings. *)
LEMMA ReadKeeps ==
  ASSUME Counted, NEW to \in mCurPos..Len(mSource), NEW tokens \in Seq(Token),
         UNCHANGED mSource, mCurPos' = to, mLine' = LineAfter(to), mTokens' = mTokens \o tokens,
         mColumn' \in Int, Breaks(mCurPos, to) = {} => mColumn' = mColumn + to - mCurPos,
         \A k \in 1..Len(tokens) : tokens[k].kind # "STR" => Fresh(tokens[k], to)
  PROVE  Counted'
<1>1. /\ mSource \in Seq(STRING) /\ Len(mSource) \in Nat
      /\ mCurPos \in Nat /\ mCurPos <= Len(mSource) /\ to \in Nat /\ mCurPos <= to
      /\ mColumn \in Int /\ mTokens \in Seq(Token) /\ Len(mTokens) \in Nat
  BY DEF Counted
<1>2. PICK old \in Nat : old = Cardinality(Breaks(0, mCurPos)) BY <1>1, BreaksFinite
<1>3. PICK more \in Nat : more = Cardinality(Breaks(mCurPos, to)) BY <1>1, BreaksFinite
<1>4. mLine = 1 + old /\ mLine' = 1 + (old + more) BY <1>2, <1>3 DEF Counted, LineAfter
<1>5. Cardinality(Breaks(0, to)) = old + more BY <1>1, <1>2, <1>3, BreaksAdd
<1>6. more = 0 => Breaks(mCurPos, to) = {} BY <1>1, <1>3, NoBreaks
<1>7. Breaks(mCurPos, to) = {} => more = 0 BY <1>1, <1>3, NoBreaks
<1>8. ASSUME NEW t \in Token, Placed(t) PROVE Placed(t)' /\ t.line <= mLine
  <2>1. t.pos \in Nat /\ t.line \in Int /\ t.column \in Int /\ Len(t.literal) \in Nat BY DEF Token
  <2>2. t.pos + Len(t.literal) <= mCurPos /\ Substr(t.pos, t.pos + Len(t.literal)) = t.literal
        /\ t.line = 1 + Cardinality(Breaks(0, t.pos)) /\ (t.line = mLine => t.column - t.pos = mColumn - mCurPos)
    BY <1>8 DEF Placed
  <2>3. t.line <= mLine
    <3>1. t.pos <= mCurPos BY <1>1, <2>1, <2>2
    <3>2. PICK a \in Nat : a = Cardinality(Breaks(0, t.pos)) BY <2>1, BreaksFinite
    <3>3. PICK b \in Nat : b = Cardinality(Breaks(t.pos, mCurPos)) BY <1>1, <2>1, BreaksFinite
    <3>4. old = a + b BY <1>1, <1>2, <2>1, <3>1, <3>2, <3>3, BreaksAdd
    <3>5. t.line = 1 + a BY <2>2, <3>2
    <3>6. mLine = 1 + (a + b) BY <1>4, <3>4
    <3>7. 1 + a <= 1 + (a + b) OBVIOUS
    <3> QED BY <3>5, <3>6, <3>7
  <2>4. t.pos + Len(t.literal) <= to BY <1>1, <2>1, <2>2
  <2>5. t.line = mLine' => t.column - t.pos = mColumn' - to
    <3>1. SUFFICES ASSUME t.line = mLine' PROVE t.column - t.pos = mColumn' - to OBVIOUS
    <3>2. more = 0 /\ t.line = mLine BY <1>4, <2>3, <3>1
    <3>3. mColumn' = mColumn + to - mCurPos BY <1>6, <3>2
    <3> QED BY <1>1, <2>1, <2>2, <3>2, <3>3
  <2>6. Substr(t.pos, t.pos + Len(t.literal))' = t.literal /\ t.line = 1 + Cardinality(Breaks(0, t.pos))'
    BY <2>2, SameText
  <2> QED BY <2>3, <2>4, <2>5, <2>6 DEF Placed
<1>9. ASSUME NEW t \in Token, Fresh(t, to) PROVE Placed(t)'
  <2>1. t.pos \in Nat /\ t.line \in Int /\ t.column \in Int /\ Len(t.literal) \in Nat BY DEF Token
  <2>2. t.pos >= mCurPos /\ t.pos <= to
    <3>1. t.pos >= mCurPos /\ t.pos + Len(t.literal) <= to BY <1>9 DEF Fresh
    <3> QED BY <1>1, <2>1, <3>1
  <2>3. Breaks(mCurPos, to) = {} /\ t.line = mLine /\ t.column - t.pos = mColumn - mCurPos BY <1>9 DEF Fresh
  <2>4. Cardinality(Breaks(0, t.pos)) = old
    <3>1. Breaks(mCurPos, t.pos) = {} BY <1>1, <2>1, <2>2, <2>3 DEF Breaks
    <3>2. Cardinality(Breaks(mCurPos, t.pos)) = 0 BY <1>1, <2>1, <3>1, NoBreaks
    <3> QED BY <1>1, <1>2, <2>1, <2>2, <3>2, BreaksAdd
  <2>5. t.column - t.pos = mColumn' - to BY <1>1, <2>1, <2>3
  <2>6. t.line = 1 + Cardinality(Breaks(0, t.pos)) BY <1>4, <2>3, <2>4
  <2>7. Substr(t.pos, t.pos + Len(t.literal)) = t.literal /\ t.pos + Len(t.literal) <= to BY <1>9 DEF Fresh
  <2>8. Substr(t.pos, t.pos + Len(t.literal))' = t.literal /\ t.line = 1 + Cardinality(Breaks(0, t.pos))'
    BY <2>6, <2>7, SameText
  <2> QED BY <2>5, <2>7, <2>8 DEF Placed
<1>10. /\ mTokens' \in Seq(Token) /\ Len(mTokens') = Len(mTokens) + Len(tokens) /\ Len(tokens) \in Nat
       /\ \A k \in 1..Len(mTokens) : mTokens'[k] = mTokens[k]
       /\ \A k \in (Len(mTokens) + 1)..Len(mTokens') :
            k - Len(mTokens) \in 1..Len(tokens) /\ mTokens'[k] = tokens[k - Len(mTokens)]
  BY <1>1
<1>11. ASSUME NEW k \in 1..Len(mTokens'), mTokens'[k].kind # "STR"
       PROVE  /\ k <= Len(mTokens) => k \in 1..Len(mTokens) /\ Placed(mTokens[k]) /\ mTokens[k] = mTokens'[k]
              /\ k > Len(mTokens) => Fresh(mTokens'[k], to)
              /\ mTokens'[k] \in Token
  <2>1. CASE k <= Len(mTokens)
    <3>1. k \in 1..Len(mTokens) BY <1>1, <1>10, <2>1
    <3> QED BY <1>1, <1>10, <1>11, <2>1, <3>1 DEF Counted
  <2>2. CASE ~(k <= Len(mTokens))
    <3>1. k \in (Len(mTokens) + 1)..Len(mTokens') BY <1>1, <1>10, <2>2
    <3> QED BY <1>1, <1>10, <1>11, <2>2, <3>1
  <2> QED BY <2>1, <2>2
<1>12. ASSUME NEW t \in Token, NEW u \in Token, Fresh(t, to), Fresh(u, to) \/ Placed(u) PROVE Apart(t, u)
  <2>1. t.pos \in Nat /\ t.column \in Int /\ u.pos \in Nat /\ u.column \in Int BY DEF Token
  <2>2. t.line = mLine /\ t.column - t.pos = mColumn - mCurPos BY <1>12 DEF Fresh
  <2>3. u.line = mLine => u.column - u.pos = mColumn - mCurPos BY <1>12 DEF Fresh, Placed
  <2> QED BY <2>2, <2>3 DEF Apart
<1>13. mTokens' \in Seq(Token) /\ \A k \in 1..Len(mTokens') : mTokens'[k].kind # "STR" => Placed(mTokens[k])'
  <2> SUFFICES ASSUME NEW k \in 1..Len(mTokens'), mTokens'[k].kind # "STR" PROVE Placed(mTokens[k])' BY <1>10
  <2>1. PICK t \in Token : t = mTokens'[k] BY <1>11
  <2>2. Placed(t)'
    <3>1. CASE k <= Len(mTokens)
      <4>1. Placed(t) BY <1>11, <2>1, <3>1
      <4> QED BY <1>8, <4>1
    <3>2. CASE k > Len(mTokens)
      <4>1. Fresh(t, to) BY <1>11, <2>1, <3>2
      <4> QED BY <1>9, <4>1
    <3> QED BY <1>1, <3>1, <3>2
  <2> QED BY <2>1, <2>2 DEF Placed
<1>14. ASSUME NEW j \in 1..Len(mTokens'), NEW k \in 1..Len(mTokens'), mTokens'[j].kind # "STR", mTokens'[k].kind # "STR"
       PROVE  Apart(mTokens'[j], mTokens'[k])
  <2>1. PICK t \in Token : t = mTokens'[j] BY <1>11, <1>14
  <2>2. PICK u \in Token : u = mTokens'[k] BY <1>11, <1>14
  <2>3. j <= Len(mTokens) \/ j > Len(mTokens) BY <1>1
  <2>4. k <= Len(mTokens) \/ k > Len(mTokens) BY <1>1
  <2>5. Fresh(t, to) \/ (j \in 1..Len(mTokens) /\ mTokens[j] = t /\ Placed(t)) BY <1>11, <1>14, <2>1, <2>3
  <2>6. Fresh(u, to) \/ (k \in 1..Len(mTokens) /\ mTokens[k] = u /\ Placed(u)) BY <1>11, <1>14, <2>2, <2>4
  <2>7. CASE Fresh(t, to) BY <1>12, <2>1, <2>2, <2>6, <2>7
  <2>8. CASE Fresh(u, to)
    <3>1. Apart(u, t) BY <1>12, <2>5, <2>8
    <3> QED BY <2>1, <2>2, <3>1 DEF Apart
  <2>9. CASE j \in 1..Len(mTokens) /\ mTokens[j] = t /\ k \in 1..Len(mTokens) /\ mTokens[k] = u
    BY <1>14, <2>1, <2>2, <2>9 DEF Counted
  <2> QED BY <2>5, <2>6, <2>7, <2>8, <2>9
<1>15. mLine' = 1 + Cardinality(Breaks(0, mCurPos))'
  <2>1. Breaks(0, mCurPos)' = Breaks(0, to) BY DEF Breaks, CharAt
  <2> QED BY <1>4, <1>5, <2>1
<1>16. mCurPos' \in 0..Len(mSource') /\ mColumn' \in Int BY <1>1
<1>17. mSource' \in Seq(STRING) /\ \A i \in 1..Len(mSource') : ~ BreakInQuotes(mSource', i) BY DEF Counted
<1> QED BY <1>13, <1>14, <1>15, <1>16, <1>17 DEF Counted, Apart

-----------------------------------------------------------------------------
(* How far a step reads *)

(* Passing characters over, to the first of another kind. *)
LEMMA SkipIs ==
  ASSUME mSource \in Seq(STRING), NEW p \in 0..Len(mSource), NEW chars
  PROVE  /\ SkipWhile(p, chars) \in p..Len(mSource) /\ \A q \in p..(SkipWhile(p, chars) - 1) : CharAt(q) \in chars
         /\ SkipTo(p, chars) \in p..Len(mSource) /\ \A q \in p..(SkipTo(p, chars) - 1) : CharAt(q) \notin chars
<1>1. PICK n \in Nat : n = Len(mSource) OBVIOUS
<1>2. p \in Nat /\ p \in 0..n BY <1>1
<1>3. ASSUME NEW T \in SUBSET Nat, NEW x \in T PROVE Min(T) \in T /\ \A y \in T : Min(T) <= y
  <2>1. T # {} BY <1>3
  <2>2. \E z \in T : \A y \in T : z <= y BY <2>1, Least
  <2> QED BY <2>2 DEF Min
<1>4. SkipWhile(p, chars) \in p..n /\ \A q \in p..(SkipWhile(p, chars) - 1) : CharAt(q) \in chars
  <2> DEFINE T == {q \in p..n : q = n \/ CharAt(q) \notin chars}
  <2>1. T \in SUBSET Nat /\ n \in T BY <1>1, <1>2
  <2>2. PICK m : m = Min(T) OBVIOUS
  <2>3. m \in T /\ \A y \in T : m <= y
    <3> HIDE DEF T
    <3> QED BY <1>3, <2>1, <2>2
  <2>4. SkipWhile(p, chars) = m BY <1>1, <2>2 DEF SkipWhile
  <2>5. m \in p..n BY <2>3
  <2>6. ASSUME NEW q \in p..(m - 1) PROVE CharAt(q) \in chars
    <3>1. q \in p..n /\ q # n /\ ~(m <= q) BY <1>2, <2>5
    <3> QED BY <2>3, <3>1
  <2> HIDE DEF T
  <2> QED BY <2>4, <2>5, <2>6
<1>5. SkipTo(p, chars) \in p..n /\ \A q \in p..(SkipTo(p, chars) - 1) : CharAt(q) \notin chars
  <2> DEFINE T == {q \in p..n : q = n \/ CharAt(q) \in chars}
  <2>1. T \in SUBSET Nat /\ n \in T BY <1>1, <1>2
  <2>2. PICK m : m = Min(T) OBVIOUS
  <2>3. m \in T /\ \A y \in T : m <= y
    <3> HIDE DEF T
    <3> QED BY <1>3, <2>1, <2>2
  <2>4. SkipTo(p, chars) = m BY <1>1, <2>2 DEF SkipTo
  <2>5. m \in p..n BY <2>3
  <2>6. ASSUME NEW q \in p..(m - 1) PROVE CharAt(q) \notin chars
    <3>1. q \in p..n /\ q # n /\ ~(m <= q) BY <1>2, <2>5
    <3> QED BY <2>3, <3>1
  <2> HIDE DEF T
  <2> QED BY <2>4, <2>5, <2>6
<1> QED BY <1>1, <1>4, <1>5

(* The end of a comment, by the ends after the characters that follow: the *)
(* function that BlockEnd is defined by, on the last m characters.         *)
EndFrom(f, q) ==
  IF q = Len(mSource) THEN q
  ELSE IF CharAt(q + 1) # "*" THEN f[q + 1]
  ELSE IF CharAt(q + 2) = "/" THEN q + 3
  ELSE f[q + 2]

EndsOn(m, f) == f = [q \in (Len(mSource) - m)..Len(mSource) |-> EndFrom(f, q)]

(* There is one on them all, *)
LEMMA EndsExist ==
  ASSUME mSource \in Seq(STRING)
  PROVE  \E f : EndsOn(Len(mSource), f)
<1>1. PICK n \in Nat : n = Len(mSource) OBVIOUS
<1> DEFINE T == {m \in Nat : m <= n => \E f : EndsOn(m, f)}
<1>2. 0 \in T
  <2> DEFINE f == [q \in n..n |-> n]
  <2>1. f = [q \in (n - 0)..n |-> EndFrom(f, q)] BY <1>1 DEF EndFrom
  <2>2. EndsOn(0, f) BY <1>1, <2>1 DEF EndsOn
  <2> QED BY <2>2
<1>3. ASSUME NEW m \in T PROVE m + 1 \in T
  <2> SUFFICES ASSUME m + 1 <= n PROVE \E g : EndsOn(m + 1, g) OBVIOUS
  <2>1. m \in Nat /\ m <= n OBVIOUS
  <2>2. PICK f : EndsOn(m, f) BY <2>1
  <2>3. PICK a \in Nat : a = n - (m + 1) BY <2>1
  <2>4. n - m = a + 1 /\ a < n BY <2>1, <2>3
  <2>5. f = [q \in (a + 1)..n |-> EndFrom(f, q)] BY <1>1, <2>2, <2>4 DEF EndsOn
  <2> DEFINE g == [q \in a..n |-> IF q = a THEN EndFrom(f, a) ELSE f[q]]
  <2>6. \A q \in (a + 1)..n : g[q] = f[q] BY <2>4
  <2>7. ASSUME NEW q \in a..n PROVE EndFrom(g, q) = EndFrom(f, q)
    <3>1. CASE q = n BY <1>1, <3>1 DEF EndFrom
    <3>2. CASE q # n
      <4>1. q \in Nat /\ q + 1 \in (a + 1)..n BY <2>4, <3>2
      <4>2. CharAt(q + 1) = "*" => q + 2 \in (a + 1)..n
        <5>1. CharAt(q + 1) = "*" => q + 1 < n BY <1>1 DEF CharAt
        <5> QED BY <4>1, <5>1
      <4>3. g[q + 1] = f[q + 1] BY <2>6, <4>1
      <4>4. CharAt(q + 1) = "*" => g[q + 2] = f[q + 2] BY <2>6, <4>2
      <4> HIDE DEF g
      <4> QED BY <4>3, <4>4 DEF EndFrom
    <3> QED BY <3>1, <3>2
  <2>8. ASSUME NEW q \in a..n PROVE g[q] = EndFrom(g, q)
    <3>1. CASE q = a BY <2>7, <3>1
    <3>2. CASE q # a
      <4>1. q \in (a + 1)..n BY <2>3, <3>2
      <4>2. f[q] = EndFrom(f, q) BY <2>5, <4>1
      <4>3. g[q] = f[q] BY <2>6, <4>1
      <4> HIDE DEF g
      <4> QED BY <2>7, <4>2, <4>3
    <3> QED BY <3>1, <3>2
  <2>9. g = [q \in a..n |-> g[q]] OBVIOUS
  <2> HIDE DEF g
  <2>10. g = [q \in a..n |-> EndFrom(g, q)] BY <2>8, <2>9
  <2>11. EndsOn(m + 1, g) BY <1>1, <2>3, <2>10 DEF EndsOn
  <2> QED BY <2>11
<1>4. T = Nat
  <2>1. T \in SUBSET Nat OBVIOUS
  <2> HIDE DEF T
  <2> QED BY <1>2, <1>3, <2>1, Induction
<1>5. n \in T BY <1>4
<1> QED BY <1>1, <1>5

(* ... so the end of a comment is in the text, after its beginning. *)
LEMMA BlockEndIs ==
  ASSUME mSource \in Seq(STRING), NEW p \in 0..Len(mSource)
  PROVE  BlockEnd(p) \in p..Len(mSource)
<1>1. PICK n \in Nat : n = Len(mSource) OBVIOUS
<1>2. PICK f : f = CHOOSE g : EndsOn(Len(mSource), g) OBVIOUS
<1>3. EndsOn(Len(mSource), f) BY <1>2, EndsExist
<1>4. f = [q \in 0..n |-> EndFrom(f, q)]
  <2>1. n - n = 0 OBVIOUS
  <2> QED BY <1>1, <1>3, <2>1 DEF EndsOn
<1>5. BlockEnd(p) = f[p]
  <2>1. Len(mSource) - Len(mSource) = 0 BY <1>1
  <2> QED BY <1>2, <2>1 DEF BlockEnd, EndsOn, EndFrom
<1> DEFINE T == {m \in 0..n : f[n - m] \notin (n - m)..n}
<1>6. T = {}
  <2> SUFFICES ASSUME T # {} PROVE FALSE OBVIOUS
  <2>1. T \in SUBSET Nat OBVIOUS
  <2>2. PICK m \in T : \A k \in T : m <= k
    <3> HIDE DEF T
    <3> QED BY <2>1, Least
  <2>3. PICK q \in 0..n : q = n - m OBVIOUS
  <2>4. f[q] \notin q..n BY <2>2, <2>3
  <2>5. ASSUME NEW r \in 0..n, q < r PROVE f[r] \in r..n
    <3>1. n - r \in 0..n /\ ~(m <= n - r) /\ n - (n - r) = r BY <2>3, <2>5
    <3> QED BY <2>2, <3>1
  <2> HIDE DEF T
  <2>6. f[q] = EndFrom(f, q) BY <1>4
  <2>7. q # n BY <1>1, <2>4, <2>6 DEF EndFrom
  <2>8. q \in Nat /\ q + 1 \in 0..n BY <2>7
  <2>9. CharAt(q + 1) = "*" => q + 2 \in 0..n
    <3>1. CharAt(q + 1) = "*" => q + 1 < n BY <1>1 DEF CharAt
    <3> QED BY <2>8, <3>1
  <2>10. CharAt(q + 2) = "/" => q + 3 \in q..n
    <3>1. CharAt(q + 2) = "/" => q + 2 < n BY <1>1 DEF CharAt
    <3> QED BY <2>8, <3>1
  <2>11. f[q + 1] \in q..n
    <3>1. f[q + 1] \in (q + 1)..n BY <2>5, <2>8
    <3> QED BY <2>8, <3>1
  <2>12. CharAt(q + 1) = "*" => f[q + 2] \in q..n
    <3>1. CharAt(q + 1) = "*" => f[q + 2] \in (q + 2)..n BY <2>5, <2>8, <2>9
    <3> QED BY <2>8, <3>1
  <2> QED BY <1>1, <2>4, <2>6, <2>7, <2>10, <2>11, <2>12 DEF EndFrom
<1>7. f[p] \in p..n
  <2>1. p \in 0..n /\ n - p \in 0..n /\ n - (n - p) = p BY <1>1
  <2>2. n - p \notin T BY <1>6
  <2> QED BY <2>1, <2>2
<1> QED BY <1>1, <1>5, <1>7

(* What may follow in a symbol begins symbols, too. *)
LEMMA FollowingIs == ASSUME NEW s PROVE Following(s) \subseteq SymbolChars
<1>1. CASE s \in {"+", "-", "&", "|", "<", ">"} BY <1>1 DEF Following, SymbolChars
<1>2. CASE s \notin {"+", "-", "&", "|", "<", ">"} BY <1>2 DEF Following, SymbolChars
<1> QED BY <1>1, <1>2

(* A symbol is in the text and on one line. *)
LEMMA SymbolEndIs ==
  ASSUME mSource \in Seq(STRING), NEW p \in Nat, p < Len(mSource), CharAt(p) \in SymbolChars
  PROVE  SymbolEnd(p) \in p..Len(mSource) /\ Breaks(p, SymbolEnd(p)) = {}
<1>1. PICK n \in Nat : n = Len(mSource) OBVIOUS
<1>2. "NUL" \notin SymbolChars /\ "\n" \notin SymbolChars BY DEF SymbolChars
<1>3. ASSUME NEW q \in Nat, CharAt(q) \in SymbolChars PROVE q < n /\ CharAt(q) # "\n"
  BY <1>1, <1>2, <1>3 DEF CharAt
<1>4. PICK to : to = SymbolEnd(p) OBVIOUS
<1>5. \/ to = p + 1
      \/ to = p + 2 /\ CharAt(p + 1) \in SymbolChars
      \/ to = p + 3 /\ CharAt(p + 1) \in SymbolChars /\ CharAt(p + 2) \in SymbolChars
  BY <1>4, FollowingIs DEF SymbolEnd
<1>6. p + 1 \in Nat /\ p + 2 \in Nat OBVIOUS
<1>7. to \in p..n BY <1>1, <1>3, <1>5, <1>6
<1>8. ASSUME NEW q \in p..(to - 1) PROVE CharAt(q) # "\n"
  <2>1. q = p \/ (q = p + 1 /\ CharAt(p + 1) \in SymbolChars) \/ (q = p + 2 /\ CharAt(p + 2) \in SymbolChars)
    BY <1>5
  <2> QED BY <1>3, <1>6, <2>1
<1>9. Breaks(p, to) = {} BY <1>8 DEF Breaks
<1> QED BY <1>1, <1>4, <1>7, <1>9

(* The column is a number. *)
LEMMA ColumnIs ==
  ASSUME Counted, NEW to \in mCurPos..Len(mSource)
  PROVE  /\ ColumnAfter(to) \in Int
         /\ Breaks(mCurPos, to) = {} => ColumnAfter(to) = mColumn + to - mCurPos /\ LineAfter(to) = mLine
<1>1. mCurPos \in Nat /\ to \in Nat /\ mColumn \in Int
  <2>1. Len(mSource) \in Nat BY DEF Counted
  <2> QED BY <2>1 DEF Counted
<1>2. PICK c \in Nat : mLine = 1 + c
  <2>1. mLine = 1 + Cardinality(Breaks(0, mCurPos)) BY DEF Counted
  <2>2. Cardinality(Breaks(0, mCurPos)) \in Nat BY <1>1, BreaksFinite
  <2> QED BY <2>1, <2>2
<1>3. CASE Breaks(mCurPos, to) = {}
  <2>1. Cardinality(Breaks(mCurPos, to)) = 0 BY <1>1, <1>3, NoBreaks
  <2>2. LineAfter(to) = mLine BY <1>2, <2>1 DEF LineAfter
  <2>3. ColumnAfter(to) = mColumn + to - mCurPos BY <1>3 DEF ColumnAfter
  <2> QED BY <1>1, <2>2, <2>3
<1>4. CASE Breaks(mCurPos, to) # {}
  <2>1. Breaks(mCurPos, to) \in SUBSET Nat /\ \A p \in Breaks(mCurPos, to) : p < to BY <1>1, BreaksFinite
  <2>2. \A p \in Breaks(mCurPos, to) : p <= to BY <1>1, <2>1
  <2>3. PICK m \in Nat : m = Max(Breaks(mCurPos, to)) BY <1>1, <1>4, <2>1, <2>2, Greatest
  <2>4. ColumnAfter(to) = 1 + to - m BY <1>4, <2>3 DEF ColumnAfter
  <2> QED BY <1>1, <1>4, <2>4
<1> QED BY <1>3, <1>4

-----------------------------------------------------------------------------
(* The steps *)

(* The text has a line break between no quotes, once more by its positions. *)
LEMMA QuotesAreOnALine ==
  ASSUME Counted, mCurPos < Len(mSource), CharAt(mCurPos) = "'", NEW to \in mCurPos..Len(mSource), to <= mCurPos + 3
  PROVE  Breaks(mCurPos, to) = {}
<1>1. PICK n \in Nat : n = Len(mSource) BY DEF Counted
<1>2. PICK c \in Nat : c = mCurPos BY DEF Counted
<1>3. c < n /\ to \in c..n /\ to <= c + 3 BY <1>1, <1>2
<1>4. mSource[c + 1] = "'" BY <1>2 DEF CharAt
<1>5. ~ BreakInQuotes(mSource, c + 1)
  <2>1. c + 1 \in 1..n BY <1>3
  <2> QED BY <1>1, <2>1 DEF Counted
<1>6. \A j \in {c + 2, c + 3} : j <= n => mSource[j] # "\n"
  <2>1. (c + 1) + 1 = c + 2 /\ (c + 1) + 2 = c + 3 OBVIOUS
  <2> QED BY <1>1, <1>4, <1>5, <2>1 DEF BreakInQuotes
<1>7. ASSUME NEW q \in c..(to - 1) PROVE CharAt(q) # "\n"
  <2>1. q < n /\ q \in Nat /\ (q = c \/ q + 1 \in {c + 2, c + 3}) BY <1>3
  <2>2. CharAt(q) = mSource[q + 1] BY <1>1, <2>1 DEF CharAt
  <2>3. CASE q = c BY <1>4, <2>2, <2>3
  <2>4. CASE q + 1 \in {c + 2, c + 3}
    <3>1. q + 1 <= n BY <1>3, <2>1
    <3> QED BY <1>6, <2>2, <2>4, <3>1
  <2> QED BY <2>1, <2>3, <2>4
<1> QED BY <1>2, <1>7 DEF Breaks

(* What is read with Advance. *)
LEMMA AdvanceKeeps ==
  ASSUME Counted, NEW to \in mCurPos..Len(mSource), NEW tokens \in Seq(Token), Advance(to, tokens),
         \A k \in 1..Len(tokens) : tokens[k].kind # "STR" => Fresh(tokens[k], to)
  PROVE  Counted'
<1>1. /\ UNCHANGED mSource /\ mCurPos' = to /\ mLine' = LineAfter(to) /\ mTokens' = mTokens \o tokens
      /\ mColumn' = ColumnAfter(to)
  BY DEF Advance
<1>2. mColumn' \in Int /\ (Breaks(mCurPos, to) = {} => mColumn' = mColumn + to - mCurPos) BY <1>1, ColumnIs
<1> QED BY <1>1, <1>2, ReadKeeps

(* ... and becomes no token. *)
LEMMA PassKeeps ==
  ASSUME Counted, NEW to \in mCurPos..Len(mSource), Advance(to, <<>>)
  PROVE  Counted'
<1>1. <<>> \in Seq(Token) /\ \A k \in 1..Len(<<>>) : <<>>[k].kind # "STR" => Fresh(<<>>[k], to) OBVIOUS
<1> QED BY <1>1, AdvanceKeeps

(* The token that has all that is read, when that is on a line. *)
LEMMA WholeToken ==
  ASSUME Counted, NEW to \in mCurPos..Len(mSource), Breaks(mCurPos, to) = {}, NEW kind \in Kinds
  PROVE  LET t == NewToken(kind, Substr(mCurPos, to), mLine, ColumnAfter(to), to) IN t \in Token /\ Fresh(t, to)
<1>1. mSource \in Seq(STRING) BY DEF Counted
<1>2. PICK n \in Nat : n = Len(mSource) BY <1>1
<1>3. PICK c \in Nat : c = mCurPos BY DEF Counted
<1>4. PICK l \in Seq(STRING) : l = Substr(c, to) BY <1>1, <1>3, SubstrIs
<1>5. to \in Nat /\ c <= to /\ to <= n BY <1>2, <1>3
<1>6. Len(l) = to - c BY <1>1, <1>2, <1>4, <1>5, SubstrIs
<1>7. mColumn \in Int /\ ColumnAfter(to) = mColumn + to - c BY <1>3, ColumnIs DEF Counted
<1>8. mLine \in Int
  <2>1. mLine = 1 + Cardinality(Breaks(0, c)) BY <1>3 DEF Counted
  <2>2. Cardinality(Breaks(0, c)) \in Nat BY BreaksFinite
  <2> QED BY <2>1, <2>2
<1>9. PICK col \in Int : col = mColumn BY <1>7
<1>10. to - Len(l) = c /\ ColumnAfter(to) - Len(l) = col /\ c + Len(l) = to BY <1>5, <1>6, <1>7, <1>9
<1>11. PICK t : t = [kind |-> kind, literal |-> l, line |-> mLine, column |-> col, pos |-> c] OBVIOUS
<1>12. t = NewToken(kind, Substr(mCurPos, to), mLine, ColumnAfter(to), to)
  BY <1>3, <1>4, <1>10, <1>11 DEF NewToken
<1>13. t \in Token BY <1>8, <1>11 DEF Token
<1>14. t.pos = c /\ t.literal = l /\ t.line = mLine /\ t.column = col BY <1>11
<1>15. Fresh(t, to)
  <2>1. t.pos >= mCurPos /\ t.pos + Len(t.literal) <= to BY <1>3, <1>5, <1>10, <1>14
  <2>2. Substr(t.pos, t.pos + Len(t.literal)) = t.literal BY <1>4, <1>10, <1>14
  <2>3. t.column - t.pos = mColumn - mCurPos BY <1>3, <1>9, <1>14
  <2> QED BY <1>14, <2>1, <2>2, <2>3 DEF Fresh
<1> QED BY <1>12, <1>13, <1>15

(* ... by itself, *)
LEMMA TokenKeeps ==
  ASSUME Counted, NEW to \in mCurPos..Len(mSource), Breaks(mCurPos, to) = {}, NEW kind \in Kinds,
         Advance(to, <<NewToken(kind, Substr(mCurPos, to), mLine, ColumnAfter(to), to)>>)
  PROVE  Counted'
<1>1. PICK t : t = NewToken(kind, Substr(mCurPos, to), mLine, ColumnAfter(to), to) OBVIOUS
<1>2. t \in Token /\ Fresh(t, to) BY <1>1, WholeToken
<1>3. <<t>> \in Seq(Token) /\ \A k \in 1..Len(<<t>>) : <<t>>[k].kind # "STR" => Fresh(<<t>>[k], to) BY <1>2
<1>4. Advance(to, <<t>>) BY <1>1
<1> QED BY <1>3, <1>4, AdvanceKeeps

(* ... or twice. *)
LEMMA TwoTokensKeep ==
  ASSUME Counted, NEW to \in mCurPos..Len(mSource), Breaks(mCurPos, to) = {}, NEW kind \in Kinds, NEW other \in Kinds,
         Advance(to, <<NewToken(kind, Substr(mCurPos, to), mLine, ColumnAfter(to), to),
                       NewToken(other, Substr(mCurPos, to), mLine, ColumnAfter(to), to)>>)
  PROVE  Counted'
<1>1. PICK t : t = NewToken(kind, Substr(mCurPos, to), mLine, ColumnAfter(to), to) OBVIOUS
<1>2. PICK u : u = NewToken(other, Substr(mCurPos, to), mLine, ColumnAfter(to), to) OBVIOUS
<1>3. t \in Token /\ Fresh(t, to) BY <1>1, WholeToken
<1>4. u \in Token /\ Fresh(u, to) BY <1>2, WholeToken
<1>5. <<t, u>> \in Seq(Token) /\ \A k \in 1..Len(<<t, u>>) : <<t, u>>[k].kind # "STR" => Fresh(<<t, u>>[k], to)
  <2>1. <<t, u>> \in Seq(Token) /\ Len(<<t, u>>) = 2 /\ <<t, u>>[1] = t /\ <<t, u>>[2] = u BY <1>3, <1>4
  <2>2. \A k \in 1..2 : k = 1 \/ k = 2 OBVIOUS
  <2> QED BY <1>3, <1>4, <2>1, <2>2
<1>6. Advance(to, <<t, u>>) BY <1>1, <1>2
<1> QED BY <1>5, <1>6, AdvanceKeeps

(* Where the scanner is when it reads on. *)
LEMMA Positions ==
  ASSUME Counted, Scanning
  PROVE  /\ mSource \in Seq(STRING) /\ Len(mSource) \in Nat /\ mCurPos \in Nat /\ mCurPos < Len(mSource)
         /\ CharAt(mCurPos + 1) # "NUL" => mCurPos + 2 \in mCurPos..Len(mSource)
<1>1. mSource \in Seq(STRING) /\ Len(mSource) \in Nat /\ mCurPos \in Nat /\ mCurPos < Len(mSource) BY DEF Counted, Scanning
<1>2. CharAt(mCurPos + 1) # "NUL" => mCurPos + 1 < Len(mSource) BY DEF CharAt
<1> QED BY <1>1, <1>2

(* A blank is passed over. *)
LEMMA BlankKeeps == ASSUME Counted, Blank PROVE Counted'
<1>1. mCurPos + 1 \in mCurPos..Len(mSource) BY Positions DEF Blank
<1> QED BY <1>1, PassKeeps DEF Blank

(* A line break ends the line. *)
LEMMA NewLineKeeps == ASSUME Counted, NewLine PROVE Counted'
<1>1. Scanning /\ CharAt(mCurPos) = "\n" /\ mCurPos' = mCurPos + 1 /\ mLine' = mLine + 1 /\ mColumn' = 1
      /\ UNCHANGED <<mSource, mTokens>>
  BY DEF NewLine
<1>2. PICK c \in Nat : c = mCurPos BY <1>1, Positions
<1>3. c < Len(mSource) /\ c + 1 \in c..Len(mSource) BY <1>1, <1>2, Positions
<1>4. Breaks(c, c + 1) = {c}
  <2>1. \A p : p \in c..((c + 1) - 1) <=> p = c OBVIOUS
  <2> QED BY <1>1, <1>2, <2>1 DEF Breaks
<1>5. Cardinality(Breaks(c, c + 1)) = 1 BY <1>4, FS_Singleton
<1>6. mLine' = LineAfter(c + 1) BY <1>1, <1>2, <1>5 DEF LineAfter
<1>7. <<>> \in Seq(Token) /\ \A k \in 1..Len(<<>>) : <<>>[k].kind # "STR" => Fresh(<<>>[k], c + 1) OBVIOUS
<1>8. mTokens' = mTokens \o <<>> BY <1>1 DEF Counted
<1>9. Breaks(mCurPos, c + 1) = {} => mColumn' = mColumn + (c + 1) - mCurPos BY <1>2, <1>4
<1>10. c + 1 \in mCurPos..Len(mSource) /\ UNCHANGED mSource /\ mCurPos' = c + 1 /\ mColumn' \in Int BY <1>1, <1>2, <1>3
<1> QED BY <1>6, <1>7, <1>8, <1>9, <1>10, ReadKeeps

(* A comment ends before the break, or with the text, *)
LEMMA LineCommentKeeps == ASSUME Counted, LineComment PROVE Counted'
<1>1. mSource \in Seq(STRING) /\ mCurPos \in Nat /\ Len(mSource) \in Nat /\ mCurPos + 2 \in 0..Len(mSource)
  BY Positions DEF LineComment
<1>2. SkipTo(mCurPos + 2, {"\n"}) \in (mCurPos + 2)..Len(mSource) BY <1>1, SkipIs
<1>3. PICK to : to = SkipTo(mCurPos + 2, {"\n"}) OBVIOUS
<1>4. to \in mCurPos..Len(mSource) BY <1>1, <1>2, <1>3
<1>5. Advance(to, <<>>) BY <1>3 DEF LineComment
<1> QED BY <1>4, <1>5, PassKeeps

(* ... or has breaks, which are counted. *)
LEMMA BlockCommentKeeps == ASSUME Counted, BlockComment PROVE Counted'
<1>1. mSource \in Seq(STRING) /\ mCurPos \in Nat /\ Len(mSource) \in Nat /\ mCurPos + 2 \in 0..Len(mSource)
  BY Positions DEF BlockComment
<1>2. BlockEnd(mCurPos + 2) \in (mCurPos + 2)..Len(mSource) BY <1>1, BlockEndIs
<1>3. PICK to : to = BlockEnd(mCurPos + 2) OBVIOUS
<1>4. to \in mCurPos..Len(mSource) BY <1>1, <1>2, <1>3
<1>5. Advance(to, <<>>) BY <1>3 DEF BlockComment
<1> QED BY <1>4, <1>5, PassKeeps

(* An error ends it all. *)
LEMMA FailKeeps == ASSUME Counted, Fail PROVE Counted'
<1>1. UNCHANGED <<mSource, mCurPos, mLine, mColumn, mTokens>> BY DEF Fail
<1> QED BY <1>1 DEF Counted, Placed, Apart, Breaks, CharAt, Substr

(* A symbol is a token, and `%=' is two. *)
LEMMA SymbolKeeps == ASSUME Counted, Symbol PROVE Counted'
<1>1. PICK to : to = SymbolEnd(mCurPos) OBVIOUS
<1>2. Fail \/ Advance(to, SymbolTokens(to)) BY <1>1 DEF Symbol
<1>3. CASE Fail BY <1>3, FailKeeps
<1>4. CASE Advance(to, SymbolTokens(to))
  <2>1. Scanning /\ CharAt(mCurPos) \in SymbolChars BY DEF Symbol
  <2>2. to \in mCurPos..Len(mSource) /\ Breaks(mCurPos, to) = {} BY <1>1, <2>1, Positions, SymbolEndIs
  <2>3. CASE Joined(Substr(mCurPos, to)) = "%="
    <3>1. SymbolTokens(to) = <<NewToken("%=", Substr(mCurPos, to), mLine, ColumnAfter(to), to),
                               NewToken("%", Substr(mCurPos, to), mLine, ColumnAfter(to), to)>>
      BY <2>3 DEF SymbolTokens
    <3>2. "%=" \in Kinds /\ "%" \in Kinds BY DEF Kinds
    <3> QED BY <1>4, <2>2, <3>1, <3>2, TwoTokensKeep
  <2>4. CASE Joined(Substr(mCurPos, to)) # "%="
    <3>1. SymbolTokens(to) = <<NewToken(Joined(Substr(mCurPos, to)), Substr(mCurPos, to), mLine, ColumnAfter(to), to)>>
      BY <2>4 DEF SymbolTokens
    <3>2. Substr(mCurPos, to) \in Seq(STRING)
      <4>1. mCurPos \in Nat /\ to \in Nat /\ mCurPos <= to /\ to <= Len(mSource) BY <2>1, <2>2, Positions
      <4> QED BY <2>1, <4>1, Positions, SubstrIs
    <3>3. Joined(Substr(mCurPos, to)) \in Kinds BY <3>2 DEF Kinds
    <3> QED BY <1>4, <2>2, <3>1, <3>3, TokenKeeps
  <2> QED BY <2>3, <2>4
<1> QED BY <1>2, <1>3, <1>4

(* A string may have breaks, and its token is left out. *)
LEMMA StrKeeps == ASSUME Counted, Str PROVE Counted'
<1>1. mSource \in Seq(STRING) /\ mCurPos \in Nat /\ mCurPos < Len(mSource) BY Positions DEF Str
<1>2. PICK c \in Nat : c = mCurPos BY <1>1
<1>3. PICK n \in Nat : n = Len(mSource) BY <1>1
<1>4. PICK end : end = SkipTo(c + 1, {"\""}) OBVIOUS
<1>5. PICK to : to = IF end < n THEN end + 1 ELSE end OBVIOUS
<1>6. c + 1 \in 0..n BY <1>1, <1>2, <1>3
<1>7. end \in (c + 1)..n BY <1>1, <1>3, <1>4, <1>6, SkipIs
<1>8. to \in (c + 1)..n BY <1>5, <1>7
<1>9. PICK l : l = Substr(c + 1, to - 1) OBVIOUS
<1>10. l \in Seq(STRING) /\ Len(l) \in Nat /\ to - Len(l) \in Nat
  <2>1. CASE to = c + 1
    <3>1. l = <<>> BY <1>1, <1>3, <1>8, <1>9, <2>1 DEF Substr
    <3> QED BY <1>8, <3>1
  <2>2. CASE to # c + 1
    <3>1. c + 1 <= to - 1 /\ to - 1 <= n /\ to - 1 \in Nat /\ c + 1 \in Nat BY <1>8, <2>2
    <3>2. l \in Seq(STRING) /\ Len(l) = (to - 1) - (c + 1) BY <1>1, <1>3, <1>9, <3>1, SubstrIs
    <3> QED BY <1>8, <3>1, <3>2
  <2> QED BY <2>1, <2>2
<1>11. PICK t : t = [kind |-> "STR", literal |-> l, line |-> LineAfter(to),
                     column |-> ColumnAfter(to) - Len(l), pos |-> to - Len(l)]
  OBVIOUS
<1>12. t \in Token
  <2>1. to \in mCurPos..Len(mSource) BY <1>2, <1>3, <1>8
  <2>2. ColumnAfter(to) - Len(l) \in Int
    <3>1. ColumnAfter(to) \in Int BY <2>1, ColumnIs
    <3> QED BY <1>10, <3>1
  <2>3. LineAfter(to) \in Int
    <3>1. to \in Nat BY <1>8
    <3>2. Cardinality(Breaks(mCurPos, to)) \in Nat BY <1>1, <3>1, BreaksFinite
    <3>3. Cardinality(Breaks(0, mCurPos)) \in Nat BY <1>1, BreaksFinite
    <3>4. mLine \in Int BY <3>3 DEF Counted
    <3> QED BY <3>2, <3>4 DEF LineAfter
  <2>4. "STR" \in Kinds BY DEF Kinds
  <2> QED BY <1>10, <1>11, <2>2, <2>3, <2>4 DEF Token
<1>13. Advance(to, <<t>>)
  <2>1. t = NewToken("STR", Substr(c + 1, to - 1), LineAfter(to), ColumnAfter(to), to) BY <1>9, <1>11 DEF NewToken
  <2> QED BY <1>2, <1>3, <1>4, <1>5, <2>1 DEF Str
<1>14. to \in mCurPos..Len(mSource) BY <1>2, <1>3, <1>8
<1>15. <<t>> \in Seq(Token) /\ \A k \in 1..Len(<<t>>) : <<t>>[k].kind # "STR" => Fresh(<<t>>[k], to)
  <2>1. t.kind = "STR" BY <1>11
  <2> QED BY <1>12, <2>1
<1> QED BY <1>13, <1>14, <1>15, AdvanceKeeps

(* A character is read to its second quote, and past it when that is missing. *)
LEMMA CharacterKeeps == ASSUME Counted, Character PROVE Counted'
<1>1. mSource \in Seq(STRING) /\ mCurPos \in Nat /\ mCurPos < Len(mSource) /\ CharAt(mCurPos) = "'"
  BY Positions DEF Character
<1>2. PICK c \in Nat : c = mCurPos BY <1>1
<1>3. PICK n \in Nat : n = Len(mSource) BY <1>1
<1>4. ASSUME NEW m \in Nat PROVE Min({m, n}) = IF m <= n THEN m ELSE n
  <2>1. CASE m <= n
    <3>1. \A x \in {m, n} : (\A y \in {m, n} : x <= y) <=> x = m BY <2>1
    <3> QED BY <2>1, <3>1 DEF Min
  <2>2. CASE ~(m <= n)
    <3>1. \A x \in {m, n} : (\A y \in {m, n} : x <= y) <=> x = n BY <2>2
    <3> QED BY <2>2, <3>1 DEF Min
  <2> QED BY <2>1, <2>2
<1>5. PICK to : to = Min({c + 2, n}) OBVIOUS
<1>6. PICK end : end = Min({c + 3, n}) OBVIOUS
<1>7. to \in Nat /\ end \in Nat /\ c + 1 <= to /\ to <= end /\ end <= n /\ end <= c + 3
  <2>1. to = (IF c + 2 <= n THEN c + 2 ELSE n) /\ end = (IF c + 3 <= n THEN c + 3 ELSE n) BY <1>4, <1>5, <1>6
  <2>2. c + 1 <= n BY <1>1, <1>2, <1>3
  <2> QED BY <2>1, <2>2
<1>8. PICK l \in Seq(STRING) : l = Substr(c + 1, to) /\ Len(l) = to - (c + 1)
  <2>1. c + 1 \in Nat /\ to <= n BY <1>7
  <2> QED BY <1>1, <1>3, <1>7, <2>1, SubstrIs
<1>9. PICK t : t = NewToken("CHARACTER", l, mLine, mColumn + to - c, to) OBVIOUS
<1>10. /\ mTokens' = Append(mTokens, t) /\ mCurPos' = end /\ mColumn' = mColumn + end - c
       /\ UNCHANGED <<mSource, mLine>>
  BY <1>2, <1>3, <1>5, <1>6, <1>8, <1>9 DEF Character
<1>11. Breaks(mCurPos, end) = {}
  <2>1. end \in mCurPos..Len(mSource) /\ end <= mCurPos + 3 BY <1>2, <1>3, <1>7
  <2> QED BY <1>1, <2>1, QuotesAreOnALine
<1>12. PICK col \in Int : col = mColumn BY DEF Counted
<1>13. t = [kind |-> "CHARACTER", literal |-> l, line |-> mLine, column |-> col + 1, pos |-> c + 1]
  <2>1. Len(l) \in Nat /\ (mColumn + to - c) - Len(l) = col + 1 /\ to - Len(l) = c + 1 BY <1>7, <1>8, <1>12
  <2>2. t = [kind |-> "CHARACTER", literal |-> l, line |-> mLine,
             column |-> (mColumn + to - c) - Len(l), pos |-> to - Len(l)]
    BY <1>9 DEF NewToken
  <2> QED BY <2>1, <2>2
<1>14. t.pos = c + 1 /\ t.literal = l /\ t.line = mLine /\ t.column = col + 1 BY <1>13
<1>15. t \in Token
  <2>1. mLine \in Int
    <3>1. Cardinality(Breaks(0, mCurPos)) \in Nat BY <1>1, BreaksFinite
    <3> QED BY <3>1 DEF Counted
  <2>2. "CHARACTER" \in Kinds BY DEF Kinds
  <2> QED BY <1>13, <2>1, <2>2 DEF Token
<1>16. Fresh(t, end)
  <2>1. c + 1 + Len(l) = to BY <1>7, <1>8
  <2>2. t.pos >= mCurPos /\ t.pos + Len(t.literal) <= end BY <1>2, <1>7, <1>14, <2>1
  <2>3. Substr(t.pos, t.pos + Len(t.literal)) = t.literal BY <1>8, <1>14, <2>1
  <2>4. t.column - t.pos = mColumn - mCurPos BY <1>2, <1>12, <1>14
  <2> QED BY <1>11, <1>14, <2>2, <2>3, <2>4 DEF Fresh
<1>17. <<t>> \in Seq(Token) /\ \A k \in 1..Len(<<t>>) : <<t>>[k].kind # "STR" => Fresh(<<t>>[k], end) BY <1>15, <1>16
<1>18. mTokens' = mTokens \o <<t>>
  <2>1. mTokens \in Seq(Token) BY DEF Counted
  <2> QED BY <1>10, <1>15, <2>1
<1>19. end \in mCurPos..Len(mSource) BY <1>2, <1>3, <1>7
<1>20. mLine' = LineAfter(end) BY <1>10, <1>11, <1>19, ColumnIs
<1>21. UNCHANGED mSource /\ mColumn' \in Int /\ mColumn' = mColumn + end - mCurPos BY <1>2, <1>7, <1>10, <1>12
<1> QED BY <1>10, <1>17, <1>18, <1>19, <1>20, <1>21, ReadKeeps

(* A piece of characters that are no line breaks. *)
LEMMA OnALine ==
  ASSUME NEW p \in Nat, NEW q \in Nat, \A r \in p..(q - 1) : CharAt(r) # "\n"
  PROVE  Breaks(p, q) = {}
BY DEF Breaks

(* A number, with a point or without. *)
LEMMA NumberKeeps == ASSUME Counted, Number PROVE Counted'
<1>1. mSource \in Seq(STRING) /\ mCurPos \in Nat /\ mCurPos < Len(mSource) BY Positions DEF Number
<1>2. PICK c \in Nat : c = mCurPos BY <1>1
<1>3. PICK n \in Nat : n = Len(mSource) BY <1>1
<1>4. PICK whole : whole = SkipWhile(c, Digits) OBVIOUS
<1>5. whole \in c..n /\ \A q \in c..(whole - 1) : CharAt(q) \in Digits
  <2>1. c \in 0..n BY <1>1, <1>2, <1>3
  <2> QED BY <1>1, <1>3, <1>4, <2>1, SkipIs
<1>6. "\n" \notin Digits BY LexingAssumption
<1>7. PICK to : to = IF CharAt(whole) # "." THEN whole
                      ELSE IF CharAt(whole + 1) = "f" THEN whole + 2
                      ELSE SkipWhile(whole + 1, Digits)
  OBVIOUS
<1>8. to \in c..n /\ \A q \in c..(to - 1) : CharAt(q) # "\n"
  <2>1. CASE CharAt(whole) # "."
    <3>1. to = whole BY <1>7, <2>1
    <3> QED BY <1>5, <1>6, <3>1
  <2>2. CASE CharAt(whole) = "." /\ CharAt(whole + 1) = "f"
    <3>1. to = whole + 2 BY <1>7, <2>2
    <3>2. whole + 1 < n BY <1>3, <2>2 DEF CharAt
    <3>3. ASSUME NEW q \in c..(to - 1) PROVE CharAt(q) # "\n"
      <4>1. q \in c..(whole - 1) \/ q = whole \/ q = whole + 1 BY <1>5, <3>1
      <4> QED BY <1>5, <1>6, <2>2, <4>1
    <3> QED BY <1>5, <3>1, <3>2, <3>3
  <2>3. CASE CharAt(whole) = "." /\ CharAt(whole + 1) # "f"
    <3>1. to = SkipWhile(whole + 1, Digits) BY <1>7, <2>3
    <3>2. whole < n BY <1>3, <2>3 DEF CharAt
    <3>3. whole + 1 \in 0..n BY <1>5, <3>2
    <3>4. to \in (whole + 1)..n /\ \A q \in (whole + 1)..(to - 1) : CharAt(q) \in Digits
      BY <1>1, <1>3, <3>1, <3>3, SkipIs
    <3>5. ASSUME NEW q \in c..(to - 1) PROVE CharAt(q) # "\n"
      <4>1. q \in c..(whole - 1) \/ q = whole \/ q \in (whole + 1)..(to - 1) BY <1>5, <3>4
      <4> QED BY <1>5, <1>6, <2>3, <3>4, <4>1
    <3> QED BY <1>5, <3>4, <3>5
  <2> QED BY <2>1, <2>2, <2>3
<1>9. Breaks(c, to) = {}
  <2>1. to \in Nat BY <1>8
  <2> QED BY <1>8, <2>1, OnALine
<1>10. Fail \/ Advance(to, <<NewToken("NUMBER", Substr(mCurPos, to), mLine, ColumnAfter(to), to)>>)
  BY <1>2, <1>4, <1>7 DEF Number
<1>11. "NUMBER" \in Kinds BY DEF Kinds
<1>12. to \in mCurPos..Len(mSource) /\ Breaks(mCurPos, to) = {} BY <1>2, <1>3, <1>8, <1>9
<1> QED BY <1>10, <1>11, <1>12, FailKeeps, TokenKeeps

(* A word. *)
LEMMA IdentifierKeeps == ASSUME Counted, Identifier PROVE Counted'
<1>1. mSource \in Seq(STRING) /\ mCurPos \in Nat /\ mCurPos < Len(mSource) BY Positions DEF Identifier
<1>2. PICK to : to = SkipWhile(mCurPos, Letters \cup Digits) OBVIOUS
<1>3. to \in mCurPos..Len(mSource) /\ \A q \in mCurPos..(to - 1) : CharAt(q) \in Letters \cup Digits
  <2>1. mCurPos \in 0..Len(mSource) BY <1>1
  <2> QED BY <1>1, <1>2, <2>1, SkipIs
<1>4. Breaks(mCurPos, to) = {}
  <2>1. "\n" \notin Letters \cup Digits BY LexingAssumption
  <2>2. to \in Nat BY <1>1, <1>3
  <2> QED BY <1>1, <1>3, <2>1, <2>2, OnALine
<1>5. PICK kind : kind = IF Joined(Substr(mCurPos, to)) \in Keywords THEN Joined(Substr(mCurPos, to)) ELSE "IDENTIFIER"
  OBVIOUS
<1>6. kind \in Kinds BY <1>5 DEF Kinds
<1>7. Advance(to, <<NewToken(kind, Substr(mCurPos, to), mLine, ColumnAfter(to), to)>>) BY <1>2, <1>5 DEF Identifier
<1> QED BY <1>3, <1>4, <1>6, <1>7, TokenKeeps

-----------------------------------------------------------------------------
(* The theorem *)

(* Whatever is read. *)
LEMMA ScanKeeps == Counted /\ [ScanToken]_lexVars => Counted'
<1> SUFFICES ASSUME Counted, [ScanToken]_lexVars PROVE Counted' OBVIOUS
<1>1. CASE Blank BY <1>1, BlankKeeps
<1>2. CASE NewLine BY <1>2, NewLineKeeps
<1>3. CASE LineComment BY <1>3, LineCommentKeeps
<1>4. CASE BlockComment BY <1>4, BlockCommentKeeps
<1>5. CASE Symbol BY <1>5, SymbolKeeps
<1>6. CASE Str BY <1>6, StrKeeps
<1>7. CASE Character BY <1>7, CharacterKeeps
<1>8. CASE Number BY <1>8, NumberKeeps
<1>9. CASE Identifier BY <1>9, IdentifierKeeps
<1>10. CASE Unknown BY <1>10, FailKeeps DEF Unknown
<1>11. CASE UNCHANGED lexVars
  BY <1>11 DEF lexVars, Counted, Placed, Apart, Breaks, CharAt, Substr
<1> QED BY <1>1, <1>2, <1>3, <1>4, <1>5, <1>6, <1>7, <1>8, <1>9, <1>10, <1>11 DEF ScanToken

(* What the invariant says of a token and those before it. *)
LEMMA CountedIsLocated == Counted => Located
<1> SUFFICES ASSUME Counted PROVE Located OBVIOUS
<1>1. mTokens \in Seq(Token) /\ Len(mTokens) \in Nat /\ DOMAIN mTokens = 1..Len(mTokens) BY DEF Counted
<1>2. \A k \in 1..Len(mTokens) : mTokens[k].kind # "STR" => Placed(mTokens[k]) BY DEF Counted
<1>3. ASSUME NEW k \in 1..Len(mTokens), mTokens[k].kind # "STR",
             NEW j \in 1..(k - 1), mTokens[j].kind # "STR", mTokens[j].line = mTokens[k].line
      PROVE  mTokens[k].column - mTokens[j].column = mTokens[k].pos - mTokens[j].pos
  <2>1. j \in 1..Len(mTokens) BY <1>1
  <2>2. PICK t \in Token : t = mTokens[j] BY <1>1, <2>1
  <2>3. PICK u \in Token : u = mTokens[k] BY <1>1
  <2>4. Apart(t, u) BY <1>3, <2>1, <2>2, <2>3 DEF Counted
  <2>5. t.column - t.pos = u.column - u.pos BY <1>3, <2>2, <2>3, <2>4 DEF Apart
  <2>6. t.column \in Int /\ t.pos \in Int /\ u.column \in Int /\ u.pos \in Int BY DEF Token
  <2>7. u.column - t.column = u.pos - t.pos BY <2>5, <2>6
  <2> QED BY <2>2, <2>3, <2>7
<1> QED BY <1>1, <1>2, <1>3 DEF Placed, Located

(* In a text that has no line break where a character between single       *)
(* quotes or its second quote should be, whatever comments, strings,       *)
(* symbols and errors are in it, a token is at the position, and on the    *)
(* line, that it says.                                                     *)
THEOREM TokensAreLocated ==
  ASSUME NEW texts \in SUBSET Seq(STRING), \A text \in texts : \A i \in 1..Len(text) : ~ BreakInQuotes(text, i)
  PROVE  LexInit(texts) /\ [][ScanToken]_lexVars => []Located
<1>1. LexInit(texts) => Counted
  <2> SUFFICES ASSUME LexInit(texts) PROVE Counted OBVIOUS
  <2>1. mSource \in Seq(STRING) /\ \A i \in 1..Len(mSource) : ~ BreakInQuotes(mSource, i) BY DEF LexInit
  <2>2. mCurPos = 0 /\ mLine = 1 /\ mColumn = 1 /\ mTokens = <<>> BY DEF LexInit
  <2>3. Breaks(0, 0) = {} BY DEF Breaks
  <2>4. Cardinality(Breaks(0, 0)) = 0 BY <2>3, NoBreaks
  <2>5. mTokens \in Seq(Token) /\ Len(mTokens) = 0 BY <2>2
  <2>6. mCurPos \in 0..Len(mSource) BY <2>1, <2>2
  <2> QED BY <2>1, <2>2, <2>4, <2>5, <2>6 DEF Counted
<1> QED BY <1>1, ScanKeeps, CountedIsLocated, PTL
=============================================================================

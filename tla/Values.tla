------------------------------- MODULE Values -------------------------------
(***************************************************************************)
(* Values and what the instructions of the machine compute from them.      *)
(*                                                                         *)
(* A value is a tuple that begins with its kind: <<"int", 3>>, <<"real",   *)
(* 5, 2>> for 2.5, <<"bool", TRUE>>, <<"null">>, <<"str", chars>>.         *)
(* <<"failure">> is no value: the process has reported an error and ended. *)
(* <<"object", address>> is an array or a dict, of which a heap holds the  *)
(* kind and the elements.  Strings are objects too, but nothing except     *)
(* their characters can be told here: what changes a string in place is    *)
(* left out.                                                               *)
(***************************************************************************)
EXTENDS Integers, SequencesExt
LOCAL INSTANCE Bitwise

IntValue(n) == <<"int", n>>
BoolValue(b) == <<"bool", b>>
NullValue == <<"null">>
Failure == <<"failure">>

RealValue(n, d) ==
  LET common == Max({k \in 1..d : n % k = 0 /\ d % k = 0}) IN <<"real", n \div common, d \div common>>

IsInt(v) == v[1] = "int"
IsReal(v) == v[1] = "real"
IsBool(v) == v[1] = "bool"
IsStr(v) == v[1] = "str"
IsNumber(v) == IsInt(v) \/ IsReal(v)
IsObject(v) == v[1] = "object"

Numerator(v) == v[2]
Denominator(v) == IF IsInt(v) THEN 1 ELSE v[3]

-----------------------------------------------------------------------------
(* The arithmetic of the language the machine is written in: quotients are *)
(* rounded towards zero, and integers have Word values.  Words stand for   *)
(* the 64 bits of the code: nothing here comes near to their limits.       *)
Word == 2^16
Signed(w) == IF w >= Word \div 2 THEN w - Word ELSE w

Magnitude(n) == IF n < 0 THEN -n ELSE n

Quotient(n, d) ==
  LET q == Magnitude(n) \div Magnitude(d) IN IF (n < 0) = (d < 0) THEN q ELSE -q

OfInts(op, l, r) ==
  CASE op = "+" -> l + r
    [] op = "-" -> l - r
    [] op = "*" -> l * r
    [] op = "/" -> Quotient(l, r)
    [] op = "%" -> l - r * Quotient(l, r)
    [] op = "&" -> Signed((l % Word) & (r % Word))
    [] op = "|" -> Signed((l % Word) | (r % Word))
    [] op = "^" -> Signed((l % Word) ^^ (r % Word))
    [] op = "<<" -> l * 2^r
    [] op = ">>" -> l \div 2^r

OfReals(op, n, d, m, e) ==
  CASE op = "+" -> RealValue(n * e + m * d, d * e)
    [] op = "-" -> RealValue(n * e - m * d, d * e)
    [] op = "*" -> RealValue(n * m, d * e)
    [] op = "/" -> IF m < 0 THEN RealValue(-(n * e), -(d * m)) ELSE RealValue(n * e, d * m)

(* Of two numbers: an integer when both are. *)
Calculated(op, l, r) ==
  IF IsInt(l) /\ IsInt(r) THEN IntValue(OfInts(op, l[2], r[2]))
  ELSE OfReals(op, Numerator(l), Denominator(l), Numerator(r), Denominator(r))

Compared(op, l, r) ==
  LET n == Numerator(l) * Denominator(r)
      m == Numerator(r) * Denominator(l)
  IN  CASE op = "<" -> n < m
        [] op = ">" -> n > m
        [] op = "<=" -> n <= m
        [] op = ">=" -> n >= m
        [] op = "==" -> n = m
        [] op = "!=" -> n # m

-----------------------------------------------------------------------------
(* The instructions. *)

(* COMMON_BINARY, INTEGER_BINARY and COMPARE_BINARY. *)
CommonBinary(op, l, r) == IF IsNumber(l) /\ IsNumber(r) THEN Calculated(op, l, r) ELSE Failure
IntegerBinary(op, l, r) == IF IsInt(l) /\ IsInt(r) THEN Calculated(op, l, r) ELSE Failure
CompareBinary(op, l, r) == BoolValue(IsNumber(l) /\ IsNumber(r) /\ Compared(op, l, r))

(* Value's operator ==, of values with the contents of objects in place of *)
(* their addresses: <<"array", elements>> and <<"dict", elements>>.        *)
RECURSIVE Equal(_, _)
Equal(l, r) ==
  CASE IsNumber(l) /\ IsNumber(r) -> Compared("==", l, r)
    [] l[1] = "array" /\ r[1] = "array" ->
         Len(l[2]) = Len(r[2]) /\ \A k \in DOMAIN l[2] : Equal(l[2][k], r[2][k])
    [] l[1] = "dict" /\ r[1] = "dict" ->
         /\ Cardinality(DOMAIN l[2]) = Cardinality(DOMAIN r[2])
         /\ \A k \in DOMAIN l[2] : \E j \in DOMAIN r[2] : Equal(k, j) /\ Equal(l[2][k], r[2][j])
    [] OTHER -> l = r

(* OP_ADD takes the value on top for the left operand. *)
Add(below, top) ==
  IF IsStr(top) /\ IsStr(below) THEN <<"str", top[2] \o below[2]>> ELSE CommonBinary("+", top, below)

BinaryOpCodes ==
  {"ADD", "SUB", "MUL", "DIV", "MOD", "BIT_AND", "BIT_OR", "BIT_LEFT_SHIFT", "BIT_RIGHT_SHIFT", "LESS", "GREATER",
   "EQUAL"}

Binary(opCode, below, top) ==
  CASE opCode = "ADD" -> Add(below, top)
    [] opCode = "SUB" -> CommonBinary("-", below, top)
    [] opCode = "MUL" -> CommonBinary("*", below, top)
    [] opCode = "DIV" -> CommonBinary("/", below, top)
    [] opCode = "MOD" -> IntegerBinary("%", below, top)
    [] opCode = "BIT_AND" -> IntegerBinary("&", below, top)
    [] opCode = "BIT_OR" -> IntegerBinary("|", below, top)
    [] opCode = "BIT_LEFT_SHIFT" -> IntegerBinary("<<", below, top)
    [] opCode = "BIT_RIGHT_SHIFT" -> IntegerBinary(">>", below, top)
    [] opCode = "LESS" -> CompareBinary("<", below, top)
    [] opCode = "GREATER" -> CompareBinary(">", below, top)
    [] opCode = "EQUAL" -> BoolValue(Equal(top, below))

Factorial == LET f[n \in Nat] == IF n = 0 THEN 1 ELSE n * f[n - 1] IN f

UnaryOpCodes == {"NOT", "MINUS", "FACTORIAL"}

Unary(opCode, v) ==
  CASE opCode = "NOT" -> IF IsBool(v) THEN BoolValue(~ v[2]) ELSE Failure
    [] opCode = "MINUS" ->
         IF IsInt(v) THEN IntValue(-v[2]) ELSE IF IsReal(v) THEN <<"real", -v[2], v[3]>> ELSE Failure
    [] opCode = "FACTORIAL" -> IF IsInt(v) THEN IntValue(Factorial[v[2]]) ELSE Failure

IsFalsey(v) == v = NullValue \/ v = BoolValue(FALSE)

-----------------------------------------------------------------------------
(* Arrays, which are sequences, and dicts, which are functions from their  *)
(* keys.                                                                   *)

(* A value with everything in it. *)
RECURSIVE Shown(_, _)
Shown(heap, v) ==
  IF IsObject(v)
  THEN LET object == heap[v[2]] IN <<object.kind, [k \in DOMAIN object.elements |-> Shown(heap, object.elements[k])]>>
  ELSE v

(* A negative index counts from the end. *)
NormalizeIdx(index, size) ==
  IF index < 0 THEN size - (Magnitude(index) % size) ELSE index % size

(* Where an index points to in a sequence, if anywhere: a negative         *)
(* multiple of the size points behind the last element, and an empty       *)
(* sequence has the process end with a division by zero.                   *)
Positions(elements, index) ==
  {k \in DOMAIN elements : IsInt(index) /\ NormalizeIdx(index[2], Len(elements)) = k - 1}

Positioned(heap, v, index) ==
  CASE IsStr(v) -> Positions(v[2], index)
    [] IsObject(v) ->
         LET object == heap[v[2]]
         IN  IF object.kind = "array" THEN Positions(object.elements, index) ELSE {index} \cap DOMAIN object.elements

IsContainer(v) == IsStr(v) \/ IsObject(v)

Element(heap, v, k) == IF IsStr(v) THEN <<"str", <<v[2][k]>>>> ELSE heap[v[2]].elements[k]

At(heap, v, index) ==
  LET places == Positioned(heap, v, index) IN IF places = {} THEN Failure ELSE Element(heap, v, CHOOSE k \in places : TRUE)

(* The natives of the library ds, which take no index from the end: what   *)
(* becomes of the elements, in a set that is empty after an error.         *)
SizeOf(heap, v) ==
  CASE IsStr(v) -> IntValue(Len(v[2]))
    [] IsObject(v) -> IntValue(Cardinality(DOMAIN heap[v[2]].elements))
    [] OTHER -> Failure

DirectPositions(elements, index) == {k \in DOMAIN elements : index = IntValue(k - 1)}

Inserted(object, index, new) ==
  IF object.kind = "array" THEN {InsertAt(object.elements, k, new) : k \in DirectPositions(object.elements, index)}
  ELSE {(index :> new) @@ object.elements : k \in {index} \ DOMAIN object.elements}

Erased(object, index) ==
  IF object.kind = "array" THEN {RemoveAt(object.elements, k) : k \in DirectPositions(object.elements, index)}
  ELSE {[j \in DOMAIN object.elements \ {k} |-> object.elements[j]] : k \in {index} \cap DOMAIN object.elements}

=============================================================================

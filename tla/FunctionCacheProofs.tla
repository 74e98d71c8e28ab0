------------------------- MODULE FunctionCacheProofs -------------------------
(***************************************************************************)
(* A call that is answered from a cache gives what it would give without,  *)
(* for any functions and any calls in their bodies.                        *)
(*                                                                         *)
(* Plain calls itself, over calls and not over a structure that a library  *)
(* theorem knows.  If calls have sizes (CallsEnd), it is the function its  *)
(* definition says it is (PlainIs): functions that satisfy it up to a size *)
(* exist (SomeHas) and agree (HavesAgree).                                 *)
(*                                                                         *)
(* Faithful is the inductive invariant: every frame has got what its body  *)
(* has without caches after as many calls (Computes), the frames are of    *)
(* calls in calls (Chain), and what is remembered for a hash is what every *)
(* closure of the function gives for every argument that has it            *)
(* (Remembered).  The three conditions of Pure are what the steps of       *)
(* Remembered need.                                                        *)
(***************************************************************************)
EXTENDS FunctionCache, SequenceFacts

-----------------------------------------------------------------------------
(* Frames whose calls got results of V. *)
Frame(V) == [closure : Closures, argument : Arguments, argumentsHash : Hashes, got : Seq(V)]

(* Results of a larger set. *)
LEMMA Wider ==
  ASSUME NEW V, NEW W, V \subseteq W, NEW s \in Seq(Frame(V))
  PROVE  s \in Seq(Frame(W))
<1>1. \A i \in 1..Len(s) : s[i] \in Frame(W)
  <2> TAKE i \in 1..Len(s)
  <2>1. s[i] \in Frame(V) OBVIOUS
  <2>2. s[i].got \in Seq(W)
    <3>1. s[i].got \in Seq(V) BY <2>1 DEF Frame
    <3>2. \A j \in 1..Len(s[i].got) : s[i].got[j] \in W BY <3>1
    <3> DEFINE g == s[i].got
    <3> HIDE DEF g
    <3>3. g \in Seq(V) /\ \A j \in 1..Len(g) : g[j] \in W BY <3>1, <3>2 DEF g
    <3>4. g \in Seq(W) BY <3>3
    <3> QED BY <3>4 DEF g
  <2> QED BY <2>1, <2>2 DEF Frame
<1> QED
  <2> DEFINE A == Frame(V) B == Frame(W)
  <2> HIDE DEF A, B
  <2>1. s \in Seq(A) /\ \A i \in 1..Len(s) : s[i] \in B BY <1>1 DEF A, B
  <2>2. s \in Seq(B) BY <2>1
  <2> QED BY <2>2 DEF B

(* What Deliver does to the frames below. *)
LEMMA Delivered ==
  ASSUME NEW V, NEW below \in Seq(Frame(V)), NEW r \in V, NEW n, Deliver(below, r, n)
  PROVE  /\ frames' \in Seq(Frame(V))
         /\ Len(frames') = Len(below)
         /\ \A i \in 1..Len(below) : i # Len(below) => frames'[i] = below[i]
         /\ below # <<>> => LET F == below[Len(below)] IN
              frames'[Len(below)] = [F EXCEPT !.got = Append(@, r)]
         /\ below # <<>> => answer' = answer
         /\ below = <<>> => answer' = [result |-> r, count |-> n]
<1>1. CASE below = <<>>
  <2>1. frames' = <<>> /\ answer' = [result |-> r, count |-> n] BY <1>1 DEF Deliver
  <2> QED BY <1>1, <2>1
<1>2. CASE below # <<>>
  <2> DEFINE F == below[Len(below)]
             G == [F EXCEPT !.got = Append(@, r)]
             A == Frame(V)
  <2>1. frames' = [below EXCEPT ![Len(below)] = G] /\ answer' = answer
    BY <1>2 DEF Deliver
  <2>2. Len(below) \in 1..Len(below) BY <1>2
  <2>3. F \in Frame(V) BY <2>2
  <2>4. G \in Frame(V)
    <3>1. F.got \in Seq(V) BY <2>3 DEF Frame
    <3>2. Append(F.got, r) \in Seq(V) BY <3>1
    <3> QED BY <2>3, <3>2 DEF Frame
  <2> HIDE DEF G, A
  <2>5. below \in Seq(A) /\ G \in A BY <2>4 DEF A
  <2>6. frames' \in Seq(A) /\ Len(frames') = Len(below) BY <2>1, <2>2, <2>5
  <2>7. frames'[Len(below)] = G BY <2>1, <2>2, <2>5
  <2>8. \A i \in 1..Len(below) : i # Len(below) => frames'[i] = below[i] BY <2>1, <2>5
  <2> QED BY <1>2, <2>1, <2>6, <2>7, <2>8 DEF A, G
<1> QED BY <1>1, <1>2

-----------------------------------------------------------------------------
(* The shape of the frames and the caches *)

(* The results a frame has are no more than its calls; or it lacks one. *)
Within(F) == Len(F.got) <= Len(CallsOf(F.closure, F.argument))
Awaits(F) == Len(F.got) < Len(CallsOf(F.closure, F.argument))

(* The shape. *)
Typed ==
  /\ DOMAIN caches = Functions
  /\ \A f \in Functions : DOMAIN caches[f] \subseteq Hashes
  /\ \E V : frames \in Seq(Frame(V))
  /\ \A i \in 1..Len(frames) : Within(frames[i]) /\ (i # Len(frames) => Awaits(frames[i]))
  /\ count \in Nat

(* It implies the type invariant, holds at first, ... *)
LEMMA TypedTypeOK == ASSUME Typed PROVE TypeOK
<1>1. PICK V : frames \in Seq(Frame(V)) BY DEF Typed
<1>2. DOMAIN frames = 1..Len(frames) BY <1>1
<1>3. \A i \in 1..Len(frames) : frames[i] \in Frame(V) BY <1>1
<1> QED BY <1>2, <1>3 DEF Typed, TypeOK, Frame, Within

(* ... with nothing remembered and no frame, ... *)
LEMMA InitTyped == ASSUME Init PROVE Typed
<1>1. frames = <<>> /\ count = 0 /\ caches = [f \in Functions |-> <<>>] BY DEF Init
<1>2. frames \in Seq(Frame({})) /\ Len(frames) = 0 BY <1>1
<1>3. DOMAIN caches = Functions BY <1>1
<1>4. \A f \in Functions : DOMAIN caches[f] = {} BY <1>1
<1> QED BY <1>1, <1>2, <1>3, <1>4 DEF Typed

(* The three ways a call goes. *)
LEMMA CallCases ==
  ASSUME NEW c \in Closures, NEW a \in Arguments, Call(c, a)
  PROVE  /\ UNCHANGED <<caches, count>>
         /\ \/ /\ FunctionOf[c] \notin Constructors
               /\ Hash(a) \in DOMAIN caches[FunctionOf[c]]
               /\ Deliver(frames, caches[FunctionOf[c]][Hash(a)], count)
            \/ \E hash \in Hashes :
                 /\ frames' = Append(frames, [closure |-> c, argument |-> a,
                                              argumentsHash |-> hash, got |-> <<>>])
                 /\ FunctionOf[c] \notin Constructors => hash = Hash(a)
                 /\ answer' = answer
<1>1. Hash(a) \in Hashes BY DEF Hashes
<1> QED BY <1>1 DEF Call

(* A frame with one result more. *)
LEMMA OneMore ==
  ASSUME NEW V, NEW F \in Frame(V), NEW r \in V
  PROVE  LET G == [F EXCEPT !.got = Append(@, r)] IN
         /\ G.closure = F.closure /\ G.argument = F.argument
         /\ G.argumentsHash = F.argumentsHash
         /\ G.got = Append(F.got, r) /\ Len(G.got) = Len(F.got) + 1
<1>1. F.got \in Seq(V) BY DEF Frame
<1>2. Len(Append(F.got, r)) = Len(F.got) + 1
  <2> DEFINE g == F.got
  <2> HIDE DEF g
  <2>1. g \in Seq(V) BY <1>1 DEF g
  <2>2. Len(Append(g, r)) = Len(g) + 1 BY <2>1
  <2> QED BY <2>2 DEF g
<1> QED BY <1>2 DEF Frame

(* The same for any result. *)
LEMMA DeliveredWider ==
  ASSUME NEW V, NEW below \in Seq(Frame(V)), NEW r, NEW n, Deliver(below, r, n)
  PROVE  \E W :
         /\ r \in W
         /\ below \in Seq(Frame(W))
         /\ frames' \in Seq(Frame(W))
         /\ Len(frames') = Len(below)
         /\ \A i \in 1..Len(below) : i # Len(below) => frames'[i] = below[i]
         /\ below # <<>> => LET F == below[Len(below)] IN
              frames'[Len(below)] = [F EXCEPT !.got = Append(@, r)]
<1>1. PICK W : W = V \cup {r} OBVIOUS
<1>2. V \subseteq W /\ r \in W BY <1>1
<1>3. below \in Seq(Frame(W)) BY <1>2, Wider
<1>4. /\ frames' \in Seq(Frame(W))
      /\ Len(frames') = Len(below)
      /\ \A i \in 1..Len(below) : i # Len(below) => frames'[i] = below[i]
      /\ below # <<>> => LET F == below[Len(below)] IN
           frames'[Len(below)] = [F EXCEPT !.got = Append(@, r)]
  BY <1>2, <1>3, Delivered, ZenonT(40)
<1> QED BY <1>2, <1>3, <1>4

(* A result can be given to frames whose last has not all its results yet. *)
LEMMA DeliveredTyped ==
  ASSUME NEW V, NEW below \in Seq(Frame(V)), NEW r, NEW n, Deliver(below, r, n),
         \A i \in 1..Len(below) : Awaits(below[i])
  PROVE  /\ \E W : frames' \in Seq(Frame(W))
         /\ \A i \in 1..Len(frames') :
              Within(frames'[i]) /\ (i # Len(frames') => Awaits(frames'[i]))
<1>3. PICK W :
        /\ r \in W
        /\ below \in Seq(Frame(W))
        /\ frames' \in Seq(Frame(W))
        /\ Len(frames') = Len(below)
        /\ \A i \in 1..Len(below) : i # Len(below) => frames'[i] = below[i]
        /\ below # <<>> => LET F == below[Len(below)] IN
             frames'[Len(below)] = [F EXCEPT !.got = Append(@, r)]
  BY DeliveredWider
<1>4. ASSUME NEW i \in 1..Len(frames')
      PROVE  Within(frames'[i]) /\ (i # Len(frames') => Awaits(frames'[i]))
  <2>1. i \in 1..Len(below) BY <1>3
  <2> DEFINE F == below[i]
             G == [F EXCEPT !.got = Append(@, r)]
  <2>2. F \in Frame(W) /\ below # <<>> /\ Awaits(F) BY <1>3, <2>1
  <2>3. Len(F.got) \in Nat /\ Len(CallsOf(F.closure, F.argument)) \in Nat
    <3>1. F.got \in Seq(W) BY <2>2 DEF Frame
    <3>2. CallsOf(F.closure, F.argument) \in Seq(Closures \X Arguments)
      <4>1. F.closure \in Closures /\ F.argument \in Arguments BY <2>2 DEF Frame
      <4> QED BY <4>1, FunctionCacheAssumption DEF CallsOf
    <3> QED BY <3>1, <3>2
  <2>4. CASE i # Len(below)
    <3>1. frames'[i] = F BY <1>3, <2>1, <2>4
    <3> HIDE DEF F
    <3>2. Within(F) BY <2>2, <2>3 DEF Within, Awaits
    <3> QED BY <2>2, <3>1, <3>2
  <2>5. CASE i = Len(below)
    <3>1. frames'[i] = G BY <1>3, <2>5, <2>2
    <3>2. G.closure = F.closure /\ G.argument = F.argument /\ Len(G.got) = Len(F.got) + 1
      BY <1>3, <2>2, OneMore
    <3> HIDE DEF F, G
    <3>3. Within(G) BY <2>2, <2>3, <3>2 DEF Within, Awaits
    <3> QED BY <1>3, <2>5, <3>1, <3>3
  <2> QED BY <2>4, <2>5
<1> QED BY <1>3, <1>4

(* The innermost call. *)
LEMMA TopIs ==
  ASSUME NEW V, frames \in Seq(Frame(V)), frames # <<>>
  PROVE  /\ Top = frames[Len(frames)] /\ Top \in Frame(V)
         /\ FunctionOf[Top.closure] \in Functions
         /\ Calls = CallsOf(Top.closure, Top.argument)
         /\ Calls \in Seq(Closures \X Arguments)
         /\ Front(frames) \in Seq(Frame(V))
         /\ Len(Front(frames)) = Len(frames) - 1
         /\ \A i \in 1..Len(frames) - 1 : Front(frames)[i] = frames[i]
         /\ Len(frames) \in 1..Len(frames)
<1> DEFINE A == Frame(V)
<1>1. Len(frames) \in 1..Len(frames) OBVIOUS
<1>2. Top = frames[Len(frames)] BY DEF Top, Last
<1>3. Top \in Frame(V) BY <1>1, <1>2
<1>4. FunctionOf[Top.closure] \in Functions /\ Calls \in Seq(Closures \X Arguments)
  BY <1>3, FunctionCacheAssumption DEF Frame, Calls, CallsOf
<1>5. /\ Front(frames) \in Seq(A)
      /\ Len(Front(frames)) = Len(frames) - 1
      /\ \A i \in 1..Len(frames) - 1 : Front(frames)[i] = frames[i]
  <2> HIDE DEF A
  <2>1. frames \in Seq(A) BY DEF A
  <2> QED BY <2>1, Fronted
<1> QED BY <1>1, <1>2, <1>3, <1>4, <1>5 DEF Calls

(* A call keeps the shape if whoever makes it waits for another result. *)
LEMMA CallTyped ==
  ASSUME Typed, NEW c \in Closures, NEW a \in Arguments, Call(c, a),
         frames # <<>> => Len(Top.got) < Len(Calls)
  PROVE  Typed'
<1>1. PICK V : frames \in Seq(Frame(V)) BY DEF Typed
<1>2. UNCHANGED <<caches, count>> BY CallCases
<1>3. \A i \in 1..Len(frames) : Awaits(frames[i])
  <2>1. frames # <<>> => Awaits(frames[Len(frames)]) BY <1>1, TopIs DEF Awaits
  <2> QED BY <1>1, <2>1 DEF Typed
<1>4. /\ \E W : frames' \in Seq(Frame(W))
      /\ \A i \in 1..Len(frames') :
           Within(frames'[i]) /\ (i # Len(frames') => Awaits(frames'[i]))
  <2>1. CASE \E r : Deliver(frames, r, count)
    <3>1. PICK r : Deliver(frames, r, count) BY <2>1
    <3> QED BY <1>1, <1>3, <3>1, DeliveredTyped
  <2>2. CASE \E hash \in Hashes :
               frames' = Append(frames, [closure |-> c, argument |-> a,
                                         argumentsHash |-> hash, got |-> <<>>])
    <3>1. PICK hash \in Hashes :
               frames' = Append(frames, [closure |-> c, argument |-> a,
                                         argumentsHash |-> hash, got |-> <<>>]) BY <2>2
    <3> DEFINE F == [closure |-> c, argument |-> a, argumentsHash |-> hash, got |-> <<>>]
               A == Frame(V)
    <3>2. F \in Frame(V) BY DEF Frame
    <3>3. F.closure = c /\ F.argument = a /\ Len(F.got) = 0 OBVIOUS
    <3>4. Len(CallsOf(c, a)) \in Nat
      <4>1. CallsOf(c, a) \in Seq(Closures \X Arguments) BY FunctionCacheAssumption DEF CallsOf
      <4> QED BY <4>1
    <3> HIDE DEF F, A
    <3>5. frames \in Seq(A) /\ F \in A BY <1>1, <3>2 DEF A
    <3>6. frames' = Append(frames, F) BY <3>1 DEF F
    <3>7. /\ frames' \in Seq(A) /\ Len(frames') = Len(frames) + 1
          /\ frames'[Len(frames) + 1] = F
          /\ \A i \in 1..Len(frames) : frames'[i] = frames[i]
      BY <3>5, <3>6
    <3>8. ASSUME NEW i \in 1..Len(frames')
          PROVE  Within(frames'[i]) /\ (i # Len(frames') => Awaits(frames'[i]))
      <4>1. i \in 1..Len(frames) \/ i = Len(frames) + 1 BY <3>5, <3>7
      <4>2. CASE i \in 1..Len(frames) BY <1>3, <3>7, <4>2 DEF Typed
      <4>3. CASE i = Len(frames) + 1
        <5>1. Within(F) BY <3>3, <3>4 DEF Within
        <5> QED BY <3>7, <4>3, <5>1
      <4> QED BY <4>1, <4>2, <4>3
    <3>9. frames' \in Seq(Frame(V)) BY <3>7 DEF A
    <3> QED BY <3>8, <3>9
  <2> QED BY <2>1, <2>2, CallCases
<1> QED BY <1>2, <1>4 DEF Typed

(* What OP_RETURN does to the caches. *)
LEMMA ReturnCaches ==
  ASSUME Typed, Return
  PROVE  /\ DOMAIN caches' = Functions
         /\ \A f \in Functions : f # FunctionOf[Top.closure] => caches'[f] = caches[f]
         /\ LET f == FunctionOf[Top.closure] IN
            /\ DOMAIN caches'[f] = DOMAIN caches[f] \cup {Top.argumentsHash}
            /\ caches'[f][Top.argumentsHash] = Given.result
            /\ \A h \in DOMAIN caches[f] : h # Top.argumentsHash => caches'[f][h] = caches[f][h]
<1>1. PICK V : frames \in Seq(Frame(V)) BY DEF Typed
<1>2. frames # <<>> /\ Remember(Given.result) BY DEF Return
<1> DEFINE f == FunctionOf[Top.closure]
           h == Top.argumentsHash
           r == Given.result
           new == SetCache(caches[f], h, r)
<1>3. f \in Functions BY <1>1, <1>2, TopIs
<1>4. caches' = [caches EXCEPT ![f] = new] BY <1>2 DEF Remember
<1>5. DOMAIN caches = Functions BY DEF Typed
<1>6. /\ DOMAIN new = DOMAIN caches[f] \cup {h}
      /\ new[h] = r
      /\ \A x \in DOMAIN caches[f] : x # h => new[x] = caches[f][x]
  BY DEF SetCache
<1> HIDE DEF f, new
<1>7. caches'[f] = new /\ \A g \in Functions : g # f => caches'[g] = caches[g] BY <1>3, <1>4, <1>5
<1>8. DOMAIN caches' = Functions BY <1>4, <1>5
<1> QED BY <1>6, <1>7, <1>8 DEF f

(* ... and at every step. *)
LEMMA StepTyped == ASSUME Typed, [Next]_vars PROVE Typed'
<1>1. PICK V : frames \in Seq(Frame(V)) BY DEF Typed
<1>2. ASSUME NEW c \in Closures, NEW a \in Arguments, ScriptCall(c, a) PROVE Typed'
  <2>1. frames = <<>> /\ Call(c, a) BY <1>2 DEF ScriptCall
  <2> QED BY <2>1, CallTyped
<1>3. CASE BodyCall
  <2>1. frames # <<>> /\ Len(Top.got) < Len(Calls) BY <1>3 DEF BodyCall
  <2> DEFINE next == Calls[Len(Top.got) + 1]
  <2>2. Call(next[1], next[2]) BY <1>3 DEF BodyCall
  <2>3. next[1] \in Closures /\ next[2] \in Arguments
    <3>1. Calls \in Seq(Closures \X Arguments) /\ Top \in Frame(V) BY <1>1, <2>1, TopIs
    <3>2. Len(Top.got) \in Nat BY <3>1 DEF Frame
    <3>3. Len(Top.got) + 1 \in 1..Len(Calls) BY <2>1, <3>1, <3>2
    <3>4. next \in Closures \X Arguments BY <3>1, <3>3
    <3> QED BY <3>4
  <2> QED BY <2>1, <2>2, <2>3, CallTyped
<1>4. CASE Return
  <2>1. /\ frames # <<>> /\ count' = Given.count
        /\ Deliver(Front(frames), Given.result, Given.count)
    BY <1>4 DEF Return
  <2>2. count' \in Nat BY <2>1 DEF Given, Outcome, After, Typed
  <2>3. DOMAIN caches' = Functions /\ \A f \in Functions : DOMAIN caches'[f] \subseteq Hashes
    <3>1. Top.argumentsHash \in Hashes /\ FunctionOf[Top.closure] \in Functions
      <4>1. Top \in Frame(V) /\ FunctionOf[Top.closure] \in Functions BY <1>1, <2>1, TopIs
      <4> QED BY <4>1 DEF Frame
    <3>2. \A f \in Functions : DOMAIN caches[f] \subseteq Hashes BY DEF Typed
    <3> QED BY <1>4, <3>1, <3>2, ReturnCaches
  <2>4. /\ Front(frames) \in Seq(Frame(V))
        /\ Len(Front(frames)) = Len(frames) - 1
        /\ \A i \in 1..Len(frames) - 1 : Front(frames)[i] = frames[i]
    BY <1>1, <2>1, TopIs
  <2>5. \A i \in 1..Len(Front(frames)) : Awaits(Front(frames)[i])
    <3>1. \A i \in 1..Len(frames) - 1 : i \in 1..Len(frames) /\ i # Len(frames) BY <1>1
    <3> QED BY <1>1, <2>4, <3>1 DEF Typed
  <2>6. /\ \E W : frames' \in Seq(Frame(W))
        /\ \A i \in 1..Len(frames') :
             Within(frames'[i]) /\ (i # Len(frames') => Awaits(frames'[i]))
    <3> DEFINE below == Front(frames)
    <3> HIDE DEF below
    <3>1. /\ below \in Seq(Frame(V)) /\ Deliver(below, Given.result, Given.count)
          /\ \A i \in 1..Len(below) : Awaits(below[i])
      BY <2>1, <2>4, <2>5 DEF below
    <3> QED BY <3>1, DeliveredTyped
  <2> QED BY <2>2, <2>3, <2>6 DEF Typed
<1>5. CASE UNCHANGED vars BY <1>5 DEF vars, Typed, Within, Awaits
<1> QED BY <1>2, <1>3, <1>4, <1>5 DEF Next

(* Every frame is of a closure with an argument and has no more results than *)
(* its body makes calls, for any script and any hash (OP_CALL, OP_RETURN).   *)
THEOREM TypeCorrect == Spec => []TypeOK
<1>1. Init => Typed BY InitTyped
<1>2. Typed /\ [Next]_vars => Typed' BY StepTyped
<1>3. Typed => TypeOK BY TypedTypeOK
<1> QED BY <1>1, <1>2, <1>3, PTL DEF Spec

-----------------------------------------------------------------------------
(* Calls without caches *)

(* Every call ends: calls have sizes, such as the number of calls that are *)
(* made in them, that grow from one to the next and are smaller inside.     *)
Sized(size) ==
  \A f \in Functions, a \in Arguments : \A k \in 1..Len(Body[f][a]) :
    LET call == Body[f][a][k]
        g == FunctionOf[call[1]]
    IN /\ size[f][a][k - 1] < size[f][a][k]
       /\ size[g][call[2]][Len(Body[g][call[2]])] < size[f][a][k]

CallsEnd == \E size \in [Functions -> [Arguments -> [Nat -> Nat]]] : Sized(size)

(* The size of a call up to a point. *)
Size(size, p) == size[FunctionOf[p.closure]][p.argument][p.calls]

(* Sizes are numbers. *)
LEMMA SizeNat ==
  ASSUME NEW size \in [Functions -> [Arguments -> [Nat -> Nat]]], NEW p \in Points
  PROVE  Size(size, p) \in Nat
<1>1. FunctionOf[p.closure] \in Functions /\ p.argument \in Arguments /\ p.calls \in Nat
  BY FunctionCacheAssumption DEF Points
<1> DEFINE f == FunctionOf[p.closure]
<1> HIDE DEF f
<1>2. f \in Functions BY <1>1 DEF f
<1>3. size[f] \in [Arguments -> [Nat -> Nat]] BY <1>2
<1>4. size[f][p.argument] \in [Nat -> Nat] BY <1>1, <1>3
<1>5. size[f][p.argument][p.calls] \in Nat BY <1>1, <1>4
<1> QED BY <1>5 DEF Size, f

(* The point before the last call that was made, and that call. *)
Before(p) == [p EXCEPT !.calls = @ - 1]
CallAt(p) == CallsOf(p.closure, p.argument)[p.calls]

(* What a point depends on is smaller. *)
LEMMA PointsBefore ==
  ASSUME NEW size \in [Functions -> [Arguments -> [Nat -> Nat]]], Sized(size),
         NEW p \in Points, p.calls \in 1..Len(CallsOf(p.closure, p.argument)), NEW n \in Nat
  PROVE  /\ Before(p) \in Points
         /\ WholeCall(CallAt(p)[1], CallAt(p)[2], n) \in Points
         /\ Size(size, Before(p)) < Size(size, p)
         /\ Size(size, WholeCall(CallAt(p)[1], CallAt(p)[2], n)) < Size(size, p)
<1> DEFINE f == FunctionOf[p.closure]
           calls == CallsOf(p.closure, p.argument)
           call == CallAt(p)
           whole == WholeCall(call[1], call[2], n)
<1>1. f \in Functions /\ p.argument \in Arguments /\ p.calls \in Nat /\ p.closure \in Closures
  BY FunctionCacheAssumption DEF Points
<1>2. calls \in Seq(Closures \X Arguments) /\ calls = Body[f][p.argument]
  BY <1>1, FunctionCacheAssumption DEF CallsOf
<1>3. call \in Closures \X Arguments /\ call = calls[p.calls]
  <2>1. call = calls[p.calls] BY DEF CallAt
  <2>3. p.calls \in 1..Len(calls) OBVIOUS
  <2> HIDE DEF calls, call
  <2>2. calls[p.calls] \in Closures \X Arguments BY <1>2, <2>3
  <2> QED BY <2>1, <2>2
<1>4. call[1] \in Closures /\ call[2] \in Arguments
  <2> HIDE DEF call
  <2> QED BY <1>3
<1>5. Len(CallsOf(call[1], call[2])) \in Nat
      /\ CallsOf(call[1], call[2]) = Body[FunctionOf[call[1]]][call[2]]
  <2> HIDE DEF call
  <2>1. CallsOf(call[1], call[2]) \in Seq(Closures \X Arguments)
    BY <1>4, FunctionCacheAssumption DEF CallsOf
  <2> QED BY <2>1 DEF CallsOf
<1>6. Before(p) \in Points /\ Before(p).calls = p.calls - 1
      /\ Before(p).closure = p.closure /\ Before(p).argument = p.argument
  <2>1. p.calls - 1 \in Nat BY <1>1
  <2> QED BY <2>1 DEF Before, Points
<1>7. whole \in Points BY <1>4, <1>5 DEF WholeCall, Points
<1>8. /\ size[f][p.argument][p.calls - 1] < size[f][p.argument][p.calls]
      /\ size[FunctionOf[call[1]]][call[2]][Len(Body[FunctionOf[call[1]]][call[2]])]
           < size[f][p.argument][p.calls]
  <2> HIDE DEF f, call
  <2>1. p.calls \in 1..Len(Body[f][p.argument]) BY <1>2
  <2>2. call = Body[f][p.argument][p.calls] BY <1>2, <1>3
  <2> QED BY <1>1, <2>1, <2>2 DEF Sized
<1>9. Size(size, Before(p)) < Size(size, p) BY <1>6, <1>8 DEF Size
<1>10. Size(size, whole) < Size(size, p) BY <1>5, <1>8 DEF Size, WholeCall
<1> QED BY <1>6, <1>7, <1>9, <1>10

(* P has what calls without caches get, up to a size. *)
Has(P, size, m) ==
  \A p \in Points : Size(size, p) < m => P[p] = GoesOn(P, p) /\ P[p].count \in Nat

(* A call gives and leaves, after what came before. *)
LEMMA GoesOnIs ==
  ASSUME NEW P, NEW p, p.calls \in 1..Len(CallsOf(p.closure, p.argument))
  PROVE  LET b == Before(p)
             w == WholeCall(CallAt(p)[1], CallAt(p)[2], P[b].count)
             one == Outcome(CallAt(p)[1], CallAt(p)[2], P[w].got, P[w].count)
         IN GoesOn(P, p).got = Append(P[b].got, one.result) /\ GoesOn(P, p).count = one.count
<1> DEFINE b == Before(p)
           w == WholeCall(CallAt(p)[1], CallAt(p)[2], P[b].count)
           one == Outcome(CallAt(p)[1], CallAt(p)[2], P[w].got, P[w].count)
<1>1. GoesOn(P, p) = [got |-> Append(P[b].got, one.result), count |-> one.count]
  BY DEF GoesOn, Before, CallAt
<1>2. GoesOn(P, p).got = Append(P[b].got, one.result) /\ GoesOn(P, p).count = one.count
  <2> HIDE DEF one
  <2> QED BY <1>1
<1> QED BY <1>2

(* A point depends on smaller ones alone. *)
LEMMA GoesOnLocally ==
  ASSUME NEW size \in [Functions -> [Arguments -> [Nat -> Nat]]], Sized(size),
         NEW p \in Points, NEW P, NEW Q,
         \A q \in Points : Size(size, q) < Size(size, p) => P[q] = Q[q] /\ P[q].count \in Nat
  PROVE  GoesOn(P, p) = GoesOn(Q, p) /\ GoesOn(P, p).count \in Nat
<1>1. CASE p.calls \notin 1..Len(CallsOf(p.closure, p.argument)) BY <1>1 DEF GoesOn, Points
<1>2. CASE p.calls \in 1..Len(CallsOf(p.closure, p.argument))
  <2> DEFINE b == Before(p)
             n == P[b].count
             w == WholeCall(CallAt(p)[1], CallAt(p)[2], n)
             one(R) == Outcome(CallAt(p)[1], CallAt(p)[2], R[w].got, R[w].count)
             on(R) == [got |-> Append(R[b].got, one(R).result), count |-> one(R).count]
  <2>1. b \in Points /\ Size(size, b) < Size(size, p) BY <1>2, PointsBefore
  <2>2. P[b] = Q[b] /\ n \in Nat BY <2>1
  <2>3. w \in Points /\ Size(size, w) < Size(size, p)
    <3> HIDE DEF n
    <3> QED BY <1>2, <2>2, PointsBefore
  <2>4. P[w] = Q[w] /\ P[w].count \in Nat BY <2>3
  <2>5. GoesOn(P, p) = on(P) BY <1>2 DEF GoesOn, Before, CallAt
  <2>6. GoesOn(Q, p) = on(Q) BY <1>2, <2>2 DEF GoesOn, Before, CallAt
  <2>7. on(P) = on(Q) BY <2>2, <2>4
  <2>8. on(P).count \in Nat BY <2>4 DEF Outcome, After
  <2> QED BY <2>5, <2>6, <2>7, <2>8
<1> QED BY <1>1, <1>2

(* Some function has what calls get up to any size, *)
LEMMA SomeHas ==
  ASSUME NEW size \in [Functions -> [Arguments -> [Nat -> Nat]]], Sized(size), NEW m \in Nat
  PROVE  \E P : Has(P, size, m)
<1> DEFINE T == {k \in Nat : \E P : Has(P, size, k)}
<1>1. 0 \in T
  <2>1. \A p \in Points : ~(Size(size, p) < 0) BY SizeNat
  <2>2. \A P : Has(P, size, 0) BY <2>1 DEF Has
  <2> QED BY <2>2
<1>2. ASSUME NEW k \in T PROVE k + 1 \in T
  <2>1. PICK P : Has(P, size, k) OBVIOUS
  <2> DEFINE Q == [p \in Points |-> IF Size(size, p) < k THEN P[p] ELSE GoesOn(P, p)]
  <2>2. \A p \in Points : Size(size, p) < k => Q[p] = P[p] OBVIOUS
  <2>3. \A p \in Points : ~(Size(size, p) < k) => Q[p] = GoesOn(P, p) OBVIOUS
  <2> HIDE DEF Q
  <2>4. ASSUME NEW p \in Points, Size(size, p) < k + 1
        PROVE  Q[p] = GoesOn(Q, p) /\ Q[p].count \in Nat
    <3>1. \A q \in Points : Size(size, q) < Size(size, p) => Size(size, q) < k
      <4>1. Size(size, p) \in Nat BY SizeNat
      <4> TAKE q \in Points
      <4>2. Size(size, q) \in Nat BY SizeNat
      <4> DEFINE x == Size(size, p)  y == Size(size, q)
      <4> HIDE DEF x, y
      <4>3. x \in Nat /\ y \in Nat /\ x < k + 1 BY <2>4, <4>1, <4>2 DEF x, y
      <4>4. y < x => y < k BY <4>3
      <4> QED BY <4>4 DEF x, y
    <3>2. \A q \in Points : Size(size, q) < Size(size, p) => P[q] = Q[q] /\ P[q].count \in Nat
      BY <2>1, <2>2, <3>1 DEF Has
    <3>3. GoesOn(P, p) = GoesOn(Q, p) /\ GoesOn(P, p).count \in Nat BY <3>2, GoesOnLocally
    <3>4. Q[p] = GoesOn(P, p) BY <2>1, <2>2, <2>3 DEF Has
    <3> QED BY <3>3, <3>4
  <2>5. Has(Q, size, k + 1) BY <2>4 DEF Has
  <2> QED BY <2>5
<1> QED
  <2> HIDE DEF T
  <2>1. T \in SUBSET Nat BY DEF T
  <2>2. T = Nat BY <1>1, <1>2, <2>1, Induction
  <2> QED BY <2>2 DEF T

(* ... and any two that have agree. *)
LEMMA HavesAgree ==
  ASSUME NEW size \in [Functions -> [Arguments -> [Nat -> Nat]]], Sized(size),
         NEW m \in Nat, NEW k \in Nat, m <= k, NEW P, Has(P, size, m), NEW Q, Has(Q, size, k)
  PROVE  \A p \in Points : Size(size, p) < m => P[p] = Q[p]
<1> DEFINE T == {i \in Nat : \A p \in Points : Size(size, p) < i /\ Size(size, p) < m => P[p] = Q[p]}
<1>1. 0 \in T BY SizeNat
<1>2. ASSUME NEW i \in T PROVE i + 1 \in T
  <2> SUFFICES ASSUME NEW p \in Points, Size(size, p) < i + 1, Size(size, p) < m PROVE P[p] = Q[p]
    OBVIOUS
  <2> DEFINE x == Size(size, p)
  <2>1. x \in Nat BY SizeNat
  <2>2. ASSUME NEW q \in Points, Size(size, q) < x PROVE P[q] = Q[q] /\ P[q].count \in Nat
    <3> DEFINE y == Size(size, q)
    <3>1. y \in Nat BY SizeNat
    <3> HIDE DEF x, y
    <3>2. y < x /\ x < i + 1 /\ x < m BY <2>2 DEF x, y
    <3>3. y < i /\ y < m BY <2>1, <3>1, <3>2
    <3> QED BY <3>3 DEF Has, y
  <2>3. GoesOn(P, p) = GoesOn(Q, p) BY <2>2, GoesOnLocally
  <2>4. P[p] = GoesOn(P, p) BY DEF Has
  <2>5. x < k
    <3> HIDE DEF x
    <3>1. x < m BY DEF x
    <3> QED BY <2>1, <3>1
  <2>6. Q[p] = GoesOn(Q, p) BY <2>5 DEF Has
  <2> QED BY <2>3, <2>4, <2>6
<1> QED
  <2> HIDE DEF T
  <2>1. T \in SUBSET Nat BY DEF T
  <2>2. T = Nat BY <1>1, <1>2, <2>1, Induction
  <2>3. m \in T BY <2>2
  <2> QED BY <2>3 DEF T

(* So Plain is the function that its definition says it is. *)
LEMMA PlainIs ==
  ASSUME CallsEnd
  PROVE  \A p \in Points : Plain[p] = GoesOn(Plain, p) /\ Plain[p].count \in Nat
<1>1. PICK size \in [Functions -> [Arguments -> [Nat -> Nat]]] : Sized(size) BY DEF CallsEnd
<1> DEFINE Up(m) == CHOOSE P : Has(P, size, m)
           S(p) == Size(size, p)
           F == [p \in Points |-> Up(S(p) + 1)[p]]
<1>2. \A m \in Nat : Has(Up(m), size, m) BY <1>1, SomeHas
<1>3. \A p \in Points : S(p) \in Nat BY SizeNat
<1> HIDE DEF Up
<1>4. \A p \in Points : F[p] = Up(S(p) + 1)[p] OBVIOUS
<1>5. DOMAIN F = Points OBVIOUS
<1>6. ASSUME NEW p \in Points PROVE F[p] = GoesOn(F, p) /\ F[p].count \in Nat
  <2> DEFINE P == Up(S(p) + 1)
             x == S(p)
  <2>1. x \in Nat /\ x + 1 \in Nat BY <1>3
  <2>2. Has(P, size, x + 1) BY <1>2, <2>1
  <2>3. P[p] = GoesOn(P, p) /\ P[p].count \in Nat
    <3>1. x < x + 1 BY <2>1
    <3> QED BY <2>2, <3>1 DEF Has
  <2>4. ASSUME NEW q \in Points, S(q) < x PROVE P[q] = F[q] /\ P[q].count \in Nat
    <3> DEFINE y == S(q)
               Q == Up(y + 1)
    <3>1. y \in Nat /\ y + 1 \in Nat BY <1>3
    <3>2. y < y + 1 /\ y + 1 <= x + 1 /\ y < x + 1
      <4> HIDE DEF x, y
      <4>1. y < x BY <2>4 DEF x, y
      <4> QED BY <2>1, <3>1, <4>1
    <3>3. Has(Q, size, y + 1) BY <1>2, <3>1
    <3>4. Q[q] = P[q]
      <4> HIDE DEF x, P, Q
      <4>1. \A r \in Points : Size(size, r) < y + 1 => Q[r] = P[r]
        <5> DEFINE a == y + 1  b == x + 1
        <5> HIDE DEF a, b
        <5>1. a \in Nat /\ b \in Nat /\ a <= b /\ Has(Q, size, a) /\ Has(P, size, b)
          BY <2>1, <2>2, <3>1, <3>2, <3>3 DEF a, b
        <5>2. \A r \in Points : Size(size, r) < a => Q[r] = P[r] BY <1>1, <5>1, HavesAgree
        <5> QED BY <5>2 DEF a
      <4> QED BY <3>2, <4>1
    <3>5. P[q].count \in Nat BY <2>2, <3>2 DEF Has
    <3> QED BY <1>4, <3>4, <3>5
  <2> HIDE DEF F
  <2>5. GoesOn(P, p) = GoesOn(F, p)
    <3> HIDE DEF P
    <3> QED BY <1>1, <2>4, GoesOnLocally
  <2>6. F[p] = P[p] BY <1>4
  <2> QED BY <2>3, <2>5, <2>6
<1>7. F = [p \in Points |-> GoesOn(F, p)]
  <2> DEFINE G == F
  <2>1. F = [p \in Points |-> F[p]] OBVIOUS
  <2> HIDE DEF F
  <2> QED BY <1>6, <2>1
<1>8. Plain = [p \in Points |-> GoesOn(Plain, p)]
  <2> HIDE DEF F
  <2>1. \E P : P = [p \in Points |-> GoesOn(P, p)] BY <1>7
  <2> QED BY <2>1 DEF Plain
<1>9. \A p \in Points : Plain[p] = GoesOn(Plain, p)
  <2> DEFINE P == Plain
  <2> HIDE DEF P
  <2>1. P = [p \in Points |-> GoesOn(P, p)] BY <1>8 DEF P
  <2>2. \A p \in Points : P[p] = GoesOn(P, p) BY <2>1
  <2> QED BY <2>2 DEF P
<1> DEFINE T == {i \in Nat : \A p \in Points : S(p) < i => Plain[p] = F[p]}
<1>10. 0 \in T BY <1>3
<1>11. ASSUME NEW i \in T PROVE i + 1 \in T
  <2> SUFFICES ASSUME NEW p \in Points, S(p) < i + 1 PROVE Plain[p] = F[p] OBVIOUS
  <2> DEFINE x == S(p)
  <2>1. x \in Nat BY <1>3
  <2>2. ASSUME NEW q \in Points, S(q) < x PROVE F[q] = Plain[q] /\ F[q].count \in Nat
    <3> DEFINE y == S(q)
    <3>1. y \in Nat BY <1>3
    <3> HIDE DEF x, y
    <3>2. y < x /\ x < i + 1 BY <2>2 DEF x, y
    <3>3. y < i BY <2>1, <3>1, <3>2
    <3> HIDE DEF F
    <3> QED BY <1>6, <3>3 DEF y
  <2> HIDE DEF F
  <2>3. GoesOn(F, p) = GoesOn(Plain, p) BY <1>1, <2>2, GoesOnLocally
  <2> QED BY <1>6, <1>9, <2>3
<1>12. ASSUME NEW p \in Points PROVE Plain[p] = F[p]
  <2> HIDE DEF T, F
  <2>1. T \in SUBSET Nat BY DEF T
  <2>2. T = Nat BY <1>10, <1>11, <2>1, Induction
  <2>3. S(p) + 1 \in T /\ S(p) < S(p) + 1 BY <1>3, <2>2
  <2> QED BY <2>3 DEF T
<1> QED
  <2> HIDE DEF F
  <2> QED BY <1>6, <1>9, <1>12

-----------------------------------------------------------------------------
(* What a script has to keep to: its functions have no effects, no two of its *)
(* arguments have one hash, and closures of one function captured the same.   *)
Pure ==
  /\ Ticks = {}
  /\ \A a, b \in Arguments : Hash(a) = Hash(b) => a = b
  /\ \A c, d \in Closures : FunctionOf[c] = FunctionOf[d] => Captured[c] = Captured[d]

(* The first k calls of a body, when there were no effects. *)
At(c, a, k) == [closure |-> c, argument |-> a, count |-> 0, calls |-> k]

(* The calls of a body are of closures with arguments. *)
LEMMA CallsOfType ==
  ASSUME NEW c \in Closures, NEW a \in Arguments
  PROVE  /\ CallsOf(c, a) \in Seq(Closures \X Arguments)
         /\ Len(CallsOf(c, a)) \in Nat
         /\ \A k \in 1..Len(CallsOf(c, a)) :
              CallsOf(c, a)[k][1] \in Closures /\ CallsOf(c, a)[k][2] \in Arguments
<1> DEFINE s == CallsOf(c, a)
<1>1. s \in Seq(Closures \X Arguments) BY FunctionCacheAssumption DEF CallsOf
<1> HIDE DEF s
<1>2. Len(s) \in Nat BY <1>1
<1>3. \A k \in 1..Len(s) : s[k] \in Closures \X Arguments BY <1>1
<1>4. \A k \in 1..Len(s) : s[k][1] \in Closures /\ s[k][2] \in Arguments BY <1>3
<1> QED BY <1>1, <1>2, <1>4 DEF s

(* Without effects there are none later. *)
LEMMA PlainCount ==
  ASSUME CallsEnd, Ticks = {}
  PROVE  \A p \in Points : Plain[p].count = p.count
<1>1. PICK size \in [Functions -> [Arguments -> [Nat -> Nat]]] : Sized(size) BY DEF CallsEnd
<1> DEFINE T == {i \in Nat : \A p \in Points : Size(size, p) < i => Plain[p].count = p.count}
<1>2. 0 \in T BY SizeNat
<1>3. ASSUME NEW i \in T PROVE i + 1 \in T
  <2> SUFFICES ASSUME NEW p \in Points, Size(size, p) < i + 1 PROVE Plain[p].count = p.count OBVIOUS
  <2> DEFINE x == Size(size, p)
  <2>1. x \in Nat BY SizeNat
  <2>2. ASSUME NEW q \in Points, Size(size, q) < x PROVE Plain[q].count = q.count
    <3> DEFINE y == Size(size, q)
    <3>1. y \in Nat BY SizeNat
    <3> HIDE DEF x, y
    <3>2. y < x /\ x < i + 1 BY <2>2 DEF x, y
    <3>3. y < i BY <2>1, <3>1, <3>2
    <3> QED BY <3>3 DEF y
  <2>3. Plain[p] = GoesOn(Plain, p) BY PlainIs
  <2>4. CASE p.calls \notin 1..Len(CallsOf(p.closure, p.argument)) BY <2>3, <2>4 DEF GoesOn
  <2>5. CASE p.calls \in 1..Len(CallsOf(p.closure, p.argument))
    <3> DEFINE b == Before(p)
               n == Plain[b].count
               w == WholeCall(CallAt(p)[1], CallAt(p)[2], n)
    <3>1. b \in Points /\ Size(size, b) < x /\ b.count = p.count
      <4>1. b \in Points /\ Size(size, b) < x BY <1>1, <2>5, PointsBefore
      <4> QED BY <4>1 DEF Before, Points
    <3>2. n = p.count /\ n \in Nat BY <2>2, <3>1, PlainIs
    <3>3. w \in Points /\ Size(size, w) < x
      <4> HIDE DEF n
      <4> QED BY <1>1, <2>5, <3>2, PointsBefore
    <3>4. Plain[w].count = n BY <2>2, <3>3 DEF WholeCall
    <3>5. Plain[p].count = Outcome(CallAt(p)[1], CallAt(p)[2], Plain[w].got, Plain[w].count).count
      BY <2>3, <2>5, GoesOnIs
    <3>6. Plain[p].count = Plain[w].count BY <3>5 DEF Outcome, After
    <3> QED BY <3>2, <3>4, <3>6
  <2> QED BY <2>4, <2>5
<1> QED
  <2> HIDE DEF T
  <2>1. T \in SUBSET Nat BY DEF T
  <2>2. T = Nat BY <1>2, <1>3, <2>1, Induction
  <2>3. \A p \in Points : Size(size, p) + 1 \in T /\ Size(size, p) < Size(size, p) + 1
    BY <2>2, SizeNat
  <2> QED BY <2>3 DEF T

(* A call's value. *)
LEMMA EvaluatedIs ==
  ASSUME CallsEnd, Ticks = {}, NEW c \in Closures, NEW a \in Arguments
  PROVE  Evaluated(c, a, 0) =
           [result |-> Result(c, a, Plain[At(c, a, Len(CallsOf(c, a)))].got, 0), count |-> 0]
<1>1. WholeCall(c, a, 0) = At(c, a, Len(CallsOf(c, a))) BY DEF WholeCall, At
<1>2. At(c, a, Len(CallsOf(c, a))) \in Points BY CallsOfType DEF At, Points
<1>3. Plain[At(c, a, Len(CallsOf(c, a)))].count = 0 BY <1>2, PlainCount DEF At
<1> QED BY <1>1, <1>3 DEF Evaluated, Outcome, After

(* What a body has got after its next call. *)
LEMMA PlainNext ==
  ASSUME CallsEnd, Ticks = {}, NEW c \in Closures, NEW a \in Arguments,
         NEW k \in 1..Len(CallsOf(c, a))
  PROVE  Plain[At(c, a, k)].got =
           LET call == CallsOf(c, a)[k] IN
           Append(Plain[At(c, a, k - 1)].got, Evaluated(call[1], call[2], 0).result)
<1> DEFINE p == At(c, a, k)
           call == CallsOf(c, a)[k]
           b == At(c, a, k - 1)
<1>1. k \in Nat /\ k - 1 \in Nat BY CallsOfType
<1>2. p \in Points /\ b \in Points BY <1>1 DEF At, Points
<1>3. Before(p) = b BY DEF At, Before
<1>4. Plain[b].count = 0 BY <1>2, PlainCount DEF At
<1>5. Plain[p] = GoesOn(Plain, p) BY <1>2, PlainIs
<1>6. p.calls \in 1..Len(CallsOf(p.closure, p.argument)) /\ CallAt(p) = call BY DEF At, CallAt
<1> HIDE DEF p, b, call
<1>7. Plain[p].got = Append(Plain[b].got,
        Outcome(call[1], call[2], Plain[WholeCall(call[1], call[2], 0)].got,
                Plain[WholeCall(call[1], call[2], 0)].count).result)
  BY <1>3, <1>4, <1>5, <1>6, GoesOnIs
<1> QED BY <1>7 DEF Evaluated, p, b, call

(* ... and before its first. *)
LEMMA PlainFirst ==
  ASSUME CallsEnd, NEW c \in Closures, NEW a \in Arguments
  PROVE  Plain[At(c, a, 0)].got = <<>>
<1>1. At(c, a, 0) \in Points BY DEF At, Points
<1>2. 0 \notin 1..Len(CallsOf(c, a)) BY CallsOfType
<1>3. Plain[At(c, a, 0)] = GoesOn(Plain, At(c, a, 0)) BY <1>1, PlainIs
<1> QED BY <1>2, <1>3 DEF GoesOn, At

(* Closures of one function give the same. *)
LEMMA SameFunction ==
  ASSUME CallsEnd, Pure, NEW c \in Closures, NEW d \in Closures, FunctionOf[c] = FunctionOf[d],
         NEW a \in Arguments
  PROVE  Evaluated(c, a, 0) = Evaluated(d, a, 0)
<1>1. Ticks = {} /\ Captured[c] = Captured[d] BY DEF Pure
<1>2. CallsOf(c, a) = CallsOf(d, a) BY DEF CallsOf
<1> DEFINE m == Len(CallsOf(c, a))
           T == {k \in Nat : k <= m => Plain[At(c, a, k)].got = Plain[At(d, a, k)].got}
<1>3. m \in Nat BY CallsOfType
<1>4. 0 \in T BY PlainFirst
<1>5. ASSUME NEW k \in T PROVE k + 1 \in T
  <2> SUFFICES ASSUME k + 1 <= m PROVE Plain[At(c, a, k + 1)].got = Plain[At(d, a, k + 1)].got OBVIOUS
  <2>1. k \in Nat /\ k + 1 \in 1..m /\ (k + 1) - 1 = k /\ k <= m BY <1>3
  <2> DEFINE j == k + 1
             call == CallsOf(c, a)[j]
  <2>2. j \in 1..Len(CallsOf(c, a)) /\ j \in 1..Len(CallsOf(d, a)) /\ j - 1 = k BY <1>2, <2>1
  <2> HIDE DEF j, m
  <2>3. Plain[At(c, a, j)].got = Append(Plain[At(c, a, j - 1)].got, Evaluated(call[1], call[2], 0).result)
    BY <1>1, <2>2, PlainNext
  <2>4. Plain[At(d, a, j)].got = Append(Plain[At(d, a, j - 1)].got, Evaluated(call[1], call[2], 0).result)
    BY <1>1, <1>2, <2>2, PlainNext
  <2>5. Plain[At(c, a, k)].got = Plain[At(d, a, k)].got BY <2>1
  <2>6. Plain[At(c, a, j)].got = Plain[At(d, a, j)].got BY <2>2, <2>3, <2>4, <2>5
  <2> QED BY <2>6 DEF j
<1>6. m \in T
  <2> HIDE DEF T, m
  <2>1. T \in SUBSET Nat BY DEF T
  <2>2. T = Nat BY <1>4, <1>5, <2>1, Induction
  <2> QED BY <1>3, <2>2
<1>7. Plain[At(c, a, m)].got = Plain[At(d, a, m)].got BY <1>3, <1>6
<1> DEFINE r(e) == Result(e, a, Plain[At(e, a, m)].got, 0)
<1>8. Evaluated(c, a, 0) = [result |-> r(c), count |-> 0] BY <1>1, EvaluatedIs
<1>9. Evaluated(d, a, 0) = [result |-> r(d), count |-> 0] BY <1>1, <1>2, EvaluatedIs
<1>10. r(c) = r(d) BY <1>1, <1>7 DEF Result
<1> QED BY <1>8, <1>9, <1>10

-----------------------------------------------------------------------------
(* Calls with caches *)

(* A frame has what its body has got without caches, and its function will *)
(* remember the result for its argument.                                    *)
Computes(F) ==
  /\ F.got = Plain[At(F.closure, F.argument, Len(F.got))].got
  /\ FunctionOf[F.closure] \notin Constructors => F.argumentsHash = Hash(F.argument)

(* The call whose result it gets next. *)
NextCall(F) == CallsOf(F.closure, F.argument)[Len(F.got) + 1]

(* The frames are of calls in calls, the first one of them with outcome e. *)
Chain(fs, e) ==
  /\ fs # <<>> => e = Evaluated(fs[1].closure, fs[1].argument, 0)
  /\ \A i \in 1..Len(fs) : Computes(fs[i])
  /\ \A i \in 1..Len(fs) : i # Len(fs) =>
       NextCall(fs[i])[1] = fs[i + 1].closure /\ NextCall(fs[i])[2] = fs[i + 1].argument

(* What is remembered is what the calls give. *)
Remembered(cs) ==
  \A f \in Functions \ Constructors, a \in Arguments, c \in Closures :
    FunctionOf[c] = f /\ Hash(a) \in DOMAIN cs[f] => cs[f][Hash(a)] = Evaluated(c, a, 0).result

(* The inductive invariant. *)
Faithful ==
  /\ Typed /\ count = 0 /\ expected.count = 0
  /\ Chain(frames, expected)
  /\ Remembered(caches)
  /\ Transparent

(* At first nothing was called. *)
LEMMA InitFaithful == ASSUME Init PROVE Faithful
<1>1. frames = <<>> /\ count = 0 /\ answer = Idle /\ expected = Idle
      /\ caches = [f \in Functions |-> <<>>] BY DEF Init
<1>2. Typed BY InitTyped
<1>3. Len(frames) = 0 BY <1>1
<1>4. Chain(frames, expected) BY <1>1, <1>3 DEF Chain
<1>5. \A f \in Functions : DOMAIN caches[f] = {} BY <1>1
<1>6. Remembered(caches) BY <1>5 DEF Remembered
<1> QED BY <1>1, <1>2, <1>4, <1>6 DEF Faithful, Transparent, Idle

(* A frame that has its next result goes on like its body without caches. *)
LEMMA OneMoreComputes ==
  ASSUME CallsEnd, Pure, NEW V, NEW F \in Frame(V), Computes(F), Awaits(F),
         Evaluated(NextCall(F)[1], NextCall(F)[2], 0).result \in V
  PROVE  Computes([F EXCEPT !.got = Append(@, Evaluated(NextCall(F)[1], NextCall(F)[2], 0).result)])
<1> DEFINE call == NextCall(F)
           r == Evaluated(call[1], call[2], 0).result
           G == [F EXCEPT !.got = Append(@, r)]
           k == Len(F.got)
           c == F.closure
           a == F.argument
<1>1. /\ G.closure = c /\ G.argument = a /\ G.argumentsHash = F.argumentsHash
      /\ G.got = Append(F.got, r) /\ Len(G.got) = k + 1
  BY OneMore
<1>2. c \in Closures /\ a \in Arguments /\ F.got \in Seq(V) BY DEF Frame
<1>3. k \in Nat /\ k + 1 \in 1..Len(CallsOf(c, a)) /\ (k + 1) - 1 = k
  <2>1. k \in Nat BY <1>2
  <2>2. Len(CallsOf(c, a)) \in Nat BY <1>2, CallsOfType
  <2>3. k < Len(CallsOf(c, a)) BY DEF Awaits
  <2> DEFINE n == Len(CallsOf(c, a))
  <2> HIDE DEF k, n
  <2> QED BY <2>1, <2>2, <2>3 DEF n
<1> DEFINE j == k + 1
<1>4. call = CallsOf(c, a)[j] BY DEF NextCall
<1>5. Plain[At(c, a, j)].got = Append(Plain[At(c, a, j - 1)].got, r)
  <2>1. j \in 1..Len(CallsOf(c, a)) BY <1>3
  <2> HIDE DEF j, call, c, a
  <2>2. Ticks = {} BY DEF Pure
  <2>3. c \in Closures /\ a \in Arguments BY <1>2
  <2>4. Plain[At(c, a, j)].got =
          Append(Plain[At(c, a, j - 1)].got,
                 Evaluated(CallsOf(c, a)[j][1], CallsOf(c, a)[j][2], 0).result)
    BY <2>1, <2>2, <2>3, PlainNext
  <2> QED BY <1>4, <2>4
<1>6. F.got = Plain[At(c, a, k)].got BY DEF Computes
<1>7. Plain[At(c, a, j)].got = G.got BY <1>1, <1>3, <1>5, <1>6
<1>8. FunctionOf[c] \notin Constructors => F.argumentsHash = Hash(a) BY DEF Computes
<1> QED
  <2> HIDE DEF G, c, a, r, k
  <2>1. Len(G.got) = j BY <1>1
  <2> HIDE DEF j
  <2>2. Computes(G) BY <1>1, <1>7, <1>8, <2>1 DEF Computes
  <2> QED BY <2>2 DEF G, r

(* A result goes to the frame that waits for it, or to the script. *)
LEMMA DeliveredFaithful ==
  ASSUME CallsEnd, Pure, NEW V, NEW below \in Seq(Frame(V)), NEW c, NEW a, NEW e, NEW n,
         Chain(below, e), NEW r, r = Evaluated(c, a, 0).result, Deliver(below, r, n),
         below # <<>> => /\ Awaits(below[Len(below)])
                         /\ NextCall(below[Len(below)])[1] = c
                         /\ NextCall(below[Len(below)])[2] = a,
         below = <<>> => e = [result |-> r, count |-> n]
  PROVE  Chain(frames', e) /\ (frames' = <<>> => answer' = e)
<1>3. PICK W :
        /\ r \in W
        /\ below \in Seq(Frame(W))
        /\ frames' \in Seq(Frame(W))
        /\ Len(frames') = Len(below)
        /\ \A i \in 1..Len(below) : i # Len(below) => frames'[i] = below[i]
        /\ below # <<>> => LET F == below[Len(below)] IN
             frames'[Len(below)] = [F EXCEPT !.got = Append(@, r)]
  BY DeliveredWider
<1>7. below = <<>> => answer' = [result |-> r, count |-> n] BY DEF Deliver
<1>4. CASE below = <<>>
  <2>1. Len(frames') = 0 /\ frames' = <<>> BY <1>3, <1>4
  <2> QED BY <1>4, <1>7, <2>1 DEF Chain
<1>5. CASE below # <<>>
  <2> DEFINE m == Len(below)
             F == below[m]
             G == [F EXCEPT !.got = Append(@, r)]
  <2>1. m \in Nat /\ m \in 1..m /\ 1 \in 1..m /\ frames' # <<>> BY <1>3, <1>5
  <2>2. F \in Frame(W) /\ Computes(F) /\ Awaits(F) /\ NextCall(F)[1] = c /\ NextCall(F)[2] = a
    BY <1>3, <1>5, <2>1 DEF Chain
  <2>3. frames'[m] = G BY <1>3, <1>5
  <2>4. Computes(G)
    <3>1. r = Evaluated(NextCall(F)[1], NextCall(F)[2], 0).result BY <2>2
    <3> HIDE DEF F
    <3>2. Evaluated(NextCall(F)[1], NextCall(F)[2], 0).result \in W BY <1>3, <3>1
    <3>3. Computes([F EXCEPT !.got = Append(@, Evaluated(NextCall(F)[1], NextCall(F)[2], 0).result)])
      BY <2>2, <3>2, OneMoreComputes
    <3> QED BY <3>1, <3>3
  <2>5. \A i \in 1..m : frames'[i].closure = below[i].closure /\ frames'[i].argument = below[i].argument
    <3> TAKE i \in 1..m
    <3>1. CASE i = m
      <4> HIDE DEF F
      <4>1. G.closure = F.closure /\ G.argument = F.argument BY <1>3, <2>2, OneMore
      <4> QED BY <2>3, <3>1, <4>1 DEF F
    <3>2. CASE i # m BY <1>3, <3>2
    <3> QED BY <3>1, <3>2
  <2> HIDE DEF G
  <2>6. \A i \in 1..m : Computes(frames'[i]) BY <1>3, <2>3, <2>4 DEF Chain
  <2>7. e = Evaluated(frames'[1].closure, frames'[1].argument, 0) BY <1>5, <2>1, <2>5 DEF Chain
  <2>8. ASSUME NEW i \in 1..m, i # m
        PROVE  /\ NextCall(frames'[i])[1] = frames'[i + 1].closure
               /\ NextCall(frames'[i])[2] = frames'[i + 1].argument
    <3>1. i + 1 \in 1..m BY <2>1, <2>8
    <3>2. frames'[i] = below[i] BY <1>3, <2>8
    <3> QED BY <2>5, <2>8, <3>1, <3>2 DEF Chain
  <2> QED BY <1>3, <2>1, <2>6, <2>7, <2>8 DEF Chain
<1> QED BY <1>4, <1>5

(* A call of the script or of the innermost body. *)
LEMMA CallFaithful ==
  ASSUME CallsEnd, Pure, Faithful, NEW c \in Closures, NEW a \in Arguments, Call(c, a), NEW e,
         Chain(frames, e),
         frames # <<>> => Awaits(Top) /\ NextCall(Top)[1] = c /\ NextCall(Top)[2] = a,
         frames = <<>> => e = Evaluated(c, a, 0)
  PROVE  Chain(frames', e) /\ (frames' = <<>> => answer' = e)
<1>1. PICK V : frames \in Seq(Frame(V)) BY DEF Faithful, Typed
<1> DEFINE f == FunctionOf[c]
           last == frames[Len(frames)]
<1>2. f \in Functions /\ Ticks = {} /\ count = 0 BY FunctionCacheAssumption DEF Pure, Faithful
<1>3. Evaluated(c, a, 0) = [result |-> Evaluated(c, a, 0).result, count |-> 0]
  <2>1. Evaluated(c, a, 0) =
          [result |-> Result(c, a, Plain[At(c, a, Len(CallsOf(c, a)))].got, 0), count |-> 0]
    BY <1>2, EvaluatedIs
  <2> QED BY <2>1
<1>4. frames # <<>> => Top = last BY <1>1, TopIs
<1>5. CASE /\ f \notin Constructors /\ Hash(a) \in DOMAIN caches[f]
           /\ Deliver(frames, caches[f][Hash(a)], count)
  <2> DEFINE r == caches[f][Hash(a)]
  <2>1. r = Evaluated(c, a, 0).result BY <1>2, <1>5 DEF Faithful, Remembered
  <2>2. frames # <<>> => Awaits(last) /\ NextCall(last)[1] = c /\ NextCall(last)[2] = a BY <1>4
  <2>3. frames = <<>> => e = [result |-> r, count |-> 0] BY <1>3, <2>1
  <2>4. Deliver(frames, r, 0) BY <1>2, <1>5
  <2> HIDE DEF r
  <2> QED BY <1>1, <2>1, <2>2, <2>3, <2>4, DeliveredFaithful
<1>6. ASSUME NEW hash \in Hashes,
             frames' = Append(frames, [closure |-> c, argument |-> a,
                                       argumentsHash |-> hash, got |-> <<>>]),
             f \notin Constructors => hash = Hash(a)
      PROVE  Chain(frames', e) /\ frames' # <<>>
  <2> DEFINE F == [closure |-> c, argument |-> a, argumentsHash |-> hash, got |-> <<>>]
             A == Frame(V)
             m == Len(frames)
  <2>1. F \in A /\ F.closure = c /\ F.argument = a /\ F.argumentsHash = hash
        /\ F.got = <<>> /\ Len(F.got) = 0
    BY DEF Frame
  <2>2. Computes(F)
    <3>1. Plain[At(c, a, 0)].got = <<>> BY PlainFirst
    <3> HIDE DEF F
    <3> QED BY <1>6, <2>1, <3>1 DEF Computes
  <2> HIDE DEF F, A
  <2>3. frames \in Seq(A) /\ frames' = Append(frames, F) BY <1>1, <1>6 DEF A, F
  <2>4. /\ m \in Nat /\ Len(frames') = m + 1 /\ frames'[m + 1] = F /\ frames' # <<>>
        /\ \A i \in 1..m : frames'[i] = frames[i]
    BY <2>1, <2>3, Appended
  <2>5. m > 0 <=> frames # <<>> BY <2>3
  <2> HIDE DEF m
  <2>6. e = Evaluated(frames'[1].closure, frames'[1].argument, 0)
    <3>1. CASE frames = <<>>
      <4>1. frames'[1] = F BY <2>4, <2>5, <3>1
      <4> QED BY <2>1, <3>1, <4>1
    <3>2. CASE frames # <<>>
      <4>1. frames'[1] = frames[1] BY <2>4, <2>5, <3>2
      <4> QED BY <3>2, <4>1 DEF Chain
    <3> QED BY <3>1, <3>2
  <2>7. ASSUME NEW i \in 1..Len(frames')
        PROVE  /\ Computes(frames'[i])
               /\ i # Len(frames') => /\ NextCall(frames'[i])[1] = frames'[i + 1].closure
                                      /\ NextCall(frames'[i])[2] = frames'[i + 1].argument
    <3>1. CASE i = m + 1 BY <2>2, <2>4, <3>1
    <3>2. CASE i \in 1..m /\ i # m
      <4>1. i + 1 \in 1..m BY <2>4, <3>2
      <4>2. frames'[i] = frames[i] /\ frames'[i + 1] = frames[i + 1] BY <2>4, <3>2, <4>1
      <4> QED BY <3>2, <4>2 DEF Chain, m
    <3>3. CASE i = m /\ m \in 1..m
      <4>1. frames'[i] = last /\ frames'[i + 1] = F BY <2>4, <3>3 DEF m
      <4>2. Computes(last) BY <3>3 DEF Chain, m
      <4>3. Top = last BY <1>4, <2>4, <2>5, <3>3
      <4> HIDE DEF last
      <4>4. NextCall(last)[1] = c /\ NextCall(last)[2] = a BY <2>4, <2>5, <3>3, <4>3
      <4> QED BY <2>1, <4>1, <4>2, <4>4
    <3>4. i = m + 1 \/ (i \in 1..m /\ i # m) \/ (i = m /\ m \in 1..m) BY <2>4
    <3> QED BY <3>1, <3>2, <3>3, <3>4
  <2> QED BY <2>4, <2>6, <2>7 DEF Chain
<1> QED BY <1>5, <1>6, CallCases

(* What OP_RETURN stores is what the call gives. *)
LEMMA ReturnRemembers ==
  ASSUME CallsEnd, Pure, Faithful, Return, Given.result = Evaluated(Top.closure, Top.argument, 0).result
  PROVE  Remembered(caches')
<1>1. PICK V : frames \in Seq(Frame(V)) BY DEF Faithful, Typed
<1>2. frames # <<>> /\ Typed BY DEF Return, Faithful
<1> DEFINE c == Top.closure
           a == Top.argument
           h == Top.argumentsHash
<1>3. c \in Closures /\ a \in Arguments /\ FunctionOf[c] \in Functions
  <2>1. Top \in Frame(V) /\ FunctionOf[c] \in Functions BY <1>1, <1>2, TopIs
  <2> QED BY <2>1 DEF Frame
<1>4. FunctionOf[c] \notin Constructors => h = Hash(a)
  <2>1. Top = frames[Len(frames)] /\ Len(frames) \in 1..Len(frames) BY <1>1, <1>2, TopIs
  <2>2. Computes(Top) BY <2>1 DEF Faithful, Chain
  <2> QED BY <2>2 DEF Computes
<1> SUFFICES ASSUME NEW f \in Functions \ Constructors, NEW b \in Arguments, NEW d \in Closures,
                    FunctionOf[d] = f, Hash(b) \in DOMAIN caches'[f]
             PROVE  caches'[f][Hash(b)] = Evaluated(d, b, 0).result
  BY DEF Remembered
<1>5. /\ f # FunctionOf[c] => caches'[f] = caches[f]
      /\ f = FunctionOf[c] =>
           /\ DOMAIN caches'[f] = DOMAIN caches[f] \cup {h}
           /\ caches'[f][h] = Given.result
           /\ \A x \in DOMAIN caches[f] : x # h => caches'[f][x] = caches[f][x]
  BY <1>2, ReturnCaches
<1>6. Hash(b) \in DOMAIN caches[f] => caches[f][Hash(b)] = Evaluated(d, b, 0).result
  BY DEF Faithful, Remembered
<1>7. CASE f # FunctionOf[c] BY <1>5, <1>6, <1>7
<1>8. CASE f = FunctionOf[c] /\ Hash(b) # h BY <1>5, <1>6, <1>8
<1>9. CASE f = FunctionOf[c] /\ Hash(b) = h
  <2>1. b = a BY <1>3, <1>4, <1>9 DEF Pure
  <2>2. Evaluated(c, a, 0) = Evaluated(d, a, 0) BY <1>3, <1>9, SameFunction
  <2> QED BY <1>5, <1>9, <2>1, <2>2
<1> QED BY <1>7, <1>8, <1>9

(* A return. *)
LEMMA ReturnFaithful ==
  ASSUME CallsEnd, Pure, Faithful, Return
  PROVE  /\ count' = 0 /\ Remembered(caches')
         /\ Chain(frames', expected) /\ (frames' = <<>> => answer' = expected)
<1>1. PICK V : frames \in Seq(Frame(V)) BY DEF Faithful, Typed
<1>2. /\ frames # <<>> /\ Len(Top.got) = Len(Calls) /\ count' = Given.count
      /\ Deliver(Front(frames), Given.result, Given.count)
  BY DEF Return
<1> DEFINE c == Top.closure
           a == Top.argument
           m == Len(frames)
<1>3. /\ Top = frames[m] /\ Top \in Frame(V) /\ Calls = CallsOf(c, a)
      /\ Front(frames) \in Seq(Frame(V))
      /\ Len(Front(frames)) = m - 1
      /\ \A i \in 1..m - 1 : Front(frames)[i] = frames[i]
      /\ m \in 1..m
  BY <1>1, <1>2, TopIs
<1>4. c \in Closures /\ a \in Arguments /\ Ticks = {} /\ count = 0
  BY <1>3 DEF Frame, Pure, Faithful
<1>5. Evaluated(c, a, 0) = [result |-> Given.result, count |-> 0] /\ Given.count = 0
  <2>1. Top.got = Plain[At(c, a, Len(CallsOf(c, a)))].got
    BY <1>2, <1>3 DEF Faithful, Chain, Computes
  <2>2. Evaluated(c, a, 0) =
          [result |-> Result(c, a, Plain[At(c, a, Len(CallsOf(c, a)))].got, 0), count |-> 0]
    BY <1>4, EvaluatedIs
  <2>3. Given = [result |-> Result(c, a, Top.got, 0), count |-> 0]
    BY <1>4 DEF Given, Outcome, After
  <2> QED BY <2>1, <2>2, <2>3
<1>6. Remembered(caches')
  <2>1. Given.result = Evaluated(c, a, 0).result BY <1>5
  <2> QED BY <2>1, ReturnRemembers
<1>7. PICK r : r = Given.result OBVIOUS
<1>8. PICK below : below = Front(frames) OBVIOUS
<1>9. below \in Seq(Frame(V)) /\ Deliver(below, r, 0) /\ r = Evaluated(c, a, 0).result
  BY <1>2, <1>3, <1>5, <1>7, <1>8
<1>10. m \in Nat /\ m - 1 \in Nat /\ (below # <<>> <=> m - 1 > 0)
  <2>1. m \in Nat /\ m - 1 \in Nat BY <1>1, <1>3
  <2>2. Len(below) = m - 1 BY <1>3, <1>8
  <2> QED BY <1>9, <2>1, <2>2
<1>11. Chain(below, expected)
  <2>1. \A i \in 1..m - 1 : i \in 1..m /\ below[i] = frames[i] BY <1>3, <1>8, <1>10
  <2>2. \A i \in 1..m - 1 : i # m - 1 => i + 1 \in 1..m - 1 /\ i # m BY <1>10
  <2>3. below # <<>> => 1 \in 1..m - 1 BY <1>10
  <2>4. Len(below) = m - 1 BY <1>3, <1>8
  <2>5. Chain(frames, expected) BY DEF Faithful
  <2>6. below # <<>> => expected = Evaluated(below[1].closure, below[1].argument, 0)
    BY <1>2, <2>1, <2>3, <2>5 DEF Chain
  <2>7. \A i \in 1..m - 1 : Computes(below[i]) BY <2>1, <2>5 DEF Chain
  <2>8. \A i \in 1..m - 1 : i # m - 1 =>
          NextCall(below[i])[1] = below[i + 1].closure /\ NextCall(below[i])[2] = below[i + 1].argument
    BY <2>1, <2>2, <2>5 DEF Chain
  <2> QED BY <2>4, <2>6, <2>7, <2>8 DEF Chain
<1>12. below # <<>> => /\ Awaits(below[Len(below)])
                       /\ NextCall(below[Len(below)])[1] = c
                       /\ NextCall(below[Len(below)])[2] = a
  <2> SUFFICES ASSUME below # <<>> PROVE /\ Awaits(frames[m - 1])
                                         /\ NextCall(frames[m - 1])[1] = frames[m].closure
                                         /\ NextCall(frames[m - 1])[2] = frames[m].argument
    <3>1. below # <<>> => m - 1 \in 1..m - 1 BY <1>10
    <3> QED BY <1>3, <1>8, <1>10, <3>1
  <2> DEFINE k == m - 1
  <2>1. k \in 1..m /\ k # m /\ k + 1 = m
    <3> HIDE DEF m
    <3> QED BY <1>10
  <2>2. Awaits(frames[k]) BY <2>1 DEF Faithful, Typed
  <2>3. NextCall(frames[k])[1] = frames[k + 1].closure /\ NextCall(frames[k])[2] = frames[k + 1].argument
    BY <2>1 DEF Faithful, Chain
  <2> QED BY <2>1, <2>2, <2>3
<1>13. below = <<>> => expected = [result |-> r, count |-> 0]
  <2>1. below = <<>> => m = 1
    <3>1. m \in Nat /\ m # 0 BY <1>3, <1>10
    <3> HIDE DEF m
    <3> QED BY <1>10, <3>1
  <2>2. expected = Evaluated(frames[1].closure, frames[1].argument, 0) BY <1>2 DEF Faithful, Chain
  <2> QED BY <1>3, <1>5, <1>7, <2>1, <2>2
<1>14. Chain(frames', expected) /\ (frames' = <<>> => answer' = expected)
  <2> HIDE DEF c, a
  <2> QED BY <1>9, <1>11, <1>12, <1>13, DeliveredFaithful
<1> QED BY <1>2, <1>5, <1>6, <1>14

(* Every step keeps the frames and the caches faithful. *)
LEMMA StepFaithful == ASSUME CallsEnd, Pure, Faithful, [Next]_vars PROVE Faithful'
<1>1. PICK V : frames \in Seq(Frame(V)) BY DEF Faithful, Typed
<1>2. Typed' BY StepTyped DEF Faithful
<1>3. ASSUME NEW c \in Closures, NEW a \in Arguments, ScriptCall(c, a) PROVE Faithful'
  <2>1. frames = <<>> /\ Call(c, a) /\ expected' = Evaluated(c, a, 0)
    BY <1>3 DEF ScriptCall, Faithful
  <2>2. UNCHANGED <<caches, count>> BY <2>1, CallCases
  <2>3. Ticks = {} BY DEF Pure
  <2>4. expected'.count = 0
    <3>1. Evaluated(c, a, 0) =
            [result |-> Result(c, a, Plain[At(c, a, Len(CallsOf(c, a)))].got, 0), count |-> 0]
      BY <2>3, EvaluatedIs
    <3> QED BY <2>1, <3>1
  <2>5. PICK e : e = Evaluated(c, a, 0) OBVIOUS
  <2>6. Chain(frames, e) BY <2>1 DEF Chain
  <2>7. Chain(frames', e) /\ (frames' = <<>> => answer' = e) BY <2>1, <2>5, <2>6, CallFaithful
  <2>8. Chain(frames', expected') /\ (frames' = <<>> => answer' = expected') BY <2>1, <2>5, <2>7
  <2>9. Remembered(caches') BY <2>2 DEF Faithful
  <2> QED BY <1>2, <2>2, <2>4, <2>8, <2>9 DEF Faithful, Transparent
<1>4. CASE BodyCall
  <2>1. frames # <<>> /\ Len(Top.got) < Len(Calls) /\ expected' = expected BY <1>4 DEF BodyCall
  <2> DEFINE next == Calls[Len(Top.got) + 1]
  <2>2. Call(next[1], next[2]) BY <1>4 DEF BodyCall
  <2>3. Calls \in Seq(Closures \X Arguments) /\ Top \in Frame(V) /\ Calls = CallsOf(Top.closure, Top.argument)
    BY <1>1, <2>1, TopIs
  <2>4. next[1] \in Closures /\ next[2] \in Arguments
    <3>1. Len(Top.got) \in Nat BY <2>3 DEF Frame
    <3>2. Len(Top.got) + 1 \in 1..Len(Calls) BY <2>1, <2>3, <3>1
    <3>3. next \in Closures \X Arguments BY <2>3, <3>2
    <3> QED BY <3>3
  <2>5. Awaits(Top) /\ NextCall(Top) = next BY <2>1, <2>3 DEF Awaits, NextCall
  <2> HIDE DEF next
  <2>6. UNCHANGED <<caches, count>> BY <2>2, <2>4, CallCases
  <2>7. Chain(frames, expected) /\ expected.count = 0 BY DEF Faithful
  <2>8. PICK e : e = expected OBVIOUS
  <2>9. Chain(frames', e) /\ (frames' = <<>> => answer' = e)
    BY <2>1, <2>2, <2>4, <2>5, <2>7, <2>8, CallFaithful
  <2>10. Remembered(caches') BY <2>6 DEF Faithful
  <2> QED BY <1>2, <2>1, <2>6, <2>7, <2>8, <2>9, <2>10 DEF Faithful, Transparent
<1>5. CASE Return
  <2>1. expected' = expected BY <1>5 DEF Return
  <2>2. /\ count' = 0 /\ Remembered(caches')
        /\ Chain(frames', expected) /\ (frames' = <<>> => answer' = expected)
    BY <1>5, ReturnFaithful
  <2> QED BY <1>2, <2>1, <2>2 DEF Faithful, Transparent
<1>6. CASE UNCHANGED vars BY <1>2, <1>6 DEF vars, Faithful, Transparent
<1> QED BY <1>3, <1>4, <1>5, <1>6 DEF Next

(* The caches of functions that depend on their arguments alone are not     *)
(* seen: every call of a script gives what it gives without caches, whatever*)
(* the bodies call and however deep (OP_CALL and OP_RETURN).                 *)
THEOREM AlwaysTransparent ==
  ASSUME CallsEnd, Pure
  PROVE  Spec => []Transparent
<1>1. Init => Faithful BY InitFaithful
<1>2. Faithful /\ [Next]_vars => Faithful' BY StepFaithful
<1>3. Faithful => Transparent BY DEF Faithful
<1> QED BY <1>1, <1>2, <1>3, PTL DEF Spec
=============================================================================

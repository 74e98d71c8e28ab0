---------------------------- MODULE FunctionCache ----------------------------
(***************************************************************************)
(* Calls that remember their results (CYS_FUNCTION_CACHE_OPT).             *)
(*                                                                         *)
(* OP_CALL looks a call up in the caches of the callee's FunctionObject    *)
(* under the hash of its arguments, and OP_RETURN stores the results there *)
(* under the hash its frame was given at the call.  Here a script makes    *)
(* calls whose bodies make calls; the same calls are also evaluated        *)
(* without caches, to compare.                                             *)
(***************************************************************************)
EXTENDS Naturals, Sequences, SequencesExt

CONSTANTS
  Functions,     \* the FunctionObjects
  Constructors,  \* those of them that only a class calls
  Closures,      \* what a script calls
  FunctionOf,    \* ClosureObject::function
  Captured,      \* what a closure has captured, or has as its receiver
  Arguments,     \* values a call can be given, records [kind, data]
  Body,          \* Body[f][a]: the calls <<closure, argument>> f makes, in order
  Hash(_),       \* HashValueList, of the one argument
  Ticks,         \* functions with an effect: they make an object, or assign
  Reads,         \* functions that see such effects
  MaxTicks       \* bound on the effects

None == "none"
Idle == [result |-> None, count |-> 0]

ASSUME FunctionCacheAssumption ==
  /\ Constructors \cup Ticks \cup Reads \subseteq Functions
  /\ FunctionOf \in [Closures -> Functions]
  /\ Body \in [Functions -> [Arguments -> Seq(Closures \X Arguments)]]
  /\ MaxTicks \in Nat

VARIABLES
  caches,   \* FunctionObject::caches
  frames,   \* the calls in progress, the innermost last
  count,    \* how many effects there were
  answer,   \* what the script's last call gave and left
  expected  \* what it would have given and left without caches

vars == <<caches, frames, count, answer, expected>>

Hashes == {Hash(a) : a \in Arguments}

(* The calls the body of c makes when it is given a. *)
CallsOf(c, a) == Body[FunctionOf[c]][a]

TypeOK ==
  /\ \A f \in Functions : DOMAIN caches[f] \subseteq Hashes
  /\ \A i \in DOMAIN frames :
       LET F == frames[i] IN
         /\ F.closure \in Closures /\ F.argument \in Arguments /\ F.argumentsHash \in Hashes
         /\ Len(F.got) <= Len(CallsOf(F.closure, F.argument))
  /\ count \in Nat

Init ==
  /\ caches = [f \in Functions |-> <<>>]
  /\ frames = <<>>
  /\ count = 0
  /\ answer = Idle /\ expected = Idle

(* What a body computes from what it was given, got and sees. *)
Result(c, a, got, n) ==
  [function |-> FunctionOf[c], captured |-> Captured[c], argument |-> a, got |-> got,
   sees |-> IF FunctionOf[c] \in Ticks \cup Reads THEN n ELSE 0]

After(c, n) == IF FunctionOf[c] \in Ticks THEN n + 1 ELSE n

(* What a call gives and leaves whose body got these results and left n. *)
Outcome(c, a, got, n) ==
  [result |-> Result(c, a, got, After(c, n)), count |-> After(c, n)]

(* A call without caches, begun when there were so many effects, of whose   *)
(* body so many calls were made.                                            *)
Points == [closure : Closures, argument : Arguments, count : Nat, calls : Nat]

WholeCall(c, a, n) == [closure |-> c, argument |-> a, count |-> n, calls |-> Len(CallsOf(c, a))]

(* What its body has got there, and the number of effects, if P has that of *)
(* what comes before and is inside.                                         *)
GoesOn(P, p) ==
  IF p.calls \notin 1..Len(CallsOf(p.closure, p.argument))
    THEN [got |-> <<>>, count |-> p.count]
    ELSE LET call == CallsOf(p.closure, p.argument)[p.calls]
             before == P[[p EXCEPT !.calls = @ - 1]]
             inner == P[WholeCall(call[1], call[2], before.count)]
             one == Outcome(call[1], call[2], inner.got, inner.count)
         IN [got |-> Append(before.got, one.result), count |-> one.count]

Plain[p \in Points] == GoesOn(Plain, p)

(* A call without caches. *)
Evaluated(c, a, n) ==
  LET done == Plain[WholeCall(c, a, n)]
  IN Outcome(c, a, done.got, done.count)

-----------------------------------------------------------------------------
(* A call gives its caller r, and leaves n effects. *)
Deliver(below, r, n) ==
  IF below = <<>>
    THEN frames' = <<>> /\ answer' = [result |-> r, count |-> n]
    ELSE /\ frames' = [below EXCEPT ![Len(below)].got = Append(@, r)]
         /\ UNCHANGED answer

(* OP_CALL: a remembered result, or a new frame.  The frame of a constructor *)
(* is made without a hash: it has whatever was there.                        *)
Call(c, a) ==
  LET f == FunctionOf[c]
      h == Hash(a)
      Frame(hash) == [closure |-> c, argument |-> a, argumentsHash |-> hash, got |-> <<>>]
  IN \/ /\ f \notin Constructors /\ h \in DOMAIN caches[f]
        /\ Deliver(frames, caches[f][h], count)
        /\ UNCHANGED <<caches, count>>
     \/ /\ f \notin Constructors /\ h \notin DOMAIN caches[f]
        /\ frames' = Append(frames, Frame(h))
        /\ UNCHANGED <<caches, count, answer>>
     \/ /\ f \in Constructors
        /\ \E hash \in Hashes : frames' = Append(frames, Frame(hash))
        /\ UNCHANGED <<caches, count, answer>>

(* The script makes a call. *)
ScriptCall(c, a) ==
  /\ frames = <<>>
  /\ Evaluated(c, a, expected.count).count <= MaxTicks
  /\ expected' = Evaluated(c, a, expected.count)
  /\ Call(c, a)

Top == Last(frames)
Calls == CallsOf(Top.closure, Top.argument)
Given == Outcome(Top.closure, Top.argument, Top.got, count)

(* The body of the innermost call makes its next call. *)
BodyCall ==
  /\ frames # <<>> /\ Len(Top.got) < Len(Calls)
  /\ LET next == Calls[Len(Top.got) + 1] IN Call(next[1], next[2])
  /\ UNCHANGED expected

(* FunctionObject::SetCache *)
SetCache(cache, hash, r) ==
  [h \in DOMAIN cache \cup {hash} |-> IF h = hash THEN r ELSE cache[h]]

(* Mutant: the result is stored for the function that gets it. *)
RememberCaller(r) ==
  LET i == IF Len(frames) > 1 THEN Len(frames) - 1 ELSE Len(frames)
      f == FunctionOf[frames[i].closure]
  IN caches' = [caches EXCEPT ![f] = SetCache(@, Top.argumentsHash, r)]

(* The function that returns. *)
Remember(r) ==
  caches' = [caches EXCEPT ![FunctionOf[Top.closure]] = SetCache(@, Top.argumentsHash, r)]

(* Mutant: the frame stays. *)
ReturnStays ==
  /\ frames # <<>> /\ Len(Top.got) = Len(Calls)
  /\ count' = Given.count
  /\ Remember(Given.result)
  /\ Deliver(frames, Given.result, Given.count)
  /\ UNCHANGED expected

(* OP_RETURN *)
Return ==
  /\ frames # <<>> /\ Len(Top.got) = Len(Calls)
  /\ count' = Given.count
  /\ Remember(Given.result)
  /\ Deliver(Front(frames), Given.result, Given.count)
  /\ UNCHANGED expected

Next ==
  \/ \E c \in Closures, a \in Arguments : ScriptCall(c, a)
  \/ BodyCall
  \/ Return

Spec == Init /\ [][Next]_vars

-----------------------------------------------------------------------------
(* Properties *)

(* The option is one of speed: a script's call gives what it would give      *)
(* without caches, and has the same effects (OP_CALL and OP_RETURN under     *)
(* CYS_FUNCTION_CACHE_OPT, CMakeLists.txt:23).                               *)
Transparent == frames = <<>> => answer = expected
=============================================================================

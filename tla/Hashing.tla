------------------------------- MODULE Hashing -------------------------------
(* The hash of one value, by which functions remember results.              *)
EXTENDS Naturals, Bitwise

(* Value::kind *)
Kind == [nil |-> 0, int |-> 1, real |-> 2, bool |-> 3, object |-> 4]

(* HashValueList of one value adds a constant to this.  A null hashes as its *)
(* kind alone.                                                              *)
ValueHash(a) == IF a.kind = "nil" THEN Kind.nil ELSE Kind[a.kind] ^^ a.data
=============================================================================

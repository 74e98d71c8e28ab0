----------------------------- MODULE MCUpValues -----------------------------
(* Small instances of UpValues. *)
EXTENDS UpValues

CONSTANTS u1, u2, u3, k1, k2, k3, a, b, none
=============================================================================

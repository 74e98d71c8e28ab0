------------------------------ MODULE MCScopes ------------------------------
(* Small instances of Scopes. *)
EXTENDS Scopes

CONSTANTS io, x, none

OneLibrary == <<io>>
=============================================================================

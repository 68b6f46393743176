------------------------------ MODULE MCClient ------------------------------
(* Two calls at a time; the user is moved between roles and grants. *)
EXTENDS Client

CONSTANTS c1, c2

Defaults(role) == [role |-> role, grants |-> {}]

MCProfile == {Defaults("CEO"), Defaults("ACCOUNTANT")}
=============================================================================

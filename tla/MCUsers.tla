------------------------------ MODULE MCUsers ------------------------------
(* Two requests at a time, two accounts. *)
EXTENDS Users, TLC

CONSTANTS w1, w2, u1, u2, a1, a2, s1, s2

Symmetry == Permutations(Worker) \cup Permutations(User) \cup Permutations(Secret)
=============================================================================

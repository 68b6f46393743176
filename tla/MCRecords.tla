----------------------------- MODULE MCRecords -----------------------------
(* Two records of each kind, two texts that tell versions of a record      *)
(* apart and one login or assignee.                                        *)
EXTENDS Records, TLC

CONSTANTS r1, r2, n1, n2, u1

Symmetry == Permutations(Record) \cup Permutations(Name)
=============================================================================

---------------------------- MODULE MCAuditChain ----------------------------
(* A small pool; digests are taken as free of collisions. *)
EXTENDS AuditChain, TLC

CONSTANTS c1, c2, u1, u2

MCHash(h, m) == <<h, m>>
MCGenesis    == << >>
MCZoneOf     == [c \in Conn |-> "server"]

Symmetry == Permutations(Conn) \cup Permutations(User)
==============================================================================

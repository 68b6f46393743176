------------------------------ MODULE MCLedger ------------------------------
(* Small instances of Ledger: account 1 is cash (an asset), 2 an income, 3 an *)
(* expense and 4 retained earnings, 5 the profit-and-loss summary account.   *)
EXTENDS Ledger, TLC

CONSTANTS e1, e2, e3

MCPeriodOf == (10 :> 1) @@ (20 :> 2) @@ (30 :> None)
MCEndOf    == (1 :> 10) @@ (2 :> 20)

Leg(a, d, c) == [account |-> a, debit |-> d, credit |-> c]

Sale     == << Leg(1, 2, 0), Leg(2, 0, 2) >>
Cost     == << Leg(3, 1, 0), Leg(1, 0, 1) >>
Lopsided == << Leg(1, 2, 0), Leg(2, 0, 1) >>
Zero     == << Leg(1, 0, 0), Leg(2, 0, 0) >>

MCDto == {Sale, Cost, Lopsided, Zero}

Symmetry == Permutations(Entry)
==============================================================================

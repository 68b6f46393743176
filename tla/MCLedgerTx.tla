----------------------------- MODULE MCLedgerTx -----------------------------
(* Small instances of LedgerTx.  Accounts as in MCLedger. *)
EXTENDS LedgerTx, TLC

CONSTANTS e1, e2, e3, p1, p2, p3

MCPeriodOf == 10 :> 1
MCEndOf    == 1 :> 10

Leg(a, d, c) == [account |-> a, debit |-> d, credit |-> c]

Sale == << Leg(1, 1, 0), Leg(2, 0, 1) >>
Back == << Leg(2, 1, 0), Leg(1, 0, 1) >>

MCSale == {Sale}
MCBoth == {Sale, Back}

Symmetry == Permutations(Entry) \cup Permutations(Proc)
==============================================================================

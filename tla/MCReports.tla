----------------------------- MODULE MCReports -----------------------------
(* Reports over a chart of nine accounts: 1 cash, 2 income, 3 expense,     *)
(* 4 retained earnings, 5 profit-and-loss summary, 6 a payable, and three  *)
(* the balance sheet misreads: 7 a contra asset (accumulated depreciation),*)
(* 8 drawings, 9 a loan that has no parent account.                        *)
EXTENDS Reports, TLC

CONSTANTS e1, e2, e3, e4

MCPeriodOf == (10 :> 1) @@ (20 :> 2)
MCEndOf    == (1 :> 10) @@ (2 :> 20)

Leg(a, d, c) == [account |-> a, debit |-> d, credit |-> c]

Sale == << Leg(1, 3, 0), Leg(2, 0, 3) >>
Bill == << Leg(3, 2, 0), Leg(1, 0, 1), Leg(6, 0, 1) >>

\* A year end: the bill, depreciation, and drawings paid from the loan.
YearEnd == << Leg(3, 3, 0), Leg(1, 0, 1), Leg(6, 0, 1), Leg(7, 0, 1),
              Leg(8, 3, 0), Leg(9, 0, 3) >>

\* Rejected by assertBalanced.
Lopsided == << Leg(1, 2, 0), Leg(2, 0, 1) >>

MCDto == {Sale, YearEnd, Lopsided}

\* Only accounts that are listed on the side of their type.
PlainDto == {Sale, Bill, Lopsided}

Symmetry == Permutations(Entry)
==============================================================================

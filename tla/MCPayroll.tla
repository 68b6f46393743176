----------------------------- MODULE MCPayroll -----------------------------
(* Two requests at a time, two runs and two people with salaries that the *)
(* percentages do not divide.                                              *)
EXTENDS Payroll, TLC

CONSTANTS w1, w2, r1, r2, c1, c2, p1, p2

MCPercent ==
  {[tax |-> 10, insurance |-> 7], [tax |-> 50, insurance |-> 49], [tax |-> 100, insurance |-> 0]}

Symmetry == Permutations(Worker) \cup Permutations(Run) \cup Permutations(Period)
            \cup Permutations(Person)
=============================================================================

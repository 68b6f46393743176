------------------------------ MODULE Payroll ------------------------------
(***************************************************************************)
(* Payroll runs: createRun copies the salaries of the active personnel     *)
(* into payslips, postRun books the sums of the payslips, while others     *)
(* hire, dismiss and change salaries and while requests fail or crash.     *)
(* A transaction runs one statement per step at READ COMMITTED; what it    *)
(* wrote is visible when it commits.  Ledger and LedgerTx have the journal *)
(* itself: here posting an entry succeeds, or fails and rolls back.        *)
(* Bounds: the runs, personnel, salaries, percentages of the constants.    *)
(***************************************************************************)
EXTENDS Integers, FiniteSets, Functions

CONSTANTS
  Worker,   \* requests served at the same time (bound)
  Run,      \* ids of runs (bound)
  Period,   \* period codes
  Person,   \* personnel records
  Salary,   \* base salaries, in rial (bound)
  Percent,  \* pairs of percentages, of tax and of insurance (bound)
  None

ASSUME PayrollAssumption ==
  /\ Salary \subseteq Nat /\ IsFiniteSet(Person)
  /\ None \notin Worker \cup Run
  /\ \A p \in Percent : p.tax \in 0..100 /\ p.insurance \in 0..100

VARIABLES
  staff,   \* personnel: base salary, and active: status ACTIVE and not deleted
  runs,    \* payroll_runs with their payslips, as committed
  books,   \* the journal entries that were posted for runs
  locks,   \* who holds the row lock of a run
  work     \* the requests under way

vars == <<staff, runs, books, locks, work>>

NoRun  == [st |-> "none", period |-> None, slips |-> {}, net |-> 0, entry |-> None]
NoWork == [pc |-> "idle", run |-> None, period |-> None, pct |-> None, slips |-> {}, net |-> 0]

Init ==
  /\ staff \in [Person -> [salary : Salary, active : BOOLEAN]]
  /\ runs = [r \in Run |-> NoRun] /\ books = {}
  /\ locks = [r \in Run |-> None] /\ work = [w \in Worker |-> NoWork]

-----------------------------------------------------------------------------
(* Payslips.                                                               *)

\* Who gets a payslip.
Payable == {p \in Person : staff[p].active /\ staff[p].salary > 0}

\* Faulty: the deductions are rounded up.
RoundedUp(salary, pct) == (salary * pct + 99) \div 100

\* trunc of a percentage.
Deduction(salary, pct) == (salary * pct) \div 100

Payslip(p, pct) ==
  LET base == staff[p].salary
      tax  == Deduction(base, pct.tax)
      ins  == Deduction(base, pct.insurance)
  IN  [person |-> p, base |-> base, tax |-> tax, insurance |-> ins,
       net |-> base - tax - ins, pct |-> pct]

Gross(slips)     == SumFunction([s \in slips |-> s.base])
Net(slips)       == SumFunction([s \in slips |-> s.net])
Tax(slips)       == SumFunction([s \in slips |-> s.tax])
Insurance(slips) == SumFunction([s \in slips |-> s.insurance])

\* The lines that postRun writes: tax and insurance only when there are any.
Lines(slips) ==
  {[account |-> "5010", debit |-> Gross(slips), credit |-> 0],
   [account |-> "2020", debit |-> 0, credit |-> Net(slips)]}
  \cup (IF Tax(slips) > 0 THEN {[account |-> "2050", debit |-> 0, credit |-> Tax(slips)]} ELSE {})
  \cup (IF Insurance(slips) > 0
        THEN {[account |-> "2040", debit |-> 0, credit |-> Insurance(slips)]} ELSE {})

\* A line has one positive side, and debits and credits agree.
OneSided(l)     == (l.debit > 0 /\ l.credit = 0) \/ (l.credit > 0 /\ l.debit = 0)
Balanced(lines) == SumFunction([l \in lines |-> l.debit]) = SumFunction([l \in lines |-> l.credit])
Accepted(lines) == (\A l \in lines : OneSided(l)) /\ Balanced(lines)

-----------------------------------------------------------------------------
(* Personnel, as far as payroll reads it.                                  *)

ChangeStaff ==
  /\ \E p \in Person : staff' \in {[staff EXCEPT ![p] = x] : x \in [salary : Salary, active : BOOLEAN]}
  /\ UNCHANGED <<runs, books, locks, work>>

-----------------------------------------------------------------------------
(* createRun.                                                              *)

Goto(w, pc) == work' = [work EXCEPT ![w].pc = pc]

\* The number of active personnel is read before the transaction.
CountActive(w) ==
  /\ work[w] = NoWork /\ Payable # {}
  /\ \E c \in Period, pct \in Percent :
       work' = [work EXCEPT ![w] = [NoWork EXCEPT !.pc = "check", !.period = c, !.pct = pct]]
  /\ UNCHANGED <<staff, runs, books, locks>>

Of(c) == {r \in Run : runs[r].st # "none" /\ runs[r].period = c}

CheckPeriod(w) ==
  /\ work[w].pc = "check"
  /\ work' = [work EXCEPT ![w] = IF Of(work[w].period) # {} THEN NoWork
                                 ELSE [@ EXCEPT !.pc = "insert"]]
  /\ UNCHANGED <<staff, runs, books, locks>>

\* The runs that transactions under way have inserted.
Inserted(c) == {w \in Worker : work[w].run # None /\ work[w].period = c
                                /\ work[w].pc \in {"slips", "total", "commit"}}

\* Faulty: the check alone keeps the periods apart.
NoIndex(c) == TRUE

\* uq_payroll_period waits for a transaction that inserted the same period.
IndexFree(c) == Inserted(c) = {}

InsertRun(w) ==
  /\ work[w].pc = "insert" /\ IndexFree(work[w].period)
  /\ IF Of(work[w].period) # {}
     THEN work' = [work EXCEPT ![w] = NoWork]
     ELSE \E r \in Run :
            /\ runs[r].st = "none" /\ \A v \in Worker : work[v].run # r
            /\ work' = [work EXCEPT ![w].pc = "slips", ![w].run = r]
  /\ UNCHANGED <<staff, runs, books, locks>>

\* One statement reads the personnel and writes a payslip for each.
InsertPayslips(w) ==
  /\ work[w].pc = "slips"
  /\ work' = [work EXCEPT ![w].pc = "total",
                          ![w].slips = {Payslip(p, work[w].pct) : p \in Payable}]
  /\ UNCHANGED <<staff, runs, books, locks>>

\* Faulty: the total is computed from the personnel.
TotalFromStaff(w) ==
  /\ work[w].pc = "total"
  /\ work' = [work EXCEPT ![w].pc = "commit",
                          ![w].net = Net({Payslip(p, work[w].pct) : p \in Payable})]
  /\ UNCHANGED <<staff, runs, books, locks>>

SetTotal(w) ==
  /\ work[w].pc = "total"
  /\ work' = [work EXCEPT ![w].pc = "commit", ![w].net = Net(work[w].slips)]
  /\ UNCHANGED <<staff, runs, books, locks>>

CommitRun(w) ==
  /\ work[w].pc = "commit"
  /\ runs' = [runs EXCEPT ![work[w].run] =
       [st |-> "DRAFT", period |-> work[w].period, slips |-> work[w].slips,
        net |-> work[w].net, entry |-> None]]
  /\ work' = [work EXCEPT ![w] = NoWork]
  /\ UNCHANGED <<staff, books, locks>>

-----------------------------------------------------------------------------
(* postRun.                                                                *)

\* Faulty: the run is read without locking it.
ReadRun(w, r) ==
  /\ work[w] = NoWork /\ runs[r].st = "DRAFT"
  /\ work' = [work EXCEPT ![w] = [NoWork EXCEPT !.pc = "post", !.run = r]]
  /\ UNCHANGED <<staff, runs, books, locks>>

\* SELECT ... FOR UPDATE: waits for the lock and sees the latest status.
LockRun(w, r) ==
  /\ work[w] = NoWork /\ runs[r].st = "DRAFT" /\ locks[r] = None
  /\ locks' = [locks EXCEPT ![r] = w]
  /\ work' = [work EXCEPT ![w] = [NoWork EXCEPT !.pc = "post", !.run = r]]
  /\ UNCHANGED <<staff, runs, books>>

Unlocked(w) == [r \in Run |-> IF locks[r] = w THEN None ELSE locks[r]]

\* The entry is written and posted and the run marked, in one transaction.
PostRun(w) ==
  /\ work[w].pc = "post"
  /\ LET r == work[w].run  lines == Lines(runs[r].slips) IN
       /\ Gross(runs[r].slips) # 0 /\ Accepted(lines)
       /\ LET e == Cardinality(books) + 1 IN
            /\ books' = books \cup {[no |-> e, run |-> r, lines |-> lines]}
            /\ runs' = [runs EXCEPT ![r].st = "POSTED", ![r].entry = e]
  /\ work' = [work EXCEPT ![w] = NoWork] /\ locks' = Unlocked(w)
  /\ UNCHANGED staff

\* A refused statement, a missing account, a closed period, or a crash.
Rollback(w) ==
  /\ work[w] # NoWork /\ work' = [work EXCEPT ![w] = NoWork] /\ locks' = Unlocked(w)
  /\ UNCHANGED <<staff, runs, books>>

-----------------------------------------------------------------------------
Next ==
  \/ ChangeStaff
  \/ \E w \in Worker :
       \/ CountActive(w) \/ CheckPeriod(w) \/ InsertRun(w) \/ InsertPayslips(w) \/ SetTotal(w)
       \/ CommitRun(w) \/ PostRun(w) \/ Rollback(w)
       \/ \E r \in Run : LockRun(w, r)

Spec == Init /\ [][Next]_vars

-----------------------------------------------------------------------------
(* Properties.                                                             *)

EntriesOf(r) == {e \in books : e.run = r}

TypeOK ==
  /\ staff \in [Person -> [salary : Salary, active : BOOLEAN]]
  /\ \A r \in Run : /\ runs[r].st \in {"none", "DRAFT", "POSTED"} /\ runs[r].net \in Int
                    /\ locks[r] # None => work[locks[r]].run = r
  /\ \A w \in Worker : work[w].pc \in {"idle", "check", "insert", "slips", "total", "commit", "post"}

\* "A payroll run already exists for period ...": concurrent requests for a
\* period, that all pass the check, make one run, so nobody has two payslips.
OneRunPerPeriod == \A c \in Period : Cardinality(Of(c)) <= 1

\* The table of runs and its locks under concurrent requests.
RunsSound == TypeOK /\ OneRunPerPeriod

\* "This payroll run is already posted": concurrent and repeated requests to
\* post, some of them rolled back, book the salaries of a run once.
OneEntryPerRun ==
  \A r \in Run : /\ Cardinality(EntriesOf(r)) = IF runs[r].st = "POSTED" THEN 1 ELSE 0
                /\ \A e \in EntriesOf(r) : e.no = runs[r].entry

\* The entry pays out the total that the run shows and splits the salaries
\* that its payslips show, although the personnel changed meanwhile.
PostedAsShown ==
  \A e \in books : \A l \in e.lines :
    LET run == runs[e.run] IN
      /\ l.account = "2020" => l.credit = run.net
      /\ l.account = "5010" => l.debit = Gross(run.slips)

\* A draft that has payslips and deductions below 100 percent is never stuck:
\* whatever was cut off in rounding, its lines are accepted by the journal.
DraftsArePostable ==
  \A r \in Run :
    runs[r].st = "DRAFT" /\ runs[r].slips # {}
    /\ (\A s \in runs[r].slips : s.pct.tax + s.pct.insurance < 100)
      => Accepted(Lines(runs[r].slips))
=============================================================================

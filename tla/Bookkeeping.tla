----------------------------- MODULE Bookkeeping -----------------------------
(***************************************************************************)
(* The data of the double-entry core: accounts, journal lines, journal     *)
(* entry headers and fiscal periods, and the pure computations that the    *)
(* SQL functions of database/init/04 and 05 make over them.  The state     *)
(* machines Ledger (one operation at a time) and LedgerTx (statements of   *)
(* concurrent transactions) are both written with these operators.         *)
(***************************************************************************)
EXTENDS Integers, Sequences, FiniteSets, SequencesExt

CONSTANTS
  Account,      \* rows of arka.accounts, numbered in the order of their ids
  DebitNormal,  \* the accounts whose normal_balance is DEBIT
  Income,       \* the accounts of type INCOME
  Expense,      \* the accounts of type EXPENSE
  Summary,      \* p_pl_summary_acct_id of fn_close_fiscal_period
  Retained,     \* p_retained_account_id of fn_close_fiscal_period
  Entry,        \* ids that gen_random_uuid may give a journal entry
  Date,         \* the dates a client may put on an entry
  Period,       \* rows of arka.fiscal_periods
  PeriodOf,     \* the period whose range holds a date, None if there is none
  EndOf,        \* ends_on of each period
  Dto,          \* line lists that pass the class-validator rules of the DTO
  None          \* SQL's NULL

LineDto == [account : Account, debit : Nat, credit : Nat]

ASSUME AccountAssumption ==
  /\ Account \subseteq Nat /\ IsFiniteSet(Account)
  /\ DebitNormal \subseteq Account
  /\ Income \subseteq Account /\ Expense \subseteq Account
  /\ Income \cap Expense = {}
  /\ Summary \in Account /\ Retained \in Account

ASSUME EntryAssumption == None \notin Entry

ASSUME PeriodAssumption ==
  /\ None \notin Period
  /\ PeriodOf \in [Date -> Period \cup {None}]
  /\ EndOf \in [Period -> Date]
  /\ \A q \in Period : PeriodOf[EndOf[q]] = q

ASSUME DtoAssumption == Dto \subseteq {ls \in Seq(LineDto) : Len(ls) >= 2}

-----------------------------------------------------------------------------
(* Sums.  A recursive function, not a fold, so that it can be reasoned     *)
(* about by the prover.                                                    *)

PartialSums(s) ==
  LET acc[i \in 0..Len(s)] == IF i = 0 THEN 0 ELSE acc[i - 1] + s[i] IN acc

Sum(s) == PartialSums(s)[Len(s)]

-----------------------------------------------------------------------------
(* Journal lines.                                                          *)

\* chk_line_one_side: exactly one of debit and credit is positive.
OneSided(l) == \/ l.debit > 0 /\ l.credit = 0
               \/ l.credit > 0 /\ l.debit = 0

Line == {l \in LineDto : OneSided(l)}

TotalDebit(ls)  == Sum([i \in 1..Len(ls) |-> ls[i].debit])
TotalCredit(ls) == Sum([i \in 1..Len(ls) |-> ls[i].credit])

\* JournalService.assertBalanced, over the request before any statement runs.
AssertBalanced(ls) == /\ \A i \in 1..Len(ls) : OneSided(ls[i])
                      /\ TotalDebit(ls) = TotalCredit(ls)

\* The two lines JournalService.transfer makes of its request.
TransferLegs(ls) == /\ Len(ls) = 2 /\ ls[1].account # ls[2].account
                    /\ ls[1].credit = 0 /\ ls[2].debit = 0
                    /\ ls[1].debit = ls[2].credit

\* What fn_post_journal_entry and the deferred constraint triggers require.
Balanced(ls) == Len(ls) >= 2 /\ TotalDebit(ls) = TotalCredit(ls)

AccountsOf(ls) == {ls[i].account : i \in 1..Len(ls)}

\* A line's effect on its account, positive on the account's normal side.
Natural(l) == IF l.account \in DebitNormal THEN l.debit - l.credit
                                           ELSE l.credit - l.debit

\* The delta one entry adds to the cached balance of account a.
Delta(ls, a) ==
  Sum([i \in 1..Len(ls) |-> IF ls[i].account = a THEN Natural(ls[i]) ELSE 0])

\* The lines of the reversing entry: debit and credit change places.
Mirror(ls) == [i \in 1..Len(ls) |->
  [account |-> ls[i].account, debit |-> ls[i].credit, credit |-> ls[i].debit]]

-----------------------------------------------------------------------------
(* Journal entry headers.  A header and its lines are one value: lines are *)
(* only ever written by a transaction that inserted or locked the header.  *)
(* entry_date is kept, fiscal_period_id is `period`, reversed_entry_id is  *)
(* `reverses`, and deleted_at IS NOT NULL is `deleted`.                    *)

JournalStatus == {"DRAFT", "POSTED", "REVERSED"}
PeriodStatus  == {"OPEN", "LOCKED", "CLOSED"}

Row == [status : JournalStatus, lines : Seq(Line), date : Date,
        period : Period \cup {None}, deleted : BOOLEAN,
        reverses : Entry \cup {None}, closing : BOOLEAN]

DraftRow(d, ls, src) ==
  [status |-> "DRAFT", lines |-> ls, date |-> d, period |-> None,
   deleted |-> FALSE, reverses |-> src, closing |-> FALSE]

ClosingRow(d, ls) == [DraftRow(d, ls, None) EXCEPT !.closing = TRUE]

\* Faulty: the date itself is stored in place of its period.
PostedRowNoLookup(r) == [r EXCEPT !.status = "POSTED", !.period = r.date]

PostedRow(r) == [r EXCEPT !.status = "POSTED", !.period = PeriodOf[r.date]]

\* A table with one row inserted or replaced.
Put(table, id, r) ==
  [x \in DOMAIN table \cup {id} |-> IF x = id THEN r ELSE table[x]]

\* The rows every POSTED-only query of the ledger sees.
PostedIn(table) ==
  {e \in DOMAIN table : table[e].status = "POSTED" /\ ~table[e].deleted}

\* Income minus expense of one entry's lines, as v_profit_and_loss and
\* fn_close_fiscal_period take them: credit - debit on either account type.
NetIncome(ls) ==
  Sum([i \in 1..Len(ls) |->
         IF ls[i].account \in Income \cup Expense
         THEN ls[i].credit - ls[i].debit ELSE 0])

\* The sum of F over a finite set of entries, in some order.
SumOver(S, F(_)) ==
  LET order == SetToSeq(S) IN Sum([i \in 1..Cardinality(S) |-> F(order[i])])

\* Steps 2 of fn_close_fiscal_period: draft entries left in the period, and
\* the period's net result over its posted entries.
InPeriod(table, q) == {e \in DOMAIN table : PeriodOf[table[e].date] = q}

DraftsIn(table, q) ==
  {e \in InPeriod(table, q) : table[e].status = "DRAFT" /\ ~table[e].deleted}

PeriodNet(table, q) ==
  SumOver(PostedIn(table) \cap InPeriod(table, q),
          LAMBDA e : NetIncome(table[e].lines))

\* What the balance of account a comes to over a set of entries.
BalanceOver(table, S, a) == SumOver(S, LAMBDA e : Delta(table[e].lines, a))

\* The cached balances after the entry's deltas are folded in.
FoldIn(balance, ls) == [a \in Account |-> balance[a] + Delta(ls, a)]

\* The two lines of the closing entry; no line at all for a zero result.
ClosingLines(net) ==
  LET Leg(a, d, c) == [account |-> a, debit |-> d, credit |-> c] IN
  CASE net > 0 -> << Leg(Summary, net, 0), Leg(Retained, 0, net) >>
    [] net < 0 -> << Leg(Retained, -net, 0), Leg(Summary, 0, -net) >>
    [] OTHER   -> << >>
==============================================================================

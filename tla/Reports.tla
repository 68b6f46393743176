------------------------------- MODULE Reports -------------------------------
(***************************************************************************)
(* The financial statements: the reporting views of database/init/06 and   *)
(* the arithmetic that ReportsService does on their rows, as functions of  *)
(* the ledger's state.  A report only reads, so this module adds no        *)
(* action: its properties are about what the operations of Ledger make the *)
(* statements say.                                                         *)
(***************************************************************************)
EXTENDS Ledger

CONSTANTS
  Asset, Liability, Equity,  \* the accounts of these types
  Root,                      \* the accounts without a parent
  CashFlow                   \* accounts with metadata cash_flow = true

\* account_type is one column: every account is of one type.
ASSUME ReportAssumption ==
  /\ Asset \cup Liability \cup Equity \cup Income \cup Expense = Account
  /\ Asset \cap (Liability \cup Equity \cup Income \cup Expense) = {}
  /\ Liability \cap (Equity \cup Income \cup Expense) = {}
  /\ Equity \cap (Income \cup Expense) = {}
  /\ Root \subseteq Account
  /\ CashFlow \subseteq Account

SumAccounts(S, F(_)) == SumOver(S, F)

\* Lines of the journal that concern account a, over a set of entries.
DebitOn(ls, a) ==
  Sum([i \in 1..Len(ls) |-> IF ls[i].account = a THEN ls[i].debit ELSE 0])
CreditOn(ls, a) ==
  Sum([i \in 1..Len(ls) |-> IF ls[i].account = a THEN ls[i].credit ELSE 0])

DebitsOf(S, a)  == SumOver(S, LAMBDA e : DebitOn(entry[e].lines, a))
CreditsOf(S, a) == SumOver(S, LAMBDA e : CreditOn(entry[e].lines, a))

Positive(n) == IF n > 0 THEN n ELSE 0

-----------------------------------------------------------------------------
(* v_trial_balance.  The condition on the entry's status stands in the ON  *)
(* clause of a LEFT JOIN, so a line counts whatever its entry is.          *)

TrialEntries == DOMAIN entry

\* Faulty: the credit column lost its GREATEST(..., 0).
TrialWithNegatives ==
  [a \in {b \in Account : postable[b]} |->
     LET net == DebitsOf(TrialEntries, a) - CreditsOf(TrialEntries, a)
     IN  [debit |-> Positive(net), credit |-> -net]]

TrialBalance ==
  [a \in {b \in Account : postable[b]} |->
     LET net == DebitsOf(TrialEntries, a) - CreditsOf(TrialEntries, a)
     IN  [debit |-> Positive(net), credit |-> Positive(-net)]]

\* The total of a column, added up type by type.
TrialTotal(side) ==
  LET Of(type) == SumAccounts(type \cap DOMAIN TrialBalance,
                              LAMBDA a : TrialBalance[a][side])
  IN  Of(Asset) + Of(Liability) + Of(Equity) + Of(Income) + Of(Expense)

\* Faulty: the result counts the lines of drafts.
ProfitAndLossOfAll(a) ==
  LET net == DebitsOf(DOMAIN entry, a) - CreditsOf(DOMAIN entry, a)
  IN  IF a \in Income THEN -net ELSE net

\* v_profit_and_loss, over all dates: one amount per income or expense account.
ProfitAndLoss(a) ==
  LET net == DebitsOf(PostedIn(entry), a) - CreditsOf(PostedIn(entry), a)
  IN  IF a \in Income THEN -net ELSE net

NetProfit == SumAccounts(Income, ProfitAndLoss) - SumAccounts(Expense, ProfitAndLoss)

\* The rows ReportsService.balanceSheet reads: postable accounts that have a
\* parent.
OnSheet(a) == postable[a] /\ a \notin Root

\* Its totals: the cached balances as they stand, whatever the normal side.  The
\* roll-up of a postable account, a leaf, is its own balance.
SheetTotal(type) ==
  SumAccounts({a \in type : OnSheet(a)}, LAMBDA a : balance[a])

\* "balanced" is whether this is 0.
SheetGap ==
  SheetTotal(Asset) - (SheetTotal(Liability) + SheetTotal(Equity) + NetProfit)

\* Faulty: movements of drafts count as cash.
NetCashFlowOfAll ==
  SumAccounts(CashFlow, LAMBDA a :
    DebitsOf(DOMAIN entry, a) - CreditsOf(DOMAIN entry, a))

\* v_cash_flow_summary: posted movement over cash and bank accounts.
NetCashFlow ==
  SumAccounts(CashFlow, LAMBDA a :
    DebitsOf(PostedIn(entry), a) - CreditsOf(PostedIn(entry), a))

-----------------------------------------------------------------------------
(* Properties.                                                             *)

\* Debit less credit on an account, as its cached balance has it.
Net(a) == IF a \in DebitNormal THEN balance[a] ELSE -balance[a]

\* The identity the balance sheet asserts with "balanced": assets are
\* liabilities plus equity plus the net result not yet moved to equity.
BalanceSheetBalances == SheetGap = 0

\* The listed accounts of a type whose normal side is not the type's, such as
\* the seeded 1590 and 3020: the sheet adds what it should subtract.
Contra(type) ==
  SumAccounts({a \in type : OnSheet(a) /\ (a \in DebitNormal <=> a \notin Asset)},
              LAMBDA a : balance[a])

\* What the sheet leaves out: accounts of the type that are a root or that
\* became control accounts, on the type's side.
OffSheet(type) ==
  SumAccounts({a \in type : ~OnSheet(a)},
              LAMBDA a : IF a \in Asset THEN Net(a) ELSE -Net(a))

\* By how much the sheet's total of a type is too high.
Overstated(type) == 2 * Contra(type) - OffSheet(type)

\* The balance sheet is off by exactly what it reads wrongly, contra accounts
\* and accounts it does not list, and by nothing the operations did: the cached
\* balances and the sum over the posted lines never drift apart, across drafts,
\* posts, closes and recomputes.
SheetExplained ==
  SheetGap = Overstated(Asset) - Overstated(Liability) - Overstated(Equity)

\* Both columns of the trial balance have the same total, though an entry may
\* be booked on any accounts.
TrialBalanceBalances == TrialTotal("debit") = TrialTotal("credit")

Drafts == {e \in DOMAIN entry : entry[e].status = "DRAFT"}

\* An account's row in the trial balance is its cached balance and, on top of
\* it, what the drafts would move on it, deleted ones included.
TrialShowsDrafts ==
  \A a \in DOMAIN TrialBalance :
    TrialBalance[a].debit - TrialBalance[a].credit
      = Net(a) + (DebitsOf(Drafts, a) - CreditsOf(Drafts, a))

\* Cash in the books is the cash that moved.
CashAgrees == SumAccounts(CashFlow, Net) = NetCashFlow

\* The statements that add up lines, against the cached balances: the columns
\* of the trial balance agree, each row is the balance plus the drafts, and the
\* cash flow is the cash in the books.
ReportsAgree == TrialBalanceBalances /\ TrialShowsDrafts /\ CashAgrees
==============================================================================

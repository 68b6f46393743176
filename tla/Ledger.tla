------------------------------- MODULE Ledger -------------------------------
(***************************************************************************)
(* The ledger as its operations promise it: every journal operation takes  *)
(* effect at once, with nothing of another operation in between.  The      *)
(* guards and effects are those of JournalService, of the SECURITY DEFINER *)
(* functions of database/init/05 and of the triggers they fire; LedgerTx   *)
(* has the statements and locks that make an operation of these.           *)
(***************************************************************************)
EXTENDS Bookkeeping

CONSTANT Ops    \* the operations that clients call

OpNames == {"create", "update", "delete", "restore", "transfer", "post",
            "reverse", "child", "recompute", "close"}

ASSUME OpsAssumption == Ops \subseteq OpNames

VARIABLES
  entry,     \* arka.journal_entries with their journal_lines
  balance,   \* accounts.balance, the cached natural balance
  postable,  \* accounts.is_postable
  period     \* fiscal_periods.status

vars == <<entry, balance, postable, period>>

Init ==
  /\ entry = << >>
  /\ balance = [a \in Account |-> 0]
  /\ postable = [a \in Account |-> TRUE]
  /\ period = [q \in Period |-> "OPEN"]

Exists(e) == e \in DOMAIN entry /\ ~entry[e].deleted
Fresh(e)  == e \in Entry \ DOMAIN entry

\* Faulty: only a LOCKED period rejects an entry.
PeriodNotLocked(d) == PeriodOf[d] # None /\ period[PeriodOf[d]] # "LOCKED"

PeriodOpen(d) == PeriodOf[d] # None /\ period[PeriodOf[d]] = "OPEN"

\* What the table accepts of a list of lines: chk_line_one_side, and
\* fn_line_account_guard on the account of each.
LinesAllowed(ls) == /\ \A i \in 1..Len(ls) : OneSided(ls[i])
                    /\ \A a \in AccountsOf(ls) : postable[a]

-----------------------------------------------------------------------------
(* Drafts.                                                                 *)

CreateDraft(e, d, ls) ==
  /\ "create" \in Ops
  /\ Fresh(e) /\ AssertBalanced(ls) /\ LinesAllowed(ls)
  /\ entry' = Put(entry, e, DraftRow(d, ls, None))
  /\ UNCHANGED <<balance, postable, period>>

\* Faulty: updateDraft without its assertDraft.
UpdateAny(e, d, ls) ==
  /\ "update" \in Ops
  /\ Exists(e)
  /\ AssertBalanced(ls) /\ LinesAllowed(ls)
  /\ entry' = Put(entry, e, [entry[e] EXCEPT !.date = d, !.lines = ls])
  /\ UNCHANGED <<balance, postable, period>>

UpdateDraft(e, d, ls) ==
  /\ "update" \in Ops
  /\ Exists(e) /\ entry[e].status = "DRAFT"
  /\ AssertBalanced(ls) /\ LinesAllowed(ls)
  /\ entry' = Put(entry, e, [entry[e] EXCEPT !.date = d, !.lines = ls])
  /\ UNCHANGED <<balance, postable, period>>

DeleteDraft(e) ==
  /\ "delete" \in Ops
  /\ Exists(e) /\ entry[e].status = "DRAFT"
  /\ entry' = Put(entry, e, [entry[e] EXCEPT !.deleted = TRUE])
  /\ UNCHANGED <<balance, postable, period>>

Restore(e) ==
  /\ "restore" \in Ops
  /\ e \in DOMAIN entry /\ entry[e].deleted /\ entry[e].status = "DRAFT"
  /\ entry' = Put(entry, e, [entry[e] EXCEPT !.deleted = FALSE])
  /\ UNCHANGED <<balance, postable, period>>

-----------------------------------------------------------------------------
(* The posting functions.  AddPosted is the effect of fn_post_journal_entry*)
(* on a draft row r: its guards, the balances and the flip to POSTED.      *)

AddPosted(table, e, r) ==
  /\ PeriodOpen(r.date)
  /\ Balanced(r.lines)
  /\ entry' = Put(table, e, PostedRow(r))
  /\ balance' = FoldIn(balance, r.lines)

\* Faulty: the status of the entry is not looked at, so it can be posted twice.
PostAny(e) ==
  /\ {"post", "transfer"} \cap Ops # {}
  /\ Exists(e)
  /\ AddPosted(entry, e, entry[e])
  /\ UNCHANGED <<postable, period>>

PostJournalEntry(e) ==
  /\ {"post", "transfer"} \cap Ops # {}
  /\ Exists(e) /\ entry[e].status = "DRAFT"
  /\ AddPosted(entry, e, entry[e])
  /\ UNCHANGED <<postable, period>>

\* transfer is createDraft and then post: two transactions, and a failure in
\* between leaves the draft behind.
TransferDraft(e, d, ls) ==
  /\ "transfer" \in Ops
  /\ TransferLegs(ls)
  /\ Fresh(e) /\ AssertBalanced(ls) /\ LinesAllowed(ls)
  /\ entry' = Put(entry, e, DraftRow(d, ls, None))
  /\ UNCHANGED <<balance, postable, period>>

\* Faulty: an entry that is REVERSED already can be reversed once more.
ReverseAgain(e, m, d) ==
  /\ "reverse" \in Ops
  /\ Exists(e) /\ entry[e].status # "DRAFT"
  /\ Fresh(m) /\ LinesAllowed(Mirror(entry[e].lines))
  /\ AddPosted([entry EXCEPT ![e].status = "REVERSED"], m,
               DraftRow(d, Mirror(entry[e].lines), e))
  /\ UNCHANGED <<postable, period>>

ReverseJournalEntry(e, m, d) ==
  /\ "reverse" \in Ops
  /\ Exists(e) /\ entry[e].status = "POSTED"
  /\ Fresh(m) /\ LinesAllowed(Mirror(entry[e].lines))
  /\ AddPosted([entry EXCEPT ![e].status = "REVERSED"], m,
               DraftRow(d, Mirror(entry[e].lines), e))
  /\ UNCHANGED <<postable, period>>

\* Faulty: the recompute adds up drafts as well.
RecomputeFromAll(a) ==
  /\ "recompute" \in Ops
  /\ balance' = [balance EXCEPT ![a] = BalanceOver(entry, DOMAIN entry, a)]
  /\ UNCHANGED <<entry, postable, period>>

RecomputeAccountBalance(a) ==
  /\ "recompute" \in Ops
  /\ balance' = [balance EXCEPT ![a] = BalanceOver(entry, PostedIn(entry), a)]
  /\ UNCHANGED <<entry, postable, period>>

-----------------------------------------------------------------------------
(* Chart of accounts and fiscal close.                                     *)

\* AccountsService.create with a parent: fn_parent_not_postable turns the
\* parent into a control account.
CreateChildOf(a) ==
  /\ "child" \in Ops
  /\ postable' = [postable EXCEPT ![a] = FALSE]
  /\ UNCHANGED <<entry, balance, period>>

\* Faulty: the period stays OPEN after its closing entry is posted.
CloseOnlyPosts(q, c) ==
  /\ "close" \in Ops
  /\ period[q] # "CLOSED" /\ DraftsIn(entry, q) = {}
  /\ LET ls == ClosingLines(PeriodNet(entry, q)) IN
       /\ ls # << >> /\ Fresh(c) /\ LinesAllowed(ls)
       /\ AddPosted(entry, c, ClosingRow(EndOf[q], ls))
  /\ UNCHANGED <<period, postable>>

CloseFiscalPeriod(q, c) ==
  /\ "close" \in Ops
  /\ period[q] # "CLOSED" /\ DraftsIn(entry, q) = {}
  /\ LET ls == ClosingLines(PeriodNet(entry, q)) IN
       \/ /\ ls = << >>
          /\ UNCHANGED <<entry, balance>>
       \/ /\ ls # << >> /\ Fresh(c) /\ LinesAllowed(ls)
          /\ AddPosted(entry, c, ClosingRow(EndOf[q], ls))
  /\ period' = [period EXCEPT ![q] = "CLOSED"]
  /\ UNCHANGED postable

-----------------------------------------------------------------------------
Next ==
  \/ \E e \in Entry, d \in Date, ls \in Dto :
       \/ CreateDraft(e, d, ls)
       \/ TransferDraft(e, d, ls)
       \/ UpdateDraft(e, d, ls)
  \/ \E e \in Entry : DeleteDraft(e) \/ Restore(e) \/ PostJournalEntry(e)
  \/ \E e, m \in Entry, d \in Date : ReverseJournalEntry(e, m, d)
  \/ \E a \in Account : RecomputeAccountBalance(a) \/ CreateChildOf(a)
  \/ \E q \in Period, c \in Entry : CloseFiscalPeriod(q, c)

Spec == Init /\ [][Next]_vars

-----------------------------------------------------------------------------
(* Properties.                                                             *)

TypeOK ==
  /\ DOMAIN entry \subseteq Entry
  /\ entry \in [DOMAIN entry -> Row]
  /\ balance \in [Account -> Int]
  /\ postable \in [Account -> BOOLEAN]
  /\ period \in [Period -> PeriodStatus]

\* Entries whose deltas are in the cached balances.
Applied == {e \in DOMAIN entry : entry[e].status \in {"POSTED", "REVERSED"}}

\* The applied entries, each listed once, account for every cached balance.
AddsUp(order) ==
  /\ \A i, j \in DOMAIN order : order[i] = order[j] => i = j
  /\ \A a \in Account :
       balance[a] = Sum([i \in DOMAIN order |-> Delta(entry[order[i]].lines, a)])

\* The cached balance of every account is the sum, in some order, of the
\* deltas of all entries that were ever posted: fn_post_journal_entry folds
\* each entry in once, reversal adds a mirror and takes nothing back, and no
\* other operation moves a balance or the lines behind it.
CacheAgrees ==
  \E order \in [1..Cardinality(Applied) -> Applied] : AddsUp(order)

\* Reversal is a pairing: each REVERSED entry has a reversing entry that was
\* posted with exactly its mirrored lines, no entry is reversed twice, and
\* an entry that names a source names one that is REVERSED.
ReversalPaired ==
  /\ \A e \in DOMAIN entry : entry[e].status = "REVERSED" =>
       \E m \in Applied : /\ entry[m].reverses = e
                          /\ entry[m].lines = Mirror(entry[e].lines)
  /\ \A m \in DOMAIN entry : entry[m].reverses # None =>
       /\ entry[m].reverses \in DOMAIN entry
       /\ entry[entry[m].reverses].status = "REVERSED"
       /\ m \in Applied
  /\ \A m, n \in DOMAIN entry :
       entry[m].reverses = entry[n].reverses /\ entry[m].reverses # None => m = n

\* What was posted stays as it was posted: a step may only mark it REVERSED;
\* its lines, date, period, source link and deletion mark never change.
PostedImmutable ==
  [][\A e \in Applied :
       /\ e \in DOMAIN entry'
       /\ entry'[e] \in {entry[e], [entry[e] EXCEPT !.status = "REVERSED"]}]_vars

\* (I5) Nothing is added to a closed period: an entry that is posted by a step
\* belongs to a period that was OPEN, and no closed period opens again.
ClosedPeriodFrozen ==
  [][\A q \in Period : period[q] = "CLOSED" =>
       /\ period'[q] = "CLOSED"
       /\ \A e \in DOMAIN entry' \ Applied :
            entry'[e].status # "DRAFT" => entry'[e].period # q]_vars

\* A closed period whose entries nobody reversed afterwards was closed on its
\* final result: its net income is what its closing entry moved to equity.
ClosingMatchesNet ==
  \A q \in Period :
    LET closings == {e \in Applied : entry[e].closing /\ entry[e].period = q}
    IN  /\ closings # {} => period[q] = "CLOSED" /\ Cardinality(closings) = 1
        /\ (/\ period[q] = "CLOSED"
            /\ \A e \in InPeriod(entry, q) : entry[e].status # "REVERSED")
           => ClosingLines(PeriodNet(entry, q)) =
                (IF closings = {} THEN << >>
                 ELSE entry[CHOOSE e \in closings : TRUE].lines)

\* fn_recompute_account_balance leaves a healthy balance as it is.
RecomputeIsNoOp ==
  [][\A a \in Account : RecomputeAccountBalance(a) => UNCHANGED balance]_vars
==============================================================================

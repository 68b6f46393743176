------------------------------ MODULE LedgerTx ------------------------------
(***************************************************************************)
(* The ledger under concurrent requests.  Each process is a pooled         *)
(* PostgreSQL connection serving one request at a time, and each action is *)
(* one SQL statement of the request's transaction at READ COMMITTED:       *)
(*                                                                         *)
(*   - a statement reads the committed tables overlaid with the writes of  *)
(*     its own transaction (`pend`), and nothing of anybody else's;        *)
(*   - row locks, foreign-key locks and advisory locks are entries of one  *)
(*     lock table, held until the transaction ends;                        *)
(*   - every audited write (trigger fn_audit) takes the advisory lock of   *)
(*     the audit chain, after the row lock of the statement itself;        *)
(*   - COMMIT publishes the writes, any error or crash discards them, and  *)
(*     both release the locks; the server breaks a lock cycle by rolling   *)
(*     back one transaction of it.                                         *)
(*                                                                         *)
(* Neither fn_parent_not_postable nor fn_recompute_account_balance is      *)
(* SECURITY DEFINER and both write columns arka_app may not write: "child" *)
(* and "recompute" are operations of deployments whose database role owns  *)
(* the schema, and Ops leaves them out for the others.                     *)
(***************************************************************************)
EXTENDS Bookkeeping

CONSTANTS
  Proc,      \* pooled connections
  Ops,       \* the operations that clients call
  Crashes    \* whether a request may be cut off between two statements

ASSUME TxAssumption == Crashes \in BOOLEAN

VARIABLES
  entry, balance, postable, period,  \* the committed tables, as in Ledger
  tx,       \* what each connection is doing
  pend,     \* the uncommitted writes of each connection
  locks     \* granted locks

tables == <<entry, balance, postable, period>>
vars == <<entry, balance, postable, period, tx, pend, locks>>

\* The abstract specification, over the committed tables.
Serial == INSTANCE Ledger
  WITH entry <- entry, balance <- balance, postable <- postable, period <- period

Steps == {"idle", "assertDraft", "lockEntry", "updHeader", "audUpdate",
          "insHeader", "insLine", "validate", "lockAccount", "fold", "audFold",
          "flip", "markSource", "insAccount", "audAccount", "control",
          "lockOne", "recompute", "audRecompute", "tryClose", "lockPeriod", "count", "net",
          "closePeriod", "commit"}

\* id: the entry a request names; new: the header its transaction inserted;
\* todo: the accounts it has not locked yet.
Idle == [pc |-> "idle", op |-> None, id |-> None, new |-> None, date |-> None,
         lines |-> << >>, acct |-> None, per |-> None, todo |-> {}]

NoWrites == [entry |-> << >>, balance |-> << >>, control |-> {}, closed |-> {}]

Init ==
  /\ Serial!Init
  /\ tx = [p \in Proc |-> Idle]
  /\ pend = [p \in Proc |-> NoWrites]
  /\ locks = {}

-----------------------------------------------------------------------------
(* What a transaction sees.                                                *)

Overlay(table, writes) ==
  [x \in DOMAIN table \cup DOMAIN writes |->
     IF x \in DOMAIN writes THEN writes[x] ELSE table[x]]

Seen(p) == Overlay(entry, pend[p].entry)

\* The entry fn_post_journal_entry works on: the header this transaction
\* inserted (reversal, closing entry), or else the one the request named.
Target(p) == IF tx[p].new # None THEN tx[p].new ELSE tx[p].id
MyRow(p)  == Seen(p)[Target(p)]

\* Ids that are in use, committed or not.
Used == DOMAIN entry \cup UNION {DOMAIN pend[p].entry : p \in Proc}

\* Bound: a request that inserts a header starts only while an id is left for
\* it, because Entry is finite here and gen_random_uuid is not.
IdLeft ==
  Cardinality({p \in Proc : tx[p].op \in {"create", "transfer", "reverse", "close"}})
    < Cardinality(Entry \ DOMAIN entry)

-----------------------------------------------------------------------------
(* Locks.                                                                  *)

\* Row lock modes of PostgreSQL that this code reaches; an advisory lock
\* conflicts with itself as UPDATE does.
Conflict(m, n) ==
  {m, n} \notin {{"KEY SHARE"}, {"KEY SHARE", "NO KEY UPDATE"}}

Ask(on, mode) == {[on |-> on, mode |-> mode]}

AuditLock == <<"audit", None>>
CloseLock == <<"close", None>>

\* Faulty: the account rows are locked in the order of the entry's lines.
NextInLineOrder(p) ==
  LET ls == MyRow(p).lines
      at == CHOOSE i \in DOMAIN ls : /\ ls[i].account \in tx[p].todo
                                     /\ \A j \in 1..(i - 1) : ls[j].account \notin tx[p].todo
  IN  ls[at].account

NextAccount(p) == CHOOSE a \in tx[p].todo : \A b \in tx[p].todo : a <= b
NextLine(p)    == tx[p].lines[Len(MyRow(p).lines) + 1]

\* Faulty: the posting function reads the entry and the accounts without
\* FOR UPDATE.
NeedNoRowLocks(p) ==
  LET t == tx[p] IN
  CASE t.pc = "flip" -> Ask(<<"period", PeriodOf[MyRow(p).date]>>, "KEY SHARE")
    [] t.pc \in {"insHeader", "audUpdate", "audFold", "audAccount", "audRecompute"}
                     -> Ask(AuditLock, "UPDATE")
    [] OTHER         -> {}

\* The lock that the next statement of p has to be granted.
Need(p) ==
  LET t == tx[p] IN
  CASE t.pc = "lockEntry"   -> Ask(<<"entry", t.id>>, "UPDATE")
    [] t.pc = "updHeader"   -> Ask(<<"entry", t.id>>, "NO KEY UPDATE")
    [] t.pc = "insLine" /\ t.lines # << >> ->
                               Ask(<<"account", NextLine(p).account>>, "KEY SHARE")
    [] t.pc = "lockAccount" -> Ask(<<"account", NextAccount(p)>>, "UPDATE")
    [] t.pc = "lockOne"     -> Ask(<<"account", t.acct>>, "UPDATE")
    [] t.pc = "insAccount"  -> Ask(<<"account", t.acct>>, "KEY SHARE")
    [] t.pc = "control" /\ postable[t.acct] ->
                               Ask(<<"account", t.acct>>, "NO KEY UPDATE")
    [] t.pc = "lockPeriod"  -> Ask(<<"period", t.per>>, "UPDATE")
    [] t.pc = "flip"        -> Ask(<<"period", PeriodOf[MyRow(p).date]>>, "KEY SHARE")
    [] t.pc \in {"insHeader", "audUpdate", "audFold", "audAccount", "audRecompute"}
                            -> Ask(AuditLock, "UPDATE")
    [] OTHER                -> {}

\* The connections that keep the next statement of p waiting.
WaitsFor(p) ==
  {l.proc : l \in {k \in locks : /\ k.proc # p
                                 /\ \E n \in Need(p) : /\ n.on = k.on
                                                       /\ Conflict(n.mode, k.mode)}}

\* A set of connections of which each waits for another one of the set.
Deadlocked(S) == S # {} /\ \A p \in S : WaitsFor(p) \cap S # {}

-----------------------------------------------------------------------------
(* The frame of a statement: it runs when its lock is granted.             *)

Statement(p, at) ==
  /\ tx[p].pc = at
  /\ WaitsFor(p) = {}
  /\ locks' = locks \cup {[proc |-> p, on |-> n.on, mode |-> n.mode] : n \in Need(p)}
  /\ UNCHANGED tables

Goto(p, next) == tx' = [tx EXCEPT ![p].pc = next]

WriteEntry(p, e, r) == pend' = [pend EXCEPT ![p].entry = Put(@, e, r)]

\* Faulty: the audit trigger takes a session-level lock, which outlives the
\* transaction.
ReleaseButAudit(p) == {l \in locks : l.proc # p \/ l.on = AuditLock}

\* The locks that are left when the transaction of p ends.
Release(p) == {l \in locks : l.proc # p}

\* End of a transaction whose writes are lost.
Rollback(p) ==
  /\ tx' = [tx EXCEPT ![p] = Idle]
  /\ pend' = [pend EXCEPT ![p] = NoWrites]
  /\ locks' = Release(p)
  /\ UNCHANGED tables

-----------------------------------------------------------------------------
(* Requests.  The guards are the checks made before the first statement.   *)

Begin(p, request) ==
  /\ tx[p] = Idle
  /\ tx' = [tx EXCEPT ![p] = request]
  /\ UNCHANGED <<entry, balance, postable, period, pend, locks>>

\* createDraft, and the createDraft half of transfer.
RequestCreate(p) ==
  \E op \in {"create", "transfer"} \cap Ops, d \in Date, ls \in Dto :
    /\ IdLeft /\ AssertBalanced(ls)
    /\ op = "transfer" => TransferLegs(ls)
    /\ Begin(p, [Idle EXCEPT !.pc = "insHeader", !.op = op, !.date = d,
                             !.lines = ls])

RequestPost(p) ==
  \E e \in DOMAIN entry :
    /\ "post" \in Ops
    /\ Begin(p, [Idle EXCEPT !.pc = "lockEntry", !.op = "post", !.id = e])

RequestReverse(p) ==
  \E e \in DOMAIN entry, d \in Date :
    /\ "reverse" \in Ops /\ IdLeft
    /\ Begin(p, [Idle EXCEPT !.pc = "lockEntry", !.op = "reverse", !.id = e,
                             !.date = d])

RequestUpdate(p) ==
  \E e \in DOMAIN entry, d \in Date, ls \in Dto :
    /\ "update" \in Ops
    /\ Begin(p, [Idle EXCEPT !.pc = "assertDraft", !.op = "update", !.id = e,
                             !.date = d, !.lines = ls])

RequestDelete(p) ==
  \E e \in DOMAIN entry :
    /\ "delete" \in Ops
    /\ Begin(p, [Idle EXCEPT !.pc = "assertDraft", !.op = "delete", !.id = e])

RequestRestore(p) ==
  \E e \in DOMAIN entry :
    /\ "restore" \in Ops
    /\ Begin(p, [Idle EXCEPT !.pc = "updHeader", !.op = "restore", !.id = e])

RequestChild(p) ==
  \E a \in Account :
    /\ "child" \in Ops
    /\ Begin(p, [Idle EXCEPT !.pc = "insAccount", !.op = "child", !.acct = a])

RequestRecompute(p) ==
  \E a \in Account :
    /\ "recompute" \in Ops
    /\ Begin(p, [Idle EXCEPT !.pc = "lockOne", !.op = "recompute", !.acct = a])

RequestClose(p) ==
  \E q \in Period :
    /\ "close" \in Ops /\ IdLeft
    /\ Begin(p, [Idle EXCEPT !.pc = "tryClose", !.op = "close", !.per = q])

-----------------------------------------------------------------------------
(* Inserting a header and its lines: createDraft, and the bodies of        *)
(* fn_reverse_journal_entry and fn_close_fiscal_period.                    *)

InsertHeader(p) ==
  /\ Statement(p, "insHeader")
  /\ \E e \in Entry \ Used :
       /\ WriteEntry(p, e,
            CASE tx[p].op = "reverse" -> DraftRow(tx[p].date, << >>, tx[p].id)
              [] tx[p].op = "close"   -> ClosingRow(EndOf[tx[p].per], << >>)
              [] OTHER                -> DraftRow(tx[p].date, << >>, None))
       /\ tx' = [tx EXCEPT ![p].new = e, ![p].pc = "insLine"]

\* The BEFORE trigger fn_line_account_guard reads the account, then the
\* foreign key of the line locks it.
InsertLine(p) ==
  /\ Statement(p, "insLine") /\ tx[p].lines # << >>
  /\ Serial!LinesAllowed(<< NextLine(p) >>)
  /\ WriteEntry(p, Target(p), [MyRow(p) EXCEPT !.lines = Append(@, NextLine(p))])
  /\ Goto(p, IF Len(MyRow(p).lines) + 1 < Len(tx[p].lines) THEN "insLine"
             ELSE IF tx[p].op \in {"reverse", "close"} THEN "validate"
             ELSE "commit")

\* A close with a zero result deletes the empty header again.
DiscardHeader(p) ==
  /\ tx[p].pc = "insLine" /\ tx[p].lines = << >>
  /\ pend' = [pend EXCEPT ![p].entry = << >>]
  /\ tx' = [tx EXCEPT ![p].new = None, ![p].pc = "closePeriod"]
  /\ UNCHANGED <<entry, balance, postable, period, locks>>

-----------------------------------------------------------------------------
(* Editing a draft: assertDraft is a query of its own, and the UPDATE that *)
(* follows in the transaction does not look at the status again.           *)

AssertDraft(p) ==
  /\ tx[p].pc = "assertDraft"
  /\ Serial!Exists(tx[p].id) /\ entry[tx[p].id].status = "DRAFT"
  /\ tx[p].op = "update" => AssertBalanced(tx[p].lines)
  /\ Goto(p, "updHeader")
  /\ UNCHANGED <<entry, balance, postable, period, pend, locks>>

\* Faulty: the edit writes the status it read at assertDraft back with the row.
UpdateWholeRow(p) ==
  /\ Statement(p, "updHeader")
  /\ tx[p].op = "restore" => MyRow(p).deleted /\ MyRow(p).status = "DRAFT"
  /\ WriteEntry(p, tx[p].id,
       [MyRow(p) EXCEPT !.status = "DRAFT", !.deleted = (tx[p].op = "delete")])
  /\ Goto(p, "audUpdate")

UpdateHeader(p) ==
  /\ Statement(p, "updHeader")
  /\ tx[p].op = "restore" => MyRow(p).deleted /\ MyRow(p).status = "DRAFT"
  /\ WriteEntry(p, tx[p].id,
       CASE tx[p].op = "update"  -> [MyRow(p) EXCEPT !.date = tx[p].date]
         [] tx[p].op = "delete"  -> [MyRow(p) EXCEPT !.deleted = TRUE]
         [] tx[p].op = "restore" -> [MyRow(p) EXCEPT !.deleted = FALSE])
  /\ Goto(p, "audUpdate")

\* The audit trigger of that UPDATE; updateDraft then deletes the old lines.
AuditUpdate(p) ==
  /\ Statement(p, "audUpdate")
  /\ IF tx[p].op = "update"
     THEN /\ WriteEntry(p, tx[p].id, [MyRow(p) EXCEPT !.lines = << >>])
          /\ Goto(p, "insLine")
     ELSE Goto(p, "commit") /\ UNCHANGED pend

\* restore's UPDATE matches no row and the transaction commits nothing.
RestoreNothing(p) ==
  /\ tx[p].pc = "updHeader" /\ tx[p].op = "restore"
  /\ ~(MyRow(p).deleted /\ MyRow(p).status = "DRAFT")
  /\ Rollback(p)

-----------------------------------------------------------------------------
(* fn_post_journal_entry, and fn_reverse_journal_entry around it.          *)

\* SELECT ... FOR UPDATE of the entry to post or of the source to reverse.
LockEntry(p) ==
  /\ Statement(p, "lockEntry")
  /\ Serial!Exists(tx[p].id)
  /\ IF tx[p].op = "reverse"
     THEN /\ entry[tx[p].id].status = "POSTED"
          /\ tx' = [tx EXCEPT ![p].pc = "insHeader",
                              ![p].lines = Mirror(entry[tx[p].id].lines)]
     ELSE /\ entry[tx[p].id].status = "DRAFT"
          /\ Goto(p, "validate")
  /\ UNCHANGED pend

\* The period is read without a lock; then the lines are checked and the
\* accounts to lock are collected.
Validate(p) ==
  /\ Statement(p, "validate")
  /\ Serial!PeriodOpen(MyRow(p).date) /\ Balanced(MyRow(p).lines)
  /\ tx' = [tx EXCEPT ![p].pc = "lockAccount", ![p].todo = AccountsOf(MyRow(p).lines)]
  /\ UNCHANGED pend

\* ORDER BY id FOR UPDATE: one account row after the other, lowest id first.
LockAccount(p) ==
  /\ Statement(p, "lockAccount")
  /\ LET rest == tx[p].todo \ {NextAccount(p)} IN
       tx' = [tx EXCEPT ![p].todo = rest,
                        ![p].pc = IF rest = {} THEN "fold" ELSE "lockAccount"]
  /\ UNCHANGED pend

\* The UPDATE of the balances; the audit trigger of its rows runs after it.
Fold(p) ==
  /\ Statement(p, "fold")
  /\ pend' = [pend EXCEPT ![p].balance =
       [a \in AccountsOf(MyRow(p).lines) |-> balance[a] + Delta(MyRow(p).lines, a)]]
  /\ Goto(p, "audFold")

AuditFold(p) ==
  /\ Statement(p, "audFold")
  /\ Goto(p, "flip") /\ UNCHANGED pend

\* The header becomes POSTED; fiscal_period_id locks the row it refers to.
Flip(p) ==
  /\ Statement(p, "flip")
  /\ WriteEntry(p, Target(p), PostedRow(MyRow(p)))
  /\ Goto(p, CASE tx[p].op = "reverse" -> "markSource"
               [] tx[p].op = "close"   -> "closePeriod"
               [] OTHER                -> "commit")

\* Faulty: the reversal leaves its source POSTED.
MarkNothing(p) ==
  /\ Statement(p, "markSource")
  /\ Goto(p, "commit") /\ UNCHANGED pend

MarkSource(p) ==
  /\ Statement(p, "markSource")
  /\ WriteEntry(p, tx[p].id, [Seen(p)[tx[p].id] EXCEPT !.status = "REVERSED"])
  /\ Goto(p, "commit")

-----------------------------------------------------------------------------
(* fn_recompute_account_balance, and an account created under a parent.    *)

LockOne(p) ==
  /\ Statement(p, "lockOne")
  /\ Goto(p, "recompute") /\ UNCHANGED pend

Recompute(p) ==
  /\ Statement(p, "recompute")
  /\ pend' = [pend EXCEPT ![p].balance =
       [a \in {tx[p].acct} |-> BalanceOver(entry, PostedIn(entry), a)]]
  /\ Goto(p, "audRecompute")

AuditRecompute(p) ==
  /\ Statement(p, "audRecompute")
  /\ Goto(p, "commit") /\ UNCHANGED pend

\* INSERT of the child: its foreign key locks the parent, then the audit
\* trigger runs, then fn_parent_not_postable updates a postable parent.
InsertChild(p) ==
  /\ Statement(p, "insAccount")
  /\ Goto(p, "audAccount") /\ UNCHANGED pend

AuditChild(p) ==
  /\ Statement(p, "audAccount")
  /\ Goto(p, "control") /\ UNCHANGED pend

ControlParent(p) ==
  /\ Statement(p, "control")
  /\ pend' = [pend EXCEPT ![p].control = {tx[p].acct}]
  /\ Goto(p, "commit")

-----------------------------------------------------------------------------
(* fn_close_fiscal_period, up to the header of the closing entry.          *)

TryClose(p) ==
  /\ tx[p].pc = "tryClose"
  /\ \A l \in locks : l.on # CloseLock
  /\ locks' = locks \cup {[proc |-> p, on |-> CloseLock, mode |-> "UPDATE"]}
  /\ Goto(p, "lockPeriod")
  /\ UNCHANGED <<tables, pend>>

LockPeriod(p) ==
  /\ Statement(p, "lockPeriod")
  /\ period[tx[p].per] # "CLOSED"
  /\ Goto(p, "count") /\ UNCHANGED pend

CountDrafts(p) ==
  /\ Statement(p, "count")
  /\ DraftsIn(entry, tx[p].per) = {}
  /\ Goto(p, "net") /\ UNCHANGED pend

SumNet(p) ==
  /\ Statement(p, "net")
  /\ tx' = [tx EXCEPT ![p].pc = "insHeader",
                      ![p].lines = ClosingLines(PeriodNet(entry, tx[p].per))]
  /\ UNCHANGED pend

ClosePeriod(p) ==
  /\ Statement(p, "closePeriod")
  /\ pend' = [pend EXCEPT ![p].closed = {tx[p].per}]
  /\ Goto(p, "commit")

-----------------------------------------------------------------------------
(* The end of a transaction.                                               *)

\* trg_lines_balanced and trg_header_balanced, deferred to the commit.
DeferredChecks(p) ==
  \A e \in DOMAIN pend[p].entry :
    pend[p].entry[e].status = "POSTED" => Balanced(pend[p].entry[e].lines)

\* The transaction of a transfer's draft is followed by the one that posts it.
Commit(p) ==
  /\ tx[p].pc = "commit" /\ DeferredChecks(p)
  /\ entry' = Seen(p)
  /\ balance' = Overlay(balance, pend[p].balance)
  /\ postable' = [a \in Account |-> postable[a] /\ a \notin pend[p].control]
  /\ period' = [q \in Period |-> IF q \in pend[p].closed THEN "CLOSED" ELSE period[q]]
  /\ tx' = [tx EXCEPT ![p] =
       IF tx[p].op = "transfer"
       THEN [Idle EXCEPT !.pc = "lockEntry", !.op = "post", !.id = tx[p].new]
       ELSE Idle]
  /\ pend' = [pend EXCEPT ![p] = NoWrites]
  /\ locks' = Release(p)

\* The statement raises, or the service throws: the checks that fail.
Raises(p) ==
  LET t == tx[p] IN
  \/ /\ t.pc = "assertDraft"
     /\ \/ ~Serial!Exists(t.id)
        \/ entry[t.id].status # "DRAFT"
        \/ t.op = "update" /\ ~AssertBalanced(t.lines)
  \/ /\ t.pc = "lockEntry"
     /\ \/ ~Serial!Exists(t.id)
        \/ /\ WaitsFor(p) = {}
           /\ entry[t.id].status # (IF t.op = "reverse" THEN "POSTED" ELSE "DRAFT")
  \/ /\ t.pc = "validate"
     /\ ~(Serial!PeriodOpen(MyRow(p).date) /\ Balanced(MyRow(p).lines))
  \/ t.pc = "insLine" /\ t.lines # << >> /\ ~Serial!LinesAllowed(<< NextLine(p) >>)
  \/ t.pc = "tryClose" /\ \E l \in locks : l.on = CloseLock
  \/ t.pc = "lockPeriod" /\ WaitsFor(p) = {} /\ period[t.per] = "CLOSED"
  \/ t.pc = "count" /\ DraftsIn(entry, t.per) # {}
  \/ t.pc = "commit" /\ ~DeferredChecks(p)

Refuse(p) == Raises(p) /\ Rollback(p)

\* deadlock_timeout: the server rolls one transaction of a cycle back.
DeadlockVictim(p) ==
  /\ \E S \in SUBSET Proc : p \in S /\ Deadlocked(S)
  /\ Rollback(p)

\* The process dies or the connection is lost between two statements.
Crash(p) == Crashes /\ tx[p] # Idle /\ Rollback(p)

-----------------------------------------------------------------------------
Request(p) ==
  \/ RequestCreate(p) \/ RequestPost(p) \/ RequestReverse(p)
  \/ RequestUpdate(p) \/ RequestDelete(p) \/ RequestRestore(p)
  \/ RequestChild(p) \/ RequestRecompute(p) \/ RequestClose(p)

Work(p) ==
  \/ InsertHeader(p) \/ InsertLine(p) \/ DiscardHeader(p)
  \/ AssertDraft(p) \/ UpdateHeader(p) \/ AuditUpdate(p) \/ RestoreNothing(p)
  \/ LockEntry(p) \/ Validate(p) \/ LockAccount(p) \/ Fold(p)
  \/ AuditFold(p) \/ Flip(p) \/ MarkSource(p)
  \/ LockOne(p) \/ Recompute(p) \/ AuditRecompute(p)
  \/ InsertChild(p) \/ AuditChild(p) \/ ControlParent(p)
  \/ TryClose(p) \/ LockPeriod(p) \/ CountDrafts(p) \/ SumNet(p) \/ ClosePeriod(p)
  \/ Commit(p) \/ Refuse(p)

Next == \E p \in Proc : Request(p) \/ Work(p) \/ DeadlockVictim(p) \/ Crash(p)

Spec == Init /\ [][Next]_vars

\* PostgreSQL runs every statement whose lock is granted, hands a contended
\* lock to its waiters in the order they came (so none starves: strong
\* fairness), and ends every lock cycle.  Nothing makes a client send another
\* request.
Fairness == \A p \in Proc : SF_vars(Work(p)) /\ WF_vars(DeadlockVictim(p))

FairSpec == Spec /\ Fairness

-----------------------------------------------------------------------------
(* Properties.                                                             *)

TypeOK ==
  /\ Serial!TypeOK
  /\ tx \in [Proc -> [pc : Steps, op : Serial!OpNames \cup {None},
                      id : Entry \cup {None}, new : Entry \cup {None},
                      date : Date \cup {None}, lines : Seq(LineDto),
                      acct : Account \cup {None}, per : Period \cup {None},
                      todo : SUBSET Account]]
  /\ \A p \in Proc :
       /\ DOMAIN pend[p].entry \subseteq Entry
       /\ pend[p].entry \in [DOMAIN pend[p].entry -> Row]
       /\ pend[p].balance \in [DOMAIN pend[p].balance -> Int]
       /\ pend[p].control \subseteq Account /\ pend[p].closed \subseteq Period
  /\ \A l \in locks : l.proc \in Proc

\* What the operations promise one at a time they keep when their statements
\* interleave: every commit is one atomic step of Ledger, all else stutters.
Implements == Serial!Spec

\* "Only DRAFT entries can be edited or deleted": no step changes an entry
\* that has been posted, except to mark it REVERSED.
PostedImmutable == Serial!PostedImmutable

\* The balances a transaction is about to publish were computed from what it
\* will overwrite, a post's from the balances and a recompute's from the
\* posted lines: no other commit came in between.
NoStaleFold ==
  \A p \in Proc : \A a \in DOMAIN pend[p].balance :
    pend[p].balance[a] =
      IF tx[p].op = "recompute" THEN BalanceOver(entry, PostedIn(entry), a)
      ELSE balance[a] + Delta(MyRow(p).lines, a)

\* The open transactions: their writes have their types and publish no balance
\* that was computed from a stale one.
FoldsSound == TypeOK /\ NoStaleFold

\* Whatever stale check an edit ran on, an entry never leaves the ledger
\* again: its status only ever goes from DRAFT to POSTED to REVERSED.
StatusAdvances ==
  [][\A e \in DOMAIN entry :
       /\ e \in DOMAIN entry'
       /\ entry[e].status # entry'[e].status =>
            <<entry[e].status, entry'[e].status>>
              \in {<<"DRAFT", "POSTED">>, <<"POSTED", "REVERSED">>}]_vars

\* "Deadlock avoidance" by locking accounts in ascending id order: no lock
\* cycle is made of posts alone, whatever the other connections hold.
NoPosterCycle ==
  \A S \in SUBSET {p \in Proc : tx[p].op = "post"} : ~Deadlocked(S)

\* Every request that was accepted is answered: its last transaction commits
\* or is rolled back.
RequestsEnd == \A p \in Proc : tx[p].pc # "idle" ~> tx[p].pc = "idle"
==============================================================================

# A TLA+ model of ARKA ERP

This directory models ARKA ERP: the double-entry ledger that lives in PostgreSQL
functions and triggers (`src/database/init/*.sql`), the NestJS services that call
them (`src/backend/src`), and the browser front end (`src/frontend/src`). TLC
checks the models on small instances, TLAPS proves the theorems of `*Proofs.tla`
for all values of the constants. `PROJECT.json` lists the components, the runs,
the source lines of every definition, the hazards and the findings.

## The system

| Part | State | Operations | What makes it hard |
|---|---|---|---|
| Journal and posting engine (`accounting/`, `04`, `05`) | entries with lines, cached account balances, periods | create, edit, delete, restore a draft; post; transfer; reverse; recompute; close a period | concurrent posts to one account, stale checks before a transaction, long histories of reversals and closes |
| Transactions (`common/database`, PostgreSQL) | locks, uncommitted writes | statements, commit, rollback | READ COMMITTED reads, lock cycles, crashes |
| Chart of accounts (`accounts.service`, `04`) | hierarchy, `is_postable` | create | a leaf that becomes a control account under a draft |
| Reports (`reports/`, `06`) | none | trial balance, profit and loss, balance sheet, cash flow, ledger, ageing | they mix cached balances with sums over lines |
| Audit trail (`02`) | chained rows, the actor setting | a trigger on every audited write; verification | order of hashes under concurrency and rollback, pooled connections |
| Sessions (`auth/`, `03`) | refresh tokens, the user's row | login, rotation, reuse detection, logout, revocations | statements without a transaction, lost answers |
| User accounts (`users/`, `auth/`, `bootstrap/`, `03`) | accounts, failed logins, TOTP secrets | create, edit, delete, lock out, enrol and activate a second factor | checks in one statement, writes in a later one |
| Roles and permissions (`users/`, `common/auth`, `07`, `09`) | role and user grants, copies in tokens and pages | guards of every handler, screen and route | three lists kept by hand, copies that go stale |
| Front end session (`api/client`, `stores/auth`, `router`) | access token, cookie, the user as last read | silent refresh, login, logout, navigation | answers that overtake each other |
| Payroll (`payroll/`, `10`) | runs, payslips | create a run, post it to the ledger | concurrent requests, salaries that change, rounding |
| Personnel, tasks, customers, projects (`hr/`, `tasks/`, `customers/`, `projects/` and their screens) | records with soft deletion, lists, forms | create, edit, set a status, delete, restore | forms and lists out of step with the server, edits of deleted records |
| Start-up (`bootstrap/db-init`, `serverless.ts`) | the schema | initialise | partial failure |

The services share nothing but the database. A request is a few statements on a
pooled connection: `DatabaseService.withActor` makes them one transaction that
carries the acting user in settings local to it, `DatabaseService.query` sends
one statement without either. Every write to an audited table fires `fn_audit`,
which takes one advisory lock for the whole database, so the audit trail takes
part in the locking of every other component. The front end calls the API with
an access token in memory and an HttpOnly refresh cookie; the token carries a
copy of the user's permissions, and the page another one, from `/auth/me`.

What correctness means for each part:

- **Ledger**: each cached balance is the sum of the deltas of what was posted,
  each entry once; posted entries never change except to REVERSED; reversals
  pair with their sources; a closed period gains nothing; only leaf accounts
  are posted to; the recompute changes nothing that is right.
- **Transactions**: an operation that is atomic in the mind of its caller is
  atomic under interleaving; no balance is computed from a stale one; requests
  end.
- **Reports**: the statements balance and agree with the posted lines.
- **Audit trail**: it verifies, only grows at its end, and names the right user.
- **Sessions**: one usable token per session, dead sessions stay dead, a
  password change ends the older sessions.
- **Accounts**: one account per address, deleted ones stay inactive, guesses
  are bounded, a second factor is on only once its owner proved to have it.
- **Permissions**: a screen offers what the server serves, and a permission that
  is taken away ends.
- **Front end session**: the tab's own refreshes never end its session, every
  call settles, every navigation arrives, a logout is complete.
- **Payroll**: one run per period, booked once, with the amounts it shows.
- **Records**: what is saved is what the form shows, once; the list shows it;
  deleted records rest; an assignee or login belongs where the database says.

## Modules

| Module | Models |
|---|---|
| `Bookkeeping` | accounts, lines, entries and the pure computations of `04` and `05` |
| `Ledger` | the ledger with atomic operations: the abstract specification |
| `LedgerTx` | the same operations as SQL statements of concurrent transactions; refines `Ledger` (`Implements`, through `Serial == INSTANCE Ledger`) |
| `Reports` | the views of `06` and `ReportsService`, over the states of `Ledger` |
| `AuditChain` | `fn_audit`, the chain lock, the actor setting, the verifier |
| `Sessions` | refresh tokens of one user |
| `Users` | user accounts, lockout, second factor |
| `Access` | roles, permissions of handlers, screens and routes; the guard (pure definitions) |
| `Client` | one browser tab against one session of the server; EXTENDS `Access` |
| `Payroll` | payroll runs from creation to posting |
| `Records` | projects, customers, tasks, personnel: services, list, form and dialog |
| `BookkeepingProofs` | lemmas about the computations of `Bookkeeping` and about sums |
| `LedgerProofs` | theorems about `Ledger` and `Reports` |
| `LedgerTxProofs`, `AuditChainProofs`, `SessionsProofs`, `UsersProofs`, `PayrollProofs` | theorems about the modules of these names |
| `FrontendProofs` | theorems about `Client` (with `Access`) and `Records` |
| `MC*` | constants of the TLC runs |

**Ledger.** `entry` is `journal_entries` with the lines of each header (lines
are only written by a transaction that inserted or updated the header);
`balance` and `postable` are columns of `accounts`; `period` is
`fiscal_periods.status`. `CreateDraft`, `UpdateDraft`, `DeleteDraft` and
`Restore` are the methods of `JournalService`; `AddPosted` is the body of
`fn_post_journal_entry`, which `PostJournalEntry`, `ReverseJournalEntry` and
`CloseFiscalPeriod` share as the SQL functions do. `TransferDraft` is only the
first half of a transfer: the code posts in a second transaction, so the draft
may stay behind.

**LedgerTx.** `tx[p].pc` is the next statement of connection `p`; `pend[p]`
holds its uncommitted writes, `locks` the granted locks. `Need` says which lock
the next statement asks for and `WaitsFor` who keeps it waiting. Row locks have
PostgreSQL's modes as far as the code reaches them (`FOR UPDATE`, an UPDATE's
`NO KEY UPDATE`, a foreign key's `KEY SHARE`). The audit trigger of a statement
is a step of its own, because it waits for the audit lock after the statement
has its row lock. `assertDraft` is a step on no transaction, as in the code.
`DeadlockVictim` is the server's deadlock detector, `Crash` a connection that
is lost, `Refuse` every exception. `Commit` is the refinement's only visible
step. An audit trigger stands on neither `journal_lines` nor `fiscal_periods`,
so writing those takes no audit lock.

Operations `child` and `recompute` write columns that the role `arka_app` has
no UPDATE right on (`05:282-285`), through functions that are not
`SECURITY DEFINER`. They succeed only where the application's role owns the
schema (the serverless deployment, which creates the schema itself); `Ops`
says which operations a run has.

**Reports** adds no action; a report is a function of the state, and the
properties say what every history of `Ledger` makes it show. `OnSheet` are the
rows the balance sheet lists, postable accounts with a parent; since such an
account is a leaf, the roll-up that the query reads is its own balance.
`SheetExplained` says by how much the program's "balanced" fails: by the
accounts that the sheet adds with the wrong sign (`Contra`) or does not list
(`OffSheet`), and by nothing else. `ReportsAgree` compares the two columns of
the trial balance with each other, each of its rows with the cached balance and
the drafts (`TrialShowsDrafts`), and the cash flow with the cash in the books.
The run has no reversal, which the balance sheet and the cash report do not
survive (see the findings), and no child accounts, with which a trial balance
loses rows.

**AuditChain.** `rows[c]` are the audit rows of an open transaction, `log` the
committed ones, `nextId` the identity sequence, which a rollback does not turn
back. A digest is an uninterpreted function; TLC takes an injective one.
`changed_at` is part of the data, except that its text depends on the time zone
of the session.

**Sessions.** One user. Each step is one statement of `AuthService`, which runs
them without a transaction; `job` is where a worker stands between two of them.
`held` are the tokens that reached a client: a token that was issued by a
rotation cut off before its answer is in the table but with nobody.
`tok[t].login` is history: the password with which the session was opened;
`raced` says that two requests overlapped or one was cut off, which
`SessionsSound` excludes and the other properties do not.

**Users.** A row of `user` is a row of `arka.users`. `Check*` and `Read*` are
the SELECTs, after which `job` keeps what the request still relies on;
`InsertUser`, `UpdateUser`, `RegisterFailedLogin`, `EnableMfa` and so on are the
writes, each with the WHERE clause and the unique index of the table. The
bootstrap account is inserted by the same pair of steps, with any number of
servers starting. `failed` is cut at the limit, with which alone the code
compares it; `guesses`, `proven` and `raced` are history.

**Access** has one operator per controller, a set of rules, each with handlers and
the permissions that their decorators ask for, and per screen two: what it calls when it opens
and what its buttons call, under the permission that shows them. `Links` are the
links on a screen beside the sidebar, `Guard` is the router's guard.

**Client.** `calls` are requests that carry the access token of the moment they
were sent, `flight` the refreshes (of a call, or of the page that starts),
`jar` the cookie. The server is one step per refresh here (`Rotate`); `Sessions`
has its statements. A refresh token is `current` or was rotated away (`old`),
which is what the server's reuse detection tells apart. `Unauthorized`,
`Refreshed` and `RefreshFailed` are the parts of the response interceptor
between its awaits. The user changes screens, saves the profile, logs out, and
reloads; an administrator moves the user between roles meanwhile. `FetchMe`
answers or fails: a `GET /auth/me` that meets 401 passes through the same
interceptor as any call (`client.ts:51`), and that case is left to `calls`. The
run visits neither the ledger nor the new entry, so the links between them are
covered by the theorems only (`TabIsSound`, `RedirectsEnd`).

**Payroll.** A request is a transaction with one statement per step; its run is
visible when it commits. `InsertRun` waits on the unique index for another
transaction that has inserted the same period, `LockRun` on the row lock.
Posting the entry is one step that succeeds or rolls back: `Ledger` and
`LedgerTx` have the journal.

**Records.** One module for the four kinds, because the four screens and
services are built alike; where they differ (what an update coalesces, how a
form is filled, which form can be saved) each has its own operator. A request
is served and answered in separate steps, and the answer may be lost. `Contents`
is what the screen sends, `Requests` what the updates of other clients of the API
may contain besides: a task with or without an assignee, whatever its kind.
`unnamed` is history: such an update made a group task personal and named nobody.
`form.of`
is the record whose contents the form was filled with, `form.id` the variable
`editId` of the code.

## Runs

| Run | Shows | Bounds |
|---|---|---|
| `ledger_serial` | balances, reversal links, closing entries, posted entries, closed periods, over all operations but the recompute | 3 entries, 2 periods and a date in neither, 4 line lists (a sale, a cost, an unbalanced and a zero one) |
| `tx_implements` | refinement of `Ledger`, no stale fold; post, transfer, reverse, restore, recompute, child, crashes | 3 connections, 3 entries |
| `tx_edits` | no stale fold, no lock cycle among posters, no return to DRAFT, and every request is answered, while edits, deletions and closes race and connections crash | 2 connections, 2 entries with opposite lines |
| `tx_edit_posted` | finding: a posted entry is deleted | 2 connections, 1 entry |
| `reports` | the balance sheet is off by what it misreads and nothing else, the trial balance is the balances plus the drafts, the cash report is the cash, and the recompute is a no-op, while nothing is reversed | 4 entries, 2 periods, 9 accounts, of which a contra asset, drawings and a root account |
| `sheet_after_reversal` | finding: the balance sheet after a reversal | 2 entries |
| `audit_chain` | the chain verifies, grows at its end, names the right user | 2 connections, 2 users, 4 rows |
| `sessions` | rotation links are lineages, dead sessions stay dead, with overlapping requests and crashes; without overlap one usable token per session and none of an old password | 2 workers, 3 tokens, 2 families, 2 passwords |
| `users` | one account per address, deleted ones inactive, guesses bounded, factors verified | 2 requests, 2 accounts, 2 addresses, 2 secrets, lock after 2 |
| `client` | refreshes look like no theft, logout ends the session, screens offer what is served, navigation ends, calls settle, removed permissions end | 1 tab, 2 calls and the page's refresh, 2 roles, 2 screens besides the start page |
| `payroll` | one run per period, one entry per run, amounts as shown, drafts can be posted | 2 requests, 2 runs, 2 periods, 2 people, salaries 0 and 3, percentages that divide neither |
| `records` | a save writes what the form shows and once, the list follows, deleted records rest, tasks and logins stay consistent | 2 records of each kind, 2 names, 1 user; 2 loads of the list at a time |

Each module has a type invariant; where a run checks it together with the
invariants of the same table, the conjunction has a name of its own
(`AccountsSound`, `RowsSound`, `RunsSound`, `TabSound`, `TokensSound`,
`FoldsSound`, `ReportsAgree`).

The bounds hold the cases that matter: three entries are a source, its mirror
and one more, or a draft, a post and a closing entry; two accounts that every
entry shares, in opposite order, make every two posts meet; a lock cycle needs
two connections. A race between a check and a write needs two requests; three
wrong passwords of which two are checked at once pass a lock after two; two
calls share a refresh while the page has another. Two records, of which one is
deleted, edited, restored or reassigned while the other is open, are enough for
a form to write the wrong one and for two records to claim one login. Salary 3
with a tax of 10 and an insurance of 7 percent rounds everything down to zero;
50 and 49 percent leave 0.03 before and 1 after the truncation. The identity column, the
passwords and the tokens are bounded by guards (`MaxId`, `MaxPw`, `Token`);
`IdLeft` keeps a request from starting when no entry id is left. Runs in which
ids, rows or tokens can run out, or in which a user may simply do nothing more,
do not check for deadlock; the `tx_*` runs, `payroll` and `records` do. Symmetry
is used in safety runs only.

**Fairness.** `LedgerTx!FairSpec` asks strong fairness of each connection's work
and weak fairness of the deadlock detector: PostgreSQL runs every statement
whose lock is granted, queues the waiters of a lock in the order they came, and
breaks every cycle after `deadlock_timeout`. `Client!FairSpec` asks weak fairness
of what the event loop and the server do by themselves: a request that was sent
is answered or fails, a callback runs, a redirect is followed, an access token
expires. No request is ever forced to arrive and no user to act. A request that
is cut off by a crash counts as ended.

## Findings

Two runs end in a violation; `PROJECT.json` quotes the sentence of the
repository each of them checks.

- `tx_edit_posted`: `assertDraft` looks at the status on another connection
  than the one that then edits or deletes the entry by id, so an entry posted in
  between is changed although it is POSTED.
- `sheet_after_reversal`: a reversal leaves a POSTED mirror and a REVERSED
  source. The cached balances contain both, every sum over POSTED rows only the
  mirror: net income, and with it the balance sheet identity, is off by the
  reversed amount.

Further places where the code departs from its comments or from what a user
would expect. The models contain those that touch what they model; no run is
spent on them, and the properties are stated so that they do not deny them.

Ledger and reports:

- `fn_recompute_account_balance` sums POSTED rows, so after a reversal it
  changes a balance that was right. Hence `reports` has no reversal, and
  `CacheCorrect` is proved for ledgers without the recompute.
- `fn_post_journal_entry` reads the period without a lock. A post that read
  OPEN waits only at the foreign key of its last UPDATE and then commits into
  the period that has just been closed (`04:10` promises the contrary), so
  `ClosedPeriodFrozen` is checked and proved of the atomic operations and not of
  `LedgerTx` with closes.
- A post does not look at `is_postable`: a draft whose account has since got a
  child is posted to a control account (`04:7`).
- A lock cycle is possible although accounts are locked in the order of their
  ids (`05:15`): creating a draft holds the audit lock and asks for accounts, a
  post holds accounts and asks for the audit lock. `NoPosterCycle` is therefore
  about posts; `RequestsEnd` relies on the server's detector for the rest.
- `v_trial_balance` tests the status in the ON clause of its LEFT JOIN and
  sums the lines of drafts too, where `06:71` says "from POSTED lines only". Both
  columns still balance; each row is the balance plus the drafts, deleted ones
  included (`TrialShowsDrafts`).
- `balanceSheet` adds the seeded contra accounts 1590 and 3020 to their types,
  although their balances have the sign of their own side, and leaves out a
  postable account without a parent (`reports.service:52`), which the API lets
  anybody with `ledger.post` create. "balanced" is false as soon as one of them
  has a balance, without any reversal. `SheetExplained` has these terms, and the
  run `reports` has such accounts; `sheet_after_reversal` has none of them, so its
  violation is the reversal's alone.
- Writes through `query()` are audited without an actor (`README.md:87`), a
  trail verifies only in the time zone it was written in, and `changed_at` need
  not follow the order of the trail.
- The step-up of `README.md:84` is asked for a transfer and not for a reversal.

Sessions and accounts:

- `revokeAllForUser` (`auth.service:227`) revokes the tokens that exist when it
  runs. A login or a rotation that passed its checks before inserts its token
  afterwards, and the session of the old password goes on. `SessionsSound` is
  stated for requests that do not overlap.
- Two rotations of one token that overlap both succeed, and leave two usable
  tokens in one session.
- A failed TOTP is not counted, and a right password resets the counter before
  the code is asked for. An expired lock does not reset it: one more wrong
  password locks again.
- The bootstrap account, by its comment made "on first boot", is made again
  with the default password at every start at which its address has no live
  account, as after a change of the address.
- Two administrators can delete each other, after which nobody manages users.
- Two concurrent `setUserPermissions` leave the union of both sets. The users
  screen always stores the role's permissions as the user's own, so a later
  change of role changes no permission. `issueTokens` reads the role before
  the grants, and a token may mix an old role with new grants.
- `activateMfa` may switch on a factor whose secret was replaced after the code
  was checked; `EnabledIsVerified` excludes that overlap.

Front end:

- Two tabs share the cookie and not the single flight: when both refresh, the
  second presents a token that was rotated away, and the session ends. So does
  a reload, or a lost answer, during a refresh. `Client` has one tab, and
  `NoFalseAlarm` excludes lost answers.
- A refresh that overlaps a logout revives the session, a late `/auth/me` the
  user; a login while an old refresh is under way may end with the old token.
- The menus follow the permissions of the last `/auth/me`, not those of the
  token. The ledger shows the link to a new entry to whoever may view it
  (`LedgerView.vue:55`), and sends those without `ledger.create`, such as the
  CEO, back to their start page. The trash offers the restore of a journal entry to whoever may view the
  ledger. The route `ledger` asks for `ledger.view` and its screen for
  `report.financial`, and `journalNew` loads accounts under `ledger.view`; with
  the seeded roles nobody has the one without the other, with own grants a user
  may. `OfferedIsServed` is stated for seeded roles. The router's last resort, a
  route named `security`, does not exist; nobody reaches it, because the start
  page asks for no permission.
- `openEdit` of personnel sets `editId` and then waits for the record, so two
  openings that cross fill the form of one record with another one's contents.
  A late answer to a save closes whichever form is open by then, and loads that
  overtake each other leave the older list. A save sends the whole form and
  overwrites what others changed. Only `save` is guarded against a second click.
- A failed post after `JournalNewView` created its draft leaves the draft, and
  saving again makes a second one.

Payroll and records:

- A run for a month in which everybody who was counted has since left has no
  payslips, can never be posted, and keeps its period. So does one whose tax and
  insurance reach 100 percent together.
- Reversing the entry of a run leaves the run POSTED.
- `projects` sets `manager_id` to null on every edit of a screen that does not
  send it. The API of tasks accepts a personal task without an assignee on an
  edit of a group task, although `create` answers "A personal task needs an
  assignee"; the screen never sends that, and `TaskShape` says that nothing else
  leads to such a task. A task that is created as
  DONE has no time of completion.
- Codes are padded with `lpad` to four digits, which cuts the 10000th. A deleted
  record whose code or login was given to another cannot be restored, and the
  index says so with an internal error. A position whose personnel are all
  deleted can still not be deleted.

## Proofs

Every safety invariant and action property of the passing runs is proved for
every value of the constants; some are proved under the hypotheses named below. The runs check each of them on a small instance
first, and the inductive invariants were model-checked before they were proved.

The assumptions are those of the constants, with their modules: accounts are
finitely many naturals and each is of one type (`account_type` is one column),
`None` is no id, periods contain their last day, a request has at least two
lines, the connections of a pool have one time zone, there are finitely many
workers (`Users`) and people (`Payroll`), a first password, a lock after at
least one failure, salaries are naturals and percentages lie between 0 and 100,
and the role of a user is one of the roles (`users.role` is a column of an
enumerated type that is not null).

**Sums** (`BookkeepingProofs`). A report adds over a set in whatever order the
set is listed, so a proof has to be free of the order. Sums are recursive
functions; that they exist, are integers and grow by one summand at a time is
proved from a least counterexample, by the well-foundedness of `<` on the
naturals, since the induction theorems of the library take an operator and
cannot be used. `OverSet(F, S)` is the sum of a function over a finite set;
`OverOneMore` says that one more member adds its value, and from it follow that
the sum does not depend on the listing (`ListedSum`), adds over disjoint parts
(`OverParts`), is additive (`OverAdd`), and that summing lines by account and
summing accounts by line are the same (`SpreadOver`).

**Ledger** (`LedgerProofs`). `TypeCorrect` goes action by action. The lemma
`Effects` then says that a step leaves the entries alone, writes a draft, posts
a draft or reverses a posted entry, and the other theorems have these four
cases.

- `PostedNeverChanges`, `ReversalsPair`, `ClosedStaysFrozen`.
- `CacheCorrect`, where the recompute is not called: a posting step extends the
  listing of posted entries by one and adds its delta. With the recompute it is
  false after a reversal (see the findings).
- `RecomputeChangesNothing`, where nothing is reversed. The invariant `Healthy`
  says that every balance is the sum over the POSTED entries.
- `ClosedOnFinalResult`: `ClosedOK` adds to the property that posted entries lie
  in the period of their date and that a closing entry is the only one of its
  period. Hypothesis `ClosingAccounts`: the summary and the retained earnings
  account are both of the result or neither is, as in the seed where both are
  equity; otherwise the closing entry changes the result it was computed from.
- `StatementsAgree`, where nothing is reversed and no account becomes a control
  account, as in the run `reports`, and `SheetOffBy`, where nothing is reversed.
  They need that every entry that is written balances (`BalancedEntries`) and
  `Healthy`. Neither has a hypothesis about the chart: contra, root and control
  accounts are terms of `SheetExplained`. What the sheet lists, with the sign of
  the type, and what it overstates make up the whole chart (`SheetPart`), over
  which balanced entries leave nothing (`SheetFacts`).
- `TrialBalanceAgrees`: for the two columns of the trial balance alone, reversals
  and recomputes may be called as well.
- `SheetAfterReversal`: with reversals and without the recompute, the balance
  sheet is off by exactly the result of the reversed entries, on top of what it
  misreads anyway. This is the finding `sheet_after_reversal`, for every history
  and chart. The invariant `FollowsHistory` says that every balance is the sum
  over all entries that were ever posted, reversed ones included, of which the
  net income shows the part of the POSTED ones (`AppliedParts`).
- `TrialAfterReversal`: over the same histories each row of the trial balance is
  still the balance plus the drafts.

**LedgerTx** (`LedgerTxProofs`). The inductive invariant `IInv` says of each
connection (`Conn`) where it can be in its operation (`Placed`), what it has read
(`Read`), locked (`ToLock`, `Holds`) and written so far (`Written`); of all
together that locks do not conflict (`Exclusive`), that inserted ids are new
(`NewApart`) and what a post may hold (`LocksOK`). `StatementKeeps` reduces a
statement of one connection to these parts, once for every statement.

- `TransactionsAreTyped`; `EntriesOnlyAdvance` (the row lock of a post holds off
  the UPDATE of an edit, and an edit writes no status).
- `PostsDoNotCircle`: in a circle of posts the one that waits for the audit lock
  waits for nobody who waits; otherwise the one that waits for the greatest
  account waits for a holder that waits for a greater one.
- `FoldsAreSound`, hypothesis `EditsApart`: recomputes do not run where drafts are
  edited or deleted. TLC finds the counterexample without it: a delete that found
  its draft before it was posted commits between the read of a recompute and the
  wait for the audit lock, and the recompute publishes a sum that counts the
  deleted entry. `AllFresh` strengthens the property: what is about to be
  published is the fold of what is committed.
- `TransactionsAreAtomic`, the refinement `Implements`, hypothesis `Atomic`: no
  request updates, deletes or closes. An edit may find its draft posted (finding
  `tx_edit_posted`) and a close does not hold off the posts that have read OPEN,
  so with them commits are not operations of `Ledger`. Every step but `Commit`
  leaves the tables alone and maps to a stutter; for `Commit`, `AllChecked` says
  that what the transaction checked at its statements (leaf accounts, open
  period, balanced lines) is still so, and with `AllFresh` each operation's
  writes are those of the atomic one.

**AuditChain.** `IInv` adds to `TypeOK` that only the holder of the lock has
uncommitted rows (`Exclusive`), that its rows come after the committed ones
(`InOrder`), that each connection sees an intact chain (`ChainInv`), and that a
setting belongs to the request being served (`ActorInv`). Without the first two
a commit could insert a row in the middle of the chain.

**Sessions.** `IInv` says what each request still knows of the token it read
(`Remembers`), that the token a rotation inserted is not linked yet
(`Unlinked`), and, as long as nothing overlapped (`Alone`), that a second usable
token or one of an old password exists only while the request that will revoke
it is under way. `DeadSessionsStayDead` needs no more than that a rotation's new
token is of the family of its old one.

**Users.** `IInv` counts guesses (`Counted`): an open account counts each wrong
password in `failed`, a locked one leaves at most those that were being checked
when it was locked. `CodesKnown` says that an activation under way has seen the
secret that is in the row.

**Payroll.** `IInv` says what a request knows at each step (`Knows`) and that the
unique index keeps apart the transactions that insert runs (`Apart`).
`DraftsCanBePosted` rests on two sums over sets of payslips and on the
truncation of the deductions; sums over sets are those of the community modules,
reached by their definition (`FoldIsSum`).

**Records** (`FrontendProofs`). Every write replaces one row by one of the right
shape (`Writes`), the shape depending on whether an update has named nobody for a
personal task (`unnamed`); that gives the properties of the table. The screen has an
invariant of its own (`Shown`, `Made`, `Seen`).

**Client** (`FrontendProofs`), for any number of calls, screens and profiles.

- The invariant `TabInv` says what the page is doing (`Phases`: nothing but the
  page's own refresh runs before it is up), that at most one refresh is under way
  and brings the current token (`OneRefresh`), that while the session lives and
  no answer was lost nobody presents a rotated token and one in the jar is about
  to be replaced (`Fresh`), and what a logout has left (`LogoutMet`).
  `NoAlarmByItself` is not inductive without the last part of `Fresh`: between a
  rotation and its answer the jar does hold a rotated token, and only the single
  flight keeps the next refresh from sending it.
- `TabIsSound` also needs that a call that waits waits for a refresh that is
  under way (`WaitersAreTold`). A refresh that ends finds all waiters waiting for
  it, because there is no other; this is the part of `CallsSettle` that is a
  safety property.
- `RedirectsEnd`: the guard lets every navigation pass after two redirects at
  most. The workspace asks for no permission, so there is always a screen to land
  on (`LandingExists`). This is the part of `NavigationEnds` that needs no
  fairness.
- `OffersAreServed` compares every load and button of every screen with the rules
  of the controllers, for every role. It rests on two facts about the seeded
  roles (`RolesFit`): who has `ledger.view` has `report.financial`, and who has
  `ledger.create` has `ledger.view`. Grants of one's own can break both (see the
  findings), which is why the property is about users without grants.

Model-checked only: liveness (`RequestsEnd`, `CallsSettle`, `NavigationEnds`,
`RemovalArrives`), which TLAPS cannot do.

## Not modelled

- Start-up: `db-init` and the serverless handler run once, by hand, against an
  empty database. Each script commits on its own, so a second run after a
  failure stops at the first script.
- Step-up tokens and the encryption of the TOTP secret: signed or encrypted
  values that are checked in one place and change no state.
- Segregation of duties (`fn_enforce_sod`): a trigger on `role_permissions`,
  which only the seed writes.
- Positions, the tree of accounts and its roll-up, fiscal periods that nobody
  creates or locks, generated codes.
- The general ledger, receivables ageing, date filters, the dashboard, health
  and redis: reads.
- Wording, formatting, listings and pagination, the conversion of toman to
  rial, and the width of `NUMERIC(78,0)` (the DTO admits 78 digits per line, and
  a balance would need more postings than a ledger holds to leave it).

## Plan

1. Weaker hypotheses for `LedgerTx`: the refinement with closes, for an atomic
   ledger in which a post may come into a period that is just closed.
2. `Client` with two tabs, composed with `Sessions` in place of `Rotate`.
3. The tree of accounts and its roll-up beside `Reports`.

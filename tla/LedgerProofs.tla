---------------------------- MODULE LedgerProofs ----------------------------
(***************************************************************************)
(* What holds of Ledger for every chart of accounts, every set of periods  *)
(* and dates, every set of line lists and every choice of operations.      *)
(***************************************************************************)
EXTENDS Reports, BookkeepingProofs

Finite == IsFiniteSet(DOMAIN entry)

-----------------------------------------------------------------------------
(* Lemmas about single operations.                                         *)

LEMMA DtoTyped ==
  ASSUME NEW ls \in Dto, AssertBalanced(ls)
  PROVE  ls \in Seq(Line)
BY DtoAssumption, CheckedLines DEF DtoAssumption

LEMMA RowFacts ==
  ASSUME TypeOK, NEW e \in DOMAIN entry
  PROVE  /\ e \in Entry /\ entry[e] \in Row
         /\ entry[e].lines \in Seq(Line) /\ entry[e].date \in Date
         /\ entry[e].status \in JournalStatus
         /\ entry[e].reverses \in Entry \cup {None}
         /\ entry[e].period \in Period \cup {None}
         /\ PeriodOf[entry[e].date] \in Period \cup {None}
BY PeriodAssumption DEF TypeOK, Row, PeriodAssumption

LEMMA FoldTyped ==
  ASSUME TypeOK, NEW ls \in Seq(Line)
  PROVE  FoldIn(balance, ls) \in [Account -> Int]
<1>1. \A a \in Account : balance[a] + Delta(ls, a) \in Int
  BY DeltaType DEF TypeOK
<1> QED BY <1>1 DEF FoldIn

\* A row is inserted or replaced and nothing but balances changes beside it.
LEMMA PutKeepsTypes ==
  ASSUME TypeOK, Finite, NEW e \in Entry, NEW r \in Row, entry' = Put(entry, e, r),
         balance' \in [Account -> Int], UNCHANGED <<postable, period>>
  PROVE  TypeOK' /\ Finite'
BY PutTyped DEF TypeOK, Finite

-----------------------------------------------------------------------------
(* Type correctness.                                                       *)

LEMMA InitTypes == Init => TypeOK /\ Finite
BY FS_EmptySet DEF Init, TypeOK, Finite, PeriodStatus

LEMMA DraftStepTypes ==
  ASSUME TypeOK, Finite, NEW e \in Entry, NEW d \in Date, NEW ls \in Dto,
         CreateDraft(e, d, ls) \/ TransferDraft(e, d, ls) \/ UpdateDraft(e, d, ls)
  PROVE  TypeOK' /\ Finite'
<1>1. ls \in Seq(Line)
  BY DtoTyped DEF CreateDraft, TransferDraft, UpdateDraft
<1>2. CASE CreateDraft(e, d, ls) \/ TransferDraft(e, d, ls)
  <2>1. DraftRow(d, ls, None) \in Row
    BY <1>1, RowTypes
  <2> QED BY <1>2, <2>1, PutKeepsTypes DEF CreateDraft, TransferDraft, TypeOK
<1>3. CASE UpdateDraft(e, d, ls)
  <2>1. e \in DOMAIN entry /\ entry[e] \in Row
    BY <1>3, RowFacts DEF UpdateDraft, Exists
  <2>2. [entry[e] EXCEPT !.date = d, !.lines = ls] \in Row
    BY <1>1, <2>1 DEF Row
  <2> QED BY <1>3, <2>2, PutKeepsTypes DEF UpdateDraft, TypeOK
<1> QED BY <1>2, <1>3

LEMMA RowStepTypes ==
  ASSUME TypeOK, Finite, NEW e \in Entry,
         DeleteDraft(e) \/ Restore(e) \/ PostJournalEntry(e)
  PROVE  TypeOK' /\ Finite'
<1>1. e \in DOMAIN entry /\ entry[e] \in Row /\ entry[e].lines \in Seq(Line)
  BY RowFacts DEF DeleteDraft, Restore, PostJournalEntry, Exists
<1>2. CASE DeleteDraft(e) \/ Restore(e)
  <2>1. /\ [entry[e] EXCEPT !.deleted = TRUE] \in Row
        /\ [entry[e] EXCEPT !.deleted = FALSE] \in Row
    BY <1>1 DEF Row
  <2> QED BY <1>2, <2>1, PutKeepsTypes DEF DeleteDraft, Restore, TypeOK
<1>3. CASE PostJournalEntry(e)
  <2>1. PostedRow(entry[e]) \in Row
    BY <1>1, RowTypes
  <2>2. FoldIn(balance, entry[e].lines) \in [Account -> Int]
    BY <1>1, FoldTyped
  <2> QED BY <1>3, <2>1, <2>2, PutKeepsTypes DEF PostJournalEntry, AddPosted
<1> QED BY <1>2, <1>3

LEMMA ReverseTypes ==
  ASSUME TypeOK, Finite, NEW e \in Entry, NEW m \in Entry, NEW d \in Date,
         ReverseJournalEntry(e, m, d)
  PROVE  TypeOK' /\ Finite'
<1> DEFINE ls == Mirror(entry[e].lines)
           table == [entry EXCEPT ![e].status = "REVERSED"]
           r == DraftRow(d, ls, e)
<1>1. e \in DOMAIN entry /\ entry[e] \in Row /\ entry[e].lines \in Seq(Line)
  BY RowFacts DEF ReverseJournalEntry, Exists
<1>2. ls \in Seq(Line)
  BY <1>1, MirrorTyped
<1>3. r \in Row /\ r.lines = ls /\ PostedRow(r) \in Row
  <2> HIDE DEF ls
  <2>1. r \in Row
    BY <1>2, RowTypes
  <2>2. r.lines = ls
    BY DEF DraftRow
  <2> HIDE DEF r
  <2> QED BY <2>1, <2>2, RowTypes
<1>4. DOMAIN table = DOMAIN entry /\ table \in [DOMAIN entry -> Row]
  <2>1. [entry[e] EXCEPT !.status = "REVERSED"] \in Row
    BY <1>1 DEF Row, JournalStatus
  <2> QED BY <2>1 DEF TypeOK
<1>5. entry' = Put(table, m, PostedRow(r)) /\ balance' = FoldIn(balance, r.lines)
  BY DEF ReverseJournalEntry, AddPosted
<1> HIDE DEF ls, table, r
<1>6. balance' \in [Account -> Int]
  BY <1>2, <1>3, <1>5, FoldTyped
<1>7. /\ DOMAIN entry' \subseteq Entry /\ IsFiniteSet(DOMAIN entry')
      /\ entry' \in [DOMAIN entry' -> Row]
  BY <1>3, <1>4, <1>5, PutTyped DEF TypeOK, Finite
<1> QED BY <1>6, <1>7 DEF TypeOK, Finite, ReverseJournalEntry

LEMMA AccountStepTypes ==
  ASSUME TypeOK, Finite, NEW a \in Account,
         RecomputeAccountBalance(a) \/ CreateChildOf(a)
  PROVE  TypeOK' /\ Finite'
<1>1. CASE RecomputeAccountBalance(a)
  <2>1. PostedIn(entry) \subseteq DOMAIN entry
    BY DEF PostedIn
  <2>2. IsFiniteSet(PostedIn(entry))
    BY <2>1, FS_Subset DEF Finite
  <2>3. \A e \in PostedIn(entry) : entry[e].lines \in Seq(Line)
    BY <2>1, RowFacts
  <2>4. BalanceOver(entry, PostedIn(entry), a) \in Int
    BY <2>2, <2>3, BalanceOverType
  <2>5. balance' \in [Account -> Int]
    BY <1>1, <2>4 DEF RecomputeAccountBalance, TypeOK
  <2> QED BY <1>1, <2>5 DEF RecomputeAccountBalance, TypeOK, Finite
<1>2. CASE CreateChildOf(a)
  BY <1>2 DEF CreateChildOf, TypeOK, Finite
<1> QED BY <1>1, <1>2

LEMMA CloseTypes ==
  ASSUME TypeOK, Finite, NEW q \in Period, NEW c \in Entry, CloseFiscalPeriod(q, c)
  PROVE  TypeOK' /\ Finite'
<1> DEFINE ls == ClosingLines(PeriodNet(entry, q))
           r == ClosingRow(EndOf[q], ls)
<1>1. ls \in Seq(Line)
  BY RowFacts, PeriodNetType, ClosingTyped DEF Finite
<1>2. r \in Row /\ r.lines = ls /\ PostedRow(r) \in Row
  <2>1. EndOf[q] \in Date
    BY PeriodAssumption DEF PeriodAssumption
  <2> HIDE DEF ls
  <2>2. r \in Row
    BY <1>1, <2>1, RowTypes
  <2>3. r.lines = ls
    BY DEF ClosingRow, DraftRow
  <2> HIDE DEF r
  <2> QED BY <2>2, <2>3, RowTypes
<1>3. \/ UNCHANGED <<entry, balance>>
      \/ entry' = Put(entry, c, PostedRow(r)) /\ balance' = FoldIn(balance, r.lines)
  BY DEF CloseFiscalPeriod, AddPosted
<1> HIDE DEF ls, r
<1>4. period' \in [Period -> PeriodStatus] /\ postable' \in [Account -> BOOLEAN]
  BY DEF CloseFiscalPeriod, TypeOK, PeriodStatus
<1>5. balance' \in [Account -> Int]
  BY <1>1, <1>2, <1>3, FoldTyped DEF TypeOK
<1>6. /\ DOMAIN entry' \subseteq Entry /\ IsFiniteSet(DOMAIN entry')
      /\ entry' \in [DOMAIN entry' -> Row]
  BY <1>2, <1>3, PutTyped DEF TypeOK, Finite
<1> QED BY <1>4, <1>5, <1>6 DEF TypeOK, Finite

LEMMA NextTypes == TypeOK /\ Finite /\ [Next]_vars => TypeOK' /\ Finite'
<1> SUFFICES ASSUME TypeOK, Finite, [Next]_vars PROVE TypeOK' /\ Finite'
  OBVIOUS
<1>1. CASE UNCHANGED vars
  BY <1>1 DEF vars, TypeOK, Finite
<1>2. CASE Next
  BY <1>2, DraftStepTypes, RowStepTypes, ReverseTypes, AccountStepTypes, CloseTypes DEF Next
<1> QED BY <1>1, <1>2

LEMMA Types == Spec => [](TypeOK /\ Finite)
BY InitTypes, NextTypes, PTL DEF Spec

\* Every operation keeps the tables within their types: in particular each line
\* stays one-sided and each cached balance an integer.
THEOREM TypeCorrect == Spec => []TypeOK
BY Types, PTL

-----------------------------------------------------------------------------
(* What a step can do to the entries.  Every step leaves them alone, writes *)
(* a draft, posts a draft, or reverses a posted entry; the properties below *)
(* are proved by these four cases.                                          *)

\* An id that is free, or the id of a draft.
Writable(e) == e \in DOMAIN entry => entry[e].status = "DRAFT"

\* A draft row for id e: whoever writes it never sets the link to a source.
DraftFor(e, r) ==
  /\ e \in Entry /\ r \in Row /\ Writable(e)
  /\ r.status = "DRAFT"
  /\ r.reverses = (IF e \in DOMAIN entry THEN entry[e].reverses ELSE None)

WritesDraft(e, r) ==
  /\ DraftFor(e, r)
  /\ r.closing = (IF e \in DOMAIN entry THEN entry[e].closing ELSE FALSE)
  /\ \/ TotalDebit(r.lines) = TotalCredit(r.lines)
     \/ e \in DOMAIN entry /\ r.lines = entry[e].lines
  /\ entry' = Put(entry, e, r) /\ UNCHANGED <<balance, period>>

PostsDraft(e, r) ==
  /\ DraftFor(e, r) /\ PeriodOpen(r.date) /\ ~r.deleted /\ Balanced(r.lines)
  /\ entry' = Put(entry, e, PostedRow(r))
  /\ balance' = FoldIn(balance, r.lines)

\* A post of a draft that is there, as opposed to the closing entry of a period.
PostsOwn(e) ==
  e \in DOMAIN entry /\ PostsDraft(e, entry[e]) /\ UNCHANGED period

Reverses(e, m, r) ==
  /\ "reverse" \in Ops /\ ~r.closing
  /\ e \in DOMAIN entry /\ entry[e].status = "POSTED"
  /\ m \in Entry \ DOMAIN entry /\ r \in Row /\ PeriodOpen(r.date)
  /\ r.lines = Mirror(entry[e].lines) /\ r.reverses = e
  /\ ~r.deleted /\ Balanced(r.lines)
  /\ entry' = Put([entry EXCEPT ![e].status = "REVERSED"], m, PostedRow(r))
  /\ balance' = FoldIn(balance, r.lines)
  /\ UNCHANGED period

LEMMA PostedRowFacts ==
  ASSUME NEW r \in Row
  PROVE  /\ PostedRow(r) \in Row /\ PostedRow(r).status = "POSTED"
         /\ PostedRow(r).lines = r.lines /\ PostedRow(r).reverses = r.reverses
         /\ PostedRow(r).period = PeriodOf[r.date] /\ PostedRow(r).date = r.date
         /\ PostedRow(r).deleted = r.deleted /\ PostedRow(r).closing = r.closing
BY RowTypes DEF PostedRow, Row

LEMMA DraftRowFacts ==
  ASSUME NEW d \in Date, NEW ls \in Seq(Line), NEW src \in Entry \cup {None}
  PROVE  /\ DraftRow(d, ls, src) \in Row /\ ClosingRow(d, ls) \in Row
         /\ DraftRow(d, ls, src).status = "DRAFT" /\ ClosingRow(d, ls).status = "DRAFT"
         /\ DraftRow(d, ls, src).reverses = src /\ ClosingRow(d, ls).reverses = None
         /\ DraftRow(d, ls, src).lines = ls /\ ClosingRow(d, ls).lines = ls
         /\ DraftRow(d, ls, src).date = d /\ ClosingRow(d, ls).date = d
BY RowTypes DEF DraftRow, ClosingRow

LEMMA DraftRowFlags ==
  ASSUME NEW d, NEW ls, NEW src
  PROVE  /\ ~DraftRow(d, ls, src).deleted /\ ~ClosingRow(d, ls).deleted
         /\ DraftRow(d, ls, src).closing = FALSE /\ ClosingRow(d, ls).closing = TRUE
BY DEF DraftRow, ClosingRow

LEMMA DraftEffects ==
  ASSUME TypeOK, NEW e \in Entry, NEW d \in Date, NEW ls \in Dto,
         CreateDraft(e, d, ls) \/ TransferDraft(e, d, ls) \/ UpdateDraft(e, d, ls)
  PROVE  \E r : WritesDraft(e, r)
<1>1. ls \in Seq(Line)
  BY DtoTyped DEF CreateDraft, TransferDraft, UpdateDraft
<1>2. CASE CreateDraft(e, d, ls) \/ TransferDraft(e, d, ls)
  <2> DEFINE r == DraftRow(d, ls, None)
  <2>1. r \in Row /\ r.status = "DRAFT" /\ r.reverses = None /\ r.lines = ls
    BY <1>1, DraftRowFacts
  <2>2. r.closing = FALSE
    BY DraftRowFlags
  <2>3. /\ e \notin DOMAIN entry /\ entry' = Put(entry, e, r)
        /\ UNCHANGED <<balance, period>>
    BY <1>2 DEF CreateDraft, TransferDraft, Fresh
  <2>4. TotalDebit(ls) = TotalCredit(ls)
    BY <1>2 DEF CreateDraft, TransferDraft, AssertBalanced
  <2> HIDE DEF r
  <2> QED BY <2>1, <2>2, <2>3, <2>4 DEF WritesDraft, DraftFor, Writable
<1>3. CASE UpdateDraft(e, d, ls)
  <2> DEFINE r == [entry[e] EXCEPT !.date = d, !.lines = ls]
  <2>1. e \in DOMAIN entry /\ entry[e] \in Row /\ entry[e].status = "DRAFT"
    BY <1>3, RowFacts DEF UpdateDraft, Exists
  <2>2. /\ r \in Row /\ r.status = "DRAFT" /\ r.reverses = entry[e].reverses
        /\ r.closing = entry[e].closing /\ r.lines = ls
    BY <1>1, <2>1 DEF Row
  <2>3. /\ entry' = Put(entry, e, r) /\ UNCHANGED <<balance, period>>
        /\ TotalDebit(ls) = TotalCredit(ls)
    BY <1>3 DEF UpdateDraft, AssertBalanced
  <2> HIDE DEF r
  <2> QED BY <2>1, <2>2, <2>3 DEF WritesDraft, DraftFor, Writable
<1> QED BY <1>2, <1>3

LEMMA RowEffects ==
  ASSUME TypeOK, NEW e \in Entry,
         DeleteDraft(e) \/ Restore(e) \/ PostJournalEntry(e)
  PROVE  (\E r : WritesDraft(e, r)) \/ PostsOwn(e)
<1>1. e \in DOMAIN entry /\ entry[e] \in Row /\ entry[e].status = "DRAFT"
  BY RowFacts DEF DeleteDraft, Restore, PostJournalEntry, Exists
<1>2. ASSUME NEW b \in BOOLEAN, entry' = Put(entry, e, [entry[e] EXCEPT !.deleted = b]),
             UNCHANGED <<balance, period>>
      PROVE  \E r : WritesDraft(e, r)
  <2> DEFINE r == [entry[e] EXCEPT !.deleted = b]
  <2>1. /\ r \in Row /\ r.status = "DRAFT" /\ r.reverses = entry[e].reverses
        /\ r.closing = entry[e].closing /\ r.lines = entry[e].lines
    BY <1>1 DEF Row
  <2>2. entry' = Put(entry, e, r)
    BY <1>2
  <2> HIDE DEF r
  <2> QED BY <1>1, <1>2, <2>1, <2>2 DEF WritesDraft, DraftFor, Writable
<1>3. CASE DeleteDraft(e) \/ Restore(e)
  BY <1>2, <1>3 DEF DeleteDraft, Restore
<1>4. CASE PostJournalEntry(e)
  BY <1>1, <1>4 DEF PostJournalEntry, Exists, AddPosted, PostsOwn, PostsDraft, DraftFor, Writable
<1> QED BY <1>3, <1>4

LEMMA ReverseEffects ==
  ASSUME TypeOK, NEW e \in Entry, NEW m \in Entry, NEW d \in Date,
         ReverseJournalEntry(e, m, d)
  PROVE  \E r : Reverses(e, m, r)
<1> DEFINE ls == Mirror(entry[e].lines)
           r == DraftRow(d, ls, e)
<1>1. e \in DOMAIN entry /\ entry[e].status = "POSTED" /\ entry[e].lines \in Seq(Line)
  BY RowFacts DEF ReverseJournalEntry, Exists
<1>2. ls \in Seq(Line)
  BY <1>1, MirrorTyped
<1>3. /\ r \in Row /\ r.lines = ls /\ r.reverses = e
      /\ r.closing = FALSE /\ ~r.deleted
  <2> HIDE DEF ls
  <2>1. r \in Row /\ r.lines = ls /\ r.reverses = e
    BY <1>2, DraftRowFacts
  <2>2. r.closing = FALSE /\ ~r.deleted
    BY DraftRowFlags
  <2> QED BY <2>1, <2>2
<1>4. /\ "reverse" \in Ops /\ Balanced(r.lines)
      /\ m \notin DOMAIN entry /\ PeriodOpen(r.date)
      /\ entry' = Put([entry EXCEPT ![e].status = "REVERSED"], m, PostedRow(r))
      /\ balance' = FoldIn(balance, r.lines) /\ UNCHANGED period
  BY DEF ReverseJournalEntry, AddPosted, Fresh
<1> HIDE DEF r
<1> QED BY <1>1, <1>3, <1>4 DEF Reverses

\* The close of period q with closing entry c, or without one.
Closes(q, c) ==
  /\ CloseFiscalPeriod(q, c)
  /\ LET ls == ClosingLines(PeriodNet(entry, q)) IN
       \/ ls = << >> /\ UNCHANGED <<entry, balance>>
       \/ /\ ls # << >> /\ c \notin DOMAIN entry
          /\ PostsDraft(c, ClosingRow(EndOf[q], ls))

LEMMA CloseEffects ==
  ASSUME TypeOK, Finite, NEW q \in Period, NEW c \in Entry, CloseFiscalPeriod(q, c)
  PROVE  Closes(q, c)
<1> DEFINE ls == ClosingLines(PeriodNet(entry, q))
           r == ClosingRow(EndOf[q], ls)
<1>1. ls \in Seq(Line)
  BY RowFacts, PeriodNetType, ClosingTyped DEF Finite
<1>2. r \in Row /\ r.status = "DRAFT" /\ r.reverses = None /\ ~r.deleted
  <2> HIDE DEF ls
  <2>1. EndOf[q] \in Date
    BY PeriodAssumption DEF PeriodAssumption
  <2>2. r \in Row /\ r.status = "DRAFT" /\ r.reverses = None
    BY <1>1, <2>1, DraftRowFacts
  <2>3. ~r.deleted
    BY DraftRowFlags
  <2> QED BY <2>2, <2>3
<1>3. \/ ls = << >> /\ UNCHANGED <<entry, balance>>
      \/ /\ ls # << >> /\ c \notin DOMAIN entry /\ PeriodOpen(r.date) /\ Balanced(r.lines)
         /\ entry' = Put(entry, c, PostedRow(r)) /\ balance' = FoldIn(balance, r.lines)
  BY DEF CloseFiscalPeriod, AddPosted, Fresh
<1> HIDE DEF r
<1>4. \/ ls = << >> /\ UNCHANGED <<entry, balance>>
      \/ ls # << >> /\ c \notin DOMAIN entry /\ PostsDraft(c, r)
  BY <1>2, <1>3 DEF PostsDraft, DraftFor, Writable
<1> QED BY <1>4 DEF Closes, r

Recomputes ==
  /\ "recompute" \in Ops
  /\ \E a \in Account : balance' = [balance EXCEPT ![a] = BalanceOver(entry, PostedIn(entry), a)]

LEMMA StepKinds ==
  ASSUME TypeOK, Finite, [Next]_vars
  PROVE  \/ UNCHANGED <<entry, period>> /\ (balance' = balance \/ Recomputes)
         \/ \E e, r : WritesDraft(e, r)
         \/ \E e : PostsOwn(e)
         \/ \E e, m, r : Reverses(e, m, r)
         \/ \E q \in Period, c \in Entry : Closes(q, c)
<1>1. CASE UNCHANGED vars
  BY <1>1 DEF vars
<1>2. CASE Next
  <2>1. CASE \E e \in Entry, d \in Date, ls \in Dto :
               CreateDraft(e, d, ls) \/ TransferDraft(e, d, ls) \/ UpdateDraft(e, d, ls)
    BY <2>1, DraftEffects
  <2>2. CASE \E e \in Entry : DeleteDraft(e) \/ Restore(e) \/ PostJournalEntry(e)
    BY <2>2, RowEffects
  <2>3. CASE \E e, m \in Entry, d \in Date : ReverseJournalEntry(e, m, d)
    BY <2>3, ReverseEffects
  <2>4. CASE \E a \in Account : RecomputeAccountBalance(a) \/ CreateChildOf(a)
    BY <2>4 DEF Recomputes, RecomputeAccountBalance, CreateChildOf
  <2>5. CASE \E q \in Period, c \in Entry : CloseFiscalPeriod(q, c)
    BY <2>5, CloseEffects
  <2> QED BY <1>2, <2>1, <2>2, <2>3, <2>4, <2>5 DEF Next
<1> QED BY <1>1, <1>2

LEMMA Effects ==
  ASSUME TypeOK, Finite, [Next]_vars
  PROVE  \/ entry' = entry /\ (balance' = balance \/ Recomputes)
         \/ \E e, r : WritesDraft(e, r) \/ PostsDraft(e, r)
         \/ \E e, m, r : Reverses(e, m, r)
BY StepKinds DEF PostsOwn, Closes

\* The tables after each of these.
LEMMA ReversesFacts ==
  ASSUME TypeOK, NEW e, NEW m, NEW r, Reverses(e, m, r)
  PROVE  /\ DOMAIN entry' = DOMAIN entry \cup {m} /\ e # m
         /\ entry'[m] = PostedRow(r)
         /\ entry'[e] = [entry[e] EXCEPT !.status = "REVERSED"]
         /\ \A x \in DOMAIN entry \ {e} : entry'[x] = entry[x]
<1> DEFINE table == [entry EXCEPT ![e].status = "REVERSED"]
<1>1. /\ e \in DOMAIN entry /\ m \notin DOMAIN entry
      /\ entry' = Put(table, m, PostedRow(r))
  BY DEF Reverses
<1>2. /\ DOMAIN table = DOMAIN entry
      /\ table[e] = [entry[e] EXCEPT !.status = "REVERSED"]
      /\ \A x \in DOMAIN entry \ {e} : table[x] = entry[x]
  BY <1>1 DEF TypeOK
<1> HIDE DEF table
<1>3. /\ DOMAIN entry' = DOMAIN table \cup {m} /\ entry'[m] = PostedRow(r)
      /\ \A x \in DOMAIN table \ {m} : entry'[x] = table[x]
  BY <1>1 DEF Put
<1> QED BY <1>1, <1>2, <1>3

LEMMA WritesFacts ==
  ASSUME NEW e, NEW r, DraftFor(e, r)
  PROVE  /\ entry' = Put(entry, e, r) =>
              /\ DOMAIN entry' = DOMAIN entry \cup {e} /\ entry'[e] = r
              /\ \A x \in DOMAIN entry \ {e} : entry'[x] = entry[x]
         /\ entry' = Put(entry, e, PostedRow(r)) =>
              /\ DOMAIN entry' = DOMAIN entry \cup {e} /\ entry'[e] = PostedRow(r)
              /\ \A x \in DOMAIN entry \ {e} : entry'[x] = entry[x]
         /\ e \notin Applied
<1>1. e \notin Applied
  BY DEF DraftFor, Writable, Applied
<1>2. ASSUME NEW row, entry' = Put(entry, e, row)
      PROVE  /\ DOMAIN entry' = DOMAIN entry \cup {e} /\ entry'[e] = row
             /\ \A x \in DOMAIN entry \ {e} : entry'[x] = entry[x]
  BY <1>2 DEF Put
<1> QED BY <1>1, <1>2

-----------------------------------------------------------------------------
(* Entries that reached the ledger.                                        *)

\* A posted entry keeps its lines, date, period and links under every operation:
\* a step may only mark it REVERSED.
THEOREM PostedNeverChanges == Spec => PostedImmutable
<1> DEFINE Kept == \A e \in Applied :
                     /\ e \in DOMAIN entry'
                     /\ entry'[e] \in {entry[e], [entry[e] EXCEPT !.status = "REVERSED"]}
<1>1. TypeOK /\ Finite /\ [Next]_vars => [Kept]_vars
  <2> SUFFICES ASSUME TypeOK, Finite, [Next]_vars PROVE Kept
    OBVIOUS
  <2>1. CASE entry' = entry
    BY <2>1 DEF Applied
  <2>2. ASSUME NEW e, NEW r, WritesDraft(e, r) \/ PostsDraft(e, r) PROVE Kept
    BY <2>2, WritesFacts DEF WritesDraft, PostsDraft, Applied
  <2>3. ASSUME NEW e, NEW m, NEW r, Reverses(e, m, r) PROVE Kept
    <3>1. m \notin DOMAIN entry
      BY <2>3 DEF Reverses
    <3> QED BY <2>3, <3>1, ReversesFacts DEF Applied
  <2> QED BY <2>1, <2>2, <2>3, Effects
<1> QED BY <1>1, Types, PTL DEF Spec, PostedImmutable

LEMMA ReversalKept ==
  TypeOK /\ Finite /\ ReversalPaired /\ [Next]_vars => ReversalPaired'
<1> SUFFICES ASSUME TypeOK, Finite, ReversalPaired, [Next]_vars PROVE ReversalPaired'
  OBVIOUS
<1>1. CASE entry' = entry
  BY <1>1 DEF ReversalPaired, Applied
<1>2. ASSUME NEW e, NEW r, WritesDraft(e, r) \/ PostsDraft(e, r) PROVE ReversalPaired'
  <2>1. /\ DOMAIN entry' = DOMAIN entry \cup {e}
        /\ \A x \in DOMAIN entry \ {e} : entry'[x] = entry[x]
        /\ e \notin Applied /\ r \in Row
    BY <1>2, WritesFacts DEF WritesDraft, PostsDraft, DraftFor
  <2>2. r.reverses = None
    BY <1>2, <2>1 DEF WritesDraft, PostsDraft, DraftFor, ReversalPaired
  <2>3. entry'[e].reverses = None /\ entry'[e].status # "REVERSED"
    <3>1. PostedRow(r).reverses = None /\ PostedRow(r).status = "POSTED" /\ r.status = "DRAFT"
      BY <1>2, <2>1, <2>2, PostedRowFacts DEF WritesDraft, PostsDraft, DraftFor
    <3>2. entry'[e] = r \/ entry'[e] = PostedRow(r)
      BY <1>2, WritesFacts DEF WritesDraft, PostsDraft
    <3> QED BY <2>2, <3>1, <3>2
  <2>4. \A x \in Applied : x \in DOMAIN entry' /\ x # e /\ x \in Applied' /\ entry'[x] = entry[x]
    BY <2>1 DEF Applied
  <2>5. ASSUME NEW x \in DOMAIN entry', entry'[x].status = "REVERSED"
        PROVE  \E m \in Applied' : /\ entry'[m].reverses = x
                                   /\ entry'[m].lines = Mirror(entry'[x].lines)
    BY <2>1, <2>3, <2>4, <2>5 DEF ReversalPaired
  <2>6. ASSUME NEW x \in DOMAIN entry', entry'[x].reverses # None
        PROVE  /\ entry'[x].reverses \in DOMAIN entry'
               /\ entry'[entry'[x].reverses].status = "REVERSED"
               /\ x \in Applied'
    <3>1. x \in Applied /\ entry'[x] = entry[x]
      BY <2>1, <2>3, <2>6 DEF ReversalPaired
    <3>2. entry[x].reverses \in Applied
      BY <2>6, <3>1 DEF ReversalPaired, Applied
    <3> QED BY <2>4, <2>6, <3>1, <3>2 DEF ReversalPaired, Applied
  <2>7. \A x, y \in DOMAIN entry' :
          entry'[x].reverses = entry'[y].reverses /\ entry'[x].reverses # None => x = y
    BY <2>1, <2>3 DEF ReversalPaired
  <2> QED BY <2>5, <2>6, <2>7 DEF ReversalPaired
<1>3. ASSUME NEW e, NEW m, NEW r, Reverses(e, m, r) PROVE ReversalPaired'
  <2>1. /\ e \in DOMAIN entry /\ entry[e].status = "POSTED" /\ m \notin DOMAIN entry
        /\ r \in Row /\ r.reverses = e /\ r.lines = Mirror(entry[e].lines)
        /\ e \in Entry /\ entry[e] \in Row
    BY <1>3, RowFacts DEF Reverses
  <2>2. /\ DOMAIN entry' = DOMAIN entry \cup {m} /\ e # m
        /\ entry'[m].status = "POSTED" /\ entry'[m].reverses = e
        /\ entry'[m].lines = Mirror(entry[e].lines)
        /\ \A x \in DOMAIN entry \ {e} : entry'[x] = entry[x]
    <3>1. /\ DOMAIN entry' = DOMAIN entry \cup {m} /\ e # m
          /\ entry'[m] = PostedRow(r)
          /\ \A x \in DOMAIN entry \ {e} : entry'[x] = entry[x]
      BY ONLY TypeOK, <1>3, ReversesFacts
    <3>2. PostedRow(r).status = "POSTED" /\ PostedRow(r).lines = r.lines
          /\ PostedRow(r).reverses = r.reverses
      BY <2>1, PostedRowFacts
    <3> QED BY <2>1, <3>1, <3>2
  <2>3. /\ entry'[e].status = "REVERSED" /\ entry'[e].lines = entry[e].lines
        /\ entry'[e].reverses = entry[e].reverses
    <3>1. entry'[e] = [entry[e] EXCEPT !.status = "REVERSED"]
      BY ONLY TypeOK, <1>3, ReversesFacts
    <3> QED BY <2>1, <3>1 DEF Row
  <2>4. m \in Applied' /\ \A x \in Applied : x \in Applied'
    BY <2>2, <2>3 DEF Applied
  <2>5. \A x \in DOMAIN entry : entry[x].reverses # e
    BY <2>1, EntryAssumption DEF ReversalPaired, EntryAssumption
  <2>6. ASSUME NEW x \in DOMAIN entry', entry'[x].status = "REVERSED"
        PROVE  \E k \in Applied' : /\ entry'[k].reverses = x
                                   /\ entry'[k].lines = Mirror(entry'[x].lines)
    <3>1. CASE x = e
      BY <2>2, <2>3, <2>4, <3>1
    <3>2. CASE x # e
      <4>1. x \in DOMAIN entry /\ entry[x].status = "REVERSED" /\ entry'[x] = entry[x]
        BY <2>2, <2>6, <3>2
      <4>2. PICK k \in Applied : /\ entry[k].reverses = x
                                 /\ entry[k].lines = Mirror(entry[x].lines)
        BY <4>1 DEF ReversalPaired
      <4>3. entry'[k].reverses = x /\ entry'[k].lines = entry[k].lines
        BY <2>2, <2>3, <4>2 DEF Applied
      <4> QED BY <2>4, <4>1, <4>2, <4>3
    <3> QED BY <3>1, <3>2
  <2>7. ASSUME NEW x \in DOMAIN entry', entry'[x].reverses # None
        PROVE  /\ entry'[x].reverses \in DOMAIN entry'
               /\ entry'[entry'[x].reverses].status = "REVERSED"
               /\ x \in Applied'
    <3>1. CASE x = m
      BY <2>1, <2>2, <2>3, <2>4, <3>1
    <3>2. CASE x # m
      <4>1. x \in DOMAIN entry /\ entry'[x].reverses = entry[x].reverses
        BY <2>2, <2>3, <3>2
      <4>2. /\ entry[x].reverses \in DOMAIN entry /\ x \in Applied
            /\ entry[entry[x].reverses].status = "REVERSED"
        BY <2>7, <4>1 DEF ReversalPaired
      <4> QED BY <2>1, <2>2, <2>4, <4>1, <4>2
    <3> QED BY <3>1, <3>2
  <2>8. \A x, y \in DOMAIN entry' :
          entry'[x].reverses = entry'[y].reverses /\ entry'[x].reverses # None => x = y
    BY <2>1, <2>2, <2>3, <2>5 DEF ReversalPaired
  <2> QED BY <2>6, <2>7, <2>8 DEF ReversalPaired
<1> QED BY <1>1, <1>2, <1>3, Effects

\* Reversals pair up with their sources: each REVERSED entry has exactly one
\* posted entry with its mirrored lines, and no draft is ever linked to one.
THEOREM ReversalsPair == Spec => []ReversalPaired
<1>1. Init => ReversalPaired
  BY DEF Init, ReversalPaired
<1> QED BY <1>1, Types, ReversalKept, PTL DEF Spec

-----------------------------------------------------------------------------
(* Closed periods.                                                         *)

LEMMA PeriodEffects ==
  ASSUME TypeOK, Finite, [Next]_vars
  PROVE  period' = period \/ \E q \in Period : period' = [period EXCEPT ![q] = "CLOSED"]
BY DEF Next, vars, CreateDraft, TransferDraft, UpdateDraft, DeleteDraft, Restore,
       PostJournalEntry, ReverseJournalEntry, RecomputeAccountBalance, CreateChildOf,
       CloseFiscalPeriod

\* A closed period stays closed, and no step posts an entry into it.
THEOREM ClosedStaysFrozen == Spec => ClosedPeriodFrozen
<1> DEFINE Frozen == \A q \in Period : period[q] = "CLOSED" =>
                       /\ period'[q] = "CLOSED"
                       /\ \A e \in DOMAIN entry' \ Applied :
                            entry'[e].status # "DRAFT" => entry'[e].period # q
<1>1. TypeOK /\ Finite /\ [Next]_vars => [Frozen]_vars
  <2> SUFFICES ASSUME TypeOK, Finite, [Next]_vars,
                      NEW q \in Period, period[q] = "CLOSED"
               PROVE  /\ period'[q] = "CLOSED"
                      /\ \A e \in DOMAIN entry' \ Applied :
                           entry'[e].status # "DRAFT" => entry'[e].period # q
    OBVIOUS
  <2>1. period'[q] = "CLOSED"
    BY PeriodEffects DEF TypeOK
  <2>2. \A e \in DOMAIN entry \ Applied : entry[e].status = "DRAFT"
    BY RowFacts DEF Applied, JournalStatus
  <2>3. CASE entry' = entry
    BY <2>1, <2>2, <2>3
  <2>4. ASSUME NEW e, NEW r, WritesDraft(e, r) \/ PostsDraft(e, r),
               NEW x \in DOMAIN entry' \ Applied, entry'[x].status # "DRAFT"
        PROVE  entry'[x].period # q
    <3>1. x = e /\ PostsDraft(e, r) /\ entry'[x] = PostedRow(r) /\ r \in Row
      <4>1. \/ WritesDraft(e, r) /\ entry' = Put(entry, e, r)
            \/ PostsDraft(e, r) /\ entry' = Put(entry, e, PostedRow(r))
        BY <2>4 DEF WritesDraft, PostsDraft
      <4>2. DraftFor(e, r) /\ r \in Row /\ r.status = "DRAFT"
        BY <2>4 DEF WritesDraft, PostsDraft, DraftFor
      <4>3. /\ DOMAIN entry' = DOMAIN entry \cup {e}
            /\ \A y \in DOMAIN entry \ {e} : entry'[y] = entry[y]
            /\ entry'[e] = r \/ (PostsDraft(e, r) /\ entry'[e] = PostedRow(r))
        BY <4>1, <4>2, WritesFacts
      <4>4. x = e
        BY <2>2, <2>4, <4>3
      <4> QED BY <2>4, <4>2, <4>3, <4>4
    <3>2. entry'[x].period = PeriodOf[r.date] /\ period[PeriodOf[r.date]] = "OPEN"
      BY <3>1, PostedRowFacts DEF PostsDraft, PeriodOpen
    <3> QED BY <3>2
  <2>5. ASSUME NEW e, NEW m, NEW r, Reverses(e, m, r),
               NEW x \in DOMAIN entry' \ Applied, entry'[x].status # "DRAFT"
        PROVE  entry'[x].period # q
    <3>1. x = m /\ entry'[x] = PostedRow(r) /\ r \in Row
      <4>1. /\ DOMAIN entry' = DOMAIN entry \cup {m} /\ entry'[m] = PostedRow(r)
            /\ \A y \in DOMAIN entry \ {e} : entry'[y] = entry[y]
        BY ONLY TypeOK, <2>5, ReversesFacts
      <4>2. e \in Applied /\ r \in Row
        BY <2>5 DEF Reverses, Applied
      <4> QED BY <2>2, <2>5, <4>1, <4>2
    <3>2. entry'[x].period = PeriodOf[r.date] /\ period[PeriodOf[r.date]] = "OPEN"
      BY <2>5, <3>1, PostedRowFacts DEF Reverses, PeriodOpen
    <3> QED BY <3>2
  <2> QED BY <2>1, <2>3, <2>4, <2>5, Effects
<1> QED BY <1>1, Types, PTL DEF Spec, ClosedPeriodFrozen

-----------------------------------------------------------------------------
(* The cached balances.                                                    *)

\* What a step does to the applied entries and the balances: nothing, or one
\* more entry together with its deltas.
LEMMA AppliedGrows ==
  ASSUME TypeOK, Finite, [Next]_vars, "recompute" \notin Ops
  PROVE  /\ \A x \in Applied : x \in Applied' /\ entry'[x].lines = entry[x].lines
         /\ \/ Applied' = Applied /\ balance' = balance
            \/ \E m : /\ m \notin Applied /\ Applied' = Applied \cup {m}
                     /\ entry'[m].lines \in Seq(Line)
                     /\ balance' = FoldIn(balance, entry'[m].lines)
<1>1. CASE entry' = entry /\ balance' = balance
  BY <1>1 DEF Applied
<1>2. ASSUME NEW e, NEW r, WritesDraft(e, r)
      PROVE  /\ \A x \in Applied : x \in Applied' /\ entry'[x].lines = entry[x].lines
             /\ Applied' = Applied /\ balance' = balance
  <2>1. DraftFor(e, r) /\ entry' = Put(entry, e, r) /\ balance' = balance
    BY <1>2 DEF WritesDraft
  <2>2. /\ DOMAIN entry' = DOMAIN entry \cup {e} /\ entry'[e] = r
        /\ \A x \in DOMAIN entry \ {e} : entry'[x] = entry[x]
        /\ e \notin Applied
    BY <2>1, WritesFacts
  <2>3. r.status = "DRAFT"
    BY <2>1 DEF DraftFor
  <2> QED BY <2>1, <2>2, <2>3 DEF Applied
<1>3. ASSUME NEW e, NEW r, PostsDraft(e, r)
      PROVE  /\ \A x \in Applied : x \in Applied' /\ entry'[x].lines = entry[x].lines
             /\ e \notin Applied /\ Applied' = Applied \cup {e}
             /\ entry'[e].lines \in Seq(Line)
             /\ balance' = FoldIn(balance, entry'[e].lines)
  <2>1. /\ DraftFor(e, r) /\ r \in Row /\ entry' = Put(entry, e, PostedRow(r))
        /\ balance' = FoldIn(balance, r.lines)
    BY <1>3 DEF PostsDraft, DraftFor
  <2>2. /\ DOMAIN entry' = DOMAIN entry \cup {e} /\ entry'[e] = PostedRow(r)
        /\ \A x \in DOMAIN entry \ {e} : entry'[x] = entry[x]
        /\ e \notin Applied
    BY <2>1, WritesFacts
  <2>3. /\ entry'[e].status = "POSTED" /\ entry'[e].lines = r.lines
        /\ r.lines \in Seq(Line)
    BY <2>1, <2>2, PostedRowFacts DEF Row
  <2>4. \A x \in Applied : x \in Applied' /\ entry'[x].lines = entry[x].lines
    BY <2>2 DEF Applied
  <2>5. Applied' = Applied \cup {e}
    BY <2>2, <2>3 DEF Applied
  <2> QED BY <2>1, <2>2, <2>3, <2>4, <2>5
<1>4. ASSUME NEW e, NEW m, NEW r, Reverses(e, m, r)
      PROVE  /\ \A x \in Applied : x \in Applied' /\ entry'[x].lines = entry[x].lines
             /\ m \notin Applied /\ Applied' = Applied \cup {m}
             /\ entry'[m].lines \in Seq(Line)
             /\ balance' = FoldIn(balance, entry'[m].lines)
  <2>1. /\ e \in DOMAIN entry /\ entry[e].status = "POSTED" /\ m \notin DOMAIN entry
        /\ r \in Row /\ balance' = FoldIn(balance, r.lines) /\ entry[e] \in Row
    BY <1>4, RowFacts DEF Reverses
  <2>2. /\ DOMAIN entry' = DOMAIN entry \cup {m} /\ e # m /\ entry'[m] = PostedRow(r)
        /\ entry'[e] = [entry[e] EXCEPT !.status = "REVERSED"]
        /\ \A x \in DOMAIN entry \ {e} : entry'[x] = entry[x]
    BY ONLY TypeOK, <1>4, ReversesFacts
  <2>3. /\ entry'[m].status = "POSTED" /\ entry'[m].lines = r.lines
        /\ r.lines \in Seq(Line)
    BY <2>1, <2>2, PostedRowFacts DEF Row
  <2>4. entry'[e].status = "REVERSED" /\ entry'[e].lines = entry[e].lines
    BY <2>1, <2>2 DEF Row
  <2>5. \A x \in Applied : x \in Applied' /\ entry'[x].lines = entry[x].lines
    BY <2>2, <2>4 DEF Applied
  <2>6. Applied' = Applied \cup {m} /\ m \notin Applied
    BY <2>1, <2>2, <2>3, <2>4 DEF Applied
  <2> QED BY <2>1, <2>3, <2>5, <2>6
<1>5. ~Recomputes
  BY DEF Recomputes
<1> QED BY <1>1, <1>2, <1>3, <1>4, <1>5, Effects

LEMMA CacheKept ==
  ASSUME TypeOK, Finite, CacheAgrees, [Next]_vars, "recompute" \notin Ops
  PROVE  CacheAgrees'
<1>0. IsFiniteSet(Applied) /\ Cardinality(Applied) \in Nat
  <2>1. Applied \subseteq DOMAIN entry
    BY DEF Applied
  <2>2. IsFiniteSet(Applied)
    BY <2>1, FS_Subset DEF Finite
  <2> QED BY <2>2, FS_CardinalityType
<1>1. PICK n \in Nat : n = Cardinality(Applied)
  BY <1>0
<1>2. PICK order \in [1..n -> Applied] :
        /\ \A i, j \in 1..n : order[i] = order[j] => i = j
        /\ \A a \in Account :
             balance[a] = Sum([i \in 1..n |-> Delta(entry[order[i]].lines, a)])
  <2>1. PICK order \in [1..n -> Applied] : AddsUp(order)
    BY <1>1 DEF CacheAgrees
  <2> QED BY <2>1 DEF AddsUp
<1>3. \A x \in Applied : x \in Applied' /\ entry'[x].lines = entry[x].lines
  BY AppliedGrows
<1>4. CASE Applied' = Applied /\ balance' = balance
  <2>1. \A a \in Account : [i \in 1..n |-> Delta(entry'[order[i]].lines, a)]
                         = [i \in 1..n |-> Delta(entry[order[i]].lines, a)]
    BY <1>2, <1>3
  <2>2. Cardinality(Applied') = n
    BY <1>1, <1>4
  <2>3. order \in [1..n -> Applied'] /\ DOMAIN order = 1..n
    BY <1>2, <1>4
  <2>4. \A a \in Account :
          balance'[a] = Sum([i \in 1..n |-> Delta(entry'[order[i]].lines, a)])
    BY <1>2, <1>4, <2>1
  <2>5. AddsUp(order)'
    BY <1>2, <2>3, <2>4 DEF AddsUp
  <2> QED BY <2>2, <2>3, <2>5 DEF CacheAgrees
<1>5. ASSUME NEW m, m \notin Applied, Applied' = Applied \cup {m},
             entry'[m].lines \in Seq(Line), balance' = FoldIn(balance, entry'[m].lines)
      PROVE  CacheAgrees'
  <2> DEFINE new == [i \in 1..(n + 1) |-> IF i = n + 1 THEN m ELSE order[i]]
  <2>1. Cardinality(Applied') = n + 1
    BY <1>0, <1>1, <1>5, FS_AddElement
  <2>2. /\ new \in [1..(n + 1) -> Applied'] /\ DOMAIN new = 1..(n + 1)
        /\ new[n + 1] = m /\ \A i \in 1..n : new[i] = order[i] /\ order[i] \in Applied
    <3>1. \A i \in 1..n : order[i] \in Applied /\ i \in 1..(n + 1) /\ i # n + 1
      BY <1>1, <1>2
    <3>2. \A i \in 1..(n + 1) : i = n + 1 \/ i \in 1..n
      BY <1>1
    <3>3. n + 1 \in 1..(n + 1)
      BY <1>1
    <3>4. \A i \in 1..(n + 1) : (IF i = n + 1 THEN m ELSE order[i]) \in Applied'
      BY <1>5, <3>1, <3>2
    <3> QED BY <3>1, <3>3, <3>4
  <2>3. \A i, j \in 1..(n + 1) : new[i] = new[j] => i = j
    BY <1>1, <1>2, <1>5
  <2> HIDE DEF new
  <2>4. ASSUME NEW a \in Account
        PROVE  balance'[a] = Sum([i \in 1..(n + 1) |-> Delta(entry'[new[i]].lines, a)])
    <3> DEFINE s == [i \in 1..n |-> Delta(entry[order[i]].lines, a)]
               t == [i \in 1..(n + 1) |-> Delta(entry'[new[i]].lines, a)]
    <3>1. Len(s) = n /\ Len(t) = n + 1
      BY <1>1
    <3>2. \A i \in 1..n : s[i] = t[i] /\ s[i] \in Int
      <4>1. ASSUME NEW i \in 1..n PROVE s[i] = t[i] /\ s[i] \in Int
        <5>1. order[i] \in Applied /\ new[i] = order[i] /\ i \in 1..(n + 1)
          BY <1>1, <2>2
        <5>2. entry[order[i]].lines \in Seq(Line)
          BY <5>1, RowFacts DEF Applied
        <5>3. s[i] = Delta(entry[order[i]].lines, a) /\ t[i] = Delta(entry'[new[i]].lines, a)
          BY <5>1
        <5>4. Delta(entry[order[i]].lines, a) \in Int
          BY <5>2, DeltaType
        <5>5. entry'[new[i]].lines = entry[order[i]].lines
          BY <1>3, <5>1
        <5> QED BY <5>3, <5>4, <5>5
      <4> QED BY <4>1
    <3>3. t[n + 1] = Delta(entry'[m].lines, a) /\ t[n + 1] \in Int
      <4>1. t[n + 1] = Delta(entry'[new[n + 1]].lines, a)
        BY <1>1
      <4> QED BY <1>5, <2>2, <4>1, DeltaType
    <3> HIDE DEF s, t
    <3>4. \A i \in 1..(n + 1) : t[i] \in Int
      BY <1>1, <3>2, <3>3
    <3>5. Ints(s) /\ Ints(t)
      BY <1>1, <3>1, <3>2, <3>4 DEF Ints
    <3>6. Sum(t) = Sum(s) + t[n + 1]
      BY <3>1, <3>2, <3>5, SumAppend
    <3>7. balance[a] = Sum(s)
      BY <1>2 DEF s
    <3>8. balance'[a] = balance[a] + Delta(entry'[m].lines, a)
      BY <1>5 DEF FoldIn
    <3> QED BY <3>3, <3>6, <3>7, <3>8 DEF t
  <2>5. AddsUp(new)'
    BY <2>2, <2>3, <2>4 DEF AddsUp
  <2> QED BY <2>1, <2>2, <2>5 DEF CacheAgrees
<1> QED BY <1>4, <1>5, AppliedGrows

\* While no balance is recomputed, the cached balance of every account is the
\* sum of the deltas of the entries that were posted, each counted once: posting
\* folds an entry in exactly when it becomes applied.
THEOREM CacheCorrect ==
  ASSUME "recompute" \notin Ops
  PROVE  Spec => []CacheAgrees
<1>1. Init => CacheAgrees
  <2> SUFFICES ASSUME Init PROVE CacheAgrees
    OBVIOUS
  <2>1. Applied = {}
    BY DEF Init, Applied
  <2>2. Cardinality(Applied) = 0
    BY <2>1, FS_EmptySet
  <2> DEFINE none == [i \in 1..0 |-> 0]
  <2>3. none \in [1..0 -> Applied] /\ DOMAIN none = 1..0
    BY <2>1
  <2>4. ASSUME NEW a \in Account
        PROVE  balance[a] = Sum([i \in DOMAIN none |-> Delta(entry[none[i]].lines, a)])
    <3> DEFINE s == [i \in DOMAIN none |-> Delta(entry[none[i]].lines, a)]
    <3>1. Len(s) = 0
      BY <2>3
    <3> HIDE DEF s
    <3>2. Sum(s) = 0
      BY <3>1, SumEmpty
    <3> QED BY <3>2 DEF Init, s
  <2>5. AddsUp(none)
    BY <2>3, <2>4 DEF AddsUp
  <2> HIDE DEF none
  <2> QED BY <2>2, <2>3, <2>5 DEF CacheAgrees
<1>2. TypeOK /\ Finite /\ CacheAgrees /\ [Next]_vars => CacheAgrees'
  BY CacheKept
<1> QED BY <1>1, <1>2, Types, PTL DEF Spec

-----------------------------------------------------------------------------
(* The recompute.                                                          *)

\* While nothing was reversed, the balance of every account is the one over the
\* POSTED entries, and no posted entry is deleted.
Healthy ==
  /\ \A e \in DOMAIN entry :
       /\ entry[e].status # "REVERSED"
       /\ entry[e].status = "POSTED" => ~entry[e].deleted
  /\ \A a \in Account : balance[a] = BalanceOver(entry, PostedIn(entry), a)

LEMMA PostedFacts ==
  ASSUME TypeOK, Finite
  PROVE  /\ PostedIn(entry) \subseteq DOMAIN entry /\ IsFiniteSet(PostedIn(entry))
         /\ PostedIn(entry) \subseteq Applied
         /\ \A e \in PostedIn(entry) : entry[e] \in Row /\ entry[e].lines \in Seq(Line)
<1>1. PostedIn(entry) \subseteq DOMAIN entry /\ PostedIn(entry) \subseteq Applied
  BY DEF PostedIn, Applied
<1>2. IsFiniteSet(PostedIn(entry))
  BY <1>1, FS_Subset DEF Finite
<1> QED BY <1>1, <1>2, RowFacts

\* What the two ways of writing one row do to the posted entries.
LEMMA WritePosted ==
  ASSUME TypeOK, NEW e, NEW r, WritesDraft(e, r)
  PROVE  /\ PostedIn(entry') = PostedIn(entry)
         /\ \A x \in PostedIn(entry) : x # e /\ entry'[x] = entry[x]
<1>1. /\ DraftFor(e, r) /\ r.status = "DRAFT" /\ entry' = Put(entry, e, r)
  BY DEF WritesDraft, DraftFor
<1>2. /\ DOMAIN entry' = DOMAIN entry \cup {e} /\ entry'[e] = r
      /\ \A x \in DOMAIN entry \ {e} : entry'[x] = entry[x]
      /\ e \notin Applied
  BY <1>1, WritesFacts
<1> QED BY <1>1, <1>2 DEF PostedIn, Applied

LEMMA PostPosted ==
  ASSUME TypeOK, NEW e, NEW r, PostsDraft(e, r)
  PROVE  /\ PostedIn(entry') = PostedIn(entry) \cup {e} /\ e \notin PostedIn(entry)
         /\ \A x \in DOMAIN entry \ {e} : entry'[x] = entry[x]
         /\ DOMAIN entry' = DOMAIN entry \cup {e} /\ entry'[e] = PostedRow(r)
         /\ e \notin Applied /\ e \in Entry /\ r \in Row
<1>1. DraftFor(e, r) /\ r \in Row /\ e \in Entry /\ ~r.deleted /\ entry' = Put(entry, e, PostedRow(r))
  BY DEF PostsDraft, DraftFor
<1>2. /\ DOMAIN entry' = DOMAIN entry \cup {e} /\ entry'[e] = PostedRow(r)
      /\ \A x \in DOMAIN entry \ {e} : entry'[x] = entry[x]
      /\ e \notin Applied
  BY <1>1, WritesFacts
<1>3. entry'[e].status = "POSTED" /\ ~entry'[e].deleted
  BY <1>1, <1>2, PostedRowFacts
<1> QED BY <1>1, <1>2, <1>3 DEF PostedIn, Applied

LEMMA HealthyInit == Init => Healthy
<1> SUFFICES ASSUME Init PROVE Healthy
  OBVIOUS
<1>1. PostedIn(entry) = {} /\ DOMAIN entry = {}
  BY DEF Init, PostedIn
<1>2. \A a : BalanceOver(entry, {}, a) = 0
  BY BalanceOverNone
<1> QED BY <1>1, <1>2 DEF Init, Healthy

LEMMA HealthyKept ==
  ASSUME TypeOK, Finite, Healthy, [Next]_vars, "reverse" \notin Ops
  PROVE  Healthy'
<1>0. /\ PostedIn(entry) \subseteq DOMAIN entry /\ IsFiniteSet(PostedIn(entry))
      /\ PostedIn(entry) \subseteq Applied
      /\ \A e \in PostedIn(entry) : entry[e] \in Row /\ entry[e].lines \in Seq(Line)
  BY PostedFacts
<1>1. CASE entry' = entry /\ (balance' = balance \/ Recomputes)
  <2>1. \A a \in Account : balance'[a] = balance[a]
    <3>1. CASE Recomputes
      <4>1. PICK b \in Account :
              balance' = [balance EXCEPT ![b] = BalanceOver(entry, PostedIn(entry), b)]
        BY <3>1 DEF Recomputes
      <4>2. balance[b] = BalanceOver(entry, PostedIn(entry), b)
        BY DEF Healthy
      <4> QED BY <4>1, <4>2 DEF TypeOK
    <3> QED BY <1>1, <3>1
  <2> QED BY <1>1, <2>1 DEF Healthy
<1>2. ASSUME NEW e, NEW r, WritesDraft(e, r) PROVE Healthy'
  <2>1. /\ PostedIn(entry') = PostedIn(entry)
        /\ \A x \in PostedIn(entry) : entry'[x].lines = entry[x].lines
    BY <1>2, WritePosted
  <2>2. /\ DOMAIN entry' = DOMAIN entry \cup {e} /\ entry'[e] = r
        /\ \A x \in DOMAIN entry \ {e} : entry'[x] = entry[x]
        /\ r.status = "DRAFT" /\ balance' = balance
    BY <1>2, WritesFacts DEF WritesDraft, DraftFor
  <2>3. \A a \in Account : BalanceOver(entry', PostedIn(entry), a)
                             = BalanceOver(entry, PostedIn(entry), a)
    BY <1>0, <2>1, BalanceSame
  <2>4. \A a \in Account : balance'[a] = BalanceOver(entry', PostedIn(entry'), a)
    BY <2>1, <2>2, <2>3 DEF Healthy
  <2>5. \A x \in DOMAIN entry' : /\ entry'[x].status # "REVERSED"
                                 /\ entry'[x].status = "POSTED" => ~entry'[x].deleted
    BY <2>2 DEF Healthy
  <2> QED BY <2>4, <2>5 DEF Healthy
<1>3. ASSUME NEW e, NEW r, PostsDraft(e, r) PROVE Healthy'
  <2>1. /\ PostedIn(entry') = PostedIn(entry) \cup {e} /\ e \notin PostedIn(entry)
        /\ \A x \in DOMAIN entry \ {e} : entry'[x] = entry[x]
        /\ DOMAIN entry' = DOMAIN entry \cup {e} /\ entry'[e] = PostedRow(r) /\ r \in Row
    BY <1>3, PostPosted
  <2>2. /\ entry'[e].status = "POSTED" /\ ~entry'[e].deleted /\ entry'[e].lines = r.lines
        /\ r.lines \in Seq(Line) /\ balance' = FoldIn(balance, r.lines)
    BY <1>3, <2>1, PostedRowFacts DEF PostsDraft, Row
  <2>3. \A x \in PostedIn(entry) : x # e /\ entry'[x].lines = entry[x].lines
    BY <1>0, <2>1
  <2>4. \A x \in PostedIn(entry) \cup {e} : entry'[x].lines \in Seq(Line)
    BY <1>0, <2>2, <2>3
  <2>5. ASSUME NEW a \in Account
        PROVE  balance'[a] = BalanceOver(entry', PostedIn(entry'), a)
    <3>1. BalanceOver(entry', PostedIn(entry), a) = BalanceOver(entry, PostedIn(entry), a)
      BY <1>0, <2>3, BalanceSame
    <3>2. BalanceOver(entry', PostedIn(entry) \cup {e}, a)
            = BalanceOver(entry', PostedIn(entry), a) + Delta(entry'[e].lines, a)
      BY <1>0, <2>1, <2>4, BalanceOneMore
    <3>3. balance'[a] = balance[a] + Delta(r.lines, a)
      BY <2>2 DEF FoldIn
    <3> QED BY <2>1, <2>2, <3>1, <3>2, <3>3 DEF Healthy
  <2>6. \A x \in DOMAIN entry' : /\ entry'[x].status # "REVERSED"
                                 /\ entry'[x].status = "POSTED" => ~entry'[x].deleted
    BY <2>1, <2>2 DEF Healthy
  <2> QED BY <2>5, <2>6 DEF Healthy
<1>4. \A e, m, r : ~Reverses(e, m, r)
  BY DEF Reverses
<1> QED BY <1>1, <1>2, <1>3, <1>4, Effects

LEMMA Health ==
  ASSUME "reverse" \notin Ops
  PROVE  Spec => []Healthy
<1>1. Init => Healthy
  BY HealthyInit
<1>2. TypeOK /\ Finite /\ Healthy /\ [Next]_vars => Healthy'
  BY HealthyKept
<1> QED BY <1>1, <1>2, Types, PTL DEF Spec

\* While nothing is reversed, a recompute finds every balance as it should be
\* and writes what is there: the fold of each post, the edits of drafts and the
\* closing entries keep the cache equal to the sum over the POSTED entries.
THEOREM RecomputeChangesNothing ==
  ASSUME "reverse" \notin Ops
  PROVE  Spec => RecomputeIsNoOp
<1> DEFINE NoOp == \A a \in Account : RecomputeAccountBalance(a) => UNCHANGED balance
<1>1. TypeOK /\ Healthy => [NoOp]_vars
  <2> SUFFICES ASSUME TypeOK, Healthy, NEW a \in Account, RecomputeAccountBalance(a)
               PROVE  balance' = balance
    OBVIOUS
  <2>1. balance' = [balance EXCEPT ![a] = BalanceOver(entry, PostedIn(entry), a)]
    BY DEF RecomputeAccountBalance
  <2> QED BY <2>1 DEF Healthy, TypeOK
<1> QED BY <1>1, Types, Health, PTL DEF Spec, RecomputeIsNoOp

-----------------------------------------------------------------------------
(* The results of closed periods.                                          *)

ClosingIn(e, q) == e \in DOMAIN entry /\ entry[e].closing /\ entry[e].period = q

\* No entry of the period was reversed.
Unreversed(q) == \A e \in InPeriod(entry, q) : entry[e].status # "REVERSED"

LedgerOf(q) == PostedIn(entry) \cap InPeriod(entry, q)

\* The period was closed on its result: with an entry that moved it, or without
\* one when there was nothing to move.
ClosedOn(q) ==
  \/ /\ \A e : ~ClosingIn(e, q)
     /\ ClosingLines(PeriodNet(entry, q)) = << >>
  \/ \E c : ClosingIn(c, q) /\ entry[c].lines = ClosingLines(PeriodNet(entry, q))

ClosingEntries ==
  \A e \in DOMAIN entry : entry[e].closing =>
    /\ e \in Applied
    /\ entry[e].period \in Period /\ period[entry[e].period] = "CLOSED"
    /\ \A x \in DOMAIN entry :
         entry[x].closing /\ entry[x].period = entry[e].period => x = e

PostedByDate == \A e \in Applied : entry[e].period = PeriodOf[entry[e].date]

ClosedOK ==
  /\ ClosingEntries /\ PostedByDate
  /\ \A q \in Period : period[q] = "CLOSED" /\ Unreversed(q) => ClosedOn(q)

\* A step that leaves the books of period q alone.
Aside(q) ==
  /\ LedgerOf(q)' = LedgerOf(q)
  /\ \A x \in LedgerOf(q) : entry'[x].lines = entry[x].lines
  /\ \A x : ClosingIn(x, q)' <=> ClosingIn(x, q)
  /\ \A x : ClosingIn(x, q) => entry'[x].lines = entry[x].lines
  /\ Unreversed(q)' => Unreversed(q)

LEMMA LedgerOfFacts ==
  ASSUME TypeOK, Finite, NEW q
  PROVE  IsFiniteSet(LedgerOf(q)) /\ \A x \in LedgerOf(q) : entry[x].lines \in Seq(Line)
<1>1. LedgerOf(q) \subseteq PostedIn(entry)
  BY DEF LedgerOf
<1> QED BY <1>1, PostedFacts, FS_Subset

LEMMA AsideKeepsNet ==
  ASSUME TypeOK, Finite, NEW q, Aside(q)
  PROVE  PeriodNet(entry', q) = PeriodNet(entry, q)
<1> DEFINE S == LedgerOf(q)
<1>1. IsFiniteSet(S) /\ S = PostedIn(entry) \cap InPeriod(entry, q)
  BY LedgerOfFacts DEF LedgerOf
<1>2. S = PostedIn(entry') \cap InPeriod(entry', q)
  BY DEF Aside, LedgerOf
<1>3. \A x \in S : entry'[x].lines = entry[x].lines
  BY DEF Aside
<1> HIDE DEF S
<1>4. PeriodNet(entry, q) = NetOver(entry, S)
  BY <1>1, PeriodNetOver
<1>5. PeriodNet(entry', q) = NetOver(entry', S)
  BY <1>1, <1>2, PeriodNetOver
<1> QED BY <1>1, <1>3, <1>4, <1>5, NetSame

LEMMA AsideKeepsResult ==
  ASSUME TypeOK, Finite, NEW q, Aside(q), ClosedOn(q)
  PROVE  ClosedOn(q)'
<1>1. PeriodNet(entry', q) = PeriodNet(entry, q)
  BY AsideKeepsNet
<1>2. CASE /\ \A e : ~ClosingIn(e, q)
           /\ ClosingLines(PeriodNet(entry, q)) = << >>
  <2>1. \A e : ~ClosingIn(e, q)'
    BY <1>2 DEF Aside
  <2> QED BY <1>1, <1>2, <2>1 DEF ClosedOn
<1>3. ASSUME NEW c, ClosingIn(c, q), entry[c].lines = ClosingLines(PeriodNet(entry, q))
      PROVE  ClosedOn(q)'
  <2>1. ClosingIn(c, q)' /\ entry'[c].lines = entry[c].lines
    BY <1>3 DEF Aside
  <2> QED BY <1>1, <1>3, <2>1 DEF ClosedOn
<1> QED BY <1>2, <1>3 DEF ClosedOn

\* Writing a draft.
LEMMA WriteAside ==
  ASSUME TypeOK, Finite, ClosingEntries, PostedByDate, NEW e, NEW r, WritesDraft(e, r)
  PROVE  /\ ClosingEntries' /\ PostedByDate'
         /\ \A q : Aside(q)
<1>1. /\ DOMAIN entry' = DOMAIN entry \cup {e} /\ entry'[e] = r
      /\ \A x \in DOMAIN entry \ {e} : entry'[x] = entry[x]
      /\ r.status = "DRAFT" /\ e \notin Applied /\ period' = period
  BY WritesFacts DEF WritesDraft, DraftFor
<1>2. r.closing = FALSE
  <2>1. CASE e \in DOMAIN entry
    <3>1. entry[e].closing \in BOOLEAN /\ ~entry[e].closing
      BY <1>1, <2>1, RowFacts DEF ClosingEntries, Row
    <3> QED BY <2>1, <3>1 DEF WritesDraft
  <2> QED BY <2>1 DEF WritesDraft
<1>3. e \in DOMAIN entry => ~entry[e].closing /\ entry[e].status # "REVERSED"
  BY <1>1 DEF ClosingEntries, Applied
<1>4. Applied' = Applied /\ \A x \in Applied : x # e /\ entry'[x] = entry[x]
  BY <1>1 DEF Applied
<1>5. ClosingEntries'
  <2> SUFFICES ASSUME NEW y \in DOMAIN entry', entry'[y].closing
               PROVE  /\ y \in Applied'
                      /\ entry'[y].period \in Period /\ period'[entry'[y].period] = "CLOSED"
                      /\ \A x \in DOMAIN entry' :
                           entry'[x].closing /\ entry'[x].period = entry'[y].period => x = y
    BY DEF ClosingEntries
  <2>1. y \in DOMAIN entry /\ y # e /\ entry'[y] = entry[y] /\ entry[y].closing
    BY <1>1, <1>2
  <2>2. /\ y \in Applied /\ entry[y].period \in Period /\ period[entry[y].period] = "CLOSED"
        /\ \A x \in DOMAIN entry : entry[x].closing /\ entry[x].period = entry[y].period => x = y
    BY <2>1 DEF ClosingEntries
  <2> QED BY <1>1, <1>2, <1>4, <2>1, <2>2
<1>6. PostedByDate'
  BY <1>4 DEF PostedByDate
<1>7. ASSUME NEW q PROVE Aside(q)
  <2>1. PostedIn(entry') = PostedIn(entry) /\ \A x \in PostedIn(entry) : x # e /\ entry'[x] = entry[x]
    BY WritePosted
  <2>2. LedgerOf(q)' = LedgerOf(q) /\ \A x \in LedgerOf(q) : entry'[x].lines = entry[x].lines
    BY <2>1 DEF LedgerOf, InPeriod, PostedIn
  <2>3. \A x : ClosingIn(x, q)' <=> ClosingIn(x, q)
    BY <1>1, <1>2, <1>3 DEF ClosingIn
  <2>4. \A x : ClosingIn(x, q) => entry'[x].lines = entry[x].lines
    BY <1>1, <1>3 DEF ClosingIn
  <2>5. Unreversed(q)' => Unreversed(q)
    BY <1>1, <1>3 DEF Unreversed, InPeriod
  <2> QED BY <2>2, <2>3, <2>4, <2>5 DEF Aside
<1> QED BY <1>5, <1>6, <1>7

\* Posting a row, with the closing entries seen by the caller.
LEMMA PostAside ==
  ASSUME TypeOK, Finite, ClosingEntries, PostedByDate, NEW e, NEW r, PostsDraft(e, r)
  PROVE  /\ PostedByDate'
         /\ e \notin Applied /\ e \in DOMAIN entry => ~entry[e].closing
         /\ \A q : q # PeriodOf[r.date] => Aside(q)
<1>1. /\ PostedIn(entry') = PostedIn(entry) \cup {e} /\ e \notin PostedIn(entry)
      /\ \A x \in DOMAIN entry \ {e} : entry'[x] = entry[x]
      /\ DOMAIN entry' = DOMAIN entry \cup {e} /\ entry'[e] = PostedRow(r)
      /\ e \notin Applied /\ r \in Row
  BY PostPosted
<1>2. /\ entry'[e].status = "POSTED" /\ entry'[e].date = r.date
      /\ entry'[e].period = PeriodOf[r.date]
  BY <1>1, PostedRowFacts
<1>3. e \in DOMAIN entry => ~entry[e].closing /\ entry[e].status # "REVERSED"
  BY <1>1 DEF ClosingEntries, Applied
<1>4. Applied' = Applied \cup {e} /\ \A x \in Applied : x # e /\ entry'[x] = entry[x]
  BY <1>1, <1>2 DEF Applied
<1>5. PostedByDate'
  BY <1>2, <1>4 DEF PostedByDate
<1>6. ASSUME NEW q, q # PeriodOf[r.date] PROVE Aside(q)
  <2>1. e \notin LedgerOf(q) /\ e \notin LedgerOf(q)'
    BY <1>1, <1>2, <1>6 DEF LedgerOf, InPeriod
  <2>2. LedgerOf(q)' = LedgerOf(q) /\ \A x \in LedgerOf(q) : entry'[x].lines = entry[x].lines
    BY <1>1, <2>1 DEF LedgerOf, InPeriod
  <2>3. \A x : ClosingIn(x, q)' <=> ClosingIn(x, q)
    BY <1>1, <1>2, <1>3, <1>6 DEF ClosingIn
  <2>4. \A x : ClosingIn(x, q) => entry'[x].lines = entry[x].lines
    BY <1>1, <1>3 DEF ClosingIn
  <2>5. Unreversed(q)' => Unreversed(q)
    BY <1>1, <1>3 DEF Unreversed, InPeriod
  <2> QED BY <2>2, <2>3, <2>4, <2>5 DEF Aside
<1> QED BY <1>1, <1>3, <1>5, <1>6

\* A reversal leaves alone the books of each period that has no reversed entry
\* after it, but for the period of the mirror, which is open.
LEMMA ReverseAside ==
  ASSUME TypeOK, Finite, ClosingEntries, PostedByDate, NEW e, NEW m, NEW r, Reverses(e, m, r)
  PROVE  /\ ClosingEntries' /\ PostedByDate'
         /\ \A q \in Period : q # PeriodOf[r.date] /\ Unreversed(q)' => Aside(q)
<1>1. /\ e \in DOMAIN entry /\ entry[e] \in Row /\ entry[e].status = "POSTED" /\ e \in Applied
      /\ m \notin DOMAIN entry /\ m # e /\ r \in Row /\ r.closing = FALSE /\ period' = period
  BY RowFacts DEF Reverses, Applied, Row
<1>2. /\ DOMAIN entry' = DOMAIN entry \cup {m} /\ entry'[m] = PostedRow(r)
      /\ entry'[e] = [entry[e] EXCEPT !.status = "REVERSED"]
      /\ \A x \in DOMAIN entry \ {e} : entry'[x] = entry[x]
  BY ReversesFacts
<1>3. /\ entry'[e].status = "REVERSED" /\ entry'[e].date = entry[e].date
      /\ entry'[e].period = entry[e].period /\ entry'[e].closing = entry[e].closing
      /\ entry'[e].lines = entry[e].lines
  BY <1>1, <1>2 DEF Row
<1>4. /\ entry'[m].status = "POSTED" /\ entry'[m].date = r.date
      /\ entry'[m].period = PeriodOf[r.date] /\ entry'[m].closing = FALSE
  BY <1>1, <1>2, PostedRowFacts
<1>5. \A x \in DOMAIN entry : /\ x # m /\ x \in DOMAIN entry'
                              /\ entry'[x].date = entry[x].date
                              /\ entry'[x].period = entry[x].period
                              /\ entry'[x].closing = entry[x].closing
                              /\ entry'[x].lines = entry[x].lines
                              /\ entry[x].status = "REVERSED" => entry'[x].status = "REVERSED"
                              /\ x \in Applied <=> x \in Applied'
  BY <1>1, <1>2, <1>3 DEF Applied
<1>6. ClosingEntries'
  <2> SUFFICES ASSUME NEW y \in DOMAIN entry', entry'[y].closing
               PROVE  /\ y \in Applied'
                      /\ entry'[y].period \in Period /\ period'[entry'[y].period] = "CLOSED"
                      /\ \A x \in DOMAIN entry' :
                           entry'[x].closing /\ entry'[x].period = entry'[y].period => x = y
    BY DEF ClosingEntries
  <2>1. y \in DOMAIN entry /\ entry[y].closing
    BY <1>2, <1>4, <1>5
  <2>2. /\ y \in Applied /\ entry[y].period \in Period /\ period[entry[y].period] = "CLOSED"
        /\ \A x \in DOMAIN entry : entry[x].closing /\ entry[x].period = entry[y].period => x = y
    BY <2>1 DEF ClosingEntries
  <2>3. ASSUME NEW x \in DOMAIN entry', entry'[x].closing, entry'[x].period = entry'[y].period
        PROVE  x = y
    BY <1>2, <1>4, <1>5, <2>1, <2>2, <2>3
  <2> QED BY <1>1, <1>5, <2>1, <2>2, <2>3
<1>7. PostedByDate'
  <2> SUFFICES ASSUME NEW x \in Applied' PROVE entry'[x].period = PeriodOf[entry'[x].date]
    BY DEF PostedByDate
  <2>1. CASE x = m
    BY <1>4, <2>1
  <2>2. CASE x # m
    <3>1. x \in DOMAIN entry
      BY <1>2, <2>2 DEF Applied
    <3> QED BY <1>5, <3>1 DEF PostedByDate
  <2> QED BY <2>1, <2>2
<1>8. ASSUME NEW q \in Period, q # PeriodOf[r.date], Unreversed(q)' PROVE Aside(q)
  <2>1. PeriodOf[entry[e].date] # q
    BY <1>1, <1>3, <1>5, <1>8 DEF Unreversed, InPeriod
  <2>2. \A x : x \in LedgerOf(q) => x \in DOMAIN entry /\ x # e /\ entry'[x] = entry[x] /\ x \in DOMAIN entry'
    BY <1>2, <2>1 DEF LedgerOf, InPeriod
  <2>3. \A x : x \in LedgerOf(q)' => x \in DOMAIN entry /\ x # e /\ entry'[x] = entry[x]
    BY <1>2, <1>3, <1>4, <1>8, <2>1 DEF LedgerOf, InPeriod
  <2>4. \A x : x \in LedgerOf(q)' <=> x \in LedgerOf(q)
    BY <2>2, <2>3 DEF LedgerOf, InPeriod, PostedIn
  <2>5. \A x : ClosingIn(x, q)' <=> ClosingIn(x, q)
    BY <1>2, <1>4, <1>5 DEF ClosingIn
  <2>6. \A x : ClosingIn(x, q) => entry'[x].lines = entry[x].lines
    BY <1>5 DEF ClosingIn
  <2>7. Unreversed(q)
    BY <1>5, <1>8 DEF Unreversed, InPeriod
  <2> QED BY <2>2, <2>4, <2>5, <2>6, <2>7 DEF Aside
<1> QED BY <1>6, <1>7, <1>8

\* A post of a draft and the close of a period, for the closing entries.
LEMMA OwnPostCloses ==
  ASSUME TypeOK, Finite, ClosingEntries, PostedByDate, NEW e, PostsOwn(e)
  PROVE  ClosingEntries'
<1>1. e \in DOMAIN entry /\ PostsDraft(e, entry[e]) /\ period' = period
  BY DEF PostsOwn
<1>2. /\ \A x \in DOMAIN entry \ {e} : entry'[x] = entry[x]
      /\ DOMAIN entry' = DOMAIN entry \cup {e} /\ entry'[e] = PostedRow(entry[e])
      /\ e \notin Applied /\ entry[e] \in Row
  BY <1>1, PostPosted
<1>3. entry'[e].status = "POSTED" /\ ~entry'[e].closing
  <2>1. ~entry[e].closing
    BY <1>1, <1>2 DEF ClosingEntries
  <2> QED BY <1>2, <2>1, PostedRowFacts
<1> SUFFICES ASSUME NEW y \in DOMAIN entry', entry'[y].closing
             PROVE  /\ y \in Applied'
                    /\ entry'[y].period \in Period /\ period'[entry'[y].period] = "CLOSED"
                    /\ \A x \in DOMAIN entry' :
                         entry'[x].closing /\ entry'[x].period = entry'[y].period => x = y
  BY DEF ClosingEntries
<1>4. y \in DOMAIN entry /\ y # e /\ entry'[y] = entry[y] /\ entry[y].closing
  BY <1>2, <1>3
<1>5. /\ y \in Applied /\ entry[y].period \in Period /\ period[entry[y].period] = "CLOSED"
      /\ \A x \in DOMAIN entry : entry[x].closing /\ entry[x].period = entry[y].period => x = y
  BY <1>4 DEF ClosingEntries
<1>6. y \in Applied'
  BY <1>4, <1>5 DEF Applied
<1> QED BY <1>1, <1>2, <1>3, <1>4, <1>5, <1>6

LEMMA CloseKeeps ==
  ASSUME TypeOK, Finite, ClosingEntries, PostedByDate, ClosingAccounts,
         NEW q \in Period, NEW c \in Entry, Closes(q, c)
  PROVE  /\ ClosingEntries' /\ PostedByDate'
         /\ \A p : p # q => Aside(p)
         /\ ClosedOn(q)'
<1> DEFINE net == PeriodNet(entry, q)
           ls == ClosingLines(net)
           r == ClosingRow(EndOf[q], ls)
<1>1. /\ period[q] # "CLOSED" /\ period' = [period EXCEPT ![q] = "CLOSED"]
      /\ period'[q] = "CLOSED" /\ \A p : p # q => period'[p] = period[p]
  BY DEF Closes, CloseFiscalPeriod, TypeOK
<1>2. \A e : ~ClosingIn(e, q)
  BY <1>1 DEF ClosingEntries, ClosingIn
<1>3. CASE ls = << >> /\ UNCHANGED <<entry, balance>>
  <2>1. ClosingEntries'
    BY <1>1, <1>3 DEF ClosingEntries, Applied
  <2>2. PostedByDate'
    BY <1>3 DEF PostedByDate, Applied
  <2>3. \A p : Aside(p)
    BY <1>3 DEF Aside, LedgerOf, ClosingIn, Unreversed
  <2>4. ClosedOn(q)'
    BY <1>2, <1>3 DEF ClosedOn, ClosingIn
  <2> QED BY <2>1, <2>2, <2>3, <2>4
<1>4. CASE c \notin DOMAIN entry /\ PostsDraft(c, r)
  <2>0. net \in Int /\ ls \in Seq(Line) /\ EndOf[q] \in Date /\ PeriodOf[EndOf[q]] = q
    BY RowFacts, PeriodNetType, ClosingTyped, PeriodAssumption DEF Finite, PeriodAssumption
  <2>1. r \in Row /\ r.lines = ls /\ r.date = EndOf[q]
    <3> HIDE DEF ls
    <3> QED BY <2>0, DraftRowFacts
  <2>2. r.closing = TRUE
    BY DraftRowFlags
  <2>3. NetIncome(ls) = 0
    BY <2>0, ClosingNet
  <2> HIDE DEF ls, r
  <2>4. PeriodOf[r.date] = q
    BY <2>0, <2>1
  <2>5. /\ PostedIn(entry') = PostedIn(entry) \cup {c} /\ c \notin PostedIn(entry)
        /\ \A x \in DOMAIN entry \ {c} : entry'[x] = entry[x]
        /\ DOMAIN entry' = DOMAIN entry \cup {c} /\ entry'[c] = PostedRow(r)
    BY <1>4, PostPosted
  <2>6. /\ entry'[c].status = "POSTED" /\ entry'[c].lines = ls /\ entry'[c].closing = TRUE
        /\ entry'[c].period = q /\ entry'[c].date = r.date
    BY <2>1, <2>2, <2>4, <2>5, PostedRowFacts
  <2>7. PostedByDate' /\ \A p : p # q => Aside(p)
    BY <1>4, <2>4, PostAside
  <2>8. ClosingEntries'
    <3> SUFFICES ASSUME NEW y \in DOMAIN entry', entry'[y].closing
                 PROVE  /\ y \in Applied'
                        /\ entry'[y].period \in Period /\ period'[entry'[y].period] = "CLOSED"
                        /\ \A x \in DOMAIN entry' :
                             entry'[x].closing /\ entry'[x].period = entry'[y].period => x = y
      BY DEF ClosingEntries
    <3>1. CASE y = c
      <4>1. y \in Applied'
        BY <2>6, <3>1 DEF Applied
      <4>2. ASSUME NEW x \in DOMAIN entry', entry'[x].closing, entry'[x].period = q PROVE x = c
        BY <1>2, <2>5, <4>2 DEF ClosingIn
      <4> QED BY <1>1, <2>6, <3>1, <4>1, <4>2
    <3>2. CASE y # c
      <4>1. y \in DOMAIN entry /\ entry'[y] = entry[y] /\ entry[y].closing
        BY <2>5, <3>2
      <4>2. /\ y \in Applied /\ entry[y].period \in Period /\ period[entry[y].period] = "CLOSED"
            /\ \A x \in DOMAIN entry :
                 entry[x].closing /\ entry[x].period = entry[y].period => x = y
        BY <4>1 DEF ClosingEntries
      <4>3. entry[y].period # q
        BY <1>1, <4>2
      <4>4. y \in Applied'
        BY <2>5, <4>1, <4>2 DEF Applied
      <4>5. ASSUME NEW x \in DOMAIN entry', entry'[x].closing, entry'[x].period = entry'[y].period
            PROVE  x = y
        <5>1. x # c
          BY <2>6, <4>1, <4>3, <4>5
        <5> QED BY <2>5, <4>1, <4>2, <4>5, <5>1
      <4> QED BY <1>1, <4>1, <4>2, <4>3, <4>4, <4>5
    <3> QED BY <3>1, <3>2
  <2>9. PeriodNet(entry', q) = net
    <3> DEFINE S == LedgerOf(q)
               T == S \cup {c}
    <3>1. /\ IsFiniteSet(S) /\ S = PostedIn(entry) \cap InPeriod(entry, q)
          /\ \A x \in S : entry[x].lines \in Seq(Line)
      BY LedgerOfFacts DEF LedgerOf
    <3>2. \A x \in S : x # c /\ entry'[x] = entry[x]
      BY <1>4, <2>5 DEF LedgerOf, InPeriod
    <3>3. T = PostedIn(entry') \cap InPeriod(entry', q)
      BY <1>4, <2>4, <2>5, <2>6 DEF LedgerOf, InPeriod
    <3> HIDE DEF S
    <3>4. IsFiniteSet(T) /\ c \notin S
      BY <3>1, <3>2, FS_AddElement
    <3>5. PeriodNet(entry, q) = NetOver(entry, S)
      BY <3>1, PeriodNetOver
    <3>6. PeriodNet(entry', q) = NetOver(entry', T)
      <4> HIDE DEF T
      <4> QED BY <3>3, <3>4, PeriodNetOver
    <3>7. \A x \in S \cup {c} : entry'[x].lines \in Seq(Line)
      BY <2>0, <2>6, <3>1, <3>2
    <3>8. NetOver(entry', T) = NetOver(entry', S) + NetIncome(entry'[c].lines)
      BY <3>1, <3>4, <3>7, NetOneMore
    <3>9. NetOver(entry', S) = NetOver(entry, S)
      BY <3>1, <3>2, NetSame
    <3> QED BY <2>0, <2>3, <2>6, <3>5, <3>6, <3>8, <3>9
  <2>10. ClosedOn(q)'
    <3>1. ClosingIn(c, q)'
      BY <2>5, <2>6 DEF ClosingIn
    <3>2. entry'[c].lines = ClosingLines(PeriodNet(entry', q))
      BY <2>6, <2>9 DEF ls
    <3> QED BY <3>1, <3>2 DEF ClosedOn
  <2> QED BY <2>7, <2>8, <2>10
<1> QED BY <1>3, <1>4 DEF Closes

LEMMA ClosedKept ==
  ASSUME TypeOK, Finite, ClosedOK, [Next]_vars, ClosingAccounts
  PROVE  ClosedOK'
<1>0. ClosingEntries /\ PostedByDate
  BY DEF ClosedOK
<1>1. ASSUME UNCHANGED <<entry, period>> PROVE ClosedOK'
  BY <1>1 DEF ClosedOK, ClosingEntries, PostedByDate, Applied, ClosedOn, ClosingIn, Unreversed
<1>2. ASSUME period' = period, ClosingEntries', PostedByDate',
             \A q \in Period : period[q] = "CLOSED" /\ Unreversed(q)' => Aside(q)
      PROVE  ClosedOK'
  <2> SUFFICES ASSUME NEW q \in Period, period'[q] = "CLOSED", Unreversed(q)'
               PROVE  ClosedOn(q)'
    BY <1>2 DEF ClosedOK
  <2>1. Aside(q) /\ period[q] = "CLOSED"
    BY <1>2
  <2>2. ClosedOn(q)
    BY <2>1 DEF Aside, ClosedOK
  <2> QED BY <2>1, <2>2, AsideKeepsResult
<1>3. ASSUME NEW e, NEW r, WritesDraft(e, r) PROVE ClosedOK'
  BY <1>0, <1>2, <1>3, WriteAside DEF WritesDraft
<1>4. ASSUME NEW e, PostsOwn(e) PROVE ClosedOK'
  <2>1. PostsDraft(e, entry[e]) /\ period' = period /\ PeriodOpen(entry[e].date)
    BY <1>4 DEF PostsOwn, PostsDraft
  <2>2. \A q : period[q] = "CLOSED" => q # PeriodOf[entry[e].date]
    BY <2>1 DEF PeriodOpen
  <2>3. PostedByDate' /\ \A q : q # PeriodOf[entry[e].date] => Aside(q)
    BY <1>0, <2>1, PostAside
  <2>4. ClosingEntries'
    BY <1>0, <1>4, OwnPostCloses
  <2> QED BY <1>2, <2>1, <2>2, <2>3, <2>4
<1>5. ASSUME NEW e, NEW m, NEW r, Reverses(e, m, r) PROVE ClosedOK'
  <2>1. period' = period /\ PeriodOpen(r.date)
    BY <1>5 DEF Reverses
  <2>2. \A q : period[q] = "CLOSED" => q # PeriodOf[r.date]
    BY <2>1 DEF PeriodOpen
  <2>3. /\ ClosingEntries' /\ PostedByDate'
        /\ \A q \in Period : q # PeriodOf[r.date] /\ Unreversed(q)' => Aside(q)
    BY <1>0, <1>5, ReverseAside
  <2> QED BY <1>2, <2>1, <2>2, <2>3
<1>6. ASSUME NEW q \in Period, NEW c \in Entry, Closes(q, c) PROVE ClosedOK'
  <2>1. /\ ClosingEntries' /\ PostedByDate' /\ ClosedOn(q)'
        /\ \A p : p # q => Aside(p)
    BY <1>0, <1>6, CloseKeeps
  <2>2. \A p \in Period \ {q} : period'[p] = period[p]
    BY <1>6 DEF Closes, CloseFiscalPeriod, TypeOK
  <2> SUFFICES ASSUME NEW p \in Period, period'[p] = "CLOSED", Unreversed(p)'
               PROVE  ClosedOn(p)'
    BY <2>1 DEF ClosedOK
  <2>3. CASE p = q
    BY <2>1, <2>3
  <2>4. CASE p # q
    <3>1. Aside(p) /\ period[p] = "CLOSED"
      BY <2>1, <2>2, <2>4
    <3>2. ClosedOn(p)
      BY <3>1 DEF Aside, ClosedOK
    <3> QED BY <3>1, <3>2, AsideKeepsResult
  <2> QED BY <2>3, <2>4
<1> QED BY <1>1, <1>3, <1>4, <1>5, <1>6, StepKinds

LEMMA ClosedOKMatches ==
  ASSUME TypeOK, ClosedOK
  PROVE  ClosingMatchesNet
<1> SUFFICES ASSUME NEW q \in Period
             PROVE  LET closings == {e \in Applied : entry[e].closing /\ entry[e].period = q}
                    IN  /\ closings # {} => period[q] = "CLOSED" /\ Cardinality(closings) = 1
                        /\ (/\ period[q] = "CLOSED"
                            /\ \A e \in InPeriod(entry, q) : entry[e].status # "REVERSED")
                           => ClosingLines(PeriodNet(entry, q)) =
                                (IF closings = {} THEN << >>
                                 ELSE entry[CHOOSE e \in closings : TRUE].lines)
  BY DEF ClosingMatchesNet
<1> DEFINE closings == {e \in Applied : entry[e].closing /\ entry[e].period = q}
<1>1. \A e : e \in closings <=> ClosingIn(e, q)
  BY DEF ClosedOK, ClosingEntries, ClosingIn, Applied
<1>2. \A e, x : ClosingIn(e, q) /\ ClosingIn(x, q) => x = e
  BY DEF ClosedOK, ClosingEntries, ClosingIn
<1>3. \A e : ClosingIn(e, q) => period[q] = "CLOSED"
  BY DEF ClosedOK, ClosingEntries, ClosingIn
<1> HIDE DEF closings
<1>4. ASSUME closings # {} PROVE period[q] = "CLOSED" /\ Cardinality(closings) = 1
  <2>1. PICK e : e \in closings
    BY <1>4
  <2>2. closings = {e}
    BY <1>1, <1>2, <2>1
  <2> QED BY <1>1, <1>3, <2>1, <2>2, FS_Singleton
<1>5. ASSUME period[q] = "CLOSED", Unreversed(q)
      PROVE  ClosingLines(PeriodNet(entry, q)) =
               (IF closings = {} THEN << >> ELSE entry[CHOOSE e \in closings : TRUE].lines)
  <2>1. ClosedOn(q)
    BY <1>5 DEF ClosedOK
  <2>2. CASE /\ \A e : ~ClosingIn(e, q)
             /\ ClosingLines(PeriodNet(entry, q)) = << >>
    BY <1>1, <2>2
  <2>3. ASSUME NEW c, ClosingIn(c, q), entry[c].lines = ClosingLines(PeriodNet(entry, q))
        PROVE  ClosingLines(PeriodNet(entry, q)) =
                 (IF closings = {} THEN << >> ELSE entry[CHOOSE e \in closings : TRUE].lines)
    <3>1. c \in closings
      BY <1>1, <2>3
    <3>2. (CHOOSE e \in closings : TRUE) \in closings
      BY <3>1
    <3>3. (CHOOSE e \in closings : TRUE) = c
      BY <1>1, <1>2, <2>3, <3>2
    <3> QED BY <2>3, <3>1, <3>3
  <2> QED BY <2>1, <2>2, <2>3 DEF ClosedOn
<1> QED BY <1>4, <1>5 DEF closings, Unreversed

\* A closed period whose entries nobody reversed has exactly the closing entry
\* that moves its result, whatever was edited, posted, reversed elsewhere or
\* closed since: nothing posts into a closed period, and the closing entry does
\* not change the result it was computed from.
THEOREM ClosedOnFinalResult ==
  ASSUME ClosingAccounts
  PROVE  Spec => []ClosingMatchesNet
<1>1. Init => ClosedOK
  BY DEF Init, ClosedOK, ClosingEntries, PostedByDate, Applied
<1>2. TypeOK /\ Finite /\ ClosedOK /\ [Next]_vars => ClosedOK'
  BY ClosedKept
<1>3. TypeOK /\ ClosedOK => ClosingMatchesNet
  BY ClosedOKMatches
<1> QED BY <1>1, <1>2, <1>3, Types, PTL DEF Spec

-----------------------------------------------------------------------------
(* Double entry: what a balanced entry moves adds up to nothing over the    *)
(* accounts.                                                               *)

Moves(ls, a) == DebitOn(ls, a) - CreditOn(ls, a)

LEMMA SidesTyped ==
  ASSUME NEW ls \in Seq(Line), NEW a
  PROVE  /\ DebitOn(ls, a) \in Int /\ CreditOn(ls, a) \in Int /\ Moves(ls, a) \in Int
         /\ Delta(ls, a) = IF a \in DebitNormal THEN Moves(ls, a) ELSE -Moves(ls, a)
<1> DEFINE n == Len(ls)
           d == [i \in 1..n |-> IF ls[i].account = a THEN ls[i].debit ELSE 0]
           c == [i \in 1..n |-> IF ls[i].account = a THEN ls[i].credit ELSE 0]
           u == [i \in 1..n |-> IF ls[i].account = a THEN Natural(ls[i]) ELSE 0]
<1>1. n \in Nat /\ \A i \in 1..n : ls[i] \in LineDto
  BY SeqFacts DEF Line
<1>2. DebitOn(ls, a) = Sum(d) /\ CreditOn(ls, a) = Sum(c) /\ Delta(ls, a) = Sum(u)
  BY DEF DebitOn, CreditOn, Delta
<1>3. IntList(d, n) /\ IntList(c, n) /\ IntList(u, n)
  <2>1. \A i \in 1..n : ls[i].debit \in Int /\ ls[i].credit \in Int /\ Natural(ls[i]) \in Int
    BY <1>1, LineFacts
  <2> HIDE DEF n
  <2> QED BY <2>1 DEF IntList
<1>4. Len(d) = n /\ Len(c) = n /\ Len(u) = n
  BY <1>1
<1>5. CASE a \in DebitNormal
  <2>1. \A i \in 1..n : d[i] = u[i] + c[i]
    <3>1. \A i \in 1..n : ls[i].debit \in Int /\ ls[i].credit \in Int
      BY <1>1, LineFacts
    <3> QED BY <1>5, <3>1 DEF Natural
  <2> HIDE DEF n, d, c, u
  <2>2. Sum(d) = Sum(u) + Sum(c)
    BY <1>1, <1>3, <2>1, SumPlus
  <2>3. Ints(d) /\ Ints(c) /\ Ints(u)
    BY <1>1, <1>3, <1>4 DEF Ints, IntList
  <2>4. Sum(d) \in Int /\ Sum(c) \in Int /\ Sum(u) \in Int
    BY <2>3, SumType
  <2> QED BY <1>2, <1>5, <2>2, <2>4 DEF Moves
<1>6. CASE a \notin DebitNormal
  <2>1. \A i \in 1..n : c[i] = u[i] + d[i]
    <3>1. \A i \in 1..n : ls[i].debit \in Int /\ ls[i].credit \in Int
      BY <1>1, LineFacts
    <3> QED BY <1>6, <3>1 DEF Natural
  <2> HIDE DEF n, d, c, u
  <2>2. Sum(c) = Sum(u) + Sum(d)
    BY <1>1, <1>3, <2>1, SumPlus
  <2>3. Ints(d) /\ Ints(c) /\ Ints(u)
    BY <1>1, <1>3, <1>4 DEF Ints, IntList
  <2>4. Sum(d) \in Int /\ Sum(c) \in Int /\ Sum(u) \in Int
    BY <2>3, SumType
  <2> QED BY <1>2, <1>6, <2>2, <2>4 DEF Moves
<1> QED BY <1>5, <1>6

LEMMA SidesSpread ==
  ASSUME NEW ls \in Seq(Line), NEW F, NEW G,
         \A a \in Account : F[a] = DebitOn(ls, a) /\ G[a] = CreditOn(ls, a)
  PROVE  OverSet(F, Account) = TotalDebit(ls) /\ OverSet(G, Account) = TotalCredit(ls)
<1> DEFINE n == Len(ls)
           c == [i \in 1..n |-> ls[i].account]
           d == [i \in 1..n |-> ls[i].debit]
           k == [i \in 1..n |-> ls[i].credit]
<1>1. n \in Nat /\ IsFiniteSet(Account)
  BY SeqFacts, AccountAssumption DEF AccountAssumption
<1>2. c \in [1..n -> Account] /\ d \in [1..n -> Int] /\ k \in [1..n -> Int]
  <2>1. \A i \in 1..n : ls[i].account \in Account /\ ls[i].debit \in Int /\ ls[i].credit \in Int
    BY SeqFacts, LineFacts DEF Line
  <2> HIDE DEF n
  <2> QED BY <2>1
<1>3. ASSUME NEW a \in Account
      PROVE  F[a] = Class(c, d, n, a) /\ G[a] = Class(c, k, n, a)
  <2>1. [i \in 1..n |-> Own(c, d, i, a)] = [i \in 1..n |-> IF ls[i].account = a THEN ls[i].debit ELSE 0]
    BY DEF Own
  <2>2. [i \in 1..n |-> Own(c, k, i, a)] = [i \in 1..n |-> IF ls[i].account = a THEN ls[i].credit ELSE 0]
    BY DEF Own
  <2>3. Class(c, d, n, a) = Sum([i \in 1..n |-> Own(c, d, i, a)])
    BY DEF Class
  <2>4. Class(c, k, n, a) = Sum([i \in 1..n |-> Own(c, k, i, a)])
    BY DEF Class
  <2> QED BY <2>1, <2>2, <2>3, <2>4 DEF DebitOn, CreditOn
<1>4. TotalDebit(ls) = Sum(d) /\ TotalCredit(ls) = Sum(k)
  BY DEF TotalDebit, TotalCredit
<1> HIDE DEF n, c, d, k
<1>5. OverSet(F, Account) = Sum(d)
  BY <1>1, <1>2, <1>3, SpreadOver
<1>6. OverSet(G, Account) = Sum(k)
  BY <1>1, <1>2, <1>3, SpreadOver
<1> QED BY <1>4, <1>5, <1>6

\* A balanced entry moves as much in as out.
LEMMA EntryMovesNothing ==
  ASSUME NEW ls \in Seq(Line), TotalDebit(ls) = TotalCredit(ls),
         NEW F, \A a \in Account : F[a] = Moves(ls, a)
  PROVE  OverSet(F, Account) = 0
<1> DEFINE D == [a \in Account |-> DebitOn(ls, a)]
           C == [a \in Account |-> CreditOn(ls, a)]
<1>1. IsFiniteSet(Account)
  BY AccountAssumption DEF AccountAssumption
<1>2. \A a \in Account : D[a] = DebitOn(ls, a) /\ C[a] = CreditOn(ls, a)
  OBVIOUS
<1> HIDE DEF D, C
<1>3. OverSet(D, Account) = OverSet(C, Account)
  BY <1>2, SidesSpread
<1>4. \A a \in Account : F[a] \in Int /\ C[a] \in Int /\ D[a] \in Int /\ D[a] = F[a] + C[a]
  BY <1>2, SidesTyped DEF Moves
<1>5. OverSet(D, Account) = OverSet(F, Account) + OverSet(C, Account)
  BY <1>1, <1>4, OverAdd
<1>6. OverSet(F, Account) \in Int /\ OverSet(C, Account) \in Int
  BY <1>1, <1>4, OverType
<1> QED BY <1>3, <1>5, <1>6

\* What a set of entries moved on an account.
MovedBy(S, a) == OverSet([e \in S |-> Moves(entry[e].lines, a)], S)

LEMMA MovedFacts ==
  ASSUME NEW S, IsFiniteSet(S), \A e \in S : entry[e].lines \in Seq(Line), NEW a
  PROVE  /\ MovedBy(S, a) \in Int
         /\ DebitsOf(S, a) - CreditsOf(S, a) = MovedBy(S, a)
         /\ DebitsOf(S, a) \in Int /\ CreditsOf(S, a) \in Int
<1> DEFINE f == SetToSeq(S)
           n == Cardinality(S)
           D == [e \in S |-> DebitOn(entry[e].lines, a)]
           C == [e \in S |-> CreditOn(entry[e].lines, a)]
           M == [e \in S |-> Moves(entry[e].lines, a)]
           d == [i \in 1..n |-> DebitOn(entry[f[i]].lines, a)]
           c == [i \in 1..n |-> CreditOn(entry[f[i]].lines, a)]
<1>1. n \in Nat /\ \A i \in 1..n : f[i] \in S
  BY ListingExists
<1>2. DebitsOf(S, a) = Sum(d) /\ CreditsOf(S, a) = Sum(c)
  BY DEF DebitsOf, CreditsOf, SumOver
<1>3. MovedBy(S, a) = OverSet(M, S)
  BY DEF MovedBy
<1>4. d = [i \in 1..n |-> d[i]] /\ \A i \in 1..n : d[i] = D[f[i]]
  BY <1>1
<1>5. c = [i \in 1..n |-> c[i]] /\ \A i \in 1..n : c[i] = C[f[i]]
  BY <1>1
<1>6. \A e \in S : M[e] \in Int /\ C[e] \in Int /\ D[e] \in Int /\ D[e] = M[e] + C[e]
  BY SidesTyped DEF Moves
<1> HIDE DEF D, C, M, d, c
<1>7. Sum(d) = OverSet(D, S)
  BY <1>4, ListedSum
<1>8. Sum(c) = OverSet(C, S)
  BY <1>5, ListedSum
<1>9. OverSet(D, S) = OverSet(M, S) + OverSet(C, S)
  BY <1>6, OverAdd
<1>10. OverSet(M, S) \in Int /\ OverSet(C, S) \in Int
  BY <1>6, OverType
<1> QED BY <1>2, <1>3, <1>7, <1>8, <1>9, <1>10

\* A balance over a set of entries is what they moved, on the normal side.
LEMMA BalanceIsMoved ==
  ASSUME NEW S, IsFiniteSet(S), \A e \in S : entry[e].lines \in Seq(Line), NEW a
  PROVE  BalanceOver(entry, S, a) = IF a \in DebitNormal THEN MovedBy(S, a) ELSE -MovedBy(S, a)
<1> DEFINE B == [e \in S |-> Delta(entry[e].lines, a)]
           M == [e \in S |-> Moves(entry[e].lines, a)]
<1>1. BalanceOver(entry, S, a) = OverSet(B, S)
  BY BalanceIsOver
<1>2. MovedBy(S, a) = OverSet(M, S)
  BY DEF MovedBy
<1>3. \A e \in S : M[e] \in Int /\ B[e] = IF a \in DebitNormal THEN M[e] ELSE -M[e]
  BY SidesTyped
<1> HIDE DEF B, M
<1>4. CASE a \in DebitNormal
  <2>1. OverSet(B, S) = OverSet(M, S)
    BY <1>3, <1>4, OverSame
  <2> QED BY <1>1, <1>2, <1>4, <2>1
<1>5. CASE a \notin DebitNormal
  <2>1. OverSet(B, S) = -OverSet(M, S)
    BY <1>3, <1>5, OverNegate
  <2> QED BY <1>1, <1>2, <1>5, <2>1
<1> QED BY <1>4, <1>5

\* Balanced entries together move nothing over all accounts.
LEMMA BooksMoveNothing ==
  ASSUME NEW S, IsFiniteSet(S),
         \A e \in S : /\ entry[e].lines \in Seq(Line)
                      /\ TotalDebit(entry[e].lines) = TotalCredit(entry[e].lines)
  PROVE  OverSet([a \in Account |-> MovedBy(S, a)], Account) = 0
<1> DEFINE G(T) == [a \in Account |-> MovedBy(T, a)]
           Right(T) == OverSet(G(T), Account) = 0
           Bad == {T \in SUBSET S : ~Right(T)}
<1>0. IsFiniteSet(Account)
  BY AccountAssumption DEF AccountAssumption
<1>1. SUFFICES ASSUME Bad # {} PROVE FALSE
  OBVIOUS
<1>2. {} \notin Bad
  <2>1. \A a : MovedBy({}, a) = 0
    BY OverEmpty DEF MovedBy
  <2>2. \A a \in Account : G({})[a] = 0
    BY <2>1
  <2>3. OverSet(G({}), Account) = 0
    <3> HIDE DEF G
    <3> QED BY <1>0, <2>2, OverZeros
  <2> QED BY <2>3
<1>3. PICK T \in Bad : \E x \in T : T \ {x} \notin Bad
  <2>1. Bad \subseteq SUBSET S
    OBVIOUS
  <2> HIDE DEF Bad
  <2> QED BY <1>1, <1>2, <2>1, SmallestBad
<1>4. PICK x \in T : T \ {x} \notin Bad
  BY <1>3
<1> DEFINE R == T \ {x}
<1>5. R \cup {x} = T /\ x \notin R /\ R \subseteq S /\ T \subseteq S /\ x \in S
  BY <1>3, <1>4
<1>6. OverSet(G(R), Account) = 0 /\ OverSet(G(T), Account) # 0
  BY <1>3, <1>4, <1>5
<1>7. IsFiniteSet(R)
  BY <1>5, FS_Subset
<1> DEFINE F == [a \in Account |-> Moves(entry[x].lines, a)]
<1> HIDE DEF R, Bad
<1>8. ASSUME NEW a \in Account
      PROVE  /\ MovedBy(T, a) = MovedBy(R, a) + Moves(entry[x].lines, a)
             /\ MovedBy(R, a) \in Int /\ Moves(entry[x].lines, a) \in Int
  <2> DEFINE M == [e \in T |-> Moves(entry[e].lines, a)]
             N == [e \in R |-> Moves(entry[e].lines, a)]
  <2>1. \A e \in T : M[e] \in Int
    BY <1>5, SidesTyped
  <2>2. \A e \in R : M[e] = N[e]
    BY <1>5
  <2>3. M[x] = Moves(entry[x].lines, a)
    BY <1>5
  <2>4. MovedBy(T, a) = OverSet(M, T) /\ MovedBy(R, a) = OverSet(N, R)
    BY DEF MovedBy
  <2> HIDE DEF M, N
  <2>5. OverSet(M, R) = OverSet(N, R)
    BY <1>7, <2>2, OverSame
  <2>6. OverSet(M, R \cup {x}) = OverSet(M, R) + M[x]
    BY <1>5, <1>7, <2>1, OverOneMore
  <2>7. MovedBy(R, a) \in Int
    BY <1>5, <1>7, MovedFacts
  <2>8. Moves(entry[x].lines, a) \in Int
    BY <1>5, SidesTyped
  <2> QED BY <1>5, <2>3, <2>4, <2>5, <2>6, <2>7, <2>8
<1>9. OverSet(F, Account) = 0
  <2>1. \A a \in Account : F[a] = Moves(entry[x].lines, a)
    OBVIOUS
  <2> HIDE DEF F
  <2> QED BY <1>5, <2>1, EntryMovesNothing
<1> DEFINE P == G(R)
           Q == G(T)
<1>10. \A a \in Account : P[a] \in Int /\ F[a] \in Int /\ Q[a] = P[a] + F[a]
  BY <1>8
<1>11. OverSet(Q, Account) = OverSet(P, Account) + OverSet(F, Account)
  <2> HIDE DEF P, Q, F
  <2> QED BY <1>0, <1>10, OverAdd
<1> QED BY <1>6, <1>9, <1>11

-----------------------------------------------------------------------------
(* The statements.                                                         *)

BalancedEntries ==
  \A e \in DOMAIN entry : TotalDebit(entry[e].lines) = TotalCredit(entry[e].lines)

AllPostable == \A a \in Account : postable[a] = TRUE

LEMMA BalancedKept ==
  ASSUME TypeOK, Finite, BalancedEntries, [Next]_vars
  PROVE  BalancedEntries'
<1>1. CASE entry' = entry
  BY <1>1 DEF BalancedEntries
<1>2. ASSUME NEW e, NEW r, WritesDraft(e, r) PROVE BalancedEntries'
  <2>1. /\ DOMAIN entry' = DOMAIN entry \cup {e} /\ entry'[e] = r
        /\ \A x \in DOMAIN entry \ {e} : entry'[x] = entry[x]
    BY <1>2, WritesFacts DEF WritesDraft
  <2>2. TotalDebit(r.lines) = TotalCredit(r.lines)
    BY <1>2 DEF WritesDraft, BalancedEntries
  <2> QED BY <2>1, <2>2 DEF BalancedEntries
<1>3. ASSUME NEW e, NEW r, PostsDraft(e, r) PROVE BalancedEntries'
  <2>1. /\ DOMAIN entry' = DOMAIN entry \cup {e} /\ entry'[e] = PostedRow(r) /\ r \in Row
        /\ \A x \in DOMAIN entry \ {e} : entry'[x] = entry[x]
    BY <1>3, PostPosted
  <2>2. TotalDebit(r.lines) = TotalCredit(r.lines) /\ entry'[e].lines = r.lines
    BY <1>3, <2>1, PostedRowFacts DEF PostsDraft, Balanced
  <2> QED BY <2>1, <2>2 DEF BalancedEntries
<1>4. ASSUME NEW e, NEW m, NEW r, Reverses(e, m, r) PROVE BalancedEntries'
  <2>1. /\ e \in DOMAIN entry /\ entry[e] \in Row /\ r \in Row
        /\ TotalDebit(r.lines) = TotalCredit(r.lines)
    BY <1>4, RowFacts DEF Reverses, Balanced
  <2>2. /\ DOMAIN entry' = DOMAIN entry \cup {m} /\ entry'[m] = PostedRow(r)
        /\ entry'[e] = [entry[e] EXCEPT !.status = "REVERSED"]
        /\ \A x \in DOMAIN entry \ {e} : entry'[x] = entry[x]
    BY <1>4, ReversesFacts
  <2>3. entry'[e].lines = entry[e].lines /\ entry'[m].lines = r.lines
    BY <2>1, <2>2, PostedRowFacts DEF Row
  <2> QED BY <2>1, <2>2, <2>3 DEF BalancedEntries
<1> QED BY <1>1, <1>2, <1>3, <1>4, Effects

LEMMA PostableKept ==
  ASSUME AllPostable, [Next]_vars, "child" \notin Ops
  PROVE  AllPostable'
<1>1. postable' = postable
  BY DEF Next, vars, CreateDraft, TransferDraft, UpdateDraft, DeleteDraft, Restore,
         PostJournalEntry, ReverseJournalEntry, RecomputeAccountBalance, CreateChildOf,
         CloseFiscalPeriod
<1> QED BY <1>1 DEF AllPostable

LEMMA Books == Spec => []BalancedEntries
<1>1. Init => BalancedEntries
  BY DEF Init, BalancedEntries
<1>2. TypeOK /\ Finite /\ BalancedEntries /\ [Next]_vars => BalancedEntries'
  BY BalancedKept
<1> QED BY <1>1, <1>2, Types, PTL DEF Spec

LEMMA LeavesStay ==
  ASSUME "child" \notin Ops
  PROVE  Spec => []AllPostable
<1>1. Init => AllPostable
  BY DEF Init, AllPostable
<1>2. AllPostable /\ [Next]_vars => AllPostable'
  BY PostableKept
<1> QED BY <1>1, <1>2, PTL DEF Spec

\* What disjoint sets of entries move on an account adds up.
LEMMA MovedParts ==
  ASSUME NEW S, NEW T, IsFiniteSet(S), IsFiniteSet(T), S \cap T = {},
         \A e \in S \cup T : entry[e].lines \in Seq(Line), NEW a
  PROVE  /\ MovedBy(S \cup T, a) = MovedBy(S, a) + MovedBy(T, a)
         /\ MovedBy(S, a) \in Int /\ MovedBy(T, a) \in Int
<1> DEFINE U == S \cup T
           F == [e \in U |-> Moves(entry[e].lines, a)]
           G == [e \in S |-> Moves(entry[e].lines, a)]
           H == [e \in T |-> Moves(entry[e].lines, a)]
<1>1. IsFiniteSet(U) /\ S \subseteq U /\ U \ S = T
  BY FS_Union
<1>2. MovedBy(U, a) = OverSet(F, U) /\ MovedBy(S, a) = OverSet(G, S) /\ MovedBy(T, a) = OverSet(H, T)
  BY DEF MovedBy
<1>3. MovedBy(S, a) \in Int /\ MovedBy(T, a) \in Int
  BY MovedFacts
<1>4. \A e \in U : F[e] \in Int
  BY SidesTyped
<1>5. (\A e \in S : F[e] = G[e]) /\ (\A e \in T : F[e] = H[e])
  OBVIOUS
<1> HIDE DEF F, G, H, U
<1>6. OverSet(F, U) = OverSet(F, S) + OverSet(F, T)
  BY <1>1, <1>4, OverParts
<1>7. OverSet(F, S) = OverSet(G, S) /\ OverSet(F, T) = OverSet(H, T)
  BY <1>5, OverSame
<1> QED BY <1>2, <1>3, <1>6, <1>7 DEF U

AccountTypes == {Asset, Liability, Equity, Income, Expense}

\* Every account is of one of the five types, so a sum over the chart can be
\* taken type by type.
LEMMA TypeByType ==
  ASSUME NEW M, \A a \in Account : M[a] \in Int
  PROVE  /\ \A T \in AccountTypes : T \subseteq Account /\ IsFiniteSet(T) /\ OverSet(M, T) \in Int
         /\ OverSet(M, Account) = OverSet(M, Asset) + OverSet(M, Liability) + OverSet(M, Equity)
                                    + OverSet(M, Income) + OverSet(M, Expense)
<1>0. /\ IsFiniteSet(Account) /\ Income \subseteq Account /\ Expense \subseteq Account
      /\ Asset \subseteq Account /\ Liability \subseteq Account /\ Equity \subseteq Account
  BY AccountAssumption, ReportAssumption DEF AccountAssumption, ReportAssumption
<1>1. \A T \in AccountTypes : T \subseteq Account /\ IsFiniteSet(T)
  BY <1>0, FS_Subset DEF AccountTypes
<1>2. \A T \in AccountTypes : OverSet(M, T) \in Int
  BY <1>1, OverType
<1> DEFINE S1 == Account \ Asset
           S2 == S1 \ Liability
           S3 == S2 \ Equity
           S4 == S3 \ Income
<1>3. /\ Liability \subseteq S1 /\ Equity \subseteq S2 /\ Income \subseteq S3 /\ Expense = S4
      /\ S1 \subseteq Account /\ S2 \subseteq Account /\ S3 \subseteq Account
  BY <1>0, ReportAssumption, AccountAssumption DEF ReportAssumption, AccountAssumption
<1>4. IsFiniteSet(S1) /\ IsFiniteSet(S2) /\ IsFiniteSet(S3)
  BY <1>0, <1>3, FS_Subset
<1>5. OverSet(M, Account) = OverSet(M, Asset) + OverSet(M, S1)
  BY <1>0, OverParts
<1> HIDE DEF S1
<1>6. OverSet(M, S1) = OverSet(M, Liability) + OverSet(M, S2)
  BY <1>3, <1>4, OverParts
<1> HIDE DEF S2
<1>7. OverSet(M, S2) = OverSet(M, Equity) + OverSet(M, S3)
  BY <1>3, <1>4, OverParts
<1> HIDE DEF S3
<1>8. OverSet(M, S3) = OverSet(M, Income) + OverSet(M, Expense)
  BY <1>3, <1>4, OverParts
<1>9. /\ OverSet(M, Asset) \in Int /\ OverSet(M, Liability) \in Int /\ OverSet(M, Equity) \in Int
      /\ OverSet(M, Income) \in Int /\ OverSet(M, Expense) \in Int
  BY <1>2 DEF AccountTypes
<1> QED BY <1>1, <1>2, <1>5, <1>6, <1>7, <1>8, <1>9

LEMMA TrialFacts ==
  ASSUME TypeOK, Finite, BalancedEntries, AllPostable
  PROVE  TrialBalanceBalances
<1> DEFINE S == DOMAIN entry
           D == [a \in Account |-> TrialBalance[a]["debit"]]
           C == [a \in Account |-> TrialBalance[a]["credit"]]
           M == [a \in Account |-> MovedBy(S, a)]
<1>0. IsFiniteSet(Account) /\ IsFiniteSet(S)
  BY AccountAssumption DEF AccountAssumption, Finite
<1>1. {b \in Account : postable[b]} = Account
  BY DEF AllPostable
<1>2. DOMAIN TrialBalance = Account
  BY <1>1 DEF TrialBalance
<1>3. ASSUME NEW a \in Account
      PROVE  /\ M[a] \in Int /\ D[a] = Positive(M[a]) /\ C[a] = Positive(-M[a])
  <2>1. \A e \in S : entry[e].lines \in Seq(Line)
    BY RowFacts
  <2>2. /\ MovedBy(S, a) \in Int
        /\ DebitsOf(TrialEntries, a) - CreditsOf(TrialEntries, a) = MovedBy(S, a)
    <3> HIDE DEF S
    <3>1. TrialEntries = S
      BY DEF TrialEntries, S
    <3> QED BY <1>0, <2>1, <3>1, MovedFacts
  <2>3. TrialBalance[a] =
          LET net == DebitsOf(TrialEntries, a) - CreditsOf(TrialEntries, a)
          IN  [debit |-> Positive(net), credit |-> Positive(-net)]
    BY <1>1 DEF TrialBalance
  <2> QED BY <2>2, <2>3
<1>4. \A a \in Account : D[a] \in Int /\ C[a] \in Int /\ M[a] \in Int /\ D[a] = M[a] + C[a]
  <2> SUFFICES ASSUME NEW a \in Account
               PROVE  D[a] \in Int /\ C[a] \in Int /\ M[a] \in Int /\ D[a] = M[a] + C[a]
    OBVIOUS
  <2>1. D[a] = Positive(M[a]) /\ C[a] = Positive(-M[a]) /\ M[a] \in Int
    BY <1>3
  <2> HIDE DEF D, C, M
  <2> QED BY <2>1 DEF Positive
<1>5. ASSUME NEW T \in AccountTypes
      PROVE  /\ SumAccounts(T \cap DOMAIN TrialBalance, LAMBDA a : TrialBalance[a]["debit"])
                   = OverSet(D, T)
             /\ SumAccounts(T \cap DOMAIN TrialBalance, LAMBDA a : TrialBalance[a]["credit"])
                   = OverSet(C, T)
  <2> DEFINE f == SetToSeq(T)
             n == Cardinality(T)
             d == [i \in 1..n |-> TrialBalance[f[i]]["debit"]]
             c == [i \in 1..n |-> TrialBalance[f[i]]["credit"]]
  <2>1. T \subseteq Account /\ IsFiniteSet(T)
    BY <1>4, TypeByType
  <2>2. T \cap DOMAIN TrialBalance = T
    BY <1>2, <2>1
  <2>3. \A i \in 1..n : f[i] \in Account
    BY <2>1, ListingExists
  <2>4. d = [i \in 1..n |-> d[i]] /\ \A i \in 1..n : d[i] = D[f[i]]
    BY <2>3
  <2>5. c = [i \in 1..n |-> c[i]] /\ \A i \in 1..n : c[i] = C[f[i]]
    BY <2>3
  <2>6. /\ SumAccounts(T, LAMBDA a : TrialBalance[a]["debit"]) = Sum(d)
        /\ SumAccounts(T, LAMBDA a : TrialBalance[a]["credit"]) = Sum(c)
    BY DEF SumAccounts, SumOver
  <2> HIDE DEF D, C, d, c
  <2>7. Sum(d) = OverSet(D, T) /\ Sum(c) = OverSet(C, T)
    BY <2>1, <2>4, <2>5, ListedSum
  <2> QED BY <2>2, <2>6, <2>7
<1>6. TrialTotal("debit") = OverSet(D, Asset) + OverSet(D, Liability) + OverSet(D, Equity)
                              + OverSet(D, Income) + OverSet(D, Expense)
  BY <1>5 DEF TrialTotal, AccountTypes
<1>7. TrialTotal("credit") = OverSet(C, Asset) + OverSet(C, Liability) + OverSet(C, Equity)
                               + OverSet(C, Income) + OverSet(C, Expense)
  BY <1>5 DEF TrialTotal, AccountTypes
<1>8. OverSet(M, Account) = 0
  <2>1. \A e \in S : /\ entry[e].lines \in Seq(Line)
                     /\ TotalDebit(entry[e].lines) = TotalCredit(entry[e].lines)
    BY RowFacts DEF BalancedEntries
  <2> HIDE DEF S
  <2> QED BY <1>0, <2>1, BooksMoveNothing
<1> HIDE DEF D, C, M
<1>9. TrialTotal("debit") = OverSet(D, Account) /\ TrialTotal("credit") = OverSet(C, Account)
  BY <1>4, <1>6, <1>7, TypeByType
<1>10. OverSet(D, Account) = OverSet(M, Account) + OverSet(C, Account)
  BY <1>0, <1>4, OverAdd
<1>11. OverSet(C, Account) \in Int
  BY <1>0, <1>4, OverType
<1> QED BY <1>8, <1>9, <1>10, <1>11 DEF TrialBalanceBalances

\* Where the caches are the sum of all entries but the drafts, the trial balance
\* shows the caches and the drafts.
LEMMA TrialFollows ==
  ASSUME TypeOK, Finite, NEW S, S \cap Drafts = {}, S \cup Drafts = DOMAIN entry,
         \A a \in Account : balance[a] = BalanceOver(entry, S, a)
  PROVE  TrialShowsDrafts
<1>1. /\ IsFiniteSet(S) /\ IsFiniteSet(Drafts) /\ IsFiniteSet(DOMAIN entry)
      /\ \A e \in S \cup Drafts : entry[e].lines \in Seq(Line)
  <2>1. S \subseteq DOMAIN entry /\ Drafts \subseteq DOMAIN entry
    OBVIOUS
  <2> QED BY <2>1, FS_Subset, RowFacts DEF Finite
<1>2. ASSUME NEW a \in DOMAIN TrialBalance
      PROVE  TrialBalance[a].debit - TrialBalance[a].credit
               = Net(a) + (DebitsOf(Drafts, a) - CreditsOf(Drafts, a))
  <2>1. /\ a \in Account
        /\ TrialBalance[a] =
             LET net == DebitsOf(TrialEntries, a) - CreditsOf(TrialEntries, a)
             IN  [debit |-> Positive(net), credit |-> Positive(-net)]
    BY DEF TrialBalance
  <2>2. /\ MovedBy(S \cup Drafts, a) = MovedBy(S, a) + MovedBy(Drafts, a)
        /\ MovedBy(S, a) \in Int /\ MovedBy(Drafts, a) \in Int
    BY <1>1, MovedParts
  <2>3. DebitsOf(TrialEntries, a) - CreditsOf(TrialEntries, a) = MovedBy(S \cup Drafts, a)
    BY <1>1, MovedFacts DEF TrialEntries
  <2>4. DebitsOf(Drafts, a) - CreditsOf(Drafts, a) = MovedBy(Drafts, a)
    BY <1>1, MovedFacts
  <2>5. balance[a] = IF a \in DebitNormal THEN MovedBy(S, a) ELSE -MovedBy(S, a)
    BY <1>1, <2>1, BalanceIsMoved
  <2>6. Net(a) = MovedBy(S, a)
    BY <2>2, <2>5 DEF Net
  <2>7. PICK m \in Int : m = MovedBy(S, a) + MovedBy(Drafts, a)
    BY <2>2
  <2>8. TrialBalance[a].debit = Positive(m) /\ TrialBalance[a].credit = Positive(-m)
    BY <2>1, <2>2, <2>3, <2>7
  <2>9. Positive(m) - Positive(-m) = m
    BY DEF Positive
  <2> QED BY <2>4, <2>6, <2>7, <2>8, <2>9
<1> QED BY <1>2 DEF TrialShowsDrafts

\* Every account's cached balance is what the posted lines moved on it.
LEMMA BalanceOnSide ==
  ASSUME TypeOK, Finite, Healthy, NEW a \in Account
  PROVE  /\ MovedBy(PostedIn(entry), a) \in Int
         /\ DebitsOf(PostedIn(entry), a) - CreditsOf(PostedIn(entry), a)
              = MovedBy(PostedIn(entry), a)
         /\ balance[a] = IF a \in DebitNormal THEN MovedBy(PostedIn(entry), a)
                                              ELSE -MovedBy(PostedIn(entry), a)
<1>1. /\ IsFiniteSet(PostedIn(entry))
      /\ \A e \in PostedIn(entry) : entry[e].lines \in Seq(Line)
  BY PostedFacts
<1>2. balance[a] = BalanceOver(entry, PostedIn(entry), a)
  BY DEF Healthy
<1> QED BY <1>1, <1>2, MovedFacts, BalanceIsMoved

LEMMA CashFacts ==
  ASSUME TypeOK, Finite, Healthy
  PROVE  CashAgrees
<1> DEFINE f == SetToSeq(CashFlow)
           n == Cardinality(CashFlow)
           s == [i \in 1..n |-> Net(f[i])]
           t == [i \in 1..n |-> DebitsOf(PostedIn(entry), f[i]) - CreditsOf(PostedIn(entry), f[i])]
<1>1. CashFlow \subseteq Account /\ IsFiniteSet(CashFlow)
  BY AccountAssumption, ReportAssumption, FS_Subset DEF AccountAssumption, ReportAssumption
<1>2. \A i \in 1..n : f[i] \in Account
  BY <1>1, ListingExists
<1>3. SumAccounts(CashFlow, Net) = Sum(s)
  BY DEF SumAccounts, SumOver
<1>4. NetCashFlow = Sum(t)
  BY DEF NetCashFlow, SumAccounts, SumOver
<1>5. ASSUME NEW a \in Account
      PROVE  Net(a) = DebitsOf(PostedIn(entry), a) - CreditsOf(PostedIn(entry), a)
  <2>1. /\ MovedBy(PostedIn(entry), a) \in Int
        /\ DebitsOf(PostedIn(entry), a) - CreditsOf(PostedIn(entry), a)
             = MovedBy(PostedIn(entry), a)
        /\ balance[a] = IF a \in DebitNormal THEN MovedBy(PostedIn(entry), a)
                                             ELSE -MovedBy(PostedIn(entry), a)
    BY BalanceOnSide
  <2> QED BY <2>1 DEF Net
<1>6. s = t
  BY <1>2, <1>5
<1> QED BY <1>3, <1>4, <1>6 DEF CashAgrees

\* Over every history of drafts, posts, closes and recomputes the statements that
\* add up lines agree with the cached balances: the columns of the trial balance
\* have the same total, each of its rows is the account's balance and the drafts
\* on top, and the cash flow is the cash in the books.  Control accounts leave the
\* trial balance with what was booked on them before, and a recompute after a
\* reversal drops the reversed entry, so neither kind of operation is called.
THEOREM StatementsAgree ==
  ASSUME "child" \notin Ops, "reverse" \notin Ops
  PROVE  Spec => []ReportsAgree
<1>1. ASSUME TypeOK, Finite, Healthy
      PROVE  TrialShowsDrafts
  <2>1. \A e \in DOMAIN entry : entry[e].status \in {"DRAFT", "POSTED", "REVERSED"}
    BY <1>1, RowFacts DEF JournalStatus
  <2>2. PostedIn(entry) \cap Drafts = {} /\ PostedIn(entry) \cup Drafts = DOMAIN entry
    BY <1>1, <2>1 DEF PostedIn, Drafts, Healthy
  <2>3. \A a \in Account : balance[a] = BalanceOver(entry, PostedIn(entry), a)
    BY <1>1 DEF Healthy
  <2> QED BY <1>1, <2>2, <2>3, TrialFollows
<1>2. TypeOK /\ Finite /\ BalancedEntries /\ AllPostable /\ Healthy => ReportsAgree
  BY <1>1, TrialFacts, CashFacts DEF ReportsAgree
<1> QED BY <1>2, Types, Books, LeavesStay, Health, PTL

\* The result of a set of entries, computed as v_profit_and_loss does.
EarnedBy(S, a) ==
  LET net == DebitsOf(S, a) - CreditsOf(S, a)
  IN  IF a \in Income THEN -net ELSE net

ResultOf(S) ==
  SumAccounts(Income, LAMBDA a : EarnedBy(S, a))
    - SumAccounts(Expense, LAMBDA a : EarnedBy(S, a))

LEMMA ResultIsMoved ==
  ASSUME NEW S, IsFiniteSet(S), \A e \in S : entry[e].lines \in Seq(Line)
  PROVE  LET M == [a \in Account |-> MovedBy(S, a)]
         IN  ResultOf(S) = -OverSet(M, Income) - OverSet(M, Expense)
<1> DEFINE M == [a \in Account |-> MovedBy(S, a)]
           P == [a \in Account |-> EarnedBy(S, a)]
<1>0. Income \subseteq Account /\ Expense \subseteq Account /\ Income \cap Expense = {}
  BY AccountAssumption DEF AccountAssumption
<1>1. IsFiniteSet(Income) /\ IsFiniteSet(Expense)
  BY <1>0, AccountAssumption, FS_Subset DEF AccountAssumption
<1>2. \A a \in Account : /\ M[a] \in Int
                         /\ P[a] = IF a \in Income THEN -M[a] ELSE M[a]
                         /\ P[a] = EarnedBy(S, a)
  BY MovedFacts DEF EarnedBy
<1> HIDE DEF M, P
<1>3. ASSUME NEW T \in {Income, Expense}
      PROVE  SumAccounts(T, LAMBDA a : EarnedBy(S, a)) = OverSet(P, T)
  <2>1. T \subseteq Account /\ IsFiniteSet(T)
    BY <1>0, <1>1, <1>3
  <2> DEFINE s == [i \in 1..Cardinality(T) |-> EarnedBy(S, SetToSeq(T)[i])]
  <2>3. SumAccounts(T, LAMBDA a : EarnedBy(S, a)) = Sum(s)
    BY DEF SumAccounts, SumOver
  <2>4. \A i \in 1..Cardinality(T) : SetToSeq(T)[i] \in Account
    BY <2>1, ListingExists
  <2>5. s = [i \in 1..Cardinality(T) |-> s[i]] /\ \A i \in 1..Cardinality(T) : s[i] = P[SetToSeq(T)[i]]
    BY <1>2, <2>4
  <2> HIDE DEF s
  <2> QED BY <2>1, <2>3, <2>5, ListedSum
<1>4. SumAccounts(Income, LAMBDA a : EarnedBy(S, a)) = -OverSet(M, Income)
  <2>1. \A a \in Income : M[a] \in Int /\ P[a] = -M[a]
    BY <1>0, <1>2
  <2>2. OverSet(P, Income) = -OverSet(M, Income)
    BY <1>1, <2>1, OverNegate
  <2> QED BY <1>3, <2>2
<1>5. SumAccounts(Expense, LAMBDA a : EarnedBy(S, a)) = OverSet(M, Expense)
  <2>1. \A a \in Expense : P[a] = M[a]
    BY <1>0, <1>2
  <2>2. OverSet(P, Expense) = OverSet(M, Expense)
    BY <1>1, <2>1, OverSame
  <2> QED BY <1>3, <2>2
<1> QED BY <1>4, <1>5 DEF ResultOf, M

\* The net income on the sheet is the result of the POSTED entries.
LEMMA NetProfitIs == NetProfit = ResultOf(PostedIn(entry))
<1> DEFINE S == PostedIn(entry)
<1>1. SumAccounts(Income, ProfitAndLoss) = SumAccounts(Income, LAMBDA a : EarnedBy(S, a))
  BY DEF SumAccounts, SumOver, ProfitAndLoss, EarnedBy
<1>2. SumAccounts(Expense, ProfitAndLoss) = SumAccounts(Expense, LAMBDA a : EarnedBy(S, a))
  BY DEF SumAccounts, SumOver, ProfitAndLoss, EarnedBy
<1>3. NetProfit = SumAccounts(Income, LAMBDA a : EarnedBy(S, a))
                    - SumAccounts(Expense, LAMBDA a : EarnedBy(S, a))
  BY ONLY <1>1, <1>2 DEF NetProfit
<1> QED BY <1>3 DEF ResultOf

\* Cached balances listed by the statements.
LEMMA BalancesListed ==
  ASSUME TypeOK, NEW T, T \subseteq Account
  PROVE  SumAccounts(T, LAMBDA a : balance[a]) = OverSet([a \in Account |-> balance[a]], T)
<1> DEFINE B == [a \in Account |-> balance[a]]
           s == [i \in 1..Cardinality(T) |-> balance[SetToSeq(T)[i]]]
<1>1. IsFiniteSet(T)
  BY AccountAssumption, FS_Subset DEF AccountAssumption
<1>2. SumAccounts(T, LAMBDA a : balance[a]) = Sum(s)
  BY DEF SumAccounts, SumOver
<1>3. \A i \in 1..Cardinality(T) : SetToSeq(T)[i] \in Account
  BY <1>1, ListingExists
<1>4. s = [i \in 1..Cardinality(T) |-> s[i]] /\ \A i \in 1..Cardinality(T) : s[i] = B[SetToSeq(T)[i]]
  BY <1>3
<1> HIDE DEF s, B
<1>5. Sum(s) = OverSet(B, T)
  BY <1>1, <1>4, ListedSum
<1> QED BY <1>2, <1>5 DEF B

\* A balance on the side of the account's type.
OnTypeSide(a) == IF a \in Asset THEN Net(a) ELSE -Net(a)

\* The sheet's total of a type, less what it overstates, is what the accounts of
\* the type hold.
LEMMA SheetPart ==
  ASSUME TypeOK, NEW T \in {Asset, Liability, Equity}
  PROVE  /\ SheetTotal(T) \in Int /\ Overstated(T) \in Int
         /\ SheetTotal(T) = OverSet([a \in Account |-> OnTypeSide(a)], T) + Overstated(T)
<1> DEFINE P == {a \in T : OnSheet(a)}
           Q == {a \in T : ~OnSheet(a)}
           C == {a \in T : OnSheet(a) /\ (a \in DebitNormal <=> a \notin Asset)}
           D == P \ C
           B == [a \in Account |-> balance[a]]
           W == [a \in Account |-> OnTypeSide(a)]
           s == [i \in 1..Cardinality(Q) |-> OnTypeSide(SetToSeq(Q)[i])]
<1>1. T \subseteq Account /\ IsFiniteSet(T)
  BY AccountAssumption, ReportAssumption, FS_Subset DEF AccountAssumption, ReportAssumption
<1>2. /\ P \subseteq T /\ Q \subseteq T /\ C \subseteq P /\ D \subseteq T /\ T \ P = Q
      /\ IsFiniteSet(P) /\ IsFiniteSet(Q) /\ IsFiniteSet(C) /\ IsFiniteSet(D)
  <2>1. P \subseteq T /\ Q \subseteq T /\ C \subseteq P /\ D \subseteq T /\ T \ P = Q
    OBVIOUS
  <2> HIDE DEF P, Q, C
  <2> QED BY <1>1, <2>1, FS_Subset
<1>3. ASSUME NEW a \in Account
      PROVE  /\ B[a] = balance[a] /\ B[a] \in Int
             /\ W[a] = OnTypeSide(a) /\ W[a] \in Int
             /\ a \in C => W[a] = -B[a]
             /\ a \in D => W[a] = B[a]
  <2>1. B[a] = balance[a] /\ balance[a] \in Int /\ W[a] = OnTypeSide(a)
    BY DEF TypeOK
  <2>2. Net(a) = (IF a \in DebitNormal THEN balance[a] ELSE -balance[a])
    BY DEF Net
  <2>3. a \in D => ~(a \in DebitNormal <=> a \notin Asset)
    OBVIOUS
  <2>4. a \in C => (a \in DebitNormal <=> a \notin Asset)
    OBVIOUS
  <2> HIDE DEF B, W, C, D
  <2> QED BY <2>1, <2>2, <2>3, <2>4 DEF OnTypeSide
<1>4. SheetTotal(T) = OverSet(B, P)
  <2>1. P \subseteq Account
    BY <1>1, <1>2
  <2>2. SheetTotal(T) = SumAccounts(P, LAMBDA a : balance[a])
    BY DEF SheetTotal
  <2> HIDE DEF P
  <2> QED BY <2>1, <2>2, BalancesListed
<1>5. Contra(T) = OverSet(B, C)
  <2>1. C \subseteq Account
    BY <1>1, <1>2
  <2>2. Contra(T) = SumAccounts(C, LAMBDA a : balance[a])
    BY DEF Contra
  <2> HIDE DEF C
  <2> QED BY <2>1, <2>2, BalancesListed
<1>6. OffSheet(T) = OverSet(W, Q)
  <2>1. OffSheet(T) = Sum(s)
    BY DEF OffSheet, OnTypeSide, SumAccounts, SumOver
  <2>2. \A i \in 1..Cardinality(Q) : SetToSeq(Q)[i] \in Account
    <3> HIDE DEF Q
    <3> QED BY <1>1, <1>2, ListingExists
  <2>3. s = [i \in 1..Cardinality(Q) |-> s[i]] /\ \A i \in 1..Cardinality(Q) : s[i] = W[SetToSeq(Q)[i]]
    BY <2>2
  <2> HIDE DEF s, W, Q
  <2> QED BY <1>2, <2>1, <2>3, ListedSum
<1>7. D \subseteq Account /\ C \subseteq Account /\ P \subseteq Account /\ Q \subseteq Account
  BY <1>1, <1>2
<1>8. P \ C = D
  OBVIOUS
<1> HIDE DEF P, Q, C, D, B, W
<1>9. OverSet(B, P) = OverSet(B, C) + OverSet(B, D)
  BY <1>2, <1>3, <1>7, <1>8, OverParts
<1>10. OverSet(W, P) = OverSet(W, C) + OverSet(W, D)
  BY <1>2, <1>3, <1>7, <1>8, OverParts
<1>11. OverSet(W, T) = OverSet(W, P) + OverSet(W, Q)
  BY <1>1, <1>2, <1>3, OverParts
<1>12. OverSet(W, C) = -OverSet(B, C)
  BY <1>2, <1>3, <1>7, OverNegate
<1>13. OverSet(W, D) = OverSet(B, D)
  BY <1>2, <1>3, <1>7, OverSame
<1>14. OverSet(B, C) \in Int /\ OverSet(B, D) \in Int /\ OverSet(W, Q) \in Int
  BY <1>2, <1>3, <1>7, OverType
<1>15. PICK c \in Int : c = OverSet(B, C)
  BY <1>14
<1>16. PICK d \in Int : d = OverSet(B, D)
  BY <1>14
<1>17. PICK q \in Int : q = OverSet(W, Q)
  BY <1>14
<1>18. SheetTotal(T) = c + d /\ Overstated(T) = 2 * c - q /\ OverSet(W, T) = (-c + d) + q
  BY <1>4, <1>5, <1>6, <1>9, <1>10, <1>11, <1>12, <1>13, <1>15, <1>16, <1>17 DEF Overstated
<1>19. /\ c + d \in Int /\ 2 * c - q \in Int
       /\ c + d = ((-c + d) + q) + (2 * c - q)
  OBVIOUS
<1> QED BY <1>18, <1>19 DEF W

\* With caches that are the sum of a set of entries, and the result of the same
\* entries, the sheet is off by what it overstates.
LEMMA SheetFacts ==
  ASSUME TypeOK, Finite, BalancedEntries,
         NEW S, S \subseteq DOMAIN entry,
         \A a \in Account : balance[a] = BalanceOver(entry, S, a)
  PROVE  /\ SheetTotal(Asset) - (SheetTotal(Liability) + SheetTotal(Equity) + ResultOf(S))
               = Overstated(Asset) - Overstated(Liability) - Overstated(Equity)
         /\ SheetTotal(Asset) \in Int /\ SheetTotal(Liability) \in Int /\ SheetTotal(Equity) \in Int
         /\ Overstated(Asset) \in Int /\ Overstated(Liability) \in Int /\ Overstated(Equity) \in Int
         /\ ResultOf(S) \in Int
<1> DEFINE M == [a \in Account |-> MovedBy(S, a)]
           W == [a \in Account |-> OnTypeSide(a)]
<1>1. /\ IsFiniteSet(S)
      /\ \A e \in S : /\ entry[e].lines \in Seq(Line)
                      /\ TotalDebit(entry[e].lines) = TotalCredit(entry[e].lines)
  BY FS_Subset, RowFacts DEF Finite, BalancedEntries
<1>2. ASSUME NEW a \in Account
      PROVE  M[a] \in Int /\ W[a] = IF a \in Asset THEN M[a] ELSE -M[a]
  <2>1. /\ MovedBy(S, a) \in Int
        /\ balance[a] = IF a \in DebitNormal THEN MovedBy(S, a) ELSE -MovedBy(S, a)
    BY <1>1, MovedFacts, BalanceIsMoved
  <2> QED BY <2>1 DEF Net, OnTypeSide
<1>3. OverSet(M, Account) = 0
  BY <1>1, BooksMoveNothing
<1>4. ResultOf(S) = -OverSet(M, Income) - OverSet(M, Expense)
  BY <1>1, ResultIsMoved
<1>5. /\ SheetTotal(Asset) = OverSet(W, Asset) + Overstated(Asset)
      /\ SheetTotal(Liability) = OverSet(W, Liability) + Overstated(Liability)
      /\ SheetTotal(Equity) = OverSet(W, Equity) + Overstated(Equity)
      /\ SheetTotal(Asset) \in Int /\ SheetTotal(Liability) \in Int /\ SheetTotal(Equity) \in Int
      /\ Overstated(Asset) \in Int /\ Overstated(Liability) \in Int /\ Overstated(Equity) \in Int
  BY SheetPart
<1> HIDE DEF M, W
<1>6. \A T \in AccountTypes : T \subseteq Account /\ IsFiniteSet(T) /\ OverSet(M, T) \in Int
  BY <1>2, TypeByType
<1>7. /\ OverSet(M, Asset) \in Int /\ OverSet(M, Liability) \in Int /\ OverSet(M, Equity) \in Int
      /\ OverSet(M, Income) \in Int /\ OverSet(M, Expense) \in Int
  BY <1>6 DEF AccountTypes
<1>8. OverSet(M, Account) = OverSet(M, Asset) + OverSet(M, Liability) + OverSet(M, Equity)
                               + OverSet(M, Income) + OverSet(M, Expense)
  BY <1>2, TypeByType
<1>9. OverSet(W, Asset) = OverSet(M, Asset)
  <2>1. Asset \subseteq Account /\ IsFiniteSet(Asset)
    BY <1>6 DEF AccountTypes
  <2>2. \A a \in Asset : W[a] = M[a]
    BY <1>2, <2>1
  <2> QED BY <2>1, <2>2, OverSame
<1>10. ASSUME NEW T \in {Liability, Equity}
       PROVE  OverSet(W, T) = -OverSet(M, T)
  <2>1. T \subseteq Account /\ IsFiniteSet(T)
    BY <1>6 DEF AccountTypes
  <2>2. \A a \in T : a \notin Asset
    BY ReportAssumption DEF ReportAssumption
  <2>3. \A a \in T : M[a] \in Int /\ W[a] = -M[a]
    BY <1>2, <2>1, <2>2
  <2> QED BY <2>1, <2>3, OverNegate
<1>11. PICK w \in Int : w = OverSet(M, Asset)
  BY <1>7
<1>12. PICK x \in Int : x = OverSet(M, Liability)
  BY <1>7
<1>13. PICK y \in Int : y = OverSet(M, Equity)
  BY <1>7
<1>14. PICK i \in Int : i = OverSet(M, Income)
  BY <1>7
<1>15. PICK e \in Int : e = OverSet(M, Expense)
  BY <1>7
<1>16. w + x + y + i + e = 0
  BY ONLY <1>3, <1>8, <1>11, <1>12, <1>13, <1>14, <1>15
<1>17. OverSet(W, Liability) = -x /\ OverSet(W, Equity) = -y /\ OverSet(W, Asset) = w
  BY <1>9, <1>10, <1>11, <1>12, <1>13
<1>18. ResultOf(S) = -i - e
  BY ONLY <1>4, <1>14, <1>15
<1>19. PICK A \in Int : A = Overstated(Asset)
  BY <1>5
<1>20. PICK L \in Int : L = Overstated(Liability)
  BY <1>5
<1>21. PICK E \in Int : E = Overstated(Equity)
  BY <1>5
<1>22. /\ SheetTotal(Asset) = w + A /\ SheetTotal(Liability) = -x + L /\ SheetTotal(Equity) = -y + E
  BY ONLY <1>5, <1>17, <1>19, <1>20, <1>21
<1>23. /\ (w + A) - ((-x + L) + (-y + E) + (-i - e)) = A - L - E
       /\ -i - e \in Int
  BY ONLY <1>16, w \in Int, x \in Int, y \in Int, i \in Int, e \in Int,
          A \in Int, L \in Int, E \in Int
<1> QED BY ONLY <1>5, <1>18, <1>19, <1>20, <1>21, <1>22, <1>23

\* For any chart of accounts, over every history of drafts, posts, closes,
\* recomputes and new child accounts, the balance sheet is off by exactly the
\* contra accounts it adds up with the wrong sign and the root and control
\* accounts it leaves out.  "balanced" says nothing else about the books.
THEOREM SheetOffBy ==
  ASSUME "reverse" \notin Ops
  PROVE  Spec => []SheetExplained
<1>1. ASSUME TypeOK, Finite, BalancedEntries, Healthy
      PROVE  SheetExplained
  <2>1. PostedIn(entry) \subseteq DOMAIN entry
    BY <1>1, PostedFacts
  <2>2. \A a \in Account : balance[a] = BalanceOver(entry, PostedIn(entry), a)
    BY <1>1 DEF Healthy
  <2>3. SheetTotal(Asset) - (SheetTotal(Liability) + SheetTotal(Equity) + ResultOf(PostedIn(entry)))
          = Overstated(Asset) - Overstated(Liability) - Overstated(Equity)
    BY <1>1, <2>1, <2>2, SheetFacts
  <2> QED BY ONLY <2>3, NetProfitIs DEF SheetExplained, SheetGap
<1> QED BY <1>1, Types, Books, Health, PTL

\* Reversals included: the debit and credit columns of the trial balance always
\* have the same total.  The view counts every line, whatever the status of its
\* entry, and every entry that is written balances; only control accounts, which
\* leave the view with what was booked on them before, would upset it.
THEOREM TrialBalanceAgrees ==
  ASSUME "child" \notin Ops
  PROVE  Spec => []TrialBalanceBalances
<1>1. TypeOK /\ Finite /\ BalancedEntries /\ AllPostable => TrialBalanceBalances
  BY TrialFacts
<1> QED BY <1>1, Types, Books, LeavesStay, PTL

-----------------------------------------------------------------------------
(* The balance sheet after reversals.                                      *)

Reversed == {e \in DOMAIN entry : entry[e].status = "REVERSED"}

\* The caches are the sum of all entries that were ever posted, and no posted
\* entry is deleted.
FollowsHistory ==
  /\ \A e \in DOMAIN entry : entry[e].status = "POSTED" => ~entry[e].deleted
  /\ \A a \in Account : balance[a] = BalanceOver(entry, Applied, a)

\* Posted entries stay undeleted.
LEMMA PostedKept ==
  ASSUME TypeOK, Finite, [Next]_vars,
         \A e \in DOMAIN entry : entry[e].status = "POSTED" => ~entry[e].deleted
  PROVE  \A e \in DOMAIN entry' : entry'[e].status = "POSTED" => ~entry'[e].deleted
<1>1. CASE entry' = entry
  BY <1>1
<1>2. ASSUME NEW e, NEW r, WritesDraft(e, r)
      PROVE  \A x \in DOMAIN entry' : entry'[x].status = "POSTED" => ~entry'[x].deleted
  <2>1. /\ DOMAIN entry' = DOMAIN entry \cup {e} /\ entry'[e] = r
        /\ \A x \in DOMAIN entry \ {e} : entry'[x] = entry[x]
        /\ r.status = "DRAFT"
    BY <1>2, WritesFacts DEF WritesDraft, DraftFor
  <2> QED BY <2>1
<1>3. ASSUME NEW e, NEW r, PostsDraft(e, r)
      PROVE  \A x \in DOMAIN entry' : entry'[x].status = "POSTED" => ~entry'[x].deleted
  <2>1. /\ DOMAIN entry' = DOMAIN entry \cup {e} /\ entry'[e] = PostedRow(r) /\ r \in Row
        /\ \A x \in DOMAIN entry \ {e} : entry'[x] = entry[x]
    BY <1>3, PostPosted
  <2>2. ~entry'[e].deleted
    BY <1>3, <2>1, PostedRowFacts DEF PostsDraft, DraftFor
  <2> QED BY <2>1, <2>2
<1>4. ASSUME NEW e, NEW m, NEW r, Reverses(e, m, r)
      PROVE  \A x \in DOMAIN entry' : entry'[x].status = "POSTED" => ~entry'[x].deleted
  <2>1. /\ e \in DOMAIN entry /\ entry[e] \in Row /\ r \in Row /\ ~r.deleted
    BY <1>4, RowFacts DEF Reverses
  <2>2. /\ DOMAIN entry' = DOMAIN entry \cup {m} /\ entry'[m] = PostedRow(r)
        /\ entry'[e] = [entry[e] EXCEPT !.status = "REVERSED"]
        /\ \A x \in DOMAIN entry \ {e} : entry'[x] = entry[x]
    BY <1>4, ReversesFacts
  <2>3. entry'[e].status = "REVERSED" /\ ~entry'[m].deleted
    BY <2>1, <2>2, PostedRowFacts DEF Row
  <2> QED BY <2>1, <2>2, <2>3
<1> QED BY <1>1, <1>2, <1>3, <1>4, Effects

LEMMA HistoryKept ==
  ASSUME TypeOK, Finite, FollowsHistory, [Next]_vars, "recompute" \notin Ops
  PROVE  FollowsHistory'
<1>1. IsFiniteSet(Applied) /\ \A e \in Applied : entry[e].lines \in Seq(Line)
  <2>1. Applied \subseteq DOMAIN entry
    BY DEF Applied
  <2> QED BY <2>1, FS_Subset, RowFacts DEF Finite
<1>2. \A x \in Applied : x \in Applied' /\ entry'[x].lines = entry[x].lines
  BY AppliedGrows
<1>3. \A a \in Account : BalanceOver(entry', Applied, a) = BalanceOver(entry, Applied, a)
  BY <1>1, <1>2, BalanceSame
<1>4. CASE Applied' = Applied /\ balance' = balance
  BY <1>3, <1>4, PostedKept DEF FollowsHistory
<1>5. ASSUME NEW m, m \notin Applied, Applied' = Applied \cup {m},
             entry'[m].lines \in Seq(Line), balance' = FoldIn(balance, entry'[m].lines)
      PROVE  FollowsHistory'
  <2>1. \A x \in Applied \cup {m} : entry'[x].lines \in Seq(Line)
    BY <1>1, <1>2, <1>5
  <2>2. ASSUME NEW a \in Account
        PROVE  balance'[a] = BalanceOver(entry', Applied', a)
    <3>1. BalanceOver(entry', Applied \cup {m}, a)
            = BalanceOver(entry', Applied, a) + Delta(entry'[m].lines, a)
      BY <1>1, <1>5, <2>1, BalanceOneMore
    <3>2. balance'[a] = balance[a] + Delta(entry'[m].lines, a)
      BY <1>5 DEF FoldIn
    <3> QED BY <1>3, <1>5, <3>1, <3>2 DEF FollowsHistory
  <2> QED BY <2>2, PostedKept DEF FollowsHistory
<1> QED BY <1>4, <1>5, AppliedGrows

LEMMA History ==
  ASSUME "recompute" \notin Ops
  PROVE  Spec => []FollowsHistory
<1>1. Init => FollowsHistory
  <2> SUFFICES ASSUME Init PROVE FollowsHistory
    OBVIOUS
  <2>1. Applied = {} /\ DOMAIN entry = {}
    BY DEF Init, Applied
  <2> QED BY <2>1, BalanceOverNone DEF Init, FollowsHistory
<1>2. TypeOK /\ Finite /\ FollowsHistory /\ [Next]_vars => FollowsHistory'
  BY HistoryKept
<1> QED BY <1>1, <1>2, Types, PTL DEF Spec

\* The result of disjoint sets of entries is the sum of their results.
LEMMA ResultParts ==
  ASSUME NEW S, NEW T, IsFiniteSet(S), IsFiniteSet(T), S \cap T = {},
         \A e \in S \cup T : entry[e].lines \in Seq(Line)
  PROVE  /\ ResultOf(S \cup T) = ResultOf(S) + ResultOf(T)
         /\ ResultOf(S) \in Int /\ ResultOf(T) \in Int
<1> DEFINE U == S \cup T
           M == [a \in Account |-> MovedBy(S, a)]
           N == [a \in Account |-> MovedBy(T, a)]
           O == [a \in Account |-> MovedBy(U, a)]
<1>1. IsFiniteSet(U) /\ S \subseteq U /\ U \ S = T
  BY FS_Union
<1>2. IsFiniteSet(Income) /\ IsFiniteSet(Expense) /\ Income \subseteq Account /\ Expense \subseteq Account
  BY AccountAssumption, FS_Subset DEF AccountAssumption
<1>3. ASSUME NEW a \in Account
      PROVE  M[a] \in Int /\ N[a] \in Int /\ O[a] = M[a] + N[a]
  BY MovedParts
<1>4. ResultOf(S) = -OverSet(M, Income) - OverSet(M, Expense)
  BY ResultIsMoved
<1>5. ResultOf(T) = -OverSet(N, Income) - OverSet(N, Expense)
  BY ResultIsMoved
<1>6. ResultOf(U) = -OverSet(O, Income) - OverSet(O, Expense)
  BY <1>1, ResultIsMoved
<1> HIDE DEF M, N, O, U
<1>7. /\ OverSet(O, Income) = OverSet(M, Income) + OverSet(N, Income)
      /\ OverSet(O, Expense) = OverSet(M, Expense) + OverSet(N, Expense)
  BY <1>2, <1>3, OverAdd
<1>8. /\ OverSet(M, Income) \in Int /\ OverSet(N, Income) \in Int
      /\ OverSet(M, Expense) \in Int /\ OverSet(N, Expense) \in Int
  BY <1>2, <1>3, OverType
<1> QED BY <1>4, <1>5, <1>6, <1>7, <1>8 DEF U

\* Reversals included, the sheet is off by what it overstates and by the result
\* of the reversed entries.
OffByReversed ==
  SheetGap = (Overstated(Asset) - Overstated(Liability) - Overstated(Equity))
               + ResultOf(Reversed)

LEMMA AppliedParts ==
  ASSUME TypeOK, Finite, FollowsHistory
  PROVE  /\ Applied = PostedIn(entry) \cup Reversed /\ PostedIn(entry) \cap Reversed = {}
         /\ Applied \cap Drafts = {} /\ Applied \cup Drafts = DOMAIN entry
         /\ IsFiniteSet(PostedIn(entry)) /\ IsFiniteSet(Reversed)
         /\ \A e \in Applied : entry[e].lines \in Seq(Line)
<1>1. \A e \in DOMAIN entry : entry[e].status \in {"DRAFT", "POSTED", "REVERSED"}
  BY RowFacts DEF JournalStatus
<1>2. PostedIn(entry) \subseteq DOMAIN entry /\ Reversed \subseteq DOMAIN entry
  BY DEF PostedIn, Reversed
<1>3. /\ Applied = PostedIn(entry) \cup Reversed /\ PostedIn(entry) \cap Reversed = {}
      /\ Applied \cap Drafts = {} /\ Applied \cup Drafts = DOMAIN entry
  BY <1>1 DEF Applied, PostedIn, Reversed, Drafts, FollowsHistory
<1>4. \A e \in Applied : entry[e].lines \in Seq(Line)
  BY <1>2, <1>3, RowFacts
<1>5. IsFiniteSet(PostedIn(entry)) /\ IsFiniteSet(Reversed)
  BY <1>2, FS_Subset DEF Finite
<1> QED BY <1>3, <1>4, <1>5

LEMMA OffFacts ==
  ASSUME TypeOK, Finite, BalancedEntries, FollowsHistory
  PROVE  OffByReversed
<1>1. SheetTotal(Asset) - (SheetTotal(Liability) + SheetTotal(Equity) + ResultOf(Applied))
        = Overstated(Asset) - Overstated(Liability) - Overstated(Equity)
  BY AppliedParts, SheetFacts DEF FollowsHistory
<1>2. /\ SheetTotal(Asset) \in Int /\ SheetTotal(Liability) \in Int /\ SheetTotal(Equity) \in Int
      /\ Overstated(Asset) \in Int /\ Overstated(Liability) \in Int /\ Overstated(Equity) \in Int
  BY AppliedParts, SheetFacts DEF FollowsHistory
<1>3. /\ ResultOf(Applied) = ResultOf(PostedIn(entry)) + ResultOf(Reversed)
      /\ ResultOf(PostedIn(entry)) \in Int /\ ResultOf(Reversed) \in Int
  BY AppliedParts, ResultParts
<1>4. NetProfit = ResultOf(PostedIn(entry))
  BY NetProfitIs
<1>5. PICK p \in Int : p = NetProfit
  BY <1>3, <1>4
<1>6. PICK r \in Int : r = ResultOf(Reversed)
  BY <1>3
<1>7. PICK d \in Int : d = Overstated(Asset) - Overstated(Liability) - Overstated(Equity)
  BY <1>2
<1>8. PICK x \in Int : x = SheetTotal(Asset)
  BY <1>2
<1>9. PICK y \in Int : y = SheetTotal(Liability) + SheetTotal(Equity)
  BY <1>2
<1>10. x - (y + (p + r)) = d
  BY ONLY <1>1, <1>3, <1>4, <1>5, <1>6, <1>7, <1>8, <1>9
<1>11. x - (y + p) = d + r
  BY ONLY <1>10, x \in Int, y \in Int, p \in Int, r \in Int, d \in Int
<1>12. SheetGap = x - (y + p)
  BY ONLY <1>5, <1>8, <1>9 DEF SheetGap
<1> QED BY ONLY <1>6, <1>7, <1>11, <1>12 DEF OffByReversed

\* For any chart of accounts, over every history of drafts, posts, reversals,
\* closes and new child accounts, a reversal puts the balance sheet off by the
\* result of the reversed entry, on top of what the sheet overstates anyway: the
\* caches keep a reversed entry and its mirror, the sum over POSTED rows only the
\* mirror.
THEOREM SheetAfterReversal ==
  ASSUME "recompute" \notin Ops
  PROVE  Spec => []OffByReversed
<1>1. TypeOK /\ Finite /\ BalancedEntries /\ FollowsHistory => OffByReversed
  BY OffFacts
<1> QED BY <1>1, Types, Books, History, PTL

\* Over the same histories every row of the trial balance is the cached balance
\* with the drafts on top: it keeps the reversed entries, as the caches do.
THEOREM TrialAfterReversal ==
  ASSUME "recompute" \notin Ops
  PROVE  Spec => []TrialShowsDrafts
<1>1. TypeOK /\ Finite /\ FollowsHistory => TrialShowsDrafts
  BY AppliedParts, TrialFollows DEF FollowsHistory
<1> QED BY <1>1, Types, History, PTL
=============================================================================

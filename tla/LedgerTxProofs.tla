--------------------------- MODULE LedgerTxProofs ---------------------------
(***************************************************************************)
(* What the statements and locks of LedgerTx guarantee, for every set of   *)
(* connections, entries, accounts and requests.                            *)
(***************************************************************************)
EXTENDS LedgerTx, BookkeepingProofs

-----------------------------------------------------------------------------
(* The inductive invariant.                                                *)

\* The statements of each operation, in the order they run.
StepsOf(op) ==
  CASE op \in {"create", "transfer"} -> {"insHeader", "insLine", "commit"}
    [] op = "post"      -> {"lockEntry", "validate", "lockAccount", "fold", "audFold",
                            "flip", "commit"}
    [] op = "reverse"   -> {"lockEntry", "insHeader", "insLine", "validate", "lockAccount",
                            "fold", "audFold", "flip", "markSource", "commit"}
    [] op = "update"    -> {"assertDraft", "updHeader", "audUpdate", "insLine", "commit"}
    [] op = "delete"    -> {"assertDraft", "updHeader", "audUpdate", "commit"}
    [] op = "restore"   -> {"updHeader", "audUpdate", "commit"}
    [] op = "child"     -> {"insAccount", "audAccount", "control", "commit"}
    [] op = "recompute" -> {"lockOne", "recompute", "audRecompute", "commit"}
    [] op = "close"     -> {"tryClose", "lockPeriod", "count", "net", "insHeader", "insLine",
                            "validate", "lockAccount", "fold", "audFold", "flip",
                            "closePeriod", "commit"}

Inserts == {"create", "transfer", "reverse", "close"}
Posts   == {"post", "reverse", "close"}
Edits   == {"update", "delete", "restore"}

Job == [pc : Steps, op : Serial!OpNames \cup {None}, id : Entry \cup {None},
            new : Entry \cup {None}, date : Date \cup {None}, lines : Seq(LineDto),
            acct : Account \cup {None}, per : Period \cup {None}, todo : SUBSET Account]

Tables(R, V) == UNION {[S -> V] : S \in SUBSET R}

Writing == [entry : Tables(Entry, Row), balance : Tables(Account, Int),
            control : SUBSET Account, closed : SUBSET Period]

\* Every field of a request has its type once the operation uses it.
Placed(t) ==
  /\ t.op \in Serial!OpNames
  /\ t.op \in Ops \/ (t.op = "post" /\ "transfer" \in Ops)
  /\ t.pc \in StepsOf(t.op)
  /\ t.op \in {"post", "reverse"} \cup Edits => t.id \in Entry
  /\ t.op \in {"create", "transfer", "reverse", "update"} => t.date \in Date
  /\ t.op \in {"create", "transfer", "update"} => Len(t.lines) >= 2
  /\ t.op \in {"create", "transfer"} => AssertBalanced(t.lines)
  /\ t.op = "transfer" => TransferLegs(t.lines)
  /\ t.op = "close" => t.per \in Period
  /\ t.op \in {"child", "recompute"} => t.acct \in Account

\* When the transaction has inserted a header.
NewSet(t) ==
  /\ t.new \in Entry \cup {None}
  /\ t.op \in Inserts /\ t.pc \in {"insLine", "validate", "lockAccount", "fold", "audFold",
                                   "flip", "markSource"} => t.new \in Entry
  /\ t.op \in Inserts \ {"close"} /\ t.pc = "commit" => t.new \in Entry
  /\ t.op \notin Inserts => t.new = None
  /\ t.pc \in {"lockEntry", "insHeader", "tryClose", "lockPeriod", "count", "net"} =>
       t.new = None

\* When it has written the row of the entry its request names.
Touched(t) ==
  \/ t.op \in Edits /\ t.pc \in {"audUpdate", "insLine", "commit"}
  \/ t.op \in {"post", "reverse"} /\ t.pc = "commit"

Flipped(t) == t.pc \in {"markSource", "closePeriod", "commit"} /\ t.op \in {"reverse", "close"}

\* The header it inserted, with the lines ls.
Inserted(t, ls) ==
  CASE t.op = "reverse" -> DraftRow(t.date, ls, t.id)
    [] t.op = "close"   -> ClosingRow(EndOf[t.per], ls)
    [] OTHER            -> DraftRow(t.date, ls, None)

\* ls holds the first lines of the request.
Copied(ls, t) ==
  /\ ls \in Seq(Line) /\ Len(ls) <= Len(t.lines)
  /\ \A i \in 1..Len(ls) : ls[i] = t.lines[i]
  /\ t.pc = "insLine" => Len(ls) < Len(t.lines) \/ (t.lines = << >> /\ t.op = "close")
  /\ t.pc # "insLine" => ls = t.lines

\* The row of the named entry, after the write of the operation to it.
Edited(t, r, ls) ==
  CASE t.op = "post"    -> PostedRow(r)
    [] t.op = "reverse" -> [r EXCEPT !.status = "REVERSED"]
    [] t.op = "update" /\ t.pc = "audUpdate" -> [r EXCEPT !.date = t.date]
    [] t.op = "update" /\ t.pc # "audUpdate" -> [r EXCEPT !.date = t.date, !.lines = ls]
    [] t.op = "delete"  -> [r EXCEPT !.deleted = TRUE]
    [] t.op = "restore" -> [r EXCEPT !.deleted = FALSE]

\* The uncommitted rows: the inserted header and the named entry, no other.
Written(t, w, E) ==
  /\ DOMAIN w.entry = (IF t.new = None THEN {} ELSE {t.new})
                        \cup (IF Touched(t) THEN {t.id} ELSE {})
  /\ t.new # None =>
       IF Flipped(t) THEN w.entry[t.new] = PostedRow(Inserted(t, t.lines)) /\ t.lines \in Seq(Line)
       ELSE /\ w.entry[t.new] = Inserted(t, w.entry[t.new].lines)
            /\ Copied(w.entry[t.new].lines, t)
  /\ Touched(t) =>
       /\ w.entry[t.id] = Edited(t, E[t.id], w.entry[t.id].lines)
       /\ t.op = "update" /\ t.pc # "audUpdate" => Copied(w.entry[t.id].lines, t)
  /\ t.op # "child" => w.control = {}
  /\ t.op # "close" => w.closed = {}

\* The lines a posting folds into the balances.
Folded(t, E) == IF t.op = "post" THEN E[t.id].lines ELSE t.lines

\* From the lock on the entry on, what was read of it stays true.
Read(t, E) ==
  /\ t.op \in {"post", "reverse"} \cup Edits => t.id \in DOMAIN E
  /\ t.op = "post" /\ t.pc # "lockEntry" =>
       E[t.id].status = "DRAFT" /\ ~E[t.id].deleted
  /\ t.op = "reverse" /\ t.pc # "lockEntry" =>
       /\ E[t.id].status = "POSTED" /\ ~E[t.id].deleted
       /\ t.lines = Mirror(E[t.id].lines)
  /\ t.op = "restore" /\ t.pc # "updHeader" =>
       E[t.id].status = "DRAFT" /\ E[t.id].deleted

Folding(t) ==
  /\ t.op \in Posts /\ (t.op = "close" => t.new # None)
  /\ t.pc \in {"lockAccount", "fold", "audFold", "flip", "markSource", "closePeriod", "commit"}

\* The accounts a posting still has to lock are among those of its lines.
ToLock(t, E) ==
  /\ t.todo \subseteq Account
  /\ t.pc = "lockAccount" => t.todo # {} /\ t.todo \subseteq AccountsOf(Folded(t, E))
  /\ t.pc # "lockAccount" => t.todo = {}

\* The accounts whose balances it is about to publish.
Published(t, E) ==
  IF Folding(t) /\ t.pc \notin {"lockAccount", "fold"} THEN AccountsOf(Folded(t, E))
  ELSE IF t.op = "recompute" /\ t.pc \in {"audRecompute", "commit"} THEN {t.acct}
  ELSE {}

Has(p, on, mode, L) == [proc |-> p, on |-> on, mode |-> mode] \in L

\* The locks a transaction holds once it is past the statement that asked.
Holds(p, t, L, E) ==
  /\ t.op \in {"post", "reverse"} /\ t.pc # "lockEntry" => Has(p, <<"entry", t.id>>, "UPDATE", L)
  /\ t.op \in Edits /\ t.pc \in {"audUpdate", "insLine", "commit"} =>
       Has(p, <<"entry", t.id>>, "NO KEY UPDATE", L)
  /\ Folding(t) => \A a \in AccountsOf(Folded(t, E)) \ t.todo : Has(p, <<"account", a>>, "UPDATE", L)
  /\ t.op = "recompute" /\ t.pc # "lockOne" => Has(p, <<"account", t.acct>>, "UPDATE", L)
  /\ \/ t.pc \in {"insLine", "flip", "markSource", "closePeriod", "control", "commit"}
     \/ t.op \in {"reverse", "close"} /\ t.pc \in {"validate", "lockAccount", "fold", "audFold"}
     => Has(p, AuditLock, "UPDATE", L)

\* A connection is idle, or its transaction is where its statements leave it.
Conn(p, t, w, L, E) ==
  IF t.pc = "idle" THEN t = Idle /\ w = NoWrites
  ELSE /\ Placed(t) /\ NewSet(t) /\ Read(t, E) /\ ToLock(t, E)
       /\ Written(t, w, E) /\ DOMAIN w.balance = Published(t, E) /\ Holds(p, t, L, E)

Conns == \A p \in Proc : Conn(p, tx[p], pend[p], locks, entry)

Books ==
  /\ Serial!TypeOK /\ IsFiniteSet(DOMAIN entry)
  /\ \A e \in DOMAIN entry : entry[e].status = "POSTED" => Balanced(entry[e].lines)

\* No two connections hold conflicting locks.
Exclusive ==
  \A k, l \in locks : k.on = l.on /\ k.proc # l.proc => ~Conflict(k.mode, l.mode)

\* An inserted id is nobody else's.
NewApart ==
  \A p \in Proc : tx[p].new # None =>
    /\ tx[p].new \notin DOMAIN entry
    /\ \A q \in Proc : q # p => tx[q].new # tx[p].new

\* Nobody holds a lock between transactions, and this is all a post holds.
MayHold(t, l) ==
  /\ t.pc # "idle"
  /\ t.op = "post" =>
       \/ l.on = <<"entry", t.id>> /\ t.pc # "lockEntry"
       \/ \E a \in Account : /\ l.on = <<"account", a>>
                             /\ t.pc \notin {"lockEntry", "validate"}
                             /\ \A b \in t.todo : a < b
       \/ l.on = AuditLock /\ t.pc \in {"flip", "commit"}
       \/ l.mode = "KEY SHARE" /\ \E q \in Period \cup {None} : l.on = <<"period", q>>

LocksOK == \A l \in locks : l.proc \in Proc /\ MayHold(tx[l.proc], l)

Typed == tx \in [Proc -> Job] /\ pend \in [Proc -> Writing]

IInv == Typed /\ Books /\ Conns /\ Exclusive /\ NewApart /\ LocksOK

-----------------------------------------------------------------------------
(* Where a transaction can be.                                             *)

\* The operations that run a statement.
LEMMA OpsAt ==
  ASSUME NEW t, Placed(t)
  PROVE  /\ t.pc # "idle"
         /\ t.pc \in {"insHeader", "insLine"} => t.op \in Inserts \cup {"update"}
         /\ t.pc = "insHeader" => t.op \in Inserts
         /\ t.pc = "assertDraft" => t.op \in {"update", "delete"}
         /\ t.pc \in {"updHeader", "audUpdate"} => t.op \in Edits
         /\ t.pc = "lockEntry" => t.op \in {"post", "reverse"}
         /\ t.pc \in {"validate", "lockAccount", "fold", "audFold", "flip"} => t.op \in Posts
         /\ t.pc = "markSource" => t.op = "reverse"
         /\ t.pc \in {"lockOne", "recompute", "audRecompute"} => t.op = "recompute"
         /\ t.pc \in {"insAccount", "audAccount", "control"} => t.op = "child"
         /\ t.pc \in {"tryClose", "lockPeriod", "count", "net", "closePeriod"} => t.op = "close"
<1>1. t.op \in Serial!OpNames /\ t.pc \in StepsOf(t.op)
  BY DEF Placed
<1>2. \/ t.op \in {"create", "transfer"} \/ t.op = "post" \/ t.op = "reverse"
      \/ t.op = "update" \/ t.op = "delete" \/ t.op = "restore"
      \/ t.op = "child" \/ t.op = "recompute" \/ t.op = "close"
  BY <1>1 DEF Serial!OpNames
<1> QED BY <1>1, <1>2 DEF StepsOf, Inserts, Posts, Edits

\* A request whose fields are given one by one.
LEMMA JobTypes ==
  /\ Idle \in Job /\ NoWrites \in Writing
  /\ Idle.pc = "idle" /\ Idle.new = None /\ Idle.todo = {}
<1>1. << >> \in Seq(LineDto)
  OBVIOUS
<1>2. Idle \in Job
  BY <1>1 DEF Idle, Job, Steps
<1>3. << >> \in Tables(Entry, Row) /\ << >> \in Tables(Account, Int)
  <2>1. << >> \in [{} -> Row] /\ << >> \in [{} -> Int]
    OBVIOUS
  <2> QED BY <2>1 DEF Tables
<1> QED BY <1>2, <1>3 DEF NoWrites, Writing, Idle

-----------------------------------------------------------------------------
(* What a step of one connection leaves alone.                             *)

\* A connection keeps its place while its locks are kept.
LEMMA ConnKept ==
  ASSUME NEW q, NEW t, NEW w, NEW L, NEW M, NEW E, Conn(q, t, w, L, E),
         \A on, mode : Has(q, on, mode, L) => Has(q, on, mode, M)
  PROVE  Conn(q, t, w, M, E)
<1>1. Holds(q, t, L, E) => Holds(q, t, M, E)
  BY DEF Holds
<1> QED BY <1>1 DEF Conn

LEMMA HasOther ==
  ASSUME NEW p, NEW q, p # q, NEW L, NEW M, \A l : l.proc # p => (l \in M <=> l \in L)
  PROVE  \A on, mode : Has(q, on, mode, L) => Has(q, on, mode, M)
<1> SUFFICES ASSUME NEW on, NEW mode, Has(q, on, mode, L) PROVE Has(q, on, mode, M)
  OBVIOUS
<1> DEFINE l == [proc |-> q, on |-> on, mode |-> mode]
<1>1. l.proc # p /\ l \in L
  BY DEF Has
<1> HIDE DEF l
<1>2. l \in M
  BY <1>1
<1> QED BY <1>2 DEF Has, l

\* A statement of p that leaves its connection in place, and the tables as
\* they were, keeps the invariant.
LEMMA Frame ==
  ASSUME IInv, NEW p \in Proc, NEW t \in Job, NEW w \in Writing,
         UNCHANGED tables,
         tx' = [tx EXCEPT ![p] = t], pend' = [pend EXCEPT ![p] = w],
         \A l : l.proc # p => (l \in locks' <=> l \in locks),
         \A l \in locks' : l.proc = p => MayHold(t, l),
         Exclusive',
         Conn(p, t, w, locks', entry),
         t.new = None \/ t.new = tx[p].new \/ t.new \notin Used
  PROVE  IInv'
<1>1. Typed'
  BY DEF IInv, Typed
<1>2. /\ tx'[p] = t /\ pend'[p] = w
      /\ \A q \in Proc : q # p => tx'[q] = tx[q] /\ pend'[q] = pend[q]
  BY DEF IInv, Typed
<1>3. Books'
  BY DEF IInv, Books, tables, Serial!TypeOK
<1>4. Conns'
  <2>1. ASSUME NEW q \in Proc PROVE Conn(q, tx'[q], pend'[q], locks', entry')
    <3>1. CASE q = p
      BY <1>2, <3>1 DEF tables
    <3>2. CASE q # p
      <4>1. Conn(q, tx[q], pend[q], locks, entry)
        BY DEF IInv, Conns
      <4>2. \A on, mode : Has(q, on, mode, locks) => Has(q, on, mode, locks')
        BY <3>2, HasOther
      <4>3. Conn(q, tx[q], pend[q], locks', entry)
        BY <4>1, <4>2, ConnKept
      <4> QED BY <1>2, <3>2, <4>3 DEF tables
    <3> QED BY <3>1, <3>2
  <2> QED BY <2>1 DEF Conns
<1>5. NewApart'
  <2>1. ASSUME NEW q \in Proc, tx[q].new # None, tx[q].new \in DOMAIN pend[q].entry
        PROVE  tx[q].new \in Used
    BY <2>1 DEF Used
  <2>2. ASSUME NEW q \in Proc, tx[q].new # None PROVE tx[q].new \in DOMAIN pend[q].entry
    <3>1. Conn(q, tx[q], pend[q], locks, entry)
      BY DEF IInv, Conns
    <3>2. tx[q].pc # "idle"
      BY <2>2, <3>1 DEF Conn, Idle
    <3> QED BY <2>2, <3>1, <3>2 DEF Conn, Written
  <2>3. DOMAIN entry \subseteq Used
    BY DEF Used
  <2> SUFFICES ASSUME NEW q \in Proc, tx'[q].new # None
               PROVE  /\ tx'[q].new \notin DOMAIN entry
                      /\ \A r \in Proc : r # q => tx'[r].new # tx'[q].new
    BY DEF NewApart, tables
  <2> QED BY <1>2, <2>1, <2>2, <2>3 DEF IInv, NewApart
<1>6. LocksOK'
  <2>1. ASSUME NEW l \in locks' PROVE l.proc \in Proc /\ MayHold(tx'[l.proc], l)
    <3>1. CASE l.proc = p
      BY <1>2, <3>1
    <3>2. CASE l.proc # p
      BY <1>2, <3>2 DEF IInv, LocksOK
    <3> QED BY <3>1, <3>2
  <2> QED BY <2>1 DEF LocksOK
<1> QED BY <1>1, <1>3, <1>4, <1>5, <1>6 DEF IInv

LEMMA EndKeeps ==
  ASSUME IInv, NEW p \in Proc, Rollback(p)
  PROVE  IInv'
<1>1. \A l : l.proc # p => (l \in locks' <=> l \in locks)
  BY DEF Rollback, Release
<1>2. \A l \in locks' : l \in locks /\ l.proc # p
  BY DEF Rollback, Release
<1>3. Exclusive'
  BY <1>2 DEF IInv, Exclusive
<1>4. Conn(p, Idle, NoWrites, locks', entry)
  BY JobTypes DEF Conn
<1>5. Idle.new = None
  BY DEF Idle
<1>6. /\ UNCHANGED tables
      /\ tx' = [tx EXCEPT ![p] = Idle] /\ pend' = [pend EXCEPT ![p] = NoWrites]
  BY DEF Rollback
<1> QED BY <1>1, <1>2, <1>3, <1>4, <1>5, <1>6, JobTypes, Frame

\* What is known of a connection that is at work.
LEMMA AtWork ==
  ASSUME IInv, NEW p \in Proc, tx[p].pc # "idle"
  PROVE  /\ tx[p] \in Job /\ pend[p] \in Writing
         /\ Placed(tx[p]) /\ NewSet(tx[p]) /\ Read(tx[p], entry) /\ ToLock(tx[p], entry)
         /\ Written(tx[p], pend[p], entry)
         /\ DOMAIN pend[p].balance = Published(tx[p], entry)
         /\ Holds(p, tx[p], locks, entry)
BY DEF IInv, Typed, Conns, Conn

\* u is t at another statement.
Moved(t, u, s) ==
  /\ u.pc = s /\ u.op = t.op /\ u.id = t.id /\ u.new = t.new /\ u.date = t.date
  /\ u.lines = t.lines /\ u.acct = t.acct /\ u.per = t.per /\ u.todo = t.todo

LEMMA Move ==
  ASSUME NEW p, NEW t \in Job, NEW s \in Steps, tx' = [tx EXCEPT ![p] = [t EXCEPT !.pc = s]]
  PROVE  \E u \in Job : tx' = [tx EXCEPT ![p] = u] /\ Moved(t, u, s)
<1> DEFINE u == [t EXCEPT !.pc = s]
<1>1. u \in Job /\ Moved(t, u, s)
  BY DEF Job, Moved
<1> QED BY <1>1

\* The two stages of a request have written the same.
SameStage(t, u) ==
  /\ u.op = t.op /\ u.id = t.id /\ u.new = t.new /\ u.date = t.date
  /\ u.lines = t.lines /\ u.per = t.per
  /\ Touched(u) <=> Touched(t)
  /\ Flipped(u) <=> Flipped(t)
  /\ u.pc = "insLine" <=> t.pc = "insLine"
  /\ u.pc = "audUpdate" <=> t.pc = "audUpdate"

\* So what it has written is described by the same formula.
LEMMA WrittenStays ==
  ASSUME NEW t, NEW u, NEW w, NEW v, NEW E, Written(t, w, E), SameStage(t, u),
         v.entry = w.entry, t.op = "child" \/ v.control = w.control, v.closed = w.closed
  PROVE  Written(u, v, E)
<1>1. \A ls : /\ Inserted(u, ls) = Inserted(t, ls) /\ (Copied(ls, u) <=> Copied(ls, t))
              /\ \A r : Edited(u, r, ls) = Edited(t, r, ls)
  BY DEF SameStage, Inserted, Copied, Edited
<1> QED BY <1>1 DEF Written, SameStage

Granted(p) == {[proc |-> p, on |-> n.on, mode |-> n.mode] : n \in Need(p)}

\* A statement is granted only locks that nobody else's exclude.
LEMMA GrantKeeps ==
  ASSUME IInv, NEW p \in Proc, NEW at, Statement(p, at)
  PROVE  /\ tx[p].pc = at /\ UNCHANGED tables /\ locks' = locks \cup Granted(p)
         /\ Exclusive'
         /\ \A l : l.proc # p => (l \in locks' <=> l \in locks)
<1>1. tx[p].pc = at /\ UNCHANGED tables /\ locks' = locks \cup Granted(p) /\ WaitsFor(p) = {}
  BY DEF Statement, Granted
<1>2. \A l \in Granted(p) : l.proc = p
  BY DEF Granted
<1>3. \A k \in locks, l \in Granted(p) :
        k.proc # p /\ k.on = l.on => ~Conflict(l.mode, k.mode) /\ ~Conflict(k.mode, l.mode)
  <2> SUFFICES ASSUME NEW k \in locks, NEW l \in Granted(p), k.proc # p, k.on = l.on
               PROVE  ~Conflict(l.mode, k.mode) /\ ~Conflict(k.mode, l.mode)
    OBVIOUS
  <2>1. PICK n \in Need(p) : l.on = n.on /\ l.mode = n.mode
    BY DEF Granted
  <2>2. Conflict(n.mode, k.mode) => k.proc \in WaitsFor(p)
    BY <2>1 DEF WaitsFor
  <2>3. {n.mode, k.mode} = {k.mode, n.mode}
    OBVIOUS
  <2> QED BY <1>1, <2>1, <2>2, <2>3 DEF Conflict
<1>4. Exclusive'
  BY <1>1, <1>2, <1>3 DEF IInv, Exclusive
<1> QED BY <1>1, <1>2, <1>4

\* A statement keeps the invariant if it leaves its own connection in place.
LEMMA StatementKeeps ==
  ASSUME IInv, NEW p \in Proc, NEW at, Statement(p, at), tx[p].pc # "idle",
         NEW u \in Job, NEW w \in Writing,
         tx' = [tx EXCEPT ![p] = u], pend' = [pend EXCEPT ![p] = w],
         u.pc # "idle", u.op = tx[p].op,
         u.op = "post" => /\ \A l : MayHold(tx[p], l) => MayHold(u, l)
                          /\ \A l \in Granted(p) : MayHold(u, l),
         Placed(u), NewSet(u), Read(u, entry), ToLock(u, entry), Written(u, w, entry),
         DOMAIN w.balance = Published(u, entry),
         Holds(p, u, locks', entry),
         u.new = None \/ u.new = tx[p].new \/ u.new \notin Used
  PROVE  IInv'
<1>1. /\ UNCHANGED tables /\ locks' = locks \cup Granted(p) /\ Exclusive'
      /\ \A l : l.proc # p => (l \in locks' <=> l \in locks)
  BY GrantKeeps
<1>2. \A l \in locks' : l.proc = p => MayHold(u, l)
  <2>1. CASE u.op = "post"
    BY <1>1, <2>1 DEF IInv, LocksOK
  <2>2. CASE u.op # "post"
    BY <2>2 DEF MayHold
  <2> QED BY <2>1, <2>2
<1>3. Conn(p, u, w, locks', entry)
  BY DEF Conn
<1> QED BY <1>1, <1>2, <1>3, Frame

-----------------------------------------------------------------------------
(* The statements, one by one.                                             *)

Lock(p, on, mode) == [proc |-> p, on |-> on, mode |-> mode]

\* What each statement is granted.
LEMMA GrantedAt ==
  ASSUME NEW p
  PROVE  /\ tx[p].pc = "lockEntry" => Granted(p) = {Lock(p, <<"entry", tx[p].id>>, "UPDATE")}
         /\ tx[p].pc = "updHeader" =>
              Granted(p) = {Lock(p, <<"entry", tx[p].id>>, "NO KEY UPDATE")}
         /\ tx[p].pc = "lockAccount" =>
              Granted(p) = {Lock(p, <<"account", NextAccount(p)>>, "UPDATE")}
         /\ tx[p].pc = "lockOne" => Granted(p) = {Lock(p, <<"account", tx[p].acct>>, "UPDATE")}
         /\ tx[p].pc = "flip" =>
              Granted(p) = {Lock(p, <<"period", PeriodOf[MyRow(p).date]>>, "KEY SHARE")}
         /\ tx[p].pc \in {"insHeader", "audUpdate", "audFold", "audAccount", "audRecompute"} =>
              Granted(p) = {Lock(p, AuditLock, "UPDATE")}
         /\ tx[p].pc \in {"validate", "fold", "commit"} => Granted(p) = {}
<1>1. ASSUME NEW on, NEW mode, Need(p) = Ask(on, mode) PROVE Granted(p) = {Lock(p, on, mode)}
  BY <1>1 DEF Granted, Ask, Lock
<1>2. Need(p) = {} => Granted(p) = {}
  BY DEF Granted
<1>3. /\ tx[p].pc = "lockEntry" => Need(p) = Ask(<<"entry", tx[p].id>>, "UPDATE")
      /\ tx[p].pc = "updHeader" => Need(p) = Ask(<<"entry", tx[p].id>>, "NO KEY UPDATE")
      /\ tx[p].pc = "lockAccount" => Need(p) = Ask(<<"account", NextAccount(p)>>, "UPDATE")
      /\ tx[p].pc = "lockOne" => Need(p) = Ask(<<"account", tx[p].acct>>, "UPDATE")
      /\ tx[p].pc = "flip" => Need(p) = Ask(<<"period", PeriodOf[MyRow(p).date]>>, "KEY SHARE")
      /\ tx[p].pc \in {"insHeader", "audUpdate", "audFold", "audAccount", "audRecompute"} =>
           Need(p) = Ask(AuditLock, "UPDATE")
      /\ tx[p].pc \in {"validate", "fold", "commit"} => Need(p) = {}
  BY DEF Need
<1> QED BY <1>1, <1>2, <1>3

\* The locks a connection held it still holds after a grant.
LEMMA HoldsMore ==
  ASSUME NEW p, NEW t, NEW L, NEW M, L \subseteq M, NEW E, Holds(p, t, L, E)
  PROVE  Holds(p, t, M, E)
BY DEF Holds, Has

LEMMA AuditFoldKeeps ==
  ASSUME IInv, NEW p \in Proc, AuditFold(p)
  PROVE  IInv'
<1> SUFFICES ASSUME NEW t, t = tx[p], NEW w, w = pend[p] PROVE IInv'
  OBVIOUS
<1>1. /\ Statement(p, "audFold") /\ t.pc = "audFold"
      /\ tx' = [tx EXCEPT ![p] = [t EXCEPT !.pc = "flip"]]
      /\ pend' = [pend EXCEPT ![p] = w]
  BY DEF AuditFold, Goto, Statement, IInv, Typed
<1>2. /\ t \in Job /\ w \in Writing /\ t.op \in Posts
      /\ Placed(t) /\ NewSet(t) /\ Read(t, entry) /\ ToLock(t, entry)
      /\ Written(t, w, entry) /\ DOMAIN w.balance = Published(t, entry)
      /\ Holds(p, t, locks, entry)
  BY <1>1, AtWork, OpsAt
<1>3. PICK u \in Job : tx' = [tx EXCEPT ![p] = u] /\ Moved(t, u, "flip")
  BY <1>1, <1>2, Move DEF Steps
<1>4. Placed(u)
  BY <1>1, <1>2, <1>3 DEF Moved, Placed, StepsOf, Posts
<1>5. NewSet(u)
  BY <1>1, <1>2, <1>3 DEF Moved, NewSet, Posts, Inserts
<1>6. Read(u, entry) /\ ToLock(u, entry)
  BY <1>1, <1>2, <1>3 DEF Moved, Read, ToLock, Posts, Edits
<1>7. Written(u, w, entry)
  <2>1. SameStage(t, u)
    BY <1>1, <1>2, <1>3 DEF Moved, SameStage, Touched, Flipped, Posts, Edits
  <2> QED BY <1>2, <2>1, WrittenStays
<1>8. DOMAIN w.balance = Published(u, entry)
  BY <1>1, <1>2, <1>3 DEF Moved, Published, Folding, Folded, Posts
<1>9. /\ locks \subseteq locks' /\ Granted(p) \subseteq locks'
      /\ Granted(p) = {Lock(p, AuditLock, "UPDATE")}
  BY <1>1, GrantKeeps, GrantedAt
<1>10. Holds(p, u, locks', entry)
  <2>1. Holds(p, t, locks', entry)
    BY <1>2, <1>9, HoldsMore
  <2> QED BY <1>1, <1>2, <1>3, <1>9, <2>1 DEF Moved, Holds, Has, Lock, Folding, Folded, Posts, Edits
<1>11. u.op = "post" => /\ \A l : MayHold(t, l) => MayHold(u, l)
                        /\ \A l \in Granted(p) : MayHold(u, l)
  <2>1. \A l : MayHold(t, l) => MayHold(u, l)
    BY <1>1, <1>3 DEF Moved, MayHold
  <2>2. \A l \in Granted(p) : l.on = AuditLock
    BY <1>9 DEF Lock
  <2>3. \A l \in Granted(p) : MayHold(u, l)
    BY <1>3, <2>2 DEF Moved, MayHold
  <2> QED BY <2>1, <2>3
<1>12. u.pc # "idle" /\ u.op = t.op /\ u.new = t.new /\ t.pc # "idle"
  BY <1>1, <1>3 DEF Moved
<1> QED BY <1>1, <1>2, <1>3, <1>4, <1>5, <1>6, <1>7, <1>8, <1>10, <1>11, <1>12, StatementKeeps

LEMMA LockOneKeeps ==
  ASSUME IInv, NEW p \in Proc, LockOne(p)
  PROVE  IInv'
<1> SUFFICES ASSUME NEW t, t = tx[p], NEW w, w = pend[p] PROVE IInv'
  OBVIOUS
<1>1. /\ Statement(p, "lockOne") /\ t.pc = "lockOne"
      /\ tx' = [tx EXCEPT ![p] = [t EXCEPT !.pc = "recompute"]]
      /\ pend' = [pend EXCEPT ![p] = w]
  BY DEF LockOne, Goto, Statement, IInv, Typed
<1>2. /\ t \in Job /\ w \in Writing /\ t.op = "recompute"
      /\ Placed(t) /\ NewSet(t) /\ Read(t, entry) /\ ToLock(t, entry)
      /\ Written(t, w, entry) /\ DOMAIN w.balance = Published(t, entry)
      /\ Holds(p, t, locks, entry)
  BY <1>1, AtWork, OpsAt
<1>3. PICK u \in Job : tx' = [tx EXCEPT ![p] = u] /\ Moved(t, u, "recompute")
  BY <1>1, <1>2, Move DEF Steps
<1>4. Placed(u)
  BY <1>1, <1>2, <1>3 DEF Moved, Placed, StepsOf, Posts
<1>5. NewSet(u)
  BY <1>1, <1>2, <1>3 DEF Moved, NewSet, Posts, Inserts
<1>6. Read(u, entry) /\ ToLock(u, entry)
  BY <1>1, <1>2, <1>3 DEF Moved, Read, ToLock, Posts, Edits
<1>7. Written(u, w, entry)
  <2>1. SameStage(t, u)
    BY <1>1, <1>2, <1>3 DEF Moved, SameStage, Touched, Flipped, Posts, Edits
  <2> QED BY <1>2, <2>1, WrittenStays
<1>8. DOMAIN w.balance = Published(u, entry)
  BY <1>1, <1>2, <1>3 DEF Moved, Published, Folding, Folded, Posts
<1>9. /\ locks \subseteq locks' /\ Granted(p) \subseteq locks'
      /\ Granted(p) = {Lock(p, <<"account", t.acct>>, "UPDATE")}
  BY <1>1, GrantKeeps, GrantedAt
<1>10. Holds(p, u, locks', entry)
  <2>1. Holds(p, t, locks', entry)
    BY <1>2, <1>9, HoldsMore
  <2> QED BY <1>1, <1>2, <1>3, <1>9, <2>1 DEF Moved, Holds, Has, Lock, Folding, Folded, Posts, Edits
<1>11. u.op # "post"
  BY <1>2, <1>3 DEF Moved
<1>12. u.pc # "idle" /\ u.op = t.op /\ u.new = t.new /\ t.pc # "idle"
  BY <1>1, <1>3 DEF Moved
<1> QED BY <1>1, <1>2, <1>3, <1>4, <1>5, <1>6, <1>7, <1>8, <1>10, <1>11, <1>12, StatementKeeps

LEMMA AuditRecomputeKeeps ==
  ASSUME IInv, NEW p \in Proc, AuditRecompute(p)
  PROVE  IInv'
<1> SUFFICES ASSUME NEW t, t = tx[p], NEW w, w = pend[p] PROVE IInv'
  OBVIOUS
<1>1. /\ Statement(p, "audRecompute") /\ t.pc = "audRecompute"
      /\ tx' = [tx EXCEPT ![p] = [t EXCEPT !.pc = "commit"]]
      /\ pend' = [pend EXCEPT ![p] = w]
  BY DEF AuditRecompute, Goto, Statement, IInv, Typed
<1>2. /\ t \in Job /\ w \in Writing /\ t.op = "recompute"
      /\ Placed(t) /\ NewSet(t) /\ Read(t, entry) /\ ToLock(t, entry)
      /\ Written(t, w, entry) /\ DOMAIN w.balance = Published(t, entry)
      /\ Holds(p, t, locks, entry)
  BY <1>1, AtWork, OpsAt
<1>3. PICK u \in Job : tx' = [tx EXCEPT ![p] = u] /\ Moved(t, u, "commit")
  BY <1>1, <1>2, Move DEF Steps
<1>4. Placed(u)
  BY <1>1, <1>2, <1>3 DEF Moved, Placed, StepsOf, Posts
<1>5. NewSet(u)
  BY <1>1, <1>2, <1>3 DEF Moved, NewSet, Posts, Inserts
<1>6. Read(u, entry) /\ ToLock(u, entry)
  BY <1>1, <1>2, <1>3 DEF Moved, Read, ToLock, Posts, Edits
<1>7. Written(u, w, entry)
  <2>1. SameStage(t, u)
    BY <1>1, <1>2, <1>3 DEF Moved, SameStage, Touched, Flipped, Posts, Edits
  <2> QED BY <1>2, <2>1, WrittenStays
<1>8. DOMAIN w.balance = Published(u, entry)
  BY <1>1, <1>2, <1>3 DEF Moved, Published, Folding, Folded, Posts
<1>9. /\ locks \subseteq locks' /\ Granted(p) \subseteq locks'
      /\ Granted(p) = {Lock(p, AuditLock, "UPDATE")}
  BY <1>1, GrantKeeps, GrantedAt
<1>10. Holds(p, u, locks', entry)
  <2>1. Holds(p, t, locks', entry)
    BY <1>2, <1>9, HoldsMore
  <2> QED BY <1>1, <1>2, <1>3, <1>9, <2>1 DEF Moved, Holds, Has, Lock, Folding, Folded, Posts, Edits
<1>11. u.op # "post"
  BY <1>2, <1>3 DEF Moved
<1>12. u.pc # "idle" /\ u.op = t.op /\ u.new = t.new /\ t.pc # "idle"
  BY <1>1, <1>3 DEF Moved
<1> QED BY <1>1, <1>2, <1>3, <1>4, <1>5, <1>6, <1>7, <1>8, <1>10, <1>11, <1>12, StatementKeeps

LEMMA InsertChildKeeps ==
  ASSUME IInv, NEW p \in Proc, InsertChild(p)
  PROVE  IInv'
<1> SUFFICES ASSUME NEW t, t = tx[p], NEW w, w = pend[p] PROVE IInv'
  OBVIOUS
<1>1. /\ Statement(p, "insAccount") /\ t.pc = "insAccount"
      /\ tx' = [tx EXCEPT ![p] = [t EXCEPT !.pc = "audAccount"]]
      /\ pend' = [pend EXCEPT ![p] = w]
  BY DEF InsertChild, Goto, Statement, IInv, Typed
<1>2. /\ t \in Job /\ w \in Writing /\ t.op = "child"
      /\ Placed(t) /\ NewSet(t) /\ Read(t, entry) /\ ToLock(t, entry)
      /\ Written(t, w, entry) /\ DOMAIN w.balance = Published(t, entry)
      /\ Holds(p, t, locks, entry)
  BY <1>1, AtWork, OpsAt
<1>3. PICK u \in Job : tx' = [tx EXCEPT ![p] = u] /\ Moved(t, u, "audAccount")
  BY <1>1, <1>2, Move DEF Steps
<1>4. Placed(u)
  BY <1>1, <1>2, <1>3 DEF Moved, Placed, StepsOf, Posts
<1>5. NewSet(u)
  BY <1>1, <1>2, <1>3 DEF Moved, NewSet, Posts, Inserts
<1>6. Read(u, entry) /\ ToLock(u, entry)
  BY <1>1, <1>2, <1>3 DEF Moved, Read, ToLock, Posts, Edits
<1>7. Written(u, w, entry)
  <2>1. SameStage(t, u)
    BY <1>1, <1>2, <1>3 DEF Moved, SameStage, Touched, Flipped, Posts, Edits
  <2> QED BY <1>2, <2>1, WrittenStays
<1>8. DOMAIN w.balance = Published(u, entry)
  BY <1>1, <1>2, <1>3 DEF Moved, Published, Folding, Folded, Posts
<1>9. /\ locks \subseteq locks' /\ Granted(p) \subseteq locks'
      
  BY <1>1, GrantKeeps, GrantedAt
<1>10. Holds(p, u, locks', entry)
  <2>1. Holds(p, t, locks', entry)
    BY <1>2, <1>9, HoldsMore
  <2> QED BY <1>1, <1>2, <1>3, <1>9, <2>1 DEF Moved, Holds, Has, Lock, Folding, Folded, Posts, Edits
<1>11. u.op # "post"
  BY <1>2, <1>3 DEF Moved
<1>12. u.pc # "idle" /\ u.op = t.op /\ u.new = t.new /\ t.pc # "idle"
  BY <1>1, <1>3 DEF Moved
<1> QED BY <1>1, <1>2, <1>3, <1>4, <1>5, <1>6, <1>7, <1>8, <1>10, <1>11, <1>12, StatementKeeps

LEMMA AuditChildKeeps ==
  ASSUME IInv, NEW p \in Proc, AuditChild(p)
  PROVE  IInv'
<1> SUFFICES ASSUME NEW t, t = tx[p], NEW w, w = pend[p] PROVE IInv'
  OBVIOUS
<1>1. /\ Statement(p, "audAccount") /\ t.pc = "audAccount"
      /\ tx' = [tx EXCEPT ![p] = [t EXCEPT !.pc = "control"]]
      /\ pend' = [pend EXCEPT ![p] = w]
  BY DEF AuditChild, Goto, Statement, IInv, Typed
<1>2. /\ t \in Job /\ w \in Writing /\ t.op = "child"
      /\ Placed(t) /\ NewSet(t) /\ Read(t, entry) /\ ToLock(t, entry)
      /\ Written(t, w, entry) /\ DOMAIN w.balance = Published(t, entry)
      /\ Holds(p, t, locks, entry)
  BY <1>1, AtWork, OpsAt
<1>3. PICK u \in Job : tx' = [tx EXCEPT ![p] = u] /\ Moved(t, u, "control")
  BY <1>1, <1>2, Move DEF Steps
<1>4. Placed(u)
  BY <1>1, <1>2, <1>3 DEF Moved, Placed, StepsOf, Posts
<1>5. NewSet(u)
  BY <1>1, <1>2, <1>3 DEF Moved, NewSet, Posts, Inserts
<1>6. Read(u, entry) /\ ToLock(u, entry)
  BY <1>1, <1>2, <1>3 DEF Moved, Read, ToLock, Posts, Edits
<1>7. Written(u, w, entry)
  <2>1. SameStage(t, u)
    BY <1>1, <1>2, <1>3 DEF Moved, SameStage, Touched, Flipped, Posts, Edits
  <2> QED BY <1>2, <2>1, WrittenStays
<1>8. DOMAIN w.balance = Published(u, entry)
  BY <1>1, <1>2, <1>3 DEF Moved, Published, Folding, Folded, Posts
<1>9. /\ locks \subseteq locks' /\ Granted(p) \subseteq locks'
      /\ Granted(p) = {Lock(p, AuditLock, "UPDATE")}
  BY <1>1, GrantKeeps, GrantedAt
<1>10. Holds(p, u, locks', entry)
  <2>1. Holds(p, t, locks', entry)
    BY <1>2, <1>9, HoldsMore
  <2> QED BY <1>1, <1>2, <1>3, <1>9, <2>1 DEF Moved, Holds, Has, Lock, Folding, Folded, Posts, Edits
<1>11. u.op # "post"
  BY <1>2, <1>3 DEF Moved
<1>12. u.pc # "idle" /\ u.op = t.op /\ u.new = t.new /\ t.pc # "idle"
  BY <1>1, <1>3 DEF Moved
<1> QED BY <1>1, <1>2, <1>3, <1>4, <1>5, <1>6, <1>7, <1>8, <1>10, <1>11, <1>12, StatementKeeps

LEMMA LockPeriodKeeps ==
  ASSUME IInv, NEW p \in Proc, LockPeriod(p)
  PROVE  IInv'
<1> SUFFICES ASSUME NEW t, t = tx[p], NEW w, w = pend[p] PROVE IInv'
  OBVIOUS
<1>1. /\ Statement(p, "lockPeriod") /\ t.pc = "lockPeriod"
      /\ tx' = [tx EXCEPT ![p] = [t EXCEPT !.pc = "count"]]
      /\ pend' = [pend EXCEPT ![p] = w]
  BY DEF LockPeriod, Goto, Statement, IInv, Typed
<1>2. /\ t \in Job /\ w \in Writing /\ t.op = "close"
      /\ Placed(t) /\ NewSet(t) /\ Read(t, entry) /\ ToLock(t, entry)
      /\ Written(t, w, entry) /\ DOMAIN w.balance = Published(t, entry)
      /\ Holds(p, t, locks, entry)
  BY <1>1, AtWork, OpsAt
<1>3. PICK u \in Job : tx' = [tx EXCEPT ![p] = u] /\ Moved(t, u, "count")
  BY <1>1, <1>2, Move DEF Steps
<1>4. Placed(u)
  BY <1>1, <1>2, <1>3 DEF Moved, Placed, StepsOf, Posts
<1>5. NewSet(u)
  BY <1>1, <1>2, <1>3 DEF Moved, NewSet, Posts, Inserts
<1>6. Read(u, entry) /\ ToLock(u, entry)
  BY <1>1, <1>2, <1>3 DEF Moved, Read, ToLock, Posts, Edits
<1>7. Written(u, w, entry)
  <2>1. SameStage(t, u)
    BY <1>1, <1>2, <1>3 DEF Moved, SameStage, Touched, Flipped, Posts, Edits
  <2> QED BY <1>2, <2>1, WrittenStays
<1>8. DOMAIN w.balance = Published(u, entry)
  BY <1>1, <1>2, <1>3 DEF Moved, Published, Folding, Folded, Posts
<1>9. /\ locks \subseteq locks' /\ Granted(p) \subseteq locks'
      
  BY <1>1, GrantKeeps, GrantedAt
<1>10. Holds(p, u, locks', entry)
  <2>1. Holds(p, t, locks', entry)
    BY <1>2, <1>9, HoldsMore
  <2> QED BY <1>1, <1>2, <1>3, <1>9, <2>1 DEF Moved, Holds, Has, Lock, Folding, Folded, Posts, Edits
<1>11. u.op # "post"
  BY <1>2, <1>3 DEF Moved
<1>12. u.pc # "idle" /\ u.op = t.op /\ u.new = t.new /\ t.pc # "idle"
  BY <1>1, <1>3 DEF Moved
<1> QED BY <1>1, <1>2, <1>3, <1>4, <1>5, <1>6, <1>7, <1>8, <1>10, <1>11, <1>12, StatementKeeps

LEMMA CountDraftsKeeps ==
  ASSUME IInv, NEW p \in Proc, CountDrafts(p)
  PROVE  IInv'
<1> SUFFICES ASSUME NEW t, t = tx[p], NEW w, w = pend[p] PROVE IInv'
  OBVIOUS
<1>1. /\ Statement(p, "count") /\ t.pc = "count"
      /\ tx' = [tx EXCEPT ![p] = [t EXCEPT !.pc = "net"]]
      /\ pend' = [pend EXCEPT ![p] = w]
  BY DEF CountDrafts, Goto, Statement, IInv, Typed
<1>2. /\ t \in Job /\ w \in Writing /\ t.op = "close"
      /\ Placed(t) /\ NewSet(t) /\ Read(t, entry) /\ ToLock(t, entry)
      /\ Written(t, w, entry) /\ DOMAIN w.balance = Published(t, entry)
      /\ Holds(p, t, locks, entry)
  BY <1>1, AtWork, OpsAt
<1>3. PICK u \in Job : tx' = [tx EXCEPT ![p] = u] /\ Moved(t, u, "net")
  BY <1>1, <1>2, Move DEF Steps
<1>4. Placed(u)
  BY <1>1, <1>2, <1>3 DEF Moved, Placed, StepsOf, Posts
<1>5. NewSet(u)
  BY <1>1, <1>2, <1>3 DEF Moved, NewSet, Posts, Inserts
<1>6. Read(u, entry) /\ ToLock(u, entry)
  BY <1>1, <1>2, <1>3 DEF Moved, Read, ToLock, Posts, Edits
<1>7. Written(u, w, entry)
  <2>1. SameStage(t, u)
    BY <1>1, <1>2, <1>3 DEF Moved, SameStage, Touched, Flipped, Posts, Edits
  <2> QED BY <1>2, <2>1, WrittenStays
<1>8. DOMAIN w.balance = Published(u, entry)
  BY <1>1, <1>2, <1>3 DEF Moved, Published, Folding, Folded, Posts
<1>9. /\ locks \subseteq locks' /\ Granted(p) \subseteq locks'
      
  BY <1>1, GrantKeeps, GrantedAt
<1>10. Holds(p, u, locks', entry)
  <2>1. Holds(p, t, locks', entry)
    BY <1>2, <1>9, HoldsMore
  <2> QED BY <1>1, <1>2, <1>3, <1>9, <2>1 DEF Moved, Holds, Has, Lock, Folding, Folded, Posts, Edits
<1>11. u.op # "post"
  BY <1>2, <1>3 DEF Moved
<1>12. u.pc # "idle" /\ u.op = t.op /\ u.new = t.new /\ t.pc # "idle"
  BY <1>1, <1>3 DEF Moved
<1> QED BY <1>1, <1>2, <1>3, <1>4, <1>5, <1>6, <1>7, <1>8, <1>10, <1>11, <1>12, StatementKeeps

-----------------------------------------------------------------------------
(* Requests, and the statements that ask for no lock.                      *)

\* A request starts on an idle connection, which holds no lock.
LEMMA BeginKeeps ==
  ASSUME IInv, NEW p \in Proc, NEW u \in Job, Begin(p, u),
         u.pc # "idle", Placed(u), NewSet(u), Read(u, entry), ToLock(u, entry),
         u.new = None, ~Touched(u), Published(u, entry) = {}, Holds(p, u, locks, entry)
  PROVE  IInv'
<1>1. /\ tx[p].pc = "idle" /\ pend[p] = NoWrites /\ tx' = [tx EXCEPT ![p] = u]
      /\ UNCHANGED <<tables, pend, locks>>
  BY JobTypes DEF Begin, IInv, Conns, Conn, tables
<1>2. \A l \in locks : l.proc # p
  BY <1>1 DEF IInv, LocksOK, MayHold
<1>3. Written(u, NoWrites, entry) /\ DOMAIN NoWrites.balance = {}
  BY DEF Written, NoWrites
<1>4. Conn(p, u, NoWrites, locks', entry)
  BY <1>1, <1>3 DEF Conn
<1>5. pend' = [pend EXCEPT ![p] = NoWrites]
  BY <1>1 DEF IInv, Typed
<1>6. Exclusive' /\ UNCHANGED tables
  BY <1>1 DEF IInv, Exclusive
<1>7. /\ \A l : l.proc # p => (l \in locks' <=> l \in locks)
      /\ \A l \in locks' : l.proc = p => MayHold(u, l)
  BY <1>1, <1>2
<1> QED BY <1>1, <1>4, <1>5, <1>6, <1>7, JobTypes, Frame

\* The first statement of each operation.
Start == {<<"create", "insHeader">>, <<"transfer", "insHeader">>, <<"post", "lockEntry">>,
          <<"reverse", "lockEntry">>, <<"update", "assertDraft">>, <<"delete", "assertDraft">>,
          <<"restore", "updHeader">>, <<"child", "insAccount">>, <<"recompute", "lockOne">>,
          <<"close", "tryClose">>}

LEMMA StartKeeps ==
  ASSUME IInv, NEW p \in Proc, NEW u \in Job, Begin(p, u), Placed(u),
         <<u.op, u.pc>> \in Start, u.new = None, u.todo = {},
         u.op \in {"post", "reverse"} \cup Edits => u.id \in DOMAIN entry
  PROVE  IInv'
<1>1. u.pc # "idle" /\ u.pc \notin {"insLine", "audUpdate", "lockAccount", "commit"}
  BY DEF Start
<1>2. NewSet(u) /\ ~Touched(u) /\ ~Folding(u)
  BY DEF Start, NewSet, Touched, Folding, Inserts, Edits, Posts
<1>3. Read(u, entry) /\ ToLock(u, entry)
  BY DEF Start, Read, ToLock
<1>4. Published(u, entry) = {} /\ Holds(p, u, locks, entry)
  BY <1>2 DEF Start, Published, Holds, Edits
<1> QED BY <1>1, <1>2, <1>3, <1>4, BeginKeeps

LEMMA RequestKeeps ==
  ASSUME IInv, NEW p \in Proc, Request(p)
  PROVE  IInv'
<1>1. /\ Dto \subseteq Seq(LineDto) /\ \A ls \in Dto : Len(ls) >= 2
      /\ DOMAIN entry \subseteq Entry
  BY DtoAssumption DEF DtoAssumption, IInv, Books, Serial!TypeOK
<1>2. CASE RequestCreate(p)
  <2>1. PICK op \in {"create", "transfer"} \cap Ops, d \in Date, ls \in Dto :
          /\ AssertBalanced(ls) /\ (op = "transfer" => TransferLegs(ls))
          /\ Begin(p, [Idle EXCEPT !.pc = "insHeader", !.op = op, !.date = d, !.lines = ls])
    BY <1>2 DEF RequestCreate
  <2> DEFINE v == [Idle EXCEPT !.pc = "insHeader", !.op = op, !.date = d, !.lines = ls]
  <2>2. v.new = None /\ v.todo = {} /\ v.pc = "insHeader" /\ v.op = op /\ v.date = d /\ v.lines = ls
    BY JobTypes DEF Job
  <2>3. v \in Job
    <3>1. "insHeader" \in Steps /\ op \in Serial!OpNames
      BY <2>1 DEF Steps, Serial!OpNames
    <3> QED BY <1>1, <2>1, <3>1, JobTypes DEF Job
  <2> HIDE DEF v
  <2>4. Placed(v)
    BY <1>1, <2>1, <2>2 DEF Placed, StepsOf, Edits, Serial!OpNames
  <2>5. <<v.op, v.pc>> \in Start
    BY <2>1, <2>2 DEF Start
  <2>6. v.op \in {"post", "reverse"} \cup Edits => v.id \in DOMAIN entry
    BY <2>1, <2>2 DEF Edits
  <2>7. Begin(p, v)
    BY <2>1 DEF v
  <2> QED BY <2>2, <2>3, <2>4, <2>5, <2>6, <2>7, StartKeeps
<1>3. CASE RequestPost(p)
  <2>1. PICK e \in DOMAIN entry :
          /\ "post" \in Ops
          /\ Begin(p, [Idle EXCEPT !.pc = "lockEntry", !.op = "post", !.id = e])
    BY <1>3 DEF RequestPost
  <2> DEFINE v == [Idle EXCEPT !.pc = "lockEntry", !.op = "post", !.id = e]
  <2>2. v.new = None /\ v.todo = {} /\ v.pc = "lockEntry" /\ v.op = "post" /\ v.id = e
    BY JobTypes DEF Job
  <2>3. v \in Job
    <3>1. "lockEntry" \in Steps /\ "post" \in Serial!OpNames
      BY <2>1 DEF Steps, Serial!OpNames
    <3> QED BY <1>1, <2>1, <3>1, JobTypes DEF Job
  <2> HIDE DEF v
  <2>4. Placed(v)
    BY <1>1, <2>1, <2>2 DEF Placed, StepsOf, Edits, Serial!OpNames
  <2>5. <<v.op, v.pc>> \in Start
    BY <2>1, <2>2 DEF Start
  <2>6. v.op \in {"post", "reverse"} \cup Edits => v.id \in DOMAIN entry
    BY <2>1, <2>2 DEF Edits
  <2>7. Begin(p, v)
    BY <2>1 DEF v
  <2> QED BY <2>2, <2>3, <2>4, <2>5, <2>6, <2>7, StartKeeps
<1>4. CASE RequestReverse(p)
  <2>1. PICK e \in DOMAIN entry, d \in Date :
          /\ "reverse" \in Ops
          /\ Begin(p, [Idle EXCEPT !.pc = "lockEntry", !.op = "reverse", !.id = e, !.date = d])
    BY <1>4 DEF RequestReverse
  <2> DEFINE v == [Idle EXCEPT !.pc = "lockEntry", !.op = "reverse", !.id = e, !.date = d]
  <2>2. v.new = None /\ v.todo = {} /\ v.pc = "lockEntry" /\ v.op = "reverse" /\ v.id = e /\ v.date = d
    BY JobTypes DEF Job
  <2>3. v \in Job
    <3>1. "lockEntry" \in Steps /\ "reverse" \in Serial!OpNames
      BY <2>1 DEF Steps, Serial!OpNames
    <3> QED BY <1>1, <2>1, <3>1, JobTypes DEF Job
  <2> HIDE DEF v
  <2>4. Placed(v)
    BY <1>1, <2>1, <2>2 DEF Placed, StepsOf, Edits, Serial!OpNames
  <2>5. <<v.op, v.pc>> \in Start
    BY <2>1, <2>2 DEF Start
  <2>6. v.op \in {"post", "reverse"} \cup Edits => v.id \in DOMAIN entry
    BY <2>1, <2>2 DEF Edits
  <2>7. Begin(p, v)
    BY <2>1 DEF v
  <2> QED BY <2>2, <2>3, <2>4, <2>5, <2>6, <2>7, StartKeeps
<1>5. CASE RequestUpdate(p)
  <2>1. PICK e \in DOMAIN entry, d \in Date, ls \in Dto :
          /\ "update" \in Ops
          /\ Begin(p, [Idle EXCEPT !.pc = "assertDraft", !.op = "update", !.id = e,
                               !.date = d, !.lines = ls])
    BY <1>5 DEF RequestUpdate
  <2> DEFINE v == [Idle EXCEPT !.pc = "assertDraft", !.op = "update", !.id = e,
                               !.date = d, !.lines = ls]
  <2>2. v.new = None /\ v.todo = {} /\ v.pc = "assertDraft" /\ v.op = "update" /\ v.id = e /\ v.date = d /\ v.lines = ls
    BY JobTypes DEF Job
  <2>3. v \in Job
    <3>1. "assertDraft" \in Steps /\ "update" \in Serial!OpNames
      BY <2>1 DEF Steps, Serial!OpNames
    <3> QED BY <1>1, <2>1, <3>1, JobTypes DEF Job
  <2> HIDE DEF v
  <2>4. Placed(v)
    BY <1>1, <2>1, <2>2 DEF Placed, StepsOf, Edits, Serial!OpNames
  <2>5. <<v.op, v.pc>> \in Start
    BY <2>1, <2>2 DEF Start
  <2>6. v.op \in {"post", "reverse"} \cup Edits => v.id \in DOMAIN entry
    BY <2>1, <2>2 DEF Edits
  <2>7. Begin(p, v)
    BY <2>1 DEF v
  <2> QED BY <2>2, <2>3, <2>4, <2>5, <2>6, <2>7, StartKeeps
<1>6. CASE RequestDelete(p)
  <2>1. PICK e \in DOMAIN entry :
          /\ "delete" \in Ops
          /\ Begin(p, [Idle EXCEPT !.pc = "assertDraft", !.op = "delete", !.id = e])
    BY <1>6 DEF RequestDelete
  <2> DEFINE v == [Idle EXCEPT !.pc = "assertDraft", !.op = "delete", !.id = e]
  <2>2. v.new = None /\ v.todo = {} /\ v.pc = "assertDraft" /\ v.op = "delete" /\ v.id = e
    BY JobTypes DEF Job
  <2>3. v \in Job
    <3>1. "assertDraft" \in Steps /\ "delete" \in Serial!OpNames
      BY <2>1 DEF Steps, Serial!OpNames
    <3> QED BY <1>1, <2>1, <3>1, JobTypes DEF Job
  <2> HIDE DEF v
  <2>4. Placed(v)
    BY <1>1, <2>1, <2>2 DEF Placed, StepsOf, Edits, Serial!OpNames
  <2>5. <<v.op, v.pc>> \in Start
    BY <2>1, <2>2 DEF Start
  <2>6. v.op \in {"post", "reverse"} \cup Edits => v.id \in DOMAIN entry
    BY <2>1, <2>2 DEF Edits
  <2>7. Begin(p, v)
    BY <2>1 DEF v
  <2> QED BY <2>2, <2>3, <2>4, <2>5, <2>6, <2>7, StartKeeps
<1>7. CASE RequestRestore(p)
  <2>1. PICK e \in DOMAIN entry :
          /\ "restore" \in Ops
          /\ Begin(p, [Idle EXCEPT !.pc = "updHeader", !.op = "restore", !.id = e])
    BY <1>7 DEF RequestRestore
  <2> DEFINE v == [Idle EXCEPT !.pc = "updHeader", !.op = "restore", !.id = e]
  <2>2. v.new = None /\ v.todo = {} /\ v.pc = "updHeader" /\ v.op = "restore" /\ v.id = e
    BY JobTypes DEF Job
  <2>3. v \in Job
    <3>1. "updHeader" \in Steps /\ "restore" \in Serial!OpNames
      BY <2>1 DEF Steps, Serial!OpNames
    <3> QED BY <1>1, <2>1, <3>1, JobTypes DEF Job
  <2> HIDE DEF v
  <2>4. Placed(v)
    BY <1>1, <2>1, <2>2 DEF Placed, StepsOf, Edits, Serial!OpNames
  <2>5. <<v.op, v.pc>> \in Start
    BY <2>1, <2>2 DEF Start
  <2>6. v.op \in {"post", "reverse"} \cup Edits => v.id \in DOMAIN entry
    BY <2>1, <2>2 DEF Edits
  <2>7. Begin(p, v)
    BY <2>1 DEF v
  <2> QED BY <2>2, <2>3, <2>4, <2>5, <2>6, <2>7, StartKeeps
<1>8. CASE RequestChild(p)
  <2>1. PICK a \in Account :
          /\ "child" \in Ops
          /\ Begin(p, [Idle EXCEPT !.pc = "insAccount", !.op = "child", !.acct = a])
    BY <1>8 DEF RequestChild
  <2> DEFINE v == [Idle EXCEPT !.pc = "insAccount", !.op = "child", !.acct = a]
  <2>2. v.new = None /\ v.todo = {} /\ v.pc = "insAccount" /\ v.op = "child" /\ v.acct = a
    BY JobTypes DEF Job
  <2>3. v \in Job
    <3>1. "insAccount" \in Steps /\ "child" \in Serial!OpNames
      BY <2>1 DEF Steps, Serial!OpNames
    <3> QED BY <1>1, <2>1, <3>1, JobTypes DEF Job
  <2> HIDE DEF v
  <2>4. Placed(v)
    BY <1>1, <2>1, <2>2 DEF Placed, StepsOf, Edits, Serial!OpNames
  <2>5. <<v.op, v.pc>> \in Start
    BY <2>1, <2>2 DEF Start
  <2>6. v.op \in {"post", "reverse"} \cup Edits => v.id \in DOMAIN entry
    BY <2>1, <2>2 DEF Edits
  <2>7. Begin(p, v)
    BY <2>1 DEF v
  <2> QED BY <2>2, <2>3, <2>4, <2>5, <2>6, <2>7, StartKeeps
<1>9. CASE RequestRecompute(p)
  <2>1. PICK a \in Account :
          /\ "recompute" \in Ops
          /\ Begin(p, [Idle EXCEPT !.pc = "lockOne", !.op = "recompute", !.acct = a])
    BY <1>9 DEF RequestRecompute
  <2> DEFINE v == [Idle EXCEPT !.pc = "lockOne", !.op = "recompute", !.acct = a]
  <2>2. v.new = None /\ v.todo = {} /\ v.pc = "lockOne" /\ v.op = "recompute" /\ v.acct = a
    BY JobTypes DEF Job
  <2>3. v \in Job
    <3>1. "lockOne" \in Steps /\ "recompute" \in Serial!OpNames
      BY <2>1 DEF Steps, Serial!OpNames
    <3> QED BY <1>1, <2>1, <3>1, JobTypes DEF Job
  <2> HIDE DEF v
  <2>4. Placed(v)
    BY <1>1, <2>1, <2>2 DEF Placed, StepsOf, Edits, Serial!OpNames
  <2>5. <<v.op, v.pc>> \in Start
    BY <2>1, <2>2 DEF Start
  <2>6. v.op \in {"post", "reverse"} \cup Edits => v.id \in DOMAIN entry
    BY <2>1, <2>2 DEF Edits
  <2>7. Begin(p, v)
    BY <2>1 DEF v
  <2> QED BY <2>2, <2>3, <2>4, <2>5, <2>6, <2>7, StartKeeps
<1>10. CASE RequestClose(p)
  <2>1. PICK q \in Period :
          /\ "close" \in Ops
          /\ Begin(p, [Idle EXCEPT !.pc = "tryClose", !.op = "close", !.per = q])
    BY <1>10 DEF RequestClose
  <2> DEFINE v == [Idle EXCEPT !.pc = "tryClose", !.op = "close", !.per = q]
  <2>2. v.new = None /\ v.todo = {} /\ v.pc = "tryClose" /\ v.op = "close" /\ v.per = q
    BY JobTypes DEF Job
  <2>3. v \in Job
    <3>1. "tryClose" \in Steps /\ "close" \in Serial!OpNames
      BY <2>1 DEF Steps, Serial!OpNames
    <3> QED BY <1>1, <2>1, <3>1, JobTypes DEF Job
  <2> HIDE DEF v
  <2>4. Placed(v)
    BY <1>1, <2>1, <2>2 DEF Placed, StepsOf, Edits, Serial!OpNames
  <2>5. <<v.op, v.pc>> \in Start
    BY <2>1, <2>2 DEF Start
  <2>6. v.op \in {"post", "reverse"} \cup Edits => v.id \in DOMAIN entry
    BY <2>1, <2>2 DEF Edits
  <2>7. Begin(p, v)
    BY <2>1 DEF v
  <2> QED BY <2>2, <2>3, <2>4, <2>5, <2>6, <2>7, StartKeeps
<1> QED BY <1>2, <1>3, <1>4, <1>5, <1>6, <1>7, <1>8, <1>9, <1>10 DEF Request

-----------------------------------------------------------------------------
(* What a transaction sees and writes.                                     *)

\* The tables have the types of Ledger, whose rows are those of Bookkeeping.
LEMMA TablesTyped ==
  ASSUME Books
  PROVE  /\ DOMAIN entry \subseteq Entry /\ IsFiniteSet(DOMAIN entry)
         /\ entry \in [DOMAIN entry -> Row] /\ balance \in [Account -> Int]
         /\ postable \in [Account -> BOOLEAN] /\ period \in [Period -> PeriodStatus]
<1>1. Serial!Row = Row
  BY DEF Serial!Row, Row, Serial!JournalStatus, JournalStatus, Serial!Line, Line,
         Serial!LineDto, LineDto, Serial!OneSided, OneSided
<1>2. Serial!PeriodStatus = PeriodStatus
  BY DEF Serial!PeriodStatus, PeriodStatus
<1> QED BY <1>1, <1>2 DEF Books, Serial!TypeOK

\* The row a transaction works on.
LEMMA RowSeen ==
  ASSUME IInv, NEW p \in Proc, tx[p].pc # "idle"
  PROVE  /\ tx[p].new # None =>
              /\ Target(p) = tx[p].new /\ MyRow(p) = pend[p].entry[tx[p].new]
              /\ MyRow(p) \in Row
         /\ tx[p].new = None => Target(p) = tx[p].id
         /\ tx[p].new = None /\ Touched(tx[p]) =>
              MyRow(p) = pend[p].entry[tx[p].id] /\ MyRow(p) \in Row
         /\ tx[p].new = None /\ ~Touched(tx[p]) /\ tx[p].id \in DOMAIN entry =>
              MyRow(p) = entry[tx[p].id] /\ MyRow(p) \in Row
         /\ tx[p].op = "reverse" /\ ~Touched(tx[p]) => Seen(p)[tx[p].id] = entry[tx[p].id]
<1> SUFFICES ASSUME NEW t, t = tx[p], NEW w, w = pend[p]
             PROVE  /\ t.new # None =>
                         /\ Target(p) = t.new /\ MyRow(p) = w.entry[t.new] /\ MyRow(p) \in Row
                    /\ t.new = None => Target(p) = t.id
                    /\ t.new = None /\ Touched(t) =>
                         MyRow(p) = w.entry[t.id] /\ MyRow(p) \in Row
                    /\ t.new = None /\ ~Touched(t) /\ t.id \in DOMAIN entry =>
                         MyRow(p) = entry[t.id] /\ MyRow(p) \in Row
                    /\ t.op = "reverse" /\ ~Touched(t) => Seen(p)[t.id] = entry[t.id]
  OBVIOUS
<1>1. /\ Written(t, w, entry) /\ w \in Writing /\ Read(t, entry)
      /\ entry \in [DOMAIN entry -> Row]
      /\ t.new # None => t.new \notin DOMAIN entry
  <2>1. Written(t, w, entry) /\ w \in Writing /\ Read(t, entry)
    BY AtWork
  <2>2. entry \in [DOMAIN entry -> Row]
    BY TablesTyped DEF IInv
  <2>3. t.new # None => t.new \notin DOMAIN entry
    BY DEF IInv, NewApart
  <2> QED BY <2>1, <2>2, <2>3
<1>2. \A x \in DOMAIN w.entry : w.entry[x] \in Row
  BY <1>1 DEF Writing, Tables
<1>3. DOMAIN w.entry = (IF t.new = None THEN {} ELSE {t.new})
                          \cup (IF Touched(t) THEN {t.id} ELSE {})
  BY <1>1 DEF Written
<1>4. \A x \in DOMAIN w.entry : Seen(p)[x] = w.entry[x]
  BY DEF Seen, Overlay
<1>5. \A x \in DOMAIN entry \ DOMAIN w.entry : Seen(p)[x] = entry[x]
  BY DEF Seen, Overlay
<1>6. Target(p) = IF t.new # None THEN t.new ELSE t.id
  BY DEF Target
<1>7. MyRow(p) = Seen(p)[Target(p)]
  BY DEF MyRow
<1>8. t.op = "reverse" => t.id \in DOMAIN entry
  BY <1>1 DEF Read
<1> QED BY <1>1, <1>2, <1>3, <1>4, <1>5, <1>6, <1>7, <1>8

\* While it posts, that row has the lines to fold.
LEMMA PostingRow ==
  ASSUME IInv, NEW p \in Proc, tx[p].op \in Posts,
         tx[p].pc \in {"validate", "lockAccount", "fold", "audFold", "flip"}
  PROVE  /\ MyRow(p).lines = Folded(tx[p], entry) /\ Folded(tx[p], entry) \in Seq(Line)
         /\ MyRow(p) \in Row /\ AccountsOf(Folded(tx[p], entry)) \subseteq Account
         /\ tx[p].op = "post" =>
              tx[p].new = None /\ tx[p].id \in DOMAIN entry /\ MyRow(p) = entry[tx[p].id]
         /\ tx[p].op # "post" =>
              /\ tx[p].new \in Entry /\ tx[p].new # None
              /\ MyRow(p) = Inserted(tx[p], tx[p].lines)
<1> SUFFICES ASSUME NEW t, t = tx[p], NEW w, w = pend[p]
             PROVE  /\ MyRow(p).lines = Folded(t, entry) /\ Folded(t, entry) \in Seq(Line)
                    /\ MyRow(p) \in Row /\ AccountsOf(Folded(t, entry)) \subseteq Account
                    /\ t.op = "post" =>
                         t.new = None /\ t.id \in DOMAIN entry /\ MyRow(p) = entry[t.id]
                    /\ t.op # "post" =>
                         /\ t.new \in Entry /\ t.new # None
                         /\ MyRow(p) = Inserted(t, t.lines)
  OBVIOUS
<1>1. /\ Written(t, w, entry) /\ NewSet(t) /\ Read(t, entry) /\ t.pc # "idle"
  BY AtWork
<1>0. \A ls \in Seq(Line) : AccountsOf(ls) \subseteq Account
  BY SeqFacts DEF AccountsOf, Line, LineDto
<1>2. CASE t.op = "post"
  <2>1. t.new = None /\ ~Touched(t) /\ t.id \in DOMAIN entry
    BY <1>1, <1>2 DEF NewSet, Inserts, Touched, Edits, Read
  <2>2. MyRow(p) = entry[t.id] /\ MyRow(p) \in Row
    BY <1>1, <2>1, RowSeen
  <2>3. MyRow(p).lines = Folded(t, entry) /\ MyRow(p).lines \in Seq(Line)
    BY <1>2, <2>2 DEF Folded, Row
  <2> QED BY <1>0, <1>2, <2>1, <2>2, <2>3
<1>3. CASE t.op # "post"
  <2>1. t.new \in Entry /\ t.new # None /\ ~Flipped(t) /\ t.pc # "insLine"
    BY <1>1, <1>3, EntryAssumption DEF NewSet, Inserts, Posts, Flipped, EntryAssumption
  <2>2. MyRow(p) = w.entry[t.new] /\ MyRow(p) \in Row
    BY <1>1, <2>1, RowSeen
  <2>3. w.entry[t.new].lines = t.lines /\ w.entry[t.new] = Inserted(t, t.lines)
    BY <1>1, <2>1 DEF Written, Copied
  <2>4. MyRow(p).lines = Folded(t, entry) /\ MyRow(p).lines \in Seq(Line)
    BY <1>3, <2>2, <2>3 DEF Folded, Row
  <2> QED BY <1>0, <1>3, <2>1, <2>2, <2>3, <2>4
<1> QED BY <1>2, <1>3

\* Writing a row.
LEMMA WriteFacts ==
  ASSUME IInv, NEW p \in Proc, NEW w, w = pend[p], NEW e \in Entry, NEW r \in Row,
         WriteEntry(p, e, r)
  PROVE  \E v \in Writing :
           /\ pend' = [pend EXCEPT ![p] = v] /\ v.entry = Put(w.entry, e, r)
           /\ v.balance = w.balance /\ v.control = w.control /\ v.closed = w.closed
<1> DEFINE f == Put(w.entry, e, r)
           v == [w EXCEPT !.entry = f]
<1>1. w \in Writing
  BY DEF IInv, Typed
<1>2. PICK S \in SUBSET Entry : w.entry \in [S -> Row]
  BY <1>1 DEF Writing, Tables
<1>3. f \in [S \cup {e} -> Row]
  BY <1>2 DEF Put
<1>4. f \in Tables(Entry, Row)
  <2>1. S \cup {e} \in SUBSET Entry
    OBVIOUS
  <2> HIDE DEF f
  <2> QED BY <1>3, <2>1 DEF Tables
<1>5. pend' = [pend EXCEPT ![p] = v]
  BY DEF WriteEntry
<1> HIDE DEF f
<1>6. /\ v \in Writing /\ v.entry = f
      /\ v.balance = w.balance /\ v.control = w.control /\ v.closed = w.closed
  BY <1>1, <1>4 DEF Writing
<1> QED BY <1>5, <1>6 DEF f

\* Statements that ask for no lock.
LEMMA QuietKeeps ==
  ASSUME IInv, NEW p \in Proc, UNCHANGED <<tables, locks>>, tx[p].pc # "idle",
         NEW u \in Job, NEW w \in Writing,
         tx' = [tx EXCEPT ![p] = u], pend' = [pend EXCEPT ![p] = w],
         u.pc # "idle", u.op = tx[p].op, u.op # "post",
         Placed(u), NewSet(u), Read(u, entry), ToLock(u, entry), Written(u, w, entry),
         DOMAIN w.balance = Published(u, entry), Holds(p, u, locks, entry),
         u.new = None \/ u.new = tx[p].new \/ u.new \notin Used
  PROVE  IInv'
<1>1. UNCHANGED tables /\ locks' = locks /\ Exclusive'
  BY DEF tables, IInv, Exclusive
<1>2. /\ \A l : l.proc # p => (l \in locks' <=> l \in locks)
      /\ \A l \in locks' : l.proc = p => MayHold(u, l)
  BY <1>1 DEF MayHold
<1>3. Conn(p, u, w, locks', entry)
  BY <1>1 DEF Conn
<1> QED BY <1>1, <1>2, <1>3, Frame

-----------------------------------------------------------------------------
(* The statements that read, lock and fold.                                *)

LEMMA LinesAreDto == Seq(Line) \subseteq Seq(LineDto)
BY DEF Line

LEMMA AssertDraftKeeps ==
  ASSUME IInv, NEW p \in Proc, AssertDraft(p)
  PROVE  IInv'
<1> SUFFICES ASSUME NEW t, t = tx[p], NEW w, w = pend[p] PROVE IInv'
  OBVIOUS
<1>1. /\ t.pc = "assertDraft"
      /\ tx' = [tx EXCEPT ![p] = [t EXCEPT !.pc = "updHeader"]]
      /\ pend' = [pend EXCEPT ![p] = w]
  BY DEF AssertDraft, Goto, Statement, IInv, Typed
<1>2. /\ t \in Job /\ w \in Writing /\ t.op \in {"update", "delete"}
      /\ Placed(t) /\ NewSet(t) /\ Read(t, entry) /\ ToLock(t, entry)
      /\ Written(t, w, entry) /\ DOMAIN w.balance = Published(t, entry)
      /\ Holds(p, t, locks, entry)
  BY <1>1, AtWork, OpsAt
<1>3. PICK u \in Job : tx' = [tx EXCEPT ![p] = u] /\ Moved(t, u, "updHeader")
  BY <1>1, <1>2, Move DEF Steps
<1>4. Placed(u) /\ NewSet(u)
  BY <1>1, <1>2, <1>3 DEF Moved, Placed, StepsOf, NewSet, Inserts
<1>5. Read(u, entry) /\ ToLock(u, entry)
  BY <1>1, <1>2, <1>3 DEF Moved, Read, ToLock, Edits
<1>6. Written(u, w, entry)
  BY <1>1, <1>2, <1>3 DEF Moved, Written, NewSet, Inserts, Touched, Flipped, Edits
<1>7. DOMAIN w.balance = Published(u, entry)
  BY <1>1, <1>2, <1>3 DEF Moved, Published, Folding, Posts
<1>8. Holds(p, u, locks, entry)
  BY <1>1, <1>2, <1>3 DEF Moved, Holds, Folding, Posts
<1>9. u.pc # "idle" /\ u.op = t.op /\ u.op # "post" /\ u.new = t.new /\ t.pc # "idle"
  BY <1>1, <1>2, <1>3 DEF Moved
<1>10. UNCHANGED <<tables, locks>>
  BY DEF AssertDraft, tables
<1> QED BY <1>1, <1>2, <1>3, <1>4, <1>5, <1>6, <1>7, <1>8, <1>9, <1>10, QuietKeeps

LEMMA TryCloseKeeps ==
  ASSUME IInv, NEW p \in Proc, TryClose(p)
  PROVE  IInv'
<1> SUFFICES ASSUME NEW t, t = tx[p], NEW w, w = pend[p] PROVE IInv'
  OBVIOUS
<1>1. /\ t.pc = "tryClose"
      /\ tx' = [tx EXCEPT ![p] = [t EXCEPT !.pc = "lockPeriod"]]
      /\ pend' = [pend EXCEPT ![p] = w]
  BY DEF TryClose, Goto, Statement, IInv, Typed
<1>2. /\ t \in Job /\ w \in Writing /\ t.op = "close"
      /\ Placed(t) /\ NewSet(t) /\ Read(t, entry) /\ ToLock(t, entry)
      /\ Written(t, w, entry) /\ DOMAIN w.balance = Published(t, entry)
      /\ Holds(p, t, locks, entry)
  BY <1>1, AtWork, OpsAt
<1>3. PICK u \in Job : tx' = [tx EXCEPT ![p] = u] /\ Moved(t, u, "lockPeriod")
  BY <1>1, <1>2, Move DEF Steps
<1>4. Placed(u) /\ NewSet(u)
  BY <1>1, <1>2, <1>3 DEF Moved, Placed, StepsOf, NewSet, Inserts
<1>5. Read(u, entry) /\ ToLock(u, entry)
  BY <1>1, <1>2, <1>3 DEF Moved, Read, ToLock, Edits
<1>6. Written(u, w, entry)
  BY <1>1, <1>2, <1>3 DEF Moved, Written, NewSet, Inserts, Touched, Flipped, Edits
<1>7. DOMAIN w.balance = Published(u, entry)
  BY <1>1, <1>2, <1>3 DEF Moved, Published, Folding, Posts
<1>8. Holds(p, u, locks', entry)
  BY <1>1, <1>2, <1>3 DEF Moved, Holds, Folding, Edits
<1>9. u.pc # "idle" /\ u.op # "post" /\ u.new = t.new
  BY <1>1, <1>2, <1>3 DEF Moved
<1> DEFINE k == [proc |-> p, on |-> CloseLock, mode |-> "UPDATE"]
<1>10. /\ \A l \in locks : l.on # CloseLock
       /\ locks' = locks \cup {k} /\ UNCHANGED tables
  BY DEF TryClose
<1>11. k.proc = p /\ k.on = CloseLock
  OBVIOUS
<1> HIDE DEF k
<1>12. Exclusive'
  BY <1>10, <1>11 DEF IInv, Exclusive
<1>13. /\ \A l : l.proc # p => (l \in locks' <=> l \in locks)
       /\ \A l \in locks' : l.proc = p => MayHold(u, l)
  BY <1>9, <1>10, <1>11 DEF MayHold
<1>14. Conn(p, u, w, locks', entry)
  BY <1>4, <1>5, <1>6, <1>7, <1>8, <1>9 DEF Conn
<1> QED BY <1>1, <1>2, <1>3, <1>9, <1>10, <1>12, <1>13, <1>14, Frame

LEMMA SumNetKeeps ==
  ASSUME IInv, NEW p \in Proc, SumNet(p)
  PROVE  IInv'
<1> SUFFICES ASSUME NEW t, t = tx[p], NEW w, w = pend[p] PROVE IInv'
  OBVIOUS
<1>1. /\ t.pc = "net"
      /\ Statement(p, "net")
      /\ tx' = [tx EXCEPT ![p] = [t EXCEPT !.pc = "insHeader",
                                           !.lines = ClosingLines(PeriodNet(entry, t.per))]]
      /\ pend' = [pend EXCEPT ![p] = w]
  BY DEF SumNet, Goto, Statement, IInv, Typed
<1>2. /\ t \in Job /\ w \in Writing /\ t.op = "close"
      /\ Placed(t) /\ NewSet(t) /\ Read(t, entry) /\ ToLock(t, entry)
      /\ Written(t, w, entry) /\ DOMAIN w.balance = Published(t, entry)
      /\ Holds(p, t, locks, entry)
  BY <1>1, AtWork, OpsAt
<1>3. PICK ls \in Seq(Line) : ls = ClosingLines(PeriodNet(entry, t.per))
  <2>1. /\ IsFiniteSet(DOMAIN entry)
        /\ \A e \in DOMAIN entry : entry[e].lines \in Seq(Line)
    BY TablesTyped DEF IInv, Row
  <2> QED BY <2>1, PeriodNetType, ClosingTyped
<1>4. PICK u \in Job :
        /\ tx' = [tx EXCEPT ![p] = u]
        /\ u.pc = "insHeader" /\ u.op = "close" /\ u.lines = ls /\ u.new = t.new
        /\ u.per = t.per /\ u.todo = t.todo
  <2> DEFINE v == [t EXCEPT !.pc = "insHeader", !.lines = ls]
  <2>1. "insHeader" \in Steps /\ ls \in Seq(LineDto)
    BY LinesAreDto DEF Steps
  <2>2. v \in Job /\ v.pc = "insHeader" /\ v.op = "close" /\ v.lines = ls
    BY <1>2, <2>1 DEF Job
  <2>3. v.new = t.new /\ v.per = t.per /\ v.todo = t.todo
    BY <1>2 DEF Job
  <2>4. tx' = [tx EXCEPT ![p] = v]
    BY <1>1, <1>3
  <2> HIDE DEF v
  <2> QED BY <2>2, <2>3, <2>4
<1>5. Placed(u) /\ NewSet(u)
  BY <1>1, <1>2, <1>4 DEF Placed, StepsOf, NewSet, Inserts, Edits
<1>6. Read(u, entry) /\ ToLock(u, entry)
  BY <1>1, <1>2, <1>4 DEF Read, ToLock, Edits
<1>7. Written(u, w, entry)
  BY <1>1, <1>2, <1>4 DEF Written, NewSet, Touched, Flipped, Edits
<1>8. DOMAIN w.balance = Published(u, entry)
  BY <1>1, <1>2, <1>4 DEF Published, Folding, Posts
<1>9. Holds(p, u, locks', entry)
  BY <1>1, <1>2, <1>4 DEF Holds, Folding, Edits
<1>10. u.pc # "idle" /\ u.op # "post" /\ u.op = t.op /\ t.pc # "idle"
  BY <1>1, <1>2, <1>4
<1> QED BY <1>1, <1>2, <1>4, <1>5, <1>6, <1>7, <1>8, <1>9, <1>10, StatementKeeps

\* An entry locked for posting or for its reversal.
LEMMA LockEntryKeeps ==
  ASSUME IInv, NEW p \in Proc, LockEntry(p)
  PROVE  IInv'
<1> SUFFICES ASSUME NEW t, t = tx[p], NEW w, w = pend[p] PROVE IInv'
  OBVIOUS
<1>1. /\ t.pc = "lockEntry"
      /\ Statement(p, "lockEntry")
      /\ pend' = [pend EXCEPT ![p] = w]
  BY DEF LockEntry, Goto, Statement, IInv, Typed
<1>2. /\ t \in Job /\ w \in Writing /\ t.op \in {"post", "reverse"}
      /\ Placed(t) /\ NewSet(t) /\ Read(t, entry) /\ ToLock(t, entry)
      /\ Written(t, w, entry) /\ DOMAIN w.balance = Published(t, entry)
      /\ Holds(p, t, locks, entry)
  BY <1>1, AtWork, OpsAt
<1>3. /\ t.id \in DOMAIN entry /\ ~entry[t.id].deleted /\ entry[t.id] \in Row
      /\ IF t.op = "reverse"
         THEN /\ entry[t.id].status = "POSTED"
              /\ tx' = [tx EXCEPT ![p] = [t EXCEPT !.pc = "insHeader",
                                                   !.lines = Mirror(entry[t.id].lines)]]
         ELSE /\ entry[t.id].status = "DRAFT"
              /\ tx' = [tx EXCEPT ![p] = [t EXCEPT !.pc = "validate"]]
  <2>1. t.id \in DOMAIN entry /\ ~entry[t.id].deleted
    BY DEF LockEntry, Serial!Exists
  <2>2. entry[t.id] \in Row
    BY <2>1, TablesTyped DEF IInv
  <2> QED BY <2>1, <2>2 DEF LockEntry, Goto, IInv, Typed
<1>4. /\ locks \subseteq locks'
      /\ Granted(p) \subseteq locks' /\ Granted(p) = {Lock(p, <<"entry", t.id>>, "UPDATE")}
  BY <1>1, GrantKeeps, GrantedAt
<1>5. Has(p, <<"entry", t.id>>, "UPDATE", locks')
  BY <1>4 DEF Has, Lock
<1>6. CASE t.op = "post"
  <2>1. PICK u \in Job : tx' = [tx EXCEPT ![p] = u] /\ Moved(t, u, "validate")
    BY <1>2, <1>3, <1>6, Move DEF Steps
  <2>2. Placed(u) /\ NewSet(u)
    BY <1>1, <1>2, <1>6, <2>1 DEF Moved, Placed, StepsOf, NewSet, Inserts
  <2>3. Read(u, entry) /\ ToLock(u, entry)
    BY <1>1, <1>2, <1>3, <1>6, <2>1 DEF Moved, Read, ToLock
  <2>4. Written(u, w, entry)
    BY <1>1, <1>2, <1>6, <2>1 DEF Moved, Written, NewSet, Touched, Flipped, Edits
  <2>5. DOMAIN w.balance = Published(u, entry)
    BY <1>1, <1>2, <1>6, <2>1 DEF Moved, Published, Folding
  <2>6. Holds(p, u, locks', entry)
    BY <1>2, <1>5, <1>6, <2>1 DEF Moved, Holds, Folding, Edits
  <2>7. \A l : MayHold(t, l) => MayHold(u, l)
    BY <1>1, <2>1 DEF Moved, MayHold
  <2>8. \A l \in Granted(p) : l.on = <<"entry", t.id>>
    BY <1>4 DEF Lock
  <2>9. \A l \in Granted(p) : MayHold(u, l)
    BY <2>1, <2>8 DEF Moved, MayHold
  <2>10. u.pc # "idle" /\ u.op = t.op /\ t.pc # "idle" /\ u.new = t.new
    BY <1>1, <2>1 DEF Moved
  <2> QED BY <1>1, <1>2, <2>1, <2>2, <2>3, <2>4, <2>5, <2>6, <2>7, <2>9, <2>10, StatementKeeps
<1>7. CASE t.op = "reverse"
  <2>0. PICK ls \in Seq(Line) : ls = Mirror(entry[t.id].lines)
    BY <1>3, MirrorTyped DEF Row
  <2>1. PICK u \in Job :
          /\ tx' = [tx EXCEPT ![p] = u]
          /\ u.pc = "insHeader" /\ u.op = "reverse" /\ u.lines = ls /\ u.new = t.new
          /\ u.id = t.id /\ u.date = t.date /\ u.todo = t.todo
    <3> DEFINE v == [t EXCEPT !.pc = "insHeader", !.lines = ls]
    <3>1. "insHeader" \in Steps /\ ls \in Seq(LineDto)
      BY LinesAreDto DEF Steps
    <3>2. v \in Job /\ v.pc = "insHeader" /\ v.op = "reverse" /\ v.lines = ls
      BY <1>2, <1>7, <3>1 DEF Job
    <3>3. v.new = t.new /\ v.id = t.id /\ v.date = t.date /\ v.todo = t.todo
      BY <1>2 DEF Job
    <3>4. tx' = [tx EXCEPT ![p] = v]
      BY <1>3, <1>7, <2>0
    <3> HIDE DEF v
    <3> QED BY <3>2, <3>3, <3>4
  <2>2. Placed(u) /\ NewSet(u)
    BY <1>1, <1>2, <1>7, <2>1 DEF Placed, StepsOf, NewSet, Inserts, Edits
  <2>3. Read(u, entry) /\ ToLock(u, entry)
    BY <1>1, <1>2, <1>3, <1>7, <2>0, <2>1 DEF Read, ToLock
  <2>4. Written(u, w, entry)
    BY <1>1, <1>2, <1>7, <2>1 DEF Written, NewSet, Touched, Flipped, Edits
  <2>5. DOMAIN w.balance = Published(u, entry)
    BY <1>1, <1>2, <1>7, <2>1 DEF Published, Folding
  <2>6. Holds(p, u, locks', entry)
    BY <1>2, <1>5, <1>7, <2>1 DEF Holds, Folding, Edits
  <2>7. u.pc # "idle" /\ u.op # "post" /\ u.op = t.op /\ t.pc # "idle"
    BY <1>1, <1>7, <2>1
  <2> QED BY <1>1, <1>2, <2>1, <2>2, <2>3, <2>4, <2>5, <2>6, <2>7, StatementKeeps
<1> QED BY <1>2, <1>6, <1>7

\* The checks of a posting, and the accounts it collects.
LEMMA ValidateKeeps ==
  ASSUME IInv, NEW p \in Proc, Validate(p)
  PROVE  IInv'
<1> SUFFICES ASSUME NEW t, t = tx[p], NEW w, w = pend[p] PROVE IInv'
  OBVIOUS
<1>1. /\ t.pc = "validate" /\ Statement(p, "validate")
      /\ Balanced(MyRow(p).lines)
      /\ tx' = [tx EXCEPT ![p] = [t EXCEPT !.pc = "lockAccount",
                                           !.todo = AccountsOf(MyRow(p).lines)]]
      /\ pend' = [pend EXCEPT ![p] = w]
  BY DEF Validate, Statement, IInv, Typed
<1>2. /\ t \in Job /\ w \in Writing /\ t.op \in Posts
      /\ Placed(t) /\ NewSet(t) /\ Read(t, entry) /\ ToLock(t, entry)
      /\ Written(t, w, entry) /\ DOMAIN w.balance = Published(t, entry)
      /\ Holds(p, t, locks, entry)
  BY <1>1, AtWork, OpsAt
<1>3. PICK S : /\ S = AccountsOf(Folded(t, entry)) /\ S = AccountsOf(MyRow(p).lines)
               /\ S \subseteq Account /\ S # {}
  <2>1. /\ MyRow(p).lines = Folded(t, entry) /\ Folded(t, entry) \in Seq(Line)
        /\ AccountsOf(Folded(t, entry)) \subseteq Account
    BY <1>1, <1>2, PostingRow
  <2>2. PICK ls \in Seq(Line) : ls = Folded(t, entry) /\ Len(ls) >= 2
    BY <1>1, <2>1 DEF Balanced
  <2>3. ls[1].account \in AccountsOf(ls)
    BY <2>2, SeqFacts DEF AccountsOf
  <2> QED BY <2>1, <2>2, <2>3
<1>4. PICK u \in Job :
        /\ tx' = [tx EXCEPT ![p] = u]
        /\ u.pc = "lockAccount" /\ u.todo = S /\ u.op = t.op /\ u.id = t.id /\ u.new = t.new
        /\ u.date = t.date /\ u.lines = t.lines /\ u.acct = t.acct /\ u.per = t.per
  <2> DEFINE v == [t EXCEPT !.pc = "lockAccount", !.todo = S]
  <2>1. "lockAccount" \in Steps
    BY DEF Steps
  <2>2. v \in Job /\ v.pc = "lockAccount" /\ v.todo = S
    BY <1>2, <1>3, <2>1 DEF Job
  <2>3. /\ v.op = t.op /\ v.id = t.id /\ v.new = t.new
        /\ v.date = t.date /\ v.lines = t.lines /\ v.acct = t.acct /\ v.per = t.per
    BY <1>2 DEF Job
  <2>4. tx' = [tx EXCEPT ![p] = v]
    BY <1>1, <1>3
  <2> HIDE DEF v
  <2> QED BY <2>2, <2>3, <2>4
<1>5. Placed(u)
  BY <1>1, <1>2, <1>4 DEF Placed, StepsOf, Posts
<1>6. NewSet(u)
  BY <1>1, <1>2, <1>4 DEF NewSet, Posts, Inserts
<1>7. Folded(u, entry) = Folded(t, entry)
  BY <1>4 DEF Folded
<1>8. Read(u, entry) /\ ToLock(u, entry)
  BY <1>1, <1>2, <1>3, <1>4, <1>7 DEF Read, ToLock, Posts, Edits
<1>9. Written(u, w, entry)
  <2>1. SameStage(t, u)
    BY <1>1, <1>2, <1>4 DEF SameStage, Touched, Flipped, Posts, Edits
  <2> QED BY <1>2, <2>1, WrittenStays
<1>10. DOMAIN w.balance = Published(u, entry)
  BY <1>1, <1>2, <1>4 DEF Published, Folding, Posts
<1>11. locks \subseteq locks' /\ Granted(p) = {}
  BY <1>1, GrantKeeps, GrantedAt
<1>12. Holds(p, u, locks', entry)
  <2>1. Holds(p, t, locks', entry)
    BY <1>2, <1>11, HoldsMore
  <2>2. AccountsOf(Folded(u, entry)) \ u.todo = {}
    BY <1>3, <1>4, <1>7
  <2> QED BY <1>1, <1>2, <1>4, <2>1, <2>2 DEF Holds, Folding, Posts, Edits
<1>13. u.op = "post" => /\ \A l : MayHold(t, l) => MayHold(u, l)
                        /\ \A l \in Granted(p) : MayHold(u, l)
  BY <1>1, <1>4, <1>11 DEF MayHold
<1>14. u.pc # "idle" /\ t.pc # "idle"
  BY <1>1, <1>4
<1> QED BY <1>1, <1>2, <1>4, <1>5, <1>6, <1>8, <1>9, <1>10, <1>12, <1>13, <1>14, StatementKeeps

LEMMA NextAccountLeast ==
  ASSUME NEW p, tx[p].todo \subseteq Account, tx[p].todo # {}
  PROVE  NextAccount(p) \in tx[p].todo /\ \A b \in tx[p].todo : NextAccount(p) <= b
<1>1. \E a \in tx[p].todo : \A b \in tx[p].todo : a <= b
  BY AccountAssumption, LeastNat DEF AccountAssumption
<1> QED BY <1>1 DEF NextAccount

\* One more account row, the lowest of those left.
LEMMA LockAccountKeeps ==
  ASSUME IInv, NEW p \in Proc, LockAccount(p)
  PROVE  IInv'
<1> SUFFICES ASSUME NEW t, t = tx[p], NEW w, w = pend[p] PROVE IInv'
  OBVIOUS
<1>1. /\ t.pc = "lockAccount" /\ Statement(p, "lockAccount")
      /\ pend' = [pend EXCEPT ![p] = w]
  BY DEF LockAccount, Statement, IInv, Typed
<1>2. /\ t \in Job /\ w \in Writing /\ t.op \in Posts
      /\ Placed(t) /\ NewSet(t) /\ Read(t, entry) /\ ToLock(t, entry)
      /\ Written(t, w, entry) /\ DOMAIN w.balance = Published(t, entry)
      /\ Holds(p, t, locks, entry)
  BY <1>1, AtWork, OpsAt
<1>3. PICK a \in t.todo : a = NextAccount(p) /\ \A b \in t.todo : a <= b
  BY <1>1, <1>2, NextAccountLeast DEF ToLock
<1>4. PICK s \in {"fold", "lockAccount"} : s = IF t.todo \ {a} = {} THEN "fold" ELSE "lockAccount"
  OBVIOUS
<1>5. tx' = [tx EXCEPT ![p] = [t EXCEPT !.todo = t.todo \ {a}, !.pc = s]]
  BY <1>3, <1>4 DEF LockAccount, IInv, Typed
<1>6. PICK u \in Job :
        /\ tx' = [tx EXCEPT ![p] = u]
        /\ u.pc = s /\ u.todo = t.todo \ {a} /\ u.op = t.op /\ u.id = t.id /\ u.new = t.new
        /\ u.date = t.date /\ u.lines = t.lines /\ u.acct = t.acct /\ u.per = t.per
  <2> DEFINE v == [t EXCEPT !.todo = t.todo \ {a}, !.pc = s]
  <2>1. s \in Steps
    BY <1>4 DEF Steps
  <2>2. v \in Job /\ v.pc = s /\ v.todo = t.todo \ {a}
    BY <1>2, <2>1 DEF Job
  <2>3. /\ v.op = t.op /\ v.id = t.id /\ v.new = t.new
        /\ v.date = t.date /\ v.lines = t.lines /\ v.acct = t.acct /\ v.per = t.per
    BY <1>2 DEF Job
  <2>4. tx' = [tx EXCEPT ![p] = v]
    BY <1>5
  <2> HIDE DEF v
  <2> QED BY <2>2, <2>3, <2>4
<1>7. Placed(u)
  BY <1>1, <1>2, <1>4, <1>6 DEF Placed, StepsOf, Posts
<1>8. NewSet(u)
  BY <1>1, <1>2, <1>4, <1>6 DEF NewSet, Posts, Inserts
<1>9. Folded(u, entry) = Folded(t, entry)
  BY <1>6 DEF Folded
<1>10. Read(u, entry)
  BY <1>1, <1>2, <1>4, <1>6 DEF Read, Posts, Edits
<1>11. ToLock(u, entry)
  BY <1>1, <1>2, <1>4, <1>6, <1>9 DEF ToLock
<1>12. Written(u, w, entry)
  <2>1. SameStage(t, u)
    BY <1>1, <1>2, <1>4, <1>6 DEF SameStage, Touched, Flipped, Posts, Edits
  <2> QED BY <1>2, <2>1, WrittenStays
<1>13. DOMAIN w.balance = Published(u, entry)
  BY <1>1, <1>2, <1>4, <1>6 DEF Published, Folding, Posts
<1>14. /\ locks \subseteq locks' /\ Granted(p) \subseteq locks'
       /\ Granted(p) = {Lock(p, <<"account", a>>, "UPDATE")}
  BY <1>1, <1>3, GrantKeeps, GrantedAt
<1>15. Holds(p, u, locks', entry)
  <2>1. Holds(p, t, locks', entry)
    BY <1>2, <1>14, HoldsMore
  <2>2. Has(p, <<"account", a>>, "UPDATE", locks')
    BY <1>14 DEF Has, Lock
  <2>3. Folding(t)
    BY <1>1, <1>2, EntryAssumption DEF Folding, NewSet, Inserts, EntryAssumption
  <2>4. \A b \in AccountsOf(Folded(u, entry)) \ u.todo : Has(p, <<"account", b>>, "UPDATE", locks')
    BY <1>6, <1>9, <2>1, <2>2, <2>3 DEF Holds
  <2> QED BY <1>1, <1>2, <1>4, <1>6, <2>1, <2>4 DEF Holds, Posts, Edits
<1>16. \A b \in u.todo : a < b
  <2>1. t.todo \subseteq Nat
    BY <1>2, AccountAssumption DEF ToLock, AccountAssumption
  <2> QED BY <1>3, <1>6, <2>1
<1>17. u.op = "post" => /\ \A l : MayHold(t, l) => MayHold(u, l)
                        /\ \A l \in Granted(p) : MayHold(u, l)
  <2>1. \A l : MayHold(t, l) => MayHold(u, l)
    BY <1>1, <1>4, <1>6 DEF MayHold
  <2>2. \A l \in Granted(p) : l.on = <<"account", a>>
    BY <1>14 DEF Lock
  <2>3. a \in Account
    BY <1>2 DEF ToLock
  <2>4. \A l \in Granted(p) : MayHold(u, l)
    BY <1>4, <1>6, <1>16, <2>2, <2>3 DEF MayHold
  <2> QED BY <2>1, <2>4
<1>18. u.pc # "idle" /\ t.pc # "idle"
  BY <1>1, <1>4, <1>6
<1> QED BY <1>1, <1>2, <1>6, <1>7, <1>8, <1>10, <1>11, <1>12, <1>13, <1>15, <1>17, <1>18,
        StatementKeeps

\* The balances the transaction is going to publish.
LEMMA FoldKeeps ==
  ASSUME IInv, NEW p \in Proc, Fold(p)
  PROVE  IInv'
<1> SUFFICES ASSUME NEW t, t = tx[p], NEW w, w = pend[p] PROVE IInv'
  OBVIOUS
<1>1. /\ t.pc = "fold" /\ Statement(p, "fold")
      /\ tx' = [tx EXCEPT ![p] = [t EXCEPT !.pc = "audFold"]]
      /\ pend' = [pend EXCEPT ![p].balance =
           [a \in AccountsOf(MyRow(p).lines) |-> balance[a] + Delta(MyRow(p).lines, a)]]
  BY DEF Fold, Goto, Statement, IInv, Typed
<1>2. /\ t \in Job /\ w \in Writing /\ t.op \in Posts
      /\ Placed(t) /\ NewSet(t) /\ Read(t, entry) /\ ToLock(t, entry)
      /\ Written(t, w, entry) /\ DOMAIN w.balance = Published(t, entry)
      /\ Holds(p, t, locks, entry)
  BY <1>1, AtWork, OpsAt
<1>3. PICK u \in Job : tx' = [tx EXCEPT ![p] = u] /\ Moved(t, u, "audFold")
  BY <1>1, <1>2, Move DEF Steps
<1>4. PICK f \in Tables(Account, Int) :
        /\ DOMAIN f = AccountsOf(Folded(t, entry))
        /\ pend' = [pend EXCEPT ![p].balance = f]
  <2>1. /\ MyRow(p).lines = Folded(t, entry) /\ Folded(t, entry) \in Seq(Line)
        /\ AccountsOf(Folded(t, entry)) \subseteq Account
    BY <1>1, <1>2, PostingRow
  <2>2. PICK ls \in Seq(Line) : ls = MyRow(p).lines /\ ls = Folded(t, entry)
    BY <2>1
  <2>3. \A a \in Account : balance[a] + Delta(ls, a) \in Int
    BY DeltaType, TablesTyped DEF IInv
  <2> DEFINE f == [a \in AccountsOf(ls) |-> balance[a] + Delta(ls, a)]
  <2>4. f \in [AccountsOf(ls) -> Int] /\ AccountsOf(ls) \in SUBSET Account
    BY <2>1, <2>2, <2>3
  <2>5. f \in Tables(Account, Int)
    <3> HIDE DEF f
    <3> QED BY <2>4 DEF Tables
  <2>6. DOMAIN f = AccountsOf(Folded(t, entry)) /\ pend' = [pend EXCEPT ![p].balance = f]
    BY <1>1, <2>2
  <2> HIDE DEF f
  <2> QED BY <2>5, <2>6
<1>5. PICK v \in Writing :
        /\ pend' = [pend EXCEPT ![p] = v] /\ v.balance = f /\ v.entry = w.entry
        /\ v.control = w.control /\ v.closed = w.closed
  <2> DEFINE v == [w EXCEPT !.balance = f]
  <2>1. pend' = [pend EXCEPT ![p] = v]
    BY <1>4
  <2>2. /\ v \in Writing /\ v.balance = f /\ v.entry = w.entry
        /\ v.control = w.control /\ v.closed = w.closed
    BY <1>2 DEF Writing
  <2> HIDE DEF v
  <2> QED BY <2>1, <2>2
<1>6. Placed(u)
  BY <1>1, <1>2, <1>3 DEF Moved, Placed, StepsOf, Posts
<1>7. NewSet(u)
  BY <1>1, <1>2, <1>3 DEF Moved, NewSet, Posts, Inserts
<1>8. Folding(t) /\ Folding(u) /\ Folded(u, entry) = Folded(t, entry)
  BY <1>1, <1>2, <1>3, EntryAssumption
     DEF Moved, Folding, Folded, NewSet, Inserts, EntryAssumption
<1>9. Read(u, entry) /\ ToLock(u, entry)
  BY <1>1, <1>2, <1>3 DEF Moved, Read, ToLock, Posts, Edits
<1>10. Written(u, v, entry)
  <2>1. SameStage(t, u)
    BY <1>1, <1>2, <1>3, <1>5 DEF Moved, SameStage, Touched, Flipped, Posts, Edits
  <2> QED BY <1>2, <1>5, <2>1, WrittenStays
<1>11. DOMAIN v.balance = Published(u, entry)
  BY <1>3, <1>4, <1>5, <1>8 DEF Moved, Published
<1>12. locks \subseteq locks' /\ Granted(p) = {}
  BY <1>1, GrantKeeps, GrantedAt
<1>13. Holds(p, u, locks', entry)
  <2>1. Holds(p, t, locks', entry)
    BY <1>2, <1>12, HoldsMore
  <2> QED BY <1>1, <1>2, <1>3, <1>8, <2>1 DEF Moved, Holds, Posts, Edits
<1>14. u.op = "post" => /\ \A l : MayHold(t, l) => MayHold(u, l)
                        /\ \A l \in Granted(p) : MayHold(u, l)
  BY <1>1, <1>3, <1>12 DEF Moved, MayHold
<1>15. u.pc # "idle" /\ t.pc # "idle" /\ u.op = t.op /\ u.new = t.new
  BY <1>1, <1>3 DEF Moved
<1> QED BY <1>1, <1>2, <1>3, <1>5, <1>6, <1>7, <1>9, <1>10, <1>11, <1>13, <1>14, <1>15,
        StatementKeeps

\* The posted header, before the commit.
LEMMA FlipKeeps ==
  ASSUME IInv, NEW p \in Proc, Flip(p)
  PROVE  IInv'
<1> SUFFICES ASSUME NEW t, t = tx[p], NEW w, w = pend[p] PROVE IInv'
  OBVIOUS
<1>1. /\ t.pc = "flip" /\ Statement(p, "flip")
      /\ WriteEntry(p, Target(p), PostedRow(MyRow(p)))
  BY DEF Flip, Statement
<1>2. /\ t \in Job /\ w \in Writing /\ t.op \in Posts
      /\ Placed(t) /\ NewSet(t) /\ Read(t, entry) /\ ToLock(t, entry)
      /\ Written(t, w, entry) /\ DOMAIN w.balance = Published(t, entry)
      /\ Holds(p, t, locks, entry)
  BY <1>1, AtWork, OpsAt
<1>3. PICK s \in {"markSource", "closePeriod", "commit"} :
        /\ s = IF t.op = "reverse" THEN "markSource"
               ELSE IF t.op = "close" THEN "closePeriod" ELSE "commit"
        /\ tx' = [tx EXCEPT ![p] = [t EXCEPT !.pc = s]]
  <2>1. t.op \in {"reverse", "close", "post"}
    BY <1>2 DEF Posts
  <2> QED BY <2>1 DEF Flip, Goto, IInv, Typed
<1>4. PICK u \in Job : tx' = [tx EXCEPT ![p] = u] /\ Moved(t, u, s)
  <2>1. s \in Steps
    BY <1>3 DEF Steps
  <2> QED BY <1>2, <1>3, <2>1, Move
<1>5. PICK r \in Row : r = MyRow(p)
  BY <1>1, <1>2, PostingRow
<1>6. PICK e \in Entry : e = Target(p) /\ e = IF t.op = "post" THEN t.id ELSE t.new
  <2>1. Target(p) = IF t.new # None THEN t.new ELSE t.id
    BY DEF Target
  <2>2. t.op = "post" => t.new = None /\ t.id \in Entry
    BY <1>1, <1>2, PostingRow DEF Placed
  <2>3. t.op # "post" => t.new \in Entry /\ t.new # None
    BY <1>1, <1>2, PostingRow
  <2> QED BY <2>1, <2>2, <2>3
<1>7. PICK v \in Writing :
        /\ pend' = [pend EXCEPT ![p] = v] /\ v.entry = Put(w.entry, e, PostedRow(r))
        /\ v.balance = w.balance /\ v.control = w.control /\ v.closed = w.closed
  <2>1. PostedRow(r) \in Row
    BY RowTypes
  <2> QED BY <1>1, <1>5, <1>6, <2>1, WriteFacts
<1>8. /\ DOMAIN v.entry = DOMAIN w.entry \cup {e} /\ v.entry[e] = PostedRow(r)
  BY <1>7 DEF Put
<1>9. Placed(u)
  BY <1>1, <1>2, <1>3, <1>4 DEF Moved, Placed, StepsOf, Posts
<1>10. NewSet(u)
  BY <1>1, <1>2, <1>3, <1>4 DEF Moved, NewSet, Posts, Inserts
<1>11. Folding(t) /\ Folding(u) /\ Folded(u, entry) = Folded(t, entry)
  BY <1>1, <1>2, <1>3, <1>4, EntryAssumption
     DEF Moved, Folding, Folded, NewSet, Inserts, EntryAssumption
<1>12. Read(u, entry) /\ ToLock(u, entry)
  BY <1>1, <1>2, <1>3, <1>4 DEF Moved, Read, ToLock, Posts, Edits
<1>13. Written(u, v, entry)
  <2>1. CASE t.op = "post"
    <3>1. /\ t.new = None /\ r = entry[t.id] /\ DOMAIN w.entry = {} /\ e = t.id
      BY <1>1, <1>2, <1>5, <1>6, <2>1, PostingRow DEF Written, Touched, Edits
    <3>2. s = "commit"
      BY <1>3, <2>1
    <3>3. u.op = "post" /\ u.new = None /\ u.id = t.id /\ Touched(u)
      BY <1>4, <2>1, <3>1, <3>2 DEF Moved, Touched
    <3>4. DOMAIN v.entry = {t.id} /\ v.entry[t.id] = PostedRow(entry[t.id])
      BY <1>8, <3>1
    <3> QED BY <1>2, <1>7, <2>1, <3>3, <3>4 DEF Written, Edited
  <2>2. CASE t.op # "post"
    <3>1. /\ t.new # None /\ r = Inserted(t, t.lines) /\ e = t.new /\ t.lines \in Seq(Line)
      BY <1>1, <1>2, <1>5, <1>6, <2>2, PostingRow DEF Folded
    <3>2. ~Touched(t) /\ DOMAIN w.entry = {t.new}
      BY <1>1, <1>2, <2>2, <3>1 DEF Written, Touched, Edits
    <3>3. Flipped(u) /\ ~Touched(u) /\ u.new = t.new /\ u.op = t.op /\ u.lines = t.lines
      BY <1>2, <1>3, <1>4, <2>2 DEF Moved, Flipped, Touched, Posts, Edits
    <3>4. Inserted(u, u.lines) = r
      BY <1>4, <3>1 DEF Moved, Inserted
    <3>5. DOMAIN v.entry = {t.new} /\ v.entry[t.new] = PostedRow(r)
      BY <1>8, <3>1, <3>2
    <3>6. (u.op # "child" => v.control = {}) /\ (u.op # "close" => v.closed = {})
      BY <1>2, <1>7, <3>3 DEF Written
    <3> QED BY <3>1, <3>3, <3>4, <3>5, <3>6 DEF Written
  <2> QED BY <2>1, <2>2
<1>14. DOMAIN v.balance = Published(u, entry)
  BY <1>1, <1>2, <1>3, <1>4, <1>7, <1>11 DEF Moved, Published
<1>15. /\ locks \subseteq locks' /\ Granted(p) \subseteq locks'
       /\ Granted(p) = {Lock(p, <<"period", PeriodOf[MyRow(p).date]>>, "KEY SHARE")}
  BY <1>1, GrantKeeps, GrantedAt
<1>16. Holds(p, u, locks', entry)
  <2>1. Holds(p, t, locks', entry)
    BY <1>2, <1>15, HoldsMore
  <2> QED BY <1>1, <1>2, <1>3, <1>4, <1>11, <2>1 DEF Moved, Holds, Posts, Edits
<1>17. u.op = "post" => /\ \A l : MayHold(t, l) => MayHold(u, l)
                        /\ \A l \in Granted(p) : MayHold(u, l)
  <2> SUFFICES ASSUME u.op = "post"
               PROVE  /\ \A l : MayHold(t, l) => MayHold(u, l)
                      /\ \A l \in Granted(p) : MayHold(u, l)
    OBVIOUS
  <2>1. s = "commit" /\ t.op = "post"
    BY <1>3, <1>4 DEF Moved
  <2>2. \A l : MayHold(t, l) => MayHold(u, l)
    BY <1>1, <1>4, <2>1 DEF Moved, MayHold
  <2>3. PICK q \in Period \cup {None} : q = PeriodOf[r.date]
    BY PeriodAssumption DEF PeriodAssumption, Row
  <2>4. \A l \in Granted(p) : l.mode = "KEY SHARE" /\ l.on = <<"period", q>>
    <3>1. Granted(p) = {Lock(p, <<"period", q>>, "KEY SHARE")}
      BY <1>5, <1>15, <2>3
    <3> SUFFICES ASSUME NEW l \in Granted(p)
                 PROVE  l.mode = "KEY SHARE" /\ l.on = <<"period", q>>
      OBVIOUS
    <3>2. l = Lock(p, <<"period", q>>, "KEY SHARE")
      BY <3>1
    <3> QED BY <3>2 DEF Lock
  <2>5. \A l \in Granted(p) : MayHold(u, l)
    BY <1>4, <2>1, <2>4 DEF Moved, MayHold
  <2> QED BY <2>2, <2>5
<1>18. u.pc # "idle" /\ t.pc # "idle" /\ u.op = t.op /\ u.new = t.new
  BY <1>1, <1>3, <1>4 DEF Moved
<1> QED BY <1>1, <1>2, <1>4, <1>7, <1>9, <1>10, <1>12, <1>13, <1>14, <1>16, <1>17, <1>18,
        StatementKeeps

\* The source of a reversal.
LEMMA MarkSourceKeeps ==
  ASSUME IInv, NEW p \in Proc, MarkSource(p)
  PROVE  IInv'
<1> SUFFICES ASSUME NEW t, t = tx[p], NEW w, w = pend[p] PROVE IInv'
  OBVIOUS
<1>1. /\ t.pc = "markSource" /\ Statement(p, "markSource")
      /\ tx' = [tx EXCEPT ![p] = [t EXCEPT !.pc = "commit"]]
      /\ WriteEntry(p, t.id, [Seen(p)[t.id] EXCEPT !.status = "REVERSED"])
  BY DEF MarkSource, Goto, Statement, IInv, Typed
<1>2. /\ t \in Job /\ w \in Writing /\ t.op = "reverse"
      /\ Placed(t) /\ NewSet(t) /\ Read(t, entry) /\ ToLock(t, entry)
      /\ Written(t, w, entry) /\ DOMAIN w.balance = Published(t, entry)
      /\ Holds(p, t, locks, entry)
  BY <1>1, AtWork, OpsAt
<1>3. PICK u \in Job : tx' = [tx EXCEPT ![p] = u] /\ Moved(t, u, "commit")
  BY <1>1, <1>2, Move DEF Steps
<1>4. ~Touched(t) /\ Flipped(t) /\ t.new \in Entry /\ t.new # None
  BY <1>1, <1>2, EntryAssumption DEF Touched, Flipped, NewSet, Inserts, Edits, EntryAssumption
<1>5. /\ t.id \in DOMAIN entry /\ entry[t.id] \in Row /\ Seen(p)[t.id] = entry[t.id]
      /\ t.id # t.new
  <2>1. t.id \in DOMAIN entry
    BY <1>1, <1>2 DEF Read
  <2>2. entry[t.id] \in Row
    BY <2>1, TablesTyped DEF IInv
  <2>3. Seen(p)[t.id] = entry[t.id]
    BY <1>1, <1>2, <1>4, RowSeen
  <2>4. t.new \notin DOMAIN entry
    BY <1>4 DEF IInv, NewApart
  <2> QED BY <2>1, <2>2, <2>3, <2>4
<1>6. PICK r \in Row : r = [entry[t.id] EXCEPT !.status = "REVERSED"]
  BY <1>5 DEF Row, JournalStatus
<1>7. PICK v \in Writing :
        /\ pend' = [pend EXCEPT ![p] = v] /\ v.entry = Put(w.entry, t.id, r)
        /\ v.balance = w.balance /\ v.control = w.control /\ v.closed = w.closed
  <2>1. t.id \in Entry /\ WriteEntry(p, t.id, r)
    BY <1>1, <1>2, <1>5, <1>6 DEF Placed
  <2> QED BY <2>1, WriteFacts
<1>8. /\ DOMAIN v.entry = DOMAIN w.entry \cup {t.id} /\ v.entry[t.id] = r
      /\ \A x \in DOMAIN w.entry \ {t.id} : v.entry[x] = w.entry[x]
  BY <1>7 DEF Put
<1>9. Placed(u) /\ NewSet(u)
  BY <1>1, <1>2, <1>3 DEF Moved, Placed, StepsOf, NewSet, Inserts
<1>10. Read(u, entry) /\ ToLock(u, entry)
  BY <1>1, <1>2, <1>3 DEF Moved, Read, ToLock
<1>11. Written(u, v, entry)
  <2>1. /\ DOMAIN w.entry = {t.new} /\ t.lines \in Seq(Line)
        /\ w.entry[t.new] = PostedRow(Inserted(t, t.lines))
        /\ w.control = {} /\ w.closed = {}
    BY <1>2, <1>4 DEF Written
  <2>2. /\ DOMAIN v.entry = {t.new} \cup {t.id} /\ v.entry[t.new] = PostedRow(Inserted(t, t.lines))
    BY <1>4, <1>5, <1>8, <2>1
  <2>3. /\ Touched(u) /\ Flipped(u) /\ u.op = "reverse" /\ u.new = t.new /\ u.id = t.id
        /\ u.lines = t.lines
    BY <1>2, <1>3 DEF Moved, Touched, Flipped
  <2>4. Inserted(u, u.lines) = Inserted(t, t.lines)
    BY <1>3 DEF Moved, Inserted
  <2>5. v.entry[t.id] = Edited(u, entry[t.id], v.entry[t.id].lines)
    BY <1>6, <1>8, <2>3 DEF Edited
  <2> QED BY <1>4, <1>7, <2>1, <2>2, <2>3, <2>4, <2>5 DEF Written
<1>12. DOMAIN v.balance = Published(u, entry)
  BY <1>1, <1>2, <1>3, <1>7 DEF Moved, Published, Folding, Folded, Posts
<1>13. locks \subseteq locks'
  BY <1>1, GrantKeeps
<1>14. Holds(p, u, locks', entry)
  <2>1. Holds(p, t, locks', entry)
    BY <1>2, <1>13, HoldsMore
  <2> QED BY <1>1, <1>2, <1>3, <2>1 DEF Moved, Holds, Folding, Folded, Posts, Edits
<1>15. u.pc # "idle" /\ t.pc # "idle" /\ u.op = t.op /\ u.op # "post" /\ u.new = t.new
  BY <1>1, <1>2, <1>3 DEF Moved
<1> QED BY <1>1, <1>2, <1>3, <1>7, <1>9, <1>10, <1>11, <1>12, <1>14, <1>15, StatementKeeps

-----------------------------------------------------------------------------
(* The statements that recompute, turn a parent and close a period.        *)

LEMMA RecomputeKeeps ==
  ASSUME IInv, NEW p \in Proc, Recompute(p)
  PROVE  IInv'
<1> SUFFICES ASSUME NEW t, t = tx[p], NEW w, w = pend[p] PROVE IInv'
  OBVIOUS
<1>1. /\ t.pc = "recompute" /\ Statement(p, "recompute")
      /\ tx' = [tx EXCEPT ![p] = [t EXCEPT !.pc = "audRecompute"]]
      /\ pend' = [pend EXCEPT ![p].balance =
           [a \in {t.acct} |-> BalanceOver(entry, PostedIn(entry), a)]]
  BY DEF Recompute, Goto, Statement, IInv, Typed
<1>2. /\ t \in Job /\ w \in Writing /\ t.op = "recompute"
      /\ Placed(t) /\ NewSet(t) /\ Read(t, entry) /\ ToLock(t, entry)
      /\ Written(t, w, entry) /\ DOMAIN w.balance = Published(t, entry)
      /\ Holds(p, t, locks, entry)
  BY <1>1, AtWork, OpsAt
<1>3. PICK u \in Job : tx' = [tx EXCEPT ![p] = u] /\ Moved(t, u, "audRecompute")
  BY <1>1, <1>2, Move DEF Steps
<1>4. PICK f \in Tables(Account, Int) :
        /\ DOMAIN f = {t.acct}
        /\ pend' = [pend EXCEPT ![p].balance = f]
  <2> DEFINE f == [a \in {t.acct} |-> BalanceOver(entry, PostedIn(entry), a)]
  <2>1. /\ IsFiniteSet(PostedIn(entry))
        /\ \A e \in PostedIn(entry) : entry[e].lines \in Seq(Line)
    <3>1. PostedIn(entry) \subseteq DOMAIN entry
      BY DEF PostedIn
    <3>2. /\ IsFiniteSet(DOMAIN entry)
          /\ \A e \in DOMAIN entry : entry[e].lines \in Seq(Line)
      BY TablesTyped DEF IInv, Row
    <3> QED BY <3>1, <3>2, FS_Subset
  <2>2. \A a : BalanceOver(entry, PostedIn(entry), a) \in Int
    BY <2>1, BalanceOverType
  <2>3. f \in [{t.acct} -> Int] /\ {t.acct} \in SUBSET Account
    BY <1>2, <2>2 DEF Placed
  <2>4. DOMAIN f = {t.acct} /\ pend' = [pend EXCEPT ![p].balance = f]
    BY <1>1
  <2> HIDE DEF f
  <2>5. f \in Tables(Account, Int)
    BY <2>3 DEF Tables
  <2> QED BY <2>4, <2>5
<1>5. PICK v \in Writing :
        /\ pend' = [pend EXCEPT ![p] = v] /\ v.balance = f /\ v.entry = w.entry
        /\ v.control = w.control /\ v.closed = w.closed
  <2> DEFINE v == [w EXCEPT !.balance = f]
  <2>1. pend' = [pend EXCEPT ![p] = v]
    BY <1>4
  <2>2. /\ v \in Writing /\ v.balance = f /\ v.entry = w.entry
        /\ v.control = w.control /\ v.closed = w.closed
    BY <1>2 DEF Writing
  <2> HIDE DEF v
  <2> QED BY <2>1, <2>2
<1>6. Placed(u) /\ NewSet(u)
  BY <1>1, <1>2, <1>3 DEF Moved, Placed, StepsOf, NewSet, Inserts
<1>7. Read(u, entry) /\ ToLock(u, entry)
  BY <1>1, <1>2, <1>3 DEF Moved, Read, ToLock, Edits
<1>8. Written(u, v, entry)
  <2>1. SameStage(t, u)
    BY <1>1, <1>2, <1>3 DEF Moved, SameStage, Touched, Flipped, Posts, Edits
  <2> QED BY <1>2, <1>5, <2>1, WrittenStays
<1>9. DOMAIN v.balance = Published(u, entry)
  BY <1>2, <1>3, <1>4, <1>5 DEF Moved, Published, Folding, Posts
<1>10. locks \subseteq locks'
  BY <1>1, GrantKeeps
<1>11. Holds(p, u, locks', entry)
  <2>1. Holds(p, t, locks', entry)
    BY <1>2, <1>10, HoldsMore
  <2> QED BY <1>1, <1>2, <1>3, <2>1 DEF Moved, Holds, Folding, Posts, Edits
<1>12. u.pc # "idle" /\ t.pc # "idle" /\ u.op = t.op /\ u.op # "post" /\ u.new = t.new
  BY <1>1, <1>2, <1>3 DEF Moved
<1> QED BY <1>1, <1>2, <1>3, <1>5, <1>6, <1>7, <1>8, <1>9, <1>11, <1>12, StatementKeeps

\* A parent becomes a control account.
LEMMA ControlParentKeeps ==
  ASSUME IInv, NEW p \in Proc, ControlParent(p)
  PROVE  IInv'
<1> SUFFICES ASSUME NEW t, t = tx[p], NEW w, w = pend[p] PROVE IInv'
  OBVIOUS
<1>1. /\ t.pc = "control" /\ Statement(p, "control")
      /\ tx' = [tx EXCEPT ![p] = [t EXCEPT !.pc = "commit"]]
      /\ pend' = [pend EXCEPT ![p].control = {t.acct}]
  BY DEF ControlParent, Goto, Statement, IInv, Typed
<1>2. /\ t \in Job /\ w \in Writing /\ t.op = "child"
      /\ Placed(t) /\ NewSet(t) /\ Read(t, entry) /\ ToLock(t, entry)
      /\ Written(t, w, entry) /\ DOMAIN w.balance = Published(t, entry)
      /\ Holds(p, t, locks, entry)
  BY <1>1, AtWork, OpsAt
<1>3. PICK u \in Job : tx' = [tx EXCEPT ![p] = u] /\ Moved(t, u, "commit")
  BY <1>1, <1>2, Move DEF Steps
<1>4. PICK v \in Writing :
        /\ pend' = [pend EXCEPT ![p] = v] /\ v.balance = w.balance /\ v.entry = w.entry
        /\ v.closed = w.closed
  <2> DEFINE v == [w EXCEPT !.control = {t.acct}]
  <2>1. pend' = [pend EXCEPT ![p] = v]
    BY <1>1
  <2>2. {t.acct} \in SUBSET Account
    BY <1>2 DEF Placed
  <2>3. v \in Writing /\ v.balance = w.balance /\ v.entry = w.entry /\ v.closed = w.closed
    BY <1>2, <2>2 DEF Writing
  <2> HIDE DEF v
  <2> QED BY <2>1, <2>3
<1>5. Placed(u) /\ NewSet(u)
  BY <1>1, <1>2, <1>3 DEF Moved, Placed, StepsOf, NewSet, Inserts
<1>6. Read(u, entry) /\ ToLock(u, entry)
  BY <1>1, <1>2, <1>3 DEF Moved, Read, ToLock, Edits
<1>7. Written(u, v, entry)
  <2>1. SameStage(t, u)
    BY <1>1, <1>2, <1>3 DEF Moved, SameStage, Touched, Flipped, Posts, Edits
  <2> QED BY <1>2, <1>4, <2>1, WrittenStays
<1>8. DOMAIN v.balance = Published(u, entry)
  BY <1>1, <1>2, <1>3, <1>4 DEF Moved, Published, Folding, Posts
<1>9. locks \subseteq locks'
  BY <1>1, GrantKeeps
<1>10. Holds(p, u, locks', entry)
  <2>1. Holds(p, t, locks', entry)
    BY <1>2, <1>9, HoldsMore
  <2> QED BY <1>1, <1>2, <1>3, <2>1 DEF Moved, Holds, Folding, Posts, Edits
<1>11. u.pc # "idle" /\ t.pc # "idle" /\ u.op = t.op /\ u.op # "post" /\ u.new = t.new
  BY <1>1, <1>2, <1>3 DEF Moved
<1> QED BY <1>1, <1>2, <1>3, <1>4, <1>5, <1>6, <1>7, <1>8, <1>10, <1>11, StatementKeeps

\* The status of a period.
LEMMA ClosePeriodKeeps ==
  ASSUME IInv, NEW p \in Proc, ClosePeriod(p)
  PROVE  IInv'
<1> SUFFICES ASSUME NEW t, t = tx[p], NEW w, w = pend[p] PROVE IInv'
  OBVIOUS
<1>1. /\ t.pc = "closePeriod" /\ Statement(p, "closePeriod")
      /\ tx' = [tx EXCEPT ![p] = [t EXCEPT !.pc = "commit"]]
      /\ pend' = [pend EXCEPT ![p].closed = {t.per}]
  BY DEF ClosePeriod, Goto, Statement, IInv, Typed
<1>2. /\ t \in Job /\ w \in Writing /\ t.op = "close"
      /\ Placed(t) /\ NewSet(t) /\ Read(t, entry) /\ ToLock(t, entry)
      /\ Written(t, w, entry) /\ DOMAIN w.balance = Published(t, entry)
      /\ Holds(p, t, locks, entry)
  BY <1>1, AtWork, OpsAt
<1>3. PICK u \in Job : tx' = [tx EXCEPT ![p] = u] /\ Moved(t, u, "commit")
  BY <1>1, <1>2, Move DEF Steps
<1>4. PICK v \in Writing :
        /\ pend' = [pend EXCEPT ![p] = v] /\ v.balance = w.balance /\ v.entry = w.entry
        /\ v.control = w.control
  <2> DEFINE v == [w EXCEPT !.closed = {t.per}]
  <2>1. pend' = [pend EXCEPT ![p] = v]
    BY <1>1
  <2>2. {t.per} \in SUBSET Period
    BY <1>2 DEF Placed
  <2>3. v \in Writing /\ v.balance = w.balance /\ v.entry = w.entry /\ v.control = w.control
    BY <1>2, <2>2 DEF Writing
  <2> HIDE DEF v
  <2> QED BY <2>1, <2>3
<1>5. Placed(u) /\ NewSet(u)
  BY <1>1, <1>2, <1>3 DEF Moved, Placed, StepsOf, NewSet, Inserts
<1>6. Read(u, entry) /\ ToLock(u, entry)
  BY <1>1, <1>2, <1>3 DEF Moved, Read, ToLock, Edits
<1>7. Written(u, v, entry)
  BY <1>1, <1>2, <1>3, <1>4 DEF Moved, Written, Touched, Flipped, Copied, Inserted, Edits
<1>8. DOMAIN v.balance = Published(u, entry)
  BY <1>1, <1>2, <1>3, <1>4 DEF Moved, Published, Folding, Folded, Posts
<1>9. locks \subseteq locks'
  BY <1>1, GrantKeeps
<1>10. Holds(p, u, locks', entry)
  <2>1. Holds(p, t, locks', entry)
    BY <1>2, <1>9, HoldsMore
  <2> QED BY <1>1, <1>2, <1>3, <2>1 DEF Moved, Holds, Folding, Folded, Posts, Edits
<1>11. u.pc # "idle" /\ t.pc # "idle" /\ u.op = t.op /\ u.op # "post" /\ u.new = t.new
  BY <1>1, <1>2, <1>3 DEF Moved
<1> QED BY <1>1, <1>2, <1>3, <1>4, <1>5, <1>6, <1>7, <1>8, <1>10, <1>11, StatementKeeps

-----------------------------------------------------------------------------
(* The statements that write drafts.                                       *)

LEMMA MirrorLength ==
  ASSUME NEW ls \in Seq(Line)
  PROVE  Len(Mirror(ls)) = Len(ls)
<1>1. Len(ls) \in Nat
  BY SeqFacts
<1> QED BY <1>1 DEF Mirror

\* The new header has no line yet.
LEMMA InsertHeaderKeeps ==
  ASSUME IInv, NEW p \in Proc, InsertHeader(p)
  PROVE  IInv'
<1> SUFFICES ASSUME NEW t, t = tx[p], NEW w, w = pend[p] PROVE IInv'
  OBVIOUS
<1>1. t.pc = "insHeader" /\ Statement(p, "insHeader")
  BY DEF InsertHeader, Statement
<1>2. /\ t \in Job /\ w \in Writing /\ t.op \in Inserts
      /\ Placed(t) /\ NewSet(t) /\ Read(t, entry) /\ ToLock(t, entry)
      /\ Written(t, w, entry) /\ DOMAIN w.balance = Published(t, entry)
      /\ Holds(p, t, locks, entry)
  BY <1>1, AtWork, OpsAt
<1>3. PICK e \in Entry \ Used :
        /\ WriteEntry(p, e, Inserted(t, << >>))
        /\ tx' = [tx EXCEPT ![p] = [t EXCEPT !.new = e, !.pc = "insLine"]]
  <2>1. PICK e \in Entry \ Used :
          /\ WriteEntry(p, e,
               CASE t.op = "reverse" -> DraftRow(t.date, << >>, t.id)
                 [] t.op = "close"   -> ClosingRow(EndOf[t.per], << >>)
                 [] OTHER            -> DraftRow(t.date, << >>, None))
          /\ tx' = [tx EXCEPT ![p].new = e, ![p].pc = "insLine"]
    BY DEF InsertHeader
  <2>2. tx' = [tx EXCEPT ![p] = [t EXCEPT !.new = e, !.pc = "insLine"]]
    BY <2>1 DEF IInv, Typed
  <2> QED BY <2>1, <2>2 DEF Inserted
<1>4. e \in Entry /\ e \notin Used /\ e # None
  BY <1>3, EntryAssumption DEF EntryAssumption
<1>5. Inserted(t, << >>) \in Row /\ Inserted(t, << >>).lines = << >>
  <2>1. << >> \in Seq(Line)
    OBVIOUS
  <2>2. t.op = "close" => EndOf[t.per] \in Date
    BY <1>2, PeriodAssumption DEF Placed, PeriodAssumption
  <2>3. t.op # "close" => t.date \in Date
    BY <1>2 DEF Placed, Inserts
  <2>4. t.op = "reverse" => t.id \in Entry
    BY <1>2 DEF Placed
  <2>5. Inserted(t, << >>) \in Row
    BY <2>1, <2>2, <2>3, <2>4, RowTypes DEF Inserted
  <2>6. Inserted(t, << >>).lines = << >>
    BY DEF Inserted, DraftRow, ClosingRow
  <2> QED BY <2>5, <2>6
<1>6. PICK v \in Writing :
        /\ pend' = [pend EXCEPT ![p] = v] /\ v.entry = Put(w.entry, e, Inserted(t, << >>))
        /\ v.balance = w.balance /\ v.control = w.control /\ v.closed = w.closed
  BY <1>3, <1>4, <1>5, WriteFacts
<1>7. DOMAIN v.entry = {e} /\ v.entry[e] = Inserted(t, << >>)
  <2>1. DOMAIN w.entry = {}
    BY <1>1, <1>2 DEF Written, NewSet, Touched, Inserts, Edits
  <2> QED BY <1>6, <2>1 DEF Put
<1>8. PICK u \in Job :
        /\ tx' = [tx EXCEPT ![p] = u]
        /\ u.pc = "insLine" /\ u.new = e /\ u.op = t.op /\ u.id = t.id /\ u.todo = t.todo
        /\ u.date = t.date /\ u.lines = t.lines /\ u.acct = t.acct /\ u.per = t.per
  <2> DEFINE v1 == [t EXCEPT !.new = e, !.pc = "insLine"]
  <2>1. "insLine" \in Steps
    BY DEF Steps
  <2>2. v1 \in Job /\ v1.pc = "insLine" /\ v1.new = e
    BY <1>2, <1>4, <2>1 DEF Job
  <2>3. /\ v1.op = t.op /\ v1.id = t.id /\ v1.todo = t.todo
        /\ v1.date = t.date /\ v1.lines = t.lines /\ v1.acct = t.acct /\ v1.per = t.per
    BY <1>2 DEF Job
  <2>4. tx' = [tx EXCEPT ![p] = v1]
    BY <1>3
  <2> HIDE DEF v1
  <2> QED BY <2>2, <2>3, <2>4
<1>9. Placed(u)
  BY <1>1, <1>2, <1>8 DEF Placed, StepsOf, Inserts
<1>10. NewSet(u)
  BY <1>2, <1>4, <1>8 DEF NewSet
<1>11. Read(u, entry) /\ ToLock(u, entry)
  BY <1>1, <1>2, <1>8 DEF Read, ToLock, Inserts, Edits
<1>12. Copied(<< >>, u)
  <2>1. << >> \in Seq(Line) /\ Len(<< >>) = 0 /\ u.lines \in Seq(LineDto)
    BY DEF Job
  <2>2. Len(u.lines) \in Nat /\ (Len(u.lines) = 0 => u.lines = << >>)
    BY <2>1
  <2>3. CASE t.op = "close"
    BY <1>8, <2>1, <2>2, <2>3 DEF Copied
  <2>4. CASE t.op = "reverse"
    <3>1. PICK ls \in Seq(Line) : ls = entry[t.id].lines /\ Len(ls) >= 2 /\ t.lines = Mirror(ls)
      <4>1. /\ t.id \in DOMAIN entry /\ entry[t.id].status = "POSTED"
            /\ t.lines = Mirror(entry[t.id].lines)
        BY <1>1, <1>2, <2>4 DEF Read
      <4>2. entry[t.id] \in Row /\ Balanced(entry[t.id].lines)
        BY <4>1, TablesTyped DEF IInv, Books
      <4> QED BY <4>1, <4>2 DEF Row, Balanced
    <3>2. Len(u.lines) >= 2
      BY <1>8, <3>1, MirrorLength
    <3> QED BY <1>8, <2>1, <2>2, <3>2 DEF Copied
  <2>5. CASE t.op \in {"create", "transfer"}
    <3>1. Len(u.lines) >= 2
      BY <1>2, <1>8, <2>5 DEF Placed
    <3> QED BY <1>8, <2>1, <2>2, <3>1 DEF Copied
  <2> QED BY <1>2, <2>3, <2>4, <2>5 DEF Inserts
<1>13. Written(u, v, entry)
  <2>1. ~Touched(u) /\ ~Flipped(u)
    BY <1>2, <1>8 DEF Touched, Flipped, Inserts, Edits
  <2>2. v.entry[u.new].lines = << >> /\ v.entry[u.new] = Inserted(u, << >>)
    BY <1>5, <1>7, <1>8 DEF Inserted
  <2>3. (u.op # "child" => v.control = {}) /\ (u.op # "close" => v.closed = {})
    BY <1>2, <1>6, <1>8 DEF Written
  <2> QED BY <1>4, <1>7, <1>8, <1>12, <2>1, <2>2, <2>3 DEF Written
<1>14. DOMAIN v.balance = Published(u, entry)
  BY <1>1, <1>2, <1>6, <1>8 DEF Published, Folding, Inserts
<1>15. /\ locks \subseteq locks' /\ Granted(p) \subseteq locks'
       /\ Granted(p) = {Lock(p, AuditLock, "UPDATE")}
  BY <1>1, GrantKeeps, GrantedAt
<1>16. Holds(p, u, locks', entry)
  <2>1. Holds(p, t, locks', entry)
    BY <1>2, <1>15, HoldsMore
  <2>2. Has(p, AuditLock, "UPDATE", locks')
    BY <1>15 DEF Has, Lock
  <2> QED BY <1>1, <1>2, <1>8, <2>1, <2>2 DEF Holds, Folding, Inserts, Edits
<1>17. u.pc # "idle" /\ t.pc # "idle" /\ u.op = t.op /\ u.op # "post" /\ u.new \notin Used
  BY <1>1, <1>2, <1>4, <1>8 DEF Inserts
<1> QED BY <1>1, <1>2, <1>6, <1>8, <1>9, <1>10, <1>11, <1>13, <1>14, <1>16, <1>17, StatementKeeps

\* One more line of the request.
LEMMA CopyMore ==
  ASSUME NEW t, t.pc = "insLine", t.lines \in Seq(LineDto), t.lines # << >>,
         NEW ls, Copied(ls, t), OneSided(t.lines[Len(ls) + 1]),
         NEW u, u.lines = t.lines, u.op = t.op,
         u.pc = "insLine" <=> Len(ls) + 1 < Len(t.lines)
  PROVE  /\ Len(ls) + 1 <= Len(t.lines)
         /\ Append(ls, t.lines[Len(ls) + 1]) \in Seq(Line)
         /\ Copied(Append(ls, t.lines[Len(ls) + 1]), u)
<1>1. /\ ls \in Seq(Line) /\ Len(ls) \in Nat /\ Len(t.lines) \in Nat /\ Len(ls) < Len(t.lines)
      /\ \A i \in 1..Len(ls) : ls[i] = t.lines[i]
  BY DEF Copied
<1>2. PICK n \in Nat : n = Len(ls) /\ n + 1 \in 1..Len(t.lines)
  BY <1>1
<1>3. PICK x \in Line : x = t.lines[n + 1]
  <2>1. t.lines[n + 1] \in LineDto
    BY <1>2, SeqFacts
  <2> QED BY <1>2, <2>1 DEF Line
<1>4. PICK ms \in Seq(Line) : ms = Append(ls, x)
  <2>1. Append(ls, x) \in Seq(Line)
    BY <1>1
  <2> QED BY <2>1
<1>5. Len(ms) = n + 1 /\ \A i \in 1..(n + 1) : ms[i] = t.lines[i]
  <2>1. Len(ms) = n + 1 /\ ms[n + 1] = x /\ \A i \in 1..n : ms[i] = ls[i]
    BY <1>1, <1>2, <1>4
  <2>2. \A i \in 1..(n + 1) : i = n + 1 \/ i \in 1..n
    BY <1>2
  <2> QED BY <1>1, <1>2, <1>3, <2>1, <2>2
<1>6. ~(n + 1 < Len(t.lines)) => ms = t.lines
  <2> SUFFICES ASSUME ~(n + 1 < Len(t.lines)) PROVE ms = t.lines
    OBVIOUS
  <2>1. Len(t.lines) = n + 1
    BY <1>1, <1>2
  <2>2. ms = [i \in 1..(n + 1) |-> ms[i]] /\ t.lines = [i \in 1..(n + 1) |-> t.lines[i]]
    <3>1. Len(ms) = n + 1
      BY <1>5
    <3>2. ms = [i \in 1..Len(ms) |-> ms[i]]
      BY ONLY ms \in Seq(Line), SeqFacts
    <3>3. t.lines = [i \in 1..Len(t.lines) |-> t.lines[i]]
      BY ONLY t.lines \in Seq(LineDto), SeqFacts
    <3> QED BY ONLY <2>1, <3>1, <3>2, <3>3
  <2> QED BY <1>5, <2>2
<1>7. Copied(ms, u)
  BY <1>1, <1>2, <1>4, <1>5, <1>6 DEF Copied
<1> QED BY <1>2, <1>3, <1>4, <1>7

\* A header with other lines.
LEMMA SameHeader ==
  ASSUME NEW r \in Row, NEW ls \in Seq(Line), NEW t, r = Inserted(t, r.lines)
  PROVE  [r EXCEPT !.lines = ls] = Inserted(t, ls)
<1>1. [r EXCEPT !.lines = ls]
        = [status |-> r.status, lines |-> ls, date |-> r.date, period |-> r.period,
           deleted |-> r.deleted, reverses |-> r.reverses, closing |-> r.closing]
  BY DEF Row
<1>2. ASSUME NEW d, NEW src, r = DraftRow(d, r.lines, src)
      PROVE  [r EXCEPT !.lines = ls] = DraftRow(d, ls, src)
  <2>1. /\ r.status = "DRAFT" /\ r.date = d /\ r.period = None /\ r.deleted = FALSE
        /\ r.reverses = src /\ r.closing = FALSE
    BY <1>2 DEF DraftRow
  <2> QED BY <1>1, <2>1 DEF DraftRow
<1>3. ASSUME NEW d, r = ClosingRow(d, r.lines)
      PROVE  [r EXCEPT !.lines = ls] = ClosingRow(d, ls)
  <2>1. \A x : /\ ClosingRow(d, x).status = "DRAFT" /\ ClosingRow(d, x).lines = x
               /\ ClosingRow(d, x).date = d /\ ClosingRow(d, x).period = None
               /\ ClosingRow(d, x).deleted = FALSE /\ ClosingRow(d, x).reverses = None
               /\ ClosingRow(d, x).closing = TRUE
    BY DEF ClosingRow, DraftRow
  <2>2. d \in Date
    BY <1>3, <2>1 DEF Row
  <2>3. PICK s \in Row : s = ClosingRow(d, ls)
    BY <2>2, RowTypes
  <2>4. s = [status |-> s.status, lines |-> s.lines, date |-> s.date, period |-> s.period,
             deleted |-> s.deleted, reverses |-> s.reverses, closing |-> s.closing]
    BY DEF Row
  <2>5. /\ s.status = "DRAFT" /\ s.lines = ls /\ s.date = d /\ s.period = None
        /\ s.deleted = FALSE /\ s.reverses = None /\ s.closing = TRUE
    BY <2>1, <2>3
  <2>6. PICK c : c = ClosingRow(d, r.lines)
    OBVIOUS
  <2>7. /\ c.status = "DRAFT" /\ c.date = d /\ c.period = None
        /\ c.deleted = FALSE /\ c.reverses = None /\ c.closing = TRUE
    BY <2>1, <2>6
  <2>8. r = c
    BY <1>3, <2>6
  <2>9. [r EXCEPT !.lines = ls] = s
    BY <1>1, <2>4, <2>5, <2>7, <2>8
  <2> QED BY <2>3, <2>9
<1> QED BY <1>2, <1>3 DEF Inserted

LEMMA InsertLineKeeps ==
  ASSUME IInv, NEW p \in Proc, InsertLine(p)
  PROVE  IInv'
<1> SUFFICES ASSUME NEW t, t = tx[p], NEW w, w = pend[p] PROVE IInv'
  OBVIOUS
<1>1. /\ t.pc = "insLine" /\ Statement(p, "insLine") /\ t.lines # << >>
      /\ Serial!LinesAllowed(<< NextLine(p) >>)
      /\ WriteEntry(p, Target(p), [MyRow(p) EXCEPT !.lines = Append(@, NextLine(p))])
  BY DEF InsertLine, Statement
<1>2. /\ t \in Job /\ w \in Writing /\ t.op \in Inserts \cup {"update"}
      /\ Placed(t) /\ NewSet(t) /\ Read(t, entry) /\ ToLock(t, entry)
      /\ Written(t, w, entry) /\ DOMAIN w.balance = Published(t, entry)
      /\ Holds(p, t, locks, entry)
  BY <1>1, AtWork, OpsAt
<1>3. PICK s \in {"insLine", "validate", "commit"} :
        /\ s = IF Len(MyRow(p).lines) + 1 < Len(t.lines) THEN "insLine"
               ELSE IF t.op \in {"reverse", "close"} THEN "validate" ELSE "commit"
        /\ tx' = [tx EXCEPT ![p] = [t EXCEPT !.pc = s]]
  BY DEF InsertLine, Goto, IInv, Typed
<1>4. PICK u \in Job : tx' = [tx EXCEPT ![p] = u] /\ Moved(t, u, s)
  <2>1. s \in Steps
    BY <1>3 DEF Steps
  <2> QED BY <1>2, <1>3, <2>1, Move
\* The row, whether inserted or under edit.
<1>5. PICK e \in Entry, r \in Row :
        /\ e = Target(p) /\ e = (IF t.new # None THEN t.new ELSE t.id)
        /\ r = MyRow(p) /\ r = w.entry[e] /\ DOMAIN w.entry = {e} /\ Copied(r.lines, t)
        /\ t.new = None <=> t.op = "update"
        /\ t.op = "update" => Touched(t)
  <2>1. CASE t.op = "update"
    <3>1. t.new = None /\ Touched(t) /\ t.id \in Entry
      BY <1>1, <1>2, <2>1 DEF NewSet, Inserts, Touched, Edits, Placed
    <3>2. Target(p) = t.id /\ MyRow(p) = w.entry[t.id] /\ MyRow(p) \in Row
      BY <1>1, <3>1, RowSeen
    <3>3. DOMAIN w.entry = {t.id} /\ Copied(w.entry[t.id].lines, t)
      BY <1>1, <1>2, <2>1, <3>1 DEF Written
    <3> QED BY <2>1, <3>1, <3>2, <3>3
  <2>2. CASE t.op # "update"
    <3>1. t.new \in Entry /\ t.new # None /\ ~Flipped(t) /\ ~Touched(t)
      BY <1>1, <1>2, <2>2, EntryAssumption
         DEF NewSet, Inserts, Flipped, Touched, Edits, EntryAssumption
    <3>2. Target(p) = t.new /\ MyRow(p) = w.entry[t.new] /\ MyRow(p) \in Row
      BY <1>1, <3>1, RowSeen
    <3>3. DOMAIN w.entry = {t.new} /\ Copied(w.entry[t.new].lines, t)
      BY <1>2, <3>1 DEF Written
    <3> QED BY <2>2, <3>1, <3>2, <3>3
  <2> QED BY <2>1, <2>2
<1>6. PICK ls \in Seq(Line) :
        /\ ls = Append(r.lines, t.lines[Len(r.lines) + 1])
        /\ NextLine(p) = t.lines[Len(r.lines) + 1]
        /\ Copied(ls, u)
  <2>1. NextLine(p) = t.lines[Len(r.lines) + 1]
    BY <1>5 DEF NextLine
  <2>2. OneSided(t.lines[Len(r.lines) + 1])
    <3>1. \A x : Serial!LinesAllowed(<< x >>) => Serial!OneSided(x)
      BY DEF Serial!LinesAllowed
    <3>2. \A x : Serial!OneSided(x) => OneSided(x)
      BY DEF Serial!OneSided, OneSided
    <3> QED BY <1>1, <2>1, <3>1, <3>2
  <2>3. u.pc = "insLine" <=> Len(r.lines) + 1 < Len(t.lines)
    BY <1>3, <1>4, <1>5 DEF Moved
  <2>4. u.lines = t.lines /\ u.op = t.op /\ t.lines \in Seq(LineDto)
    BY <1>2, <1>4 DEF Moved, Job
  <2>5. Append(r.lines, t.lines[Len(r.lines) + 1]) \in Seq(Line)
    BY <1>1, <1>5, <2>2, <2>3, <2>4, CopyMore
  <2>6. Copied(Append(r.lines, t.lines[Len(r.lines) + 1]), u)
    BY <1>1, <1>5, <2>2, <2>3, <2>4, CopyMore
  <2> QED BY <2>1, <2>5, <2>6
<1>7. PICK r2 \in Row : r2 = [r EXCEPT !.lines = ls] /\ WriteEntry(p, e, r2)
  <2>1. [r EXCEPT !.lines = ls] \in Row
    BY DEF Row
  <2>2. [r EXCEPT !.lines = Append(@, NextLine(p))] = [r EXCEPT !.lines = ls]
    BY <1>6
  <2> QED BY <1>1, <1>5, <2>1, <2>2
<1>8. r2.lines = ls
  BY <1>7 DEF Row
<1>9. PICK v \in Writing :
        /\ pend' = [pend EXCEPT ![p] = v] /\ v.entry = Put(w.entry, e, r2)
        /\ v.balance = w.balance /\ v.control = w.control /\ v.closed = w.closed
  BY <1>7, WriteFacts
<1>10. DOMAIN v.entry = {e} /\ v.entry[e] = r2
  BY <1>5, <1>9 DEF Put
<1>11. Placed(u)
  BY <1>1, <1>2, <1>3, <1>4 DEF Moved, Placed, StepsOf, Inserts
<1>12. NewSet(u)
  BY <1>1, <1>2, <1>3, <1>4 DEF Moved, NewSet, Inserts
<1>13. Read(u, entry) /\ ToLock(u, entry)
  BY <1>1, <1>2, <1>3, <1>4 DEF Moved, Read, ToLock, Inserts, Edits
<1>14. Written(u, v, entry)
  <2>1. (u.op # "child" => v.control = {}) /\ (u.op # "close" => v.closed = {})
    BY <1>2, <1>4, <1>9 DEF Moved, Written
  <2>2. CASE t.op = "update"
    <3>1. t.new = None /\ e = t.id /\ r = Edited(t, entry[t.id], r.lines)
      BY <1>2, <1>5, <2>2 DEF Written
    <3>2. entry[t.id] \in Row
      BY <1>2, <2>2, TablesTyped DEF IInv, Read, Edits
    <3>3. r = [entry[t.id] EXCEPT !.date = t.date, !.lines = r.lines]
      BY <1>1, <2>2, <3>1 DEF Edited
    <3>4. r2 = [entry[t.id] EXCEPT !.date = t.date, !.lines = ls]
      BY <1>7, <3>2, <3>3 DEF Row
    <3>5. /\ u.op = "update" /\ u.new = None /\ u.id = t.id /\ u.date = t.date
          /\ u.pc \in {"insLine", "commit"}
      BY <1>3, <1>4, <2>2, <3>1 DEF Moved
    <3>6. r2 = Edited(u, entry[t.id], ls)
      BY <3>4, <3>5 DEF Edited
    <3>7. Touched(u)
      BY <3>5 DEF Touched, Edits
    <3> QED BY <1>6, <1>8, <1>10, <2>1, <3>1, <3>5, <3>6, <3>7 DEF Written
  <2>3. CASE t.op # "update"
    <3>1. t.new # None /\ e = t.new /\ r = Inserted(t, r.lines)
      <4>1. ~Flipped(t)
        BY <1>1 DEF Flipped
      <4> QED BY <1>2, <1>5, <2>3, <4>1 DEF Written
    <3>2. r2 = Inserted(u, ls)
      <4>1. [r EXCEPT !.lines = ls] = Inserted(t, ls)
        BY <3>1, SameHeader
      <4>2. Inserted(u, ls) = Inserted(t, ls)
        BY <1>4 DEF Moved, Inserted
      <4> QED BY <1>7, <4>1, <4>2
    <3>3. u.op = t.op /\ u.new = t.new
      BY <1>4 DEF Moved
    <3>4. ~Touched(u) /\ ~Flipped(u)
      BY <1>2, <1>3, <1>4, <2>3 DEF Moved, Touched, Flipped, Inserts, Edits
    <3> QED BY <1>6, <1>8, <1>10, <2>1, <3>1, <3>2, <3>3, <3>4 DEF Written
  <2> QED BY <2>2, <2>3
<1>15. DOMAIN v.balance = Published(u, entry)
  BY <1>1, <1>2, <1>3, <1>4, <1>9 DEF Moved, Published, Folding, Inserts, Posts
<1>16. locks \subseteq locks'
  BY <1>1, GrantKeeps
<1>17. Holds(p, u, locks', entry)
  <2>1. Holds(p, t, locks', entry)
    BY <1>2, <1>16, HoldsMore
  <2> QED BY <1>1, <1>2, <1>3, <1>4, <2>1 DEF Moved, Holds, Folding, Inserts, Posts, Edits
<1>18. u.pc # "idle" /\ t.pc # "idle" /\ u.op = t.op /\ u.op # "post" /\ u.new = t.new
  BY <1>1, <1>2, <1>3, <1>4 DEF Moved, Inserts
<1> QED BY <1>1, <1>2, <1>4, <1>9, <1>11, <1>12, <1>13, <1>14, <1>15, <1>17, <1>18,
        StatementKeeps

LEMMA DiscardHeaderKeeps ==
  ASSUME IInv, NEW p \in Proc, DiscardHeader(p)
  PROVE  IInv'
<1> SUFFICES ASSUME NEW t, t = tx[p], NEW w, w = pend[p] PROVE IInv'
  OBVIOUS
<1>1. /\ t.pc = "insLine" /\ t.lines = << >>
      /\ tx' = [tx EXCEPT ![p] = [t EXCEPT !.new = None, !.pc = "closePeriod"]]
      /\ pend' = [pend EXCEPT ![p] = [w EXCEPT !.entry = << >>]]
      /\ UNCHANGED <<tables, locks>>
  BY DEF DiscardHeader, tables, IInv, Typed
<1>2. /\ t \in Job /\ w \in Writing /\ t.op \in Inserts \cup {"update"}
      /\ Placed(t) /\ NewSet(t) /\ Read(t, entry) /\ ToLock(t, entry)
      /\ Written(t, w, entry) /\ DOMAIN w.balance = Published(t, entry)
      /\ Holds(p, t, locks, entry)
  BY <1>1, AtWork, OpsAt
<1>3. t.op = "close"
  <2>1. Len(t.lines) = 0
    BY <1>1
  <2>2. t.op \notin {"create", "transfer", "update"}
    BY <1>2, <2>1 DEF Placed
  <2>3. t.op # "reverse"
    <3> SUFFICES ASSUME t.op = "reverse" PROVE FALSE
      OBVIOUS
    <3>1. /\ t.id \in DOMAIN entry /\ entry[t.id].status = "POSTED"
          /\ t.lines = Mirror(entry[t.id].lines)
      BY <1>1, <1>2 DEF Read
    <3>2. entry[t.id] \in Row /\ Balanced(entry[t.id].lines)
      BY <3>1, TablesTyped DEF IInv, Books
    <3>3. PICK ls \in Seq(Line) : ls = entry[t.id].lines /\ Len(ls) >= 2 /\ t.lines = Mirror(ls)
      BY <3>1, <3>2 DEF Row, Balanced
    <3> QED BY <2>1, <3>3, MirrorLength
  <2> QED BY <1>2, <2>2, <2>3 DEF Inserts
<1>4. PICK u \in Job :
        /\ tx' = [tx EXCEPT ![p] = u]
        /\ u.pc = "closePeriod" /\ u.new = None /\ u.op = "close" /\ u.todo = t.todo
        /\ u.per = t.per
  <2> DEFINE v1 == [t EXCEPT !.new = None, !.pc = "closePeriod"]
  <2>1. "closePeriod" \in Steps
    BY DEF Steps
  <2>2. v1 \in Job /\ v1.pc = "closePeriod" /\ v1.new = None
    BY <1>2, <2>1 DEF Job
  <2>3. v1.op = "close" /\ v1.todo = t.todo /\ v1.per = t.per
    BY <1>2, <1>3 DEF Job
  <2>4. tx' = [tx EXCEPT ![p] = v1]
    BY <1>1
  <2> HIDE DEF v1
  <2> QED BY <2>2, <2>3, <2>4
<1>5. PICK v \in Writing :
        /\ pend' = [pend EXCEPT ![p] = v] /\ v.balance = w.balance /\ v.entry = << >>
        /\ v.control = w.control
  <2> DEFINE v1 == [w EXCEPT !.entry = << >>]
  <2>1. << >> \in Tables(Entry, Row)
    <3>1. NoWrites.entry = << >> /\ NoWrites.entry \in Tables(Entry, Row)
      BY JobTypes DEF NoWrites, Writing
    <3> QED BY <3>1
  <2>2. v1 \in Writing /\ v1.balance = w.balance /\ v1.entry = << >> /\ v1.control = w.control
    BY <1>2, <2>1 DEF Writing
  <2>3. pend' = [pend EXCEPT ![p] = v1]
    BY <1>1
  <2> HIDE DEF v1
  <2> QED BY <2>2, <2>3
<1>6. Placed(u)
  BY <1>2, <1>3, <1>4 DEF Placed, StepsOf, Edits
<1>7. NewSet(u)
  BY <1>4 DEF NewSet
<1>8. Read(u, entry) /\ ToLock(u, entry)
  BY <1>1, <1>2, <1>4 DEF Read, ToLock, Edits
<1>9. Written(u, v, entry)
  <2>1. DOMAIN v.entry = {}
    BY <1>5
  <2>2. ~Touched(u)
    BY <1>4 DEF Touched, Edits
  <2> QED BY <1>2, <1>3, <1>4, <1>5, <2>1, <2>2 DEF Written
<1>10. DOMAIN v.balance = Published(u, entry)
  BY <1>1, <1>2, <1>3, <1>4, <1>5 DEF Published, Folding
<1>11. Holds(p, u, locks, entry)
  BY <1>1, <1>2, <1>3, <1>4 DEF Holds, Folding, Edits
<1>12. u.pc # "idle" /\ t.pc # "idle" /\ u.op = t.op /\ u.op # "post"
  BY <1>1, <1>3, <1>4
<1> QED BY <1>1, <1>2, <1>4, <1>5, <1>6, <1>7, <1>8, <1>9, <1>10, <1>11, <1>12, QuietKeeps

\* The row of a draft under edit; its status is not looked at again.
LEMMA UpdateHeaderKeeps ==
  ASSUME IInv, NEW p \in Proc, UpdateHeader(p)
  PROVE  IInv'
<1> SUFFICES ASSUME NEW t, t = tx[p], NEW w, w = pend[p] PROVE IInv'
  OBVIOUS
<1>1. /\ t.pc = "updHeader" /\ Statement(p, "updHeader")
      /\ t.op = "restore" => MyRow(p).deleted /\ MyRow(p).status = "DRAFT"
      /\ tx' = [tx EXCEPT ![p] = [t EXCEPT !.pc = "audUpdate"]]
  BY DEF UpdateHeader, Goto, Statement, IInv, Typed
<1>2. /\ t \in Job /\ w \in Writing /\ t.op \in Edits
      /\ Placed(t) /\ NewSet(t) /\ Read(t, entry) /\ ToLock(t, entry)
      /\ Written(t, w, entry) /\ DOMAIN w.balance = Published(t, entry)
      /\ Holds(p, t, locks, entry)
  BY <1>1, AtWork, OpsAt
<1>3. PICK u \in Job : tx' = [tx EXCEPT ![p] = u] /\ Moved(t, u, "audUpdate")
  BY <1>1, <1>2, Move DEF Steps
<1>4. t.new = None /\ ~Touched(t) /\ t.id \in DOMAIN entry /\ t.id \in Entry
  BY <1>1, <1>2 DEF NewSet, Inserts, Touched, Edits, Read, Placed
<1>5. PICK r \in Row : r = MyRow(p) /\ r = entry[t.id]
  BY <1>1, <1>4, RowSeen
<1>6. PICK r2 \in Row : WriteEntry(p, t.id, r2) /\ \A ls : r2 = Edited(u, r, ls)
  <2>1. u.op = t.op /\ u.pc = "audUpdate" /\ u.date = t.date
    BY <1>3 DEF Moved
  <2>2. CASE t.op = "update"
    <3>1. WriteEntry(p, t.id, [r EXCEPT !.date = t.date])
      BY <1>5, <2>2 DEF UpdateHeader
    <3>2. [r EXCEPT !.date = t.date] \in Row
      BY <1>2, <2>2 DEF Placed, Row
    <3>3. \A ls : Edited(u, r, ls) = [r EXCEPT !.date = t.date]
      BY <2>1, <2>2 DEF Edited
    <3> QED BY <3>1, <3>2, <3>3
  <2>3. CASE t.op = "delete"
    <3>1. WriteEntry(p, t.id, [r EXCEPT !.deleted = TRUE])
      BY <1>5, <2>3 DEF UpdateHeader
    <3>2. [r EXCEPT !.deleted = TRUE] \in Row
      BY DEF Row
    <3>3. \A ls : Edited(u, r, ls) = [r EXCEPT !.deleted = TRUE]
      BY <2>1, <2>3 DEF Edited
    <3> QED BY <3>1, <3>2, <3>3
  <2>4. CASE t.op = "restore"
    <3>1. WriteEntry(p, t.id, [r EXCEPT !.deleted = FALSE])
      BY <1>5, <2>4 DEF UpdateHeader
    <3>2. [r EXCEPT !.deleted = FALSE] \in Row
      BY DEF Row
    <3>3. \A ls : Edited(u, r, ls) = [r EXCEPT !.deleted = FALSE]
      BY <2>1, <2>4 DEF Edited
    <3> QED BY <3>1, <3>2, <3>3
  <2> QED BY <1>2, <2>2, <2>3, <2>4 DEF Edits
<1>7. PICK v \in Writing :
        /\ pend' = [pend EXCEPT ![p] = v] /\ v.entry = Put(w.entry, t.id, r2)
        /\ v.balance = w.balance /\ v.control = w.control /\ v.closed = w.closed
  BY <1>4, <1>6, WriteFacts
<1>8. DOMAIN v.entry = {t.id} /\ v.entry[t.id] = r2
  <2>1. DOMAIN w.entry = {}
    BY <1>2, <1>4 DEF Written
  <2> QED BY <1>7, <2>1 DEF Put
<1>9. Placed(u) /\ NewSet(u)
  BY <1>1, <1>2, <1>3 DEF Moved, Placed, StepsOf, NewSet, Inserts, Edits
<1>10. Read(u, entry) /\ ToLock(u, entry)
  BY <1>1, <1>2, <1>3, <1>5 DEF Moved, Read, ToLock, Edits
<1>11. Written(u, v, entry)
  <2>1. /\ Touched(u) /\ u.id = t.id /\ u.new = None /\ u.pc = "audUpdate"
        /\ u.op \notin {"child", "close"}
    BY <1>2, <1>3, <1>4 DEF Moved, Touched, Edits
  <2>2. v.control = {} /\ v.closed = {}
    BY <1>2, <1>7 DEF Written, Edits
  <2> QED BY <1>5, <1>6, <1>8, <2>1, <2>2 DEF Written
<1>12. DOMAIN v.balance = Published(u, entry)
  BY <1>1, <1>2, <1>3, <1>7 DEF Moved, Published, Folding, Edits, Posts
<1>13. /\ locks \subseteq locks' /\ Granted(p) \subseteq locks'
       /\ Granted(p) = {Lock(p, <<"entry", t.id>>, "NO KEY UPDATE")}
  BY <1>1, GrantKeeps, GrantedAt
<1>14. Holds(p, u, locks', entry)
  <2>1. Has(p, <<"entry", t.id>>, "NO KEY UPDATE", locks')
    BY <1>13 DEF Has, Lock
  <2> QED BY <1>1, <1>2, <1>3, <2>1 DEF Moved, Holds, Folding, Edits, Posts
<1>15. u.pc # "idle" /\ t.pc # "idle" /\ u.op = t.op /\ u.op # "post" /\ u.new = t.new
  BY <1>1, <1>2, <1>3 DEF Moved, Edits
<1> QED BY <1>1, <1>2, <1>3, <1>7, <1>9, <1>10, <1>11, <1>12, <1>14, <1>15, StatementKeeps

\* The lines of a draft under edit.
LEMMA AuditUpdateKeeps ==
  ASSUME IInv, NEW p \in Proc, AuditUpdate(p)
  PROVE  IInv'
<1> SUFFICES ASSUME NEW t, t = tx[p], NEW w, w = pend[p] PROVE IInv'
  OBVIOUS
<1>1. t.pc = "audUpdate" /\ Statement(p, "audUpdate")
  BY DEF AuditUpdate, Statement
<1>2. /\ t \in Job /\ w \in Writing /\ t.op \in Edits
      /\ Placed(t) /\ NewSet(t) /\ Read(t, entry) /\ ToLock(t, entry)
      /\ Written(t, w, entry) /\ DOMAIN w.balance = Published(t, entry)
      /\ Holds(p, t, locks, entry)
  BY <1>1, AtWork, OpsAt
<1>3. PICK s \in {"insLine", "commit"} :
        /\ s = IF t.op = "update" THEN "insLine" ELSE "commit"
        /\ tx' = [tx EXCEPT ![p] = [t EXCEPT !.pc = s]]
  BY DEF AuditUpdate, Goto, IInv, Typed
<1>4. PICK u \in Job : tx' = [tx EXCEPT ![p] = u] /\ Moved(t, u, s)
  <2>1. s \in Steps
    BY <1>3 DEF Steps
  <2> QED BY <1>2, <1>3, <2>1, Move
<1>5. /\ t.new = None /\ Touched(t) /\ t.id \in DOMAIN entry /\ t.id \in Entry
      /\ DOMAIN w.entry = {t.id} /\ w.control = {} /\ w.closed = {}
  <2>1. t.new = None /\ Touched(t) /\ t.id \in DOMAIN entry /\ t.id \in Entry
    BY <1>1, <1>2 DEF NewSet, Inserts, Touched, Edits, Read, Placed
  <2> QED BY <1>2, <2>1 DEF Written, Edits
<1>6. PICK v \in Writing :
        /\ pend' = [pend EXCEPT ![p] = v]
        /\ v.balance = w.balance /\ v.control = w.control /\ v.closed = w.closed
        /\ DOMAIN v.entry = {t.id}
        /\ v.entry[t.id] = Edited(u, entry[t.id], v.entry[t.id].lines)
        /\ u.op = "update" => Copied(v.entry[t.id].lines, u)
  <2>1. CASE t.op = "update"
    <3>1. MyRow(p) = w.entry[t.id] /\ w.entry[t.id] = [entry[t.id] EXCEPT !.date = t.date]
      <4>1. MyRow(p) = w.entry[t.id]
        BY <1>1, <1>5, RowSeen
      <4>2. w.entry[t.id] = Edited(t, entry[t.id], w.entry[t.id].lines)
        BY <1>2, <1>5 DEF Written
      <4> QED BY <1>1, <2>1, <4>1, <4>2 DEF Edited
    <3>2. entry[t.id] \in Row /\ t.date \in Date /\ << >> \in Seq(Line)
      BY <1>2, <1>5, <2>1, TablesTyped DEF IInv, Placed
    <3>3. PICK r \in Row : r = [entry[t.id] EXCEPT !.date = t.date, !.lines = << >>]
      BY <3>2 DEF Row
    <3>4. WriteEntry(p, t.id, r)
      <4>1. WriteEntry(p, t.id, [MyRow(p) EXCEPT !.lines = << >>])
        BY <2>1 DEF AuditUpdate
      <4>2. [MyRow(p) EXCEPT !.lines = << >>] = r
        BY <3>1, <3>2, <3>3 DEF Row
      <4> QED BY <4>1, <4>2
    <3>5. PICK v \in Writing :
            /\ pend' = [pend EXCEPT ![p] = v] /\ v.entry = Put(w.entry, t.id, r)
            /\ v.balance = w.balance /\ v.control = w.control /\ v.closed = w.closed
      BY <1>5, <3>4, WriteFacts
    <3>6. DOMAIN v.entry = {t.id} /\ v.entry[t.id] = r
      BY <1>5, <3>5 DEF Put
    <3>7. /\ u.op = "update" /\ u.pc = "insLine" /\ u.date = t.date /\ u.lines = t.lines
      BY <1>3, <1>4, <2>1 DEF Moved
    <3>8. r.lines = << >> /\ r = Edited(u, entry[t.id], << >>)
      BY <3>2, <3>3, <3>7 DEF Edited, Row
    <3>9. Copied(<< >>, u)
      <4>1. Len(u.lines) >= 2 /\ u.lines \in Seq(LineDto)
        BY <1>2, <2>1, <3>7 DEF Placed, Job
      <4>2. << >> \in Seq(Line) /\ Len(<< >>) = 0
        OBVIOUS
      <4>3. Len(u.lines) \in Nat
        BY <4>1
      <4> QED BY <3>7, <4>1, <4>2, <4>3 DEF Copied
    <3> QED BY <3>5, <3>6, <3>8, <3>9
  <2>2. CASE t.op # "update"
    <3>1. pend' = [pend EXCEPT ![p] = w]
      BY <2>2 DEF AuditUpdate, IInv, Typed
    <3>2. w.entry[t.id] = Edited(t, entry[t.id], w.entry[t.id].lines)
      BY <1>2, <1>5 DEF Written
    <3>3. Edited(u, entry[t.id], w.entry[t.id].lines) = Edited(t, entry[t.id], w.entry[t.id].lines)
      BY <1>2, <1>4, <2>2 DEF Moved, Edited, Edits
    <3>4. u.op # "update"
      BY <1>4, <2>2 DEF Moved
    <3> QED BY <1>2, <1>5, <3>1, <3>2, <3>3, <3>4
  <2> QED BY <2>1, <2>2
<1>7. Placed(u) /\ NewSet(u)
  BY <1>1, <1>2, <1>3, <1>4 DEF Moved, Placed, StepsOf, NewSet, Inserts, Edits
<1>8. Read(u, entry) /\ ToLock(u, entry)
  BY <1>1, <1>2, <1>3, <1>4 DEF Moved, Read, ToLock, Edits
<1>9. Written(u, v, entry)
  <2>1. /\ Touched(u) /\ u.id = t.id /\ u.new = None
    BY <1>2, <1>3, <1>4, <1>5 DEF Moved, Touched
  <2> QED BY <1>5, <1>6, <2>1 DEF Written
<1>10. DOMAIN v.balance = Published(u, entry)
  BY <1>1, <1>2, <1>3, <1>4, <1>6 DEF Moved, Published, Folding, Edits, Posts
<1>11. /\ locks \subseteq locks' /\ Granted(p) \subseteq locks'
       /\ Granted(p) = {Lock(p, AuditLock, "UPDATE")}
  BY <1>1, GrantKeeps, GrantedAt
<1>12. Holds(p, u, locks', entry)
  <2>1. Holds(p, t, locks', entry)
    BY <1>2, <1>11, HoldsMore
  <2>2. Has(p, AuditLock, "UPDATE", locks')
    BY <1>11 DEF Has, Lock
  <2> QED BY <1>1, <1>2, <1>3, <1>4, <2>1, <2>2 DEF Moved, Holds, Folding, Edits, Posts
<1>13. u.pc # "idle" /\ t.pc # "idle" /\ u.op = t.op /\ u.op # "post" /\ u.new = t.new
  BY <1>1, <1>2, <1>3, <1>4 DEF Moved, Edits
<1> QED BY <1>1, <1>2, <1>4, <1>6, <1>7, <1>8, <1>9, <1>10, <1>12, <1>13, StatementKeeps

-----------------------------------------------------------------------------
(* The end of a transaction.                                               *)

\* It relies on the row of the entry its request names.
Pinned(t) ==
  \/ t.op \in {"post", "reverse"} /\ t.pc # "lockEntry"
  \/ t.op \in Edits /\ t.pc \in {"audUpdate", "insLine", "commit"}

\* A connection keeps its place when others change the tables elsewhere.
LEMMA ConnSame ==
  ASSUME NEW q, NEW t, NEW w, NEW L, NEW M, NEW E, NEW F, Conn(q, t, w, L, E),
         \A on, mode : Has(q, on, mode, L) => Has(q, on, mode, M),
         DOMAIN E \subseteq DOMAIN F, Pinned(t) => F[t.id] = E[t.id]
  PROVE  Conn(q, t, w, M, F)
<1>1. CASE t.pc = "idle"
  BY <1>1 DEF Conn
<1>2. CASE t.pc # "idle"
  <2>1. /\ Placed(t) /\ NewSet(t) /\ Read(t, E) /\ ToLock(t, E)
        /\ Written(t, w, E) /\ DOMAIN w.balance = Published(t, E) /\ Holds(q, t, L, E)
    BY <1>2 DEF Conn
  <2>2. t.pc \in {"lockAccount", "fold", "audFold", "flip", "markSource", "closePeriod", "commit"} =>
          Folded(t, F) = Folded(t, E)
    BY DEF Folded, Pinned
  <2>3. Read(t, F)
    BY <2>1 DEF Read, Pinned, Placed, StepsOf, Edits
  <2>4. ToLock(t, F)
    BY <2>1, <2>2 DEF ToLock
  <2>5. Touched(t) => Pinned(t)
    BY DEF Touched, Pinned
  <2>6. Written(t, w, F)
    BY <2>1, <2>5 DEF Written
  <2>7. Published(t, F) = Published(t, E)
    BY <2>2 DEF Published, Folding
  <2>8. Holds(q, t, M, F)
    BY <2>1, <2>2 DEF Holds, Folding
  <2> QED BY <1>2, <2>1, <2>3, <2>4, <2>6, <2>7, <2>8 DEF Conn
<1> QED BY <1>1, <1>2

\* The ids that the open transaction of p writes, and the tables it leaves.
LEMMA CommitTables ==
  ASSUME IInv, NEW p \in Proc, Commit(p)
  PROVE  /\ tx[p].pc = "commit"
         /\ DOMAIN pend[p].entry \subseteq DOMAIN entry \cup {tx[p].new}
         /\ tx[p].new # None => tx[p].new \in DOMAIN pend[p].entry
         /\ \A e \in DOMAIN pend[p].entry : e # tx[p].new => e = tx[p].id /\ Touched(tx[p])
         /\ DOMAIN entry' = DOMAIN entry \cup DOMAIN pend[p].entry
         /\ \A e \in DOMAIN pend[p].entry : entry'[e] = pend[p].entry[e]
         /\ \A e \in DOMAIN entry \ DOMAIN pend[p].entry : entry'[e] = entry[e]
         /\ Books'
<1> SUFFICES ASSUME NEW t, t = tx[p], NEW w, w = pend[p]
             PROVE  /\ t.pc = "commit"
                    /\ DOMAIN w.entry \subseteq DOMAIN entry \cup {t.new}
                    /\ t.new # None => t.new \in DOMAIN w.entry
                    /\ \A e \in DOMAIN w.entry : e # t.new => e = t.id /\ Touched(t)
                    /\ DOMAIN entry' = DOMAIN entry \cup DOMAIN w.entry
                    /\ \A e \in DOMAIN w.entry : entry'[e] = w.entry[e]
                    /\ \A e \in DOMAIN entry \ DOMAIN w.entry : entry'[e] = entry[e]
                    /\ Books'
  OBVIOUS
<1>1. /\ t.pc = "commit"
      /\ \A e \in DOMAIN w.entry : w.entry[e].status = "POSTED" => Balanced(w.entry[e].lines)
      /\ entry' = Overlay(entry, w.entry) /\ balance' = Overlay(balance, w.balance)
      /\ postable' = [a \in Account |-> postable[a] /\ a \notin w.control]
      /\ period' = [q \in Period |-> IF q \in w.closed THEN "CLOSED" ELSE period[q]]
  BY DEF Commit, DeferredChecks, Seen
<1>2. /\ w \in Writing /\ Placed(t) /\ Read(t, entry) /\ Written(t, w, entry)
  BY <1>1, AtWork
<1>3. /\ DOMAIN w.entry = (IF t.new = None THEN {} ELSE {t.new})
                            \cup (IF Touched(t) THEN {t.id} ELSE {})
      /\ Touched(t) => t.id \in DOMAIN entry
  BY <1>2 DEF Written, Read, Touched
<1>4. /\ DOMAIN entry' = DOMAIN entry \cup DOMAIN w.entry
      /\ \A e \in DOMAIN w.entry : entry'[e] = w.entry[e]
      /\ \A e \in DOMAIN entry \ DOMAIN w.entry : entry'[e] = entry[e]
  BY <1>1 DEF Overlay
<1>5. Books'
  <2>1. /\ DOMAIN entry \subseteq Entry /\ IsFiniteSet(DOMAIN entry)
        /\ entry \in [DOMAIN entry -> Row] /\ balance \in [Account -> Int]
        /\ postable \in [Account -> BOOLEAN] /\ period \in [Period -> PeriodStatus]
        /\ \A e \in DOMAIN entry : entry[e].status = "POSTED" => Balanced(entry[e].lines)
    BY TablesTyped DEF IInv, Books
  <2>2. DOMAIN w.entry \subseteq Entry /\ \A e \in DOMAIN w.entry : w.entry[e] \in Row
    BY <1>2 DEF Writing, Tables
  <2>3. IsFiniteSet(DOMAIN entry')
    <3>1. /\ IsFiniteSet(IF t.new = None THEN {} ELSE {t.new})
          /\ IsFiniteSet(IF Touched(t) THEN {t.id} ELSE {})
      BY FS_EmptySet, FS_Singleton
    <3>2. IsFiniteSet(DOMAIN w.entry)
      BY <1>3, <3>1, FS_Union
    <3>3. PICK S, R : S = DOMAIN entry /\ R = DOMAIN w.entry
      OBVIOUS
    <3>4. IsFiniteSet(S \cup R)
      BY <2>1, <3>2, <3>3, FS_Union
    <3> QED BY <1>4, <3>3, <3>4
  <2>4. DOMAIN entry' \subseteq Entry /\ entry' \in [DOMAIN entry' -> Row]
    <3>1. \A e \in DOMAIN entry' : entry'[e] \in Row
      BY <1>4, <2>1, <2>2
    <3>2. entry' = [e \in DOMAIN entry' |-> entry'[e]]
      BY <1>1 DEF Overlay
    <3>3. DOMAIN entry' \subseteq Entry
      BY <1>4, <2>1, <2>2
    <3> QED BY <3>1, <3>2, <3>3
  <2>5. balance' \in [Account -> Int]
    <3>1. /\ DOMAIN w.balance \subseteq Account /\ \A a \in DOMAIN w.balance : w.balance[a] \in Int
      BY <1>2 DEF Writing, Tables
    <3>2. DOMAIN balance \cup DOMAIN w.balance = Account
      BY <2>1, <3>1
    <3> QED BY <1>1, <2>1, <3>1, <3>2 DEF Overlay
  <2>6. postable' \in [Account -> BOOLEAN]
    BY <1>1, <2>1
  <2>7. period' \in [Period -> PeriodStatus]
    BY <1>1, <2>1 DEF PeriodStatus
  <2>8. \A e \in DOMAIN entry' : entry'[e].status = "POSTED" => Balanced(entry'[e].lines)
    BY <1>1, <1>4, <2>1
  <2>9. Serial!Row = Row /\ Serial!PeriodStatus = PeriodStatus
    BY DEF Serial!Row, Row, Serial!JournalStatus, JournalStatus, Serial!Line, Line,
           Serial!LineDto, LineDto, Serial!OneSided, OneSided, Serial!PeriodStatus, PeriodStatus
  <2>10. Serial!TypeOK'
    BY <2>4, <2>5, <2>6, <2>7, <2>9 DEF Serial!TypeOK
  <2> QED BY <2>3, <2>8, <2>10 DEF Books
<1> QED BY <1>1, <1>3, <1>4, <1>5

\* No two connections hold a row they write.
LEMMA TwoHolders ==
  ASSUME IInv, NEW p \in Proc, NEW q \in Proc, q # p, NEW on,
         \E m \in {"UPDATE", "NO KEY UPDATE"} : Has(p, on, m, locks),
         \E m \in {"UPDATE", "NO KEY UPDATE"} : Has(q, on, m, locks)
  PROVE  FALSE
<1>1. PICK m \in {"UPDATE", "NO KEY UPDATE"} : Has(p, on, m, locks)
  OBVIOUS
<1>2. PICK n \in {"UPDATE", "NO KEY UPDATE"} : Has(q, on, n, locks)
  OBVIOUS
<1>3. PICK k \in locks : k.proc = p /\ k.on = on /\ k.mode = m
  BY <1>1 DEF Has
<1>4. PICK l \in locks : l.proc = q /\ l.on = on /\ l.mode = n
  BY <1>2 DEF Has
<1>5. ~Conflict(m, n)
  BY <1>3, <1>4 DEF IInv, Exclusive
<1>6. "KEY SHARE" \notin {m, n}
  OBVIOUS
<1> QED BY <1>5, <1>6 DEF Conflict

\* The lock on a row lets one connection at a time rely on it and change it.
LEMMA CommitElsewhere ==
  ASSUME IInv, NEW p \in Proc, Commit(p), NEW q \in Proc, q # p, tx[q].pc # "idle", Pinned(tx[q])
  PROVE  tx[q].id \in DOMAIN entry /\ tx[q].id \notin DOMAIN pend[p].entry
<1> SUFFICES ASSUME NEW t, t = tx[q], NEW s, s = tx[p]
             PROVE  t.id \in DOMAIN entry /\ t.id \notin DOMAIN pend[p].entry
  OBVIOUS
<1>1. t.id \in DOMAIN entry
  <2>1. Read(t, entry)
    BY AtWork
  <2> QED BY <2>1 DEF Pinned, Read
<1>2. s.pc = "commit"
  BY CommitTables
<1> SUFFICES ASSUME t.id \in DOMAIN pend[p].entry PROVE FALSE
  BY <1>1
<1>3. t.id = s.id /\ Touched(s)
  <2>1. s.new # None => s.new \notin DOMAIN entry
    BY DEF IInv, NewApart
  <2>2. \A e \in DOMAIN pend[p].entry : e # s.new => e = s.id /\ Touched(s)
    BY CommitTables
  <2>3. DOMAIN entry \subseteq Entry
    BY TablesTyped DEF IInv
  <2> QED BY <1>1, <2>1, <2>2, <2>3, EntryAssumption DEF EntryAssumption
<1>4. Holds(p, s, locks, entry) /\ Holds(q, t, locks, entry) /\ t.pc # "idle"
  BY <1>2, AtWork
<1>5. PICK on : on = <<"entry", t.id>>
  OBVIOUS
<1>6. \E m \in {"UPDATE", "NO KEY UPDATE"} : Has(p, on, m, locks)
  BY <1>2, <1>3, <1>4, <1>5 DEF Touched, Holds, Edits
<1>7. \E m \in {"UPDATE", "NO KEY UPDATE"} : Has(q, on, m, locks)
  BY <1>4, <1>5 DEF Pinned, Holds
<1> QED BY <1>6, <1>7, TwoHolders

LEMMA CommitKeeps ==
  ASSUME IInv, NEW p \in Proc, Commit(p)
  PROVE  IInv'
<1> SUFFICES ASSUME NEW t, t = tx[p], NEW w, w = pend[p] PROVE IInv'
  OBVIOUS
<1> DEFINE v == IF t.op = "transfer"
                THEN [Idle EXCEPT !.pc = "lockEntry", !.op = "post", !.id = t.new] ELSE Idle
<1>1. /\ t.pc = "commit" /\ tx' = [tx EXCEPT ![p] = v]
      /\ pend' = [pend EXCEPT ![p] = NoWrites] /\ locks' = Release(p)
  BY DEF Commit
<1>2. /\ Placed(t) /\ NewSet(t) /\ Read(t, entry)
  BY <1>1, AtWork
<1>3. /\ DOMAIN w.entry \subseteq DOMAIN entry \cup {t.new}
      /\ t.new # None => t.new \in DOMAIN w.entry
      /\ DOMAIN entry' = DOMAIN entry \cup DOMAIN w.entry
      /\ \A e \in DOMAIN entry \ DOMAIN w.entry : entry'[e] = entry[e]
  BY CommitTables
<1>4. \/ v = Idle
      \/ /\ t.op = "transfer" /\ v \in Job /\ v.pc = "lockEntry" /\ v.op = "post"
         /\ v.id = t.new /\ v.new = None /\ v.todo = {} /\ t.new \in Entry
  <2> SUFFICES ASSUME t.op = "transfer"
               PROVE  /\ v \in Job /\ v.pc = "lockEntry" /\ v.op = "post"
                      /\ v.id = t.new /\ v.new = None /\ v.todo = {} /\ t.new \in Entry
    OBVIOUS
  <2>1. t.new \in Entry
    BY <1>1, <1>2 DEF NewSet, Inserts
  <2>2. "lockEntry" \in Steps /\ "post" \in Serial!OpNames
    BY DEF Steps, Serial!OpNames
  <2> QED BY <2>1, <2>2, JobTypes DEF Job
<1> HIDE DEF v
<1>5. v \in Job /\ v.new = None
  BY <1>4, JobTypes
<1>6. Conn(p, v, NoWrites, locks', entry')
  <2>1. CASE v = Idle
    BY <2>1, JobTypes DEF Conn
  <2>2. CASE v # Idle
    <3>1. /\ t.op = "transfer" /\ v.pc = "lockEntry" /\ v.op = "post" /\ v.id = t.new
          /\ v.new = None /\ v.todo = {} /\ t.new \in Entry /\ t.new # None
      BY <1>4, <2>2, EntryAssumption DEF EntryAssumption
    <3>2. Placed(v)
      BY <1>2, <3>1 DEF Placed, StepsOf, Edits, Serial!OpNames
    <3>3. NewSet(v)
      BY <3>1 DEF NewSet, Inserts
    <3>4. Read(v, entry') /\ ToLock(v, entry')
      BY <1>3, <3>1 DEF Read, ToLock, Edits
    <3>5. Written(v, NoWrites, entry')
      BY <3>1 DEF Written, NoWrites, Touched, Edits
    <3>6. DOMAIN NoWrites.balance = Published(v, entry')
      BY <3>1 DEF NoWrites, Published, Folding
    <3>7. Holds(p, v, locks', entry')
      BY <3>1 DEF Holds, Folding, Edits
    <3> QED BY <3>1, <3>2, <3>3, <3>4, <3>5, <3>6, <3>7 DEF Conn
  <2> QED BY <2>1, <2>2
<1>7. /\ tx'[p] = v /\ pend'[p] = NoWrites
      /\ \A q \in Proc : q # p => tx'[q] = tx[q] /\ pend'[q] = pend[q]
  BY <1>1 DEF IInv, Typed
<1>8. /\ \A l : l.proc # p => (l \in locks' <=> l \in locks)
      /\ \A l \in locks' : l \in locks /\ l.proc # p
  BY <1>1 DEF Release
<1>9. Typed'
  BY <1>1, <1>5, JobTypes DEF IInv, Typed
<1>10. Conns'
  <2> SUFFICES ASSUME NEW q \in Proc PROVE Conn(q, tx'[q], pend'[q], locks', entry')
    BY DEF Conns
  <2>1. CASE q = p
    BY <1>6, <1>7, <2>1
  <2>2. CASE q # p
    <3>1. Conn(q, tx[q], pend[q], locks, entry)
      BY DEF IInv, Conns
    <3>2. \A on, mode : Has(q, on, mode, locks) => Has(q, on, mode, locks')
      BY <1>8, <2>2, HasOther
    <3>3. DOMAIN entry \subseteq DOMAIN entry'
      BY <1>3
    <3>4. CASE tx[q].pc = "idle"
      BY <1>7, <2>2, <3>1, <3>4 DEF Conn
    <3>5. CASE tx[q].pc # "idle"
      <4>1. Pinned(tx[q]) => entry'[tx[q].id] = entry[tx[q].id]
        BY <1>3, <2>2, <3>5, CommitElsewhere
      <4>2. Conn(q, tx[q], pend[q], locks', entry')
        BY <3>1, <3>2, <3>3, <4>1, ConnSame
      <4> QED BY <1>7, <2>2, <4>2
    <3> QED BY <3>4, <3>5
  <2> QED BY <2>1, <2>2
<1>11. Books'
  BY CommitTables
<1>12. Exclusive'
  BY <1>8 DEF IInv, Exclusive
<1>13. NewApart'
  <2> SUFFICES ASSUME NEW q \in Proc, tx'[q].new # None
               PROVE  /\ tx'[q].new \notin DOMAIN entry'
                      /\ \A r \in Proc : r # q => tx'[r].new # tx'[q].new
    BY DEF NewApart
  <2>1. q # p /\ tx'[q].new = tx[q].new /\ tx[q].new # None
    BY <1>5, <1>7
  <2>2. tx[q].new \notin DOMAIN entry /\ \A r \in Proc : r # q => tx[r].new # tx[q].new
    BY <2>1 DEF IInv, NewApart
  <2>3. tx[q].new \notin DOMAIN entry'
    BY <1>3, <2>1, <2>2
  <2>4. \A r \in Proc : r # q => tx'[r].new # tx[q].new
    BY <1>5, <1>7, <2>1, <2>2
  <2> QED BY <2>1, <2>3, <2>4
<1>14. LocksOK'
  BY <1>7, <1>8 DEF IInv, LocksOK
<1> QED BY <1>9, <1>10, <1>11, <1>12, <1>13, <1>14 DEF IInv

-----------------------------------------------------------------------------
(* The invariant holds.                                                    *)

LEMMA InitEstablishes == Init => IInv
<1> SUFFICES ASSUME Init PROVE IInv
  OBVIOUS
<1>1. /\ Serial!Init /\ tx = [p \in Proc |-> Idle] /\ pend = [p \in Proc |-> NoWrites]
      /\ locks = {}
  BY DEF Init
<1>2. Typed
  BY <1>1, JobTypes DEF Typed
<1>3. DOMAIN entry = {} /\ entry = << >>
  BY <1>1 DEF Serial!Init
<1>4. Books
  <2>1. Serial!TypeOK
    BY <1>1, <1>3 DEF Serial!Init, Serial!TypeOK, Serial!PeriodStatus
  <2> QED BY <1>3, <2>1, FS_EmptySet DEF Books
<1>5. Conns
  BY <1>1, JobTypes DEF Conns, Conn
<1>6. NewApart
  BY <1>1, JobTypes DEF NewApart
<1>7. Exclusive /\ LocksOK
  BY <1>1 DEF Exclusive, LocksOK
<1> QED BY <1>2, <1>4, <1>5, <1>6, <1>7 DEF IInv

\* A step of one connection.
LEMMA WorkKeeps ==
  ASSUME IInv, NEW p \in Proc, Work(p)
  PROVE  IInv'
<1>1. CASE InsertHeader(p) \/ InsertLine(p) \/ DiscardHeader(p)
  BY <1>1, InsertHeaderKeeps, InsertLineKeeps, DiscardHeaderKeeps
<1>2. CASE AssertDraft(p) \/ UpdateHeader(p) \/ AuditUpdate(p)
  BY <1>2, AssertDraftKeeps, UpdateHeaderKeeps, AuditUpdateKeeps
<1>3. CASE LockEntry(p) \/ Validate(p) \/ LockAccount(p) \/ Fold(p)
  BY <1>3, LockEntryKeeps, ValidateKeeps, LockAccountKeeps, FoldKeeps
<1>4. CASE AuditFold(p) \/ Flip(p) \/ MarkSource(p)
  BY <1>4, AuditFoldKeeps, FlipKeeps, MarkSourceKeeps
<1>5. CASE LockOne(p) \/ Recompute(p) \/ AuditRecompute(p)
  BY <1>5, LockOneKeeps, RecomputeKeeps, AuditRecomputeKeeps
<1>6. CASE InsertChild(p) \/ AuditChild(p) \/ ControlParent(p)
  BY <1>6, InsertChildKeeps, AuditChildKeeps, ControlParentKeeps
<1>7. CASE TryClose(p) \/ LockPeriod(p) \/ CountDrafts(p) \/ SumNet(p) \/ ClosePeriod(p)
  BY <1>7, TryCloseKeeps, LockPeriodKeeps, CountDraftsKeeps, SumNetKeeps, ClosePeriodKeeps
<1>8. CASE Commit(p)
  BY <1>8, CommitKeeps
<1>9. CASE RestoreNothing(p) \/ Refuse(p)
  BY <1>9, EndKeeps DEF RestoreNothing, Refuse
<1> QED BY <1>1, <1>2, <1>3, <1>4, <1>5, <1>6, <1>7, <1>8, <1>9 DEF Work

LEMMA NextKeeps == IInv /\ [Next]_vars => IInv'
<1> SUFFICES ASSUME IInv, [Next]_vars PROVE IInv'
  OBVIOUS
<1>1. CASE Next
  <2>1. PICK p \in Proc : Request(p) \/ Work(p) \/ DeadlockVictim(p) \/ Crash(p)
    BY <1>1 DEF Next
  <2>2. CASE Request(p)
    BY <2>2, RequestKeeps
  <2>3. CASE Work(p)
    BY <2>3, WorkKeeps
  <2>4. CASE DeadlockVictim(p) \/ Crash(p)
    BY <2>4, EndKeeps DEF DeadlockVictim, Crash
  <2> QED BY <2>1, <2>2, <2>3, <2>4
<1>2. CASE UNCHANGED vars
  BY <1>2 DEF vars, IInv, Typed, Books, Serial!TypeOK, Conns, Exclusive, NewApart, LocksOK
<1> QED BY <1>1, <1>2

\* Whatever the connections do, each is where its statements leave it, and
\* holds the locks that this takes.
LEMMA Invariance == Spec => []IInv
<1> QED BY InitEstablishes, NextKeeps, PTL DEF Spec

-----------------------------------------------------------------------------
(* No cycle of posts.                                                      *)

LEMMA GreatestNat ==
  ASSUME NEW T, T \subseteq Nat, IsFiniteSet(T), T # {}
  PROVE  \E n \in T : \A m \in T : m <= n
<1> DEFINE Above(n) == {m \in T : m > n}
           Sizes == {Cardinality(Above(n)) : n \in T}
<1>1. \A n \in T : IsFiniteSet(Above(n)) /\ Cardinality(Above(n)) \in Nat
  BY FS_Subset, FS_CardinalityType
<1>2. Sizes \subseteq Nat /\ Sizes # {}
  BY <1>1
<1>3. \E k \in Sizes : \A l \in Sizes : k <= l
  <2> HIDE DEF Sizes
  <2> QED BY <1>2, LeastNat
<1>4. PICK n \in T : \A m \in T : Cardinality(Above(n)) <= Cardinality(Above(m))
  BY <1>3
<1>5. ASSUME NEW m \in T, m > n PROVE FALSE
  <2>1. Above(m) \subseteq Above(n) /\ m \in Above(n) /\ m \notin Above(m)
    <3>1. m \in Nat /\ n \in Nat /\ m > n /\ ~(m > m)
      BY <1>5
    <3>2. \A k \in T : k > m => k > n
      BY <3>1
    <3> QED BY <3>1, <3>2
  <2>2. Cardinality(Above(m)) < Cardinality(Above(n))
    <3> HIDE DEF Above
    <3> QED BY <1>1, <1>5, <2>1, FS_Subset
  <2>3. Cardinality(Above(n)) <= Cardinality(Above(m))
    BY <1>4, <1>5
  <2>4. Cardinality(Above(n)) \in Nat /\ Cardinality(Above(m)) \in Nat
    BY <1>1, <1>5
  <2> HIDE DEF Above
  <2> QED BY <2>2, <2>3, <2>4
<1>6. \A m \in T : m <= n
  BY <1>5
<1> QED BY <1>6

\* What a post can wait for, and what of it keeps another one waiting.
LEMMA PostWaits ==
  ASSUME IInv, NEW p \in Proc, tx[p].op = "post", NEW q \in Proc, tx[q].op = "post",
         q \in WaitsFor(p)
  PROVE  \/ tx[p].pc = "audFold" /\ tx[q].pc \in {"flip", "commit"}
         \/ tx[p].pc = "lockEntry" /\ tx[q].pc # "lockEntry"
         \/ /\ tx[p].pc = "lockAccount" /\ tx[q].pc \notin {"lockEntry", "validate"}
            /\ \A b \in tx[q].todo : NextAccount(p) < b
<1> SUFFICES ASSUME NEW t, t = tx[p], NEW u, u = tx[q]
             PROVE  \/ t.pc = "audFold" /\ u.pc \in {"flip", "commit"}
                    \/ t.pc = "lockEntry" /\ u.pc # "lockEntry"
                    \/ /\ t.pc = "lockAccount" /\ u.pc \notin {"lockEntry", "validate"}
                       /\ \A b \in u.todo : NextAccount(p) < b
  OBVIOUS
<1>1. PICK k \in locks, n \in Need(p) : k.proc = q /\ n.on = k.on /\ Conflict(n.mode, k.mode)
  BY DEF WaitsFor
<1>2. MayHold(u, k)
  BY <1>1 DEF IInv, LocksOK
<1>3. \/ k.on = <<"entry", u.id>> /\ u.pc # "lockEntry"
      \/ \E a \in Account : /\ k.on = <<"account", a>>
                            /\ u.pc \notin {"lockEntry", "validate"}
                            /\ \A b \in u.todo : a < b
      \/ k.on = AuditLock /\ u.pc \in {"flip", "commit"}
      \/ k.mode = "KEY SHARE" /\ \E r \in Period \cup {None} : k.on = <<"period", r>>
  BY <1>2 DEF MayHold
<1>4. \/ t.pc \in {"lockEntry", "lockAccount", "audFold", "flip"}
      \/ t.pc \in {"idle", "validate", "fold", "commit"}
  <2>1. t.pc # "idle" => t.pc \in StepsOf("post")
    BY AtWork DEF Placed
  <2> QED BY <2>1 DEF StepsOf
<1>5. CASE t.pc = "lockEntry"
  <2>1. n.on = <<"entry", t.id>>
    BY <1>5 DEF Need, Ask
  <2> QED BY <1>1, <1>3, <1>5, <2>1 DEF AuditLock
<1>6. CASE t.pc = "lockAccount"
  <2>1. n.on = <<"account", NextAccount(p)>>
    BY <1>6 DEF Need, Ask
  <2>2. PICK a : k.on = <<"account", a>> /\ a = NextAccount(p)
    BY <1>1, <2>1
  <2> QED BY <1>3, <1>6, <2>2 DEF AuditLock
<1>7. CASE t.pc = "audFold"
  <2>1. n.on = <<"audit", None>>
    BY <1>7 DEF Need, Ask, AuditLock
  <2> QED BY <1>1, <1>3, <1>7, <2>1
<1>8. CASE t.pc = "flip"
  <2>1. n.mode = "KEY SHARE" /\ \E r : n.on = <<"period", r>>
    <3>1. PICK r : Need(p) = {[on |-> <<"period", r>>, mode |-> "KEY SHARE"]}
      BY <1>8 DEF Need, Ask
    <3>2. n = [on |-> <<"period", r>>, mode |-> "KEY SHARE"]
      BY <3>1
    <3> QED BY <3>2
  <2>2. k.mode = "KEY SHARE"
    <3>1. PICK r : k.on = <<"period", r>>
      BY <1>1, <2>1
    <3>2. \A x, y : /\ <<"period", x>> # <<"entry", y>> /\ <<"period", x>> # <<"account", y>>
                    /\ <<"period", x>> # <<"audit", y>>
      OBVIOUS
    <3> QED BY <1>3, <3>1, <3>2 DEF AuditLock
  <2> QED BY <1>1, <2>1, <2>2 DEF Conflict
<1>9. CASE t.pc \in {"idle", "validate", "fold", "commit"}
  <2>1. Need(p) = {}
    BY <1>9 DEF Need
  <2> QED BY <1>1, <2>1
<1> QED BY <1>4, <1>5, <1>6, <1>7, <1>8, <1>9

\* "Deadlock avoidance": accounts are locked in the order of their ids, the
\* audit lock after them, and the row of the period is only shared, so posts
\* alone never wait in a circle, however many connections there are.
THEOREM PostsDoNotCircle == Spec => []NoPosterCycle
<1>1. ASSUME IInv PROVE NoPosterCycle
  <2> SUFFICES ASSUME NEW S \in SUBSET {p \in Proc : tx[p].op = "post"}, Deadlocked(S)
               PROVE  FALSE
    BY DEF NoPosterCycle
  <2>1. \A p \in S : p \in Proc /\ tx[p].op = "post" /\ \E q \in S : q \in WaitsFor(p)
    BY DEF Deadlocked
  <2>2. \A p \in S :
          \/ tx[p].pc = "audFold" /\ \E q \in S : tx[q].pc \in {"flip", "commit"}
          \/ tx[p].pc = "lockEntry" /\ \E q \in S : tx[q].pc # "lockEntry"
          \/ /\ tx[p].pc = "lockAccount"
             /\ \E q \in S : /\ tx[q].pc \notin {"lockEntry", "validate"}
                             /\ \A b \in tx[q].todo : NextAccount(p) < b
    BY <1>1, <2>1, PostWaits
  <2>3. \A p \in S : tx[p].pc \in {"lockEntry", "lockAccount"}
    BY <2>2
  <2> DEFINE T == {p \in S : tx[p].pc = "lockAccount"}
             N == {NextAccount(p) : p \in T}
  <2>4. T # {}
    <3>1. PICK p \in S : TRUE
      BY DEF Deadlocked
    <3> QED BY <2>2, <2>3, <3>1
  <2>5. \A p \in T : NextAccount(p) \in tx[p].todo /\ NextAccount(p) \in Account
    <3> SUFFICES ASSUME NEW p \in T
                 PROVE  NextAccount(p) \in tx[p].todo /\ NextAccount(p) \in Account
      OBVIOUS
    <3>1. p \in Proc /\ tx[p].pc = "lockAccount"
      BY <2>1
    <3>2. tx[p].todo \subseteq Account /\ tx[p].todo # {}
      BY <1>1, <3>1, AtWork DEF ToLock
    <3> QED BY <3>2, NextAccountLeast
  <2>6. N \subseteq Nat /\ IsFiniteSet(N) /\ N # {}
    <3>1. N \subseteq Account /\ N # {}
      BY <2>4, <2>5
    <3> HIDE DEF N
    <3> QED BY <3>1, AccountAssumption, FS_Subset DEF AccountAssumption
  <2>7. \E n \in N : \A m \in N : m <= n
    <3> HIDE DEF N
    <3> QED BY <2>6, GreatestNat
  <2>8. PICK p \in T : \A q \in T : NextAccount(q) <= NextAccount(p)
    BY <2>7
  <2>9. PICK q \in S : /\ tx[q].pc \notin {"lockEntry", "validate"}
                       /\ \A b \in tx[q].todo : NextAccount(p) < b
    BY <2>2
  <2>10. q \in T
    BY <2>3, <2>9
  <2>11. NextAccount(p) < NextAccount(q) /\ NextAccount(q) <= NextAccount(p)
    BY <2>5, <2>8, <2>9, <2>10
  <2>12. NextAccount(p) \in Nat /\ NextAccount(q) \in Nat
    BY <2>5, <2>10, AccountAssumption DEF AccountAssumption
  <2> QED BY <2>11, <2>12
<1> QED BY <1>1, Invariance, PTL

-----------------------------------------------------------------------------
(* What a commit does to the entries.                                      *)

\* Only a commit writes the tables.
LEMMA EntryKept ==
  ASSUME NEW p \in Proc, Request(p) \/ Work(p) \/ DeadlockVictim(p) \/ Crash(p), ~Commit(p)
  PROVE  UNCHANGED tables
<1>1. CASE Request(p)
  <2>1. \A u : Begin(p, u) => UNCHANGED tables
    BY DEF Begin, tables
  <2>2. \E u : Begin(p, u)
    BY <1>1 DEF Request, RequestCreate, RequestPost, RequestReverse, RequestUpdate,
                RequestDelete, RequestRestore, RequestChild, RequestRecompute, RequestClose
  <2> QED BY <2>1, <2>2
<1>2. CASE Rollback(p)
  BY <1>2 DEF Rollback
<1>3. CASE \E at : Statement(p, at)
  BY <1>3 DEF Statement
<1>4. CASE Work(p)
  <2>1. \/ \E at : Statement(p, at)
        \/ Rollback(p)
        \/ DiscardHeader(p) \/ AssertDraft(p) \/ TryClose(p)
    BY <1>4
       DEF Work, InsertHeader, InsertLine, UpdateHeader, AuditUpdate, RestoreNothing,
           LockEntry, Validate, LockAccount, Fold, AuditFold, Flip, MarkSource, LockOne,
           Recompute, AuditRecompute, InsertChild, AuditChild, ControlParent, LockPeriod,
           CountDrafts, SumNet, ClosePeriod, Refuse
  <2>2. CASE DiscardHeader(p) \/ AssertDraft(p) \/ TryClose(p)
    BY <2>2 DEF DiscardHeader, AssertDraft, TryClose, tables
  <2> QED BY <1>2, <1>3, <2>1, <2>2
<1>5. CASE DeadlockVictim(p) \/ Crash(p)
  BY <1>2, <1>5 DEF DeadlockVictim, Crash
<1> QED BY <1>1, <1>4, <1>5

\* Whatever stale check an edit ran on, an entry never leaves the ledger
\* again: the lock a post takes on it holds off the UPDATE of an edit, and no
\* edit writes the status.
THEOREM EntriesOnlyAdvance == Spec => StatusAdvances
<1> DEFINE A == \A e \in DOMAIN entry :
                  /\ e \in DOMAIN entry'
                  /\ entry[e].status # entry'[e].status =>
                       <<entry[e].status, entry'[e].status>>
                         \in {<<"DRAFT", "POSTED">>, <<"POSTED", "REVERSED">>}
<1>1. ASSUME IInv, Next PROVE A
  <2>1. PICK p \in Proc : Request(p) \/ Work(p) \/ DeadlockVictim(p) \/ Crash(p)
    BY <1>1 DEF Next
  <2>2. CASE Commit(p)
    <3> SUFFICES ASSUME NEW e \in DOMAIN entry
                 PROVE  /\ e \in DOMAIN entry'
                        /\ entry[e].status # entry'[e].status =>
                             <<entry[e].status, entry'[e].status>>
                               \in {<<"DRAFT", "POSTED">>, <<"POSTED", "REVERSED">>}
      OBVIOUS
    <3> SUFFICES ASSUME NEW t, t = tx[p], NEW w, w = pend[p]
                 PROVE  /\ e \in DOMAIN entry'
                        /\ entry[e].status # entry'[e].status =>
                             <<entry[e].status, entry'[e].status>>
                               \in {<<"DRAFT", "POSTED">>, <<"POSTED", "REVERSED">>}
      OBVIOUS
    <3>1. /\ t.pc = "commit" /\ e \in DOMAIN entry'
          /\ e \in DOMAIN w.entry => entry'[e] = w.entry[e]
          /\ e \notin DOMAIN w.entry => entry'[e] = entry[e]
          /\ e \in DOMAIN w.entry /\ e # t.new => e = t.id /\ Touched(t)
      BY <1>1, <2>2, CommitTables
    <3>2. t.new # e
      <4>1. e \in Entry
        BY <1>1, TablesTyped DEF IInv
      <4> QED BY <1>1, <4>1, EntryAssumption DEF IInv, NewApart, EntryAssumption
    <3>3. CASE e \notin DOMAIN w.entry
      BY <3>1, <3>3
    <3>4. CASE e \in DOMAIN w.entry
      <4>1. e = t.id /\ Touched(t)
        BY <3>1, <3>2, <3>4
      <4>2. Read(t, entry) /\ w.entry[e] = Edited(t, entry[e], w.entry[e].lines)
        BY <1>1, <3>1, <4>1, AtWork DEF Written
      <4>3. PICK r \in Row : r = entry[e]
        BY <1>1, TablesTyped DEF IInv
      <4>4. CASE t.op = "post"
        <5>1. r.status = "DRAFT"
          BY <3>1, <4>1, <4>2, <4>3, <4>4 DEF Read
        <5>2. w.entry[e] = PostedRow(r)
          BY <4>2, <4>3, <4>4 DEF Edited
        <5>3. PostedRow(r).status = "POSTED"
          BY DEF PostedRow, Row
        <5> QED BY <3>1, <3>4, <4>3, <5>1, <5>2, <5>3
      <4>5. CASE t.op = "reverse"
        <5>1. r.status = "POSTED"
          BY <3>1, <4>1, <4>2, <4>3, <4>5 DEF Read
        <5>2. w.entry[e] = [r EXCEPT !.status = "REVERSED"]
          BY <4>2, <4>3, <4>5 DEF Edited
        <5>3. w.entry[e].status = "REVERSED"
          BY <5>2 DEF Row
        <5> QED BY <3>1, <3>4, <4>3, <5>1, <5>3
      <4>6. CASE t.op = "update"
        <5>1. PICK ls : w.entry[e] = [r EXCEPT !.date = t.date, !.lines = ls]
          BY <3>1, <4>2, <4>3, <4>6 DEF Edited
        <5>2. w.entry[e].status = r.status
          BY <5>1 DEF Row
        <5> QED BY <3>1, <3>4, <4>3, <5>2
      <4>7. CASE t.op \in {"delete", "restore"}
        <5>1. PICK b \in BOOLEAN : w.entry[e] = [r EXCEPT !.deleted = b]
          BY <4>2, <4>3, <4>7 DEF Edited
        <5>2. w.entry[e].status = r.status
          BY <5>1 DEF Row
        <5> QED BY <3>1, <3>4, <4>3, <5>2
      <4> QED BY <4>1, <4>4, <4>5, <4>6, <4>7 DEF Touched, Edits
    <3> QED BY <3>3, <3>4
  <2>3. CASE ~Commit(p)
    <3>1. entry' = entry
      BY <2>1, <2>3, EntryKept DEF tables
    <3> QED BY <3>1
  <2> QED BY <2>2, <2>3
<1>2. IInv /\ [Next]_vars => [A]_vars
  BY <1>1
<1>3. StatusAdvances <=> [][A]_vars
  BY DEF StatusAdvances
<1> QED BY <1>2, <1>3, Invariance, PTL DEF Spec

-----------------------------------------------------------------------------
(* The balances that are going to be published.                            *)

\* They are what the transaction's lines make of the tables as they are now.
Fresh(t, w, E, B) ==
  \A a \in DOMAIN w.balance :
    w.balance[a] = IF t.op = "recompute" THEN BalanceOver(E, PostedIn(E), a)
                   ELSE B[a] + Delta(Folded(t, E), a)

AllFresh == \A p \in Proc : Fresh(tx[p], pend[p], entry, balance)

\* Who publishes a balance holds the account's row.
LEMMA PublisherHolds ==
  ASSUME IInv, NEW p \in Proc, tx[p].pc # "idle", NEW a \in DOMAIN pend[p].balance
  PROVE  Has(p, <<"account", a>>, "UPDATE", locks)
<1> SUFFICES ASSUME NEW t, t = tx[p] PROVE Has(p, <<"account", a>>, "UPDATE", locks)
  OBVIOUS
<1>1. ToLock(t, entry) /\ Holds(p, t, locks, entry) /\ a \in Published(t, entry)
  BY AtWork
<1>2. CASE Folding(t) /\ t.pc \notin {"lockAccount", "fold"}
  <2>1. a \in AccountsOf(Folded(t, entry)) \ t.todo
    BY <1>1, <1>2 DEF Published, ToLock
  <2> QED BY <1>1, <1>2, <2>1 DEF Holds
<1>3. CASE ~(Folding(t) /\ t.pc \notin {"lockAccount", "fold"})
  <2>1. t.op = "recompute" /\ t.pc \in {"audRecompute", "commit"} /\ a = t.acct
    BY <1>1, <1>3 DEF Published
  <2> QED BY <1>1, <2>1 DEF Holds
<1> QED BY <1>2, <1>3

\* Where a transaction has a balance to publish.
LEMMA PublishedAt ==
  ASSUME IInv, NEW p \in Proc, NEW a \in DOMAIN pend[p].balance
  PROVE  /\ tx[p].pc \in {"audFold", "flip", "markSource", "closePeriod", "audRecompute", "commit"}
         /\ tx[p].pc # "idle"
<1>1. CASE tx[p].pc = "idle"
  <2>1. pend[p] = NoWrites
    BY <1>1 DEF IInv, Conns, Conn
  <2> QED BY <2>1 DEF NoWrites
<1>2. CASE tx[p].pc # "idle"
  <2>1. a \in Published(tx[p], entry)
    BY <1>2, AtWork
  <2> QED BY <2>1 DEF Published, Folding
<1> QED BY <1>1, <1>2

\* A step of p leaves the other connections where they are.
LEMMA OthersKept ==
  ASSUME IInv, NEW p \in Proc, Request(p) \/ Work(p) \/ DeadlockVictim(p) \/ Crash(p),
         NEW q \in Proc, q # p
  PROVE  tx'[q] = tx[q] /\ pend'[q] = pend[q]
<1>1. (\E t : tx' = [tx EXCEPT ![p] = t]) => tx'[q] = tx[q]
  BY DEF IInv, Typed
<1>2. (\E w : pend' = [pend EXCEPT ![p] = w]) => pend'[q] = pend[q]
  BY DEF IInv, Typed
<1>3. (\E at : Goto(p, at)) => tx'[q] = tx[q]
  BY DEF Goto, IInv, Typed
<1>4. (\E e, r : WriteEntry(p, e, r)) => pend'[q] = pend[q]
  BY DEF WriteEntry, IInv, Typed
<1>5. CASE Rollback(p)
  BY <1>1, <1>2, <1>5 DEF Rollback
<1>6. CASE Request(p)
  <2>1. \E u : Begin(p, u)
    BY <1>6 DEF Request, RequestCreate, RequestPost, RequestReverse, RequestUpdate,
                RequestDelete, RequestRestore, RequestChild, RequestRecompute, RequestClose
  <2> QED BY <1>1, <2>1 DEF Begin
<1>7. CASE \/ InsertLine(p) \/ UpdateHeader(p) \/ Flip(p) \/ MarkSource(p) \/ AuditUpdate(p)
  BY <1>3, <1>4, <1>7 DEF InsertLine, UpdateHeader, Flip, MarkSource, AuditUpdate
<1>8. CASE \/ AssertDraft(p) \/ AuditFold(p) \/ LockOne(p) \/ AuditRecompute(p)
           \/ InsertChild(p) \/ AuditChild(p) \/ TryClose(p) \/ LockPeriod(p) \/ CountDrafts(p)
  BY <1>3, <1>8 DEF AssertDraft, AuditFold, LockOne, AuditRecompute, InsertChild, AuditChild,
                    TryClose, LockPeriod, CountDrafts
<1>9. CASE Fold(p) \/ Recompute(p) \/ ControlParent(p) \/ ClosePeriod(p)
  BY <1>3, <1>9 DEF Fold, Recompute, ControlParent, ClosePeriod, IInv, Typed
<1>10. CASE LockEntry(p) \/ Validate(p) \/ LockAccount(p) \/ SumNet(p)
  BY <1>10 DEF LockEntry, Validate, LockAccount, SumNet, Goto, IInv, Typed
<1>11. CASE InsertHeader(p)
  <2>1. tx'[q] = tx[q]
    BY <1>11 DEF InsertHeader, IInv, Typed
  <2> QED BY <1>4, <1>11, <2>1 DEF InsertHeader
<1>12. CASE DiscardHeader(p)
  BY <1>12 DEF DiscardHeader, IInv, Typed
<1>13. CASE Commit(p)
  BY <1>1, <1>2, <1>13 DEF Commit
<1>14. CASE RestoreNothing(p) \/ Refuse(p) \/ DeadlockVictim(p) \/ Crash(p)
  BY <1>5, <1>14 DEF RestoreNothing, Refuse, DeadlockVictim, Crash
<1> QED BY <1>6, <1>7, <1>8, <1>9, <1>10, <1>11, <1>12, <1>13, <1>14 DEF Work

\* Only the UPDATEs of the balances write them.
LEMMA BalanceKept ==
  ASSUME IInv, NEW p \in Proc, Request(p) \/ Work(p) \/ DeadlockVictim(p) \/ Crash(p),
         ~Fold(p), ~Recompute(p), NEW a \in DOMAIN pend'[p].balance
  PROVE  /\ pend'[p].balance = pend[p].balance /\ tx'[p].op = tx[p].op
         /\ tx'[p].id = tx[p].id /\ tx'[p].lines = tx[p].lines
<1> DEFINE Same == pend'[p].balance = pend[p].balance
           Gone == pend'[p] = NoWrites
<1>0. tx[p] \in Job /\ pend[p] \in Writing
  BY DEF IInv, Typed
<1>1. ~Gone
  BY DEF NoWrites
<1>2. pend' = pend => Same
  OBVIOUS
<1>3. (\E e, r : WriteEntry(p, e, r)) => Same
  BY <1>0 DEF WriteEntry, IInv, Typed, Writing
<1>4. Rollback(p) => Gone
  BY DEF Rollback, IInv, Typed
<1>5. Same => /\ tx[p].pc \in {"audFold", "flip", "markSource", "closePeriod", "audRecompute",
                               "commit"}
              /\ tx[p].pc # "idle"
  BY PublishedAt
<1>6. ASSUME NEW at, Goto(p, at)
      PROVE  tx'[p].op = tx[p].op /\ tx'[p].id = tx[p].id /\ tx'[p].lines = tx[p].lines
  BY <1>0, <1>6 DEF Goto, IInv, Typed, Job
<1>7. CASE Request(p)
  <2>1. \E u : Begin(p, u)
    BY <1>7 DEF Request, RequestCreate, RequestPost, RequestReverse, RequestUpdate,
                RequestDelete, RequestRestore, RequestChild, RequestRecompute, RequestClose
  <2>2. pend' = pend /\ tx[p].pc = "idle"
    BY <2>1, JobTypes DEF Begin
  <2> QED BY <1>2, <1>5, <2>2
<1>8. CASE \/ AuditFold(p) \/ Flip(p) \/ MarkSource(p) \/ ClosePeriod(p) \/ AuditRecompute(p)
  <2>1. Same
    <3>1. CASE AuditFold(p) \/ AuditRecompute(p)
      BY <1>2, <3>1 DEF AuditFold, AuditRecompute
    <3>2. CASE Flip(p) \/ MarkSource(p)
      BY <1>3, <3>2 DEF Flip, MarkSource
    <3>3. CASE ClosePeriod(p)
      BY <1>0, <3>3 DEF ClosePeriod, IInv, Typed, Writing
    <3> QED BY <1>8, <3>1, <3>2, <3>3
  <2>2. \E at : Goto(p, at)
    BY <1>8 DEF AuditFold, Flip, MarkSource, ClosePeriod, AuditRecompute
  <2> QED BY <1>6, <2>1, <2>2
<1>9. CASE \/ AssertDraft(p) \/ LockOne(p) \/ InsertChild(p) \/ AuditChild(p) \/ TryClose(p)
           \/ LockPeriod(p) \/ CountDrafts(p) \/ LockEntry(p) \/ Validate(p) \/ LockAccount(p)
           \/ SumNet(p)
  <2>1. pend' = pend /\ tx[p].pc \in {"assertDraft", "lockOne", "insAccount", "audAccount",
          "tryClose", "lockPeriod", "count", "lockEntry", "validate", "lockAccount", "net"}
    BY <1>9 DEF AssertDraft, LockOne, InsertChild, AuditChild, TryClose, LockPeriod, CountDrafts,
                LockEntry, Validate, LockAccount, SumNet, Statement
  <2> QED BY <1>2, <1>5, <2>1
<1>10. CASE InsertHeader(p) \/ InsertLine(p) \/ UpdateHeader(p)
  <2>1. tx[p].pc \in {"insHeader", "insLine", "updHeader"}
    BY <1>10 DEF InsertHeader, InsertLine, UpdateHeader, Statement
  <2>2. \E e, r : WriteEntry(p, e, r)
    BY <1>10 DEF InsertHeader, InsertLine, UpdateHeader
  <2> QED BY <1>3, <1>5, <2>1, <2>2
<1>11. CASE AuditUpdate(p)
  <2>1. tx[p].pc = "audUpdate" /\ (pend' = pend \/ \E e, r : WriteEntry(p, e, r))
    BY <1>11 DEF AuditUpdate, Statement
  <2> QED BY <1>2, <1>3, <1>5, <2>1
<1>12. CASE DiscardHeader(p) \/ ControlParent(p)
  <2>1. tx[p].pc \in {"insLine", "control"}
    BY <1>12 DEF DiscardHeader, ControlParent, Statement
  <2>2. Same
    BY <1>0, <1>12 DEF DiscardHeader, ControlParent, IInv, Typed, Writing
  <2> QED BY <1>5, <2>1, <2>2
<1>13. CASE Commit(p)
  BY <1>1, <1>13 DEF Commit, IInv, Typed
<1>14. CASE RestoreNothing(p) \/ Refuse(p) \/ DeadlockVictim(p) \/ Crash(p)
  BY <1>1, <1>4, <1>14 DEF RestoreNothing, Refuse, DeadlockVictim, Crash
<1> QED BY <1>7, <1>8, <1>9, <1>10, <1>11, <1>12, <1>13, <1>14 DEF Work


\* A header that a reversal or a close inserted is a row with its lines.
LEMMA InsertedRow ==
  ASSUME NEW t, Placed(t), t.op \in {"reverse", "close"}, NEW ls \in Seq(Line)
  PROVE  /\ Inserted(t, ls) \in Row /\ Inserted(t, ls).lines = ls
         /\ Inserted(t, ls).status = "DRAFT"
<1>1. CASE t.op = "reverse"
  <2>1. t.date \in Date /\ t.id \in Entry
    BY <1>1 DEF Placed
  <2>2. Inserted(t, ls) = DraftRow(t.date, ls, t.id)
    BY <1>1 DEF Inserted
  <2> QED BY <2>1, <2>2, RowTypes DEF DraftRow
<1>2. CASE t.op = "close"
  <2>1. EndOf[t.per] \in Date
    BY <1>2, PeriodAssumption DEF Placed, PeriodAssumption
  <2>2. Inserted(t, ls) = ClosingRow(EndOf[t.per], ls)
    BY <1>2 DEF Inserted
  <2>3. ClosingRow(EndOf[t.per], ls).lines = ls /\ ClosingRow(EndOf[t.per], ls).status = "DRAFT"
    BY DEF ClosingRow, DraftRow
  <2> QED BY <2>1, <2>2, <2>3, RowTypes
<1> QED BY <1>1, <1>2

\* Where a posting has a balance to publish, its row has the lines it folded.
LEMMA PublishedLines ==
  ASSUME IInv, NEW p \in Proc, NEW a \in DOMAIN pend[p].balance, tx[p].op # "recompute"
  PROVE  /\ Folding(tx[p]) /\ a \in AccountsOf(Folded(tx[p], entry))
         /\ MyRow(p).lines = Folded(tx[p], entry) /\ Folded(tx[p], entry) \in Seq(Line)
<1> SUFFICES ASSUME NEW t, t = tx[p], NEW w, w = pend[p]
             PROVE  /\ Folding(t) /\ a \in AccountsOf(Folded(t, entry))
                    /\ MyRow(p).lines = Folded(t, entry) /\ Folded(t, entry) \in Seq(Line)
  OBVIOUS
<1>1. /\ t.pc \in {"audFold", "flip", "markSource", "closePeriod", "audRecompute", "commit"}
      /\ t.pc # "idle"
  BY PublishedAt
<1>2. /\ Placed(t) /\ NewSet(t) /\ Read(t, entry) /\ Written(t, w, entry)
      /\ DOMAIN w.balance = Published(t, entry)
  BY <1>1, AtWork
<1>3. Folding(t) /\ a \in AccountsOf(Folded(t, entry))
  BY <1>2 DEF Published
<1>4. CASE t.pc \in {"audFold", "flip"}
  BY <1>3, <1>4, PostingRow DEF Folding
<1>5. CASE t.pc \notin {"audFold", "flip"} /\ t.op = "post"
  <2>1. t.pc = "commit"
    BY <1>1, <1>2, <1>5, OpsAt
  <2>2. t.new = None /\ Touched(t)
    BY <1>2, <1>5, <2>1 DEF NewSet, Inserts, Touched
  <2>3. MyRow(p) = w.entry[t.id]
    BY <1>1, <2>2, RowSeen
  <2>4. w.entry[t.id] = PostedRow(entry[t.id])
    BY <1>2, <1>5, <2>2 DEF Written, Edited
  <2>5. PICK r \in Row : r = entry[t.id]
    <3>1. t.id \in DOMAIN entry
      BY <1>2, <1>5 DEF Read
    <3> QED BY <3>1, TablesTyped DEF IInv
  <2>6. PostedRow(r).lines = r.lines /\ r.lines \in Seq(Line)
    BY DEF PostedRow, Row
  <2> QED BY <1>3, <1>5, <2>3, <2>4, <2>5, <2>6 DEF Folded
<1>6. CASE t.pc \notin {"audFold", "flip"} /\ t.op # "post"
  <2>1. t.op \in {"reverse", "close"} /\ t.new # None
    BY <1>1, <1>2, <1>3, <1>6, OpsAt, EntryAssumption
       DEF Folding, Posts, NewSet, Inserts, EntryAssumption
  <2>2. Flipped(t)
    BY <1>1, <1>2, <1>6, <2>1, OpsAt DEF Flipped
  <2>3. /\ MyRow(p) = w.entry[t.new]
        /\ w.entry[t.new] = PostedRow(Inserted(t, t.lines)) /\ t.lines \in Seq(Line)
    BY <1>1, <1>2, <2>1, <2>2, RowSeen DEF Written
  <2>4. PICK r \in Row : r = Inserted(t, t.lines) /\ r.lines = t.lines
    BY <1>2, <2>1, <2>3, InsertedRow
  <2>5. PostedRow(r).lines = r.lines
    BY DEF PostedRow, Row
  <2> QED BY <1>3, <1>6, <2>3, <2>4, <2>5 DEF Folded
<1> QED BY <1>4, <1>5, <1>6

LEMMA FreshIsNotStale == IInv /\ AllFresh => NoStaleFold
<1> SUFFICES ASSUME IInv, AllFresh, NEW p \in Proc, NEW a \in DOMAIN pend[p].balance
             PROVE  pend[p].balance[a] =
                      IF tx[p].op = "recompute" THEN BalanceOver(entry, PostedIn(entry), a)
                      ELSE balance[a] + Delta(MyRow(p).lines, a)
  BY DEF NoStaleFold
<1>1. CASE tx[p].op = "recompute"
  BY <1>1 DEF AllFresh, Fresh
<1>2. CASE tx[p].op # "recompute"
  BY <1>2, PublishedLines DEF AllFresh, Fresh
<1> QED BY <1>1, <1>2

\* The same of the tables after a step.
LEMMA TablesTypedNext ==
  ASSUME Books'
  PROVE  /\ DOMAIN entry' \subseteq Entry /\ IsFiniteSet(DOMAIN entry')
         /\ entry' \in [DOMAIN entry' -> Row]
<1>1. Serial!Row = Row
  BY DEF Serial!Row, Row, Serial!JournalStatus, JournalStatus, Serial!Line, Line,
         Serial!LineDto, LineDto, Serial!OneSided, OneSided
<1> QED BY <1>1 DEF Books, Serial!TypeOK

\* A commit moves the posted lines of no account whose balance it leaves alone,
\* unless it is an edit that found its draft posted.
LEMMA CommitInserted ==
  ASSUME IInv, NEW p \in Proc, Commit(p), NEW a, a \notin DOMAIN pend[p].balance,
         tx[p].new # None, tx[p].new \in PostedIn(entry')
  PROVE  a \notin AccountsOf(entry'[tx[p].new].lines)
<1> SUFFICES ASSUME NEW t, t = tx[p], NEW w, w = pend[p]
             PROVE  a \notin AccountsOf(entry'[t.new].lines)
  OBVIOUS
<1>1. /\ t.pc = "commit" /\ t.new \in DOMAIN w.entry /\ entry'[t.new] = w.entry[t.new]
      /\ entry'[t.new].status = "POSTED"
  BY CommitTables DEF PostedIn
<1>2. /\ Placed(t) /\ NewSet(t) /\ Written(t, w, entry)
      /\ DOMAIN w.balance = Published(t, entry)
  BY <1>1, AtWork
<1>3. CASE t.op \in {"reverse", "close"}
  <2>1. Flipped(t) /\ Folding(t)
    BY <1>1, <1>3 DEF Flipped, Folding, Posts
  <2>2. w.entry[t.new] = PostedRow(Inserted(t, t.lines)) /\ t.lines \in Seq(Line)
    BY <1>2, <2>1 DEF Written
  <2>3. PICK r \in Row : r = Inserted(t, t.lines) /\ r.lines = t.lines
    BY <1>2, <1>3, <2>2, InsertedRow
  <2>4. PostedRow(r).lines = t.lines
    BY <2>3 DEF PostedRow, Row
  <2>5. a \notin AccountsOf(t.lines)
    BY <1>1, <1>2, <1>3, <2>1 DEF Published, Folded
  <2> QED BY <1>1, <2>2, <2>3, <2>4, <2>5
<1>4. CASE t.op \notin {"reverse", "close"}
  <2>1. w.entry[t.new] = DraftRow(t.date, w.entry[t.new].lines, None)
    BY <1>2, <1>4 DEF Written, Flipped, Inserted
  <2>2. w.entry[t.new].status = "DRAFT"
    BY <2>1 DEF DraftRow
  <2> QED BY <1>1, <2>2
<1> QED BY <1>3, <1>4

LEMMA CommitTouched ==
  ASSUME IInv, NEW p \in Proc, Commit(p), NEW a, a \notin DOMAIN pend[p].balance,
         tx[p].op \notin {"update", "delete"}, Touched(tx[p])
  PROVE  /\ tx[p].id \in PostedIn(entry) => a \notin AccountsOf(entry[tx[p].id].lines)
         /\ tx[p].id \in PostedIn(entry') => a \notin AccountsOf(entry'[tx[p].id].lines)
<1> SUFFICES ASSUME NEW t, t = tx[p], NEW w, w = pend[p]
             PROVE  /\ t.id \in PostedIn(entry) => a \notin AccountsOf(entry[t.id].lines)
                    /\ t.id \in PostedIn(entry') => a \notin AccountsOf(entry'[t.id].lines)
  OBVIOUS
<1>1. t.pc = "commit"
  BY CommitTables
<1>2. /\ Placed(t) /\ Read(t, entry) /\ Written(t, w, entry)
      /\ DOMAIN w.balance = Published(t, entry)
  BY <1>1, AtWork
<1>3. /\ t.id \in DOMAIN w.entry /\ entry'[t.id] = w.entry[t.id]
      /\ w.entry[t.id] = Edited(t, entry[t.id], w.entry[t.id].lines)
  BY <1>2, CommitTables DEF Written
<1>4. t.id \in DOMAIN entry
  BY <1>2 DEF Read, Touched
<1>5. PICK r \in Row : r = entry[t.id]
  BY <1>4, TablesTyped DEF IInv
<1>6. CASE t.op = "post"
  <2>1. Folding(t) /\ r.status = "DRAFT"
    BY <1>1, <1>2, <1>5, <1>6 DEF Folding, Posts, Read
  <2>2. a \notin AccountsOf(r.lines)
    BY <1>1, <1>2, <1>5, <1>6, <2>1 DEF Published, Folded
  <2>3. w.entry[t.id] = PostedRow(r)
    BY <1>3, <1>5, <1>6 DEF Edited
  <2>4. PostedRow(r).lines = r.lines
    BY DEF PostedRow, Row
  <2> QED BY <1>3, <1>5, <2>1, <2>2, <2>3, <2>4 DEF PostedIn
<1>7. CASE t.op = "reverse"
  <2>1. Folding(t) \/ t.new = None
    BY <1>1, <1>7 DEF Folding, Posts
  <2>2. Folding(t) /\ t.lines = Mirror(r.lines) /\ r.lines \in Seq(Line)
    BY <1>1, <1>2, <1>5, <1>7 DEF Folding, Posts, Read, Row
  <2>3. a \notin AccountsOf(t.lines)
    BY <1>1, <1>2, <1>7, <2>2 DEF Published, Folded
  <2>4. a \notin AccountsOf(r.lines)
    BY <2>2, <2>3, MirrorAccounts
  <2>5. w.entry[t.id] = [r EXCEPT !.status = "REVERSED"]
    BY <1>3, <1>5, <1>7 DEF Edited
  <2>6. w.entry[t.id].status = "REVERSED"
    BY <2>5 DEF Row
  <2> QED BY <1>3, <1>5, <2>4, <2>6 DEF PostedIn
<1>8. CASE t.op = "restore"
  <2>1. r.status = "DRAFT"
    BY <1>1, <1>2, <1>5, <1>8 DEF Read
  <2>2. w.entry[t.id] = [r EXCEPT !.deleted = FALSE]
    BY <1>3, <1>5, <1>8 DEF Edited
  <2>3. w.entry[t.id].status = r.status
    BY <2>2 DEF Row
  <2> QED BY <1>3, <1>5, <2>1, <2>3 DEF PostedIn
<1> QED BY <1>6, <1>7, <1>8 DEF Touched, Edits

LEMMA CommitApart ==
  ASSUME IInv, NEW p \in Proc, Commit(p), NEW a, a \notin DOMAIN pend[p].balance,
         tx[p].op \notin {"update", "delete"}
  PROVE  BalanceOver(entry, PostedIn(entry), a) = BalanceOver(entry', PostedIn(entry'), a)
<1> DEFINE x == tx[p].new
           y == IF Touched(tx[p]) THEN tx[p].id ELSE x
<1>1. /\ DOMAIN entry \subseteq Entry /\ IsFiniteSet(DOMAIN entry)
      /\ \A e \in DOMAIN entry : entry[e].lines \in Seq(Line)
  BY TablesTyped DEF IInv, Row
<1>2. /\ DOMAIN entry' \subseteq Entry /\ IsFiniteSet(DOMAIN entry')
      /\ \A e \in DOMAIN entry' : entry'[e].lines \in Seq(Line)
  <2>1. Books'
    BY CommitTables
  <2>2. /\ DOMAIN entry' \subseteq Entry /\ IsFiniteSet(DOMAIN entry')
        /\ entry' \in [DOMAIN entry' -> Row]
    BY <2>1, TablesTypedNext
  <2> QED BY <2>2 DEF Row
<1>3. /\ \A e \in DOMAIN pend[p].entry : e # x => e = tx[p].id /\ Touched(tx[p])
      /\ DOMAIN entry' = DOMAIN entry \cup DOMAIN pend[p].entry
      /\ \A e \in DOMAIN entry \ DOMAIN pend[p].entry : entry'[e] = entry[e]
  BY CommitTables
<1>4. /\ \A e : e # x /\ e # y => (e \in DOMAIN entry <=> e \in DOMAIN entry')
      /\ \A e \in DOMAIN entry : e # x /\ e # y => entry'[e] = entry[e]
  BY <1>3
<1>5. x \notin PostedIn(entry)
  <2>1. x # None => x \notin DOMAIN entry
    BY DEF IInv, NewApart
  <2>2. None \notin DOMAIN entry
    BY <1>1, EntryAssumption DEF EntryAssumption
  <2> QED BY <2>1, <2>2 DEF PostedIn
<1>6. x \in PostedIn(entry') => a \notin AccountsOf(entry'[x].lines)
  <2>1. x = None => x \notin PostedIn(entry')
    BY <1>2, EntryAssumption DEF EntryAssumption, PostedIn
  <2> QED BY <2>1, CommitInserted
<1>7. /\ y \in PostedIn(entry) => a \notin AccountsOf(entry[y].lines)
      /\ y \in PostedIn(entry') => a \notin AccountsOf(entry'[y].lines)
  BY <1>5, <1>6, CommitTouched
<1> HIDE DEF x, y
<1> QED BY <1>1, <1>2, <1>4, <1>5, <1>6, <1>7, BalanceApart, SMTT(30)

\* An edit and a recompute do not both run: an edit that found its draft posted
\* changes posted lines, and a recompute that has read them does not see it.
EditsApart == "recompute" \notin Ops \/ Ops \cap {"update", "delete"} = {}

LEMMA CommitStaysFresh ==
  ASSUME EditsApart, IInv, NEW p \in Proc, Commit(p), NEW q \in Proc, q # p,
         Fresh(tx[q], pend[q], entry, balance)
  PROVE  Fresh(tx[q], pend[q], entry', balance')
<1> SUFFICES ASSUME NEW a \in DOMAIN pend[q].balance
             PROVE  pend[q].balance[a] =
                      IF tx[q].op = "recompute" THEN BalanceOver(entry', PostedIn(entry'), a)
                      ELSE balance'[a] + Delta(Folded(tx[q], entry'), a)
  BY DEF Fresh
<1>1. pend[q].balance[a] =
        IF tx[q].op = "recompute" THEN BalanceOver(entry, PostedIn(entry), a)
        ELSE balance[a] + Delta(Folded(tx[q], entry), a)
  BY DEF Fresh
<1>2. tx[q].pc # "idle" /\ tx[q].pc # "lockEntry" /\ tx[p].pc = "commit"
  BY PublishedAt, CommitTables
<1>3. a \notin DOMAIN pend[p].balance
  <2> SUFFICES ASSUME a \in DOMAIN pend[p].balance PROVE FALSE
    OBVIOUS
  <2>1. PICK on : on = <<"account", a>>
    OBVIOUS
  <2>2. Has(p, on, "UPDATE", locks) /\ Has(q, on, "UPDATE", locks)
    BY <1>2, <2>1, PublisherHolds
  <2> QED BY <2>2, TwoHolders
<1>4. balance'[a] = balance[a]
  <2>1. balance' = Overlay(balance, pend[p].balance)
    BY DEF Commit
  <2>2. a \in DOMAIN balance
    <3>1. a \in Account
      BY DEF IInv, Typed, Writing, Tables
    <3> QED BY <3>1, TablesTyped DEF IInv
  <2> QED BY <1>3, <2>1, <2>2 DEF Overlay
<1>5. CASE tx[q].op = "recompute"
  <2>1. /\ tx[q].op \in Ops \/ (tx[q].op = "post" /\ "transfer" \in Ops)
        /\ tx[p].op \in Ops \/ (tx[p].op = "post" /\ "transfer" \in Ops)
    BY <1>2, AtWork DEF Placed
  <2>2. tx[p].op \notin {"update", "delete"}
    BY <1>5, <2>1 DEF EditsApart
  <2>3. BalanceOver(entry, PostedIn(entry), a) = BalanceOver(entry', PostedIn(entry'), a)
    BY <1>3, <2>2, CommitApart
  <2> QED BY <1>1, <1>5, <2>3
<1>6. CASE tx[q].op # "recompute"
  <2>1. Folded(tx[q], entry') = Folded(tx[q], entry)
    <3>1. CASE tx[q].op = "post"
      <4>1. Pinned(tx[q])
        BY <1>2, <3>1 DEF Pinned
      <4>2. tx[q].id \in DOMAIN entry /\ tx[q].id \notin DOMAIN pend[p].entry
        BY <1>2, <4>1, CommitElsewhere
      <4>3. entry'[tx[q].id] = entry[tx[q].id]
        BY <4>2, CommitTables
      <4> QED BY <4>3 DEF Folded
    <3>2. CASE tx[q].op # "post"
      BY <3>2 DEF Folded
    <3> QED BY <3>1, <3>2
  <2> QED BY <1>1, <1>4, <1>6, <2>1
<1> QED BY <1>5, <1>6

\* The two statements that compute a balance.
LEMMA ComputesFresh ==
  ASSUME IInv, NEW p \in Proc, Fold(p) \/ Recompute(p)
  PROVE  Fresh(tx'[p], pend'[p], entry, balance)
<1> SUFFICES ASSUME NEW t, t = tx[p] PROVE Fresh(tx'[p], pend'[p], entry, balance)
  OBVIOUS
<1>1. t \in Job /\ pend[p] \in Writing
  BY DEF IInv, Typed
<1>2. \E at : tx'[p] = [t EXCEPT !.pc = at]
  BY DEF Fold, Recompute, Goto, IInv, Typed
<1>3. tx'[p].op = t.op /\ tx'[p].id = t.id /\ tx'[p].lines = t.lines
  BY <1>1, <1>2 DEF Job
<1>4. CASE Fold(p)
  <2>1. t.pc = "fold"
    BY <1>4 DEF Fold, Statement
  <2>2. t.op \in Posts
    BY <2>1, AtWork, OpsAt
  <2>3. MyRow(p).lines = Folded(t, entry)
    BY <2>1, <2>2, PostingRow
  <2>4. pend'[p].balance = [a \in AccountsOf(MyRow(p).lines) |-> balance[a] + Delta(MyRow(p).lines, a)]
    BY <1>1, <1>4 DEF Fold, IInv, Typed, Writing
  <2>5. Folded(tx'[p], entry) = Folded(t, entry)
    BY <1>3 DEF Folded
  <2>6. tx'[p].op # "recompute"
    BY <1>3, <2>2 DEF Posts
  <2> QED BY <2>3, <2>4, <2>5, <2>6 DEF Fresh
<1>5. CASE Recompute(p)
  <2>1. t.pc = "recompute"
    BY <1>5 DEF Recompute, Statement
  <2>2. tx'[p].op = "recompute"
    BY <1>3, <2>1, AtWork, OpsAt
  <2>3. pend'[p].balance = [a \in {t.acct} |-> BalanceOver(entry, PostedIn(entry), a)]
    BY <1>1, <1>5 DEF Recompute, IInv, Typed, Writing
  <2> QED BY <2>2, <2>3 DEF Fresh
<1> QED BY <1>4, <1>5

LEMMA FreshKeeps ==
  ASSUME EditsApart, IInv, AllFresh, Next
  PROVE  AllFresh'
<1>1. PICK p \in Proc : Request(p) \/ Work(p) \/ DeadlockVictim(p) \/ Crash(p)
  BY DEF Next
<1> SUFFICES ASSUME NEW q \in Proc PROVE Fresh(tx'[q], pend'[q], entry', balance')
  BY DEF AllFresh
<1>2. Fresh(tx[q], pend[q], entry, balance)
  BY DEF AllFresh
<1>3. CASE q # p
  <2>1. tx'[q] = tx[q] /\ pend'[q] = pend[q]
    BY <1>1, <1>3, OthersKept
  <2>2. CASE Commit(p)
    BY <1>2, <1>3, <2>1, <2>2, CommitStaysFresh
  <2>3. CASE ~Commit(p)
    BY <1>1, <1>2, <2>1, <2>3, EntryKept DEF tables
  <2> QED BY <2>2, <2>3
<1>4. CASE q = p
  <2>1. CASE Commit(p)
    <3>1. pend'[p] = NoWrites
      BY <2>1 DEF Commit, IInv, Typed
    <3> QED BY <1>4, <3>1 DEF Fresh, NoWrites
  <2>2. CASE Fold(p) \/ Recompute(p)
    <3>1. entry' = entry /\ balance' = balance
      BY <2>2 DEF Fold, Recompute, Statement, tables
    <3> QED BY <1>4, <2>2, <3>1, ComputesFresh
  <2>3. CASE ~Commit(p) /\ ~Fold(p) /\ ~Recompute(p)
    <3>1. entry' = entry /\ balance' = balance
      BY <1>1, <2>3, EntryKept DEF tables
    <3>2. \A a \in DOMAIN pend'[p].balance :
            /\ pend'[p].balance = pend[p].balance /\ tx'[p].op = tx[p].op
            /\ tx'[p].id = tx[p].id /\ tx'[p].lines = tx[p].lines
      BY <1>1, <2>3, BalanceKept
    <3> QED BY <1>2, <1>4, <3>1, <3>2 DEF Fresh, Folded
  <2> QED BY <2>1, <2>2, <2>3
<1> QED BY <1>3, <1>4

\* The open transactions have their types.
LEMMA TypesHold == IInv => TypeOK
<1> SUFFICES ASSUME IInv PROVE TypeOK
  OBVIOUS
<1>1. Serial!TypeOK
  BY DEF IInv, Books
<1>2. tx \in [Proc -> [pc : Steps, op : Serial!OpNames \cup {None},
                       id : Entry \cup {None}, new : Entry \cup {None},
                       date : Date \cup {None}, lines : Seq(LineDto),
                       acct : Account \cup {None}, per : Period \cup {None},
                       todo : SUBSET Account]]
  BY DEF IInv, Typed, Job
<1>3. ASSUME NEW p \in Proc
      PROVE  /\ DOMAIN pend[p].entry \subseteq Entry
             /\ pend[p].entry \in [DOMAIN pend[p].entry -> Row]
             /\ pend[p].balance \in [DOMAIN pend[p].balance -> Int]
             /\ pend[p].control \subseteq Account /\ pend[p].closed \subseteq Period
  <2>1. pend[p] \in Writing
    BY DEF IInv, Typed
  <2> QED BY <2>1 DEF Writing, Tables
<1>4. \A l \in locks : l.proc \in Proc
  BY DEF IInv, LocksOK
<1> QED BY <1>1, <1>2, <1>3, <1>4 DEF TypeOK

\* The tables and the open transactions have their types, whatever operations
\* the clients call.
THEOREM TransactionsAreTyped == Spec => []TypeOK
<1> QED BY Invariance, TypesHold, PTL

\* No transaction publishes a balance that was computed from a stale one: the
\* account's row, locked before the balance is read, stays locked until the
\* commit, and nobody else writes it meanwhile.
THEOREM FoldsAreSound ==
  ASSUME EditsApart
  PROVE  Spec => []FoldsSound
<1>1. Init => AllFresh
  <2> SUFFICES ASSUME Init PROVE AllFresh
    OBVIOUS
  <2>1. \A p \in Proc : pend[p] = NoWrites
    BY DEF Init
  <2> QED BY <2>1 DEF AllFresh, Fresh, NoWrites
<1>2. IInv /\ AllFresh /\ [Next]_vars => AllFresh'
  <2>1. UNCHANGED vars /\ AllFresh => AllFresh'
    BY DEF vars, AllFresh, Fresh, Folded
  <2> QED BY <2>1, FreshKeeps
<1>3. IInv /\ AllFresh => FoldsSound
  BY FreshIsNotStale, TypesHold DEF FoldsSound
<1> QED BY <1>1, <1>2, <1>3, Invariance, PTL DEF Spec


-----------------------------------------------------------------------------
(* The refinement of Ledger: every commit is one of its operations.        *)

\* The computations that Ledger makes are those of Bookkeeping.
LEMMA SerialOperators ==
  /\ \A table, e, r : Serial!Put(table, e, r) = Put(table, e, r)
  /\ \A r : Serial!PostedRow(r) = PostedRow(r)
  /\ \A d, ls, src : Serial!DraftRow(d, ls, src) = DraftRow(d, ls, src)
  /\ \A ls : Serial!Mirror(ls) = Mirror(ls) /\ Serial!AccountsOf(ls) = AccountsOf(ls)
  /\ \A l : Serial!OneSided(l) <=> OneSided(l)
  /\ \A table : Serial!PostedIn(table) = PostedIn(table)
<1>1. \A table, e, r : Serial!Put(table, e, r) = Put(table, e, r)
  BY DEF Serial!Put, Put
<1>2. \A r : Serial!PostedRow(r) = PostedRow(r)
  BY DEF Serial!PostedRow, PostedRow
<1>3. \A d, ls, src : Serial!DraftRow(d, ls, src) = DraftRow(d, ls, src)
  BY DEF Serial!DraftRow, DraftRow
<1>4. \A ls : Serial!Mirror(ls) = Mirror(ls) /\ Serial!AccountsOf(ls) = AccountsOf(ls)
  BY DEF Serial!Mirror, Mirror, Serial!AccountsOf, AccountsOf
<1>5. \A l : Serial!OneSided(l) <=> OneSided(l)
  BY DEF Serial!OneSided, OneSided
<1>6. \A table : Serial!PostedIn(table) = PostedIn(table)
  BY DEF Serial!PostedIn, PostedIn
<1> QED BY <1>1, <1>2, <1>3, <1>4, <1>5, <1>6

LEMMA SerialSums ==
  /\ \A ls : Serial!TotalDebit(ls) = TotalDebit(ls) /\ Serial!TotalCredit(ls) = TotalCredit(ls)
  /\ \A ls, a : Serial!Delta(ls, a) = Delta(ls, a)
  /\ \A ls : Serial!Balanced(ls) <=> Balanced(ls)
  /\ \A ls : Serial!AssertBalanced(ls) <=> AssertBalanced(ls)
  /\ \A ls : Serial!TransferLegs(ls) <=> TransferLegs(ls)
  /\ \A table, S, a : Serial!BalanceOver(table, S, a) = BalanceOver(table, S, a)
<1>0. \A s : Serial!Sum(s) = Sum(s)
  BY DEF Serial!Sum, Sum, Serial!PartialSums, PartialSums
<1>1. \A ls : Serial!TotalDebit(ls) = TotalDebit(ls) /\ Serial!TotalCredit(ls) = TotalCredit(ls)
  BY <1>0 DEF Serial!TotalDebit, TotalDebit, Serial!TotalCredit, TotalCredit
<1>2. \A ls, a : Serial!Delta(ls, a) = Delta(ls, a)
  BY <1>0 DEF Serial!Delta, Delta, Serial!Natural, Natural
<1>3. \A ls : Serial!Balanced(ls) <=> Balanced(ls)
  BY <1>1 DEF Serial!Balanced, Balanced
<1>4. \A ls : Serial!AssertBalanced(ls) <=> AssertBalanced(ls)
  BY <1>1, SerialOperators DEF Serial!AssertBalanced, AssertBalanced
<1>5. \A ls : Serial!TransferLegs(ls) <=> TransferLegs(ls)
  BY DEF Serial!TransferLegs, TransferLegs
<1>6. \A table, S, a : Serial!BalanceOver(table, S, a) = BalanceOver(table, S, a)
  <2>1. \A S : Serial!Cardinality(S) = Cardinality(S)
    BY DEF Serial!Cardinality, Cardinality
  <2>2. \A S : Serial!SetToSeq(S) = SetToSeq(S)
    <3>1. \A f : Serial!IsInjective(f) <=> IsInjective(f)
      BY DEF Serial!IsInjective, IsInjective
    <3> QED BY <2>1, <3>1 DEF Serial!SetToSeq, SetToSeq
  <2> SUFFICES ASSUME NEW table, NEW S, NEW a
               PROVE  Serial!BalanceOver(table, S, a) = BalanceOver(table, S, a)
    OBVIOUS
  <2>3. Serial!BalanceOver(table, S, a)
          = Serial!Sum([i \in 1..Serial!Cardinality(S) |->
                          Serial!Delta(table[Serial!SetToSeq(S)[i]].lines, a)])
    BY DEF Serial!BalanceOver, Serial!SumOver
  <2>4. BalanceOver(table, S, a)
          = Sum([i \in 1..Cardinality(S) |-> Delta(table[SetToSeq(S)[i]].lines, a)])
    BY DEF BalanceOver, SumOver
  <2> QED BY <1>0, <1>2, <2>1, <2>2, <2>3, <2>4
<1> QED BY <1>1, <1>2, <1>3, <1>4, <1>5, <1>6

\* The operations that commit as they would run alone.  An edit may find its
\* draft posted, and a close does not hold off the posts that have read OPEN.
Atomic == Ops \cap {"update", "delete", "close"} = {}

AcceptedAt(t) ==
  t.op \in {"post", "reverse"}
    /\ t.pc \in {"lockAccount", "fold", "audFold", "flip", "markSource", "commit"}

DateOf(t, E) == IF t.op = "post" THEN E[t.id].date ELSE t.date

\* What the statements of a transaction have checked is still so: the DTO it
\* was sent, that it inserts lines of leaf accounts (po: is_postable), and that
\* it posts a balanced entry into an open period (pe: the status); and what the
\* insert of a child is about to publish.
Checked(t, w, E, po, pe) ==
  /\ t.pc # "idle" /\ t.op \in {"create", "transfer"} => t.lines \in Dto
  /\ t.pc # "idle" /\ t.op \in {"create", "transfer", "reverse"} /\ t.new # None =>
       \A a \in AccountsOf(w.entry[t.new].lines) : po[a]
  /\ AcceptedAt(t) =>
       /\ PeriodOf[DateOf(t, E)] # None /\ pe[PeriodOf[DateOf(t, E)]] = "OPEN"
       /\ Balanced(Folded(t, E))
  /\ t.op = "child" /\ t.pc = "commit" => w.control = {t.acct}

AllChecked == \A p \in Proc : Checked(tx[p], pend[p], entry, postable, period)

\* A statement that goes to another one and leaves the entries it has written.
LEMMA QuietChecked ==
  ASSUME IInv, AllChecked, NEW p \in Proc, tx[p].pc # "idle", NEW at, Goto(p, at),
         pend'[p].entry = pend[p].entry, pend'[p].control = pend[p].control,
         tx[p].op \in {"post", "reverse"} =>
           at \notin {"lockAccount", "fold", "audFold", "flip", "markSource", "commit"}
             \/ AcceptedAt(tx[p]),
         tx[p].op = "child" => at # "commit"
  PROVE  Checked(tx'[p], pend'[p], entry, postable, period)
<1> SUFFICES ASSUME NEW t, t = tx[p], NEW w, w = pend[p], NEW u, u = tx'[p], NEW v, v = pend'[p]
             PROVE  Checked(u, v, entry, postable, period)
  OBVIOUS
<1>1. Checked(t, w, entry, postable, period)
  BY DEF AllChecked
<1>2. Moved(t, u, at)
  BY DEF Moved, Goto, IInv, Typed, Job
<1>3. AcceptedAt(u) => AcceptedAt(t)
  BY <1>2 DEF Moved, AcceptedAt
<1>4. DateOf(u, entry) = DateOf(t, entry) /\ Folded(u, entry) = Folded(t, entry)
  BY <1>2 DEF Moved, DateOf, Folded
<1>5. /\ u.op = t.op /\ u.new = t.new /\ u.lines = t.lines
      /\ v.entry = w.entry
      /\ ~(u.op = "child" /\ u.pc = "commit")
  BY <1>2 DEF Moved
<1> QED BY <1>1, <1>3, <1>4, <1>5 DEF Checked

\* What a write to a row does to the uncommitted entries.
LEMMA WroteEntry ==
  ASSUME IInv, NEW p \in Proc, NEW e, NEW r, WriteEntry(p, e, r)
  PROVE  /\ pend'[p].entry[e] = r /\ pend'[p].control = pend[p].control
         /\ \A x \in DOMAIN pend[p].entry : x # e => pend'[p].entry[x] = pend[p].entry[x]
<1>1. pend[p] \in Writing /\ pend' = [pend EXCEPT ![p].entry = Put(pend[p].entry, e, r)]
  BY DEF WriteEntry, IInv, Typed
<1>2. /\ pend'[p].entry = Put(pend[p].entry, e, r)
      /\ pend'[p].control = pend[p].control
  BY <1>1 DEF IInv, Typed, Writing
<1> QED BY <1>2 DEF Put

LEMMA InsertHeaderChecked ==
  ASSUME IInv, AllChecked, NEW p \in Proc, InsertHeader(p)
  PROVE  Checked(tx'[p], pend'[p], entry, postable, period)
<1> SUFFICES ASSUME NEW t, t = tx[p], NEW u, u = tx'[p], NEW v, v = pend'[p]
             PROVE  Checked(u, v, entry, postable, period)
  OBVIOUS
<1>1. t.pc = "insHeader" /\ t \in Job
  BY DEF InsertHeader, Statement, IInv, Typed
<1>2. Checked(t, pend[p], entry, postable, period) /\ t.op \in Inserts
  BY <1>1, AtWork, OpsAt DEF AllChecked
<1>3. PICK e : /\ WriteEntry(p, e,
                    CASE t.op = "reverse" -> DraftRow(t.date, << >>, t.id)
                      [] t.op = "close"   -> ClosingRow(EndOf[t.per], << >>)
                      [] OTHER            -> DraftRow(t.date, << >>, None))
               /\ tx' = [tx EXCEPT ![p].new = e, ![p].pc = "insLine"]
  BY DEF InsertHeader
<1>4. u.pc = "insLine" /\ u.new = e /\ u.op = t.op /\ u.lines = t.lines
  BY <1>1, <1>3 DEF IInv, Typed, Job
<1>5. v.entry[e] = CASE t.op = "reverse" -> DraftRow(t.date, << >>, t.id)
                     [] t.op = "close"   -> ClosingRow(EndOf[t.per], << >>)
                     [] OTHER            -> DraftRow(t.date, << >>, None)
  BY <1>3, WroteEntry
<1>6. t.op \in {"create", "transfer", "reverse"} => v.entry[e].lines = << >>
  BY <1>5 DEF DraftRow
<1>7. AccountsOf(<< >>) = {}
  BY DEF AccountsOf
<1> QED BY <1>1, <1>2, <1>4, <1>6, <1>7 DEF Checked, AcceptedAt

LEMMA InsertLineChecked ==
  ASSUME IInv, AllChecked, NEW p \in Proc, InsertLine(p)
  PROVE  Checked(tx'[p], pend'[p], entry, postable, period)
<1> SUFFICES ASSUME NEW t, t = tx[p], NEW w, w = pend[p], NEW u, u = tx'[p], NEW v, v = pend'[p]
             PROVE  Checked(u, v, entry, postable, period)
  OBVIOUS
<1>1. /\ t.pc = "insLine" /\ Serial!LinesAllowed(<< NextLine(p) >>)
      /\ WriteEntry(p, Target(p), [MyRow(p) EXCEPT !.lines = Append(@, NextLine(p))])
  BY DEF InsertLine, Statement
<1>2. /\ t.op \in Inserts \cup {"update"} /\ Checked(t, w, entry, postable, period)
  BY <1>1, AtWork, OpsAt DEF AllChecked
<1>3. PICK s \in {"insLine", "validate", "commit"} :
        Goto(p, s) /\ (s = "commit" => t.op \notin {"reverse", "close"})
  BY DEF InsertLine
<1>4. Moved(t, u, s)
  BY <1>3 DEF Moved, Goto, IInv, Typed, Job
<1>5. ~AcceptedAt(u) /\ u.op # "child"
  BY <1>2, <1>3, <1>4 DEF Moved, AcceptedAt, Inserts
<1>6. ASSUME u.op \in {"create", "transfer", "reverse"}, u.new # None
      PROVE  \A a \in AccountsOf(v.entry[u.new].lines) : postable[a]
  <2>1. t.new # None /\ t.op \in {"create", "transfer", "reverse"} /\ u.new = t.new
    BY <1>4, <1>6 DEF Moved
  <2>2. PICK r \in Row : r = MyRow(p) /\ r = w.entry[t.new] /\ Target(p) = t.new
    BY <1>1, <2>1, RowSeen
  <2>3. PICK x : x = NextLine(p)
    OBVIOUS
  <2>4. v.entry[t.new] = [r EXCEPT !.lines = Append(@, x)]
    <3>1. WriteEntry(p, t.new, [r EXCEPT !.lines = Append(@, x)])
      BY <1>1, <2>2, <2>3
    <3> QED BY <3>1, WroteEntry
  <2>5. v.entry[t.new].lines = Append(r.lines, x)
    BY <2>4 DEF Row
  <2>6. \A a \in AccountsOf(r.lines) : postable[a]
    BY <1>1, <1>2, <2>1, <2>2 DEF Checked
  <2>7. postable[x.account]
    <3>1. \A a \in Serial!AccountsOf(<< x >>) : postable[a]
      BY <1>1, <2>3 DEF Serial!LinesAllowed
    <3>2. x.account \in AccountsOf(<< x >>)
      BY DEF AccountsOf
    <3> QED BY <3>1, <3>2, SerialOperators
  <2>8. \A a \in AccountsOf(Append(r.lines, x)) : a \in AccountsOf(r.lines) \/ a = x.account
    <3>1. PICK ls \in Seq(Line) : ls = r.lines
      BY DEF Row
    <3>2. /\ Len(ls) \in Nat /\ Len(Append(ls, x)) = Len(ls) + 1
          /\ \A i \in 1..Len(ls) : Append(ls, x)[i] = ls[i]
          /\ Append(ls, x)[Len(ls) + 1] = x
      OBVIOUS
    <3> QED BY <3>1, <3>2 DEF AccountsOf
  <2> QED BY <2>1, <2>5, <2>6, <2>7, <2>8
<1>7. u.lines = t.lines /\ u.op = t.op
  BY <1>4 DEF Moved
<1> QED BY <1>1, <1>2, <1>5, <1>6, <1>7 DEF Checked

LEMMA ValidateChecked ==
  ASSUME IInv, AllChecked, NEW p \in Proc, Validate(p)
  PROVE  Checked(tx'[p], pend'[p], entry, postable, period)
<1> SUFFICES ASSUME NEW t, t = tx[p], NEW u, u = tx'[p]
             PROVE  Checked(u, pend'[p], entry, postable, period)
  OBVIOUS
<1>1. /\ t.pc = "validate" /\ Serial!PeriodOpen(MyRow(p).date) /\ Balanced(MyRow(p).lines)
      /\ pend' = pend
  BY DEF Validate, Statement
<1>2. /\ t.op \in Posts /\ Checked(t, pend[p], entry, postable, period) /\ t \in Job
  BY <1>1, AtWork, OpsAt DEF AllChecked
<1>3. /\ u.pc = "lockAccount" /\ u.op = t.op /\ u.new = t.new /\ u.lines = t.lines
      /\ u.id = t.id /\ u.date = t.date
  BY <1>2 DEF Validate, IInv, Typed, Job
<1>4. MyRow(p).lines = Folded(u, entry)
  <2>1. MyRow(p).lines = Folded(t, entry)
    BY <1>1, <1>2, PostingRow
  <2> QED BY <1>3, <2>1 DEF Folded
<1>5. ASSUME t.op \in {"post", "reverse"} PROVE MyRow(p).date = DateOf(u, entry)
  <2>1. CASE t.op = "post"
    <3>1. MyRow(p) = entry[t.id]
      BY <1>1, <1>2, <2>1, PostingRow
    <3> QED BY <1>3, <2>1, <3>1 DEF DateOf
  <2>2. CASE t.op = "reverse"
    <3>1. MyRow(p) = DraftRow(t.date, t.lines, t.id)
      BY <1>1, <1>2, <2>2, PostingRow DEF Inserted
    <3>2. MyRow(p).date = t.date
      BY <3>1 DEF DraftRow
    <3> QED BY <1>3, <2>2, <3>2 DEF DateOf
  <2> QED BY <1>5, <2>1, <2>2
<1>6. AcceptedAt(u) =>
        /\ PeriodOf[DateOf(u, entry)] # None /\ period[PeriodOf[DateOf(u, entry)]] = "OPEN"
        /\ Balanced(Folded(u, entry))
  BY <1>1, <1>3, <1>4, <1>5 DEF AcceptedAt, Serial!PeriodOpen
<1> QED BY <1>1, <1>2, <1>3, <1>6 DEF Checked

LEMMA LockAccountChecked ==
  ASSUME IInv, AllChecked, NEW p \in Proc, LockAccount(p)
  PROVE  Checked(tx'[p], pend'[p], entry, postable, period)
<1> SUFFICES ASSUME NEW t, t = tx[p], NEW u, u = tx'[p]
             PROVE  Checked(u, pend'[p], entry, postable, period)
  OBVIOUS
<1>1. t.pc = "lockAccount" /\ pend' = pend
  BY DEF LockAccount, Statement
<1>2. /\ t.op \in Posts /\ Checked(t, pend[p], entry, postable, period) /\ t \in Job
  BY <1>1, AtWork, OpsAt DEF AllChecked
<1>3. /\ u.pc \in {"fold", "lockAccount"} /\ u.op = t.op /\ u.new = t.new /\ u.lines = t.lines
      /\ u.id = t.id /\ u.date = t.date
  BY <1>2 DEF LockAccount, IInv, Typed, Job
<1>4. AcceptedAt(u) => AcceptedAt(t)
  BY <1>1, <1>3 DEF AcceptedAt
<1>5. DateOf(u, entry) = DateOf(t, entry) /\ Folded(u, entry) = Folded(t, entry)
  BY <1>3 DEF DateOf, Folded
<1> QED BY <1>1, <1>2, <1>3, <1>4, <1>5 DEF Checked

\* A statement that goes to another one and writes a row of a posting, but no
\* other lines.
LEMMA PostingChecked ==
  ASSUME IInv, AllChecked, NEW p \in Proc, NEW at, Goto(p, at), AcceptedAt(tx[p]),
         pend'[p].control = pend[p].control,
         tx[p].new # None =>
           pend'[p].entry[tx[p].new].lines = pend[p].entry[tx[p].new].lines
  PROVE  Checked(tx'[p], pend'[p], entry, postable, period)
<1> SUFFICES ASSUME NEW t, t = tx[p], NEW w, w = pend[p], NEW u, u = tx'[p], NEW v, v = pend'[p]
             PROVE  Checked(u, v, entry, postable, period)
  OBVIOUS
<1>1. Checked(t, w, entry, postable, period)
  BY DEF AllChecked
<1>2. Moved(t, u, at)
  BY DEF Moved, Goto, IInv, Typed, Job
<1>3. DateOf(u, entry) = DateOf(t, entry) /\ Folded(u, entry) = Folded(t, entry)
  BY <1>2 DEF Moved, DateOf, Folded
<1>4. u.op = t.op /\ u.new = t.new /\ t.op \in {"post", "reverse"} /\ t.pc # "idle"
  BY <1>2 DEF Moved, AcceptedAt
<1> QED BY <1>1, <1>3, <1>4 DEF Checked

LEMMA FlipChecked ==
  ASSUME Atomic, IInv, AllChecked, NEW p \in Proc, Flip(p)
  PROVE  Checked(tx'[p], pend'[p], entry, postable, period)
<1> SUFFICES ASSUME NEW t, t = tx[p], NEW w, w = pend[p]
             PROVE  Checked(tx'[p], pend'[p], entry, postable, period)
  OBVIOUS
<1>1. t.pc = "flip" /\ WriteEntry(p, Target(p), PostedRow(MyRow(p)))
  BY DEF Flip, Statement
<1>2. /\ t.op \in Posts /\ Placed(t) /\ NewSet(t)
  BY <1>1, AtWork, OpsAt
<1>3. t.op \in {"post", "reverse"}
  BY <1>2 DEF Placed, Atomic, Posts
<1>4. \E at : Goto(p, at)
  BY DEF Flip
<1>5. PICK r \in Row : r = MyRow(p)
  BY <1>1, <1>2, PostingRow
<1>6. pend'[p].entry[Target(p)] = PostedRow(r) /\ pend'[p].control = w.control
  BY <1>1, <1>5, WroteEntry
<1>7. PostedRow(r).lines = r.lines
  BY DEF PostedRow, Row
<1>8. t.new # None => Target(p) = t.new /\ r = w.entry[t.new]
  BY <1>1, <1>5, RowSeen
<1>9. AcceptedAt(t)
  BY <1>1, <1>3 DEF AcceptedAt
<1>10. t.new # None => pend'[p].entry[t.new].lines = w.entry[t.new].lines
  BY <1>6, <1>7, <1>8
<1> QED BY <1>4, <1>6, <1>9, <1>10, PostingChecked

LEMMA MarkSourceChecked ==
  ASSUME IInv, AllChecked, NEW p \in Proc, MarkSource(p)
  PROVE  Checked(tx'[p], pend'[p], entry, postable, period)
<1> SUFFICES ASSUME NEW t, t = tx[p], NEW w, w = pend[p]
             PROVE  Checked(tx'[p], pend'[p], entry, postable, period)
  OBVIOUS
<1>1. /\ t.pc = "markSource" /\ Goto(p, "commit")
      /\ WriteEntry(p, t.id, [Seen(p)[t.id] EXCEPT !.status = "REVERSED"])
  BY DEF MarkSource, Statement
<1>2. t.op = "reverse" /\ Read(t, entry) /\ Written(t, w, entry)
  BY <1>1, AtWork, OpsAt
<1>3. t.new # None => t.new # t.id
  <2>1. t.id \in DOMAIN entry
    BY <1>2 DEF Read
  <2> QED BY <2>1 DEF IInv, NewApart
<1>4. t.new # None => t.new \in DOMAIN w.entry
  BY <1>2 DEF Written
<1>5. /\ pend'[p].control = w.control
      /\ t.new # None => pend'[p].entry[t.new] = w.entry[t.new]
  BY <1>1, <1>3, <1>4, WroteEntry
<1>6. AcceptedAt(t)
  BY <1>1, <1>2 DEF AcceptedAt
<1> QED BY <1>1, <1>5, <1>6, PostingChecked

\* What a transaction has checked does not change when it begins or is undone.
LEMMA RollbackChecked ==
  ASSUME IInv, NEW p \in Proc, Rollback(p)
  PROVE  Checked(tx'[p], pend'[p], entry, postable, period)
<1>1. tx'[p].pc = "idle"
  BY JobTypes DEF Rollback, IInv, Typed
<1> QED BY <1>1 DEF Checked, AcceptedAt

LEMMA RequestChecked ==
  ASSUME IInv, NEW p \in Proc, Request(p)
  PROVE  Checked(tx'[p], pend'[p], entry, postable, period)
<1> DEFINE Safe(u) == /\ u.new = None /\ ~AcceptedAt(u) /\ u.pc # "commit"
                      /\ u.op \in {"create", "transfer"} => u.lines \in Dto
<1>1. \A u : Begin(p, u) => tx'[p] = u
  BY DEF Begin, IInv, Typed
<1>2. CASE RequestCreate(p)
  <2>1. PICK op \in {"create", "transfer"}, d \in Date, ls \in Dto :
          Begin(p, [Idle EXCEPT !.pc = "insHeader", !.op = op, !.date = d, !.lines = ls])
    BY <1>2 DEF RequestCreate
  <2> DEFINE u == [Idle EXCEPT !.pc = "insHeader", !.op = op, !.date = d, !.lines = ls]
  <2>2. u.new = None /\ u.pc = "insHeader" /\ u.op = op /\ u.lines = ls
    BY JobTypes DEF Job
  <2>3. tx'[p] = u
    BY <1>1, <2>1
  <2> HIDE DEF u
  <2>4. Safe(u)
    BY <2>2 DEF AcceptedAt
  <2> QED BY <2>3, <2>4 DEF Checked
<1>3. CASE RequestPost(p) \/ RequestReverse(p)
  <2>1. tx'[p].new = None /\ tx'[p].pc = "lockEntry" /\ tx'[p].op \in {"post", "reverse"}
    <3>1. CASE RequestPost(p)
      <4>1. PICK e : Begin(p, [Idle EXCEPT !.pc = "lockEntry", !.op = "post", !.id = e])
        BY <3>1 DEF RequestPost
      <4> QED BY <1>1, <4>1, JobTypes DEF Job
    <3>2. CASE RequestReverse(p)
      <4>1. PICK e, d : Begin(p, [Idle EXCEPT !.pc = "lockEntry", !.op = "reverse", !.id = e,
                                              !.date = d])
        BY <3>2 DEF RequestReverse
      <4> QED BY <1>1, <4>1, JobTypes DEF Job
    <3> QED BY <1>3, <3>1, <3>2
  <2> QED BY <2>1 DEF Checked, AcceptedAt
<1>4. CASE \/ RequestUpdate(p) \/ RequestDelete(p) \/ RequestRestore(p)
           \/ RequestChild(p) \/ RequestRecompute(p) \/ RequestClose(p)
  <2>1. /\ tx'[p].pc # "commit"
        /\ tx'[p].op \in {"update", "delete", "restore", "child", "recompute", "close"}
    <3>1. CASE RequestUpdate(p)
      <4>1. PICK e, d, ls : Begin(p, [Idle EXCEPT !.pc = "assertDraft", !.op = "update", !.id = e,
                                                  !.date = d, !.lines = ls])
        BY <3>1 DEF RequestUpdate
      <4> QED BY <1>1, <4>1, JobTypes DEF Job
    <3>2. CASE RequestDelete(p)
      <4>1. PICK e : Begin(p, [Idle EXCEPT !.pc = "assertDraft", !.op = "delete", !.id = e])
        BY <3>2 DEF RequestDelete
      <4> QED BY <1>1, <4>1, JobTypes DEF Job
    <3>3. CASE RequestRestore(p)
      <4>1. PICK e : Begin(p, [Idle EXCEPT !.pc = "updHeader", !.op = "restore", !.id = e])
        BY <3>3 DEF RequestRestore
      <4> QED BY <1>1, <4>1, JobTypes DEF Job
    <3>4. CASE RequestChild(p)
      <4>1. PICK a : Begin(p, [Idle EXCEPT !.pc = "insAccount", !.op = "child", !.acct = a])
        BY <3>4 DEF RequestChild
      <4> QED BY <1>1, <4>1, JobTypes DEF Job
    <3>5. CASE RequestRecompute(p)
      <4>1. PICK a : Begin(p, [Idle EXCEPT !.pc = "lockOne", !.op = "recompute", !.acct = a])
        BY <3>5 DEF RequestRecompute
      <4> QED BY <1>1, <4>1, JobTypes DEF Job
    <3>6. CASE RequestClose(p)
      <4>1. PICK q : Begin(p, [Idle EXCEPT !.pc = "tryClose", !.op = "close", !.per = q])
        BY <3>6 DEF RequestClose
      <4> QED BY <1>1, <4>1, JobTypes DEF Job
    <3> QED BY <1>4, <3>1, <3>2, <3>3, <3>4, <3>5, <3>6
  <2> QED BY <2>1 DEF Checked, AcceptedAt
<1> QED BY <1>2, <1>3, <1>4 DEF Request

LEMMA LockEntryChecked ==
  ASSUME IInv, NEW p \in Proc, LockEntry(p)
  PROVE  Checked(tx'[p], pend'[p], entry, postable, period)
<1> SUFFICES ASSUME NEW t, t = tx[p], NEW u, u = tx'[p]
             PROVE  Checked(u, pend'[p], entry, postable, period)
  OBVIOUS
<1>1. t.pc = "lockEntry"
  BY DEF LockEntry, Statement
<1>2. t \in Job /\ t.op \in {"post", "reverse"} /\ NewSet(t)
  BY <1>1, AtWork, OpsAt
<1>3. u.op = t.op /\ u.new = t.new /\ u.pc \in {"insHeader", "validate"}
  BY <1>2 DEF LockEntry, Goto, IInv, Typed, Job
<1>4. u.new = None
  BY <1>1, <1>2, <1>3 DEF NewSet
<1> QED BY <1>2, <1>3, <1>4 DEF Checked, AcceptedAt

LEMMA RestoreChecked ==
  ASSUME IInv, NEW p \in Proc, UpdateHeader(p) \/ AuditUpdate(p)
  PROVE  Checked(tx'[p], pend'[p], entry, postable, period)
<1>1. tx[p].pc \in {"updHeader", "audUpdate"}
  BY DEF UpdateHeader, AuditUpdate, Statement
<1>2. tx[p] \in Job /\ tx[p].op \in Edits
  BY <1>1, AtWork, OpsAt
<1>3. tx'[p].op = tx[p].op
  BY <1>2 DEF UpdateHeader, AuditUpdate, Goto, IInv, Typed, Job
<1> QED BY <1>2, <1>3 DEF Checked, AcceptedAt, Edits

LEMMA ControlParentChecked ==
  ASSUME IInv, NEW p \in Proc, ControlParent(p)
  PROVE  Checked(tx'[p], pend'[p], entry, postable, period)
<1>1. tx[p].pc = "control"
  BY DEF ControlParent, Statement
<1>2. tx[p] \in Job /\ pend[p] \in Writing /\ tx[p].op = "child"
  BY <1>1, AtWork, OpsAt
<1>3. tx'[p].op = "child" /\ tx'[p].acct = tx[p].acct
  BY <1>2 DEF ControlParent, Goto, IInv, Typed, Job
<1>4. pend'[p].control = {tx[p].acct}
  BY <1>2 DEF ControlParent, IInv, Typed, Writing
<1> QED BY <1>3, <1>4 DEF Checked, AcceptedAt

\* The rest of the statements write no row of an entry.
LEMMA OtherChecked ==
  ASSUME IInv, AllChecked, NEW p \in Proc,
         \/ AuditFold(p) \/ Fold(p) \/ LockOne(p) \/ Recompute(p) \/ AuditRecompute(p)
         \/ InsertChild(p) \/ AuditChild(p)
  PROVE  Checked(tx'[p], pend'[p], entry, postable, period)
<1>1. tx[p].pc \in {"fold", "audFold", "lockOne", "recompute", "audRecompute", "insAccount",
                    "audAccount"}
  BY DEF AuditFold, Fold, LockOne, Recompute, AuditRecompute, InsertChild, AuditChild, Statement
<1>2. pend[p] \in Writing /\ Placed(tx[p])
  BY <1>1, AtWork
<1>3. pend'[p].entry = pend[p].entry /\ pend'[p].control = pend[p].control
  BY <1>2 DEF AuditFold, Fold, LockOne, Recompute, AuditRecompute, InsertChild, AuditChild,
              IInv, Typed, Writing
<1>4. CASE AuditFold(p) \/ Fold(p)
  <2>1. tx[p].pc \in {"fold", "audFold"}
    BY <1>4 DEF AuditFold, Fold, Statement
  <2>2. tx[p].op \in Posts
    BY <1>2, <2>1, OpsAt
  <2>3. tx[p].op \in {"post", "reverse"} => AcceptedAt(tx[p])
    BY <2>1 DEF AcceptedAt
  <2>4. tx[p].op # "child"
    BY <2>2 DEF Posts
  <2>5. \E at : Goto(p, at)
    BY <1>4 DEF AuditFold, Fold
  <2> QED BY <1>1, <1>3, <2>3, <2>4, <2>5, QuietChecked
<1>5. CASE LockOne(p) \/ Recompute(p) \/ AuditRecompute(p) \/ InsertChild(p) \/ AuditChild(p)
  <2>1. tx[p].op \in {"recompute", "child"} /\ (tx[p].op = "child" => tx[p].pc \in {"insAccount", "audAccount"})
    <3>1. tx[p].pc \in {"lockOne", "recompute", "audRecompute", "insAccount", "audAccount"}
      BY <1>5 DEF LockOne, Recompute, AuditRecompute, InsertChild, AuditChild, Statement
    <3>2. PICK t : t = tx[p] /\ Placed(t)
      BY <1>2
    <3>3. /\ t.pc \in {"lockOne", "recompute", "audRecompute"} => t.op = "recompute"
          /\ t.pc \in {"insAccount", "audAccount", "control"} => t.op = "child"
      BY <3>2, OpsAt
    <3> QED BY <3>1, <3>2, <3>3
  <2>2. PICK at : Goto(p, at) /\ (tx[p].pc \in {"insAccount", "audAccount"} => at # "commit")
    BY <1>5 DEF LockOne, Recompute, AuditRecompute, InsertChild, AuditChild, Statement
  <2> QED BY <1>1, <1>3, <2>1, <2>2, QuietChecked
<1> QED BY <1>4, <1>5

LEMMA WorkChecked ==
  ASSUME Atomic, IInv, AllChecked, NEW p \in Proc, Work(p), ~Commit(p)
  PROVE  Checked(tx'[p], pend'[p], entry, postable, period)
<1>1. CASE \/ AssertDraft(p) \/ TryClose(p) \/ LockPeriod(p) \/ CountDrafts(p) \/ SumNet(p)
           \/ ClosePeriod(p)
  <2>1. tx[p].pc \in {"assertDraft", "tryClose", "lockPeriod", "count", "net", "closePeriod"}
    BY <1>1 DEF AssertDraft, TryClose, LockPeriod, CountDrafts, SumNet, ClosePeriod, Statement
  <2>2. PICK t : t = tx[p] /\ Placed(t)
    BY <2>1, AtWork
  <2>3. t.op \in {"update", "delete", "close"}
    BY <2>1, <2>2, OpsAt
  <2> QED BY <2>2, <2>3 DEF Placed, Atomic
<1>2. CASE DiscardHeader(p)
  <2>1. tx[p] \in Job /\ tx[p].pc = "insLine" /\ Checked(tx[p], pend[p], entry, postable, period)
    BY <1>2 DEF DiscardHeader, IInv, Typed, AllChecked
  <2>2. /\ tx'[p].op = tx[p].op /\ tx'[p].lines = tx[p].lines /\ tx'[p].new = None
        /\ tx'[p].pc = "closePeriod"
    BY <1>2, <2>1 DEF DiscardHeader, IInv, Typed, Job
  <2> QED BY <2>1, <2>2 DEF Checked, AcceptedAt
<1>3. CASE RestoreNothing(p) \/ Refuse(p)
  BY <1>3, RollbackChecked DEF RestoreNothing, Refuse
<1>4. CASE \/ InsertHeader(p) \/ InsertLine(p) \/ Validate(p) \/ LockAccount(p) \/ Flip(p)
           \/ MarkSource(p) \/ LockEntry(p) \/ UpdateHeader(p) \/ AuditUpdate(p)
           \/ ControlParent(p)
  BY <1>4, InsertHeaderChecked, InsertLineChecked, ValidateChecked, LockAccountChecked,
     FlipChecked, MarkSourceChecked, LockEntryChecked, RestoreChecked, ControlParentChecked
<1>5. CASE \/ AuditFold(p) \/ Fold(p) \/ LockOne(p) \/ Recompute(p) \/ AuditRecompute(p)
           \/ InsertChild(p) \/ AuditChild(p)
  BY <1>5, OtherChecked
<1> QED BY <1>1, <1>2, <1>3, <1>4, <1>5 DEF Work

\* Where no period is closed, a commit leaves the periods alone.
LEMMA CommitPeriods ==
  ASSUME Atomic, IInv, NEW p \in Proc, Commit(p)
  PROVE  period' = period
<1>1. tx[p].pc = "commit" /\ period' = [q \in Period |-> IF q \in pend[p].closed THEN "CLOSED" ELSE period[q]]
  BY DEF Commit
<1>2. Placed(tx[p]) /\ Written(tx[p], pend[p], entry)
  BY <1>1, AtWork
<1>3. tx[p].op # "close"
  BY <1>2 DEF Placed, Atomic
<1>4. pend[p].closed = {}
  BY <1>2, <1>3 DEF Written
<1>5. period \in [Period -> PeriodStatus]
  BY TablesTyped DEF IInv
<1> QED BY <1>1, <1>4, <1>5

\* A child account turns its parent into a control account under the audit
\* lock, which everybody holds who has inserted a line.
LEMMA CommitAccounts ==
  ASSUME IInv, NEW p \in Proc, Commit(p), NEW q \in Proc, q # p,
         tx[q].pc # "idle", tx[q].op \in Inserts, tx[q].new # None
  PROVE  postable' = postable
<1>1. tx[p].pc = "commit" /\ postable' = [a \in Account |-> postable[a] /\ a \notin pend[p].control]
  BY DEF Commit
<1>2. Placed(tx[p]) /\ Written(tx[p], pend[p], entry) /\ Holds(p, tx[p], locks, entry)
  BY <1>1, AtWork
<1>3. Placed(tx[q]) /\ NewSet(tx[q]) /\ Holds(q, tx[q], locks, entry)
  BY AtWork
<1>4. PICK on : on = AuditLock
  OBVIOUS
<1>5. Has(p, on, "UPDATE", locks)
  BY <1>1, <1>2, <1>4 DEF Holds
<1>6. Has(q, on, "UPDATE", locks)
  <2> SUFFICES ASSUME NEW t, t = tx[q] PROVE Has(q, on, "UPDATE", locks)
    OBVIOUS
  <2>1. t.pc \notin {"lockEntry", "insHeader", "tryClose", "lockPeriod", "count", "net"}
    BY <1>3 DEF NewSet
  <2>2. \/ t.pc \in {"insLine", "flip", "markSource", "closePeriod", "control", "commit"}
        \/ t.op \in {"reverse", "close"} /\ t.pc \in {"validate", "lockAccount", "fold", "audFold"}
    <3>1. t.pc \in StepsOf(t.op)
      BY <1>3 DEF Placed
    <3> QED BY <2>1, <3>1 DEF StepsOf, Inserts
  <2> QED BY <1>3, <1>4, <2>2 DEF Holds
<1>7. FALSE
  BY <1>5, <1>6, TwoHolders
<1> QED BY <1>7

LEMMA OthersChecked ==
  ASSUME Atomic, IInv, AllChecked, NEW p \in Proc, Commit(p), NEW q \in Proc, q # p
  PROVE  Checked(tx[q], pend[q], entry', postable', period')
<1> SUFFICES ASSUME NEW t, t = tx[q], NEW w, w = pend[q]
             PROVE  Checked(t, w, entry', postable', period')
  OBVIOUS
<1>1. Checked(t, w, entry, postable, period)
  BY DEF AllChecked
<1>2. t.pc # "idle" /\ t.op \in {"create", "transfer", "reverse"} /\ t.new # None =>
        postable' = postable
  BY CommitAccounts DEF Inserts
<1>3. AcceptedAt(t) => DateOf(t, entry') = DateOf(t, entry) /\ Folded(t, entry') = Folded(t, entry)
  <2> SUFFICES ASSUME AcceptedAt(t), t.op = "post"
               PROVE  entry'[t.id] = entry[t.id]
    BY DEF DateOf, Folded
  <2>1. t.pc # "idle" /\ Pinned(t)
    BY DEF AcceptedAt, Pinned
  <2>2. t.id \in DOMAIN entry /\ t.id \notin DOMAIN pend[p].entry
    BY <2>1, CommitElsewhere
  <2> QED BY <2>2, CommitTables
<1>4. period' = period
  BY CommitPeriods
<1> QED BY <1>1, <1>2, <1>3, <1>4 DEF Checked

LEMMA CheckedKeeps ==
  ASSUME Atomic, IInv, AllChecked, Next
  PROVE  AllChecked'
<1>1. PICK p \in Proc : Request(p) \/ Work(p) \/ DeadlockVictim(p) \/ Crash(p)
  BY DEF Next
<1> SUFFICES ASSUME NEW q \in Proc
             PROVE  Checked(tx'[q], pend'[q], entry', postable', period')
  BY DEF AllChecked
<1>2. CASE q # p
  <2>1. tx'[q] = tx[q] /\ pend'[q] = pend[q]
    BY <1>1, <1>2, OthersKept
  <2>2. CASE Commit(p)
    BY <1>2, <2>1, <2>2, OthersChecked
  <2>3. CASE ~Commit(p)
    <3>1. entry' = entry /\ postable' = postable /\ period' = period
      BY <1>1, <2>3, EntryKept DEF tables
    <3> QED BY <2>1, <3>1 DEF AllChecked
  <2> QED BY <2>2, <2>3
<1>3. CASE q = p /\ Commit(p)
  <2>1. tx'[p] = IF tx[p].op = "transfer"
                 THEN [Idle EXCEPT !.pc = "lockEntry", !.op = "post", !.id = tx[p].new]
                 ELSE Idle
    BY <1>3 DEF Commit, IInv, Typed
  <2>2. tx'[p].pc = "idle" \/ (tx'[p].pc = "lockEntry" /\ tx'[p].op = "post")
    BY <2>1, JobTypes DEF Job
  <2> QED BY <1>3, <2>2 DEF Checked, AcceptedAt
<1>4. CASE q = p /\ ~Commit(p)
  <2>1. Checked(tx'[p], pend'[p], entry, postable, period)
    BY <1>1, <1>4, RequestChecked, WorkChecked, RollbackChecked DEF DeadlockVictim, Crash
  <2>2. entry' = entry /\ postable' = postable /\ period' = period
    BY <1>1, <1>4, EntryKept DEF tables
  <2> QED BY <1>4, <2>1, <2>2
<1> QED BY <1>2, <1>3, <1>4

-----------------------------------------------------------------------------
(* Each commit as an operation of Ledger.                                  *)

\* The tables after a commit, by what its transaction wrote.
LEMMA CommitWrites ==
  ASSUME IInv, NEW p \in Proc, Commit(p)
  PROVE  /\ DOMAIN pend[p].entry = {} => entry' = entry
         /\ \A e : DOMAIN pend[p].entry = {e} => entry' = Put(entry, e, pend[p].entry[e])
         /\ DOMAIN pend[p].balance = {} => balance' = balance
         /\ pend[p].control = {} => postable' = postable
<1>1. /\ entry' = Overlay(entry, pend[p].entry) /\ balance' = Overlay(balance, pend[p].balance)
      /\ postable' = [a \in Account |-> postable[a] /\ a \notin pend[p].control]
  BY DEF Commit, Seen
<1>2. /\ entry \in [DOMAIN entry -> Row] /\ balance \in [Account -> Int]
      /\ postable \in [Account -> BOOLEAN]
  BY TablesTyped DEF IInv
<1>3. DOMAIN pend[p].entry = {} => entry' = entry
  BY <1>1, <1>2 DEF Overlay
<1>4. \A e : DOMAIN pend[p].entry = {e} => entry' = Put(entry, e, pend[p].entry[e])
  BY <1>1 DEF Overlay, Put
<1>5. DOMAIN pend[p].balance = {} => balance' = balance
  BY <1>1, <1>2 DEF Overlay
<1>6. pend[p].control = {} => postable' = postable
  BY <1>1, <1>2
<1> QED BY <1>3, <1>4, <1>5, <1>6

\* A posting publishes the balances that its lines make of the committed ones.
LEMMA CommitFolds ==
  ASSUME IInv, AllFresh, NEW p \in Proc, Commit(p), tx[p].op \in {"post", "reverse"}
  PROVE  balance' = FoldIn(balance, Folded(tx[p], entry))
<1> SUFFICES ASSUME NEW t, t = tx[p], NEW w, w = pend[p]
             PROVE  balance' = FoldIn(balance, Folded(t, entry))
  OBVIOUS
<1>1. t.pc = "commit" /\ balance' = Overlay(balance, w.balance)
  BY DEF Commit
<1>2. /\ DOMAIN w.balance = Published(t, entry) /\ Read(t, entry) /\ Written(t, w, entry)
      /\ NewSet(t)
  BY <1>1, AtWork
<1>3. DOMAIN w.balance = AccountsOf(Folded(t, entry))
  BY <1>1, <1>2 DEF Published, Folding, Posts
<1>4. \A a \in DOMAIN w.balance : w.balance[a] = balance[a] + Delta(Folded(t, entry), a)
  BY DEF AllFresh, Fresh
<1>5. Folded(t, entry) \in Seq(Line)
  <2>1. CASE t.op = "post"
    <3>1. entry[t.id] \in Row
      BY <1>2, <2>1, TablesTyped DEF IInv, Read
    <3> QED BY <2>1, <3>1 DEF Folded, Row
  <2>2. CASE t.op = "reverse"
    <3>1. t.new # None
      BY <1>1, <1>2, <2>2, EntryAssumption DEF NewSet, Inserts, EntryAssumption
    <3> QED BY <1>1, <1>2, <2>2, <3>1 DEF Written, Flipped, Folded
  <2> QED BY <2>1, <2>2
<1>6. /\ DOMAIN w.balance \subseteq Account /\ balance \in [Account -> Int]
  <2>1. w \in Writing
    BY <1>1, AtWork
  <2> QED BY <2>1, TablesTyped DEF IInv, Writing, Tables
<1>7. PICK ls \in Seq(Line) : ls = Folded(t, entry)
  BY <1>5
<1>8. \A a \in Account \ DOMAIN w.balance : balance[a] + Delta(ls, a) = balance[a]
  <2> SUFFICES ASSUME NEW a \in Account, a \notin AccountsOf(ls)
               PROVE  balance[a] + Delta(ls, a) = balance[a]
    BY <1>3, <1>7
  <2>1. Delta(ls, a) = 0
    BY DeltaElsewhere
  <2> QED BY <1>6, <2>1
<1> QED BY <1>1, <1>4, <1>6, <1>7, <1>8 DEF Overlay, FoldIn

LEMMA CreateCommits ==
  ASSUME Atomic, IInv, AllChecked, NEW p \in Proc, Commit(p),
         tx[p].op \in {"create", "transfer"}
  PROVE  Serial!Next
<1> SUFFICES ASSUME NEW t, t = tx[p], NEW w, w = pend[p] PROVE Serial!Next
  OBVIOUS
<1>1. t.pc = "commit"
  BY CommitTables
<1>2. /\ Placed(t) /\ NewSet(t) /\ Written(t, w, entry) /\ w \in Writing
      /\ DOMAIN w.balance = Published(t, entry)
      /\ Checked(t, w, entry, postable, period)
  BY <1>1, AtWork DEF AllChecked
<1>3. t.new \in Entry /\ t.new # None /\ t.new \notin DOMAIN entry
  BY <1>1, <1>2, EntryAssumption DEF NewSet, Inserts, EntryAssumption, IInv, NewApart
<1>4. DOMAIN w.entry = {t.new}
  BY <1>2, <1>3 DEF Written, Touched, Edits
<1>5. w.entry[t.new] = DraftRow(t.date, t.lines, None)
  <2>1. w.entry[t.new] = Inserted(t, w.entry[t.new].lines) /\ w.entry[t.new].lines = t.lines
    BY <1>1, <1>2, <1>3 DEF Written, Flipped, Copied
  <2> QED BY <2>1 DEF Inserted
<1>6. entry' = Put(entry, t.new, DraftRow(t.date, t.lines, None))
  BY <1>4, <1>5, CommitWrites
<1>7. UNCHANGED <<balance, postable, period>>
  <2>1. DOMAIN w.balance = {}
    BY <1>2 DEF Published, Folding, Posts
  <2>2. w.control = {}
    BY <1>2 DEF Written
  <2> QED BY <2>1, <2>2, CommitWrites, CommitPeriods
<1>8. t.date \in Date /\ t.lines \in Dto /\ AssertBalanced(t.lines)
  BY <1>1, <1>2 DEF Placed, Checked
<1>9. Serial!LinesAllowed(t.lines)
  <2>1. \A i \in 1..Len(t.lines) : OneSided(t.lines[i])
    BY <1>8 DEF AssertBalanced
  <2>2. w.entry[t.new].lines = t.lines
    BY <1>5 DEF DraftRow
  <2>3. \A a \in AccountsOf(t.lines) : postable[a]
    BY <1>1, <1>2, <1>3, <2>2 DEF Checked
  <2> QED BY <2>1, <2>3, SerialOperators DEF Serial!LinesAllowed
<1>10. CASE t.op = "create"
  <2>1. "create" \in Ops
    BY <1>2, <1>10 DEF Placed
  <2>2. Serial!CreateDraft(t.new, t.date, t.lines)
    BY <1>3, <1>6, <1>7, <1>8, <1>9, <2>1, SerialOperators, SerialSums
       DEF Serial!CreateDraft, Serial!Fresh
  <2> QED BY <1>3, <1>8, <2>2 DEF Serial!Next
<1>11. CASE t.op = "transfer"
  <2>1. "transfer" \in Ops /\ TransferLegs(t.lines)
    BY <1>2, <1>11 DEF Placed
  <2>2. Serial!TransferDraft(t.new, t.date, t.lines)
    BY <1>3, <1>6, <1>7, <1>8, <1>9, <2>1, SerialOperators, SerialSums
       DEF Serial!TransferDraft, Serial!Fresh
  <2> QED BY <1>3, <1>8, <2>2 DEF Serial!Next
<1> QED BY <1>10, <1>11

LEMMA SerialFold == \A B, ls : Serial!FoldIn(B, ls) = FoldIn(B, ls)
<1> QED BY SerialSums DEF Serial!FoldIn, FoldIn

LEMMA PostCommits ==
  ASSUME Atomic, IInv, AllChecked, AllFresh, NEW p \in Proc, Commit(p), tx[p].op = "post"
  PROVE  Serial!Next
<1> SUFFICES ASSUME NEW t, t = tx[p], NEW w, w = pend[p] PROVE Serial!Next
  OBVIOUS
<1>1. t.pc = "commit"
  BY CommitTables
<1>2. /\ Placed(t) /\ NewSet(t) /\ Written(t, w, entry) /\ Read(t, entry)
      /\ Checked(t, w, entry, postable, period)
  BY <1>1, AtWork DEF AllChecked
<1>3. PICK r \in Row : r = entry[t.id] /\ t.id \in Entry
  BY <1>2, TablesTyped DEF Read, IInv
<1>4. t.id \in DOMAIN entry /\ ~r.deleted /\ r.status = "DRAFT"
  BY <1>1, <1>2, <1>3 DEF Read
<1>5. entry' = Put(entry, t.id, PostedRow(r))
  <2>1. t.new = None /\ Touched(t)
    BY <1>1, <1>2 DEF NewSet, Touched, Inserts
  <2>2. DOMAIN w.entry = {t.id} /\ w.entry[t.id] = PostedRow(r)
    BY <1>2, <1>3, <2>1 DEF Written, Edited
  <2> QED BY <2>2, CommitWrites
<1>6. balance' = FoldIn(balance, r.lines)
  BY <1>3, CommitFolds DEF Folded
<1>7. postable' = postable /\ period' = period
  <2>1. w.control = {}
    BY <1>2 DEF Written
  <2> QED BY <2>1, CommitWrites, CommitPeriods
<1>8. Serial!PeriodOpen(r.date) /\ Balanced(r.lines)
  BY <1>1, <1>2, <1>3 DEF Checked, AcceptedAt, DateOf, Folded, Serial!PeriodOpen
<1>9. Serial!AddPosted(entry, t.id, r)
  BY <1>5, <1>6, <1>8, SerialOperators, SerialSums, SerialFold DEF Serial!AddPosted
<1>10. {"post", "transfer"} \cap Ops # {}
  BY <1>2 DEF Placed
<1>11. Serial!PostJournalEntry(t.id)
  BY <1>3, <1>4, <1>7, <1>9, <1>10 DEF Serial!PostJournalEntry, Serial!Exists
<1> QED BY <1>3, <1>11 DEF Serial!Next

LEMMA ReverseCommits ==
  ASSUME Atomic, IInv, AllChecked, AllFresh, NEW p \in Proc, Commit(p), tx[p].op = "reverse"
  PROVE  Serial!Next
<1> SUFFICES ASSUME NEW t, t = tx[p], NEW w, w = pend[p] PROVE Serial!Next
  OBVIOUS
<1>1. t.pc = "commit"
  BY CommitTables
<1>2. /\ Placed(t) /\ NewSet(t) /\ Written(t, w, entry) /\ Read(t, entry)
      /\ Checked(t, w, entry, postable, period)
  BY <1>1, AtWork DEF AllChecked
<1>3. PICK r \in Row : r = entry[t.id]
  BY <1>2, TablesTyped DEF Read, IInv
<1>4. /\ t.id \in DOMAIN entry /\ ~r.deleted /\ r.status = "POSTED"
      /\ t.lines = Mirror(r.lines) /\ t.date \in Date /\ t.id \in Entry
  BY <1>1, <1>2, <1>3 DEF Read, Placed
<1>5. t.new \in Entry /\ t.new # None /\ t.new \notin DOMAIN entry
  BY <1>1, <1>2, EntryAssumption DEF NewSet, Inserts, EntryAssumption, IInv, NewApart
<1>6. t.new # t.id
  BY <1>4, <1>5
<1> DEFINE m == DraftRow(t.date, t.lines, t.id)
<1>7. /\ DOMAIN w.entry = {t.new, t.id}
      /\ w.entry[t.new] = PostedRow(m) /\ t.lines \in Seq(Line)
      /\ w.entry[t.id] = [r EXCEPT !.status = "REVERSED"]
  <2>1. Touched(t) /\ Flipped(t)
    BY <1>1 DEF Touched, Flipped
  <2>2. Inserted(t, t.lines) = m
    BY DEF Inserted
  <2>3. w.entry[t.id] = [r EXCEPT !.status = "REVERSED"]
    BY <1>2, <1>3, <2>1 DEF Written, Edited
  <2> QED BY <1>2, <1>5, <2>1, <2>2, <2>3 DEF Written
<1>8. m.lines = t.lines /\ m.date = t.date
  BY DEF DraftRow
<1>9. PostedRow(m).lines = t.lines
  <2>1. Inserted(t, t.lines) \in Row /\ Inserted(t, t.lines) = m
    BY <1>2, <1>7, InsertedRow DEF Inserted
  <2>2. \A x \in Row : PostedRow(x).lines = x.lines
    BY DEF PostedRow, Row
  <2> QED BY <1>8, <2>1, <2>2
<1> HIDE DEF m
<1>10. entry' = Put([entry EXCEPT ![t.id].status = "REVERSED"], t.new, PostedRow(m))
  <2>1. entry' = Overlay(entry, w.entry)
    BY DEF Commit, Seen
  <2>2. PICK F : F = [entry EXCEPT ![t.id].status = "REVERSED"]
    OBVIOUS
  <2>3. /\ DOMAIN F = DOMAIN entry /\ F[t.id] = [r EXCEPT !.status = "REVERSED"]
        /\ \A x \in DOMAIN entry : x # t.id => F[x] = entry[x]
    BY <1>3, <1>4, <2>2
  <2>4. DOMAIN entry \cup {t.new, t.id} = DOMAIN entry \cup {t.new}
    BY <1>4
  <2>5. Overlay(entry, w.entry) = Put(F, t.new, PostedRow(m))
    BY <1>6, <1>7, <2>3, <2>4 DEF Overlay, Put
  <2> QED BY <2>1, <2>2, <2>5
<1>11. balance' = FoldIn(balance, m.lines)
  BY <1>8, CommitFolds DEF Folded
<1>12. postable' = postable /\ period' = period
  <2>1. w.control = {}
    BY <1>2 DEF Written
  <2> QED BY <2>1, CommitWrites, CommitPeriods
<1>13. Serial!PeriodOpen(m.date) /\ Balanced(m.lines)
  BY <1>1, <1>2, <1>8 DEF Checked, AcceptedAt, DateOf, Folded, Serial!PeriodOpen
<1>14. Serial!LinesAllowed(t.lines)
  <2>1. \A i \in 1..Len(t.lines) : OneSided(t.lines[i])
    <3>1. \A i \in 1..Len(t.lines) : t.lines[i] \in Line
      BY <1>7
    <3> QED BY <3>1 DEF Line
  <2>2. \A a \in AccountsOf(t.lines) : postable[a]
    BY <1>1, <1>2, <1>5, <1>7, <1>9 DEF Checked
  <2> QED BY <2>1, <2>2, SerialOperators DEF Serial!LinesAllowed
<1>15. Serial!AddPosted([entry EXCEPT ![t.id].status = "REVERSED"], t.new, m)
  BY <1>10, <1>11, <1>13, SerialOperators, SerialSums, SerialFold DEF Serial!AddPosted
<1>16. m = Serial!DraftRow(t.date, Serial!Mirror(r.lines), t.id) /\ t.lines = Serial!Mirror(r.lines)
  BY <1>4, SerialOperators DEF m
<1>17. "reverse" \in Ops
  BY <1>2 DEF Placed
<1>18. Serial!ReverseJournalEntry(t.id, t.new, t.date)
  BY <1>3, <1>4, <1>5, <1>12, <1>14, <1>15, <1>16, <1>17
     DEF Serial!ReverseJournalEntry, Serial!Exists, Serial!Fresh
<1> QED BY <1>4, <1>5, <1>18 DEF Serial!Next

LEMMA RestoreCommits ==
  ASSUME Atomic, IInv, NEW p \in Proc, Commit(p), tx[p].op = "restore"
  PROVE  Serial!Next
<1> SUFFICES ASSUME NEW t, t = tx[p], NEW w, w = pend[p] PROVE Serial!Next
  OBVIOUS
<1>1. t.pc = "commit"
  BY CommitTables
<1>2. /\ Placed(t) /\ NewSet(t) /\ Written(t, w, entry) /\ Read(t, entry)
      /\ DOMAIN w.balance = Published(t, entry)
  BY <1>1, AtWork
<1>3. /\ t.id \in DOMAIN entry /\ t.id \in Entry /\ entry[t.id].deleted
      /\ entry[t.id].status = "DRAFT"
  BY <1>1, <1>2 DEF Read, Placed, Edits
<1>4. entry' = Put(entry, t.id, [entry[t.id] EXCEPT !.deleted = FALSE])
  <2>1. t.new = None /\ Touched(t)
    BY <1>1, <1>2 DEF NewSet, Touched, Inserts, Edits
  <2>2. DOMAIN w.entry = {t.id} /\ w.entry[t.id] = [entry[t.id] EXCEPT !.deleted = FALSE]
    BY <1>2, <2>1 DEF Written, Edited
  <2> QED BY <2>2, CommitWrites
<1>5. UNCHANGED <<balance, postable, period>>
  <2>1. DOMAIN w.balance = {} /\ w.control = {}
    BY <1>2 DEF Published, Folding, Posts, Written
  <2> QED BY <2>1, CommitWrites, CommitPeriods
<1>6. "restore" \in Ops
  BY <1>2 DEF Placed
<1>7. Serial!Restore(t.id)
  BY <1>3, <1>4, <1>5, <1>6, SerialOperators DEF Serial!Restore
<1> QED BY <1>3, <1>7 DEF Serial!Next

LEMMA AccountCommits ==
  ASSUME Atomic, IInv, AllChecked, AllFresh, NEW p \in Proc, Commit(p),
         tx[p].op \in {"child", "recompute"}
  PROVE  Serial!Next
<1> SUFFICES ASSUME NEW t, t = tx[p], NEW w, w = pend[p] PROVE Serial!Next
  OBVIOUS
<1>1. t.pc = "commit"
  BY CommitTables
<1>2. /\ Placed(t) /\ NewSet(t) /\ Written(t, w, entry)
      /\ DOMAIN w.balance = Published(t, entry)
      /\ Checked(t, w, entry, postable, period)
  BY <1>1, AtWork DEF AllChecked
<1>3. t.acct \in Account /\ t.op \in Ops
  BY <1>2 DEF Placed
<1>4. entry' = entry /\ period' = period
  <2>1. DOMAIN w.entry = {}
    BY <1>2 DEF Written, NewSet, Touched, Inserts, Edits
  <2> QED BY <2>1, CommitWrites, CommitPeriods
<1>5. CASE t.op = "child"
  <2>1. DOMAIN w.balance = {} /\ w.control = {t.acct}
    BY <1>1, <1>2, <1>5 DEF Published, Folding, Posts, Checked
  <2>2. balance' = balance
    BY <2>1, CommitWrites
  <2>3. postable' = [postable EXCEPT ![t.acct] = FALSE]
    <3>1. postable' = [a \in Account |-> postable[a] /\ a \notin w.control]
      BY DEF Commit
    <3>2. postable \in [Account -> BOOLEAN]
      BY TablesTyped DEF IInv
    <3> QED BY <2>1, <3>1, <3>2
  <2>4. Serial!CreateChildOf(t.acct)
    BY <1>3, <1>4, <1>5, <2>2, <2>3 DEF Serial!CreateChildOf
  <2> QED BY <1>3, <2>4 DEF Serial!Next
<1>6. CASE t.op = "recompute"
  <2>1. DOMAIN w.balance = {t.acct} /\ w.control = {}
    BY <1>1, <1>2, <1>6 DEF Published, Folding, Posts, Written
  <2>2. w.balance[t.acct] = BalanceOver(entry, PostedIn(entry), t.acct)
    BY <1>6, <2>1 DEF AllFresh, Fresh
  <2>3. balance' = [balance EXCEPT ![t.acct] = BalanceOver(entry, PostedIn(entry), t.acct)]
    <3>1. balance' = Overlay(balance, w.balance)
      BY DEF Commit
    <3>2. balance \in [Account -> Int]
      BY TablesTyped DEF IInv
    <3> QED BY <1>3, <2>1, <2>2, <3>1, <3>2 DEF Overlay
  <2>4. postable' = postable
    BY <2>1, CommitWrites
  <2>5. Serial!RecomputeAccountBalance(t.acct)
    BY <1>3, <1>4, <1>6, <2>3, <2>4, SerialOperators, SerialSums
       DEF Serial!RecomputeAccountBalance
  <2> QED BY <1>3, <2>5 DEF Serial!Next
<1> QED BY <1>5, <1>6

LEMMA CommitRefines ==
  ASSUME Atomic, IInv, AllChecked, AllFresh, NEW p \in Proc, Commit(p)
  PROVE  Serial!Next
<1>1. tx[p].pc = "commit"
  BY CommitTables
<1>2. Placed(tx[p])
  BY <1>1, AtWork
<1>3. tx[p].op \in {"create", "transfer", "post", "reverse", "restore", "child", "recompute"}
  BY <1>2 DEF Placed, Atomic, Serial!OpNames
<1> QED BY <1>3, CreateCommits, PostCommits, ReverseCommits, RestoreCommits, AccountCommits

\* Whatever statements of other transactions come between those of one, its
\* commit has the effect of the whole operation carried out at that moment, and
\* nothing that was not committed is ever seen in the tables.
THEOREM TransactionsAreAtomic ==
  ASSUME Atomic
  PROVE  Spec => Implements
<1>1. EditsApart
  BY DEF Atomic, EditsApart
<1>2. Init => AllFresh /\ AllChecked
  <2> SUFFICES ASSUME Init PROVE AllFresh /\ AllChecked
    OBVIOUS
  <2>1. \A p \in Proc : pend[p] = NoWrites /\ tx[p] = Idle
    BY DEF Init
  <2>2. AllFresh
    BY <2>1 DEF AllFresh, Fresh, NoWrites
  <2>3. AllChecked
    BY <2>1, JobTypes DEF AllChecked, Checked, AcceptedAt
  <2> QED BY <2>2, <2>3
<1>3. IInv /\ AllFresh /\ AllChecked /\ [Next]_vars => (AllFresh /\ AllChecked)'
  <2>1. UNCHANGED vars /\ AllFresh /\ AllChecked => (AllFresh /\ AllChecked)'
    BY DEF vars, AllFresh, Fresh, Folded, AllChecked, Checked, AcceptedAt, DateOf
  <2> QED BY <1>1, <2>1, FreshKeeps, CheckedKeeps
<1>4. Init => Serial!Init
  BY DEF Init
<1>5. IInv /\ AllFresh /\ AllChecked /\ [Next]_vars => [Serial!Next]_(Serial!vars)
  <2> SUFFICES ASSUME IInv, AllFresh, AllChecked, [Next]_vars
               PROVE  Serial!Next \/ UNCHANGED tables
    BY DEF Serial!vars, tables
  <2>1. CASE UNCHANGED vars
    BY <2>1 DEF vars, tables
  <2>2. CASE Next
    <3>1. PICK p \in Proc : Request(p) \/ Work(p) \/ DeadlockVictim(p) \/ Crash(p)
      BY <2>2 DEF Next
    <3>2. CASE Commit(p)
      BY <3>2, CommitRefines
    <3>3. CASE ~Commit(p)
      BY <3>1, <3>3, EntryKept
    <3> QED BY <3>2, <3>3
  <2> QED BY <2>1, <2>2
<1> QED BY <1>2, <1>3, <1>4, <1>5, Invariance, PTL DEF Spec, Implements, Serial!Spec
=============================================================================

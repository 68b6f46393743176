----------------------------- MODULE AuditChain -----------------------------
(***************************************************************************)
(* The hash-chained audit trail of database/init/02.  Every write to an    *)
(* audited table fires fn_audit, which takes a transaction-level advisory  *)
(* lock, reads the hash of the last row, and appends a row whose hash      *)
(* covers that hash.  Connections come from a pool: the acting user is     *)
(* known to a trigger only through settings that DatabaseService.withActor *)
(* makes local to the transaction.                                         *)
(***************************************************************************)
EXTENDS Integers

CONSTANTS
  Conn,      \* pooled connections
  User,      \* authenticated users
  Data,      \* what a write does: table, record, old and new row
  Zone,      \* session time zones a client may have
  ZoneOf,    \* the time zone of each connection of the pool
  Genesis,   \* digest of 'ARKA-AUDIT-GENESIS'
  Hash(_, _),\* digest of a previous hash and a payload
  None,      \* SQL's NULL
  MaxId      \* bound on the identity column

ASSUME AuditAssumption ==
  /\ ZoneOf \in [Conn -> Zone]
  /\ \A c, d \in Conn : ZoneOf[c] = ZoneOf[d]   \* one DataSource opens them all
  /\ None \notin User /\ None \notin Conn
  /\ MaxId \in Nat

VARIABLES
  log,      \* committed rows of arka.audit_log, by id
  nextId,   \* the identity sequence; a rollback does not give ids back
  holder,   \* the connection with the advisory lock of the chain
  rows,     \* uncommitted audit rows of each connection, by id
  actor,    \* app.current_user_id of each connection
  req       \* the request each connection serves

vars == <<log, nextId, holder, rows, actor, req>>

\* how: "withActor" runs a transaction of any number of writes, "query" runs
\* one write outside of one (DatabaseService.query).
NoRequest == [by |-> None, how |-> "none", pc |-> "idle"]

Init ==
  /\ log = << >>
  /\ nextId = 1
  /\ holder = None
  /\ rows = [c \in Conn |-> << >>]
  /\ actor = [c \in Conn |-> None]
  /\ req = [c \in Conn |-> NoRequest]

-----------------------------------------------------------------------------
(* Reading the trail.                                                      *)

Join(S, T) == [i \in DOMAIN S \cup DOMAIN T |-> IF i \in DOMAIN T THEN T[i] ELSE S[i]]

\* The table as connection c sees it.
Visible(c) == Join(log, rows[c])

\* SELECT row_hash ... ORDER BY id DESC LIMIT 1, or the genesis hash.
LastHash(T) ==
  IF DOMAIN T = {} THEN Genesis
  ELSE T[CHOOSE i \in DOMAIN T : \A j \in DOMAIN T : j <= i].hash

\* fn_audit_payload: changed_at is rendered by ::text in the time zone of the
\* session that computes the payload.
Payload(data, by, zone) == <<data, by, zone>>

\* fn_verify_audit_chain, run in a session with the given time zone: in id
\* order, each row continues the row before it and its hash recomputes.
Continues(T, i) ==
  \/ /\ \A j \in DOMAIN T : i <= j
     /\ T[i].prev = Genesis
  \/ \E j \in DOMAIN T :
       /\ j < i /\ \A k \in DOMAIN T : k < i => k <= j
       /\ T[i].prev = T[j].hash

Verifies(T, zone) ==
  \A i \in DOMAIN T : /\ Continues(T, i)
                      /\ T[i].hash = Hash(T[i].prev, Payload(T[i].data, T[i].actor, zone))

-----------------------------------------------------------------------------
(* Requests.                                                               *)

\* withActor opens a transaction and makes the user a setting local to it.
BeginWithActor(c, u) ==
  /\ req[c] = NoRequest
  /\ req' = [req EXCEPT ![c] = [by |-> u, how |-> "withActor", pc |-> "open"]]
  /\ actor' = [actor EXCEPT ![c] = u]
  /\ UNCHANGED <<log, nextId, holder, rows>>

\* A write sent with query: the settings of the connection stay as they are.
BeginQuery(c, u) ==
  /\ req[c] = NoRequest
  /\ req' = [req EXCEPT ![c] = [by |-> u, how |-> "query", pc |-> "open"]]
  /\ UNCHANGED <<log, nextId, holder, rows, actor>>

\* Faulty: the trigger does not wait for the lock.
LockChainAtOnce(c) ==
  /\ req[c].pc = "open"
  /\ req[c].how = "query" => DOMAIN rows[c] = {}
  /\ holder' = c
  /\ req' = [req EXCEPT ![c].pc = "locked"]
  /\ UNCHANGED <<log, nextId, rows, actor>>

\* Faulty: the trigger fires on a connection that serves no request.
LockChainIdle(c) ==
  /\ holder \in {None, c}
  /\ holder' = c
  /\ req' = [req EXCEPT ![c].pc = "locked"]
  /\ UNCHANGED <<log, nextId, rows, actor>>

\* A statement writes an audited row and fn_audit asks for the lock.
LockChain(c) ==
  /\ req[c].pc = "open"
  /\ req[c].how = "query" => DOMAIN rows[c] = {}
  /\ holder \in {None, c}
  /\ holder' = c
  /\ req' = [req EXCEPT ![c].pc = "locked"]
  /\ UNCHANGED <<log, nextId, rows, actor>>

\* Faulty: the rows this transaction wrote before are overlooked.
NewRowAfterLog(c, d) ==
  LET prev == LastHash(log) IN
  [data |-> d, actor |-> actor[c], by |-> req[c].by, prev |-> prev,
   hash |-> Hash(prev, Payload(d, actor[c], ZoneOf[c]))]

\* The row the trigger writes.  `by`, which the table does not have, is the
\* user who sent the request.
NewRow(c, d) ==
  LET prev == LastHash(Visible(c)) IN
  [data |-> d, actor |-> actor[c], by |-> req[c].by, prev |-> prev,
   hash |-> Hash(prev, Payload(d, actor[c], ZoneOf[c]))]

\* The rest of fn_audit.
AppendRow(c, d) ==
  /\ req[c].pc = "locked" /\ nextId <= MaxId
  /\ rows' = [rows EXCEPT ![c] = Join(@, [i \in {nextId} |-> NewRow(c, d)])]
  /\ nextId' = nextId + 1
  /\ req' = [req EXCEPT ![c].pc = "open"]
  /\ UNCHANGED <<log, holder, actor>>

\* Faulty: set_config(..., false), whose settings stay with the connection.
EndKeepingSettings(c) ==
  /\ req' = [req EXCEPT ![c] = NoRequest]
  /\ rows' = [rows EXCEPT ![c] = << >>]
  /\ holder' = IF holder = c THEN None ELSE holder
  /\ UNCHANGED <<nextId, actor>>

\* set_config(..., true): the settings end with the transaction.
EndTransaction(c) ==
  /\ req' = [req EXCEPT ![c] = NoRequest]
  /\ actor' = [actor EXCEPT ![c] = None]
  /\ rows' = [rows EXCEPT ![c] = << >>]
  /\ holder' = IF holder = c THEN None ELSE holder
  /\ UNCHANGED nextId

Commit(c) ==
  /\ req[c].pc = "open"
  /\ req[c].how = "query" => DOMAIN rows[c] # {}
  /\ log' = Visible(c)
  /\ EndTransaction(c)

\* An error in the transaction, or the connection is lost.
Rollback(c) ==
  /\ req[c].pc # "idle"
  /\ EndTransaction(c)
  /\ UNCHANGED log

Next == \E c \in Conn :
  \/ \E u \in User : BeginWithActor(c, u) \/ BeginQuery(c, u)
  \/ LockChain(c)
  \/ \E d \in Data : AppendRow(c, d)
  \/ Commit(c)
  \/ Rollback(c)

Spec == Init /\ [][Next]_vars

-----------------------------------------------------------------------------
(* Properties.                                                             *)

WrittenBy(T) == \A i \in DOMAIN T : /\ T[i].actor \in User \cup {None}
                                    /\ T[i].by \in User

TypeOK ==
  /\ nextId \in Nat \ {0}
  /\ DOMAIN log \subseteq 1..(nextId - 1) /\ WrittenBy(log)
  /\ holder \in Conn \cup {None}
  /\ actor \in [Conn -> User \cup {None}]
  /\ DOMAIN rows = Conn
  /\ \A c \in Conn : DOMAIN rows[c] \subseteq 1..(nextId - 1) /\ WrittenBy(rows[c])
  /\ req \in [Conn -> [by : User, how : {"withActor", "query"}, pc : {"open", "locked"}]
                      \cup {NoRequest}]

\* The committed trail verifies whatever was rolled back in between, in every
\* session whose time zone is the one of the pool.
ChainIntact == \A z \in {ZoneOf[c] : c \in Conn} : Verifies(log, z)

\* The trail only grows at its end: a commit changes no row that a reader saw
\* and puts no row before one (fn_audit_immutable, and the lock that keeps the
\* identity column in commit order).
GrowsAtEnd ==
  [][/\ \A i \in DOMAIN log : i \in DOMAIN log' /\ log'[i] = log[i]
     /\ \A i \in DOMAIN log, j \in DOMAIN log' \ DOMAIN log : i < j]_vars

\* A row names the user whose request wrote it, or nobody: a pooled connection
\* never lends one user's name to another's write.
NeverMisattributed == \A i \in DOMAIN log : log[i].actor \in {None, log[i].by}
==============================================================================

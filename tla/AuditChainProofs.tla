-------------------------- MODULE AuditChainProofs --------------------------
(***************************************************************************)
(* What holds of the audit chain for any number of connections, users and  *)
(* rows.  The inductive invariant says what the advisory lock buys: only   *)
(* its holder has uncommitted rows, they come after every committed row,   *)
(* and the trail as the holder sees it is a chain already.                 *)
(***************************************************************************)
EXTENDS AuditChain, TLAPS

PoolZones == {ZoneOf[c] : c \in Conn}

Chained(T) == \A z \in PoolZones : Verifies(T, z)

HasLast(T) == \/ DOMAIN T = {}
              \/ \E i \in DOMAIN T : \A j \in DOMAIN T : j <= i

Attributed(T) == \A i \in DOMAIN T : T[i].actor \in {None, T[i].by}

\* Who may have uncommitted rows, and where they are.
Exclusive == \A c \in Conn : /\ DOMAIN rows[c] # {} => holder = c
                             /\ req[c].pc = "locked" => holder = c

InOrder == \A c \in Conn : \A i \in DOMAIN log, j \in DOMAIN rows[c] : i < j

ChainInv == /\ Chained(log) /\ HasLast(log)
            /\ \A c \in Conn : Chained(Visible(c)) /\ HasLast(Visible(c))

\* The settings of a connection are those of the request it serves.
ActorInv == /\ \A c \in Conn : actor[c] \in {None, req[c].by}
            /\ Attributed(log)
            /\ \A c \in Conn : Attributed(rows[c])

IInv == TypeOK /\ Exclusive /\ InOrder /\ ChainInv /\ ActorInv

-----------------------------------------------------------------------------
(* Lemmas about tables of rows.                                            *)

LEMMA JoinFacts ==
  ASSUME NEW S, NEW T
  PROVE  /\ DOMAIN Join(S, T) = DOMAIN S \cup DOMAIN T
         /\ \A i \in DOMAIN T : Join(S, T)[i] = T[i]
         /\ \A i \in DOMAIN S \ DOMAIN T : Join(S, T)[i] = S[i]
BY DEF Join

\* Whether a table is a chain depends on its rows only.
LEMMA SameRows ==
  ASSUME NEW S, NEW T, DOMAIN S = DOMAIN T, \A i \in DOMAIN S : T[i] = S[i]
  PROVE  /\ Chained(S) => Chained(T)
         /\ HasLast(S) => HasLast(T)
<1>1. ASSUME NEW i \in DOMAIN S, Continues(S, i) PROVE Continues(T, i)
  BY <1>1 DEF Continues
<1>2. HasLast(S) => HasLast(T)
  BY DEF HasLast
<1>3. ASSUME NEW z \in PoolZones, Verifies(S, z) PROVE Verifies(T, z)
  BY <1>1, <1>3 DEF Verifies
<1> QED BY <1>2, <1>3 DEF Chained

\* One more row at the end, made from the hash of the last one.
LEMMA ExtendChain ==
  ASSUME NEW n \in Nat \ {0}, NEW T, DOMAIN T \subseteq 1..(n - 1),
         Chained(T), HasLast(T),
         NEW r, r.prev = LastHash(T),
         \A z \in PoolZones : r.hash = Hash(r.prev, Payload(r.data, r.actor, z)),
         NEW U, DOMAIN U = DOMAIN T \cup {n},
         \A i \in DOMAIN T : U[i] = T[i],
         U[n] = r
  PROVE  Chained(U) /\ HasLast(U)
<1>1. \A i \in DOMAIN T : i \in Nat /\ i < n
  OBVIOUS
<1>2. \A i \in DOMAIN U : i <= n
  BY <1>1
<1>3. HasLast(U)
  BY <1>2 DEF HasLast
<1>4. ASSUME NEW i \in DOMAIN T, Continues(T, i) PROVE Continues(U, i)
  <2>1. CASE (\A j \in DOMAIN T : i <= j) /\ T[i].prev = Genesis
    BY <1>1, <2>1 DEF Continues
  <2>2. CASE \E j \in DOMAIN T : /\ j < i /\ \A k \in DOMAIN T : k < i => k <= j
                                 /\ T[i].prev = T[j].hash
    BY <1>1, <2>2 DEF Continues
  <2> QED BY <1>4, <2>1, <2>2 DEF Continues
<1>5. Continues(U, n)
  <2>1. CASE DOMAIN T = {}
    BY <2>1 DEF Continues, LastHash
  <2>2. CASE DOMAIN T # {}
    <3> DEFINE last == CHOOSE i \in DOMAIN T : \A j \in DOMAIN T : j <= i
    <3>1. last \in DOMAIN T /\ \A j \in DOMAIN T : j <= last
      BY <2>2 DEF HasLast
    <3>2. r.prev = U[last].hash
      BY <2>2, <3>1 DEF LastHash
    <3>3. last < n /\ last \in DOMAIN U
      BY <1>1, <3>1
    <3>4. \A k \in DOMAIN U : k < n => k <= last
      BY <1>1, <3>1
    <3> HIDE DEF last
    <3> QED BY <3>2, <3>3, <3>4 DEF Continues
  <2> QED BY <2>1, <2>2
<1>6. ASSUME NEW z \in PoolZones PROVE Verifies(U, z)
  <2>1. Verifies(T, z)
    BY <1>6 DEF Chained
  <2> QED BY <1>4, <1>5, <1>6, <2>1 DEF Verifies
<1> QED BY <1>3, <1>6 DEF Chained

-----------------------------------------------------------------------------
(* The invariant.                                                          *)

LEMMA InitIInv == Init => IInv
<1> SUFFICES ASSUME Init PROVE IInv
  OBVIOUS
<1> USE DEF Init
<1>1. DOMAIN log = {} /\ \A c \in Conn : DOMAIN rows[c] = {}
  OBVIOUS
<1>2. TypeOK
  BY <1>1 DEF TypeOK, WrittenBy, NoRequest
<1>3. Exclusive /\ InOrder /\ ActorInv
  BY <1>1 DEF Exclusive, InOrder, ActorInv, Attributed, NoRequest
<1>4. \A c \in Conn : DOMAIN Visible(c) = {}
  BY <1>1 DEF Visible, Join
<1>5. ChainInv
  BY <1>1, <1>4 DEF ChainInv, Chained, Verifies, HasLast
<1> QED BY <1>2, <1>3, <1>5 DEF IInv

\* A step that leaves the rows, committed or not, as they are.
LEMMA SameTables ==
  ASSUME IInv, UNCHANGED <<log, rows>>
  PROVE  ChainInv' /\ InOrder'
<1>1. log' = log /\ rows' = rows
  OBVIOUS
<1>2. \A c \in Conn : Visible(c)' = Visible(c)
  BY <1>1 DEF Visible, Join
<1>3. InOrder'
  BY <1>1 DEF IInv, InOrder
<1>4. Chained(log)' /\ HasLast(log)'
  BY <1>1, SameRows DEF IInv, ChainInv
<1>5. ASSUME NEW c \in Conn PROVE Chained(Visible(c))' /\ HasLast(Visible(c))'
  BY <1>2, SameRows DEF IInv, ChainInv
<1> QED BY <1>3, <1>4, <1>5 DEF ChainInv

LEMMA BeginKeeps ==
  ASSUME IInv, NEW c \in Conn, NEW u \in User,
         BeginWithActor(c, u) \/ BeginQuery(c, u)
  PROVE  IInv'
<1> USE DEF IInv, BeginWithActor, BeginQuery, NoRequest
<1>1. TypeOK'
  BY DEF TypeOK, WrittenBy
<1>2. Exclusive'
  BY DEF Exclusive, TypeOK
<1>3. ActorInv'
  BY DEF ActorInv, Attributed, TypeOK
<1> QED BY <1>1, <1>2, <1>3, SameTables

LEMMA LockKeeps ==
  ASSUME IInv, NEW c \in Conn, LockChain(c)
  PROVE  IInv'
<1> USE DEF IInv, LockChain
<1>1. req[c] \in [by : User, how : {"withActor", "query"}, pc : {"open", "locked"}]
  BY DEF TypeOK, NoRequest
<1>2. TypeOK'
  BY <1>1 DEF TypeOK, WrittenBy
<1>3. \A d \in Conn \ {c} : DOMAIN rows[d] = {} /\ req[d].pc # "locked"
  BY AuditAssumption DEF Exclusive, AuditAssumption
<1>4. Exclusive'
  BY <1>3 DEF Exclusive, TypeOK
<1>5. ActorInv'
  BY <1>1 DEF ActorInv, Attributed, TypeOK
<1> QED BY <1>2, <1>4, <1>5, SameTables

LEMMA AppendKeeps ==
  ASSUME IInv, NEW c \in Conn, NEW d \in Data, AppendRow(c, d)
  PROVE  IInv'
<1> USE DEF IInv, AppendRow
<1> DEFINE r == NewRow(c, d)
           one == [i \in {nextId} |-> r]
<1>1. holder = c /\ \A k \in Conn \ {c} : DOMAIN rows[k] = {}
  BY DEF Exclusive
<1>2. req[c] \in [by : User, how : {"withActor", "query"}, pc : {"open", "locked"}]
  BY DEF TypeOK, NoRequest
<1>3. r.by = req[c].by /\ r.actor = actor[c]
  BY DEF NewRow
<1>4. /\ rows'[c] = Join(rows[c], one)
      /\ \A k \in Conn \ {c} : rows'[k] = rows[k]
      /\ DOMAIN rows' = Conn
  BY DEF TypeOK
<1>5. /\ DOMAIN rows'[c] = DOMAIN rows[c] \cup {nextId}
      /\ rows'[c][nextId] = r
      /\ \A i \in DOMAIN rows[c] : rows'[c][i] = rows[c][i]
  <2>1. nextId \notin DOMAIN rows[c]
    BY DEF TypeOK
  <2>2. DOMAIN one = {nextId} /\ one[nextId] = r
    OBVIOUS
  <2> HIDE DEF one, r
  <2> QED BY <1>4, <2>1, <2>2 DEF Join
<1> HIDE DEF r, one
<1>6. TypeOK'
  <2>1. WrittenBy(rows[c])' /\ DOMAIN rows'[c] \subseteq 1..nextId
    BY <1>2, <1>3, <1>5 DEF TypeOK, WrittenBy
  <2>2. \A k \in Conn : DOMAIN rows'[k] \subseteq 1..nextId /\ WrittenBy(rows[k])'
    BY <1>4, <2>1 DEF TypeOK, WrittenBy
  <2>3. req' \in [Conn -> [by : User, how : {"withActor", "query"}, pc : {"open", "locked"}]
                          \cup {NoRequest}]
    BY <1>2 DEF TypeOK
  <2>4. nextId \in Nat \ {0} /\ nextId' = nextId + 1
    BY DEF TypeOK
  <2>5. nextId' \in Nat \ {0} /\ nextId' - 1 = nextId
    BY <2>4
  <2>6. DOMAIN log' \subseteq 1..(nextId' - 1)
    <3>1. log' = log /\ DOMAIN log \subseteq 1..(nextId - 1)
      BY DEF TypeOK
    <3> QED BY <2>4, <3>1
  <2> QED BY <1>4, <2>2, <2>3, <2>5, <2>6 DEF TypeOK, WrittenBy
<1>7. Exclusive'
  BY <1>1, <1>2, <1>4 DEF Exclusive, TypeOK
<1>8. InOrder'
  BY <1>4, <1>5 DEF InOrder, TypeOK
<1>9. ActorInv'
  <2>1. Attributed(rows[c])'
    BY <1>3, <1>5 DEF ActorInv, Attributed
  <2>2. \A k \in Conn : Attributed(rows[k])'
    BY <1>4, <2>1 DEF ActorInv, Attributed
  <2>3. \A k \in Conn : req'[k].by = req[k].by
    BY <1>2 DEF TypeOK
  <2> QED BY <2>2, <2>3 DEF ActorInv, Attributed
<1>10. Chained(Visible(c))' /\ HasLast(Visible(c))'
  <2>1. DOMAIN Visible(c) = DOMAIN log \cup DOMAIN rows[c]
    BY JoinFacts DEF Visible
  <2>2. DOMAIN Visible(c) \subseteq 1..(nextId - 1) /\ nextId \in Nat \ {0}
    BY <2>1 DEF TypeOK
  <2>3. DOMAIN Visible(c)' = DOMAIN Visible(c) \cup {nextId}
    <3>1. Visible(c)' = Join(log, rows'[c])
      BY DEF Visible
    <3> QED BY <1>5, <2>1, <3>1 DEF Join
  <2>4. \A i \in DOMAIN Visible(c) : Visible(c)'[i] = Visible(c)[i]
    BY <1>5, <2>1, <2>2 DEF Visible, Join
  <2>5. Visible(c)'[nextId] = r
    BY <1>5 DEF Visible, Join
  <2>6. r.prev = LastHash(Visible(c))
    BY DEF r, NewRow
  <2>7. \A z \in PoolZones : r.hash = Hash(r.prev, Payload(r.data, r.actor, z))
    <3>1. \A z \in PoolZones : z = ZoneOf[c]
      BY AuditAssumption DEF AuditAssumption, PoolZones
    <3>2. r.hash = Hash(r.prev, Payload(r.data, r.actor, ZoneOf[c]))
      BY DEF r, NewRow
    <3> QED BY <3>1, <3>2
  <2>8. Chained(Visible(c)) /\ HasLast(Visible(c))
    BY DEF ChainInv
  <2> QED BY <2>2, <2>3, <2>4, <2>5, <2>6, <2>7, <2>8, ExtendChain
<1>11. ASSUME NEW k \in Conn \ {c} PROVE Chained(Visible(k))' /\ HasLast(Visible(k))'
  <2>1. Visible(k)' = Visible(k)
    BY <1>4 DEF Visible
  <2> QED BY <2>1 DEF ChainInv, Chained, HasLast, Verifies, Continues
<1>12. ChainInv'
  BY <1>10, <1>11 DEF ChainInv, Chained, HasLast, Verifies, Continues
<1> QED BY <1>6, <1>7, <1>8, <1>9, <1>12

\* The end of a transaction, whether its rows join the trail or are lost.
LEMMA EndKeeps ==
  ASSUME IInv, NEW c \in Conn, EndTransaction(c),
         \/ log' = log
         \/ log' = Visible(c) /\ req[c].pc = "open"
  PROVE  IInv'
<1> USE DEF IInv, EndTransaction
<1>1. /\ DOMAIN rows' = Conn /\ DOMAIN rows'[c] = {}
      /\ \A k \in Conn \ {c} : rows'[k] = rows[k]
  BY DEF TypeOK
<1>2. /\ \A k \in Conn \ {c} : req'[k] = req[k] /\ actor'[k] = actor[k]
      /\ req'[c] = NoRequest /\ actor'[c] = None
  BY DEF TypeOK
<1>3. DOMAIN rows[c] # {} => \A k \in Conn \ {c} : DOMAIN rows[k] = {}
  BY DEF Exclusive
<1>4. /\ DOMAIN Visible(c) = DOMAIN log \cup DOMAIN rows[c]
      /\ \A i \in DOMAIN log : Visible(c)[i] = log[i]
      /\ \A i \in DOMAIN rows[c] : Visible(c)[i] = rows[c][i]
  <2>1. \A i \in DOMAIN log : i \notin DOMAIN rows[c]
    <3>1. \A i \in DOMAIN log : i \in Nat
      BY DEF TypeOK
    <3> QED BY <3>1 DEF InOrder
  <2> QED BY <2>1 DEF Visible, Join
<1>5. TypeOK'
  <2>1. WrittenBy(log)' /\ DOMAIN log' \subseteq 1..(nextId - 1)
    BY <1>4 DEF TypeOK, WrittenBy
  <2>2. \A k \in Conn : DOMAIN rows'[k] \subseteq 1..(nextId - 1) /\ WrittenBy(rows[k])'
    BY <1>1 DEF TypeOK, WrittenBy
  <2>3. /\ holder' \in Conn \cup {None}
        /\ actor' \in [Conn -> User \cup {None}]
        /\ req' \in [Conn -> [by : User, how : {"withActor", "query"}, pc : {"open", "locked"}]
                             \cup {NoRequest}]
    BY DEF TypeOK
  <2> QED BY <1>1, <2>1, <2>2, <2>3 DEF TypeOK, WrittenBy
<1>6. Exclusive'
  BY <1>1, <1>2 DEF Exclusive, NoRequest
<1>7. InOrder'
  BY <1>1, <1>3, <1>4 DEF InOrder
<1>8. ActorInv'
  <2>1. Attributed(log)'
    BY <1>4 DEF ActorInv, Attributed
  <2>2. \A k \in Conn : Attributed(rows[k])'
    BY <1>1 DEF ActorInv, Attributed
  <2>3. \A k \in Conn : actor'[k] \in {None, req'[k].by}
    BY <1>2 DEF ActorInv
  <2> QED BY <2>1, <2>2, <2>3 DEF ActorInv
<1>9. Chained(log)' /\ HasLast(log)'
  <2>1. Chained(log) /\ HasLast(log) /\ Chained(Visible(c)) /\ HasLast(Visible(c))
    BY DEF ChainInv
  <2> QED BY <2>1, SameRows
<1>10. ASSUME NEW k \in Conn PROVE Chained(Visible(k))' /\ HasLast(Visible(k))'
  <2>1. Visible(k)' = Join(log', rows'[k])
    BY DEF Visible
  <2>2. CASE DOMAIN rows'[k] = {}
    <3>1. DOMAIN Visible(k)' = DOMAIN log' /\ \A i \in DOMAIN log' : Visible(k)'[i] = log'[i]
      BY <2>1, <2>2 DEF Join
    <3> QED BY <1>9, <3>1, SameRows
  <2>3. CASE DOMAIN rows'[k] # {}
    <3>1. k # c /\ rows'[k] = rows[k] /\ DOMAIN rows[c] = {}
      BY <1>1, <1>3, <2>3
    <3>2. DOMAIN log' = DOMAIN log /\ \A i \in DOMAIN log : log'[i] = log[i]
      BY <1>4, <3>1
    <3>3. /\ DOMAIN Visible(k)' = DOMAIN Visible(k)
          /\ \A i \in DOMAIN Visible(k) : Visible(k)'[i] = Visible(k)[i]
      BY <2>1, <3>1, <3>2 DEF Visible, Join
    <3>4. Chained(Visible(k)) /\ HasLast(Visible(k))
      BY DEF ChainInv
    <3> QED BY <3>3, <3>4, SameRows
  <2> QED BY <2>2, <2>3
<1>11. ChainInv'
  BY <1>9, <1>10 DEF ChainInv
<1> QED BY <1>5, <1>6, <1>7, <1>8, <1>11

LEMMA NextKeeps == IInv /\ [Next]_vars => IInv'
<1> SUFFICES ASSUME IInv, [Next]_vars PROVE IInv'
  OBVIOUS
<1>1. CASE UNCHANGED vars
  <2>1. TypeOK' /\ Exclusive' /\ ActorInv'
    BY <1>1 DEF IInv, vars, TypeOK, WrittenBy, Exclusive, ActorInv, Attributed
  <2>2. UNCHANGED <<log, rows>>
    BY <1>1 DEF vars
  <2> QED BY <2>1, <2>2, SameTables DEF IInv
<1>2. ASSUME NEW c \in Conn, NEW u \in User, BeginWithActor(c, u) \/ BeginQuery(c, u)
      PROVE  IInv'
  BY <1>2, BeginKeeps
<1>3. ASSUME NEW c \in Conn, LockChain(c) PROVE IInv'
  BY <1>3, LockKeeps
<1>4. ASSUME NEW c \in Conn, NEW d \in Data, AppendRow(c, d) PROVE IInv'
  BY <1>4, AppendKeeps
<1>5. ASSUME NEW c \in Conn, Commit(c) PROVE IInv'
  BY <1>5, EndKeeps DEF Commit
<1>6. ASSUME NEW c \in Conn, Rollback(c) PROVE IInv'
  BY <1>6, EndKeeps DEF Rollback
<1> QED BY <1>1, <1>2, <1>3, <1>4, <1>5, <1>6 DEF Next

THEOREM Invariance == Spec => []IInv
BY InitIInv, NextKeeps, PTL DEF Spec

-----------------------------------------------------------------------------
(* What readers of the trail rely on.                                      *)

\* The tables of the audit chain keep their types.
THEOREM TypeCorrect == Spec => []TypeOK
<1>1. IInv => TypeOK
  BY DEF IInv
<1> QED BY <1>1, Invariance, PTL

\* fn_verify_audit_chain finds the committed trail intact, whatever writers ran
\* at the same time and whichever of them were rolled back.
THEOREM ChainAlwaysIntact == Spec => []ChainIntact
<1>1. IInv => ChainIntact
  BY DEF IInv, ChainInv, Chained, PoolZones, ChainIntact
<1> QED BY <1>1, Invariance, PTL

\* No row of the trail names a user other than the one whose request wrote it.
THEOREM AttributionSound == Spec => []NeverMisattributed
<1>1. IInv => NeverMisattributed
  BY DEF IInv, ActorInv, Attributed, NeverMisattributed
<1> QED BY <1>1, Invariance, PTL

\* A commit adds its rows behind the rows that readers saw and changes none.
THEOREM TrailOnlyGrows == Spec => GrowsAtEnd
<1> DEFINE Grows == /\ \A i \in DOMAIN log : i \in DOMAIN log' /\ log'[i] = log[i]
                    /\ \A i \in DOMAIN log, j \in DOMAIN log' \ DOMAIN log : i < j
<1>1. IInv /\ [Next]_vars => [Grows]_vars
  <2> SUFFICES ASSUME IInv, [Next]_vars PROVE [Grows]_vars
    OBVIOUS
  <2>1. CASE log' = log
    BY <2>1
  <2>2. ASSUME NEW c \in Conn, Commit(c) PROVE Grows
    <3>1. \A i \in DOMAIN log : i \notin DOMAIN rows[c]
      <4>1. \A i \in DOMAIN log : i \in Nat
        BY DEF IInv, TypeOK
      <4> QED BY <4>1 DEF IInv, InOrder
    <3>2. log' = Join(log, rows[c])
      BY <2>2 DEF Commit, Visible
    <3> QED BY <3>1, <3>2 DEF IInv, InOrder, Join
  <2>3. CASE UNCHANGED vars
    BY <2>3 DEF vars
  <2>4. CASE Next
    BY <2>1, <2>2, <2>4 DEF Next, BeginWithActor, BeginQuery, LockChain, AppendRow, Rollback
  <2> QED BY <2>3, <2>4
<1> QED BY <1>1, Invariance, PTL DEF Spec, GrowsAtEnd
=============================================================================

----------------------------- MODULE UsersProofs -----------------------------
(***************************************************************************)
(* What holds of the accounts for any number of workers, users, addresses  *)
(* and secrets and any limit of failed logins.  The inductive invariant    *)
(* says which row each request is about, what an activation may still      *)
(* count on, and how the wrong passwords that were tried and those being   *)
(* checked add up.                                                         *)
(***************************************************************************)
EXTENDS Users, FiniteSetTheorems, TLAPS

OnAccount == {"update", "delete", "profile", "verify", "enable", "clear"}
OnEmail   == {"insert", "bootstrap", "profile"}

Job == [pc : {"idle"} \cup OnAccount \cup OnEmail, id : User \cup {None},
        email : Email \cup {None}, saw : Nat \cup Secret \cup {None}]

Typed == job \in [Worker -> Job]

\* A request works on an account, or an address, that it found.
Targets == \A w \in Worker : /\ job[w].pc \in OnAccount => job[w].id \in Known
                             /\ job[w].pc \in OnEmail => job[w].email \in Email

\* The code that an activation has checked was for the secret that is stored
\* still, or the account is marked.
CodesKnown == \A w \in Worker : job[w].pc = "enable" =>
                \/ job[w].saw = user[job[w].id].secret
                \/ user[job[w].id].raced

\* The passwords being checked against account u.
Verifying(u) == {w \in Worker : job[w].pc = "verify" /\ job[w].id = u}

\* An account that is open counts every wrong password in failed; one that is
\* locked leaves those that were being checked when it was.
Counted(u) ==
  /\ ~user[u].locked => user[u].guesses <= user[u].failed /\ user[u].guesses < LockAfter
  /\ user[u].locked => user[u].guesses + Cardinality(Verifying(u))
                         <= LockAfter + Cardinality(Worker) - 1

IInv == /\ TypeOK /\ Typed /\ Targets
        /\ OneLiveUserPerEmail /\ DeletedStaysInactive
        /\ CodesKnown /\ EnabledIsVerified
        /\ \A u \in Known : Counted(u)

-----------------------------------------------------------------------------
(* Lemmas about rows and requests.                                         *)

LEMMA NoneIsApart == None \notin User /\ None \notin Email /\ None \notin Secret
BY UsersAssumption

LEMMA RestIsJob == Rest \in Job
BY DEF Rest, Job

LEMMA WriteFacts ==
  ASSUME TypeOK, NEW u \in User, NEW row \in Account, Write(u, row)
  PROVE  /\ Known' = Known \cup {u} /\ Known' \subseteq User
         /\ user' \in [Known' -> Account]
         /\ user'[u] = row /\ \A x \in Known \ {u} : user'[x] = user[x]
<1>1. user' = [x \in Known \cup {u} |-> IF x = u THEN row ELSE user[x]]
  BY DEF Write
<1>2. Known' = Known \cup {u}
  BY <1>1 DEF Known
<1>3. Known \subseteq User /\ \A x \in Known : user[x] \in Account
  BY DEF TypeOK
<1> QED BY <1>1, <1>2, <1>3

\* What becomes of the requests at a step that starts none.
Finishes == job' \in [Worker -> Job] /\ \A v \in Worker : job'[v] \in {job[v], Rest}

LEMMA AtFinishes ==
  ASSUME Typed, NEW w \in Worker, NEW pc, At(w, pc)
  PROVE  Finishes /\ job'[w] = Rest
BY RestIsJob DEF At, Finishes, Typed

LEMMA SameJobsFinish == Typed /\ UNCHANGED job => Finishes
BY DEF Finishes, Typed

\* Fewer requests check a password.
LEMMA FewerVerify ==
  ASSUME NEW u, Verifying(u)' \subseteq Verifying(u)
  PROVE  Cardinality(Verifying(u)') \in Nat /\ Cardinality(Verifying(u)) \in Nat
         /\ Cardinality(Verifying(u)') <= Cardinality(Verifying(u))
<1>1. IsFiniteSet(Verifying(u))
  BY FS_Subset, UsersAssumption DEF Verifying
<1> QED BY <1>1, FS_Subset, FS_CardinalityType

LEMMA SameVerify ==
  ASSUME NEW u \in Known, Counted(u), user'[u] = user[u], user[u] \in Account,
         Verifying(u)' \subseteq Verifying(u)
  PROVE  Counted(u)'
<1>1. Cardinality(Worker) \in Nat
  BY FS_CardinalityType, UsersAssumption
<1> QED BY <1>1, FewerVerify, UsersAssumption DEF Counted, Account

-----------------------------------------------------------------------------
(* The invariant, action by action.                                        *)

LEMMA InitIInv == Init => IInv
<1> SUFFICES ASSUME Init PROVE IInv
  OBVIOUS
<1>1. Known = {} /\ \A w \in Worker : job[w] = Rest
  BY DEF Known, Init
<1>2. TypeOK
  <2>1. user \in [Known -> Account]
    BY <1>1 DEF Init
  <2> QED BY <1>1, <2>1 DEF TypeOK, Rest
<1>3. Typed
  BY RestIsJob DEF Init, Typed
<1>4. Targets /\ CodesKnown
  BY <1>1 DEF Targets, CodesKnown, Rest, OnAccount, OnEmail
<1> QED BY <1>1, <1>2, <1>3, <1>4
        DEF IInv, OneLiveUserPerEmail, DeletedStaysInactive, EnabledIsVerified

\* A request starts, on what it read.
LEMMA StartKeeps ==
  ASSUME IInv, NEW w \in Worker, NEW j \in Job, Start(w, j),
         j.id \in Known \cup {None},
         j.pc \in OnAccount => j.id \in Known,
         j.pc \in OnEmail => j.email \in Email,
         j.pc = "enable" => j.saw = user[j.id].secret,
         j.pc = "verify" => ~user[j.id].locked
  PROVE  IInv'
<1>1. /\ user' = user /\ Known' = Known /\ job[w] = Rest
      /\ job'[w] = j /\ \A v \in Worker \ {w} : job'[v] = job[v]
  BY DEF Start, Known, IInv, Typed
<1>2. Typed'
  BY DEF Start, IInv, Typed
<1>3. TypeOK'
  <2>1. \A v \in Worker : job'[v].email \in Email \cup {None}
    BY <1>2 DEF Typed, Job
  <2> QED BY <1>1, <2>1 DEF IInv, TypeOK
<1>4. Targets' /\ CodesKnown'
  BY <1>1 DEF IInv, Targets, CodesKnown
<1>5. ASSUME NEW u \in Known PROVE Counted(u)'
  <2>1. user[u] \in Account /\ Counted(u)
    BY DEF IInv, TypeOK
  <2>2. CASE user[u].locked
    <3>1. Verifying(u)' \subseteq Verifying(u)
      BY <1>1, <2>2 DEF Verifying
    <3> QED BY <1>1, <2>1, <3>1, SameVerify
  <2>3. CASE ~user[u].locked
    BY <1>1, <2>1, <2>3 DEF Counted
  <2> QED BY <2>2, <2>3
<1>6. OneLiveUserPerEmail' /\ DeletedStaysInactive' /\ EnabledIsVerified'
  BY <1>1 DEF IInv, OneLiveUserPerEmail, DeletedStaysInactive, EnabledIsVerified, Live
<1> QED BY <1>1, <1>2, <1>3, <1>4, <1>5, <1>6 DEF IInv

\* A request writes the row of an account, old or new.
LEMMA WriteKeeps ==
  ASSUME IInv, NEW u \in User, NEW row \in Account, Write(u, row), Finishes,
         row.deleted \/ UniqueEmail(u, row.email),
         row.deleted => ~row.active,
         row.mfa /\ ~row.raced => row.proven,
         \A v \in Worker : job'[v].pc = "enable" /\ job[v].id = u =>
                             job[v].saw = row.secret \/ row.raced,
         Counted(u)'
  PROVE  IInv'
<1>1. TypeOK /\ Typed
  BY DEF IInv
<1>2. /\ Known' = Known \cup {u} /\ Known' \subseteq User
      /\ user' \in [Known' -> Account]
      /\ user'[u] = row /\ \A x \in Known \ {u} : user'[x] = user[x]
  BY <1>1, WriteFacts
<1>3. Typed' /\ \A v \in Worker : job'[v].id = None \/ job'[v] = job[v]
  BY DEF Finishes, Typed, Rest
<1>4. TypeOK'
  <2>1. \A v \in Worker : job'[v].email \in Email \cup {None}
    BY <1>3 DEF Typed, Job
  <2> QED BY <1>1, <1>2, <1>3, <2>1 DEF TypeOK
<1>5. \A v \in Worker : job'[v] = Rest \/ job'[v] = job[v]
  BY DEF Finishes
<1>6. Targets'
  BY <1>2, <1>5 DEF IInv, Targets, Rest, OnAccount, OnEmail
<1>7. CodesKnown'
  <2>1. ASSUME NEW v \in Worker, job'[v].pc = "enable"
        PROVE  job'[v].saw = user'[job'[v].id].secret \/ user'[job'[v].id].raced
    <3>1. job'[v] = job[v]
      BY <1>5, <2>1 DEF Rest
    <3>2. job[v].id \in Known /\ (job[v].saw = user[job[v].id].secret \/ user[job[v].id].raced)
      BY <2>1, <3>1 DEF IInv, Targets, CodesKnown, OnAccount
    <3>3. CASE job[v].id = u
      BY <1>2, <2>1, <3>1, <3>3
    <3>4. CASE job[v].id # u
      BY <1>2, <3>1, <3>2, <3>4
    <3> QED BY <3>3, <3>4
  <2> QED BY <2>1 DEF CodesKnown
<1>8. ASSUME NEW x \in Known', NEW y \in Known', Live(x)', Live(y)',
             user'[x].email = user'[y].email
      PROVE  x = y
  <2>1. \A z \in Known \ {u} : Live(z)' => Live(z)
    BY <1>2 DEF Live
  <2>2. \A z \in Known \ {u} : Live(z) /\ Live(u)' => user[z].email # row.email
    BY <1>2 DEF Live, UniqueEmail
  <2> QED BY <1>2, <1>8, <2>1, <2>2 DEF IInv, OneLiveUserPerEmail
<1>9. DeletedStaysInactive' /\ EnabledIsVerified'
  BY <1>2 DEF IInv, DeletedStaysInactive, EnabledIsVerified
<1>10. ASSUME NEW x \in Known \ {u} PROVE Counted(x)'
  <2>1. Verifying(x)' \subseteq Verifying(x)
    BY <1>5 DEF Verifying, Rest
  <2>2. Counted(x) /\ user[x] \in Account
    BY <1>1 DEF IInv, TypeOK
  <2> QED BY <1>2, <2>1, <2>2, SameVerify
<1> QED BY <1>2, <1>3, <1>4, <1>6, <1>7, <1>8, <1>9, <1>10 DEF IInv, OneLiveUserPerEmail

\* A request ends without a write.
LEMMA EndKeeps ==
  ASSUME IInv, Finishes, UNCHANGED user
  PROVE  IInv'
<1>1. Known' = Known /\ \A v \in Worker : job'[v] = Rest \/ job'[v] = job[v]
  BY DEF Finishes, Known
<1>2. TypeOK' /\ Typed'
  BY <1>1 DEF IInv, TypeOK, Typed, Finishes, Rest
<1>3. Targets' /\ CodesKnown'
  BY <1>1 DEF IInv, Targets, CodesKnown, Rest, OnAccount, OnEmail
<1>4. ASSUME NEW x \in Known PROVE Counted(x)'
  <2>1. Verifying(x)' \subseteq Verifying(x)
    BY <1>1 DEF Verifying, Rest
  <2>2. Counted(x) /\ user[x] \in Account
    BY DEF IInv, TypeOK
  <2> QED BY <2>1, <2>2, SameVerify
<1>5. OneLiveUserPerEmail' /\ DeletedStaysInactive' /\ EnabledIsVerified'
  BY <1>1 DEF IInv, OneLiveUserPerEmail, DeletedStaysInactive, EnabledIsVerified, Live
<1> QED BY <1>1, <1>2, <1>3, <1>4, <1>5 DEF IInv

\* A write that keeps the count of failed logins.
LEMMA SameCount ==
  ASSUME IInv, NEW u \in Known, NEW row \in Account, Write(u, row), Finishes,
         row.failed = user[u].failed, row.guesses = user[u].guesses,
         row.locked = user[u].locked
  PROVE  Counted(u)'
<1>1. user[u] \in Account /\ Counted(u) /\ u \in User /\ TypeOK
  BY DEF IInv, TypeOK
<1>2. user'[u] = row
  BY <1>1, WriteFacts
<1>3. Verifying(u)' \subseteq Verifying(u)
  BY DEF Verifying, Finishes, Rest
<1>4. Cardinality(Worker) \in Nat
  BY FS_CardinalityType, UsersAssumption
<1> QED BY <1>1, <1>2, <1>3, <1>4, FewerVerify, UsersAssumption DEF Counted, Account

LEMMA CheckEmailKeeps ==
  ASSUME IInv, NEW w \in Worker, CheckEmail(w)
  PROVE  IInv'
<1>1. PICK e \in Email, pc \in {"insert", "bootstrap"} :
             Start(w, [Rest EXCEPT !.pc = pc, !.email = e])
  BY DEF CheckEmail
<1> DEFINE j == [Rest EXCEPT !.pc = pc, !.email = e]
<1>2. j \in Job /\ j.pc = pc /\ j.id = None /\ j.email = e
  BY DEF Rest, Job, OnAccount, OnEmail
<1> QED BY <1>1, <1>2, StartKeeps DEF OnAccount, OnEmail

LEMMA InsertUserKeeps ==
  ASSUME IInv, NEW w \in Worker, InsertUser(w)
  PROVE  IInv'
<1>1. PICK u \in User \ Known, on \in BOOLEAN :
             UniqueEmail(u, job[w].email) /\ Write(u, NewAccount(job[w].email, on))
  BY DEF InsertUser
<1> SUFFICES ASSUME NEW row, row = NewAccount(job[w].email, on) PROVE IInv'
  OBVIOUS
<1>2. job[w].email \in Email
  BY DEF InsertUser, IInv, Targets, OnEmail
<1>3. /\ row \in Account /\ row.email = job[w].email /\ ~row.deleted /\ ~row.mfa
      /\ row.guesses = 0 /\ ~row.locked /\ row.failed = 0
  BY <1>2, UsersAssumption DEF NewAccount, Account
<1>4. Finishes
  BY AtFinishes DEF InsertUser, IInv
<1>5. \A v \in Worker : job[v].id # u
  BY NoneIsApart DEF IInv, TypeOK
<1>6. user'[u] = row
  BY <1>1, <1>3, WriteFacts DEF IInv
<1>7. Counted(u)'
  BY <1>3, <1>6, UsersAssumption DEF Counted
<1> QED BY <1>1, <1>3, <1>4, <1>5, <1>7, WriteKeeps

LEMMA EmailTakenKeeps ==
  ASSUME IInv, NEW w \in Worker, EmailTaken(w) \/ Crash(w)
  PROVE  IInv'
BY AtFinishes, EndKeeps DEF EmailTaken, Crash, IInv

LEMMA CheckUserKeeps ==
  ASSUME IInv, NEW w \in Worker, CheckUser(w)
  PROVE  IInv'
<1>1. PICK u \in Known, pc \in {"update", "delete", "profile"}, e \in Email :
             Start(w, [Rest EXCEPT !.pc = pc, !.id = u,
                                   !.email = IF pc = "profile" THEN e ELSE None])
  BY DEF CheckUser
<1> DEFINE j == [Rest EXCEPT !.pc = pc, !.id = u,
                             !.email = IF pc = "profile" THEN e ELSE None]
<1>2. u \in User
  BY DEF IInv, TypeOK
<1>3. j \in Job /\ j.pc = pc /\ j.id = u /\ (pc = "profile" => j.email = e)
  BY <1>2 DEF Rest, Job, OnAccount, OnEmail
<1> QED BY <1>1, <1>3, StartKeeps DEF OnEmail

\* An edit of a row that leaves its address, its count and its factor.
Edits(u, row) ==
  /\ row \in Account
  /\ row.failed = user[u].failed /\ row.guesses = user[u].guesses
  /\ row.locked = user[u].locked /\ row.secret = user[u].secret
  /\ row.raced = user[u].raced
  /\ row.mfa = user[u].mfa /\ row.proven = user[u].proven

LEMMA EditKeeps ==
  ASSUME IInv, NEW u \in Known, NEW row, Edits(u, row), Write(u, row), Finishes,
         row.deleted \/ UniqueEmail(u, row.email),
         row.deleted => ~row.active
  PROVE  IInv'
<1>1. u \in User
  BY DEF IInv, TypeOK
<1>2. \A v \in Worker : job'[v].pc = "enable" => job[v].pc = "enable"
  BY DEF Finishes, Rest
<1>3. \A v \in Worker : job'[v].pc = "enable" /\ job[v].id = u =>
                             job[v].saw = row.secret \/ row.raced
  BY <1>2 DEF IInv, CodesKnown, Edits
<1>4. Counted(u)'
  BY SameCount DEF Edits
<1>5. row.mfa /\ ~row.raced => row.proven
  BY DEF IInv, EnabledIsVerified, Edits
<1>6. row \in Account
  BY DEF Edits
<1> QED BY <1>1, <1>3, <1>4, <1>5, <1>6, WriteKeeps

\* What a row keeps of its own is unique already.
LEMMA OwnEmail ==
  ASSUME IInv, NEW u \in Known
  PROVE  user[u].deleted \/ UniqueEmail(u, user[u].email)
BY DEF IInv, OneLiveUserPerEmail, UniqueEmail, Live

LEMMA UpdateUserKeeps ==
  ASSUME IInv, NEW w \in Worker, UpdateUser(w)
  PROVE  IInv'
<1> DEFINE u == job[w].id
<1>1. u \in Known /\ user[u] \in Account /\ Finishes
  BY AtFinishes DEF UpdateUser, At, IInv, Targets, OnAccount, TypeOK
<1>2. CASE Live(u)
  <2>1. PICK on \in BOOLEAN : Write(u, [user[u] EXCEPT !.active = on])
    BY <1>2 DEF UpdateUser
  <2>2. Edits(u, [user[u] EXCEPT !.active = on])
    BY <1>1 DEF Edits, Account
  <2>3. [user[u] EXCEPT !.active = on].deleted = user[u].deleted
        /\ [user[u] EXCEPT !.active = on].email = user[u].email
    BY <1>1 DEF Account
  <2>4. ~user[u].deleted
    BY <1>2 DEF Live
  <2> HIDE DEF u
  <2> QED BY <1>1, <2>1, <2>2, <2>3, <2>4, OwnEmail, EditKeeps
<1>3. CASE ~Live(u)
  BY <1>1, <1>3, EndKeeps DEF UpdateUser
<1> QED BY <1>2, <1>3

LEMMA UpdateProfileKeeps ==
  ASSUME IInv, NEW w \in Worker, UpdateProfile(w)
  PROVE  IInv'
<1> DEFINE u == job[w].id
           row == [user[u] EXCEPT !.email = job[w].email]
<1>1. u \in Known /\ user[u] \in Account /\ Finishes /\ job[w].email \in Email
  BY AtFinishes DEF UpdateProfile, At, IInv, Targets, OnAccount, OnEmail, TypeOK
<1>2. CASE Live(u)
  <2>1. Write(u, row) /\ UniqueEmail(u, job[w].email) /\ ~user[u].deleted
    BY <1>2 DEF UpdateProfile, Live
  <2>2. Edits(u, row) /\ row.email = job[w].email /\ row.deleted = user[u].deleted
    BY <1>1 DEF Edits, Account
  <2> HIDE DEF u, row
  <2> QED BY <1>1, <2>1, <2>2, EditKeeps
<1>3. CASE ~Live(u)
  BY <1>1, <1>3, EndKeeps DEF UpdateProfile
<1> QED BY <1>2, <1>3

LEMMA SoftDeleteKeeps ==
  ASSUME IInv, NEW w \in Worker, SoftDelete(w)
  PROVE  IInv'
<1> DEFINE u == job[w].id
           row == [user[u] EXCEPT !.deleted = TRUE, !.active = FALSE]
<1>1. u \in Known /\ user[u] \in Account /\ Finishes /\ Write(u, row)
  BY AtFinishes DEF SoftDelete, At, IInv, Targets, OnAccount, TypeOK
<1>2. Edits(u, row) /\ row.deleted /\ ~row.active
  BY <1>1 DEF Edits, Account
<1> HIDE DEF u, row
<1> QED BY <1>1, <1>2, EditKeeps

LEMMA ReadUserKeeps ==
  ASSUME IInv, NEW w \in Worker, ReadUser(w)
  PROVE  IInv'
<1>1. PICK u \in Known :
        ~user[u].locked /\ Start(w, [Rest EXCEPT !.pc = "verify", !.id = u, !.saw = user[u].failed])
  BY DEF ReadUser
<1> DEFINE j == [Rest EXCEPT !.pc = "verify", !.id = u, !.saw = user[u].failed]
<1>2. u \in User /\ user[u] \in Account
  BY DEF IInv, TypeOK
<1>3. user[u].failed \in Nat
  BY <1>2, UsersAssumption DEF Account
<1>4. j \in Job /\ j.pc = "verify" /\ j.id = u
  BY <1>2, <1>3 DEF Rest, Job, OnAccount
<1> HIDE DEF j
<1>5. Start(w, j)
  BY <1>1 DEF j
<1> QED BY <1>1, <1>4, <1>5, StartKeeps DEF OnEmail

\* One more wrong password, of those that were being checked.
LEMMA FailureCounted ==
  ASSUME IInv, NEW w \in Worker, RegisterFailedLogin(w), NEW u, u = job[w].id,
         NEW row, row = Failed(user[u], user[u].failed + 1)
  PROVE  /\ u \in Known /\ row \in Account
         /\ row.email = user[u].email /\ row.deleted = user[u].deleted
         /\ row.active = user[u].active /\ row.secret = user[u].secret
         /\ row.raced = user[u].raced /\ row.mfa = user[u].mfa
         /\ row.proven = user[u].proven
         /\ Counted(u)'
<1>1. u \in Known /\ u \in User /\ user[u] \in Account /\ job[w].pc = "verify"
  BY DEF RegisterFailedLogin, At, IInv, Targets, OnAccount, TypeOK
<1>2. user[u].failed \in 0..LockAfter /\ user[u].guesses \in Nat /\ user[u].locked \in BOOLEAN
  BY <1>1 DEF Account
<1> DEFINE n == user[u].failed + 1
           m == IF n < LockAfter THEN n ELSE LockAfter
<1>3. n \in Nat /\ m \in 0..LockAfter
  BY <1>2, UsersAssumption
<1> DEFINE b == user[u].locked \/ n >= LockAfter
<1>4. row = [user[u] EXCEPT !.failed = m, !.locked = b, !.guesses = user[u].guesses + 1]
  BY DEF Failed
<1>a. b <=> user[u].locked \/ n >= LockAfter
  OBVIOUS
<1>d. b \in BOOLEAN /\ user[u].guesses + 1 \in Nat
  BY <1>2
<1> HIDE DEF m, n, b
<1>5. /\ row \in Account
      /\ row.email = user[u].email /\ row.deleted = user[u].deleted
      /\ row.active = user[u].active /\ row.secret = user[u].secret
      /\ row.raced = user[u].raced /\ row.mfa = user[u].mfa
      /\ row.proven = user[u].proven
      /\ row.failed = m /\ row.guesses = user[u].guesses + 1
  BY <1>1, <1>3, <1>4, <1>d DEF Account
<1>6. /\ user[u].locked \/ n >= LockAfter => row.locked
      /\ row.locked => user[u].locked \/ n >= LockAfter
  <2>1. row.locked = b
    BY <1>1, <1>4 DEF Account
  <2> QED BY <1>a, <2>1
<1>7. user'[u] = row
  BY <1>1, <1>5, WriteFacts DEF RegisterFailedLogin, IInv
<1>8. /\ w \in Verifying(u) /\ Verifying(u)' = Verifying(u) \ {w}
      /\ Verifying(u) \subseteq Worker
  BY <1>1 DEF Verifying, RegisterFailedLogin, At, IInv, Typed, Rest
<1>9. IsFiniteSet(Worker) /\ IsFiniteSet(Verifying(u))
  BY <1>8, FS_Subset, UsersAssumption
<1>10. /\ Cardinality(Verifying(u)') = Cardinality(Verifying(u)) - 1
       /\ Cardinality(Verifying(u)) <= Cardinality(Worker)
       /\ Cardinality(Verifying(u)) \in Nat /\ Cardinality(Worker) \in Nat
  BY <1>8, <1>9, FS_RemoveElement, FS_Subset, FS_CardinalityType
<1>11. Counted(u)
  BY <1>1 DEF IInv
<1>12. Counted(u)'
  <2>1. CASE user[u].locked
    <3>1. row.locked /\ user[u].guesses + Cardinality(Verifying(u))
                          <= LockAfter + Cardinality(Worker) - 1
      BY <1>6, <1>11, <2>1 DEF Counted
    <3>2. row.guesses + Cardinality(Verifying(u)')
            <= LockAfter + Cardinality(Worker) - 1
      BY <1>2, <1>5, <1>10, <3>1, UsersAssumption
    <3> QED BY <1>7, <3>1, <3>2 DEF Counted
  <2>2. CASE ~user[u].locked
    <3>1. user[u].guesses <= user[u].failed /\ user[u].guesses < LockAfter
      BY <1>11, <2>2 DEF Counted
    <3>2. CASE n < LockAfter
      <4>1. ~row.locked
        BY <1>3, <1>6, <2>2, <3>2, UsersAssumption
      <4>2. row.failed = user[u].failed + 1
        BY <1>5, <3>2 DEF m, n
      <4>3. row.guesses <= row.failed /\ row.guesses < LockAfter
        <5>1. row.guesses = user[u].guesses + 1 /\ user[u].failed + 1 < LockAfter
          BY <1>5, <3>2 DEF n
        <5>2. user[u].guesses \in Nat /\ user[u].failed \in Nat /\ LockAfter \in Nat
          BY <1>2, UsersAssumption
        <5> QED BY ONLY <3>1, <4>2, <5>1, <5>2
      <4> QED BY <1>7, <4>1, <4>3 DEF Counted
    <3>3. CASE n >= LockAfter
      <4>1. row.locked
        BY <1>6, <3>3
      <4>2. row.guesses + Cardinality(Verifying(u)')
              <= LockAfter + Cardinality(Worker) - 1
        BY <1>2, <1>5, <1>10, <3>1, UsersAssumption, SMTT(20)
      <4> QED BY <1>7, <4>1, <4>2 DEF Counted
    <3> QED BY <1>3, <3>2, <3>3, UsersAssumption
  <2> QED BY <2>1, <2>2
<1> QED BY <1>1, <1>5, <1>12

LEMMA RegisterFailedLoginKeeps ==
  ASSUME IInv, NEW w \in Worker, RegisterFailedLogin(w)
  PROVE  IInv'
<1> SUFFICES ASSUME NEW u, u = job[w].id, NEW row, row = Failed(user[u], user[u].failed + 1)
             PROVE  IInv'
  OBVIOUS
<1>1. Write(u, row) /\ Finishes
  BY AtFinishes DEF RegisterFailedLogin, IInv
<1>2. /\ u \in Known /\ row \in Account
      /\ row.email = user[u].email /\ row.deleted = user[u].deleted
      /\ row.active = user[u].active /\ row.secret = user[u].secret
      /\ row.raced = user[u].raced /\ row.mfa = user[u].mfa
      /\ row.proven = user[u].proven
      /\ Counted(u)'
  BY FailureCounted
<1>3. u \in User
  BY <1>2 DEF IInv, TypeOK
<1>4. row.deleted \/ UniqueEmail(u, row.email)
  BY <1>2, OwnEmail
<1>5. (row.deleted => ~row.active) /\ (row.mfa /\ ~row.raced => row.proven)
  BY <1>2 DEF IInv, DeletedStaysInactive, EnabledIsVerified
<1>6. \A v \in Worker : job'[v].pc = "enable" /\ job[v].id = u =>
                             job[v].saw = row.secret \/ row.raced
  <2> SUFFICES ASSUME NEW v \in Worker, job'[v].pc = "enable", job[v].id = u
               PROVE  job[v].saw = row.secret \/ row.raced
    OBVIOUS
  <2>1. job'[v] = job[v]
    BY <1>1 DEF Finishes, Rest
  <2>2. job[v].saw = user[u].secret \/ user[u].raced
    BY <2>1 DEF IInv, CodesKnown
  <2> QED BY <1>2, <2>2
<1>7. row \in Account /\ Counted(u)'
  BY <1>2
<1> QED BY ONLY IInv, <1>1, <1>3, <1>4, <1>5, <1>6, <1>7, WriteKeeps

\* A right password or the end of the lock starts the count afresh.
LEMMA ResetKeeps ==
  ASSUME IInv, NEW u \in Known, NEW n \in {0, user[u].failed}, Finishes,
         Write(u, [user[u] EXCEPT !.failed = n, !.locked = FALSE, !.guesses = 0])
  PROVE  IInv'
<1> SUFFICES ASSUME NEW row,
                    row = [user[u] EXCEPT !.failed = n, !.locked = FALSE, !.guesses = 0]
             PROVE  IInv'
  OBVIOUS
<1>1. u \in User /\ user[u] \in Account
  BY DEF IInv, TypeOK
<1>2. n \in 0..LockAfter
  BY <1>1, UsersAssumption DEF Account
<1>3. /\ row \in Account
      /\ row.email = user[u].email /\ row.deleted = user[u].deleted
      /\ row.active = user[u].active /\ row.secret = user[u].secret
      /\ row.raced = user[u].raced /\ row.mfa = user[u].mfa
      /\ row.proven = user[u].proven
      /\ row.failed = n /\ ~row.locked /\ row.guesses = 0
  BY <1>1, <1>2 DEF Account
<1>4. user'[u] = row
  BY <1>1, <1>3, WriteFacts DEF IInv
<1>5. Counted(u)'
  BY <1>2, <1>3, <1>4, UsersAssumption DEF Counted
<1>6. row.deleted \/ UniqueEmail(u, row.email)
  BY <1>3, OwnEmail
<1>7. (row.deleted => ~row.active) /\ (row.mfa /\ ~row.raced => row.proven)
  BY <1>3 DEF IInv, DeletedStaysInactive, EnabledIsVerified
<1>8. \A v \in Worker : job'[v].pc = "enable" /\ job[v].id = u =>
                             job[v].saw = row.secret \/ row.raced
  BY <1>3 DEF IInv, CodesKnown, Finishes, Rest
<1> QED BY <1>1, <1>3, <1>5, <1>6, <1>7, <1>8, WriteKeeps

LEMMA RegisterSuccessfulLoginKeeps ==
  ASSUME IInv, NEW w \in Worker, RegisterSuccessfulLogin(w)
  PROVE  IInv'
<1>1. job[w].id \in Known /\ Finishes
  BY AtFinishes DEF RegisterSuccessfulLogin, At, IInv, Targets, OnAccount
<1> QED BY <1>1, ResetKeeps DEF RegisterSuccessfulLogin

LEMMA LockExpiresKeeps ==
  ASSUME IInv, NEW u \in Known, LockExpires(u)
  PROVE  IInv'
<1>1. user[u] \in Account
  BY DEF IInv, TypeOK
<1>2. [user[u] EXCEPT !.locked = FALSE, !.guesses = 0]
        = [user[u] EXCEPT !.failed = user[u].failed, !.locked = FALSE, !.guesses = 0]
  BY <1>1 DEF Account
<1>3. Finishes
  BY SameJobsFinish DEF LockExpires, IInv
<1> QED BY <1>2, <1>3, ResetKeeps DEF LockExpires

\* The stored secret is replaced or removed: the factor is off, and activations
\* under way are marked.
LEMMA FactorOff ==
  ASSUME IInv, NEW u \in Known, NEW s \in Secret \cup {None}, NEW r \in BOOLEAN,
         Activating(u) => r, Finishes,
         Write(u, [user[u] EXCEPT !.secret = s, !.mfa = FALSE, !.proven = FALSE, !.raced = r])
  PROVE  IInv'
<1> SUFFICES ASSUME NEW row, row = [user[u] EXCEPT !.secret = s, !.mfa = FALSE,
                                                   !.proven = FALSE, !.raced = r]
             PROVE  IInv'
  OBVIOUS
<1>1. u \in User /\ user[u] \in Account
  BY DEF IInv, TypeOK
<1>2. /\ row \in Account
      /\ row.email = user[u].email /\ row.deleted = user[u].deleted
      /\ row.active = user[u].active /\ row.failed = user[u].failed
      /\ row.guesses = user[u].guesses /\ row.locked = user[u].locked
      /\ ~row.mfa /\ row.raced = r
  BY <1>1 DEF Account
<1>3. Counted(u)'
  BY <1>2, SameCount
<1>4. row.deleted \/ UniqueEmail(u, row.email)
  BY <1>2, OwnEmail
<1>5. row.deleted => ~row.active
  BY <1>2 DEF IInv, DeletedStaysInactive
<1>6. \A v \in Worker : job'[v].pc = "enable" /\ job[v].id = u =>
                             job[v].saw = row.secret \/ row.raced
  BY <1>2 DEF Activating, Finishes, Rest
<1> QED BY <1>1, <1>2, <1>3, <1>4, <1>5, <1>6, WriteKeeps

LEMMA BeginMfaKeeps ==
  ASSUME IInv, NEW w \in Worker, BeginMfaEnrollment(w)
  PROVE  IInv'
<1>1. PICK u \in Known, s \in Secret : Write(u, NewSecret(u, s)) /\ UNCHANGED job
  BY DEF BeginMfaEnrollment
<1>2. PICK r \in BOOLEAN : r <=> Activating(u)
  OBVIOUS
<1>3. Activating(u) \in BOOLEAN
  BY DEF Activating
<1>4. r = Activating(u)
  BY <1>2, <1>3
<1>5. Finishes
  BY <1>1, SameJobsFinish DEF IInv
<1> QED BY <1>1, <1>4, <1>5, FactorOff DEF NewSecret

LEMMA ClearMfaKeeps ==
  ASSUME IInv, NEW w \in Worker, ClearMfa(w) \/ ResetMfa(w)
  PROVE  IInv'
<1>1. PICK u \in Known : Write(u, Cleared(u)) /\ Finishes
  BY AtFinishes, SameJobsFinish DEF ClearMfa, ResetMfa, At, IInv, Targets, OnAccount
<1>2. Activating(u) \in BOOLEAN
  BY DEF Activating
<1> QED BY <1>1, <1>2, FactorOff DEF Cleared

LEMMA CheckCodeKeeps ==
  ASSUME IInv, NEW w \in Worker, CheckCode(w)
  PROVE  IInv'
<1>1. PICK u \in Known, pc \in {"enable", "clear"} :
             Start(w, [Rest EXCEPT !.pc = pc, !.id = u, !.saw = user[u].secret])
  BY DEF CheckCode
<1> DEFINE j == [Rest EXCEPT !.pc = pc, !.id = u, !.saw = user[u].secret]
<1>2. u \in User /\ user[u].secret \in Secret \cup {None}
  BY DEF IInv, TypeOK, Account
<1>3. j \in Job /\ j.pc = pc /\ j.id = u /\ j.saw = user[u].secret
  BY <1>2 DEF Rest, Job, OnAccount
<1> HIDE DEF j
<1>4. Start(w, j)
  BY <1>1 DEF j
<1> QED BY <1>1, <1>3, <1>4, StartKeeps DEF OnEmail

LEMMA EnableMfaKeeps ==
  ASSUME IInv, NEW w \in Worker, EnableMfa(w)
  PROVE  IInv'
<1> SUFFICES ASSUME NEW u, u = job[w].id PROVE IInv'
  OBVIOUS
<1>1. /\ u \in Known /\ u \in User /\ user[u] \in Account /\ Finishes
      /\ job[w].saw = user[u].secret \/ user[u].raced
  BY AtFinishes DEF EnableMfa, At, IInv, Targets, OnAccount, TypeOK, CodesKnown
<1>2. PICK p \in BOOLEAN : /\ p <=> (user[u].proven \/ job[w].saw = user[u].secret)
                           /\ Write(u, [user[u] EXCEPT !.mfa = TRUE, !.proven = p])
  BY DEF EnableMfa
<1> SUFFICES ASSUME NEW row, row = [user[u] EXCEPT !.mfa = TRUE, !.proven = p]
             PROVE  IInv'
  OBVIOUS
<1>3. /\ row \in Account
      /\ row.email = user[u].email /\ row.deleted = user[u].deleted
      /\ row.active = user[u].active /\ row.failed = user[u].failed
      /\ row.guesses = user[u].guesses /\ row.locked = user[u].locked
      /\ row.secret = user[u].secret /\ row.raced = user[u].raced
      /\ row.proven = p
  BY <1>1 DEF Account
<1>4. Counted(u)'
  BY <1>1, <1>2, <1>3, SameCount
<1>5. row.deleted \/ UniqueEmail(u, row.email)
  BY <1>1, <1>3, OwnEmail
<1>6. row.deleted => ~row.active
  BY <1>1, <1>3 DEF IInv, DeletedStaysInactive
<1>7. row.mfa /\ ~row.raced => row.proven
  BY <1>1, <1>2, <1>3
<1>8. \A v \in Worker : job'[v].pc = "enable" /\ job[v].id = u =>
                             job[v].saw = row.secret \/ row.raced
  BY <1>1, <1>3 DEF IInv, CodesKnown, Finishes, Rest
<1> QED BY <1>1, <1>2, <1>3, <1>4, <1>5, <1>6, <1>7, <1>8, WriteKeeps

LEMMA NextKeeps == IInv /\ [Next]_vars => IInv'
<1> SUFFICES ASSUME IInv, [Next]_vars PROVE IInv'
  OBVIOUS
<1>1. ASSUME NEW w \in Worker, CheckEmail(w) \/ InsertUser(w) \/ EmailTaken(w) \/ Crash(w)
      PROVE  IInv'
  BY <1>1, CheckEmailKeeps, InsertUserKeeps, EmailTakenKeeps
<1>2. ASSUME NEW w \in Worker,
             CheckUser(w) \/ UpdateUser(w) \/ UpdateProfile(w) \/ SoftDelete(w)
      PROVE  IInv'
  BY <1>2, CheckUserKeeps, UpdateUserKeeps, UpdateProfileKeeps, SoftDeleteKeeps
<1>3. ASSUME NEW w \in Worker,
             ReadUser(w) \/ RegisterFailedLogin(w) \/ RegisterSuccessfulLogin(w)
      PROVE  IInv'
  BY <1>3, ReadUserKeeps, RegisterFailedLoginKeeps, RegisterSuccessfulLoginKeeps
<1>4. ASSUME NEW w \in Worker, \/ BeginMfaEnrollment(w) \/ CheckCode(w) \/ EnableMfa(w)
                               \/ ClearMfa(w) \/ ResetMfa(w)
      PROVE  IInv'
  BY <1>4, BeginMfaKeeps, CheckCodeKeeps, EnableMfaKeeps, ClearMfaKeeps
<1>5. ASSUME NEW u \in Known, LockExpires(u) PROVE IInv'
  BY <1>5, LockExpiresKeeps
<1>6. CASE UNCHANGED vars
  BY <1>6, SameJobsFinish, EndKeeps DEF vars, IInv
<1> QED BY <1>1, <1>2, <1>3, <1>4, <1>5, <1>6 DEF Next

LEMMA Invariance == Spec => []IInv
<1> QED BY InitIInv, NextKeeps, PTL DEF Spec

-----------------------------------------------------------------------------
(* The theorems.                                                           *)

\* Whatever a request was checked against, an address has one account that is
\* not deleted at most, and a deleted account is not active.
THEOREM AccountsAreSound == Spec => []AccountsSound
<1>1. IInv => AccountsSound
  BY DEF IInv, AccountsSound
<1> QED BY <1>1, Invariance, PTL

\* The lockout bounds the wrong passwords that are tried on an account, with
\* any number of logins at a time.
THEOREM GuessesAreBounded == Spec => []GuessesBounded
<1>1. IInv => GuessesBounded
  <2> SUFFICES ASSUME IInv, NEW u \in Known
               PROVE  user[u].guesses <= LockAfter + Cardinality(Worker) - 1
    BY DEF GuessesBounded
  <2>1. Counted(u) /\ user[u].guesses \in Nat
    BY DEF IInv, TypeOK, Account
  <2>2. Cardinality(Worker) \in Nat /\ Cardinality(Verifying(u)) \in Nat
    <3>1. IsFiniteSet(Verifying(u))
      BY FS_Subset, UsersAssumption DEF Verifying
    <3> QED BY <3>1, FS_CardinalityType, UsersAssumption
  <2> QED BY <2>1, <2>2, UsersAssumption DEF Counted
<1> QED BY <1>1, Invariance, PTL

\* A second factor that is on is one its owner can use, unless its secret was
\* replaced or cleared while it was being activated.
THEOREM EnabledFactorsAreVerified == Spec => []EnabledIsVerified
<1>1. IInv => EnabledIsVerified
  BY DEF IInv
<1> QED BY <1>1, Invariance, PTL

=============================================================================

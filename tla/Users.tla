------------------------------- MODULE Users -------------------------------
(***************************************************************************)
(* User accounts (table arka.users): creation and the bootstrap account,   *)
(* profile edits, deactivation and deletion, the lockout after failed      *)
(* logins, and the enrolment of a second factor.  UsersService and         *)
(* AuthService check with one statement and write with a later one, and a  *)
(* login works on the row it read first; a worker here is a request that   *)
(* is between two statements, and a request may be cut off there.          *)
(* Permissions are in Access, passwords and refresh tokens in Sessions.    *)
(***************************************************************************)
EXTENDS Integers, FiniteSets

CONSTANTS
  Worker,       \* requests the backend serves at the same time
  User,         \* ids that gen_random_uuid may give (bound)
  Email,        \* e-mail addresses, up to case and surrounding blanks
  CeoEmail,     \* the address of the bootstrap account
  Secret,       \* TOTP secrets
  LockAfter,    \* failed logins that lock an account
  MaxEnrolled,  \* bound on the accounts with a TOTP secret at one time
  None

ASSUME UsersAssumption ==
  /\ CeoEmail \in Email /\ LockAfter \in Nat \ {0} /\ MaxEnrolled \in Nat
  /\ None \notin User \cup Email \cup Secret
  /\ IsFiniteSet(Worker)

VARIABLES
  user,   \* arka.users: a row for each id inserted so far
  job     \* what each worker is doing

vars == <<user, job>>

Known   == DOMAIN user
Live(u) == u \in Known /\ ~user[u].deleted

\* failed is cut at LockAfter: the code only compares it with the limit.
\* History: guesses counts the wrong passwords since the last success or
\* expiry of the lock; proven, whether a code for the stored secret was
\* checked; raced, whether it was replaced between such a check and its use.
Account == [email : Email, active : BOOLEAN, deleted : BOOLEAN,
            failed : 0..LockAfter, locked : BOOLEAN, guesses : Nat,
            secret : Secret \cup {None}, mfa : BOOLEAN,
            proven : BOOLEAN, raced : BOOLEAN]

NewAccount(e, on) ==
  [email |-> e, active |-> on, deleted |-> FALSE, failed |-> 0, locked |-> FALSE,
   guesses |-> 0, secret |-> None, mfa |-> FALSE, proven |-> FALSE, raced |-> FALSE]

\* saw: the part of the row a request read and still relies on.
Rest == [pc |-> "idle", id |-> None, email |-> None, saw |-> None]

Init == user = << >> /\ job = [w \in Worker |-> Rest]

Start(w, j) == job[w] = Rest /\ job' = [job EXCEPT ![w] = j] /\ UNCHANGED user

At(w, pc) == job[w].pc = pc /\ job' = [job EXCEPT ![w] = Rest]

Write(u, row) == user' = [x \in Known \cup {u} |-> IF x = u THEN row ELSE user[x]]

\* Faulty: an index on the id and the address.
UniquePair(u, e) == \A x \in {u} \cap Known : Live(x) => user[x].email # e

\* The unique index on the address of the accounts that are not deleted.
UniqueEmail(u, e) == \A x \in Known \ {u} : Live(x) => user[x].email # e

-----------------------------------------------------------------------------
(* Accounts.                                                               *)

\* create and BootstrapService: findByEmail, then the password is hashed.
CheckEmail(w) ==
  \E e \in Email, pc \in {"insert", "bootstrap"} :
    /\ pc = "bootstrap" => e = CeoEmail
    /\ \A u \in Known : Live(u) => user[u].email # e
    /\ Start(w, [Rest EXCEPT !.pc = pc, !.email = e])

\* The INSERT; the index refuses it when the address was taken meanwhile.
InsertUser(w) ==
  /\ job[w].pc \in {"insert", "bootstrap"} /\ At(w, job[w].pc)
  /\ \E u \in User \ Known, on \in BOOLEAN :
       /\ UniqueEmail(u, job[w].email)
       /\ job[w].pc = "bootstrap" => on
       /\ Write(u, NewAccount(job[w].email, on))

\* The findById (updateUser, softDelete) or findByEmail (updateProfile) that
\* precedes the UPDATE.  One does not delete one's own account.
CheckUser(w) ==
  \E u \in Known, pc \in {"update", "delete", "profile"}, e \in Email :
    /\ Live(u)
    /\ pc = "delete"  => \E acting \in Known : acting # u
    /\ pc = "profile" => UniqueEmail(u, e)
    /\ Start(w, [Rest EXCEPT !.pc = pc, !.id = u, !.email = IF pc = "profile" THEN e ELSE None])

\* A row that was deleted meanwhile is left alone.
UpdateUser(w) ==
  /\ At(w, "update")
  /\ \E on \in BOOLEAN :
       IF Live(job[w].id) THEN Write(job[w].id, [user[job[w].id] EXCEPT !.active = on])
       ELSE UNCHANGED user

UpdateProfile(w) ==
  /\ At(w, "profile")
  /\ IF Live(job[w].id)
     THEN /\ UniqueEmail(job[w].id, job[w].email)
          /\ Write(job[w].id, [user[job[w].id] EXCEPT !.email = job[w].email])
     ELSE UNCHANGED user

SoftDelete(w) ==
  /\ At(w, "delete")
  /\ Write(job[w].id, [user[job[w].id] EXCEPT !.deleted = TRUE, !.active = FALSE])

\* The unique index refuses the write and the request fails.
EmailTaken(w) ==
  /\ job[w].pc \in {"insert", "bootstrap", "profile"}
  /\ ~UniqueEmail(job[w].id, job[w].email)
  /\ At(w, job[w].pc) /\ UNCHANGED user

-----------------------------------------------------------------------------
(* Login: validateUser.                                                    *)

\* findByEmail, and the account is neither disabled nor locked.
ReadUser(w) ==
  \E u \in Known : /\ Live(u) /\ user[u].active /\ ~user[u].locked
                   /\ Start(w, [Rest EXCEPT !.pc = "verify", !.id = u, !.saw = user[u].failed])

Failed(row, n) ==
  [row EXCEPT !.failed = IF n < LockAfter THEN n ELSE LockAfter,
              !.locked = @ \/ n >= LockAfter, !.guesses = @ + 1]

\* Faulty: the new count is computed from the row that was read first.
RegisterStaleFailure(w) ==
  /\ At(w, "verify")
  /\ Write(job[w].id, Failed(user[job[w].id], job[w].saw + 1))

\* The password is wrong: registerFailedLogin, one UPDATE.
RegisterFailedLogin(w) ==
  /\ At(w, "verify")
  /\ Write(job[w].id, Failed(user[job[w].id], user[job[w].id].failed + 1))

\* The password is right: registerSuccessfulLogin, before any TOTP is asked.
RegisterSuccessfulLogin(w) ==
  /\ At(w, "verify")
  /\ Write(job[w].id, [user[job[w].id] EXCEPT !.failed = 0, !.locked = FALSE, !.guesses = 0])

\* locked_until passes; failed_logins stays.
LockExpires(u) ==
  /\ user[u].locked
  /\ Write(u, [user[u] EXCEPT !.locked = FALSE, !.guesses = 0])
  /\ UNCHANGED job

-----------------------------------------------------------------------------
(* The second factor.  Codes are checked against the secret that was read. *)

Activating(u) == \E w \in Worker : job[w].pc = "enable" /\ job[w].id = u

\* Faulty: a new enrolment leaves the factor switched on.
SecretOnly(u, s) ==
  [user[u] EXCEPT !.secret = s, !.proven = FALSE,
                  !.raced = Activating(u)]

\* A secret that nobody has been shown before.
NewSecret(u, s) ==
  [user[u] EXCEPT !.secret = s, !.mfa = FALSE, !.proven = FALSE,
                  !.raced = Activating(u)]

\* beginMfaEnrollment: setMfaSecret, one UPDATE.
BeginMfaEnrollment(w) ==
  \E u \in Known, s \in Secret :
    /\ job[w] = Rest /\ user[u].secret # s
    /\ Cardinality({v \in Known \ {u} : user[v].secret # None}) < MaxEnrolled
    /\ \A v \in Worker : job[v].saw # s
    /\ Write(u, NewSecret(u, s)) /\ UNCHANGED job

\* activateMfa and disableMfa read the row and check a code.
CheckCode(w) ==
  \E u \in Known, pc \in {"enable", "clear"} :
    /\ Live(u) /\ user[u].secret # None
    /\ pc = "clear" => user[u].mfa
    /\ Start(w, [Rest EXCEPT !.pc = pc, !.id = u, !.saw = user[u].secret])

EnableMfa(w) ==
  /\ At(w, "enable")
  /\ Write(job[w].id, [user[job[w].id] EXCEPT !.mfa = TRUE, !.proven = (@ \/ job[w].saw = user[job[w].id].secret)])

Cleared(u) == [user[u] EXCEPT !.secret = None, !.mfa = FALSE, !.proven = FALSE,
                              !.raced = Activating(u)]

ClearMfa(w) == At(w, "clear") /\ Write(job[w].id, Cleared(job[w].id))

\* UsersController.resetMfa: clearMfa with no check.
ResetMfa(w) ==
  \E u \in Known : /\ job[w] = Rest /\ user[u].secret # None
                   /\ Write(u, Cleared(u)) /\ UNCHANGED job

-----------------------------------------------------------------------------
\* The process dies or the connection is lost between two statements.
Crash(w) == job[w] # Rest /\ At(w, job[w].pc) /\ UNCHANGED user

Next ==
  \/ \E w \in Worker :
       \/ CheckEmail(w) \/ InsertUser(w) \/ EmailTaken(w)
       \/ CheckUser(w) \/ UpdateUser(w) \/ UpdateProfile(w) \/ SoftDelete(w)
       \/ ReadUser(w) \/ RegisterFailedLogin(w) \/ RegisterSuccessfulLogin(w)
       \/ BeginMfaEnrollment(w) \/ CheckCode(w) \/ EnableMfa(w) \/ ClearMfa(w) \/ ResetMfa(w)
       \/ Crash(w)
  \/ \E u \in Known : LockExpires(u)

Spec == Init /\ [][Next]_vars

-----------------------------------------------------------------------------
(* Properties.                                                             *)

TypeOK ==
  /\ Known \subseteq User /\ user \in [Known -> Account]
  /\ \A w \in Worker : /\ job[w].id \in Known \cup {None}
                       /\ job[w].email \in Email \cup {None}

\* Two creations, a creation and a profile edit, or two starts of the server
\* never leave one address with two accounts, although each looks first.
OneLiveUserPerEmail ==
  \A u, v \in Known : Live(u) /\ Live(v) /\ user[u].email = user[v].email => u = v

\* An edit that was checked before the deletion does not wake the account.
DeletedStaysInactive == \A u \in Known : user[u].deleted => ~user[u].active

\* What every request, whatever it was checked against, leaves in the table.
AccountsSound == TypeOK /\ OneLiveUserPerEmail /\ DeletedStaysInactive

\* Between two successes or expiries of the lock no more than LockAfter wrong
\* passwords are tried, and those that were being checked when the last of
\* them locked the account.
GuessesBounded ==
  \A u \in Known : user[u].guesses <= LockAfter + Cardinality(Worker) - 1

\* A factor that is on is one whose secret the owner has shown a code for,
\* unless the secret was replaced or cleared during the activation.
EnabledIsVerified == \A u \in Known : user[u].mfa /\ ~user[u].raced => user[u].proven
=============================================================================

------------------------------ MODULE Sessions ------------------------------
(***************************************************************************)
(* Refresh tokens of one user: login, rotation with reuse detection,       *)
(* logout, and the operations that end every session (AuthService,         *)
(* UsersService, table arka.refresh_tokens).  AuthService sends each       *)
(* statement on its own, without a transaction, so requests interleave     *)
(* between any two of them, and a request may be cut off there.            *)
(***************************************************************************)
EXTENDS Integers, FiniteSets

CONSTANTS
  Worker,    \* requests the backend serves at the same time
  MaxToken,  \* bound on the refresh tokens issued
  MaxFamily, \* bound on the sessions opened
  MaxPw,     \* bound on the number of passwords
  Crashes,   \* whether a request may be cut off between two statements
  None

ASSUME SessionAssumption ==
  /\ MaxToken \in Nat /\ MaxFamily \in Nat /\ MaxPw \in Nat \ {0}
  /\ Crashes \in BOOLEAN /\ None \notin Nat

VARIABLES
  tok,      \* arka.refresh_tokens: the rows issued so far
  held,     \* tokens that reached a client in an answer
  user,     \* is_active and deleted_at of the user's row
  pw,       \* which password the user's row has, counted from 1
  job,      \* what each worker is doing
  raced     \* history: two requests overlapped, or one was cut off

vars == <<tok, held, user, pw, job, raced>>

\* Values of randomBytes and randomUUID, numbered in the order of their use.
Token  == 1..MaxToken
Family == (MaxToken + 1)..(MaxToken + MaxFamily)

\* login: the number of the password the session was opened with (history).
Row == [fam : Family, revoked : BOOLEAN, expired : BOOLEAN,
        replaced : Token \cup {None}, login : Nat]

Steps == {"idle", "issue", "checkUser", "link", "nuke", "setPassword", "revokeAll"}

Rest == [pc |-> "idle", old |-> None, new |-> None, fam |-> None, login |-> 0]

Init ==
  /\ tok = << >> /\ held = {}
  /\ user = "active" /\ pw = 1
  /\ job = [w \in Worker |-> Rest] /\ raced = FALSE

Issued == DOMAIN tok
Live(t) == t \in Issued /\ ~tok[t].revoked /\ ~tok[t].expired

Revoke(S) == [t \in Issued |-> IF t \in S THEN [tok[t] EXCEPT !.revoked = TRUE] ELSE tok[t]]

Goto(w, j) == job' = [job EXCEPT ![w] = j] /\ UNCHANGED raced

\* A request arrives; it may find others under way.
Arrive(w, j) ==
  /\ job[w] = Rest /\ job' = [job EXCEPT ![w] = j]
  /\ raced' = (raced \/ \E v \in Worker : job[v] # Rest)

\* The token and the family that the next session is given.
NextToken  == Cardinality(Issued) + 1
Opened(f)  == (\E t \in Issued : tok[t].fam = f) \/ (\E w \in Worker : job[w].fam = f)
NewFamily(f) == ~Opened(f) /\ \A g \in Family : g < f => Opened(g)

-----------------------------------------------------------------------------
(* Login: validateUser checks the password, issueTokens inserts the token. *)

Login(w) ==
  /\ user = "active"
  /\ \E f \in Family :
       /\ NewFamily(f)
       /\ Arrive(w, [Rest EXCEPT !.pc = "issue", !.fam = f, !.login = pw])
  /\ UNCHANGED <<tok, held, user, pw>>

\* Insert a row for the next token; answer a login, go on with a rotation.
Issue(w, f) ==
  /\ job[w].pc = "issue" /\ NextToken \in Token
  /\ tok' = [t \in Issued \cup {NextToken} |->
               IF t \in Issued THEN tok[t]
               ELSE [fam |-> f, revoked |-> FALSE, expired |-> FALSE,
                     replaced |-> None, login |-> job[w].login]]
  /\ IF job[w].old = None
     THEN held' = held \cup {NextToken} /\ Goto(w, Rest)
     ELSE UNCHANGED held /\ Goto(w, [job[w] EXCEPT !.pc = "link", !.new = NextToken])
  /\ UNCHANGED <<user, pw>>

\* Faulty: a rotation puts its token in a family of its own.
IssueInNewFamily(w) == \E f \in Family : Issue(w, f)

\* issueTokens, for a login (no old token) and for a rotation.
IssueTokens(w) == Issue(w, job[w].fam)

-----------------------------------------------------------------------------
(* rotateRefresh.                                                          *)

\* What a rotation of token t remembers of it.
Found(t, pc) == [Rest EXCEPT !.pc = pc, !.old = t, !.fam = tok[t].fam, !.login = tok[t].login]

\* Faulty: a revoked token is taken for a usable one.
ReadAnyToken(w, t) ==
  /\ ~tok[t].expired /\ Arrive(w, Found(t, "checkUser"))
  /\ UNCHANGED <<tok, held, user, pw>>

\* The SELECT by token hash and the branches on what it read.
ReadToken(w, t) ==
  /\ \/ tok[t].revoked /\ Arrive(w, Found(t, "nuke"))
     \/ Live(t) /\ Arrive(w, Found(t, "checkUser"))
  /\ UNCHANGED <<tok, held, user, pw>>

\* Reuse of a rotated token: the whole family is revoked.
NukeFamily(w) ==
  /\ job[w].pc = "nuke"
  /\ tok' = Revoke({t \in Issued : tok[t].fam = job[w].fam})
  /\ Goto(w, Rest)
  /\ UNCHANGED <<held, user, pw>>

CheckUser(w) ==
  /\ job[w].pc = "checkUser"
  /\ Goto(w, IF user = "active" THEN [job[w] EXCEPT !.pc = "issue"] ELSE Rest)
  /\ UNCHANGED <<tok, held, user, pw>>

\* Revoke the old token and link it to its replacement, then answer.
LinkOld(w) ==
  /\ job[w].pc = "link"
  /\ tok' = [tok EXCEPT ![job[w].old].revoked = TRUE,
                        ![job[w].old].replaced = job[w].new]
  /\ held' = held \cup {job[w].new}
  /\ Goto(w, Rest)
  /\ UNCHANGED <<user, pw>>

-----------------------------------------------------------------------------
(* Ending sessions.                                                        *)

\* revokeRefresh, one UPDATE.
Logout(w, t) ==
  /\ Arrive(w, Rest) /\ tok' = Revoke({t})
  /\ UNCHANGED <<held, user, pw>>

\* changeOwnPassword: the current password is checked, then the new one is
\* set (setPasswordHash), then every session ends (revokeAllForUser).
ChangePassword(w) ==
  /\ user # "deleted" /\ pw < MaxPw
  /\ Arrive(w, [Rest EXCEPT !.pc = "setPassword"])
  /\ UNCHANGED <<tok, held, user, pw>>

SetPasswordHash(w) ==
  /\ job[w].pc = "setPassword" /\ pw < MaxPw
  /\ pw' = pw + 1
  /\ Goto(w, [Rest EXCEPT !.pc = "revokeAll"])
  /\ UNCHANGED <<tok, held, user>>

RevokeAllForUser(w) ==
  /\ job[w].pc = "revokeAll"
  /\ tok' = Revoke(Issued)
  /\ Goto(w, Rest)
  /\ UNCHANGED <<held, user, pw>>

\* Faulty: the new password is set and the sessions stay.
AdminOnlyResets(w) ==
  /\ Arrive(w, Rest) /\ pw < MaxPw
  /\ pw' = pw + 1
  /\ UNCHANGED <<tok, held, user>>

\* adminResetPassword and softDelete do both in one transaction.
AdminResetPassword(w) ==
  /\ Arrive(w, Rest) /\ pw < MaxPw
  /\ pw' = pw + 1 /\ tok' = Revoke(Issued)
  /\ UNCHANGED <<held, user>>

SoftDelete(w) ==
  /\ Arrive(w, Rest) /\ user # "deleted"
  /\ user' = "deleted" /\ tok' = Revoke(Issued)
  /\ UNCHANGED <<held, pw>>

\* updateUser with isActive: the sessions stay.
SetActive(w) ==
  /\ Arrive(w, Rest) /\ user # "deleted"
  /\ user' \in {"active", "disabled"} \ {user}
  /\ UNCHANGED <<tok, held, pw>>

-----------------------------------------------------------------------------
\* expires_at passes.
Expire(t) ==
  /\ Live(t)
  /\ tok' = [tok EXCEPT ![t].expired = TRUE]
  /\ UNCHANGED <<held, user, pw, job, raced>>

\* A request is cut off between two statements.
Crash(w) ==
  /\ Crashes /\ job[w] # Rest
  /\ job' = [job EXCEPT ![w] = Rest] /\ raced' = TRUE
  /\ UNCHANGED <<tok, held, user, pw>>

\* What a request under way does next.
Serve(w) == \/ IssueTokens(w) \/ NukeFamily(w) \/ CheckUser(w) \/ LinkOld(w)
            \/ SetPasswordHash(w) \/ RevokeAllForUser(w)

\* A request arrives, from whoever holds a token or administers users.
Request(w) == \/ Login(w) \/ ChangePassword(w)
              \/ AdminResetPassword(w) \/ SoftDelete(w) \/ SetActive(w)
              \/ \E t \in held : ReadToken(w, t) \/ Logout(w, t)

Next == \/ \E w \in Worker : Request(w) \/ Serve(w) \/ Crash(w)
        \/ \E t \in Issued : Expire(t)

Spec == Init /\ [][Next]_vars

-----------------------------------------------------------------------------
(* Properties.                                                             *)

TypeOK ==
  /\ Issued \subseteq Token /\ tok \in [Issued -> Row]
  /\ held \subseteq Issued
  /\ user \in {"active", "disabled", "deleted"} /\ pw \in 1..MaxPw /\ raced \in BOOLEAN
  /\ \A w \in Worker : /\ job[w].pc \in Steps
                       /\ job[w].old \in Issued \cup {None}
                       /\ job[w].new \in Issued \cup {None}
                       /\ job[w].fam \in Family \cup {None}

\* A session that was opened, of which no usable token is left and no request
\* is under way that read one while it was usable.
Over(f) ==
  /\ \E t \in Issued : tok[t].fam = f
  /\ \A t \in Issued : tok[t].fam = f => ~Live(t)
  /\ \A w \in Worker : job[w].fam = f => job[w].pc \notin {"checkUser", "issue"}

\* A session that is over stays over: no retry, late answer or old token ever
\* brings it back, or starts a rotation in it.
DeadStaysDead == [][\A f \in Family : Over(f) => Over(f)']_vars

\* The links written by rotations are lineages: a link stays in its family,
\* leaves a revoked token, and no token replaces two others.
LineagesSound ==
  /\ \A t \in Issued : tok[t].replaced # None =>
       /\ tok[t].revoked
       /\ tok[t].replaced \in Issued /\ tok[t].replaced # t
       /\ tok[tok[t].replaced].fam = tok[t].fam
  /\ \A s, t \in Issued :
       tok[s].replaced = tok[t].replaced /\ tok[s].replaced # None => s = t

\* The rows of the table, of whatever requests they come.
TokensSound == TypeOK /\ LineagesSound

Quiet == \A w \in Worker : job[w] = Rest

\* A session has at most one usable refresh token.
OneLiveToken == \A s, t \in Issued : Live(s) /\ Live(t) /\ tok[s].fam = tok[t].fam => s = t

\* No session that was opened with an earlier password is usable.
OldSessionsEnd == \A t \in Issued : Live(t) => tok[t].login = pw

\* Both hold between requests as long as these came one at a time and none was
\* cut off, over any sequence of logins, rotations, resets, lost tokens and
\* deactivations; two rotations of one token, or a rotation that read its token
\* before a password change and inserts the new one after it, break them.
SessionsSound == Quiet /\ ~raced => OneLiveToken /\ OldSessionsEnd
==============================================================================

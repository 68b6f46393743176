--------------------------- MODULE SessionsProofs ---------------------------
(***************************************************************************)
(* What holds of the refresh tokens for any number of workers, tokens,     *)
(* sessions and passwords.  Two parts of the inductive invariant do the    *)
(* work: Remembered ties what a request remembers between two statements   *)
(* to the rows of the table, whatever else happened to them meanwhile, and *)
(* Alone says what an undisturbed request still has to do to the sessions. *)
(***************************************************************************)
EXTENDS Sessions, FiniteSetTheorems, TLAPS

Job == [pc : Steps, old : Token \cup {None}, new : Token \cup {None},
        fam : Family \cup {None}, login : Nat]

Typed == job \in [Worker -> Job]

\* The tokens are numbered in the order in which they were issued.
Numbered == \E n \in 0..MaxToken : Issued = 1..n

\* A request of a rotation works on a token and on its session.
Rotates(j) == /\ j.old \in Issued
              /\ j.fam = tok[j.old].fam /\ j.login = tok[j.old].login

\* What a request knows at each step, with any others under way.
Remembers(j) ==
  /\ j.pc \in {"idle", "setPassword", "revokeAll"} => j = [Rest EXCEPT !.pc = j.pc]
  /\ j.pc \in {"checkUser", "nuke"} => Rotates(j)
  /\ j.pc = "issue" => j.fam \in Family /\ (j.old # None => Rotates(j))
  /\ j.pc = "link" => Rotates(j)
  /\ j.pc # "link" => j.new = None

\* The token that a rotation has inserted and not linked yet: of the same
\* session, another one than the old, linked from nowhere.
Unlinked(j) ==
  j.pc = "link" => /\ j.new \in Issued /\ j.new # j.old
                   /\ tok[j.new].fam = j.fam
                   /\ \A t \in Issued : tok[t].replaced # j.new

Remembered ==
  /\ \A w \in Worker : Remembers(job[w]) /\ Unlinked(job[w])
  /\ \A v, w \in Worker : job[v].new = job[w].new /\ job[v].new # None => v = w

\* The requests came one at a time and none was cut off: a session has more
\* than one usable token only while a rotation has still to revoke the old one,
\* and one of an earlier password only while a password change has still to
\* end the sessions.
OneAtATime == \A v, w \in Worker : job[v] # Rest /\ job[w] # Rest => v = w

PairLinking(s, t) == \E w \in Worker : job[w].pc = "link" /\ s = job[w].old /\ t = job[w].new

OneOrLinking ==
  \A s, t \in Issued :
    Live(s) /\ Live(t) /\ tok[s].fam = tok[t].fam =>
      s = t \/ PairLinking(s, t) \/ PairLinking(t, s)

CurrentOrEnding ==
  (\A w \in Worker : job[w].pc # "revokeAll") => OldSessionsEnd

\* What the request under way may count on.
CountsOn(j) ==
  /\ j.pc \in {"checkUser", "issue"} => j.login = pw
  /\ j.pc \in {"checkUser", "issue"} =>
       \A t \in Issued : Live(t) /\ tok[t].fam = j.fam => t = j.old
  /\ j.pc = "link" => tok[j.new].login = pw

Alone == ~raced => /\ OneAtATime /\ OneOrLinking /\ CurrentOrEnding
                   /\ \A w \in Worker : CountsOn(job[w])

IInv == TypeOK /\ Typed /\ Numbered /\ Remembered /\ LineagesSound /\ Alone

-----------------------------------------------------------------------------
(* Lemmas about workers and rows.                                          *)

\* A step that issues no token: rows keep what they say of lineages, and are
\* never revived.
RowsAge == /\ Issued' = Issued /\ tok' \in [Issued -> Row]
           /\ \A t \in Issued : /\ tok'[t].fam = tok[t].fam /\ tok'[t].login = tok[t].login
                                /\ tok[t].revoked => tok'[t].revoked
                                /\ tok[t].expired => tok'[t].expired

RowsKeepLinks == \A t \in Issued : tok'[t].replaced = tok[t].replaced

LEMMA NoneIsApart == None \notin Token /\ None \notin Family /\ Token \cap Family = {}
BY SessionAssumption DEF Token, Family

LEMMA RestIsJob == Rest \in Job
BY DEF Rest, Job, Steps

LEMMA RevokeFacts ==
  ASSUME TypeOK, NEW S, tok' = Revoke(S)
  PROVE  /\ RowsAge /\ RowsKeepLinks
         /\ \A t \in S \cap Issued : tok'[t].revoked
<1>1. Issued' = Issued
  BY DEF Issued, Revoke
<1>2. ASSUME NEW t \in Issued
      PROVE  tok'[t] = IF t \in S THEN [tok[t] EXCEPT !.revoked = TRUE] ELSE tok[t]
  BY DEF Revoke
<1>3. \A t \in Issued : tok[t] \in Row
  BY DEF TypeOK
<1>4. \A t \in Issued : tok'[t] \in Row
  BY <1>2, <1>3 DEF Row
<1>5. tok' \in [Issued -> Row]
  BY <1>4 DEF Revoke
<1>6. \A t \in Issued : /\ tok'[t].fam = tok[t].fam /\ tok'[t].login = tok[t].login
                        /\ tok'[t].replaced = tok[t].replaced
                        /\ tok'[t].expired = tok[t].expired
                        /\ tok'[t].revoked = (tok[t].revoked \/ t \in S)
  BY <1>2, <1>3 DEF Row
<1> QED BY <1>1, <1>5, <1>6 DEF RowsAge, RowsKeepLinks

LEMMA SameRowsAge ==
  ASSUME TypeOK, UNCHANGED tok
  PROVE  RowsAge /\ RowsKeepLinks
BY DEF TypeOK, RowsAge, RowsKeepLinks, Issued

\* Under RowsAge no token becomes usable.
LEMMA NoRevival ==
  ASSUME TypeOK, RowsAge
  PROVE  \A t : Live(t)' => Live(t) /\ t \in Issued /\ tok'[t].fam = tok[t].fam
                            /\ tok'[t].login = tok[t].login
BY DEF RowsAge, Live

LEMMA LineagesKept ==
  ASSUME IInv, RowsAge, RowsKeepLinks
  PROVE  Numbered' /\ LineagesSound'
<1>1. Numbered'
  BY DEF IInv, Numbered, RowsAge
<1> QED BY <1>1 DEF IInv, LineagesSound, RowsAge, RowsKeepLinks

\* Only the worker of the step changes what it remembers.
LEMMA RememberedKept ==
  ASSUME IInv, RowsAge, RowsKeepLinks, NEW w \in Worker,
         \A v \in Worker \ {w} : job'[v] = job[v],
         Remembers(job[w])', Unlinked(job[w])', job'[w].new \in {None, job[w].new}
  PROVE  Remembered'
<1>1. ASSUME NEW v \in Worker \ {w} PROVE Remembers(job[v])' /\ Unlinked(job[v])'
  <2>1. job'[v] = job[v] /\ Remembers(job[v]) /\ Unlinked(job[v])
    BY DEF IInv, Remembered
  <2>2. job[v] \in Job /\ job[v].old \in Issued \cup {None}
    BY DEF IInv, Typed, TypeOK
  <2> QED BY <2>1, <2>2 DEF Remembers, Unlinked, Rotates, RowsAge, RowsKeepLinks
<1>2. \A v, u \in Worker : job'[v].new = job'[u].new /\ job'[v].new # None => v = u
  BY DEF IInv, Remembered
<1> QED BY <1>1, <1>2 DEF Remembered

\* A request that arrives and finds nobody.
LEMMA ArrivesAlone ==
  ASSUME IInv, RowsAge, NEW w \in Worker, NEW j, Arrive(w, j),
         pw' = pw \/ \A t \in Issued : ~Live(t)',
         ~raced' => CountsOn(job[w])'
  PROVE  Alone'
<1> SUFFICES ASSUME ~raced' PROVE OneAtATime' /\ OneOrLinking' /\ CurrentOrEnding'
                                  /\ \A v \in Worker : CountsOn(job[v])'
  BY DEF Alone
<1>1. ~raced /\ \A v \in Worker : job[v] = Rest
  BY DEF Arrive, IInv, TypeOK
<1>2. \A v \in Worker \ {w} : job'[v] = Rest
  BY <1>1 DEF Arrive, IInv, Typed
<1>3. OneAtATime'
  BY <1>2 DEF OneAtATime, Rest
<1>4. Alone /\ TypeOK
  BY DEF IInv
<1>5. OneOrLinking /\ CurrentOrEnding
  BY <1>1, <1>4 DEF Alone
<1>6. OneOrLinking'
  BY <1>1, <1>4, <1>5, NoRevival DEF OneOrLinking, PairLinking, Rest, RowsAge
<1>7. OldSessionsEnd
  BY <1>1, <1>5 DEF CurrentOrEnding, Rest
<1>8. CurrentOrEnding'
  BY <1>4, <1>7, NoRevival DEF CurrentOrEnding, OldSessionsEnd, RowsAge
<1>9. ASSUME NEW v \in Worker PROVE CountsOn(job[v])'
  BY <1>2 DEF CountsOn, Rest
<1> QED BY <1>3, <1>6, <1>8, <1>9

\* A request under way that goes on.
LEMMA GoesOnAlone ==
  ASSUME IInv, NEW w \in Worker, NEW j, Goto(w, j), job[w] # Rest,
         ~raced /\ (\A v \in Worker \ {w} : job[v] = Rest /\ job'[v] = Rest)
           => OneOrLinking' /\ CurrentOrEnding' /\ CountsOn(job[w])'
  PROVE  Alone'
<1> SUFFICES ASSUME ~raced' PROVE OneAtATime' /\ OneOrLinking' /\ CurrentOrEnding'
                                  /\ \A v \in Worker : CountsOn(job[v])'
  BY DEF Alone
<1>1. ~raced /\ OneAtATime
  BY DEF Goto, IInv, Alone
<1>2. \A v \in Worker \ {w} : job[v] = Rest /\ job'[v] = Rest
  BY <1>1 DEF OneAtATime, Goto, IInv, Typed
<1>3. OneAtATime'
  BY <1>2 DEF OneAtATime, Rest
<1>4. ASSUME NEW v \in Worker PROVE CountsOn(job[v])'
  BY <1>1, <1>2 DEF CountsOn, Rest
<1> QED BY <1>1, <1>2, <1>3, <1>4

LEMMA NextTokenFacts ==
  ASSUME IInv
  PROVE  NextToken \in Nat /\ NextToken \notin Issued
         /\ Issued \cup {NextToken} = 1..NextToken /\ NextToken - 1 \in 0..MaxToken
<1>1. PICK n \in 0..MaxToken : Issued = 1..n
  BY DEF IInv, Numbered
<1>2. Cardinality(1..n) = n
  BY FS_Interval, SessionAssumption
<1>3. NextToken = n + 1
  BY <1>1, <1>2 DEF NextToken
<1> QED BY <1>1, <1>3, SessionAssumption

-----------------------------------------------------------------------------
(* The invariant, action by action.                                        *)

LEMMA InitIInv == Init => IInv
<1> SUFFICES ASSUME Init PROVE IInv
  OBVIOUS
<1> USE DEF Init, Rest
<1>1. Issued = {}
  BY DEF Issued
<1>2. TypeOK
  <2>1. tok \in [Issued -> Row]
    BY <1>1
  <2>2. pw \in 1..MaxPw
    BY SessionAssumption
  <2>3. \A w \in Worker : job[w] = Rest
    OBVIOUS
  <2> QED BY <1>1, <2>1, <2>2, <2>3 DEF TypeOK, Steps
<1>3. Typed
  BY RestIsJob DEF Typed
<1>4. Numbered
  <2>1. 0 \in 0..MaxToken /\ Issued = 1..0
    BY <1>1, SessionAssumption
  <2> QED BY <2>1 DEF Numbered
<1>5. Remembered /\ LineagesSound
  BY <1>1 DEF Remembered, Remembers, Unlinked, LineagesSound
<1>6. Alone
  BY <1>1 DEF Alone, OneAtATime, OneOrLinking, CurrentOrEnding, OldSessionsEnd, CountsOn
<1> QED BY <1>2, <1>3, <1>4, <1>5, <1>6 DEF IInv

\* A request that arrives, with what it remembers at first.
LEMMA ArriveKeeps ==
  ASSUME IInv, NEW w \in Worker, NEW j \in Job, Arrive(w, j),
         RowsAge, RowsKeepLinks, UNCHANGED held, j.new = None,
         j.old \in Issued \cup {None},
         user' \in {"active", "disabled", "deleted"}, pw' \in 1..MaxPw,
         pw' = pw \/ \A t \in Issued : ~Live(t)',
         Remembers(job[w])', Unlinked(job[w])', ~raced' => CountsOn(job[w])'
  PROVE  IInv'
<1>1. job'[w] = j /\ \A v \in Worker \ {w} : job'[v] = job[v]
  BY DEF Arrive, IInv, Typed
<1>2. Typed'
  BY DEF Arrive, IInv, Typed
<1>3. TypeOK'
  <2>1. raced' \in BOOLEAN
    BY DEF Arrive, IInv, TypeOK
  <2>2. \A v \in Worker : job'[v].pc \in Steps /\ job'[v].fam \in Family \cup {None}
    BY <1>2 DEF Typed, Job
  <2>3. \A v \in Worker : /\ job'[v].old \in Issued \cup {None}
                          /\ job'[v].new \in Issued \cup {None}
    BY <1>1 DEF IInv, TypeOK
  <2>4. Issued' = Issued /\ tok' \in [Issued' -> Row]
    BY DEF RowsAge
  <2>5. TypeOK
    BY DEF IInv
  <2> QED BY <2>1, <2>2, <2>3, <2>4, <2>5 DEF TypeOK
<1>4. Remembered'
  BY <1>1, RememberedKept
<1>5. Alone'
  BY ArrivesAlone
<1> QED BY <1>2, <1>3, <1>4, <1>5, LineagesKept DEF IInv

\* One that is done at once.
LEMMA DoneAtOnce ==
  ASSUME IInv, NEW w \in Worker, Arrive(w, Rest),
         RowsAge, RowsKeepLinks, UNCHANGED held,
         user' \in {"active", "disabled", "deleted"}, pw' \in 1..MaxPw,
         pw' = pw \/ \A t \in Issued : ~Live(t)'
  PROVE  IInv'
<1>1. job'[w] = Rest
  BY DEF Arrive, IInv, Typed
<1>2. Remembers(job[w])' /\ Unlinked(job[w])' /\ CountsOn(job[w])'
  BY <1>1 DEF Rest, Remembers, Unlinked, CountsOn
<1>3. Rest.new = None /\ Rest.old = None
  BY DEF Rest
<1> QED BY <1>2, <1>3, RestIsJob, ArriveKeeps

LEMMA LoginKeeps ==
  ASSUME IInv, NEW w \in Worker, Login(w)
  PROVE  IInv'
<1>1. PICK f \in Family : /\ NewFamily(f)
                          /\ Arrive(w, [Rest EXCEPT !.pc = "issue", !.fam = f, !.login = pw])
  BY DEF Login
<1> DEFINE j == [Rest EXCEPT !.pc = "issue", !.fam = f, !.login = pw]
<1>2. TypeOK /\ UNCHANGED <<tok, held, user, pw>>
  BY DEF Login, IInv
<1>3. j \in Job /\ j.old = None /\ j.new = None /\ j.fam = f /\ j.pc = "issue" /\ j.login = pw
  <2>1. pw \in Nat
    BY <1>2, SessionAssumption DEF TypeOK
  <2> QED BY <2>1 DEF Rest, Job, Steps
<1>4. job'[w] = j
  BY <1>1 DEF Arrive, IInv, Typed
<1> HIDE DEF j
<1>5. Remembers(job[w])' /\ Unlinked(job[w])'
  BY <1>3, <1>4 DEF Remembers, Unlinked
<1>6. \A t \in Issued : tok[t].fam # f
  BY <1>1 DEF NewFamily, Opened
<1>7. CountsOn(job[w])'
  BY <1>2, <1>3, <1>4, <1>6 DEF CountsOn, Issued
<1>8. Arrive(w, j)
  BY <1>1 DEF j
<1>9. RowsAge /\ RowsKeepLinks
  BY <1>2, SameRowsAge
<1>10. user' \in {"active", "disabled", "deleted"} /\ pw' \in 1..MaxPw
  BY <1>2 DEF TypeOK
<1> QED BY <1>2, <1>3, <1>5, <1>7, <1>8, <1>9, <1>10, ArriveKeeps

LEMMA ReadTokenKeeps ==
  ASSUME IInv, NEW w \in Worker, NEW t \in held, ReadToken(w, t)
  PROVE  IInv'
<1>1. TypeOK /\ UNCHANGED <<tok, held, user, pw>> /\ t \in Issued /\ tok[t] \in Row
  BY DEF ReadToken, IInv, TypeOK
<1>2. PICK pc \in {"nuke", "checkUser"} : /\ Arrive(w, Found(t, pc))
                                          /\ pc = "checkUser" => Live(t)
  BY DEF ReadToken
<1> DEFINE j == Found(t, pc)
<1>3. j \in Job /\ j.old = t /\ j.new = None /\ j.fam = tok[t].fam /\ j.pc = pc
      /\ j.login = tok[t].login
  BY <1>1 DEF Found, Rest, Job, Steps, Row, TypeOK
<1>4. job'[w] = j
  BY <1>2 DEF Arrive, IInv, Typed
<1>5. Arrive(w, j)
  BY <1>2
<1> HIDE DEF j
<1>6. Remembers(job[w])' /\ Unlinked(job[w])'
  BY <1>1, <1>3, <1>4 DEF Remembers, Unlinked, Rotates, Issued
<1>7. ASSUME ~raced' PROVE CountsOn(job[w])'
  <2>1. ~raced /\ \A v \in Worker : job[v] = Rest
    BY <1>5, <1>7 DEF Arrive, IInv, TypeOK
  <2>2. OneOrLinking /\ CurrentOrEnding
    BY <2>1 DEF IInv, Alone
  <2>3. \A v \in Worker : job[v].pc = "idle"
    BY <2>1 DEF Rest
  <2>4. \A u \in Issued : Live(u) /\ Live(t) /\ tok[u].fam = tok[t].fam => u = t
    BY <1>1, <2>2, <2>3 DEF OneOrLinking, PairLinking
  <2>5. OldSessionsEnd
    BY <2>2, <2>3 DEF CurrentOrEnding
  <2> QED BY <1>1, <1>2, <1>3, <1>4, <2>4, <2>5 DEF CountsOn, OldSessionsEnd, Live, Issued
<1>8. RowsAge /\ RowsKeepLinks
  BY <1>1, SameRowsAge
<1>9. user' \in {"active", "disabled", "deleted"} /\ pw' \in 1..MaxPw
  BY <1>1 DEF TypeOK
<1> QED BY <1>1, <1>3, <1>5, <1>6, <1>7, <1>8, <1>9, ArriveKeeps

LEMMA ChangePasswordKeeps ==
  ASSUME IInv, NEW w \in Worker, ChangePassword(w)
  PROVE  IInv'
<1> DEFINE j == [Rest EXCEPT !.pc = "setPassword"]
<1>1. TypeOK /\ UNCHANGED <<tok, held, user, pw>> /\ Arrive(w, j)
  BY DEF ChangePassword, IInv
<1>2. j \in Job /\ j.old = None /\ j.new = None /\ j.pc = "setPassword"
      /\ j = [Rest EXCEPT !.pc = j.pc]
  BY DEF Rest, Job, Steps
<1>3. job'[w] = j
  BY <1>1 DEF Arrive, IInv, Typed
<1> HIDE DEF j
<1>4. Remembers(job[w])' /\ Unlinked(job[w])' /\ CountsOn(job[w])'
  BY <1>2, <1>3 DEF Remembers, Unlinked, CountsOn
<1>5. RowsAge /\ RowsKeepLinks
  BY <1>1, SameRowsAge
<1>6. user' \in {"active", "disabled", "deleted"} /\ pw' \in 1..MaxPw
  BY <1>1 DEF TypeOK
<1> QED BY <1>1, <1>2, <1>4, <1>5, <1>6, ArriveKeeps

LEMMA EndingKeeps ==
  ASSUME IInv, NEW w \in Worker,
         \/ AdminResetPassword(w) \/ SoftDelete(w) \/ SetActive(w)
         \/ \E t \in held : Logout(w, t)
  PROVE  IInv'
<1>1. TypeOK /\ UNCHANGED held /\ Arrive(w, Rest)
  BY DEF IInv, AdminResetPassword, SoftDelete, SetActive, Logout
<1>2. user' \in {"active", "disabled", "deleted"} /\ pw' \in 1..MaxPw
  <2>1. user' \in {"active", "disabled", "deleted"}
    BY <1>1 DEF TypeOK, AdminResetPassword, SoftDelete, SetActive, Logout
  <2>2. pw' = pw \/ (pw < MaxPw /\ pw' = pw + 1)
    BY DEF AdminResetPassword, SoftDelete, SetActive, Logout
  <2>3. pw \in 1..MaxPw
    BY <1>1 DEF TypeOK
  <2> QED BY <2>1, <2>2, <2>3, SessionAssumption
<1>3. CASE AdminResetPassword(w)
  <2>1. tok' = Revoke(Issued)
    BY <1>3 DEF AdminResetPassword
  <2>2. RowsAge /\ RowsKeepLinks /\ \A t \in Issued : ~Live(t)'
    BY <1>1, <2>1, RevokeFacts DEF Live
  <2> QED BY <1>1, <1>2, <2>2, DoneAtOnce
<1>4. CASE SoftDelete(w)
  <2>1. tok' = Revoke(Issued) /\ pw' = pw
    BY <1>4 DEF SoftDelete
  <2>2. RowsAge /\ RowsKeepLinks
    BY <1>1, <2>1, RevokeFacts
  <2> QED BY <1>1, <1>2, <2>1, <2>2, DoneAtOnce
<1>5. CASE SetActive(w)
  <2>1. pw' = pw /\ RowsAge /\ RowsKeepLinks
    BY <1>1, <1>5, SameRowsAge DEF SetActive
  <2> QED BY <1>1, <1>2, <2>1, DoneAtOnce
<1>6. CASE \E t \in held : Logout(w, t)
  <2>1. PICK t \in held : tok' = Revoke({t}) /\ pw' = pw
    BY <1>6 DEF Logout
  <2>2. RowsAge /\ RowsKeepLinks
    BY <1>1, <2>1, RevokeFacts
  <2> QED BY <1>1, <1>2, <2>1, <2>2, DoneAtOnce
<1> QED BY <1>3, <1>4, <1>5, <1>6

\* A request under way that takes a step without a new row or link.
LEMMA GoOnKeeps ==
  ASSUME IInv, NEW w \in Worker, NEW j \in Job, Goto(w, j), job[w] # Rest,
         RowsAge, RowsKeepLinks, UNCHANGED <<held, user>>, pw' \in 1..MaxPw,
         j.old \in {None, job[w].old}, j.new \in {None, job[w].new},
         Remembers(job[w])', Unlinked(job[w])',
         ~raced /\ (\A v \in Worker \ {w} : job[v] = Rest /\ job'[v] = Rest)
           => OneOrLinking' /\ CurrentOrEnding' /\ CountsOn(job[w])'
  PROVE  IInv'
<1>1. job'[w] = j /\ \A v \in Worker \ {w} : job'[v] = job[v]
  BY DEF Goto, IInv, Typed
<1>2. Typed'
  BY DEF Goto, IInv, Typed
<1>3. TypeOK'
  <2>1. TypeOK /\ raced' = raced
    BY DEF Goto, IInv
  <2>2. \A v \in Worker : job'[v].pc \in Steps /\ job'[v].fam \in Family \cup {None}
    BY <1>2 DEF Typed, Job
  <2>3. \A v \in Worker : /\ job'[v].old \in Issued \cup {None}
                          /\ job'[v].new \in Issued \cup {None}
    BY <1>1, <2>1 DEF TypeOK
  <2>4. Issued' = Issued /\ tok' \in [Issued' -> Row]
    BY DEF RowsAge
  <2> QED BY <2>1, <2>2, <2>3, <2>4 DEF TypeOK
<1>4. Remembered'
  BY <1>1, RememberedKept
<1>5. Alone'
  BY GoesOnAlone
<1> QED BY <1>2, <1>3, <1>4, <1>5, LineagesKept DEF IInv

\* A step after which the request is done.
LEMMA DoneKeeps ==
  ASSUME IInv, NEW w \in Worker, Goto(w, Rest), job[w] # Rest,
         RowsAge, RowsKeepLinks, UNCHANGED <<held, user, pw>>,
         job[w].pc # "link", job[w].pc # "revokeAll" \/ \A t \in Issued : ~Live(t)'
  PROVE  IInv'
<1>1. job'[w] = Rest
  BY DEF Goto, IInv, Typed
<1>2. Remembers(job[w])' /\ Unlinked(job[w])' /\ CountsOn(job[w])'
  BY <1>1 DEF Rest, Remembers, Unlinked, CountsOn
<1>3. TypeOK /\ pw' \in 1..MaxPw
  BY DEF IInv, TypeOK
<1>4. ASSUME ~raced, \A v \in Worker \ {w} : job[v] = Rest /\ job'[v] = Rest
      PROVE  OneOrLinking' /\ CurrentOrEnding'
  <2>1. OneOrLinking /\ CurrentOrEnding
    BY <1>4 DEF IInv, Alone
  <2>2. \A v \in Worker : job[v].pc # "link"
    BY <1>4 DEF Rest
  <2>3. \A v \in Worker \ {w} : job[v].pc # "revokeAll"
    BY <1>4 DEF Rest
  <2>4. OneOrLinking'
    BY <1>3, <2>1, <2>2, NoRevival DEF OneOrLinking, PairLinking, RowsAge
  <2>5. CurrentOrEnding'
    BY <1>3, <2>1, <2>3, NoRevival DEF CurrentOrEnding, OldSessionsEnd, RowsAge
  <2> QED BY <2>4, <2>5
<1>5. Rest.old = None /\ Rest.new = None
  BY DEF Rest
<1> QED BY <1>2, <1>3, <1>4, <1>5, RestIsJob, GoOnKeeps

LEMMA NukeFamilyKeeps ==
  ASSUME IInv, NEW w \in Worker, NukeFamily(w)
  PROVE  IInv'
<1>1. job[w].pc = "nuke" /\ job[w] # Rest /\ Goto(w, Rest) /\ UNCHANGED <<held, user, pw>>
  BY DEF NukeFamily, Rest
<1>2. RowsAge /\ RowsKeepLinks
  BY RevokeFacts DEF NukeFamily, IInv
<1> QED BY <1>1, <1>2, DoneKeeps

LEMMA RevokeAllKeeps ==
  ASSUME IInv, NEW w \in Worker, RevokeAllForUser(w)
  PROVE  IInv'
<1>1. /\ job[w].pc = "revokeAll" /\ job[w] # Rest /\ Goto(w, Rest)
      /\ UNCHANGED <<held, user, pw>> /\ tok' = Revoke(Issued)
  BY DEF RevokeAllForUser, Rest
<1>2. RowsAge /\ RowsKeepLinks /\ \A t \in Issued : ~Live(t)'
  BY <1>1, RevokeFacts DEF IInv, Live
<1> QED BY <1>1, <1>2, DoneKeeps

LEMMA CheckUserKeeps ==
  ASSUME IInv, NEW w \in Worker, CheckUser(w)
  PROVE  IInv'
<1>1. /\ job[w].pc = "checkUser" /\ job[w] # Rest /\ UNCHANGED <<tok, held, user, pw>>
      /\ RowsAge /\ RowsKeepLinks
  BY SameRowsAge DEF CheckUser, Rest, IInv
<1>2. CASE Goto(w, Rest)
  BY <1>1, <1>2, DoneKeeps
<1>3. CASE Goto(w, [job[w] EXCEPT !.pc = "issue"])
  <2> DEFINE j == [job[w] EXCEPT !.pc = "issue"]
  <2>1. TypeOK /\ job[w] \in Job /\ Remembers(job[w])
    BY DEF IInv, Typed, Remembered
  <2>2. /\ j \in Job /\ j.pc = "issue" /\ j.old = job[w].old /\ j.new = job[w].new
        /\ j.fam = job[w].fam /\ j.login = job[w].login
    BY <2>1 DEF Job, Steps
  <2>3. job'[w] = j /\ Goto(w, j)
    BY <1>3 DEF Goto, IInv, Typed
  <2> HIDE DEF j
  <2>4. Rotates(job[w]) /\ j.new = None
    BY <1>1, <2>1, <2>2 DEF Remembers
  <2>5. j.fam \in Family
    BY <2>1, <2>2, <2>4 DEF Rotates, TypeOK, Row
  <2>6. Rotates(j) /\ Rotates(job[w])'
    BY <1>1, <2>2, <2>3, <2>4 DEF Rotates, Issued
  <2>7. Remembers(job[w])' /\ Unlinked(job[w])'
    BY <2>2, <2>3, <2>4, <2>5, <2>6 DEF Remembers, Unlinked
  <2>8. ASSUME ~raced, \A v \in Worker \ {w} : job[v] = Rest /\ job'[v] = Rest
        PROVE  OneOrLinking' /\ CurrentOrEnding' /\ CountsOn(job[w])'
    <3>1. OneOrLinking /\ CurrentOrEnding /\ CountsOn(job[w])
      BY <2>8 DEF IInv, Alone
    <3>2. \A v \in Worker : job[v].pc \notin {"link", "revokeAll"}
      BY <1>1, <2>8 DEF Rest
    <3>3. OneOrLinking'
      BY <1>1, <2>1, <3>1, <3>2, NoRevival DEF OneOrLinking, PairLinking, Issued
    <3>4. CurrentOrEnding'
      BY <1>1, <2>1, <3>1, <3>2, NoRevival DEF CurrentOrEnding, OldSessionsEnd, Issued
    <3>5. CountsOn(job[w])'
      BY <1>1, <2>1, <2>2, <2>3, <3>1 DEF CountsOn, Issued, Live
    <3> QED BY <3>3, <3>4, <3>5
  <2>9. pw' \in 1..MaxPw
    BY <1>1, <2>1 DEF TypeOK
  <2> QED BY <1>1, <2>2, <2>3, <2>7, <2>8, <2>9, GoOnKeeps
<1> QED BY <1>2, <1>3 DEF CheckUser

LEMMA SetPasswordHashKeeps ==
  ASSUME IInv, NEW w \in Worker, SetPasswordHash(w)
  PROVE  IInv'
<1> DEFINE j == [Rest EXCEPT !.pc = "revokeAll"]
<1>1. /\ job[w].pc = "setPassword" /\ job[w] # Rest /\ UNCHANGED <<tok, held, user>>
      /\ RowsAge /\ RowsKeepLinks /\ Goto(w, j) /\ TypeOK /\ pw < MaxPw /\ pw' = pw + 1
  BY SameRowsAge DEF SetPasswordHash, Rest, IInv
<1>2. j \in Job /\ j.old = None /\ j.new = None /\ j.pc = "revokeAll"
      /\ j = [Rest EXCEPT !.pc = j.pc]
  BY DEF Rest, Job, Steps
<1>3. job'[w] = j
  BY <1>1 DEF Goto, IInv, Typed
<1>4. pw' \in 1..MaxPw
  BY <1>1, SessionAssumption DEF TypeOK
<1> HIDE DEF j
<1>5. Remembers(job[w])' /\ Unlinked(job[w])' /\ CountsOn(job[w])'
  BY <1>2, <1>3 DEF Remembers, Unlinked, CountsOn
<1>6. ASSUME ~raced, \A v \in Worker \ {w} : job[v] = Rest /\ job'[v] = Rest
      PROVE  OneOrLinking' /\ CurrentOrEnding'
  <2>1. OneOrLinking
    BY <1>6 DEF IInv, Alone
  <2>2. \A v \in Worker : job[v].pc # "link"
    BY <1>1, <1>6 DEF Rest
  <2>3. OneOrLinking'
    BY <1>1, <2>1, <2>2, NoRevival DEF OneOrLinking, PairLinking, Issued
  <2>4. CurrentOrEnding'
    BY <1>2, <1>3 DEF CurrentOrEnding
  <2> QED BY <2>3, <2>4
<1> QED BY <1>1, <1>2, <1>4, <1>5, <1>6, GoOnKeeps

LEMMA LinkOldKeeps ==
  ASSUME IInv, NEW w \in Worker, LinkOld(w)
  PROVE  IInv'
<1> SUFFICES ASSUME NEW old, NEW new, old = job[w].old, new = job[w].new PROVE IInv'
  OBVIOUS
<1>1. /\ job[w].pc = "link" /\ job[w] # Rest /\ Goto(w, Rest) /\ UNCHANGED <<user, pw>>
      /\ held' = held \cup {new}
      /\ tok' = [tok EXCEPT ![old].revoked = TRUE, ![old].replaced = new]
  BY DEF LinkOld, Rest
<1>2. TypeOK /\ Typed /\ Remembers(job[w]) /\ Unlinked(job[w]) /\ LineagesSound
  BY DEF IInv, Remembered
<1>3. /\ old \in Issued /\ new \in Issued /\ new # old /\ tok[old].fam = tok[new].fam
      /\ \A t \in Issued : tok[t].replaced # new
  BY <1>1, <1>2 DEF Remembers, Rotates, Unlinked
<1>4. new \in Token
  BY <1>2, <1>3 DEF TypeOK
<1>5. \A t \in Issued : tok[t] \in Row
  BY <1>2 DEF TypeOK
<1>6. /\ Issued' = Issued
      /\ \A t \in Issued \ {old} : tok'[t] = tok[t]
      /\ tok'[old] = [tok[old] EXCEPT !.revoked = TRUE, !.replaced = new]
  BY <1>1, <1>2, <1>3 DEF TypeOK, Issued
<1>7. /\ tok'[old] \in Row /\ tok'[old].fam = tok[old].fam /\ tok'[old].login = tok[old].login
      /\ tok'[old].expired = tok[old].expired
      /\ tok'[old].revoked /\ tok'[old].replaced = new
  BY <1>3, <1>4, <1>5, <1>6 DEF Row
<1>8. tok' \in [Issued -> Row]
  BY <1>1, <1>2, <1>5, <1>6, <1>7 DEF TypeOK
<1>9. RowsAge
  BY <1>6, <1>7, <1>8 DEF RowsAge
<1>l. \A t \in Issued : /\ tok'[t].fam = tok[t].fam
                        /\ tok[t].revoked => tok'[t].revoked
                        /\ t # old => tok'[t].replaced = tok[t].replaced
  BY <1>6, <1>7
<1>10. job'[w] = Rest /\ \A v \in Worker \ {w} : job'[v] = job[v]
  BY <1>1, <1>2 DEF Goto, Typed
<1>11. Typed'
  BY <1>1, <1>2, RestIsJob DEF Goto, Typed
<1>12. TypeOK'
  <2>1. \A v \in Worker : job'[v] \in Job
    BY <1>11 DEF Typed
  <2>2. \A v \in Worker : /\ job'[v].old \in Issued \cup {None}
                          /\ job'[v].new \in Issued \cup {None}
    BY <1>2, <1>10 DEF TypeOK, Rest
  <2>3. raced' \in BOOLEAN /\ held' \subseteq Issued
    BY <1>1, <1>2, <1>3 DEF Goto, TypeOK
  <2> QED BY <1>1, <1>2, <1>6, <1>8, <2>1, <2>2, <2>3 DEF TypeOK, Job
<1>13. Numbered'
  BY <1>6 DEF IInv, Numbered
<1>14. LineagesSound'
  <2>1. ASSUME NEW t \in Issued, tok'[t].replaced # None
        PROVE  /\ tok'[t].revoked
               /\ tok'[t].replaced \in Issued /\ tok'[t].replaced # t
               /\ tok'[tok'[t].replaced].fam = tok'[t].fam
    <3>1. CASE t = old
      BY <1>3, <1>l, <1>7, <3>1
    <3>2. CASE t # old
      BY <1>2, <1>l, <2>1, <3>2 DEF LineagesSound
    <3> QED BY <3>1, <3>2
  <2>2. ASSUME NEW s \in Issued, NEW t \in Issued,
               tok'[s].replaced = tok'[t].replaced, tok'[s].replaced # None
        PROVE  s = t
    BY <1>2, <1>3, <1>7, <1>l, <2>2 DEF LineagesSound
  <2> QED BY <1>6, <2>1, <2>2 DEF LineagesSound
<1>15. Remembered'
  <2>1. ASSUME NEW v \in Worker \ {w} PROVE Remembers(job[v])' /\ Unlinked(job[v])'
    <3>1. job'[v] = job[v] /\ Remembers(job[v]) /\ Unlinked(job[v]) /\ job[v] \in Job
      BY <1>2, <1>10 DEF IInv, Remembered, Typed
    <3>2. job[v].pc = "link" => job[v].new # new /\ job[v].new # None
      BY <1>1, <1>3, <1>4, <3>1, NoneIsApart DEF IInv, Remembered, Unlinked, TypeOK
    <3>3. Rotates(job[v]) => Rotates(job[v])'
      BY <1>9, <3>1 DEF Rotates, RowsAge
    <3>4. Remembers(job[v])'
      BY <3>1, <3>3 DEF Remembers
    <3>5. Unlinked(job[v])'
      <4>1. SUFFICES ASSUME job[v].pc = "link"
                     PROVE  /\ job[v].new \in Issued' /\ job[v].new # job[v].old
                            /\ tok'[job[v].new].fam = job[v].fam
                            /\ \A t \in Issued' : tok'[t].replaced # job[v].new
        BY <3>1 DEF Unlinked
      <4>2. Issued' = Issued
        BY <1>9 DEF RowsAge
      <4>3. \A t \in Issued : tok[t].replaced # job[v].new
        BY <3>1, <4>1 DEF Unlinked
      <4>4. \A t \in Issued : tok'[t].replaced # job[v].new
        BY <1>7, <1>l, <3>2, <4>1, <4>3
      <4> QED BY <1>l, <3>1, <4>1, <4>2, <4>4 DEF Unlinked
    <3> QED BY <3>4, <3>5
  <2>2. Remembers(job[w])' /\ Unlinked(job[w])'
    BY <1>10 DEF Remembers, Unlinked, Rest
  <2>3. \A v, u \in Worker : job'[v].new = job'[u].new /\ job'[v].new # None => v = u
    BY <1>10 DEF IInv, Remembered, Rest
  <2> QED BY <2>1, <2>2, <2>3 DEF Remembered
<1>16. Alone'
  <2>1. ASSUME ~raced, \A v \in Worker \ {w} : job[v] = Rest /\ job'[v] = Rest
        PROVE  OneOrLinking' /\ CurrentOrEnding' /\ CountsOn(job[w])'
    <3>1. OneOrLinking /\ CurrentOrEnding
      BY <2>1 DEF IInv, Alone
    <3>2. \A v \in Worker : job[v].pc = "link" => v = w
      BY <2>1 DEF Rest
    <3>3. ~Live(old)'
      BY <1>7 DEF Live
    <3>4. OneOrLinking'
      BY <1>2, <1>6, <1>9, <3>1, <3>2, <3>3, NoRevival DEF OneOrLinking, PairLinking
    <3>5. OldSessionsEnd
      BY <1>1, <2>1, <3>1 DEF CurrentOrEnding, Rest
    <3>6. CurrentOrEnding'
      BY <1>1, <1>2, <1>6, <1>9, <3>5, NoRevival DEF CurrentOrEnding, OldSessionsEnd
    <3> QED BY <1>10, <3>4, <3>6 DEF CountsOn, Rest
  <2> QED BY <1>1, <2>1, GoesOnAlone
<1> QED BY <1>11, <1>12, <1>13, <1>14, <1>15, <1>16 DEF IInv

LEMMA IssueTokensKeeps ==
  ASSUME IInv, NEW w \in Worker, IssueTokens(w)
  PROVE  IInv'
<1> SUFFICES ASSUME NEW n, n = NextToken, NEW m, m = job[w] PROVE IInv'
  OBVIOUS
<1> DEFINE row == [fam |-> m.fam, revoked |-> FALSE, expired |-> FALSE,
                   replaced |-> None, login |-> m.login]
           next == IF m.old = None THEN Rest ELSE [m EXCEPT !.pc = "link", !.new = n]
<1>1. /\ m.pc = "issue" /\ job[w] # Rest /\ n \in Token /\ UNCHANGED <<user, pw, raced>>
      /\ tok' = [t \in Issued \cup {n} |-> IF t \in Issued THEN tok[t] ELSE row]
      /\ held' = IF m.old = None THEN held \cup {n} ELSE held
      /\ Goto(w, next)
  BY DEF IssueTokens, Issue, Rest, Goto
<1>2. TypeOK /\ m \in Job /\ Remembers(m) /\ LineagesSound
  BY DEF IInv, Remembered, Typed
<1>3. /\ n \in Nat /\ n \notin Issued /\ Issued \cup {n} = 1..n /\ n - 1 \in 0..MaxToken
  BY NextTokenFacts
<1>4. m.fam \in Family /\ m.login \in Nat /\ m.new = None /\ (m.old # None => Rotates(m))
  BY <1>1, <1>2 DEF Remembers, Job
<1>5. row \in Row /\ row.fam = m.fam /\ row.login = m.login /\ row.replaced = None
  BY <1>4 DEF Row
<1>6. /\ next \in Job /\ next.old \in Issued \cup {None} /\ next.new \in Issued \cup {n, None}
      /\ m.old # None => /\ next.pc = "link" /\ next.old = m.old /\ next.new = n
                         /\ next.fam = m.fam /\ next.login = m.login
      /\ m.old = None => next = Rest
  <2>1. CASE m.old = None
    BY <2>1, RestIsJob DEF Rest
  <2>2. CASE m.old # None
    <3>1. m.old \in Issued
      BY <1>4, <2>2 DEF Rotates
    <3> QED BY <1>1, <1>2, <2>2, <3>1 DEF Job, Steps
  <2> QED BY <2>1, <2>2
<1> HIDE DEF next, row
<1>7. Issued' = Issued \cup {n} /\ tok'[n] = row /\ \A t \in Issued : tok'[t] = tok[t]
  BY <1>1, <1>3 DEF Issued
<1>8. tok' \in [Issued' -> Row]
  BY <1>1, <1>2, <1>5, <1>7 DEF TypeOK
<1>9. job'[w] = next /\ \A v \in Worker \ {w} : job'[v] = job[v]
  BY <1>1 DEF Goto, IInv, Typed
<1>10. Typed'
  BY <1>1, <1>6 DEF Goto, IInv, Typed
<1>11. TypeOK'
  <2>1. \A v \in Worker : job'[v].pc \in Steps /\ job'[v].fam \in Family \cup {None}
    BY <1>10 DEF Typed, Job
  <2>2. \A v \in Worker : /\ job'[v].old \in Issued' \cup {None}
                          /\ job'[v].new \in Issued' \cup {None}
    BY <1>2, <1>6, <1>7, <1>9 DEF TypeOK
  <2>3. held' \subseteq Issued' /\ Issued' \subseteq Token
    BY <1>1, <1>2, <1>7 DEF TypeOK
  <2> QED BY <1>1, <1>2, <1>8, <2>1, <2>2, <2>3 DEF TypeOK
<1>12. Numbered'
  <2>1. n \in 0..MaxToken
    BY <1>1, <1>3, SessionAssumption DEF Token
  <2> QED BY <1>3, <1>7, <2>1 DEF Numbered
<1>13. None \notin Issued' /\ \A t \in Issued : tok[t].replaced # n
  BY <1>1, <1>2, <1>3, <1>7, NoneIsApart DEF LineagesSound, TypeOK
<1>14. LineagesSound'
  BY <1>2, <1>5, <1>7, <1>13 DEF LineagesSound
<1>15. Remembered'
  <2>1. ASSUME NEW v \in Worker \ {w} PROVE Remembers(job[v])' /\ Unlinked(job[v])'
    <3>1. job'[v] = job[v] /\ Remembers(job[v]) /\ Unlinked(job[v])
      BY <1>9 DEF IInv, Remembered
    <3>2. Rotates(job[v]) => Rotates(job[v])'
      BY <1>7, <3>1 DEF Rotates
    <3>3. job[v].new # None => job[v].new \in Issued
      BY <1>2 DEF TypeOK
    <3>4. Remembers(job[v])'
      BY <3>1, <3>2 DEF Remembers
    <3>5. Unlinked(job[v])'
      <4>1. SUFFICES ASSUME job[v].pc = "link"
                     PROVE  /\ job[v].new \in Issued' /\ job[v].new # job[v].old
                            /\ tok'[job[v].new].fam = job[v].fam
                            /\ \A t \in Issued' : tok'[t].replaced # job[v].new
        BY <3>1 DEF Unlinked
      <4>2. /\ job[v].new \in Issued /\ job[v].new # job[v].old
            /\ tok[job[v].new].fam = job[v].fam
            /\ \A t \in Issued : tok[t].replaced # job[v].new
        BY <3>1, <4>1 DEF Unlinked
      <4> QED BY <1>5, <1>7, <1>13, <4>2
    <3> QED BY <3>4, <3>5
  <2>2. Remembers(job[w])' /\ Unlinked(job[w])'
    <3>1. CASE m.old = None
      BY <1>6, <1>9, <3>1 DEF Remembers, Unlinked, Rest
    <3>2. CASE m.old # None
      <4>1. Rotates(m)
        BY <1>4, <3>2
      <4>2. Rotates(job[w])'
        BY <1>6, <1>7, <1>9, <3>2, <4>1 DEF Rotates
      <4>3. Remembers(job[w])'
        BY <1>6, <1>9, <3>2, <4>2 DEF Remembers
      <4>4. n \in Issued' /\ n # m.old /\ tok'[n].fam = m.fam
            /\ \A t \in Issued' : tok'[t].replaced # n
        BY <1>3, <1>5, <1>7, <1>13, <4>1 DEF Rotates
      <4>5. Unlinked(job[w])'
        BY <1>6, <1>9, <3>2, <4>4 DEF Unlinked
      <4> QED BY <4>3, <4>5
    <3> QED BY <3>1, <3>2
  <2>3. \A v \in Worker \ {w} : job'[v].new # n
    BY <1>2, <1>3, <1>7, <1>9, <1>13 DEF TypeOK
  <2>4. job'[w].new \in {None, n}
    BY <1>6, <1>9 DEF Rest
  <2>5. \A v, u \in Worker \ {w} : job'[v].new = job'[u].new /\ job'[v].new # None => v = u
    BY <1>9 DEF IInv, Remembered
  <2>6. \A v, u \in Worker : job'[v].new = job'[u].new /\ job'[v].new # None => v = u
    BY <2>3, <2>4, <2>5
  <2> QED BY <2>1, <2>2, <2>6 DEF Remembered
<1>16. Alone'
  <2>1. ASSUME ~raced, \A v \in Worker \ {w} : job[v] = Rest /\ job'[v] = Rest
        PROVE  OneOrLinking' /\ CurrentOrEnding' /\ CountsOn(job[w])'
    <3>1. OneOrLinking /\ CurrentOrEnding /\ CountsOn(m)
      BY <2>1 DEF IInv, Alone
    <3>2. \A v \in Worker : job[v].pc \notin {"link", "revokeAll"}
      BY <1>1, <2>1 DEF Rest
    <3>3. ASSUME NEW t \in Issued, Live(t), tok[t].fam = m.fam
          PROVE  t = m.old /\ PairLinking(t, n)'
      <4>1. t = m.old
        BY <1>1, <3>1, <3>3 DEF CountsOn
      <4>2. m.old # None
        BY <1>7, <1>13, <4>1
      <4> QED BY <1>6, <1>9, <4>1, <4>2 DEF PairLinking
    <3>4. \A t \in Issued : Live(t)' => Live(t) /\ tok'[t].fam = tok[t].fam
                                       /\ tok'[t].login = tok[t].login
      BY <1>7 DEF Live
    <3>5. \A s, t \in Issued : Live(s) /\ Live(t) /\ tok[s].fam = tok[t].fam => s = t
      BY <3>1, <3>2 DEF OneOrLinking, PairLinking
    <3>6. OneOrLinking'
      <4>1. ASSUME NEW s \in Issued', NEW t \in Issued', Live(s)', Live(t)',
                   tok'[s].fam = tok'[t].fam
            PROVE  s = t \/ PairLinking(s, t)' \/ PairLinking(t, s)'
        <5>1. CASE s \in Issued /\ t \in Issued
          BY <3>4, <3>5, <4>1, <5>1
        <5>2. CASE s = n /\ t \in Issued
          BY <1>5, <1>7, <3>3, <3>4, <4>1, <5>2
        <5>3. CASE s \in Issued /\ t = n
          BY <1>5, <1>7, <3>3, <3>4, <4>1, <5>3
        <5> QED BY <1>7, <5>1, <5>2, <5>3
      <4> QED BY <4>1 DEF OneOrLinking
    <3>7. OldSessionsEnd /\ m.login = pw
      BY <1>1, <3>1, <3>2 DEF CurrentOrEnding, CountsOn
    <3>8. CurrentOrEnding'
      BY <1>1, <1>5, <1>7, <3>4, <3>7 DEF CurrentOrEnding, OldSessionsEnd
    <3>9. CountsOn(job[w])'
      BY <1>1, <1>5, <1>6, <1>7, <1>9, <3>7 DEF CountsOn, Rest
    <3> QED BY <3>6, <3>8, <3>9
  <2> QED BY <1>1, <2>1, GoesOnAlone
<1> QED BY <1>10, <1>11, <1>12, <1>14, <1>15, <1>16 DEF IInv

LEMMA CrashKeeps ==
  ASSUME IInv, NEW w \in Worker, Crash(w)
  PROVE  IInv'
<1>1. TypeOK /\ UNCHANGED <<tok, held, user, pw>> /\ raced' = TRUE
      /\ job' = [job EXCEPT ![w] = Rest] /\ RowsAge /\ RowsKeepLinks
  BY SameRowsAge DEF Crash, IInv
<1>2. Typed' /\ job'[w] = Rest /\ \A v \in Worker \ {w} : job'[v] = job[v]
  BY <1>1, RestIsJob DEF IInv, Typed
<1>3. TypeOK'
  <2>1. \A v \in Worker : job'[v].pc \in Steps /\ job'[v].fam \in Family \cup {None}
    BY <1>2 DEF Typed, Job
  <2>2. \A v \in Worker : /\ job'[v].old \in Issued \cup {None}
                          /\ job'[v].new \in Issued \cup {None}
    BY <1>1, <1>2 DEF TypeOK, Rest
  <2> QED BY <1>1, <2>1, <2>2 DEF TypeOK, Issued
<1>4. Remembers(job[w])' /\ Unlinked(job[w])' /\ job'[w].new = None
  BY <1>2 DEF Rest, Remembers, Unlinked
<1>5. Remembered' /\ Numbered' /\ LineagesSound'
  BY <1>1, <1>2, <1>4, RememberedKept, LineagesKept
<1> QED BY <1>1, <1>2, <1>3, <1>5 DEF IInv, Alone

LEMMA ExpireKeeps ==
  ASSUME IInv, NEW t \in Issued, Expire(t)
  PROVE  IInv'
<1>1. TypeOK /\ UNCHANGED <<held, user, pw, job, raced>> /\ tok[t] \in Row
      /\ tok' = [tok EXCEPT ![t].expired = TRUE]
  BY DEF Expire, IInv, TypeOK
<1>2. Issued' = Issued /\ \A s \in Issued \ {t} : tok'[s] = tok[s]
  BY <1>1 DEF TypeOK, Issued
<1>3. tok'[t] \in Row /\ tok'[t].fam = tok[t].fam /\ tok'[t].login = tok[t].login
      /\ tok'[t].revoked = tok[t].revoked /\ tok'[t].replaced = tok[t].replaced
      /\ tok'[t].expired
  BY <1>1 DEF Row, TypeOK
<1>4. tok' \in [Issued -> Row]
  BY <1>1, <1>2, <1>3 DEF TypeOK
<1>5. RowsAge /\ RowsKeepLinks
  BY <1>2, <1>3, <1>4 DEF RowsAge, RowsKeepLinks
<1>6. TypeOK' /\ Typed'
  BY <1>1, <1>2, <1>4 DEF IInv, TypeOK, Typed
<1>7. Remembered'
  <2>1. ASSUME NEW v \in Worker PROVE Remembers(job[v])' /\ Unlinked(job[v])'
    <3>1. job'[v] = job[v] /\ Remembers(job[v]) /\ Unlinked(job[v])
      BY <1>1 DEF IInv, Remembered
    <3> QED BY <1>5, <3>1 DEF Remembers, Unlinked, Rotates, RowsAge, RowsKeepLinks
  <2> QED BY <1>1, <2>1 DEF IInv, Remembered
<1>8. Alone'
  <2> SUFFICES ASSUME ~raced' PROVE OneAtATime' /\ OneOrLinking' /\ CurrentOrEnding'
                                    /\ \A v \in Worker : CountsOn(job[v])'
    BY DEF Alone
  <2>1. OneAtATime /\ OneOrLinking /\ CurrentOrEnding /\ \A v \in Worker : CountsOn(job[v])
    BY <1>1 DEF IInv, Alone
  <2>2. OneAtATime'
    BY <1>1, <2>1 DEF OneAtATime
  <2>3. OneOrLinking'
    BY <1>1, <1>2, <1>5, <2>1, NoRevival DEF OneOrLinking, PairLinking
  <2>4. CurrentOrEnding'
    BY <1>1, <1>2, <1>5, <2>1, NoRevival DEF CurrentOrEnding, OldSessionsEnd
  <2>5. ASSUME NEW v \in Worker PROVE CountsOn(job[v])'
    <3>1. job'[v] = job[v] /\ Unlinked(job[v]) /\ CountsOn(job[v])
      BY <1>1, <2>1 DEF IInv, Remembered
    <3> QED BY <1>1, <1>2, <1>5, <3>1, NoRevival DEF CountsOn, Unlinked, RowsAge
  <2> QED BY <2>2, <2>3, <2>4, <2>5
<1> QED BY <1>5, <1>6, <1>7, <1>8, LineagesKept DEF IInv

LEMMA StutterKeeps ==
  ASSUME IInv, UNCHANGED vars
  PROVE  IInv'
<1>1. Issued' = Issued /\ \A t : Live(t)' = Live(t)
  BY DEF vars, Issued, Live
<1>2. TypeOK' /\ Typed' /\ Numbered' /\ LineagesSound'
  BY <1>1 DEF IInv, vars, TypeOK, Typed, Numbered, LineagesSound
<1>3. Remembered'
  BY <1>1 DEF IInv, vars, Remembered, Remembers, Unlinked, Rotates
<1>4. Alone'
  BY <1>1 DEF IInv, vars, Alone, OneAtATime, OneOrLinking, PairLinking, CurrentOrEnding,
              OldSessionsEnd, CountsOn
<1> QED BY <1>2, <1>3, <1>4 DEF IInv

LEMMA NextKeeps == IInv /\ [Next]_vars => IInv'
<1> SUFFICES ASSUME IInv, [Next]_vars PROVE IInv'
  OBVIOUS
<1>1. ASSUME NEW w \in Worker, Request(w) PROVE IInv'
  BY <1>1, LoginKeeps, ChangePasswordKeeps, EndingKeeps, ReadTokenKeeps DEF Request
<1>2. ASSUME NEW w \in Worker, Serve(w) PROVE IInv'
  BY <1>2, IssueTokensKeeps, NukeFamilyKeeps, CheckUserKeeps, LinkOldKeeps,
     SetPasswordHashKeeps, RevokeAllKeeps DEF Serve
<1>3. ASSUME NEW w \in Worker, Crash(w) PROVE IInv'
  BY <1>3, CrashKeeps
<1>4. ASSUME NEW t \in Issued, Expire(t) PROVE IInv'
  BY <1>4, ExpireKeeps
<1>5. CASE UNCHANGED vars
  BY <1>5, StutterKeeps
<1> QED BY <1>1, <1>2, <1>3, <1>4, <1>5 DEF Next

LEMMA Invariance == Spec => []IInv
<1> QED BY InitIInv, NextKeeps, PTL DEF Spec

-----------------------------------------------------------------------------
(* The theorems.                                                           *)

\* Whatever requests overlap or are cut off, the rows are well formed and the
\* replaced_by links are lineages within one session.
THEOREM TokensAreSound == Spec => []TokensSound
<1>1. IInv => TokensSound
  BY DEF IInv, TokensSound
<1> QED BY <1>1, Invariance, PTL

\* If the requests came one at a time and none was cut off, then between two of
\* them a session has one usable token at most, and none of an old password.
THEOREM SessionsAreSound == Spec => []SessionsSound
<1>1. IInv => SessionsSound
  <2> SUFFICES ASSUME IInv, Quiet, ~raced PROVE OneLiveToken /\ OldSessionsEnd
    BY DEF SessionsSound
  <2>1. OneOrLinking /\ CurrentOrEnding
    BY DEF IInv, Alone
  <2>2. \A w \in Worker : job[w].pc = "idle"
    BY DEF Quiet, Rest
  <2> QED BY <2>1, <2>2 DEF OneOrLinking, PairLinking, CurrentOrEnding, OneLiveToken
<1> QED BY <1>1, Invariance, PTL

-----------------------------------------------------------------------------
(* A session that is over stays over.                                      *)

\* Whoever is about to issue a token or may get there.
Rotating(f) == \E w \in Worker : job[w].fam = f /\ job[w].pc \in {"checkUser", "issue"}

LEMMA OverWithoutIssue ==
  ASSUME IInv, RowsAge, NEW f \in Family, Over(f), ~Rotating(f)'
  PROVE  Over(f)'
<1>1. Issued' = Issued
  BY DEF RowsAge
<1>2. \E t \in Issued' : tok'[t].fam = f
  BY <1>1 DEF Over, RowsAge
<1>3. \A t \in Issued' : tok'[t].fam = f => ~Live(t)'
  BY <1>1, NoRevival DEF Over, IInv
<1> QED BY <1>2, <1>3 DEF Over, Rotating

LEMMA OverKept ==
  ASSUME IInv, Next, NEW f \in Family, Over(f)
  PROVE  Over(f)'
<1>1. TypeOK /\ ~Rotating(f) /\ f # None
  BY NoneIsApart DEF IInv, Over, Rotating
<1>2. ASSUME NEW w \in Worker, NEW j, job' = [job EXCEPT ![w] = j], RowsAge,
             j.fam = f => j.pc \notin {"checkUser", "issue"}
      PROVE  Over(f)'
  <2>1. ~Rotating(f)'
    BY <1>1, <1>2 DEF Rotating, IInv, Typed
  <2> QED BY <1>2, <2>1, OverWithoutIssue
<1>3. ASSUME NEW w \in Worker, Login(w) PROVE Over(f)'
  <2>1. PICK g \in Family : /\ NewFamily(g)
                            /\ Arrive(w, [Rest EXCEPT !.pc = "issue", !.fam = g, !.login = pw])
    BY <1>3 DEF Login
  <2>2. g # f
    BY <2>1 DEF NewFamily, Opened, Over
  <2>3. [Rest EXCEPT !.pc = "issue", !.fam = g, !.login = pw].fam # f
    BY <2>2 DEF Rest
  <2>4. RowsAge
    BY <1>1, <1>3, SameRowsAge DEF Login
  <2> QED BY <1>2, <2>1, <2>3, <2>4 DEF Arrive
<1>4. ASSUME NEW w \in Worker, NEW t \in held, ReadToken(w, t) PROVE Over(f)'
  <2>1. PICK pc \in {"nuke", "checkUser"} : /\ Arrive(w, Found(t, pc))
                                            /\ pc = "checkUser" => Live(t)
    BY <1>4 DEF ReadToken
  <2>2. Found(t, pc).pc = pc /\ Found(t, pc).fam = tok[t].fam
    BY DEF Found, Rest
  <2>3. t \in Issued /\ RowsAge
    BY <1>1, <1>4, SameRowsAge DEF ReadToken, TypeOK
  <2> QED BY <1>2, <2>1, <2>2, <2>3 DEF Arrive, Over
<1>5. ASSUME NEW w \in Worker, ChangePassword(w) PROVE Over(f)'
  <2>1. [Rest EXCEPT !.pc = "setPassword"].pc = "setPassword" /\ RowsAge
    BY <1>1, <1>5, SameRowsAge DEF Rest, ChangePassword
  <2> QED BY <1>2, <1>5, <2>1 DEF ChangePassword, Arrive
<1>6. ASSUME NEW w \in Worker, job' = [job EXCEPT ![w] = Rest], RowsAge PROVE Over(f)'
  BY <1>2, <1>6 DEF Rest
<1>7. ASSUME NEW w \in Worker, \/ AdminResetPassword(w) \/ SoftDelete(w) \/ SetActive(w)
                               \/ \E t \in held : Logout(w, t)
      PROVE  Over(f)'
  <2>1. Arrive(w, Rest)
    BY <1>7 DEF AdminResetPassword, SoftDelete, SetActive, Logout
  <2>2. (\E S : tok' = Revoke(S)) \/ UNCHANGED tok
    BY <1>7 DEF AdminResetPassword, SoftDelete, SetActive, Logout
  <2>3. RowsAge
    BY <1>1, <2>2, RevokeFacts, SameRowsAge
  <2> QED BY <1>6, <2>1, <2>3 DEF Arrive
<1>8. ASSUME NEW w \in Worker, IssueTokens(w) PROVE Over(f)'
  <2> SUFFICES ASSUME NEW n, n = NextToken, NEW m, m = job[w] PROVE Over(f)'
    OBVIOUS
  <2>1. /\ m.pc = "issue" /\ m.fam # f
        /\ n \notin Issued
        /\ Issued' = Issued \cup {n} /\ tok'[n].fam = m.fam /\ \A t \in Issued : tok'[t] = tok[t]
    BY <1>1, <1>8, NextTokenFacts DEF IssueTokens, Issue, Rotating, Issued
  <2>2. PICK j : Goto(w, j) /\ (j = Rest \/ j = [m EXCEPT !.pc = "link", !.new = n])
    BY <1>8 DEF IssueTokens, Issue
  <2>3. m \in Job
    BY DEF IInv, Typed
  <2>4. j.pc \in {"idle", "link"}
    <3>1. [m EXCEPT !.pc = "link", !.new = n].pc = "link"
      BY <2>3 DEF Job
    <3>2. Rest.pc = "idle"
      BY DEF Rest
    <3> QED BY <2>2, <3>1, <3>2, Zenon
  <2>5. ~Rotating(f)'
    BY <1>1, <2>2, <2>4 DEF Rotating, Goto, IInv, Typed
  <2>6. \A t \in Issued : Live(t)' = Live(t)
    BY <2>1 DEF Live
  <2> QED BY <2>1, <2>5, <2>6 DEF Over, Rotating
<1>9. ASSUME NEW w \in Worker, NukeFamily(w) \/ RevokeAllForUser(w) PROVE Over(f)'
  <2>1. Goto(w, Rest) /\ \E S : tok' = Revoke(S)
    BY <1>9 DEF NukeFamily, RevokeAllForUser
  <2> QED BY <1>1, <1>6, <2>1, RevokeFacts DEF Goto
<1>10. ASSUME NEW w \in Worker, CheckUser(w) PROVE Over(f)'
  <2>1. job[w].pc = "checkUser" /\ job[w].fam # f /\ RowsAge
    BY <1>1, <1>10, SameRowsAge DEF CheckUser, Rotating
  <2>2. CASE Goto(w, Rest)
    BY <1>6, <2>1, <2>2 DEF Goto
  <2>3. CASE Goto(w, [job[w] EXCEPT !.pc = "issue"])
    <3>1. [job[w] EXCEPT !.pc = "issue"].fam # f
      BY <2>1 DEF IInv, Typed, Job
    <3> QED BY <1>2, <2>1, <2>3, <3>1 DEF Goto
  <2> QED BY <1>10, <2>2, <2>3 DEF CheckUser
<1>11. ASSUME NEW w \in Worker, LinkOld(w) PROVE Over(f)'
  <2>1. job[w].pc = "link" /\ job[w].old \in Issued /\ Goto(w, Rest)
    BY <1>11 DEF LinkOld, IInv, Remembered, Remembers, Rotates
  <2>2. Issued' = Issued /\ \A t \in Issued : /\ tok'[t].fam = tok[t].fam
                                              /\ tok[t].revoked => tok'[t].revoked
                                              /\ tok'[t].expired = tok[t].expired
    BY <1>1, <1>11, <2>1 DEF LinkOld, TypeOK, Row, Issued
  <2>3. \A t \in Issued : Live(t)' => Live(t)
    BY <2>2 DEF Live
  <2>4. ~Rotating(f)'
    BY <1>1, <2>1 DEF Rotating, Goto, IInv, Typed, Rest
  <2> QED BY <2>2, <2>3, <2>4 DEF Over, Rotating
<1>12. ASSUME NEW w \in Worker, SetPasswordHash(w) PROVE Over(f)'
  <2>1. [Rest EXCEPT !.pc = "revokeAll"].pc = "revokeAll" /\ RowsAge
    BY <1>1, <1>12, SameRowsAge DEF Rest, SetPasswordHash
  <2> QED BY <1>2, <1>12, <2>1 DEF SetPasswordHash, Goto
<1>13. ASSUME NEW w \in Worker, Crash(w) PROVE Over(f)'
  BY <1>1, <1>6, <1>13, SameRowsAge DEF Crash
<1>14. ASSUME NEW t \in Issued, Expire(t) PROVE Over(f)'
  <2>1. Issued' = Issued /\ \A s \in Issued : /\ tok'[s].fam = tok[s].fam
                                              /\ tok'[s].revoked = tok[s].revoked
                                              /\ tok[s].expired => tok'[s].expired
    BY <1>1, <1>14 DEF Expire, TypeOK, Row, Issued
  <2>2. \A s \in Issued : Live(s)' => Live(s)
    BY <2>1 DEF Live
  <2> QED BY <1>14, <2>1, <2>2 DEF Over, Expire
<1> QED BY <1>3, <1>4, <1>5, <1>7, <1>8, <1>9, <1>10, <1>11, <1>12, <1>13, <1>14
        DEF Next, Request, Serve

LEMMA OverUnchanged ==
  ASSUME UNCHANGED vars, NEW f \in Family, Over(f)
  PROVE  Over(f)'
BY DEF vars, Over, Live, Issued

\* No old token, retry or late answer brings a session back that is over.
THEOREM DeadSessionsStayDead == Spec => DeadStaysDead
<1> DEFINE Dead == \A f \in Family : Over(f) => Over(f)'
<1>1. IInv /\ [Next]_vars => [Dead]_vars
  BY OverKept, OverUnchanged
<1> QED BY <1>1, Invariance, PTL DEF Spec, DeadStaysDead

=============================================================================

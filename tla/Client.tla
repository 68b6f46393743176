------------------------------- MODULE Client -------------------------------
(***************************************************************************)
(* One user in one browser tab: the session store, the axios client with   *)
(* its silent refresh, and the router with its guard, against a server     *)
(* that holds the user's role and grants and one session.  Sessions has    *)
(* the server's side of a rotation in full; here a rotation is one step,   *)
(* and a refresh token is `current` or an `old` one that was rotated away. *)
(* Bound: the user clicks, saves, logs out and reloads when the page has   *)
(* come to rest, while calls and refreshes may still be under way.         *)
(***************************************************************************)
EXTENDS Access, FiniteSets

CONSTANTS
  Call,      \* calls to the API under way at the same time (bound)
  Profile,   \* the pairs of a role and grants that the user is given (bound)
  Visited,   \* the screens the user goes to from the sidebar or by address (bound)
  Watched,   \* permissions whose removal is followed
  Null

Page == "page"
ASSUME ClientAssumption ==
  /\ Page \notin Call /\ Visited \subseteq DOMAIN Routes
  /\ Profile # {} /\ \A w \in Profile : w.role \in DOMAIN RolePermissions
  /\ Null \notin Call \cup Profile

VARIABLES
  who,      \* the user's role and grants
  alive,    \* whether the session's current refresh token is usable
  jar,      \* the refresh cookie
  access,   \* the access token in memory: whose permissions it carries (of)
  me,       \* auth.user, as /auth/me answered, or Null
  page,     \* "start" until restore is called, "boot" until it ends, then "up"
  at,       \* the screen that is shown
  going,    \* the target of the navigation under way
  calls,    \* the calls to the API
  flight,   \* refreshes: of each call that started one, and of the page
  fetch,    \* what a call of fetchMe under way is for
  leaving,  \* a logout is under way
  lost,     \* history: the answer to a refresh was lost in this session
  out       \* history: "clean" after a logout that met no refresh

server  == <<who, alive>>
shown   == <<me, page, at, going>>
tabVars   == <<who, alive, jar, access, me, page, at, going, calls, flight, fetch, leaving,
            lost, out>>

\* A copy of the permissions is kept as the role and grants it was made from.
Perms(w)  == EffectivePermissions(w.role, w.grants)
MyPerms   == Perms(me)

NoCall   == [pc |-> "idle", good |-> FALSE, retry |-> FALSE, by |-> Null]
NoFlight == [st |-> "none", jar |-> "none", of |-> Null]
Sent(j)  == [NoFlight EXCEPT !.st = "sent", !.jar = j]

Flying == {f \in Call \cup {Page} : flight[f].st # "none"}

TabInit ==
  /\ who \in Profile /\ alive = FALSE /\ jar = "none" /\ access = Null
  /\ me = Null /\ page = "start" /\ at = "blank" /\ going = "workspace"
  /\ calls = [c \in Call |-> NoCall]
  /\ flight = [f \in Call \cup {Page} |-> NoFlight]
  /\ fetch = "none" /\ leaving = FALSE
  /\ lost = FALSE /\ out = "no"

-----------------------------------------------------------------------------
(* The server.                                                             *)

\* An administrator changes the user's role or grants.
ChangeGrants ==
  /\ who' \in Profile \ {who}
  /\ UNCHANGED <<alive, jar, access, shown, calls, flight, fetch, leaving, lost, out>>

\* The refresh token expires, or the session is ended by an administrator.
EndSession ==
  /\ alive /\ alive' = FALSE
  /\ UNCHANGED <<who, jar, access, shown, calls, flight, fetch, leaving, lost, out>>

\* The access token expires, also for the calls that carry it; for a second
\* try that makes no difference.
AccessExpires ==
  /\ access # Null /\ access.good
  /\ access' = [access EXCEPT !.good = FALSE]
  /\ calls' = [c \in Call |-> [calls[c] EXCEPT !.good = @ /\ calls[c].retry]]
  /\ UNCHANGED <<server, jar, shown, flight, fetch, leaving, lost, out>>

Aged(j) == IF j = "current" THEN "old" ELSE j

\* Faulty: the new access token carries the permissions of the last one.
IssuedForLast == IF access = Null THEN who ELSE access.of

\* The permissions that issueTokens writes into the access token.
IssuedFor == who

\* rotateRefresh.  A token that was rotated away ends the session.
Rotate(f) ==
  /\ flight[f].st = "sent"
  /\ IF alive /\ flight[f].jar = "current"
     THEN /\ flight' = [g \in Call \cup {Page} |->
               IF g = f THEN [st |-> "ok", jar |-> "current", of |-> IssuedFor]
               ELSE [flight[g] EXCEPT !.jar = Aged(@)]]
          /\ jar' = Aged(jar) /\ UNCHANGED alive
     ELSE /\ flight' = [flight EXCEPT ![f] = [NoFlight EXCEPT !.st = "no"]]
          /\ alive' = (alive /\ flight[f].jar # "old")
          /\ UNCHANGED jar
  /\ UNCHANGED <<who, access, shown, calls, fetch, leaving, lost, out>>

\* The request or its answer is lost, or the server fails.
Lose(f) ==
  /\ flight[f].st \in {"sent", "ok"}
  /\ flight' = [flight EXCEPT ![f] = [NoFlight EXCEPT !.st = "no"]]
  /\ lost' = TRUE
  /\ UNCHANGED <<server, jar, access, shown, calls, fetch, leaving, out>>

-----------------------------------------------------------------------------
(* The client of the API.                                                  *)

\* The request interceptor puts the access token into the header.
StartCall(c) ==
  /\ calls[c] = NoCall /\ me # Null /\ at \in DOMAIN Routes
  /\ calls' = [calls EXCEPT ![c] = [NoCall EXCEPT !.pc = "sent",
                                    !.good = access # Null /\ access.good]]
  /\ UNCHANGED <<server, jar, access, shown, flight, fetch, leaving, lost, out>>

\* Any answer but 401, or a 401 to the second try.
Settle(c) ==
  /\ calls[c].pc = "sent" /\ (calls[c].good \/ calls[c].retry)
  /\ calls' = [calls EXCEPT ![c] = NoCall]
  /\ UNCHANGED <<server, jar, access, shown, flight, fetch, leaving, lost, out>>

\* Faulty: every call refreshes for itself.
OwnRefresh(c) == c

\* The refresh that a call waits for: the one under way, or else its own.
Refreshing(c) == IF Flying \cap Call = {} THEN c ELSE CHOOSE f \in Flying \cap Call : TRUE

\* Faulty: the second try does not know that it is one.
Forgetful(f) == [NoCall EXCEPT !.pc = "wait", !.by = f]

\* A call that will be tried once more, after the refresh f.
SecondTry(f) == [NoCall EXCEPT !.pc = "wait", !.retry = TRUE, !.by = f]

\* A 401 to the first try: the token is invalid, or the handler itself
\* answers 401, as for a wrong password or code.
Unauthorized(c) ==
  /\ calls[c].pc = "sent" /\ ~calls[c].retry
  /\ LET f == Refreshing(c) IN
       /\ calls' = [calls EXCEPT ![c] = SecondTry(f)]
       /\ flight' = IF f \in Flying THEN flight ELSE [flight EXCEPT ![f] = Sent(jar)]
       /\ out' = IF f \notin Flying /\ out = "pending" THEN "no" ELSE out
  /\ UNCHANGED <<server, jar, access, shown, fetch, leaving, lost>>

Waiting(f) == {c \in Call : calls[c].pc = "wait" /\ calls[c].by = f}

Refreshed(f) ==
  /\ f \in Call /\ flight[f].st = "ok"
  /\ jar' = flight[f].jar /\ access' = [of |-> flight[f].of, good |-> TRUE]
  /\ calls' = [c \in Call |-> IF c \in Waiting(f)
                              THEN [calls[c] EXCEPT !.pc = "sent", !.good = TRUE, !.by = Null]
                              ELSE calls[c]]
  /\ flight' = [flight EXCEPT ![f] = NoFlight]
  /\ UNCHANGED <<server, shown, fetch, leaving, lost, out>>

\* onUnauthorized: the session is dropped and the login screen opened.
Bounce == me' = Null /\ going' = (IF at = "login" THEN going ELSE "login") /\ UNCHANGED <<page, at>>

\* Faulty: only the call that started the refresh is told of its failure.
RejectFirst(f) ==
  /\ f \in Call /\ flight[f].st = "no"
  /\ calls' = [calls EXCEPT ![f] = NoCall]
  /\ flight' = [flight EXCEPT ![f] = NoFlight]
  /\ Bounce
  /\ UNCHANGED <<server, jar, access, fetch, leaving, lost, out>>

RefreshFailed(f) ==
  /\ f \in Call /\ flight[f].st = "no"
  /\ calls' = [c \in Call |-> IF c \in Waiting(f) THEN NoCall ELSE calls[c]]
  /\ flight' = [flight EXCEPT ![f] = NoFlight]
  /\ Bounce
  /\ UNCHANGED <<server, jar, access, fetch, leaving, lost, out>>

-----------------------------------------------------------------------------
(* The session store.                                                      *)

\* restore: the refresh of the page, then fetchMe.
RestoreSession ==
  /\ page = "start" /\ page' = "boot"
  /\ flight' = [flight EXCEPT ![Page] = Sent(jar)]
  /\ UNCHANGED <<server, jar, access, me, at, going, calls, fetch, leaving, lost, out>>

Restored ==
  /\ flight[Page].st \in {"ok", "no"}
  /\ flight' = [flight EXCEPT ![Page] = NoFlight]
  /\ IF flight[Page].st = "ok"
     THEN /\ jar' = flight[Page].jar
          /\ access' = [of |-> flight[Page].of, good |-> TRUE]
          /\ fetch' = "restore" /\ UNCHANGED page
     ELSE page' = "up" /\ UNCHANGED <<jar, access, fetch>>
  /\ UNCHANGED <<server, me, at, going, calls, leaving, lost, out>>

\* login: a new session.  Bound: not while a refresh of an earlier session is
\* under way, whose answer would put the earlier token into the jar.
Login ==
  /\ at = "login" /\ going = Null /\ me = Null /\ fetch = "none" /\ page = "up"
  /\ Flying = {}
  /\ alive' = TRUE /\ jar' = "current" /\ lost' = FALSE /\ out' = "no"
  /\ access' = [of |-> IssuedFor, good |-> TRUE]
  /\ fetch' = "login"
  /\ UNCHANGED <<who, shown, calls, flight, leaving>>

\* fetchMe answers, or fails; the login goes on to the start page.  Bound: it
\* meets no 401.  One that does goes through the response interceptor, which joins
\* or starts a refresh and may end the session of the page, as Unauthorized and
\* RefreshFailed do for the calls of the screens.
FetchMe ==
  /\ fetch # "none" /\ fetch' = "none"
  /\ \/ me' = who
     \/ me' = IF fetch = "restore" THEN Null ELSE me
  /\ page' = IF fetch = "restore" THEN "up" ELSE page
  /\ going' = IF fetch = "login" /\ me' # Null THEN "workspace" ELSE going
  /\ UNCHANGED <<server, jar, access, at, calls, flight, leaving, lost, out>>

\* updateProfile and disableMfa fetch the user again.
SaveProfile ==
  /\ at = "profile" /\ me # Null /\ going = Null /\ fetch = "none" /\ fetch' = "profile"
  /\ UNCHANGED <<server, jar, access, shown, calls, flight, leaving, lost, out>>

\* Faulty: the server is told and does not revoke the token.
LogoutClientOnly ==
  /\ me # Null /\ at \in DOMAIN Routes /\ going = Null /\ ~leaving /\ leaving' = TRUE
  /\ out' = (IF Flying = {} /\ jar = "current" /\ ~lost THEN "pending" ELSE "no")
  /\ UNCHANGED <<server, jar, access, shown, calls, flight, fetch, lost>>

\* logout: the server revokes the token it is sent.
Logout ==
  /\ me # Null /\ at \in DOMAIN Routes /\ going = Null /\ ~leaving /\ leaving' = TRUE
  /\ alive' = (alive /\ jar # "current")
  /\ out' = (IF Flying = {} /\ jar = "current" /\ ~lost THEN "pending" ELSE "no")
  /\ UNCHANGED <<who, jar, access, shown, calls, flight, fetch, lost>>

\* Its answer clears the cookie; without an answer the rest happens all the same.
LoggedOut ==
  /\ leaving /\ leaving' = FALSE
  /\ \/ jar' = "none" /\ out' = (IF out = "pending" THEN "clean" ELSE out)
     \/ jar' = jar /\ out' = "no"
  /\ access' = Null /\ me' = Null /\ going' = "login"
  /\ UNCHANGED <<server, page, at, calls, flight, fetch, lost>>

-----------------------------------------------------------------------------
(* The router.                                                             *)

Click ==
  /\ page = "up" /\ me # Null /\ going = Null /\ at \in DOMAIN Routes
  /\ going' \in (VisibleGroups(MyPerms) \cap Visited) \cup Links(at, MyPerms)
  /\ UNCHANGED <<server, jar, access, me, page, at, calls, flight, fetch, leaving, lost, out>>

Navigate ==
  /\ page = "up" /\ going # Null
  /\ LET to == Guard(going, me # Null, MyPerms) IN
       IF to = Pass THEN at' = going /\ going' = Null ELSE going' = to /\ UNCHANGED at
  /\ UNCHANGED <<server, jar, access, me, page, calls, flight, fetch, leaving, lost, out>>

\* An address is typed or the page is loaded again.  The server may still serve a
\* refresh that was under way.
Reload(s) ==
  /\ page = "up" /\ going = Null
  /\ page' = "start" /\ at' = "blank" /\ going' = s
  /\ me' = Null /\ access' = Null /\ fetch' = "none" /\ leaving' = FALSE
  /\ calls' = [c \in Call |-> NoCall]
  /\ flight' = [f \in Call \cup {Page} |-> NoFlight]
  /\ jar' \in {jar} \cup (IF alive /\ \E f \in Flying : flight[f] = Sent("current")
                          THEN {Aged(jar)} ELSE {})
  /\ lost' = (lost \/ Flying # {})
  /\ out' = IF out = "pending" THEN "no" ELSE out
  /\ UNCHANGED server

-----------------------------------------------------------------------------
Progress ==
  \/ \E c \in Call : Settle(c) \/ Unauthorized(c)
  \/ \E f \in Call \cup {Page} : Rotate(f) \/ Refreshed(f) \/ RefreshFailed(f)
  \/ RestoreSession \/ Restored \/ FetchMe \/ LoggedOut \/ Navigate

TabNext ==
  \/ Progress
  \/ ChangeGrants \/ EndSession \/ AccessExpires
  \/ \E f \in Call \cup {Page} : Lose(f)
  \/ \E c \in Call : StartCall(c)
  \/ Login \/ SaveProfile \/ Logout \/ Click
  \/ \E s \in Visited \cup {"login"} : Reload(s)

TabSpec == TabInit /\ [][TabNext]_tabVars

\* Every request gets an answer or fails, the event loop runs every callback,
\* and access tokens expire.  Nothing makes the user act.
Fairness ==
  /\ \A c \in Call : WF_tabVars(Settle(c) \/ Unauthorized(c))
  /\ WF_tabVars(\E f \in Call \cup {Page} : Rotate(f) \/ Refreshed(f) \/ RefreshFailed(f))
  /\ WF_tabVars(RestoreSession \/ Restored) /\ WF_tabVars(FetchMe)
  /\ WF_tabVars(LoggedOut) /\ WF_tabVars(Navigate) /\ WF_tabVars(AccessExpires)

FairSpec == TabSpec /\ Fairness

-----------------------------------------------------------------------------
(* Properties.                                                             *)

TabTypeOK ==
  /\ who \in Profile /\ alive \in BOOLEAN /\ jar \in {"none", "current", "old"}
  /\ page \in {"start", "boot", "up"} /\ at \in DOMAIN Routes \cup {"blank", "login"}
  /\ going \in DOMAIN Routes \cup {"login", Null}
  /\ \A c \in Call : /\ calls[c].pc \in {"idle", "sent", "wait"}
                     /\ calls[c].by \in Call \cup {Null}
  /\ fetch \in {"none", "restore", "login", "profile"} /\ out \in {"no", "pending", "clean"}

\* "Reuse of a rotated token => compromise": one tab whose calls expire
\* together never presents a token that was rotated away, unless an answer
\* was lost, so the session is not ended by its own refreshes.
NoFalseAlarm ==
  \A f \in Flying : flight[f] = Sent("old") /\ alive => lost

\* A logout that meets no refresh ends the session at the server and leaves
\* no cookie, whatever calls were under way and fail later.
LogoutEnds == out = "clean" => ~alive /\ jar = "none"

\* A call that waits for a refresh waits for one that is still under way, which
\* will tell it how it ended: no waiter is forgotten when refreshes are shared,
\* fail or follow each other.
WaitersAreTold == \A c \in Call : calls[c].pc = "wait" => calls[c].by \in Flying

\* The state of the tab, what a logout leaves of it, and whom a call waits for.
TabSound == TabTypeOK /\ LogoutEnds /\ WaitersAreTold

\* With the permissions of a role, and as long as the page, the token and the
\* server agree on them, no screen that the router opens calls or offers what
\* the server refuses, but for the restore of a deleted entry, which is
\* offered to whoever may view the ledger.
OfferedIsServed ==
  who.grants = {} /\ me = who /\ access # Null /\ access.of = who =>
    \A s \in VisibleGroups(MyPerms) : \A h \in Offered(s, MyPerms) \ {"journal.restore"} :
      MayCall(h, Perms(access.of))

\* Redirects never chase each other: every navigation arrives.
NavigationEnds == going # Null ~> going = Null

\* Every call is answered or rejected, those that share a refresh included.
CallsSettle == \A c \in Call : calls[c].pc # "idle" ~> calls[c].pc = "idle"

\* A permission that was taken away for good ends in the usable tokens too,
\* although they carry a copy of it and refreshes race with the removal.
RemovalArrives ==
  \A p \in Watched :
    <>[](p \notin Perms(who))
      => <>[](access = Null \/ ~access.good \/ p \notin Perms(access.of))
=============================================================================

------------------------------- MODULE Access -------------------------------
(***************************************************************************)
(* Who may do what: the permissions of the roles, the permission each      *)
(* handler of the API asks for, and the screens of the frontend with the   *)
(* permission that opens them, the handlers they call when they open and   *)
(* those their buttons call.  Pure definitions; Client has the behaviour.  *)
(***************************************************************************)
EXTENDS Naturals, Sequences

-----------------------------------------------------------------------------
(* Roles.                                                                  *)

RolePermissions ==
  [CEO |-> {"ledger.view", "ledger.reverse", "invoice.approve", "report.financial",
            "report.ceo", "project.view", "project.manage", "customer.view",
            "customer.manage", "hr.view", "hr.manage", "asset.view", "user.manage",
            "role.manage", "audit.view", "ai.query", "system.admin", "task.manage"},
   ACCOUNTANT |-> {"ledger.view", "ledger.create", "ledger.post", "fund.transfer",
                   "invoice.issue", "report.financial", "customer.view",
                   "project.view", "asset.view", "hr.view", "payroll.run"},
   SALES |-> {"customer.view", "customer.manage", "project.view", "invoice.issue", "ai.query"},
   DESIGNER |-> {"project.view", "asset.view"},
   DEVELOPER |-> {"project.view", "asset.view"},
   PHOTOGRAPHER |-> {"project.view", "asset.view", "asset.manage"},
   CUSTOMER |-> {"project.view"},
   GUEST |-> {}]

\* effectivePermissions: a user's own grants replace the role's when there are any.
EffectivePermissions(role, grants) == IF grants # {} THEN grants ELSE RolePermissions[role]

-----------------------------------------------------------------------------
(* The controllers: rules that say which permissions some handlers         *)
(* require.  A handler that requires none asks for a valid access token    *)
(* only, a public one for nothing; login, refresh and logout, also public, *)
(* are left out.  Every handler has one rule.                              *)

Guarded(handlers, p) == [handlers |-> handlers, perms |-> {p}]
SignedIn(handlers)    == [handlers |-> handlers, perms |-> {}]
Public(handlers)      == [handlers |-> handlers, perms |-> {}]

UsersController ==
  {Guarded({"users.list", "users.roles", "users.catalog", "users.detail", "users.setPermissions",
            "users.create", "users.update", "users.reset", "users.resetMfa", "users.remove"},
           "user.manage"),
   SignedIn({"users.directory"})}
AccountsController ==
  {Guarded({"accounts.tree", "accounts.postable", "accounts.get"}, "ledger.view"),
   Guarded({"accounts.create"}, "ledger.post")}
JournalController ==
  {Guarded({"journal.list", "journal.trash", "journal.get"}, "ledger.view"),
   Guarded({"journal.transfer"}, "fund.transfer"),
   Guarded({"journal.create", "journal.update", "journal.remove", "journal.restore"},
           "ledger.create"),
   Guarded({"journal.post"}, "ledger.post"), Guarded({"journal.reverse"}, "ledger.reverse")}
ReportsController ==
  {Guarded({"reports.trialBalance", "reports.profitAndLoss", "reports.balanceSheet",
            "reports.generalLedger", "reports.cashFlow"}, "report.financial")}
HrControllers ==
  {Guarded({"positions.list", "personnel.list", "personnel.get"}, "hr.view"),
   Guarded({"positions.create", "positions.remove", "personnel.create", "personnel.update",
            "personnel.remove", "personnel.trash", "personnel.restore"}, "hr.manage"),
   SignedIn({"personnel.me"})}
TasksController ==
  {Guarded({"tasks.all", "tasks.trash", "tasks.create", "tasks.update", "tasks.remove",
            "tasks.restore"}, "task.manage"),
   SignedIn({"tasks.mine", "tasks.group", "tasks.updateStatus"})}
PayrollController ==
  {Guarded({"payroll.list", "payroll.get", "payroll.create", "payroll.post"}, "payroll.run")}
ProjectsController ==
  {Guarded({"projects.list", "projects.get"}, "project.view"),
   Guarded({"projects.create", "projects.update", "projects.remove", "projects.trash",
            "projects.restore"}, "project.manage")}
CustomersController ==
  {Guarded({"customers.list", "customers.get"}, "customer.view"),
   Guarded({"customers.create", "customers.update", "customers.remove", "customers.trash",
            "customers.restore"}, "customer.manage")}
DashboardController == {Guarded({"dashboard.ceo"}, "report.ceo")}
HealthController    == {Guarded({"health.system"}, "system.admin"), Public({"health.ready"})}
AuthController ==
  {SignedIn({"auth.me", "auth.updateProfile", "auth.changePassword", "auth.enrollMfa",
             "auth.activateMfa", "auth.disableMfa", "auth.stepUp"})}

Requires ==
  UsersController \cup AccountsController \cup JournalController \cup ReportsController
  \cup HrControllers \cup TasksController \cup PayrollController \cup ProjectsController
  \cup CustomersController \cup DashboardController \cup HealthController \cup AuthController

\* PermissionsGuard, on the permissions that the access token carries.
MayCall(h, perms) == \E rule \in Requires : h \in rule.handlers /\ rule.perms \subseteq perms

-----------------------------------------------------------------------------
(* The screens: the permission of the route, the calls made on opening,    *)
(* and the buttons that are shown, with the call each one makes.           *)

NoPerm == ""
Can(me, p) == p = NoPerm \/ p \in me

\* Buttons that are shown to whoever has the permission p.
For(me, p, handlers) == IF Can(me, p) THEN handlers ELSE {}

WorkspaceLoads   == {"personnel.me", "tasks.mine", "tasks.group"}
WorkspaceButtons(me) == {"tasks.updateStatus"}

DashboardLoads   == {"dashboard.ceo"}
AccountsLoads    == {"accounts.tree"}
LedgerLoads      == {"reports.generalLedger", "accounts.postable"}
TrialBalanceLoads == {"reports.trialBalance"}
ProfitLossLoads  == {"reports.profitAndLoss"}
BalanceSheetLoads == {"reports.balanceSheet"}
SystemLoads      == {"health.ready", "health.system"}

JournalEntriesLoads == {"journal.list"}
\* Faulty: the reversal is offered to whoever may post.
ReverseForPosters(me) ==
  {"journal.get"} \cup For(me, "ledger.create", {"journal.remove"})
  \cup For(me, "ledger.post", {"journal.post", "journal.reverse"})
JournalEntriesButtons(me) ==
  {"journal.get"} \cup For(me, "ledger.create", {"journal.remove"})
  \cup For(me, "ledger.post", {"journal.post"}) \cup For(me, "ledger.reverse", {"journal.reverse"})

JournalNewLoads == {"accounts.postable", "journal.get"}
JournalNewButtons(me) ==
  {"journal.create", "journal.update"} \cup For(me, "ledger.post", {"journal.post"})

ProjectsLoads(me) == {"projects.list"} \cup For(me, "customer.view", {"customers.list"})
ProjectsButtons(me) ==
  For(me, "project.manage", {"projects.create", "projects.update", "projects.remove"})

CustomersLoads == {"customers.list"}
CustomersButtons(me) ==
  For(me, "customer.manage", {"customers.create", "customers.update", "customers.remove"})

PersonnelLoads == {"personnel.list", "positions.list", "users.directory"}
PersonnelButtons(me) ==
  For(me, "hr.manage", {"personnel.get", "personnel.create", "personnel.update",
                        "personnel.remove", "positions.create", "positions.remove"})

\* A refused list of projects is replaced by an empty one here.
TaskManagementLoads == {"tasks.all", "users.directory"}
TaskManagementButtons(me) == {"tasks.create", "tasks.update", "tasks.remove"}

PayrollLoads == {"payroll.list"}
PayrollButtons(me) == {"payroll.create", "payroll.get", "payroll.post"}

\* One tab for each kind of record, shown by a permission; every row of every
\* tab has a button to restore it.
TrashTabs(me) ==
  {t \in {[perm |-> "ledger.view", list |-> "journal.trash", restore |-> "journal.restore"],
          [perm |-> "project.manage", list |-> "projects.trash", restore |-> "projects.restore"],
          [perm |-> "customer.manage", list |-> "customers.trash", restore |-> "customers.restore"],
          [perm |-> "hr.manage", list |-> "personnel.trash", restore |-> "personnel.restore"],
          [perm |-> "task.manage", list |-> "tasks.trash", restore |-> "tasks.restore"]}
     : Can(me, t.perm)}
TrashLoads(me)   == {t.list : t \in TrashTabs(me)}
TrashButtons(me) == {t.restore : t \in TrashTabs(me)}

UsersLoads == {"users.list", "users.roles", "users.catalog"}
UsersButtons(me) == {"users.create", "users.update", "users.reset", "users.resetMfa",
                     "users.remove", "users.detail", "users.setPermissions"}

ProfileButtons(me) == {"auth.updateProfile", "auth.changePassword", "auth.enrollMfa",
                       "auth.activateMfa", "auth.disableMfa"}

\* The routes inside AppLayout and the permission of each.
Routes ==
  [workspace |-> NoPerm, dashboard |-> "report.ceo", accounts |-> "ledger.view",
   ledger |-> "ledger.view", journal |-> "ledger.view", journalNew |-> "ledger.create",
   trialBalance |-> "report.financial", profitLoss |-> "report.financial",
   balanceSheet |-> "report.financial", projects |-> "project.view",
   customers |-> "customer.view", personnel |-> "hr.view", tasks |-> "task.manage",
   payroll |-> "payroll.run", trash |-> NoPerm, users |-> "user.manage",
   profile |-> NoPerm, system |-> "system.admin"]

\* What a user with the permissions me is offered on screen s.
Offered(s, me) ==
  CASE s = "workspace"    -> WorkspaceLoads \cup WorkspaceButtons(me)
    [] s = "dashboard"    -> DashboardLoads
    [] s = "accounts"     -> AccountsLoads
    [] s = "ledger"       -> LedgerLoads
    [] s = "journal"      -> JournalEntriesLoads \cup JournalEntriesButtons(me)
    [] s = "journalNew"   -> JournalNewLoads \cup JournalNewButtons(me)
    [] s = "trialBalance" -> TrialBalanceLoads
    [] s = "profitLoss"   -> ProfitLossLoads
    [] s = "balanceSheet" -> BalanceSheetLoads
    [] s = "projects"     -> ProjectsLoads(me) \cup ProjectsButtons(me)
    [] s = "customers"    -> CustomersLoads \cup CustomersButtons(me)
    [] s = "personnel"    -> PersonnelLoads \cup PersonnelButtons(me)
    [] s = "tasks"        -> TaskManagementLoads \cup TaskManagementButtons(me)
    [] s = "payroll"      -> PayrollLoads \cup PayrollButtons(me)
    [] s = "trash"        -> TrashLoads(me) \cup TrashButtons(me)
    [] s = "users"        -> UsersLoads \cup UsersButtons(me)
    [] s = "profile"      -> ProfileButtons(me)
    [] s = "system"       -> SystemLoads

\* Links on screen s beside the sidebar.  The one from the ledger to a new entry is
\* shown to whoever sees the ledger, the one from the journal asks for ledger.create.
Links(s, me) ==
  CASE s = "ledger"  -> {"journalNew"}
    [] s = "journal" -> For(me, "ledger.create", {"journalNew"})
    [] OTHER         -> {}

\* AppLayout: the sidebar shows the entries the user may open.
VisibleGroups(me) == {s \in DOMAIN Routes : Can(me, Routes[s])}

-----------------------------------------------------------------------------
(* The navigation guard of the router.                                     *)

LandingOrder == <<"workspace", "dashboard", "ledger", "projects", "profile">>

\* The first of them that the user may open.
Landing(me) ==
  LET open == {i \in DOMAIN LandingOrder : Can(me, Routes[LandingOrder[i]])}
  IN  LandingOrder[CHOOSE i \in open : \A j \in open : i <= j]

Pass == "pass"

\* Faulty: whoever lacks the permission of a screen is sent to the dashboard.
GuardToDashboard(to, signed, me) ==
  IF to = "login" THEN (IF signed THEN "dashboard" ELSE Pass)
  ELSE IF ~signed THEN "login"
  ELSE IF Can(me, Routes[to]) THEN Pass
  ELSE "dashboard"

\* Where the navigation to a screen is redirected, or Pass.
Guard(to, signed, me) ==
  IF to = "login" THEN (IF signed THEN "dashboard" ELSE Pass)
  ELSE IF ~signed THEN "login"
  ELSE IF Can(me, Routes[to]) THEN Pass
  ELSE Landing(me)
=============================================================================

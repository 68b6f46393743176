------------------------------ MODULE Records ------------------------------
(***************************************************************************)
(* The records that are edited on a screen with a list, a form and a       *)
(* dialog to delete: projects, customers, tasks and personnel, each with   *)
(* its table and its service.  One browser tab shows the screen of one     *)
(* kind, other managers use the same API, and an employee sets the status  *)
(* of tasks.  A request is served and answered in two steps, so answers    *)
(* overtake each other and the user goes on meanwhile.  A list may be      *)
(* stale: any record that was ever created may be opened from it, and of   *)
(* the list itself only whether it is up to date is kept.  Of the columns  *)
(* that a service treats alike one stands for all.                         *)
(* Bounds: two loads of the list and one delete under way, and the records *)
(* of Record; what was typed into a form is any of its valid contents.     *)
(***************************************************************************)
EXTENDS Naturals, FiniteSets

CONSTANTS
  Kind,     \* the kinds of record that are looked at
  Record,   \* ids of records (bound)
  Name,     \* texts (bound)
  User,     \* users a task or a personnel record is linked to (bound)
  None

ASSUME RecordsAssumption ==
  /\ Kind \subseteq {"projects", "customers", "tasks", "personnel"} /\ Kind # {}
  /\ None \notin Record \cup Name \cup User

VARIABLES
  kind,     \* the kind of the screen
  db,       \* the table: id -> row
  form,     \* showForm, editId, the record its contents come from, and the records
            \* this opening made, those not counted whose answer was lost
  save,     \* the request of save(), whose flag is `saving`
  del,      \* the request of doDelete()
  asked,    \* loads of the list that were not served yet
  answers,  \* loads that were: whether each saw the last write of this tab
  detail,   \* personnel: the records whose details openEdit waits for
  checked,  \* the task whose status an employee may set, as updateStatus read it
  fresh,    \* history: the list was read after the last write of this tab
  excused,  \* history: loads overlapped, or an answer was lost
  crossed,  \* history: a form was opened while openEdit was under way
  unnamed   \* history: an update made a group task personal and named no assignee

lists == <<asked, answers, fresh>>
vars  == <<kind, unnamed, db, form, save, del, lists, detail, checked, excused, crossed>>

NoRow  == [st |-> "none", name |-> None, link |-> FALSE, owner |-> None,
           group |-> FALSE, done |-> FALSE, stamped |-> FALSE]
Closed == [open |-> FALSE, id |-> None, of |-> None, made |-> 0]
Idle   == [st |-> "idle", id |-> None, of |-> None, mine |-> FALSE]

Init ==
  /\ kind \in Kind /\ db = [r \in Record |-> NoRow]
  /\ form = Closed /\ save = Idle /\ del = Idle
  /\ asked = 1 /\ answers = {} /\ detail = {} /\ checked = None
  /\ fresh = FALSE /\ excused = FALSE /\ crossed = FALSE /\ unnamed = FALSE

-----------------------------------------------------------------------------
(* The services.  What a request leaves out is None; COALESCE keeps the    *)
(* column then, other columns are set to null.                             *)

Coalesce(new, old) == IF new = None THEN old ELSE new
Live == {r \in Record : db[r].st = "live"}

\* The contents that save() lets through, as it sends them.
ProjectsForm  == [name : Name, link : BOOLEAN]
CustomersForm == [name : Name]
TasksForm ==
  {d \in [group : BOOLEAN, owner : User \cup {None}, done : BOOLEAN] : d.group <=> d.owner = None}
PersonnelForm == [owner : User \cup {None}]

\* What an update may contain otherwise: the assignee is left out or is superfluous.
\* To leave out the kind or the status is to send what the task has.
TasksRequest == [group : BOOLEAN, owner : User \cup {None}, done : BOOLEAN]

NewRow == [NoRow EXCEPT !.st = "live"]

CreateProject(d)   == [NewRow EXCEPT !.name = d.name, !.link = d.link]
UpdateProject(p, d) == [p EXCEPT !.name = Coalesce(d.name, @), !.link = d.link, !.owner = None]

CreateCustomer(d)   == [NewRow EXCEPT !.name = d.name]
UpdateCustomer(c, d) == [c EXCEPT !.name = Coalesce(d.name, @)]

\* create refuses a personal task that names nobody and drops the assignee of a
\* group task: all it creates are tasks that the form may ask for.
CreateTask(d) == [NewRow EXCEPT !.group = d.group, !.owner = d.owner, !.done = d.done]

\* Faulty: a personal task that becomes a group task keeps its assignee.
UpdateTaskKeepingAssignee(t, d) ==
  [t EXCEPT !.group = d.group, !.owner = Coalesce(d.owner, @), !.done = d.done, !.stamped = d.done]

UpdateTask(t, d) ==
  [t EXCEPT !.group = d.group, !.owner = IF d.group THEN None ELSE Coalesce(d.owner, @),
            !.done = d.done, !.stamped = d.done]

\* A personal task that names nobody; update does not refuse it.
Unnamed(d) == kind = "tasks" /\ d.group = FALSE /\ d.owner = None

CreatePersonnel(d)   == [NewRow EXCEPT !.owner = d.owner]
UpdatePersonnel(p, d) == [p EXCEPT !.owner = Coalesce(d.owner, @)]

\* What save() of the screen sends, and what the updates of other clients contain.
Contents ==
  CASE kind = "projects"  -> ProjectsForm
    [] kind = "customers" -> CustomersForm
    [] kind = "tasks"     -> TasksForm
    [] kind = "personnel" -> PersonnelForm
Requests == IF kind = "tasks" THEN TasksRequest ELSE Contents
Created(d) ==
  CASE kind = "projects"  -> CreateProject(d)
    [] kind = "customers" -> CreateCustomer(d)
    [] kind = "tasks"     -> CreateTask(d)
    [] kind = "personnel" -> CreatePersonnel(d)
Updated(row, d) ==
  CASE kind = "projects"  -> UpdateProject(row, d)
    [] kind = "customers" -> UpdateCustomer(row, d)
    [] kind = "tasks"     -> UpdateTask(row, d)
    [] kind = "personnel" -> UpdatePersonnel(row, d)

\* uq_personnel_user: one live personnel record for a login.
UniqueLogin(r, row) ==
  kind = "personnel" /\ row.owner # None /\ row.st = "live" =>
    \A s \in Live \ {r} : db[s].owner # row.owner

Write(r, row) == UniqueLogin(r, row) /\ db' = [db EXCEPT ![r] = row]

Create(d) == \E r \in Record : db[r].st = "none" /\ Write(r, Created(d))

\* Faulty: a deleted record is changed as well.
UpdateAny(r, d) == db[r].st # "none" /\ Write(r, Updated(db[r], d))

\* An update or a delete of a deleted record matches no row and succeeds.
Update(r, d)  == IF r \in Live THEN Write(r, Updated(db[r], d)) ELSE UNCHANGED db

SoftDelete(r) == db' = IF r \in Live THEN [db EXCEPT ![r].st = "deleted"] ELSE db
Restore(r)    == db[r].st = "deleted" /\ Write(r, [db[r] EXCEPT !.st = "live"])

\* What mine and group return to an employee.
Mine(u) == {r \in Live : ~db[r].group /\ db[r].owner = u}
Group   == {r \in Live : db[r].group}

\* updateStatus looks whether the user may set the status ...
CheckStatus(u, r, isManager) ==
  /\ kind = "tasks" /\ checked = None
  /\ r \in Live /\ (isManager \/ r \in Mine(u) \cup Group) /\ checked' = r
  /\ UNCHANGED <<kind, unnamed, db, form, save, del, lists, detail, excused, crossed>>

\* ... and sets it, by then perhaps of a task that was deleted or reassigned.
WriteStatus ==
  /\ checked # None /\ checked' = None
  /\ \E d \in BOOLEAN :
       db' = IF checked \in Live THEN [db EXCEPT ![checked].done = d, ![checked].stamped = d] ELSE db
  /\ UNCHANGED <<kind, unnamed, form, save, del, lists, detail, excused, crossed>>

\* Other managers, and other clients of the API.
Others ==
  /\ \/ (\E d \in Contents : Create(d)) /\ UNCHANGED unnamed
     \/ \E d \in Requests, r \in Record :
          Update(r, d) /\ unnamed' = (unnamed \/ (db[r].group /\ Unnamed(d)))
     \/ (\E r \in Record : SoftDelete(r) \/ Restore(r)) /\ UNCHANGED unnamed
  /\ UNCHANGED <<kind, form, save, del, lists, detail, checked, excused, crossed>>

-----------------------------------------------------------------------------
(* The list.                                                               *)

\* load: earlier ones may still be under way.
Load ==
  /\ asked + Cardinality(answers) < 2 /\ asked' = asked + 1
  /\ excused' = (asked > 0 \/ answers # {})
  /\ UNCHANGED <<answers, fresh>>

ServeLoad ==
  /\ asked > 0 /\ asked' = asked - 1
  /\ \/ answers' = answers \cup {TRUE} /\ UNCHANGED excused
     \/ answers' = answers /\ excused' = TRUE
  /\ UNCHANGED <<kind, unnamed, db, form, save, del, detail, checked, fresh, crossed>>

LoadAnswered ==
  /\ \E f \in answers : fresh' = f /\ answers' = answers \ {f}
  /\ UNCHANGED <<kind, unnamed, db, form, save, del, asked, detail, checked, excused, crossed>>

\* A write of this tab makes every list that was read before it stale.
Stale == fresh' = FALSE /\ answers' = {FALSE : f \in answers} /\ UNCHANGED asked

-----------------------------------------------------------------------------
(* The form.                                                               *)

Listed   == {r \in Record : db[r].st # "none"}
Fetching == detail # {}

Opened(id, of) ==
  /\ form' = [open |-> TRUE, id |-> id, of |-> of, made |-> 0]
  /\ save' = [save EXCEPT !.mine = FALSE]

\* Faulty: the form is emptied and the id of the record edited last is kept.
OpenCreateOnly ==
  /\ ~form.open /\ Opened(form.id, None) /\ crossed' = (crossed \/ Fetching)
  /\ UNCHANGED <<kind, unnamed, db, del, lists, detail, checked, excused>>

OpenCreate ==
  /\ ~form.open /\ Opened(None, None) /\ crossed' = (crossed \/ Fetching)
  /\ UNCHANGED <<kind, unnamed, db, del, lists, detail, checked, excused>>

\* The forms of projects, customers and tasks are filled from the list.
OpenEdit(r) ==
  /\ kind # "personnel" /\ ~form.open /\ r \in Listed /\ Opened(r, r)
  /\ UNCHANGED <<kind, unnamed, db, del, lists, detail, checked, excused, crossed>>

\* openEdit of personnel: editId is set and the record is fetched.
FetchDetail(r) ==
  /\ kind = "personnel" /\ ~form.open /\ r \in Listed \ detail
  /\ form' = [form EXCEPT !.id = r] /\ detail' = detail \cup {r}
  /\ crossed' = (crossed \/ Fetching)
  /\ UNCHANGED <<kind, unnamed, db, save, del, lists, checked, excused>>

\* The answer fills the form and shows it.  A request that fails, or whose
\* record was deleted, leaves the screen as it is.
DetailAnswered(r) ==
  /\ r \in detail /\ detail' = detail \ {r}
  /\ \/ r \in Live /\ Opened(form.id, r)
     \/ UNCHANGED <<form, save>>
  /\ UNCHANGED <<kind, unnamed, db, del, lists, checked, excused, crossed>>

\* The form is left, also while it is being saved.
CloseForm ==
  /\ form.open /\ form' = [Closed EXCEPT !.id = form.id]
  /\ save' = [save EXCEPT !.mine = FALSE]
  /\ UNCHANGED <<kind, unnamed, db, del, lists, detail, checked, excused, crossed>>

\* Faulty: the button is not disabled while the form is being saved.
SaveAgain ==
  /\ form.open
  /\ save' = [st |-> "sent", id |-> form.id, of |-> form.of, mine |-> TRUE]
  /\ UNCHANGED <<kind, unnamed, db, form, del, lists, detail, checked, excused, crossed>>

\* save: the button is disabled while `saving`.
Save ==
  /\ form.open /\ save.st = "idle"
  /\ save' = [st |-> "sent", id |-> form.id, of |-> form.of, mine |-> TRUE]
  /\ UNCHANGED <<kind, unnamed, db, form, del, lists, detail, checked, excused, crossed>>

ServeSave ==
  /\ save.st = "sent"
  /\ \E d \in Contents : IF save.id = None THEN Create(d) ELSE Update(save.id, d)
  /\ LET made == save.id = None /\ save.mine IN
       /\ save' = [Idle EXCEPT !.st = "ok", !.mine = made]
       /\ form' = IF made THEN [form EXCEPT !.made = @ + 1] ELSE form
  /\ Stale
  /\ UNCHANGED <<kind, unnamed, del, detail, checked, excused, crossed>>

\* Refused, or the request is lost: the form stays open.
FailSave ==
  /\ save.st = "sent" /\ save' = Idle
  /\ UNCHANGED <<kind, unnamed, db, form, del, lists, detail, checked, excused, crossed>>

\* The answer is lost.
LoseSaved ==
  /\ save.st = "ok" /\ save' = Idle /\ excused' = TRUE
  /\ form' = IF save.mine THEN [form EXCEPT !.made = @ - 1] ELSE form
  /\ UNCHANGED <<kind, unnamed, db, del, lists, detail, checked, crossed>>

\* Faulty: the list is not read again.
SavedWithoutLoad ==
  /\ save.st = "ok" /\ save' = Idle /\ form' = [Closed EXCEPT !.id = form.id]
  /\ UNCHANGED <<kind, unnamed, db, del, lists, detail, checked, excused, crossed>>

\* The answer closes the form, whichever is open by then, and reads the list.
Saved ==
  /\ save.st = "ok" /\ save' = Idle /\ form' = [Closed EXCEPT !.id = form.id] /\ Load
  /\ UNCHANGED <<kind, unnamed, db, del, detail, checked, crossed>>

-----------------------------------------------------------------------------
(* Deleting.                                                               *)

Delete(r) ==
  /\ del = Idle /\ ~form.open /\ r \in Listed /\ del' = [Idle EXCEPT !.st = "sent", !.id = r]
  /\ UNCHANGED <<kind, unnamed, db, form, save, lists, detail, checked, excused, crossed>>

ServeDelete ==
  /\ del.st = "sent" /\ del' = [Idle EXCEPT !.st = "ok"] /\ SoftDelete(del.id) /\ Stale
  /\ UNCHANGED <<kind, unnamed, form, save, detail, checked, excused, crossed>>

FailDelete ==
  /\ del.st \in {"sent", "ok"} /\ del' = Idle /\ excused' = (excused \/ del.st = "ok")
  /\ UNCHANGED <<kind, unnamed, db, form, save, lists, detail, checked, crossed>>

Deleted ==
  /\ del.st = "ok" /\ del' = Idle /\ Load
  /\ UNCHANGED <<kind, unnamed, db, form, save, detail, checked, crossed>>

-----------------------------------------------------------------------------
Next ==
  \/ \E r \in Record : OpenEdit(r) \/ FetchDetail(r) \/ DetailAnswered(r) \/ Delete(r)
  \/ \E u \in User, r \in Record, isManager \in BOOLEAN : CheckStatus(u, r, isManager)
  \/ ServeLoad \/ LoadAnswered \/ WriteStatus \/ Others \/ OpenCreate \/ CloseForm
  \/ Save \/ ServeSave \/ FailSave \/ LoseSaved \/ Saved
  \/ ServeDelete \/ FailDelete \/ Deleted

Spec == Init /\ [][Next]_vars

-----------------------------------------------------------------------------
(* Properties.                                                             *)

TypeOK ==
  /\ kind \in Kind /\ asked \in 0..2 /\ answers \subseteq BOOLEAN /\ detail \subseteq Record
  /\ \A r \in Record : /\ db[r].st \in {"live", "deleted"} \/ db[r] = NoRow
                       /\ db[r].owner \in User \cup {None}
  /\ form.id \in Record \cup {None} /\ form.of \in Record \cup {None} /\ form.made \in Nat
  /\ save.st \in {"idle", "sent", "ok"} /\ del.st \in {"idle", "sent", "ok"}

\* A save writes the record whose contents the form was filled with, and an
\* emptied form creates one: whatever was opened, left and saved before.
\* The personnel form, filled by an answer, is excused once two openings cross.
SavesWhatIsShown == save.st = "sent" /\ ~crossed => save.id = save.of

\* However often the button is pressed, one opening of the form creates one
\* record, unless the answer to the first attempt is lost.
OneCreatePerForm == form.made <= 1

\* When the screen has come to rest, its list was read after the last change
\* the user made on it, if no two loads overlapped and none failed.
OwnWritesShown ==
  save = Idle /\ del = Idle /\ asked = 0 /\ answers = {} /\ ~excused => fresh

\* A deleted record waits in the trash as it was: nothing that was under way
\* when it was deleted changes it, only a restore brings it back.
DeletedUntouched ==
  [][\A r \in Record : db[r].st = "deleted" => db'[r] \in {db[r], [db[r] EXCEPT !.st = "live"]}]_vars

\* "A personal task needs an assignee": through edits, status changes and
\* restores in any order a group task has no assignee and only a task that is
\* done has a time of completion, whatever the requests contain.  A personal
\* task has an assignee as long as no update, which the service does not check
\* as it checks the creation, makes a task personal and names nobody; the
\* screen sends no such update.
TaskShape ==
  kind = "tasks" => \A r \in Record : db[r].st # "none" =>
    /\ db[r].group => db[r].owner = None
    /\ db[r].owner = None => db[r].group \/ unnamed
    /\ db[r].stamped => db[r].done

\* A login belongs to one live personnel record, which personnel/me shows:
\* deleted records may hold the same login, and restoring one is refused then.
OneRecordPerLogin ==
  kind = "personnel" => \A r, s \in Live : r # s /\ db[r].owner = db[s].owner => db[r].owner = None

\* What every write leaves in the table.
RowsSound == TypeOK /\ TaskShape /\ OneRecordPerLogin
=============================================================================

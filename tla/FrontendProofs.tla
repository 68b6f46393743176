---------------------------- MODULE FrontendProofs ----------------------------
(***************************************************************************)
(* What holds of the records and their screen for any records, names and   *)
(* users.  A write of any request is one row that is replaced by a row of  *)
(* the right shape (Writes); the screen's part is an invariant of its own. *)
(***************************************************************************)
EXTENDS Client, Records, FiniteSetTheorems, TLAPS

Id == Record \cup {None}

Row == [st : {"none", "live", "deleted"}, name : Name \cup {None}, link : BOOLEAN,
        owner : User \cup {None}, group : BOOLEAN, done : BOOLEAN, stamped : BOOLEAN]

\* A task of a group has no assignee, a personal one has, unless bare ones are known,
\* and only what is done has a time of completion.
Shaped(row, bare) == kind = "tasks" /\ row.st # "none" =>
  /\ row.group => row.owner = None
  /\ row.owner = None => row.group \/ bare
  /\ row.stamped => row.done

RowsOK == /\ kind \in Kind /\ unnamed \in BOOLEAN /\ db \in [Record -> Row]
          /\ \A r \in Record : (db[r].st = "none" => db[r] = NoRow) /\ Shaped(db[r], unnamed)
          /\ OneRecordPerLogin

FormType == [open : BOOLEAN, id : Id, of : Id, made : Nat]
RequestType == [st : {"idle", "sent", "ok"}, id : Id, of : Id, mine : BOOLEAN]

ScreenTyped ==
  /\ form \in FormType /\ save \in RequestType /\ del \in RequestType
  /\ asked \in 0..2 /\ answers \subseteq BOOLEAN /\ detail \subseteq Record
  /\ checked \in Id /\ fresh \in BOOLEAN /\ excused \in BOOLEAN /\ crossed \in BOOLEAN

\* An open form shows the record it will save, and so will a form whose record
\* is being fetched, unless openings crossed.
Shown ==
  /\ ~crossed => /\ form.open => form.id = form.of
                 /\ detail \subseteq {form.id}
                 /\ save.st = "sent" => save.id = save.of
  /\ kind # "personnel" => detail = {}

\* The open form made a record just when an answer that says so is under way.
Made == form.made = IF save.st = "ok" /\ save.mine THEN 1 ELSE 0

\* Unless excused one load is under way at most, and a list that is not up to
\* date is going to be read again.
Seen == ~excused =>
  /\ asked = 0 \/ (asked = 1 /\ answers = {})
  /\ answers \in {{}, {TRUE}, {FALSE}}
  /\ save.st = "ok" \/ del.st = "ok" \/ asked = 1 \/ answers = {TRUE} \/ (answers = {} /\ fresh)

Screen == ScreenTyped /\ Shown /\ Made /\ Seen

IInv == RowsOK /\ Screen

-----------------------------------------------------------------------------
(* The table.                                                              *)

\* One row is replaced by a row of the right shape, a deleted one as it was.
Grows == unnamed' \in BOOLEAN /\ (unnamed => unnamed')
Writes ==
  \/ db' = db
  \/ \E r \in Record, row \in Row :
       /\ db' = [db EXCEPT ![r] = row] /\ row.st # "none" /\ Shaped(row, unnamed') /\ UniqueLogin(r, row)
       /\ db[r].st = "deleted" => row = [db[r] EXCEPT !.st = "live"]

LEMMA WritesKeep ==
  ASSUME RowsOK, Writes, kind' = kind, Grows
  PROVE  RowsOK'
<1>1. CASE db' = db
  BY <1>1 DEF RowsOK, Shaped, Grows, OneRecordPerLogin, Live
<1>2. CASE db' # db
  <2>1. PICK r \in Record, row \in Row :
          /\ db' = [db EXCEPT ![r] = row] /\ row.st # "none" /\ Shaped(row, unnamed') /\ UniqueLogin(r, row)
    BY <1>2 DEF Writes
  <2>2. db'[r] = row /\ \A s \in Record : s # r => db'[s] = db[s]
    BY <2>1 DEF RowsOK
  <2>3. db' \in [Record -> Row]
    BY <2>1 DEF RowsOK
  <2>4. ASSUME NEW s \in Record
        PROVE  (db'[s].st = "none" => db'[s] = NoRow) /\ Shaped(db'[s], unnamed')
    <3>1. CASE s = r
      BY <2>1, <2>2, <3>1 DEF Shaped
    <3>2. CASE s # r
      BY <2>2, <3>2 DEF RowsOK, Shaped, Grows
    <3> QED BY <3>1, <3>2
  <2>5. OneRecordPerLogin'
    <3> SUFFICES ASSUME kind = "personnel", NEW p \in Record, NEW q \in Record,
                        db'[p].st = "live", db'[q].st = "live", p # q, db'[p].owner = db'[q].owner
                 PROVE  db'[p].owner = None
      BY DEF OneRecordPerLogin, Live
    <3>1. CASE p = r
      BY <2>1, <2>2, <3>1 DEF UniqueLogin, Live
    <3>2. CASE q = r
      BY <2>1, <2>2, <3>2 DEF UniqueLogin, Live
    <3>3. CASE p # r /\ q # r
      BY <2>2, <3>3 DEF RowsOK, OneRecordPerLogin, Live
    <3> QED BY <3>1, <3>2, <3>3
  <2> QED BY <2>3, <2>4, <2>5 DEF RowsOK, Grows, Shaped
<1> QED BY <1>1, <1>2

LEMMA NoRowFacts == /\ NoRow \in Row /\ NoRow.st = "none" /\ NoRow.group = FALSE
                    /\ NoRow.stamped = FALSE /\ NoRow.owner = None
BY DEF NoRow, Row

LEMMA NewRowFacts == /\ NewRow \in Row /\ NewRow.st = "live"
                     /\ NewRow.group = FALSE /\ NewRow.stamped = FALSE
BY NoRowFacts DEF NewRow, Row

\* What a form creates.
LEMMA CreatedFacts ==
  ASSUME RowsOK, NEW d \in Contents, NEW b \in BOOLEAN
  PROVE  Created(d) \in Row /\ Created(d).st = "live" /\ Shaped(Created(d), b)
<1>1. kind \in {"projects", "customers", "tasks", "personnel"}
  BY RecordsAssumption DEF RowsOK
<1>2. CASE kind = "projects"
  <2>1. d \in ProjectsForm /\ Created(d) = CreateProject(d)
    BY <1>2 DEF Contents, Created
  <2> QED BY <1>2, <2>1, NewRowFacts DEF ProjectsForm, CreateProject, Row, Shaped
<1>3. CASE kind = "customers"
  <2>1. d \in CustomersForm /\ Created(d) = CreateCustomer(d)
    BY <1>3 DEF Contents, Created
  <2> QED BY <1>3, <2>1, NewRowFacts DEF CustomersForm, CreateCustomer, Row, Shaped
<1>4. CASE kind = "tasks"
  <2>1. d \in TasksForm /\ Created(d) = CreateTask(d)
    BY <1>4 DEF Contents, Created
  <2> SUFFICES ASSUME NEW x, x = CreateTask(d) PROVE x \in Row /\ x.st = "live" /\ Shaped(x, b)
    BY <2>1
  <2>2. d.group \in BOOLEAN /\ d.owner \in User \cup {None} /\ d.done \in BOOLEAN
        /\ (d.group <=> d.owner = None)
    BY <2>1 DEF TasksForm
  <2>3. x \in Row /\ x.st = "live" /\ x.group = d.group /\ x.owner = d.owner /\ x.stamped = FALSE
    BY <2>2, NewRowFacts DEF CreateTask, Row
  <2> QED BY <2>2, <2>3 DEF Shaped
<1>5. CASE kind = "personnel"
  <2>1. d \in PersonnelForm /\ Created(d) = CreatePersonnel(d)
    BY <1>5 DEF Contents, Created
  <2> QED BY <1>5, <2>1, NewRowFacts DEF PersonnelForm, CreatePersonnel, Row, Shaped
<1> QED BY <1>1, <1>2, <1>3, <1>4, <1>5

\* What the forms send is a request, and every personal task of theirs has an assignee.
LEMMA FormsAreNamed ==
  ASSUME RowsOK, NEW d \in Contents
  PROVE  d \in Requests /\ ~Unnamed(d)
<1>1. CASE kind = "tasks"
  <2>1. d \in TasksForm
    BY <1>1 DEF Contents
  <2> QED BY <1>1, <2>1 DEF TasksForm, TasksRequest, Requests, Unnamed
<1>2. CASE kind # "tasks"
  BY <1>2 DEF Requests, Unnamed
<1> QED BY <1>1, <1>2

\* What an update makes of a row.
LEMMA UpdatedFacts ==
  ASSUME RowsOK, NEW d \in Requests, NEW row \in Row, row.st = "live",
         NEW a \in BOOLEAN, NEW b \in BOOLEAN, Shaped(row, a), a => b, row.group /\ Unnamed(d) => b
  PROVE  Updated(row, d) \in Row /\ Updated(row, d).st = "live" /\ Shaped(Updated(row, d), b)
<1>1. kind \in {"projects", "customers", "tasks", "personnel"}
  BY RecordsAssumption DEF RowsOK
<1>2. CASE kind = "projects"
  <2>1. d \in ProjectsForm /\ Updated(row, d) = UpdateProject(row, d)
    BY <1>2 DEF Requests, Contents, Updated
  <2> SUFFICES ASSUME NEW x, x = UpdateProject(row, d) PROVE x \in Row /\ x.st = "live" /\ Shaped(x, b)
    BY <2>1
  <2>2. Coalesce(d.name, row.name) \in Name \cup {None} /\ d.link \in BOOLEAN
    BY <2>1 DEF ProjectsForm, Coalesce, Row
  <2>3. x \in Row /\ x.st = "live"
    BY <2>2 DEF UpdateProject, Row
  <2> QED BY <1>2, <2>3 DEF Shaped
<1>3. CASE kind = "customers"
  <2>1. d \in CustomersForm /\ Updated(row, d) = UpdateCustomer(row, d)
    BY <1>3 DEF Requests, Contents, Updated
  <2> SUFFICES ASSUME NEW x, x = UpdateCustomer(row, d) PROVE x \in Row /\ x.st = "live" /\ Shaped(x, b)
    BY <2>1
  <2>2. Coalesce(d.name, row.name) \in Name \cup {None}
    BY <2>1 DEF CustomersForm, Coalesce, Row
  <2>3. x \in Row /\ x.st = "live"
    BY <2>2 DEF UpdateCustomer, Row
  <2> QED BY <1>3, <2>3 DEF Shaped
<1>4. CASE kind = "tasks"
  <2>1. d \in TasksRequest /\ Updated(row, d) = UpdateTask(row, d)
    BY <1>4 DEF Requests, Contents, Updated
  <2> SUFFICES ASSUME NEW x, x = UpdateTask(row, d) PROVE x \in Row /\ x.st = "live" /\ Shaped(x, b)
    BY <2>1
  <2>2. d.group \in BOOLEAN /\ d.owner \in User \cup {None} /\ d.done \in BOOLEAN
    BY <2>1 DEF TasksRequest
  <2> SUFFICES ASSUME NEW o, o = IF d.group THEN None ELSE Coalesce(d.owner, row.owner)
               PROVE  x \in Row /\ x.st = "live" /\ Shaped(x, b)
    OBVIOUS
  <2>3. o \in User \cup {None} /\ (d.group => o = None)
    BY <2>2 DEF Coalesce, Row
  <2>6. o = None => d.group \/ b
    <3> SUFFICES ASSUME o = None, ~d.group PROVE b
      OBVIOUS
    <3>1. d.owner = None /\ row.owner = None
      BY <2>2 DEF Coalesce
    <3>2. row.group \/ a
      BY <1>4, <3>1 DEF Shaped
    <3> QED BY <1>4, <2>2, <3>1, <3>2 DEF Unnamed
  <2>4. x = [row EXCEPT !.group = d.group, !.owner = o, !.done = d.done, !.stamped = d.done]
    BY DEF UpdateTask, Row
  <2>5. /\ x \in Row /\ x.st = "live" /\ x.group = d.group /\ x.owner = o
        /\ x.done = d.done /\ x.stamped = d.done
    BY <2>2, <2>3, <2>4 DEF Row
  <2> QED BY <2>2, <2>3, <2>5, <2>6 DEF Shaped
<1>5. CASE kind = "personnel"
  <2>1. d \in PersonnelForm /\ Updated(row, d) = UpdatePersonnel(row, d)
    BY <1>5 DEF Requests, Contents, Updated
  <2> SUFFICES ASSUME NEW x, x = UpdatePersonnel(row, d) PROVE x \in Row /\ x.st = "live" /\ Shaped(x, b)
    BY <2>1
  <2>2. Coalesce(d.owner, row.owner) \in User \cup {None}
    BY <2>1 DEF PersonnelForm, Coalesce, Row
  <2>3. x \in Row /\ x.st = "live"
    BY <2>2 DEF UpdatePersonnel, Row
  <2> QED BY <1>5, <2>3 DEF Shaped
<1> QED BY <1>1, <1>2, <1>3, <1>4, <1>5

LEMMA CreateWrites ==
  ASSUME RowsOK, NEW d \in Contents, Create(d), Grows
  PROVE  Writes
<1>1. PICK r \in Record : db[r].st = "none" /\ Write(r, Created(d))
  BY DEF Create
<1> QED BY <1>1, CreatedFacts DEF Write, Writes, Grows

LEMMA UpdateWrites ==
  ASSUME RowsOK, NEW d \in Requests, NEW r \in Record, Update(r, d), Grows,
         db[r].group /\ Unnamed(d) => unnamed'
  PROVE  Writes
<1>1. CASE r \in Live
  <2>1. db[r] \in Row /\ db[r].st = "live" /\ Shaped(db[r], unnamed) /\ Write(r, Updated(db[r], d))
    BY <1>1 DEF RowsOK, Live, Update
  <2> QED BY <2>1, UpdatedFacts DEF Write, Writes, Grows, RowsOK
<1>2. CASE r \notin Live
  BY <1>2 DEF Update, Writes
<1> QED BY <1>1, <1>2

LEMMA SoftDeleteWrites ==
  ASSUME RowsOK, NEW r, SoftDelete(r), Grows
  PROVE  Writes
<1>1. CASE r \in Live
  <2> SUFFICES ASSUME NEW x, x = [db[r] EXCEPT !.st = "deleted"] PROVE Writes
    OBVIOUS
  <2>1. r \in Record /\ db[r] \in Row /\ db[r].st = "live" /\ Shaped(db[r], unnamed)
    BY <1>1 DEF RowsOK, Live
  <2>2. db' = [db EXCEPT ![r] = x]
    BY <1>1, <2>1 DEF SoftDelete, RowsOK
  <2>3. /\ x \in Row /\ x.st = "deleted" /\ x.group = db[r].group /\ x.owner = db[r].owner
        /\ x.done = db[r].done /\ x.stamped = db[r].stamped
    BY <2>1 DEF Row
  <2>4. Shaped(x, unnamed')
    BY <2>1, <2>3 DEF Shaped, Grows
  <2> QED BY <2>1, <2>2, <2>3, <2>4 DEF Writes, UniqueLogin
<1>2. CASE r \notin Live
  BY <1>2 DEF SoftDelete, Writes
<1> QED BY <1>1, <1>2

LEMMA RestoreWrites ==
  ASSUME RowsOK, NEW r \in Record, Restore(r), Grows
  PROVE  Writes
<1> SUFFICES ASSUME NEW x, x = [db[r] EXCEPT !.st = "live"] PROVE Writes
  OBVIOUS
<1>1. db[r] \in Row /\ db[r].st = "deleted" /\ Shaped(db[r], unnamed) /\ Write(r, x)
  BY DEF RowsOK, Restore
<1>2. /\ x \in Row /\ x.st = "live" /\ x.group = db[r].group /\ x.owner = db[r].owner
      /\ x.done = db[r].done /\ x.stamped = db[r].stamped
  BY <1>1 DEF Row
<1>3. Shaped(x, unnamed')
  BY <1>1, <1>2 DEF Shaped, Grows
<1> QED BY <1>1, <1>2, <1>3 DEF Writes, Write

LEMMA StatusWrites ==
  ASSUME RowsOK, WriteStatus, Grows
  PROVE  Writes
<1>1. PICK d \in BOOLEAN :
        db' = IF checked \in Live THEN [db EXCEPT ![checked].done = d, ![checked].stamped = d] ELSE db
  BY DEF WriteStatus
<1>2. CASE checked \in Live
  <2> SUFFICES ASSUME NEW r \in Record, r = checked,
                      NEW x, x = [db[r] EXCEPT !.done = d, !.stamped = d] PROVE Writes
    BY <1>2 DEF Live
  <2>1. db[r] \in Row /\ db[r].st = "live" /\ Shaped(db[r], unnamed)
    BY <1>2 DEF RowsOK, Live
  <2>2. db' = [db EXCEPT ![r] = x]
    BY <1>1, <1>2, <2>1 DEF RowsOK
  <2>3. /\ x \in Row /\ x.st = "live" /\ x.group = db[r].group /\ x.owner = db[r].owner
        /\ x.done = d /\ x.stamped = d
    BY <2>1 DEF Row
  <2>4. Shaped(x, unnamed')
    BY <2>1, <2>3 DEF Shaped, Grows
  <2>5. UniqueLogin(r, x)
    BY <1>2, <2>3 DEF RowsOK, OneRecordPerLogin, UniqueLogin, Live
  <2> QED BY <2>1, <2>2, <2>3, <2>4, <2>5 DEF Writes
<1>3. CASE checked \notin Live
  BY <1>1, <1>3 DEF Writes
<1> QED BY <1>2, <1>3

\* Whatever a step does, it writes one row at most and leaves the kind alone.
LEMMA StepWrites ==
  ASSUME RowsOK, [Next]_vars
  PROVE  Writes /\ kind' = kind /\ Grows
<1>1. ASSUME Others PROVE Writes /\ kind' = kind /\ Grows
  <2>1. kind' = kind
    BY <1>1 DEF Others
  <2>2. ASSUME NEW d \in Contents, Create(d), UNCHANGED unnamed PROVE Writes /\ Grows
    BY <2>2, CreateWrites DEF Grows, RowsOK
  <2>3. ASSUME NEW d \in Requests, NEW r \in Record, Update(r, d),
               unnamed' = (unnamed \/ (db[r].group /\ Unnamed(d)))
        PROVE  Writes /\ Grows
    <3> DEFINE turned == db[r].group /\ Unnamed(d)
    <3>1. unnamed \in BOOLEAN /\ unnamed' = (unnamed \/ turned)
      BY <2>3 DEF RowsOK
    <3>2. db[r].group \in BOOLEAN /\ Unnamed(d) \in BOOLEAN
      BY DEF RowsOK, Row, Unnamed
    <3>3. turned \in BOOLEAN
      BY <3>2
    <3> HIDE DEF turned
    <3>4. Grows /\ (turned => unnamed')
      BY <3>1, <3>3 DEF Grows
    <3> QED BY <2>3, <3>4, UpdateWrites DEF turned
  <2>4. ASSUME NEW r \in Record, SoftDelete(r) \/ Restore(r), UNCHANGED unnamed
        PROVE  Writes /\ Grows
    BY <2>4, SoftDeleteWrites, RestoreWrites DEF Grows, RowsOK
  <2> QED BY <1>1, <2>1, <2>2, <2>3, <2>4 DEF Others
<1>2. ASSUME ServeSave PROVE Writes /\ kind' = kind /\ Grows
  <2>1. PICK d \in Contents : IF save.id = None THEN Create(d) ELSE Update(save.id, d)
    BY <1>2 DEF ServeSave
  <2>2. kind' = kind /\ Grows
    BY <1>2 DEF ServeSave, Grows, RowsOK
  <2>3. CASE save.id = None
    BY <2>1, <2>2, <2>3, CreateWrites
  <2>4. CASE save.id # None /\ save.id \in Record
    BY <2>1, <2>2, <2>4, FormsAreNamed, UpdateWrites
  <2>5. CASE save.id # None /\ save.id \notin Record
    BY <2>1, <2>2, <2>5 DEF Update, Live, Writes
  <2> QED BY <2>3, <2>4, <2>5
<1>3. ASSUME ServeDelete PROVE Writes /\ kind' = kind /\ Grows
  <2>1. kind' = kind /\ Grows
    BY <1>3 DEF ServeDelete, Grows, RowsOK
  <2> QED BY <1>3, <2>1, SoftDeleteWrites DEF ServeDelete
<1>4. ASSUME WriteStatus PROVE Writes /\ kind' = kind /\ Grows
  <2>1. kind' = kind /\ Grows
    BY <1>4 DEF WriteStatus, Grows, RowsOK
  <2> QED BY <1>4, <2>1, StatusWrites
<1>5. ASSUME NEW r \in Record, OpenEdit(r) \/ FetchDetail(r) \/ DetailAnswered(r) \/ Delete(r)
      PROVE  Writes /\ kind' = kind /\ Grows
  BY <1>5 DEF OpenEdit, FetchDetail, DetailAnswered, Delete, Writes, Grows, RowsOK
<1>6. ASSUME NEW u \in User, NEW r \in Record, NEW b \in BOOLEAN, CheckStatus(u, r, b)
      PROVE  Writes /\ kind' = kind /\ Grows
  BY <1>6 DEF CheckStatus, Writes, Grows, RowsOK
<1>7. ASSUME \/ ServeLoad \/ LoadAnswered \/ OpenCreate \/ CloseForm \/ Save \/ FailSave
             \/ LoseSaved \/ Saved \/ FailDelete \/ Deleted
      PROVE  Writes /\ kind' = kind /\ Grows
  BY <1>7 DEF ServeLoad, LoadAnswered, OpenCreate, CloseForm, Save, FailSave, LoseSaved,
              Saved, FailDelete, Deleted, Writes, Grows, RowsOK
<1>8. ASSUME UNCHANGED vars PROVE Writes /\ kind' = kind /\ Grows
  BY <1>8 DEF vars, Writes, Grows, RowsOK
<1> QED BY <1>1, <1>2, <1>3, <1>4, <1>5, <1>6, <1>7, <1>8 DEF Next

LEMMA RowsInvariant == Spec => []RowsOK
<1>1. Init => RowsOK
  BY NoRowFacts DEF Init, RowsOK, Shaped, OneRecordPerLogin, Live
<1>2. RowsOK /\ [Next]_vars => RowsOK'
  BY StepWrites, WritesKeep
<1> QED BY <1>1, <1>2, PTL DEF Spec

\* A deleted record waits in the trash as it was: no answer, edit or status that
\* was under way when it was deleted changes it, only a restore brings it back.
THEOREM DeletedStaysUntouched == Spec => DeletedUntouched
<1>1. ASSUME RowsOK, [Next]_vars, NEW r \in Record, db[r].st = "deleted"
      PROVE  db'[r] \in {db[r], [db[r] EXCEPT !.st = "live"]}
  <2>1. Writes
    BY <1>1, StepWrites
  <2>2. CASE db' = db
    BY <2>2
  <2>3. CASE db' # db
    <3>1. PICK s \in Record, row \in Row :
            /\ db' = [db EXCEPT ![s] = row]
            /\ db[s].st = "deleted" => row = [db[s] EXCEPT !.st = "live"]
      BY <2>1, <2>3 DEF Writes
    <3>2. db'[s] = row /\ (s # r => db'[r] = db[r])
      BY <1>1, <3>1 DEF RowsOK
    <3> QED BY <1>1, <3>1, <3>2
  <2> QED BY <2>2, <2>3
<1>2. RowsOK /\ [Next]_vars =>
        [\A r \in Record : db[r].st = "deleted" => db'[r] \in {db[r], [db[r] EXCEPT !.st = "live"]}]_vars
  BY <1>1
<1> QED BY <1>2, RowsInvariant, PTL DEF Spec, DeletedUntouched

-----------------------------------------------------------------------------
(* The screen.                                                             *)

LEMMA IdleFacts == /\ Idle \in RequestType /\ Idle.st = "idle" /\ Idle.id = None /\ Idle.of = None
                   /\ Idle.mine = FALSE
BY DEF Idle, RequestType, Id

\* The form is opened.
LEMMA OpenedFacts ==
  ASSUME Screen, NEW id \in Id, NEW of \in Id, Opened(id, of)
  PROVE  /\ form' \in FormType /\ form'.open /\ form'.id = id /\ form'.of = of /\ form'.made = 0
         /\ save' \in RequestType /\ save'.st = save.st /\ save'.id = save.id
         /\ save'.of = save.of /\ save'.mine = FALSE
<1>1. form' = [open |-> TRUE, id |-> id, of |-> of, made |-> 0]
  BY DEF Opened
<1>2. form' \in FormType /\ form'.open /\ form'.id = id /\ form'.of = of /\ form'.made = 0
  BY <1>1 DEF FormType
<1>3. save' = [save EXCEPT !.mine = FALSE] /\ save \in RequestType
  BY DEF Opened, Screen, ScreenTyped
<1>4. /\ save' \in RequestType /\ save'.st = save.st /\ save'.id = save.id
      /\ save'.of = save.of /\ save'.mine = FALSE
  BY <1>3 DEF RequestType
<1> QED BY <1>2, <1>4

\* The form is closed; the id of what was edited stays.
LEMMA ClosedFacts ==
  ASSUME Screen, NEW f, f = [Closed EXCEPT !.id = form.id]
  PROVE  f \in FormType /\ f.open = FALSE /\ f.id = form.id /\ f.made = 0
<1>1. form.id \in Id
  BY DEF Screen, ScreenTyped, FormType
<1>2. Closed \in FormType /\ Closed.open = FALSE /\ Closed.made = 0
  BY DEF Closed, FormType, Id
<1> QED BY <1>1, <1>2 DEF FormType

LEMMA OpenCreateScreen ==
  ASSUME Screen, OpenCreate
  PROVE  Screen'
<1>1. /\ form' \in FormType /\ form'.open /\ form'.id = None /\ form'.of = None /\ form'.made = 0
      /\ save' \in RequestType /\ save'.st = save.st /\ save'.id = save.id
      /\ save'.of = save.of /\ save'.mine = FALSE
  BY OpenedFacts DEF OpenCreate, Id
<1>2. crossed' = (crossed \/ Fetching) /\ UNCHANGED <<kind, db, del, lists, detail, checked, excused>>
  BY DEF OpenCreate
<1>3. crossed' \in BOOLEAN
  BY <1>2
<1>4. ScreenTyped'
  BY <1>1, <1>2, <1>3 DEF Screen, ScreenTyped, lists
<1>5. ~crossed' => ~crossed /\ detail' = {}
  BY <1>2 DEF Fetching
<1>6. Shown'
  BY <1>1, <1>2, <1>5 DEF Screen, Shown
<1>7. Made'
  BY <1>1 DEF Made
<1>8. Seen'
  BY <1>1, <1>2 DEF Screen, Seen, lists
<1> QED BY <1>4, <1>6, <1>7, <1>8 DEF Screen

LEMMA OpenEditScreen ==
  ASSUME Screen, NEW r \in Record, OpenEdit(r)
  PROVE  Screen'
<1>1. /\ form' \in FormType /\ form'.open /\ form'.id = r /\ form'.of = r /\ form'.made = 0
      /\ save' \in RequestType /\ save'.st = save.st /\ save'.id = save.id
      /\ save'.of = save.of /\ save'.mine = FALSE
  BY OpenedFacts DEF OpenEdit, Id
<1>2. UNCHANGED <<kind, db, del, lists, detail, checked, excused, crossed>> /\ kind # "personnel"
  BY DEF OpenEdit
<1>3. ScreenTyped'
  BY <1>1, <1>2 DEF Screen, ScreenTyped, lists
<1>4. Shown'
  BY <1>1, <1>2 DEF Screen, Shown
<1>5. Made'
  BY <1>1 DEF Made
<1>6. Seen'
  BY <1>1, <1>2 DEF Screen, Seen, lists
<1> QED BY <1>3, <1>4, <1>5, <1>6 DEF Screen

LEMMA FetchDetailScreen ==
  ASSUME Screen, NEW r \in Record, FetchDetail(r)
  PROVE  Screen'
<1>1. /\ form' = [form EXCEPT !.id = r] /\ detail' = detail \cup {r}
      /\ crossed' = (crossed \/ Fetching) /\ kind = "personnel" /\ ~form.open
      /\ UNCHANGED <<kind, db, save, del, lists, checked, excused>>
  BY DEF FetchDetail
<1>2. form \in FormType
  BY DEF Screen, ScreenTyped
<1>3. form' \in FormType /\ form'.open = form.open /\ form'.id = r /\ form'.made = form.made
  BY <1>1, <1>2 DEF FormType, Id
<1>4. crossed' \in BOOLEAN
  BY <1>1
<1>5. ScreenTyped'
  BY <1>1, <1>3, <1>4 DEF Screen, ScreenTyped, lists
<1>6. ~crossed' => ~crossed /\ detail' = {r}
  BY <1>1 DEF Fetching
<1>7. Shown'
  BY <1>1, <1>3, <1>6 DEF Screen, Shown
<1>8. Made'
  BY <1>1, <1>3 DEF Screen, Made
<1>9. Seen'
  BY <1>1 DEF Screen, Seen, lists
<1> QED BY <1>5, <1>7, <1>8, <1>9 DEF Screen

LEMMA DetailAnsweredScreen ==
  ASSUME Screen, NEW r \in Record, DetailAnswered(r)
  PROVE  Screen'
<1>1. /\ r \in detail /\ detail' = detail \ {r}
      /\ UNCHANGED <<kind, db, del, lists, checked, excused, crossed>>
  BY DEF DetailAnswered
<1>2. CASE Opened(form.id, r)
  <2>1. form.id \in Id /\ r \in Id
    BY DEF Screen, ScreenTyped, FormType, Id
  <2>2. /\ form' \in FormType /\ form'.open /\ form'.id = form.id /\ form'.of = r /\ form'.made = 0
        /\ save' \in RequestType /\ save'.st = save.st /\ save'.id = save.id
        /\ save'.of = save.of /\ save'.mine = FALSE
    BY <1>2, <2>1, OpenedFacts
  <2>3. ScreenTyped'
    BY <1>1, <2>2 DEF Screen, ScreenTyped, lists
  <2>4. Shown'
    BY <1>1, <2>2 DEF Screen, Shown
  <2>5. Made'
    BY <2>2 DEF Made
  <2>6. Seen'
    BY <1>1, <2>2 DEF Screen, Seen, lists
  <2> QED BY <2>3, <2>4, <2>5, <2>6 DEF Screen
<1>3. CASE UNCHANGED <<form, save>>
  <2>1. ScreenTyped'
    BY <1>1, <1>3 DEF Screen, ScreenTyped, lists
  <2>2. Shown' /\ Made'
    BY <1>1, <1>3 DEF Screen, Shown, Made
  <2>3. Seen'
    BY <1>1, <1>3 DEF Screen, Seen, lists
  <2> QED BY <2>1, <2>2, <2>3 DEF Screen
<1> QED BY <1>2, <1>3 DEF DetailAnswered

LEMMA CloseFormScreen ==
  ASSUME Screen, CloseForm
  PROVE  Screen'
<1>1. UNCHANGED <<kind, db, del, lists, detail, checked, excused, crossed>>
  BY DEF CloseForm
<1>2. form' \in FormType /\ form'.open = FALSE /\ form'.id = form.id /\ form'.made = 0
  BY ClosedFacts DEF CloseForm
<1>3. save' = [save EXCEPT !.mine = FALSE] /\ save \in RequestType
  BY DEF CloseForm, Screen, ScreenTyped
<1>4. /\ save' \in RequestType /\ save'.st = save.st /\ save'.id = save.id
      /\ save'.of = save.of /\ save'.mine = FALSE
  BY <1>3 DEF RequestType
<1>5. ScreenTyped'
  BY <1>1, <1>2, <1>4 DEF Screen, ScreenTyped, lists
<1>6. Shown'
  BY <1>1, <1>2, <1>4 DEF Screen, Shown
<1>7. Made'
  BY <1>2, <1>4 DEF Made
<1>8. Seen'
  BY <1>1, <1>4 DEF Screen, Seen, lists
<1> QED BY <1>5, <1>6, <1>7, <1>8 DEF Screen

LEMMA SaveScreen ==
  ASSUME Screen, Save
  PROVE  Screen'
<1>1. /\ form.open /\ save.st = "idle" /\ form \in FormType
      /\ save' = [st |-> "sent", id |-> form.id, of |-> form.of, mine |-> TRUE]
      /\ UNCHANGED <<kind, db, form, del, lists, detail, checked, excused, crossed>>
  BY DEF Save, Screen, ScreenTyped
<1>2. save' \in RequestType /\ save'.st = "sent" /\ save'.id = form.id /\ save'.of = form.of
  BY <1>1 DEF FormType, RequestType
<1>3. ScreenTyped'
  BY <1>1, <1>2 DEF Screen, ScreenTyped, lists
<1>4. Shown'
  BY <1>1, <1>2 DEF Screen, Shown
<1>5. Made'
  BY <1>1, <1>2 DEF Screen, Made
<1>6. Seen'
  BY <1>1, <1>2 DEF Screen, Seen, lists
<1> QED BY <1>3, <1>4, <1>5, <1>6 DEF Screen

\* A write leaves no answer that calls the list up to date.
LEMMA StaleFacts ==
  ASSUME Screen, Stale
  PROVE  /\ fresh' \in BOOLEAN /\ asked' = asked /\ answers' \subseteq BOOLEAN
         /\ ~excused => (answers = {} => answers' = {}) /\ answers' \in {{}, {TRUE}, {FALSE}}
BY DEF Stale, Screen, Seen, ScreenTyped

LEMMA ServeSaveScreen ==
  ASSUME Screen, ServeSave
  PROVE  Screen'
<1>1. PICK made \in BOOLEAN : /\ made <=> save.id = None /\ save.mine
                              /\ save' = [Idle EXCEPT !.st = "ok", !.mine = made]
                              /\ form' = IF made THEN [form EXCEPT !.made = @ + 1] ELSE form
  BY DEF ServeSave
<1>2. Stale /\ save.st = "sent" /\ UNCHANGED <<kind, del, detail, checked, excused, crossed>>
  BY DEF ServeSave
<1>3. /\ fresh' \in BOOLEAN /\ asked' = asked /\ answers' \subseteq BOOLEAN
      /\ ~excused => (answers = {} => answers' = {}) /\ answers' \in {{}, {TRUE}, {FALSE}}
  BY <1>2, StaleFacts
<1>4. save' \in RequestType /\ save'.st = "ok" /\ save'.mine = made
  BY <1>1, IdleFacts DEF RequestType
<1>5. form \in FormType /\ form.made = 0
  BY <1>2 DEF Screen, ScreenTyped, Made
<1>6. /\ form' \in FormType /\ form'.open = form.open /\ form'.id = form.id /\ form'.of = form.of
      /\ form'.made = IF made THEN 1 ELSE 0
  BY <1>1, <1>5 DEF FormType
<1>7. ScreenTyped'
  BY <1>2, <1>3, <1>4, <1>6 DEF Screen, ScreenTyped
<1>8. Shown'
  BY <1>2, <1>4, <1>6 DEF Screen, Shown
<1>9. Made'
  BY <1>4, <1>6 DEF Made
<1>10. Seen'
  BY <1>2, <1>3, <1>4 DEF Screen, Seen
<1> QED BY <1>7, <1>8, <1>9, <1>10 DEF Screen

LEMMA FailSaveScreen ==
  ASSUME Screen, FailSave
  PROVE  Screen'
<1>1. /\ save.st = "sent" /\ save' = Idle
      /\ UNCHANGED <<kind, db, form, del, lists, detail, checked, excused, crossed>>
  BY DEF FailSave
<1>2. ScreenTyped'
  BY <1>1, IdleFacts DEF Screen, ScreenTyped, lists
<1>3. Shown'
  BY <1>1, IdleFacts DEF Screen, Shown
<1>4. Made'
  BY <1>1, IdleFacts DEF Screen, Made
<1>5. Seen'
  BY <1>1, IdleFacts DEF Screen, Seen, lists
<1> QED BY <1>2, <1>3, <1>4, <1>5 DEF Screen

LEMMA LoseSavedScreen ==
  ASSUME Screen, LoseSaved
  PROVE  Screen'
<1>1. /\ save.st = "ok" /\ save' = Idle /\ excused' = TRUE
      /\ form' = IF save.mine THEN [form EXCEPT !.made = @ - 1] ELSE form
      /\ UNCHANGED <<kind, db, del, lists, detail, checked, crossed>>
  BY DEF LoseSaved
<1>2. form \in FormType /\ form.made = IF save.mine THEN 1 ELSE 0
  BY <1>1 DEF Screen, ScreenTyped, Made
<1>3. /\ form' \in FormType /\ form'.open = form.open /\ form'.id = form.id /\ form'.of = form.of
      /\ form'.made = 0
  BY <1>1, <1>2 DEF FormType
<1>4. ScreenTyped'
  BY <1>1, <1>3, IdleFacts DEF Screen, ScreenTyped, lists
<1>5. Shown'
  BY <1>1, <1>3, IdleFacts DEF Screen, Shown
<1>6. Made'
  BY <1>1, <1>3, IdleFacts DEF Made
<1>7. Seen'
  BY <1>1 DEF Seen
<1> QED BY <1>4, <1>5, <1>6, <1>7 DEF Screen

\* A load: one that is alone is not excused and under way.
LEMMA LoadFacts ==
  ASSUME Screen, Load
  PROVE  /\ asked' \in 0..2 /\ excused' \in BOOLEAN /\ answers' = answers /\ fresh' = fresh
         /\ ~excused' => asked' = 1 /\ answers' = {}
<1>1. /\ asked + Cardinality(answers) < 2 /\ asked' = asked + 1 /\ UNCHANGED <<answers, fresh>>
      /\ excused' = (asked > 0 \/ answers # {})
  BY DEF Load
<1>2. asked \in 0..2 /\ answers \subseteq BOOLEAN
  BY DEF Screen, ScreenTyped
<1>3. IsFiniteSet(BOOLEAN)
  <2>1. BOOLEAN = {TRUE} \cup {FALSE}
    OBVIOUS
  <2>2. IsFiniteSet({TRUE} \cup {FALSE})
    BY FS_Singleton, FS_AddElement
  <2> QED BY <2>1, <2>2, Zenon
<1>4. Cardinality(answers) \in Nat
  BY <1>2, <1>3, FS_Subset, FS_CardinalityType
<1>5. asked < 2
  BY <1>1, <1>2, <1>4
<1>6. excused' \in BOOLEAN
  BY <1>1
<1>7. ASSUME ~excused' PROVE asked = 0 /\ answers = {}
  <2>1. ~(asked > 0) /\ answers = {}
    BY <1>1, <1>7, Zenon
  <2> QED BY <1>2, <2>1
<1> QED BY <1>1, <1>2, <1>5, <1>6, <1>7

LEMMA SavedScreen ==
  ASSUME Screen, Saved
  PROVE  Screen'
<1>1. save' = Idle /\ Load /\ UNCHANGED <<kind, db, del, detail, checked, crossed>>
  BY DEF Saved
<1>2. form' \in FormType /\ form'.open = FALSE /\ form'.id = form.id /\ form'.made = 0
  BY ClosedFacts DEF Saved
<1>3. /\ asked' \in 0..2 /\ excused' \in BOOLEAN /\ answers' = answers /\ fresh' = fresh
      /\ ~excused' => asked' = 1 /\ answers' = {}
  BY <1>1, LoadFacts
<1>4. ScreenTyped'
  BY <1>1, <1>2, <1>3, IdleFacts DEF Screen, ScreenTyped
<1>5. Shown'
  BY <1>1, <1>2, IdleFacts DEF Screen, Shown
<1>6. Made'
  BY <1>1, <1>2, IdleFacts DEF Made
<1>7. Seen'
  BY <1>3 DEF Seen
<1> QED BY <1>4, <1>5, <1>6, <1>7 DEF Screen

LEMMA DeletedScreen ==
  ASSUME Screen, Deleted
  PROVE  Screen'
<1>1. del' = Idle /\ Load /\ UNCHANGED <<kind, db, form, save, detail, checked, crossed>>
  BY DEF Deleted
<1>2. /\ asked' \in 0..2 /\ excused' \in BOOLEAN /\ answers' = answers /\ fresh' = fresh
      /\ ~excused' => asked' = 1 /\ answers' = {}
  BY <1>1, LoadFacts
<1>3. ScreenTyped'
  BY <1>1, <1>2, IdleFacts DEF Screen, ScreenTyped
<1>4. Shown' /\ Made'
  BY <1>1 DEF Screen, Shown, Made
<1>5. Seen'
  BY <1>2 DEF Seen
<1> QED BY <1>3, <1>4, <1>5 DEF Screen

LEMMA DeleteScreen ==
  ASSUME Screen, NEW r \in Record, Delete(r)
  PROVE  Screen'
<1>1. /\ del = Idle /\ del' = [Idle EXCEPT !.st = "sent", !.id = r]
      /\ UNCHANGED <<kind, db, form, save, lists, detail, checked, excused, crossed>>
  BY DEF Delete
<1>2. del' \in RequestType /\ del'.st = "sent"
  BY <1>1, IdleFacts DEF RequestType, Id
<1>3. ScreenTyped'
  BY <1>1, <1>2 DEF Screen, ScreenTyped, lists
<1>4. Shown' /\ Made'
  BY <1>1 DEF Screen, Shown, Made
<1>5. Seen'
  BY <1>1, <1>2, IdleFacts DEF Screen, Seen, lists
<1> QED BY <1>3, <1>4, <1>5 DEF Screen

LEMMA ServeDeleteScreen ==
  ASSUME Screen, ServeDelete
  PROVE  Screen'
<1>1. /\ del' = [Idle EXCEPT !.st = "ok"] /\ Stale
      /\ UNCHANGED <<kind, form, save, detail, checked, excused, crossed>>
  BY DEF ServeDelete
<1>2. del' \in RequestType /\ del'.st = "ok"
  BY <1>1, IdleFacts DEF RequestType
<1>3. /\ fresh' \in BOOLEAN /\ asked' = asked /\ answers' \subseteq BOOLEAN
      /\ ~excused => (answers = {} => answers' = {}) /\ answers' \in {{}, {TRUE}, {FALSE}}
  BY <1>1, StaleFacts
<1>4. ScreenTyped'
  BY <1>1, <1>2, <1>3 DEF Screen, ScreenTyped
<1>5. Shown' /\ Made'
  BY <1>1 DEF Screen, Shown, Made
<1>6. Seen'
  BY <1>1, <1>2, <1>3 DEF Screen, Seen
<1> QED BY <1>4, <1>5, <1>6 DEF Screen

LEMMA FailDeleteScreen ==
  ASSUME Screen, FailDelete
  PROVE  Screen'
<1>1. /\ del' = Idle /\ excused' = (excused \/ del.st = "ok")
      /\ UNCHANGED <<kind, db, form, save, lists, detail, checked, crossed>>
  BY DEF FailDelete
<1>2. excused' \in BOOLEAN /\ (~excused' => ~excused /\ del.st # "ok")
  BY <1>1
<1>3. ScreenTyped'
  BY <1>1, <1>2, IdleFacts DEF Screen, ScreenTyped, lists
<1>4. Shown' /\ Made'
  BY <1>1 DEF Screen, Shown, Made
<1>5. Seen'
  BY <1>1, <1>2 DEF Screen, Seen, lists
<1> QED BY <1>3, <1>4, <1>5 DEF Screen

LEMMA ServeLoadScreen ==
  ASSUME Screen, ServeLoad
  PROVE  Screen'
<1>1. /\ asked > 0 /\ asked' = asked - 1
      /\ UNCHANGED <<kind, db, form, save, del, detail, checked, fresh, crossed>>
      /\ \/ answers' = answers \cup {TRUE} /\ excused' = excused
         \/ answers' = answers /\ excused' = TRUE
  BY DEF ServeLoad
<1>2. asked \in 0..2 /\ answers \subseteq BOOLEAN /\ excused \in BOOLEAN
  BY DEF Screen, ScreenTyped
<1>3. asked' \in 0..2 /\ answers' \subseteq BOOLEAN /\ excused' \in BOOLEAN
  <2>1. asked' \in 0..2
    BY <1>1, <1>2
  <2>2. answers' \subseteq BOOLEAN
    BY <1>1, <1>2
  <2>3. excused' \in BOOLEAN
    BY <1>1, <1>2
  <2> QED BY <2>1, <2>2, <2>3
<1>4. ScreenTyped'
  BY <1>1, <1>3 DEF Screen, ScreenTyped
<1>5. Shown' /\ Made'
  BY <1>1 DEF Screen, Shown, Made
<1>6. ASSUME ~excused' PROVE asked' = 0 /\ answers' = {TRUE}
  <2>1. answers' = answers \cup {TRUE} /\ excused' = excused
    BY <1>1, <1>6, Zenon
  <2>2. asked = 0 \/ (asked = 1 /\ answers = {})
    BY <1>6, <2>1, Zenon DEF Screen, Seen
  <2>3. asked = 1 /\ answers = {}
    BY <1>1, <2>2
  <2> QED BY <1>1, <2>1, <2>3
<1>7. Seen'
  BY <1>6 DEF Seen
<1> QED BY <1>4, <1>5, <1>7 DEF Screen

LEMMA LoadAnsweredScreen ==
  ASSUME Screen, LoadAnswered
  PROVE  Screen'
<1>1. PICK f \in answers : fresh' = f /\ answers' = answers \ {f}
  BY DEF LoadAnswered
<1>2. UNCHANGED <<kind, db, form, save, del, asked, detail, checked, excused, crossed>>
  BY DEF LoadAnswered
<1>3. ScreenTyped'
  BY <1>1, <1>2 DEF Screen, ScreenTyped
<1>4. Shown' /\ Made'
  BY <1>2 DEF Screen, Shown, Made
<1>5. ASSUME ~excused
      PROVE  /\ asked = 0 /\ answers' = {}
             /\ save.st = "ok" \/ del.st = "ok" \/ fresh'
  <2>1. /\ asked = 0 \/ (asked = 1 /\ answers = {})
        /\ answers \in {{}, {TRUE}, {FALSE}}
        /\ save.st = "ok" \/ del.st = "ok" \/ asked = 1 \/ answers = {TRUE} \/ (answers = {} /\ fresh)
    BY <1>5, Zenon DEF Screen, Seen
  <2>2. answers # {}
    BY <1>1
  <2>3. asked = 0 /\ answers \in {{TRUE}, {FALSE}}
    BY <2>1, <2>2
  <2>4. answers' = {}
    BY <1>1, <2>3
  <2>5. answers = {TRUE} => f = TRUE
    BY <1>1
  <2>6. asked # 1
    BY <2>3
  <2>7. save.st = "ok" \/ del.st = "ok" \/ answers = {TRUE}
    BY <2>1, <2>2, <2>6, Zenon
  <2> QED BY <1>1, <2>3, <2>4, <2>5, <2>7
<1>6. Seen'
  BY <1>2, <1>5 DEF Seen
<1> QED BY <1>3, <1>4, <1>6 DEF Screen

\* Steps of others: only the table and the task whose status is being set.
LEMMA OthersScreen ==
  ASSUME Screen, checked' \in Id,
         UNCHANGED <<kind, form, save, del, lists, detail, excused, crossed>>
  PROVE  Screen'
<1>1. ScreenTyped'
  BY DEF Screen, ScreenTyped, lists
<1>2. Shown' /\ Made'
  BY DEF Screen, Shown, Made
<1>3. Seen'
  BY DEF Screen, Seen, lists
<1> QED BY <1>1, <1>2, <1>3 DEF Screen

LEMMA ScreenKeeps == Screen /\ [Next]_vars => Screen'
<1> SUFFICES ASSUME Screen, [Next]_vars PROVE Screen'
  OBVIOUS
<1>1. checked \in Id
  BY DEF Screen, ScreenTyped
<1>2. ASSUME NEW r \in Record, OpenEdit(r) \/ FetchDetail(r) \/ DetailAnswered(r) \/ Delete(r)
      PROVE  Screen'
  BY <1>2, OpenEditScreen, FetchDetailScreen, DetailAnsweredScreen, DeleteScreen
<1>3. ASSUME NEW u \in User, NEW r \in Record, NEW b \in BOOLEAN, CheckStatus(u, r, b) PROVE Screen'
  <2>1. checked' \in Id
    BY <1>3 DEF CheckStatus, Id
  <2> QED BY <1>3, <2>1, OthersScreen DEF CheckStatus
<1>4. ASSUME WriteStatus PROVE Screen'
  <2>1. checked' \in Id
    BY <1>4 DEF WriteStatus, Id
  <2> QED BY <1>4, <2>1, OthersScreen DEF WriteStatus
<1>5. ASSUME Others PROVE Screen'
  BY <1>1, <1>5, OthersScreen DEF Others
<1>6. ASSUME UNCHANGED vars PROVE Screen'
  BY <1>1, <1>6, OthersScreen DEF vars
<1>7. ASSUME \/ ServeLoad \/ LoadAnswered \/ OpenCreate \/ CloseForm \/ Save \/ ServeSave
             \/ FailSave \/ LoseSaved \/ Saved \/ ServeDelete \/ FailDelete \/ Deleted
      PROVE  Screen'
  BY <1>7, ServeLoadScreen, LoadAnsweredScreen, OpenCreateScreen, CloseFormScreen, SaveScreen,
     ServeSaveScreen, FailSaveScreen, LoseSavedScreen, SavedScreen, ServeDeleteScreen,
     FailDeleteScreen, DeletedScreen
<1> QED BY <1>2, <1>3, <1>4, <1>5, <1>6, <1>7 DEF Next

LEMMA InitScreen == Init => Screen
<1> SUFFICES ASSUME Init PROVE Screen
  OBVIOUS
<1>1. Closed \in FormType /\ Closed.open = FALSE /\ Closed.made = 0
  BY DEF Closed, FormType, Id
<1>2. ScreenTyped
  <2>1. form \in FormType /\ save \in RequestType /\ del \in RequestType
    BY <1>1, IdleFacts DEF Init
  <2>2. asked \in 0..2 /\ answers \subseteq BOOLEAN /\ detail \subseteq Record /\ checked \in Id
    BY DEF Init, Id
  <2>3. fresh \in BOOLEAN /\ excused \in BOOLEAN /\ crossed \in BOOLEAN
    BY DEF Init
  <2> QED BY <2>1, <2>2, <2>3 DEF ScreenTyped
<1>3. Shown /\ Made /\ Seen
  BY <1>1, IdleFacts DEF Init, Shown, Made, Seen
<1> QED BY <1>2, <1>3 DEF Screen

LEMMA Invariance == Spec => []IInv
<1>1. Spec => []Screen
  BY InitScreen, ScreenKeeps, PTL DEF Spec
<1> QED BY <1>1, RowsInvariant, PTL DEF IInv

-----------------------------------------------------------------------------
(* What follows from the invariant.                                        *)

\* "A personal task needs an assignee", a group task has none, and a login
\* belongs to one live personnel record, whatever was edited, restored or set
\* meanwhile by requests that read the record earlier.
THEOREM RowsAreSound == Spec => []RowsSound
<1>1. ASSUME IInv PROVE TypeOK
  <2>1. ASSUME NEW r \in Record
        PROVE  (db[r].st \in {"live", "deleted"} \/ db[r] = NoRow) /\ db[r].owner \in User \cup {None}
    <3>1. db[r] \in Row
      BY <1>1 DEF IInv, RowsOK
    <3> QED BY <1>1, <3>1 DEF IInv, RowsOK, Row
  <2>2. form \in FormType /\ save \in RequestType /\ del \in RequestType
    BY <1>1 DEF IInv, Screen, ScreenTyped
  <2>3. /\ form.id \in Record \cup {None} /\ form.of \in Record \cup {None} /\ form.made \in Nat
        /\ save.st \in {"idle", "sent", "ok"} /\ del.st \in {"idle", "sent", "ok"}
    BY <2>2 DEF FormType, RequestType, Id
  <2> QED BY <1>1, <2>1, <2>3 DEF TypeOK, IInv, RowsOK, Screen, ScreenTyped
<1>2. ASSUME IInv PROVE TaskShape
  BY <1>2 DEF IInv, RowsOK, Shaped, TaskShape
<1>3. IInv => RowsSound
  BY <1>1, <1>2 DEF RowsSound, IInv, RowsOK
<1> QED BY <1>3, Invariance, PTL

\* A save writes the record that the form was filled with: through any openings,
\* closings and late answers that do not cross.
THEOREM SavesWhatItShows == Spec => []SavesWhatIsShown
<1>1. IInv => SavesWhatIsShown
  BY DEF IInv, Screen, Shown, SavesWhatIsShown
<1> QED BY <1>1, Invariance, PTL

\* One opening of the form creates one record at most that its answer tells of.
THEOREM FormsCreateOnce == Spec => []OneCreatePerForm
<1>1. IInv => OneCreatePerForm
  BY DEF IInv, Screen, Made, OneCreatePerForm
<1> QED BY <1>1, Invariance, PTL

\* A screen at rest shows what its user wrote, if no loads overlapped or failed.
THEOREM WritesAreShown == Spec => []OwnWritesShown
<1>1. ASSUME IInv, save = Idle, del = Idle, asked = 0, answers = {}, ~excused PROVE fresh
  <2>1. save.st # "ok" /\ del.st # "ok" /\ asked # 1
    BY <1>1, IdleFacts
  <2>2. answers # {TRUE}
    BY <1>1
  <2> QED BY <1>1, <2>1, <2>2, Zenon DEF IInv, Screen, Seen
<1>2. IInv => OwnWritesShown
  BY <1>1 DEF OwnWritesShown
<1> QED BY <1>2, Invariance, PTL

-----------------------------------------------------------------------------
(* The tab: types, and what each part of its state says of the others.     *)

Flights    == Call \cup {Page}
CallType   == [pc : {"idle", "sent", "wait"}, good : BOOLEAN, retry : BOOLEAN, by : Call \cup {Null}]
FlightType == [st : {"none", "sent", "ok", "no"}, jar : {"none", "current", "old"},
               of : Profile \cup {Null}]
AccessType == [of : Profile, good : BOOLEAN]

ServerTyped == who \in Profile /\ alive \in BOOLEAN
ShownTyped  == /\ me \in Profile \cup {Null} /\ page \in {"start", "boot", "up"}
               /\ at \in DOMAIN Routes \cup {"blank", "login"}
               /\ going \in DOMAIN Routes \cup {"login", Null}
TokensTyped == /\ jar \in {"none", "current", "old"} /\ access \in AccessType \cup {Null}
               /\ calls \in [Call -> CallType] /\ flight \in [Flights -> FlightType]
FlagsTyped  == /\ fetch \in {"none", "restore", "login", "profile"}
               /\ out \in {"no", "pending", "clean"} /\ leaving \in BOOLEAN /\ lost \in BOOLEAN

TabTyped == ServerTyped /\ ShownTyped /\ TokensTyped /\ FlagsTyped

\* Before restore nothing is under way, and until the page is up only restore.
Phases ==
  /\ page # "up" => at = "blank" /\ Flying \subseteq {Page} /\ \A c \in Call : calls[c].pc = "idle"
  /\ page = "start" => Flying = {} /\ fetch = "none" /\ out # "pending"
  /\ Page \in Flying => page = "boot" /\ fetch = "none"

\* One refresh at a time, and what it brings is the current token.
OneRefresh ==
  /\ \A f, g \in Flying : f = g
  /\ \A f \in Flying : flight[f].st = "ok" => flight[f].jar = "current" /\ flight[f].of \in Profile

\* While the session lives and no answer was lost, no token that was rotated
\* away is presented, and one in the jar is about to be replaced.
Fresh ==
  alive /\ ~lost =>
    /\ \A f \in Flying : flight[f].st = "sent" => flight[f].jar # "old"
    /\ jar = "old" => \E f \in Flying : flight[f].st = "ok"

\* A logout that met no refresh has ended the session, and no answer that is
\* still under way brings a cookie back.
LogoutMet ==
  /\ out = "pending" => ~alive /\ Flying = {}
  /\ out = "clean" => ~alive /\ jar = "none" /\ \A f \in Flying : flight[f].st # "ok"

TabInv == TabTyped /\ Phases /\ OneRefresh /\ Fresh /\ LogoutMet

-----------------------------------------------------------------------------
(* One refresh at a time.                                                  *)

LEMMA FlightFacts ==
  /\ NoFlight \in FlightType /\ NoFlight.st = "none"
  /\ \A j \in {"none", "current", "old"} : Sent(j) \in FlightType /\ Sent(j).st = "sent" /\ Sent(j).jar = j
BY DEF NoFlight, Sent, FlightType

LEMMA FailedFacts ==
  /\ [NoFlight EXCEPT !.st = "no"] \in FlightType
  /\ [NoFlight EXCEPT !.st = "no"].st = "no"
BY DEF NoFlight, FlightType

\* The one flight that is under way, if any, is f, and it becomes x.
LEMMA OnlyFlight ==
  ASSUME flight \in [Flights -> FlightType], NEW f \in Flights, Flying \subseteq {f},
         NEW x \in FlightType, flight' = [flight EXCEPT ![f] = x]
  PROVE  /\ flight' \in [Flights -> FlightType] /\ flight'[f] = x
         /\ Flying' = IF x.st = "none" THEN {} ELSE {f}
<1>1. flight' \in [Flights -> FlightType] /\ flight'[f] = x
  OBVIOUS
<1>2. \A g \in Flights \ {f} : flight'[g] = flight[g] /\ flight[g].st = "none"
  BY DEF Flying, Flights
<1>3. Flying' = IF x.st = "none" THEN {} ELSE {f}
  BY <1>1, <1>2 DEF Flying, Flights
<1> QED BY <1>1, <1>3

\* Whoever is flying is the only one.
LEMMA FlyingIsOnly ==
  ASSUME TabInv, NEW f \in Flights, flight[f].st # "none"
  PROVE  Flying = {f}
<1>1. f \in Flying
  BY DEF Flying, Flights
<1> QED BY <1>1 DEF TabInv, OneRefresh


LEMMA NoCallFacts == NoCall \in CallType /\ NoCall.pc = "idle"
BY DEF NoCall, CallType

\* A busy call or a screen that is shown: the page is up and its own refresh over.
LEMMA PageIsUp ==
  ASSUME TabInv, at # "blank" \/ \E c \in Call : calls[c].pc # "idle"
  PROVE  page = "up" /\ Page \notin Flying
BY DEF TabInv, Phases

-----------------------------------------------------------------------------
(* The server.                                                             *)

LEMMA ChangeGrantsKeeps == TabInv /\ ChangeGrants => TabInv'
<1> SUFFICES ASSUME TabInv, ChangeGrants PROVE TabInv'
  OBVIOUS
<1> USE DEF shown
<1>1. /\ who' \in Profile
      /\ UNCHANGED <<alive, jar, access, shown, calls, flight, fetch, leaving, lost, out>>
  BY DEF ChangeGrants
<1>2. TabTyped'
  <2>1. ServerTyped' /\ ShownTyped'
    BY <1>1 DEF TabInv, TabTyped, ServerTyped, ShownTyped
  <2>2. TokensTyped' /\ FlagsTyped'
    BY <1>1 DEF TabInv, TabTyped, TokensTyped, FlagsTyped
  <2> QED BY <2>1, <2>2 DEF TabTyped
<1>3. Phases' /\ OneRefresh'
  BY <1>1 DEF TabInv, Phases, OneRefresh, Flying
<1>4. Fresh' /\ LogoutMet'
  BY <1>1 DEF TabInv, Fresh, LogoutMet, Flying
<1> QED BY <1>2, <1>3, <1>4 DEF TabInv

LEMMA EndSessionKeeps == TabInv /\ EndSession => TabInv'
<1> SUFFICES ASSUME TabInv, EndSession PROVE TabInv'
  OBVIOUS
<1> USE DEF shown
<1>1. /\ alive' = FALSE
      /\ UNCHANGED <<who, jar, access, shown, calls, flight, fetch, leaving, lost, out>>
  BY DEF EndSession
<1>2. TabTyped'
  <2>1. ServerTyped' /\ ShownTyped'
    BY <1>1 DEF TabInv, TabTyped, ServerTyped, ShownTyped
  <2>2. TokensTyped' /\ FlagsTyped'
    BY <1>1 DEF TabInv, TabTyped, TokensTyped, FlagsTyped
  <2> QED BY <2>1, <2>2 DEF TabTyped
<1>3. Phases' /\ OneRefresh'
  BY <1>1 DEF TabInv, Phases, OneRefresh, Flying
<1>4. Fresh' /\ LogoutMet'
  BY <1>1 DEF TabInv, Fresh, LogoutMet, Flying
<1> QED BY <1>2, <1>3, <1>4 DEF TabInv

\* Steps of the calls alone: a call that was idle is busy only while the page is up.
LEMMA CallsKeep ==
  ASSUME TabInv, calls' \in [Call -> CallType], access' \in AccessType \cup {Null},
         page = "up" \/ \A c \in Call : calls'[c].pc = calls[c].pc,
         UNCHANGED <<server, jar, shown, flight, fetch, leaving, lost, out>>
  PROVE  TabInv'
<1> USE DEF server, shown
<1>1. TabTyped'
  <2>1. ServerTyped' /\ ShownTyped'
    BY DEF TabInv, TabTyped, ServerTyped, ShownTyped
  <2>2. TokensTyped' /\ FlagsTyped'
    BY DEF TabInv, TabTyped, TokensTyped, FlagsTyped
  <2> QED BY <2>1, <2>2 DEF TabTyped
<1>2. Phases' /\ OneRefresh'
  BY DEF TabInv, Phases, OneRefresh, Flying
<1>3. Fresh' /\ LogoutMet'
  BY DEF TabInv, Fresh, LogoutMet, Flying
<1> QED BY <1>1, <1>2, <1>3 DEF TabInv

LEMMA AccessExpiresKeeps == TabInv /\ AccessExpires => TabInv'
<1> SUFFICES ASSUME TabInv, AccessExpires PROVE TabInv'
  OBVIOUS
<1>1. calls \in [Call -> CallType] /\ access \in AccessType /\ access' = [access EXCEPT !.good = FALSE]
  BY DEF TabInv, TabTyped, TokensTyped, AccessExpires
<1>2. access' \in AccessType
  BY <1>1 DEF AccessType
<1>3. ASSUME NEW c \in Call
      PROVE  calls'[c] \in CallType /\ calls'[c].pc = calls[c].pc
  <2>1. calls[c] \in CallType /\ calls'[c] = [calls[c] EXCEPT !.good = @ /\ calls[c].retry]
    BY <1>1 DEF AccessExpires
  <2> SUFFICES ASSUME NEW x \in CallType, NEW y \in BOOLEAN
               PROVE  [x EXCEPT !.good = y] \in CallType /\ [x EXCEPT !.good = y].pc = x.pc
    BY <2>1
  <2> QED BY DEF CallType
<1>4. calls' \in [Call -> CallType]
  BY <1>3 DEF AccessExpires
<1> QED BY <1>2, <1>3, <1>4, CallsKeep DEF AccessExpires

LEMMA SettleKeeps == \A c \in Call : TabInv /\ Settle(c) => TabInv'
<1> SUFFICES ASSUME TabInv, NEW c \in Call, Settle(c) PROVE TabInv'
  OBVIOUS
<1>1. page = "up"
  BY PageIsUp DEF Settle
<1>2. calls' \in [Call -> CallType] /\ access' \in AccessType \cup {Null}
  BY NoCallFacts DEF TabInv, TabTyped, TokensTyped, Settle
<1> QED BY <1>1, <1>2, CallsKeep DEF Settle

LEMMA StartCallKeeps == \A c \in Call : TabInv /\ StartCall(c) => TabInv'
<1> SUFFICES ASSUME TabInv, NEW c \in Call, StartCall(c) PROVE TabInv'
  OBVIOUS
<1>1. at # "blank"
  BY DEF StartCall, Routes
<1>2. PICK b : /\ b \in BOOLEAN /\ b = (access # Null /\ access.good)
  OBVIOUS
<1>3. [NoCall EXCEPT !.pc = "sent", !.good = b] \in CallType
  BY <1>2 DEF NoCall, CallType
<1>4. calls' \in [Call -> CallType] /\ access' \in AccessType \cup {Null}
  BY <1>2, <1>3 DEF TabInv, TabTyped, TokensTyped, StartCall
<1> QED BY <1>1, <1>4, PageIsUp, CallsKeep DEF StartCall

\* What a refresh that is under way excludes.
LEMMA FlyingFacts ==
  ASSUME TabInv, NEW f \in Flights, flight[f].st # "none"
  PROVE  /\ Flying = {f} /\ out # "pending"
         /\ f \in Call => page = "up"
         /\ f = Page => page = "boot" /\ fetch = "none"
         /\ flight[f].st = "ok" => flight[f].jar = "current" /\ flight[f].of \in Profile /\ out # "clean"
         /\ alive /\ ~lost /\ flight[f].st # "ok" => jar # "old"
<1>1. Flying = {f}
  BY FlyingIsOnly
<1> QED BY <1>1, ClientAssumption DEF TabInv, Phases, OneRefresh, Fresh, LogoutMet

LEMMA RotateKeeps == \A f \in Flights : TabInv /\ Rotate(f) => TabInv'
<1> SUFFICES ASSUME TabInv, NEW f \in Flights, Rotate(f) PROVE TabInv'
  OBVIOUS
<1>1. /\ flight[f].st = "sent" /\ flight \in [Flights -> FlightType]
      /\ UNCHANGED <<who, access, me, page, at, going, calls, fetch, leaving, lost, out>>
  BY DEF Rotate, shown, TabInv, TabTyped, TokensTyped
<1>2. Flying = {f} /\ out # "pending" /\ (alive /\ ~lost => jar # "old")
  BY <1>1, FlyingFacts
<1>3. CASE alive /\ flight[f].jar = "current"
  <2> DEFINE x == [st |-> "ok", jar |-> "current", of |-> IssuedFor]
  <2>1. /\ flight' = [g \in Call \cup {Page} |->
                        IF g = f THEN x ELSE [flight[g] EXCEPT !.jar = Aged(@)]]
        /\ jar' = Aged(jar) /\ alive' = alive
    BY <1>3 DEF Rotate
  <2>2. x \in FlightType /\ x.st = "ok" /\ x.jar = "current" /\ x.of \in Profile
    BY DEF IssuedFor, FlightType, TabInv, TabTyped, ServerTyped
  <2> HIDE DEF x
  <2>3. ASSUME NEW y \in FlightType
        PROVE  [y EXCEPT !.jar = Aged(@)] \in FlightType /\ [y EXCEPT !.jar = Aged(@)].st = y.st
    BY DEF FlightType, Aged
  <2>4. flight' \in [Flights -> FlightType] /\ flight'[f] = x
    BY <1>1, <2>1, <2>2, <2>3 DEF Flights
  <2>5. \A g \in Flights \ {f} : flight'[g].st = flight[g].st
    BY <1>1, <2>1, <2>3 DEF Flights
  <2>6. Flying' = {f}
    BY <1>2, <2>2, <2>4, <2>5 DEF Flying, Flights
  <2>7. jar' \in {"none", "current", "old"}
    BY <2>1 DEF Aged, TabInv, TabTyped, TokensTyped
  <2>8. TabTyped'
    <3>1. ServerTyped' /\ ShownTyped' /\ FlagsTyped'
      BY <1>1, <2>1 DEF TabInv, TabTyped, ServerTyped, ShownTyped, FlagsTyped
    <3>2. TokensTyped'
      BY <1>1, <2>4, <2>7 DEF TabInv, TabTyped, TokensTyped
    <3> QED BY <3>1, <3>2 DEF TabTyped
  <2>9. Phases' /\ OneRefresh'
    BY <1>1, <1>2, <2>2, <2>4, <2>6 DEF TabInv, Phases, OneRefresh
  <2>10. Fresh' /\ LogoutMet'
    BY <1>1, <1>2, <1>3, <2>2, <2>4, <2>6 DEF TabInv, Fresh, LogoutMet
  <2> QED BY <2>8, <2>9, <2>10 DEF TabInv
<1>4. CASE ~(alive /\ flight[f].jar = "current")
  <2> DEFINE x == [NoFlight EXCEPT !.st = "no"]
  <2>1. /\ flight' = [flight EXCEPT ![f] = x]
        /\ alive' = (alive /\ flight[f].jar # "old") /\ jar' = jar
    BY <1>4 DEF Rotate
  <2>2. x \in FlightType /\ x.st = "no"
    BY FailedFacts
  <2> HIDE DEF x
  <2>3. flight' \in [Flights -> FlightType] /\ flight'[f] = x /\ Flying' = {f}
    BY <1>1, <1>2, <2>1, <2>2, OnlyFlight
  <2>4. alive' \in BOOLEAN /\ (alive' => alive)
    BY <2>1 DEF TabInv, TabTyped, ServerTyped
  <2>5. TabTyped'
    <3>1. ServerTyped' /\ ShownTyped' /\ FlagsTyped'
      BY <1>1, <2>4 DEF TabInv, TabTyped, ServerTyped, ShownTyped, FlagsTyped
    <3>2. TokensTyped'
      BY <1>1, <2>1, <2>3 DEF TabInv, TabTyped, TokensTyped
    <3> QED BY <3>1, <3>2 DEF TabTyped
  <2>6. Phases' /\ OneRefresh'
    BY <1>1, <1>2, <2>2, <2>3 DEF TabInv, Phases, OneRefresh
  <2>7. Fresh' /\ LogoutMet'
    BY <1>1, <1>2, <2>1, <2>2, <2>3, <2>4 DEF TabInv, Fresh, LogoutMet
  <2> QED BY <2>5, <2>6, <2>7 DEF TabInv
<1> QED BY <1>3, <1>4

LEMMA LoseKeeps == \A f \in Flights : TabInv /\ Lose(f) => TabInv'
<1> SUFFICES ASSUME TabInv, NEW f \in Flights, Lose(f) PROVE TabInv'
  OBVIOUS
<1> DEFINE x == [NoFlight EXCEPT !.st = "no"]
<1>1. /\ flight[f].st # "none" /\ flight \in [Flights -> FlightType]
      /\ flight' = [flight EXCEPT ![f] = x] /\ lost' = TRUE
      /\ UNCHANGED <<server, jar, access, shown, calls, fetch, leaving, out>>
  BY DEF Lose, TabInv, TabTyped, TokensTyped
<1>2. Flying = {f} /\ out # "pending"
  BY <1>1, FlyingFacts
<1>3. x \in FlightType /\ x.st = "no"
  BY FailedFacts
<1> HIDE DEF x
<1>4. flight' \in [Flights -> FlightType] /\ flight'[f] = x /\ Flying' = {f}
  BY <1>1, <1>2, <1>3, OnlyFlight
<1>5. TabTyped'
  <2>1. ServerTyped' /\ ShownTyped' /\ FlagsTyped'
    BY <1>1 DEF TabInv, TabTyped, ServerTyped, ShownTyped, FlagsTyped, server, shown
  <2>2. TokensTyped'
    BY <1>1, <1>4 DEF TabInv, TabTyped, TokensTyped
  <2> QED BY <2>1, <2>2 DEF TabTyped
<1>6. Phases' /\ OneRefresh'
  BY <1>1, <1>2, <1>3, <1>4 DEF TabInv, Phases, OneRefresh, shown
<1>7. Fresh' /\ LogoutMet'
  BY <1>1, <1>2, <1>3, <1>4 DEF TabInv, Fresh, LogoutMet, server
<1> QED BY <1>5, <1>6, <1>7 DEF TabInv

-----------------------------------------------------------------------------
(* The client of the API.                                                  *)

\* A refresh starts with the token in the jar: it is not one that was rotated away.
LEMMA StartedKeeps ==
  ASSUME TabInv, Flying = {}, NEW f \in Flights, flight' = [flight EXCEPT ![f] = Sent(jar)],
         UNCHANGED <<server, jar, lost>>, out' # "pending", out' = "clean" => out = "clean"
  PROVE  /\ flight' \in [Flights -> FlightType] /\ Flying' = {f}
         /\ OneRefresh' /\ Fresh' /\ LogoutMet'
<1>1. flight \in [Flights -> FlightType] /\ jar \in {"none", "current", "old"}
  BY DEF TabInv, TabTyped, TokensTyped
<1>2. Sent(jar) \in FlightType /\ Sent(jar).st = "sent" /\ Sent(jar).jar = jar
  BY <1>1, FlightFacts
<1>3. flight' \in [Flights -> FlightType] /\ flight'[f] = Sent(jar) /\ Flying' = {f}
  BY <1>1, <1>2, OnlyFlight
<1>4. alive /\ ~lost => jar # "old"
  BY DEF TabInv, Fresh
<1>5. OneRefresh'
  BY <1>2, <1>3 DEF OneRefresh
<1>6. Fresh'
  BY <1>2, <1>3, <1>4 DEF Fresh, server
<1>7. LogoutMet'
  BY <1>2, <1>3 DEF TabInv, LogoutMet, server
<1> QED BY <1>3, <1>5, <1>6, <1>7

LEMMA UnauthorizedKeeps == \A c \in Call : TabInv /\ Unauthorized(c) => TabInv'
<1> SUFFICES ASSUME TabInv, NEW c \in Call, Unauthorized(c) PROVE TabInv'
  OBVIOUS
<1> DEFINE f == Refreshing(c)
<1>1. page = "up" /\ Page \notin Flying
  BY PageIsUp DEF Unauthorized
<1>2. f \in Call /\ (Flying = {} => f = c) /\ (Flying # {} => f \in Flying)
  BY <1>1 DEF Refreshing, Flying
<1>3. /\ calls' = [calls EXCEPT ![c] = SecondTry(f)]
      /\ flight' = IF f \in Flying THEN flight ELSE [flight EXCEPT ![f] = Sent(jar)]
      /\ out' = IF f \notin Flying /\ out = "pending" THEN "no" ELSE out
      /\ UNCHANGED <<server, jar, access, shown, fetch, leaving, lost>>
  BY DEF Unauthorized
<1> HIDE DEF f
<1>4. SecondTry(f) \in CallType
  BY <1>2 DEF SecondTry, NoCall, CallType
<1>5. calls' \in [Call -> CallType]
  BY <1>3, <1>4 DEF TabInv, TabTyped, TokensTyped
<1>6. out' \in {"no", "pending", "clean"}
  BY <1>3 DEF TabInv, TabTyped, FlagsTyped
<1>7. flight' \in [Flights -> FlightType] /\ Page \notin Flying' /\ OneRefresh' /\ Fresh' /\ LogoutMet'
  <2>1. CASE Flying = {}
    <3>1. /\ flight' = [flight EXCEPT ![f] = Sent(jar)] /\ f \in Flights /\ f # Page
          /\ out' # "pending" /\ (out' = "clean" => out = "clean")
      BY <1>2, <1>3, <2>1, ClientAssumption DEF Flights
    <3> QED BY <1>3, <2>1, <3>1, StartedKeeps
  <2>2. CASE Flying # {}
    <3>1. flight' = flight /\ out' = out
      BY <1>2, <1>3, <2>2
    <3>2. Flying' = Flying
      BY <3>1 DEF Flying
    <3> QED BY <1>1, <1>3, <3>1, <3>2 DEF TabInv, TabTyped, TokensTyped, OneRefresh, Fresh, LogoutMet, server
  <2> QED BY <2>1, <2>2
<1>8. TabTyped'
  <2>1. ServerTyped' /\ ShownTyped' /\ FlagsTyped'
    BY <1>3, <1>6 DEF TabInv, TabTyped, ServerTyped, ShownTyped, FlagsTyped, server, shown
  <2>2. TokensTyped'
    BY <1>3, <1>5, <1>7 DEF TabInv, TabTyped, TokensTyped
  <2> QED BY <2>1, <2>2 DEF TabTyped
<1>9. Phases'
  BY <1>1, <1>3, <1>7 DEF TabInv, Phases, shown
<1> QED BY <1>7, <1>8, <1>9 DEF TabInv

\* A refresh ends: nothing is under way, and the jar holds what it held, which
\* was no token that was rotated away, or the token the refresh brought.
LEMMA EndedKeeps ==
  ASSUME TabInv, NEW f \in Flights, flight[f].st \in {"ok", "no"},
         flight' = [flight EXCEPT ![f] = NoFlight],
         jar' = IF flight[f].st = "ok" THEN flight[f].jar ELSE jar,
         UNCHANGED <<server, lost, out>>
  PROVE  /\ flight' \in [Flights -> FlightType] /\ Flying' = {} /\ jar' \in {"none", "current", "old"}
         /\ OneRefresh' /\ Fresh' /\ LogoutMet'
<1>1. flight \in [Flights -> FlightType] /\ jar \in {"none", "current", "old"}
  BY DEF TabInv, TabTyped, TokensTyped
<1>2. /\ Flying = {f} /\ out # "pending"
      /\ flight[f].st = "ok" => flight[f].jar = "current" /\ flight[f].of \in Profile /\ out # "clean"
      /\ alive /\ ~lost /\ flight[f].st # "ok" => jar # "old"
  BY FlyingFacts
<1>3. flight' \in [Flights -> FlightType] /\ Flying' = {}
  BY <1>1, <1>2, FlightFacts, OnlyFlight
<1>4. OneRefresh'
  BY <1>3 DEF OneRefresh
<1>5. Fresh'
  BY <1>2, <1>3 DEF Fresh, server
<1>6. LogoutMet'
  BY <1>2, <1>3 DEF TabInv, LogoutMet, server
<1> QED BY <1>1, <1>2, <1>3, <1>4, <1>5, <1>6

LEMMA RefreshedKeeps == \A f \in Flights : TabInv /\ Refreshed(f) => TabInv'
<1> SUFFICES ASSUME TabInv, NEW f \in Flights, Refreshed(f) PROVE TabInv'
  OBVIOUS
<1>1. /\ f \in Call /\ flight[f].st = "ok" /\ flight' = [flight EXCEPT ![f] = NoFlight]
      /\ jar' = flight[f].jar /\ access' = [of |-> flight[f].of, good |-> TRUE]
      /\ UNCHANGED <<server, shown, fetch, leaving, lost, out>>
  BY DEF Refreshed
<1>2. page = "up" /\ flight[f].of \in Profile
  BY <1>1, FlyingFacts
<1>3. /\ flight' \in [Flights -> FlightType] /\ Flying' = {} /\ jar' \in {"none", "current", "old"}
      /\ OneRefresh' /\ Fresh' /\ LogoutMet'
  BY <1>1, EndedKeeps
<1>4. access' \in AccessType
  BY <1>1, <1>2 DEF AccessType
<1>5. ASSUME NEW x \in CallType PROVE [x EXCEPT !.pc = "sent", !.good = TRUE, !.by = Null] \in CallType
  BY DEF CallType
<1>6. calls' \in [Call -> CallType]
  BY <1>5 DEF Refreshed, TabInv, TabTyped, TokensTyped
<1>7. TabTyped'
  <2>1. ServerTyped' /\ ShownTyped' /\ FlagsTyped'
    BY <1>1 DEF TabInv, TabTyped, ServerTyped, ShownTyped, FlagsTyped, server, shown
  <2>2. TokensTyped'
    BY <1>3, <1>4, <1>6 DEF TokensTyped
  <2> QED BY <2>1, <2>2 DEF TabTyped
<1>8. Phases'
  BY <1>1, <1>2, <1>3 DEF Phases, shown
<1> QED BY <1>3, <1>7, <1>8 DEF TabInv

LEMMA RefreshFailedKeeps == \A f \in Flights : TabInv /\ RefreshFailed(f) => TabInv'
<1> SUFFICES ASSUME TabInv, NEW f \in Flights, RefreshFailed(f) PROVE TabInv'
  OBVIOUS
<1>1. /\ f \in Call /\ flight[f].st = "no" /\ flight' = [flight EXCEPT ![f] = NoFlight]
      /\ UNCHANGED <<server, jar, access, page, at, fetch, leaving, lost, out>>
      /\ me' = Null /\ going' \in {going, "login"}
  BY DEF RefreshFailed, Bounce
<1>2. page = "up"
  BY <1>1, FlyingFacts
<1>3. /\ flight' \in [Flights -> FlightType] /\ Flying' = {} /\ jar' \in {"none", "current", "old"}
      /\ OneRefresh' /\ Fresh' /\ LogoutMet'
  BY <1>1, EndedKeeps
<1>4. calls' \in [Call -> CallType]
  BY NoCallFacts DEF RefreshFailed, TabInv, TabTyped, TokensTyped
<1>5. TabTyped'
  <2>1. ServerTyped' /\ ShownTyped' /\ FlagsTyped'
    BY <1>1 DEF TabInv, TabTyped, ServerTyped, ShownTyped, FlagsTyped, server
  <2>2. TokensTyped'
    BY <1>1, <1>3, <1>4 DEF TabInv, TabTyped, TokensTyped
  <2> QED BY <2>1, <2>2 DEF TabTyped
<1>6. Phases'
  BY <1>1, <1>2, <1>3 DEF Phases
<1> QED BY <1>3, <1>5, <1>6 DEF TabInv

-----------------------------------------------------------------------------
(* The session store.                                                      *)

LEMMA RestoreSessionKeeps == TabInv /\ RestoreSession => TabInv'
<1> SUFFICES ASSUME TabInv, RestoreSession PROVE TabInv'
  OBVIOUS
<1>1. /\ page = "start" /\ page' = "boot" /\ flight' = [flight EXCEPT ![Page] = Sent(jar)]
      /\ UNCHANGED <<server, jar, access, me, at, going, calls, fetch, leaving, lost, out>>
  BY DEF RestoreSession
<1>2. /\ Flying = {} /\ fetch = "none" /\ out # "pending" /\ at = "blank" /\ Page \in Flights
      /\ \A c \in Call : calls[c].pc = "idle"
  BY <1>1 DEF TabInv, Phases, Flights
<1>3. /\ flight' \in [Flights -> FlightType] /\ Flying' = {Page}
      /\ OneRefresh' /\ Fresh' /\ LogoutMet'
  BY <1>1, <1>2, StartedKeeps
<1>4. TabTyped'
  <2>1. ServerTyped' /\ ShownTyped' /\ FlagsTyped'
    BY <1>1 DEF TabInv, TabTyped, ServerTyped, ShownTyped, FlagsTyped, server
  <2>2. TokensTyped'
    BY <1>1, <1>3 DEF TabInv, TabTyped, TokensTyped
  <2> QED BY <2>1, <2>2 DEF TabTyped
<1>5. Phases'
  BY <1>1, <1>2, <1>3 DEF Phases
<1> QED BY <1>3, <1>4, <1>5 DEF TabInv

LEMMA RestoredKeeps == TabInv /\ Restored => TabInv'
<1> SUFFICES ASSUME TabInv, Restored PROVE TabInv'
  OBVIOUS
<1>1. /\ flight[Page].st \in {"ok", "no"} /\ flight' = [flight EXCEPT ![Page] = NoFlight]
      /\ UNCHANGED <<server, me, at, going, calls, leaving, lost, out>>
      /\ jar' = IF flight[Page].st = "ok" THEN flight[Page].jar ELSE jar
  BY DEF Restored
<1>2. /\ Flying = {Page} /\ page = "boot" /\ out # "pending" /\ at = "blank"
      /\ \A c \in Call : calls[c].pc = "idle"
      /\ flight[Page].st = "ok" => flight[Page].of \in Profile
  BY <1>1, FlyingFacts DEF TabInv, Phases, Flights
<1>3. /\ flight' \in [Flights -> FlightType] /\ Flying' = {} /\ jar' \in {"none", "current", "old"}
      /\ OneRefresh' /\ Fresh' /\ LogoutMet'
  BY <1>1, EndedKeeps DEF Flights
<1>4. /\ access' \in AccessType \cup {Null} /\ page' \in {"boot", "up"}
      /\ fetch' \in {"none", "restore", "login", "profile"}
  <2>1. access \in AccessType \cup {Null} /\ fetch \in {"none", "restore", "login", "profile"}
    BY DEF TabInv, TabTyped, TokensTyped, FlagsTyped
  <2>2. CASE flight[Page].st = "ok"
    <3>1. access' = [of |-> flight[Page].of, good |-> TRUE] /\ fetch' = "restore" /\ page' = page
      BY <2>2 DEF Restored
    <3>2. access' \in AccessType
      BY <1>2, <2>2, <3>1 DEF AccessType
    <3> QED BY <1>2, <3>1, <3>2
  <2>3. CASE flight[Page].st # "ok"
    BY <1>1, <2>1, <2>3 DEF Restored
  <2> QED BY <2>2, <2>3
<1>5. TabTyped'
  <2>1. ServerTyped' /\ ShownTyped' /\ FlagsTyped'
    BY <1>1, <1>4 DEF TabInv, TabTyped, ServerTyped, ShownTyped, FlagsTyped, server
  <2>2. TokensTyped'
    BY <1>1, <1>3, <1>4 DEF TabInv, TabTyped, TokensTyped
  <2> QED BY <2>1, <2>2 DEF TabTyped
<1>6. Phases'
  BY <1>1, <1>2, <1>3, <1>4 DEF Phases
<1> QED BY <1>3, <1>5, <1>6 DEF TabInv

LEMMA LoginKeeps == TabInv /\ Login => TabInv'
<1> SUFFICES ASSUME TabInv, Login PROVE TabInv'
  OBVIOUS
<1>1. /\ page = "up" /\ Flying = {} /\ alive' = TRUE /\ jar' = "current" /\ lost' = FALSE
      /\ out' = "no" /\ access' = [of |-> who, good |-> TRUE] /\ fetch' = "login"
      /\ UNCHANGED <<who, shown, calls, flight, leaving>>
  BY DEF Login, IssuedFor
<1>2. Flying' = {}
  BY <1>1 DEF Flying
<1>3. access' \in AccessType
  BY <1>1 DEF AccessType, TabInv, TabTyped, ServerTyped
<1>4. TabTyped'
  <2>1. ServerTyped' /\ ShownTyped' /\ FlagsTyped'
    BY <1>1 DEF TabInv, TabTyped, ServerTyped, ShownTyped, FlagsTyped, shown
  <2>2. TokensTyped'
    BY <1>1, <1>3 DEF TabInv, TabTyped, TokensTyped
  <2> QED BY <2>1, <2>2 DEF TabTyped
<1>5. Phases' /\ OneRefresh'
  BY <1>1, <1>2 DEF Phases, OneRefresh, shown
<1>6. Fresh' /\ LogoutMet'
  BY <1>1, <1>2 DEF Fresh, LogoutMet
<1> QED BY <1>4, <1>5, <1>6 DEF TabInv

LEMMA FetchMeKeeps == TabInv /\ FetchMe => TabInv'
<1> SUFFICES ASSUME TabInv, FetchMe PROVE TabInv'
  OBVIOUS
<1>1. /\ fetch # "none" /\ fetch' = "none" /\ me' \in {who, Null, me}
      /\ page' = IF fetch = "restore" THEN "up" ELSE page
      /\ going' \in {"workspace", going}
      /\ UNCHANGED <<server, jar, access, at, calls, flight, leaving, lost, out>>
  BY DEF FetchMe
<1>2. Flying' = Flying
  BY <1>1 DEF Flying
<1>3. TabTyped'
  <2>1. ServerTyped' /\ FlagsTyped'
    BY <1>1 DEF TabInv, TabTyped, ServerTyped, FlagsTyped, server
  <2>2. ShownTyped'
    <3>1. "workspace" \in DOMAIN Routes
      BY DEF Routes
    <3> QED BY <1>1, <3>1 DEF TabInv, TabTyped, ServerTyped, ShownTyped
  <2>3. TokensTyped'
    BY <1>1 DEF TabInv, TabTyped, TokensTyped
  <2> QED BY <2>1, <2>2, <2>3 DEF TabTyped
<1>4. Phases'
  BY <1>1, <1>2 DEF TabInv, Phases
<1>5. OneRefresh' /\ Fresh' /\ LogoutMet'
  BY <1>1, <1>2 DEF TabInv, OneRefresh, Fresh, LogoutMet, server
<1> QED BY <1>3, <1>4, <1>5 DEF TabInv

LEMMA SaveProfileKeeps == TabInv /\ SaveProfile => TabInv'
<1> SUFFICES ASSUME TabInv, SaveProfile PROVE TabInv'
  OBVIOUS
<1>1. /\ at = "profile" /\ fetch' = "profile"
      /\ UNCHANGED <<server, jar, access, shown, calls, flight, leaving, lost, out>>
  BY DEF SaveProfile
<1>2. page = "up" /\ Page \notin Flying /\ Flying' = Flying
  BY <1>1, PageIsUp DEF Flying
<1>3. TabTyped'
  <2>1. ServerTyped' /\ ShownTyped' /\ FlagsTyped'
    BY <1>1 DEF TabInv, TabTyped, ServerTyped, ShownTyped, FlagsTyped, server, shown
  <2>2. TokensTyped'
    BY <1>1 DEF TabInv, TabTyped, TokensTyped
  <2> QED BY <2>1, <2>2 DEF TabTyped
<1>4. Phases'
  BY <1>1, <1>2 DEF Phases, shown
<1>5. OneRefresh' /\ Fresh' /\ LogoutMet'
  BY <1>1, <1>2 DEF TabInv, OneRefresh, Fresh, LogoutMet, server
<1> QED BY <1>3, <1>4, <1>5 DEF TabInv

LEMMA LogoutKeeps == TabInv /\ Logout => TabInv'
<1> SUFFICES ASSUME TabInv, Logout PROVE TabInv'
  OBVIOUS
<1>1. /\ at \in DOMAIN Routes /\ leaving' = TRUE /\ alive' = (alive /\ jar # "current")
      /\ out' = (IF Flying = {} /\ jar = "current" /\ ~lost THEN "pending" ELSE "no")
      /\ UNCHANGED <<who, jar, access, shown, calls, flight, fetch, lost>>
  BY DEF Logout
<1>2. page = "up" /\ Page \notin Flying /\ Flying' = Flying
  <2>1. at # "blank"
    BY <1>1 DEF Routes
  <2> QED BY <1>1, <2>1, PageIsUp DEF Flying
<1>3. alive' \in BOOLEAN /\ (alive' => alive) /\ (jar = "current" => ~alive')
  BY <1>1 DEF TabInv, TabTyped, ServerTyped
<1>4. TabTyped'
  <2>1. ServerTyped' /\ ShownTyped' /\ FlagsTyped'
    BY <1>1, <1>3 DEF TabInv, TabTyped, ServerTyped, ShownTyped, FlagsTyped, shown
  <2>2. TokensTyped'
    BY <1>1 DEF TabInv, TabTyped, TokensTyped
  <2> QED BY <2>1, <2>2 DEF TabTyped
<1>5. Phases' /\ OneRefresh'
  BY <1>1, <1>2 DEF TabInv, Phases, OneRefresh, shown
<1>6. Fresh' /\ LogoutMet'
  BY <1>1, <1>2, <1>3 DEF TabInv, Fresh, LogoutMet
<1> QED BY <1>4, <1>5, <1>6 DEF TabInv

LEMMA LoggedOutKeeps == TabInv /\ LoggedOut => TabInv'
<1> SUFFICES ASSUME TabInv, LoggedOut PROVE TabInv'
  OBVIOUS
<1>1. /\ leaving' = FALSE /\ access' = Null /\ me' = Null /\ going' = "login"
      /\ UNCHANGED <<server, page, at, calls, flight, fetch, lost>>
      /\ \/ jar' = "none" /\ out' = (IF out = "pending" THEN "clean" ELSE out)
         \/ jar' = jar /\ out' = "no"
  BY DEF LoggedOut
<1>2. Flying' = Flying
  BY <1>1 DEF Flying
<1>3. /\ jar' \in {"none", jar} /\ out' \in {"no", "pending", "clean"} /\ out' # "pending"
      /\ out' = "clean" => out \in {"pending", "clean"} /\ jar' = "none"
  BY <1>1 DEF TabInv, TabTyped, FlagsTyped
<1>4. TabTyped'
  <2>1. ServerTyped' /\ ShownTyped' /\ FlagsTyped'
    BY <1>1, <1>3 DEF TabInv, TabTyped, ServerTyped, ShownTyped, FlagsTyped, server
  <2>2. TokensTyped'
    BY <1>1, <1>3 DEF TabInv, TabTyped, TokensTyped
  <2> QED BY <2>1, <2>2 DEF TabTyped
<1>5. Phases' /\ OneRefresh'
  BY <1>1, <1>2, <1>3 DEF TabInv, Phases, OneRefresh
<1>6. Fresh' /\ LogoutMet'
  BY <1>1, <1>2, <1>3 DEF TabInv, Fresh, LogoutMet, server
<1> QED BY <1>4, <1>5, <1>6 DEF TabInv

-----------------------------------------------------------------------------
(* The router.                                                             *)

\* There is always a screen to land on: the workspace is open to everybody.
LEMMA LandingExists ==
  \A perms : Landing(perms) \in DOMAIN Routes /\ Can(perms, Routes[Landing(perms)])
<1> SUFFICES ASSUME NEW perms
             PROVE  Landing(perms) \in DOMAIN Routes /\ Can(perms, Routes[Landing(perms)])
  OBVIOUS
<1> DEFINE open == {i \in DOMAIN LandingOrder : Can(perms, Routes[LandingOrder[i]])}
<1>1. DOMAIN LandingOrder = 1..5 /\ \A i \in 1..5 : LandingOrder[i] \in DOMAIN Routes
  BY DEF LandingOrder, Routes
<1>2. open \subseteq 1..5
  BY <1>1
<1>3. 1 \in open
  <2>1. LandingOrder[1] = "workspace" /\ Routes["workspace"] = NoPerm
    BY DEF LandingOrder, Routes
  <2> QED BY <1>1, <2>1 DEF Can
<1>4. \A i \in open : Can(perms, Routes[LandingOrder[i]])
  OBVIOUS
<1> HIDE DEF open
<1>5. \E i \in open : \A j \in open : i <= j
  BY <1>2, <1>3
<1>6. (CHOOSE i \in open : \A j \in open : i <= j) \in open
  BY <1>5
<1>7. Landing(perms) = LandingOrder[CHOOSE i \in open : \A j \in open : i <= j]
  BY DEF Landing, open
<1> QED BY <1>1, <1>2, <1>6, <1>7, <1>4

\* A navigation arrives after two redirects at most, wherever it goes and
\* whatever the user may open: an outsider is sent to the login and a user away
\* from it, who may not open the dashboard is sent to a screen that is open.
THEOREM RedirectsEnd ==
  ASSUME NEW to \in DOMAIN Routes \cup {"login"}, NEW signed \in BOOLEAN, NEW perms
  PROVE  LET one == Guard(to, signed, perms)
             two == Guard(one, signed, perms)
         IN  \/ one = Pass
             \/ one \in DOMAIN Routes \cup {"login"} /\ two = Pass
             \/ /\ {one, two} \subseteq DOMAIN Routes \cup {"login"}
                /\ Guard(two, signed, perms) = Pass
<1>1. "login" \notin DOMAIN Routes /\ "dashboard" \in DOMAIN Routes
  BY DEF Routes
<1>2. ASSUME NEW s \in DOMAIN Routes, Can(perms, Routes[s]), signed
      PROVE  Guard(s, signed, perms) = Pass
  BY <1>1, <1>2 DEF Guard
<1>3. ASSUME NEW s \in DOMAIN Routes, ~Can(perms, Routes[s]), signed
      PROVE  Guard(s, signed, perms) = Landing(perms)
  BY <1>1, <1>3 DEF Guard
<1>4. /\ signed => Guard("login", signed, perms) = "dashboard"
      /\ ~signed => Guard("login", signed, perms) = Pass
      /\ ~signed => \A s \in DOMAIN Routes : Guard(s, signed, perms) = "login"
  BY <1>1 DEF Guard
<1>5. Landing(perms) \in DOMAIN Routes /\ (signed => Guard(Landing(perms), signed, perms) = Pass)
  BY <1>2, LandingExists
<1>6. CASE ~signed
  BY <1>4, <1>6
<1>7. CASE signed /\ to # "login"
  <2>1. to \in DOMAIN Routes
    BY <1>7
  <2> QED BY <1>2, <1>3, <1>5, <1>7, <2>1
<1>8. CASE signed /\ to = "login"
  <2>1. CASE Can(perms, Routes["dashboard"])
    BY <1>1, <1>2, <1>4, <1>8, <2>1
  <2>2. CASE ~Can(perms, Routes["dashboard"])
    BY <1>1, <1>3, <1>4, <1>5, <1>8, <2>2
  <2> QED BY <2>1, <2>2
<1> QED BY <1>6, <1>7, <1>8

\* Steps of the router: a screen is shown when the page is up.
LEMMA ScreensKeep ==
  ASSUME TabInv, page = "up", at' \in DOMAIN Routes \cup {"blank", "login"},
         going' \in DOMAIN Routes \cup {"login", Null},
         UNCHANGED <<server, jar, access, me, page, calls, flight, fetch, leaving, lost, out>>
  PROVE  TabInv'
<1>1. Flying' = Flying
  BY DEF Flying
<1>2. TabTyped'
  <2>1. ServerTyped' /\ ShownTyped' /\ FlagsTyped'
    BY DEF TabInv, TabTyped, ServerTyped, ShownTyped, FlagsTyped, server
  <2>2. TokensTyped'
    BY DEF TabInv, TabTyped, TokensTyped
  <2> QED BY <2>1, <2>2 DEF TabTyped
<1>3. Phases' /\ OneRefresh'
  BY <1>1 DEF TabInv, Phases, OneRefresh
<1>4. Fresh' /\ LogoutMet'
  BY <1>1 DEF TabInv, Fresh, LogoutMet, server
<1> QED BY <1>2, <1>3, <1>4 DEF TabInv

LEMMA ClickKeeps == TabInv /\ Click => TabInv'
<1> SUFFICES ASSUME TabInv, Click PROVE TabInv'
  OBVIOUS
<1>1. /\ page = "up" /\ going' \in VisibleGroups(MyPerms) \cup Links(at, MyPerms) /\ at' = at
      /\ UNCHANGED <<server, jar, access, me, page, calls, flight, fetch, leaving, lost, out>>
  BY DEF Click
<1>2. going' \in DOMAIN Routes
  <2>1. "journalNew" \in DOMAIN Routes
    BY DEF Routes
  <2>2. Links(at, MyPerms) \subseteq {"journalNew"}
    BY DEF Links, For
  <2> QED BY <1>1, <2>1, <2>2 DEF VisibleGroups
<1>3. at' \in DOMAIN Routes \cup {"blank", "login"}
  BY <1>1 DEF TabInv, TabTyped, ShownTyped
<1> QED BY <1>1, <1>2, <1>3, ScreensKeep

LEMMA NavigateKeeps == TabInv /\ Navigate => TabInv'
<1> SUFFICES ASSUME TabInv, Navigate PROVE TabInv'
  OBVIOUS
<1> DEFINE to == Guard(going, me # Null, MyPerms)
<1>1. /\ page = "up" /\ going # Null
      /\ IF to = Pass THEN at' = going /\ going' = Null ELSE going' = to /\ at' = at
      /\ UNCHANGED <<server, jar, access, me, page, calls, flight, fetch, leaving, lost, out>>
  BY DEF Navigate
<1>2. to \in DOMAIN Routes \cup {"login", Pass}
  <2>1. "dashboard" \in DOMAIN Routes
    BY DEF Routes
  <2> QED BY <2>1, LandingExists DEF Guard
<1> HIDE DEF to
<1>3. /\ at' \in DOMAIN Routes \cup {"blank", "login"}
      /\ going' \in DOMAIN Routes \cup {"login", Null}
  BY <1>1, <1>2 DEF TabInv, TabTyped, ShownTyped
<1> QED BY <1>1, <1>3, ScreensKeep

LEMMA ReloadKeeps == \A s \in Visited \cup {"login"} : TabInv /\ Reload(s) => TabInv'
<1> SUFFICES ASSUME TabInv, NEW s \in Visited \cup {"login"}, Reload(s) PROVE TabInv'
  OBVIOUS
<1>1. /\ page' = "start" /\ at' = "blank" /\ going' = s
      /\ me' = Null /\ access' = Null /\ fetch' = "none" /\ leaving' = FALSE
      /\ calls' = [c \in Call |-> NoCall] /\ flight' = [f \in Flights |-> NoFlight]
      /\ out' = (IF out = "pending" THEN "no" ELSE out) /\ UNCHANGED server
  BY DEF Reload, Flights
<1>2. /\ lost' = (lost \/ Flying # {})
      /\ jar' = jar \/ (jar' = Aged(jar) /\ alive /\ Flying # {})
  BY DEF Reload
<1>3. lost' \in BOOLEAN /\ (~lost' => ~lost /\ Flying = {}) /\ jar' \in {"none", "current", "old"}
  BY <1>2 DEF Aged, TabInv, TabTyped, TokensTyped, FlagsTyped
<1>4. Flying' = {}
  BY <1>1, FlightFacts DEF Flying, Flights
<1>5. TabTyped'
  <2>1. ServerTyped' /\ ShownTyped'
    BY <1>1, ClientAssumption DEF TabInv, TabTyped, ServerTyped, ShownTyped, server
  <2>2. FlagsTyped'
    BY <1>1, <1>3 DEF TabInv, TabTyped, FlagsTyped
  <2>3. TokensTyped'
    BY <1>1, <1>3, FlightFacts, NoCallFacts DEF TokensTyped
  <2> QED BY <2>1, <2>2, <2>3 DEF TabTyped
<1>6. Phases' /\ OneRefresh'
  BY <1>1, <1>4, NoCallFacts DEF Phases, OneRefresh
<1>7. Fresh'
  <2> SUFFICES ASSUME alive', ~lost' PROVE jar' # "old"
    BY <1>4 DEF Fresh
  <2>1. alive /\ ~lost /\ Flying = {} /\ jar' = jar
    BY <1>1, <1>2, <1>3 DEF server
  <2> QED BY <2>1 DEF TabInv, Fresh
<1>8. LogoutMet'
  <2>1. out' # "pending" /\ (out' = "clean" => out = "clean")
    BY <1>1
  <2>2. out = "clean" => ~alive' /\ jar' = "none"
    BY <1>1, <1>2 DEF TabInv, LogoutMet, server
  <2> QED BY <1>4, <2>1, <2>2 DEF LogoutMet
<1> QED BY <1>5, <1>6, <1>7, <1>8 DEF TabInv

-----------------------------------------------------------------------------
(* What follows from the invariant of the tab.                             *)

LEMMA TabInvInit == TabInit => TabInv
<1> SUFFICES ASSUME TabInit PROVE TabInv
  OBVIOUS
<1> USE DEF TabInit
<1>1. Flying = {}
  BY FlightFacts DEF Flying
<1>2. TabTyped
  <2>1. "workspace" \in DOMAIN Routes
    BY DEF Routes
  <2>2. ServerTyped /\ ShownTyped /\ FlagsTyped
    BY <2>1 DEF ServerTyped, ShownTyped, FlagsTyped
  <2>3. TokensTyped
    BY FlightFacts, NoCallFacts DEF TokensTyped, Flights
  <2> QED BY <2>2, <2>3 DEF TabTyped
<1>3. Phases /\ OneRefresh /\ Fresh /\ LogoutMet
  BY <1>1, NoCallFacts DEF Phases, OneRefresh, Fresh, LogoutMet
<1> QED BY <1>2, <1>3 DEF TabInv

LEMMA TabInvKeeps == TabInv /\ [TabNext]_tabVars => TabInv'
<1> SUFFICES ASSUME TabInv, [TabNext]_tabVars PROVE TabInv'
  OBVIOUS
<1>1. ASSUME NEW c \in Call, Settle(c) \/ Unauthorized(c) \/ StartCall(c) PROVE TabInv'
  BY <1>1, SettleKeeps, UnauthorizedKeeps, StartCallKeeps
<1>2. ASSUME NEW f \in Flights, Rotate(f) \/ Refreshed(f) \/ RefreshFailed(f) \/ Lose(f) PROVE TabInv'
  BY <1>2, RotateKeeps, RefreshedKeeps, RefreshFailedKeeps, LoseKeeps
<1>3. ASSUME RestoreSession \/ Restored \/ FetchMe \/ LoggedOut \/ Navigate PROVE TabInv'
  BY <1>3, RestoreSessionKeeps, RestoredKeeps, FetchMeKeeps, LoggedOutKeeps, NavigateKeeps
<1>4. ASSUME ChangeGrants \/ EndSession \/ AccessExpires PROVE TabInv'
  BY <1>4, ChangeGrantsKeeps, EndSessionKeeps, AccessExpiresKeeps
<1>5. ASSUME Login \/ SaveProfile \/ Logout \/ Click PROVE TabInv'
  BY <1>5, LoginKeeps, SaveProfileKeeps, LogoutKeeps, ClickKeeps
<1>6. ASSUME NEW s \in Visited \cup {"login"}, Reload(s) PROVE TabInv'
  BY <1>6, ReloadKeeps
<1>7. ASSUME UNCHANGED tabVars PROVE TabInv'
  <2>1. /\ calls' \in [Call -> CallType] /\ access' \in AccessType \cup {Null}
        /\ UNCHANGED <<server, jar, shown, flight, fetch, leaving, lost, out, calls>>
    BY <1>7 DEF tabVars, server, shown, TabInv, TabTyped, TokensTyped
  <2> QED BY <2>1, CallsKeep
<1>8. CASE TabNext
  BY <1>1, <1>2, <1>3, <1>4, <1>5, <1>6, <1>8, Zenon DEF TabNext, Progress, Flights
<1> QED BY <1>7, <1>8

LEMMA TabInvariance == TabSpec => []TabInv
BY TabInvInit, TabInvKeeps, PTL DEF TabSpec

\* Steps that leave the waiting calls as they are and keep every flight flying.
LEMMA StillWaiting ==
  ASSUME WaitersAreTold, Flying \subseteq Flying',
         \A c \in Call : calls'[c].pc = "wait" =>
                          calls[c].pc = "wait" /\ calls'[c].by = calls[c].by
  PROVE  WaitersAreTold'
BY DEF WaitersAreTold

\* Before the page is up no call waits.
LEMMA NobodyWaits ==
  ASSUME \A c \in Call : calls'[c].pc = "idle"
  PROVE  WaitersAreTold'
BY DEF WaitersAreTold

LEMMA CallsWait ==
  ASSUME TabInv, WaitersAreTold, NEW c \in Call,
         Settle(c) \/ Unauthorized(c) \/ StartCall(c)
  PROVE  WaitersAreTold'
<1>0. calls \in [Call -> CallType] /\ flight \in [Flights -> FlightType] /\ jar \in {"none", "current", "old"}
  BY DEF TabInv, TabTyped, TokensTyped
<1>1. CASE Settle(c) \/ StartCall(c)
  <2>1. flight' = flight /\ \E x : x.pc # "wait" /\ calls' = [calls EXCEPT ![c] = x]
    <3>1. CASE Settle(c)
      BY <3>1, NoCallFacts DEF Settle
    <3>2. CASE StartCall(c)
      <4>1. \A b : [NoCall EXCEPT !.pc = "sent", !.good = b].pc = "sent"
        BY DEF NoCall
      <4> QED BY <3>2, <4>1 DEF StartCall
    <3> QED BY <1>1, <3>1, <3>2
  <2>2. Flying' = Flying
    BY <2>1 DEF Flying
  <2> QED BY <1>0, <2>1, <2>2, StillWaiting
<1>2. CASE Unauthorized(c)
  <2> DEFINE f == Refreshing(c)
             w == SecondTry(f)
  <2>1. /\ calls' = [calls EXCEPT ![c] = w]
        /\ flight' = IF f \in Flying THEN flight ELSE [flight EXCEPT ![f] = Sent(jar)]
    BY <1>2 DEF Unauthorized
  <2>2. f \in Call
    BY DEF Refreshing
  <2>3. w.by = f
    BY DEF SecondTry, NoCall
  <2> HIDE DEF f, w
  <2>4. Flying \subseteq Flying' /\ f \in Flying'
    <3>1. CASE f \in Flying
      BY <2>1, <3>1 DEF Flying
    <3>2. CASE f \notin Flying
      <4>1. /\ flight'[f].st = "sent" /\ f \in Flights
            /\ \A g \in Flights \ {f} : flight'[g] = flight[g]
        BY <1>0, <2>1, <2>2, <3>2, FlightFacts DEF Flights
      <4> QED BY <4>1 DEF Flying, Flights
    <3> QED BY <3>1, <3>2
  <2>5. calls'[c] = w /\ \A d \in Call \ {c} : calls'[d] = calls[d]
    BY <1>0, <2>1
  <2> QED BY <2>3, <2>4, <2>5 DEF WaitersAreTold
<1> QED BY <1>1, <1>2

LEMMA FlightsWait ==
  ASSUME TabInv, WaitersAreTold, NEW f \in Flights,
         Rotate(f) \/ Lose(f) \/ Refreshed(f) \/ RefreshFailed(f)
  PROVE  WaitersAreTold'
<1>0. flight \in [Flights -> FlightType] /\ calls \in [Call -> CallType] /\ flight[f].st # "none"
  BY DEF Rotate, Lose, Refreshed, RefreshFailed, TabInv, TabTyped, TokensTyped
<1>1. Flying = {f}
  BY <1>0, FlyingIsOnly
<1>2. CASE Rotate(f) \/ Lose(f)
  <2>1. calls' = calls /\ flight'[f].st # "none"
    <3>1. CASE Rotate(f)
      <4>1. CASE alive /\ flight[f].jar = "current"
        BY <3>1, <4>1 DEF Rotate, Flights
      <4>2. CASE ~(alive /\ flight[f].jar = "current")
        BY <1>0, <3>1, <4>2, FailedFacts DEF Rotate
      <4> QED BY <4>1, <4>2
    <3>2. CASE Lose(f)
      BY <1>0, <3>2, FailedFacts DEF Lose
    <3> QED BY <1>2, <3>1, <3>2
  <2>2. Flying \subseteq Flying'
    BY <1>1, <2>1 DEF Flying, Flights
  <2> QED BY <2>1, <2>2, StillWaiting
<1>3. CASE Refreshed(f) \/ RefreshFailed(f)
  <2>1. \A c \in Call : calls[c].pc = "wait" => c \in Waiting(f)
    BY <1>1 DEF WaitersAreTold, Waiting
  <2>2. \A c \in Call : calls'[c].pc # "wait"
    <3> SUFFICES ASSUME NEW c \in Call PROVE calls'[c].pc # "wait"
      OBVIOUS
    <3>1. calls[c] \in CallType
      BY <1>0
    <3>2. CASE c \in Waiting(f)
      <4>1. calls'[c] \in {NoCall, [calls[c] EXCEPT !.pc = "sent", !.good = TRUE, !.by = Null]}
        BY <1>3, <3>2 DEF Refreshed, RefreshFailed
      <4> QED BY <3>1, <4>1, NoCallFacts DEF CallType
    <3>3. CASE c \notin Waiting(f)
      <4>1. calls'[c] = calls[c]
        BY <1>3, <3>3 DEF Refreshed, RefreshFailed
      <4> QED BY <2>1, <3>3, <4>1
    <3> QED BY <3>2, <3>3
  <2> QED BY <2>2 DEF WaitersAreTold
<1> QED BY <1>2, <1>3

LEMMA WaitersKept ==
  ASSUME TabInv, WaitersAreTold, [TabNext]_tabVars
  PROVE  WaitersAreTold'
<1>1. ASSUME NEW c \in Call, Settle(c) \/ Unauthorized(c) \/ StartCall(c) PROVE WaitersAreTold'
  BY <1>1, CallsWait
<1>2. ASSUME NEW f \in Flights, Rotate(f) \/ Refreshed(f) \/ RefreshFailed(f) \/ Lose(f)
      PROVE  WaitersAreTold'
  BY <1>2, FlightsWait
<1>3. ASSUME RestoreSession \/ Restored PROVE WaitersAreTold'
  <2>1. calls' = calls /\ page # "up"
    <3>1. CASE RestoreSession
      BY <3>1 DEF RestoreSession
    <3>2. CASE Restored
      <4>1. Page \in Flying
        BY <3>2 DEF Restored, Flying
      <4> QED BY <3>2, <4>1 DEF Restored, TabInv, Phases
    <3> QED BY <1>3, <3>1, <3>2
  <2>2. \A c \in Call : calls'[c].pc = "idle"
    BY <2>1 DEF TabInv, Phases
  <2> QED BY <2>2, NobodyWaits
<1>4. ASSUME NEW s \in Visited \cup {"login"}, Reload(s) PROVE WaitersAreTold'
  BY <1>4, NoCallFacts, NobodyWaits DEF Reload
<1>5. ASSUME AccessExpires PROVE WaitersAreTold'
  <2>1. calls \in [Call -> CallType]
    BY DEF TabInv, TabTyped, TokensTyped
  <2>2. ASSUME NEW c \in Call PROVE calls'[c].pc = calls[c].pc /\ calls'[c].by = calls[c].by
    <3>1. calls[c] \in CallType /\ calls'[c] = [calls[c] EXCEPT !.good = @ /\ calls[c].retry]
      BY <1>5, <2>1 DEF AccessExpires
    <3> QED BY <3>1 DEF CallType
  <2>3. Flying' = Flying
    BY <1>5 DEF AccessExpires, Flying
  <2> QED BY <2>2, <2>3, StillWaiting
<1>6. ASSUME \/ ChangeGrants \/ EndSession \/ FetchMe \/ LoggedOut \/ Navigate
             \/ Login \/ SaveProfile \/ Logout \/ Click \/ UNCHANGED tabVars
      PROVE  WaitersAreTold'
  <2>1. calls' = calls /\ flight' = flight
    BY <1>6 DEF ChangeGrants, EndSession, FetchMe, LoggedOut, Navigate, Login, SaveProfile,
                Logout, Click, tabVars
  <2>2. Flying' = Flying
    BY <2>1 DEF Flying
  <2> QED BY <2>1, <2>2, StillWaiting
<1>7. CASE TabNext
  BY <1>1, <1>2, <1>3, <1>4, <1>5, <1>6, <1>7, Zenon DEF TabNext, Progress, Flights
<1> QED BY <1>6, <1>7

LEMMA WaitersInvariance == TabSpec => []WaitersAreTold
<1>1. TabInit => WaitersAreTold
  BY NoCallFacts DEF TabInit, WaitersAreTold
<1>2. TabInv /\ WaitersAreTold /\ [TabNext]_tabVars => WaitersAreTold'
  BY WaitersKept
<1> QED BY <1>1, <1>2, TabInvariance, PTL DEF TabSpec

\* The tab's state is of its type, a logout that meets no refresh has ended the
\* session at the server and left no cookie, whatever fails afterwards, and every
\* call that waits will be told: its refresh is under way.
THEOREM TabIsSound == TabSpec => []TabSound
<1>1. ASSUME TabInv PROVE TabTypeOK
  <2>1. ASSUME NEW c \in Call
        PROVE  calls[c].pc \in {"idle", "sent", "wait"} /\ calls[c].by \in Call \cup {Null}
    <3>1. calls[c] \in CallType
      BY <1>1 DEF TabInv, TabTyped, TokensTyped
    <3> QED BY <3>1 DEF CallType
  <2> QED BY <1>1, <2>1
          DEF TabTypeOK, TabInv, TabTyped, ServerTyped, ShownTyped, TokensTyped, FlagsTyped
<1>2. TabInv /\ WaitersAreTold => TabSound
  BY <1>1 DEF TabSound, LogoutEnds, TabInv, LogoutMet
<1> QED BY <1>2, TabInvariance, WaitersInvariance, PTL

\* One tab never raises the alarm of the server's reuse detection by itself: it
\* presents a token that was rotated away only after an answer was lost.
THEOREM NoAlarmByItself == TabSpec => []NoFalseAlarm
<1>1. ASSUME TabInv, NEW f \in Flying, flight[f] = Sent("old"), alive PROVE lost
  <2>1. flight[f].st = "sent" /\ flight[f].jar = "old"
    BY <1>1, FlightFacts
  <2> QED BY <1>1, <2>1 DEF TabInv, Fresh
<1>2. TabInv => NoFalseAlarm
  BY <1>1 DEF NoFalseAlarm
<1> QED BY <1>2, TabInvariance, PTL

-----------------------------------------------------------------------------
(* Screens and handlers.                                                   *)

\* A handler is served to whoever has the permissions of its rule.
LEMMA ServedFacts ==
  /\ \A S, p, h, perms : Guarded(S, p) \in Requires /\ h \in S /\ p \in perms => MayCall(h, perms)
  /\ \A S, h, perms : SignedIn(S) \in Requires /\ h \in S => MayCall(h, perms)
  /\ \A S, h, perms : Public(S) \in Requires /\ h \in S => MayCall(h, perms)
<1>1. ASSUME NEW S, NEW p, NEW h \in S, NEW perms, Guarded(S, p) \in Requires, p \in perms
      PROVE  MayCall(h, perms)
  <2>1. Guarded(S, p).handlers = S /\ Guarded(S, p).perms \subseteq perms
    BY <1>1 DEF Guarded
  <2> QED BY <1>1, <2>1 DEF MayCall
<1>2. ASSUME NEW S, NEW h \in S, NEW perms, SignedIn(S) \in Requires PROVE MayCall(h, perms)
  <2>1. SignedIn(S).handlers = S /\ SignedIn(S).perms \subseteq perms
    BY DEF SignedIn
  <2> QED BY <1>2, <2>1 DEF MayCall
<1>3. ASSUME NEW S, NEW h \in S, NEW perms, Public(S) \in Requires PROVE MayCall(h, perms)
  <2>1. Public(S).handlers = S /\ Public(S).perms \subseteq perms
    BY DEF Public
  <2> QED BY <1>3, <2>1 DEF MayCall
<1> QED BY <1>1, <1>2, <1>3

\* What the screens need of the rules.
LEMMA UsersServed ==
  ASSUME NEW perms
  PROVE  /\ MayCall("users.directory", perms)
         /\ "user.manage" \in perms =>
              \A h \in {"users.list", "users.roles", "users.catalog", "users.detail",
                        "users.setPermissions", "users.create", "users.update", "users.reset",
                        "users.resetMfa", "users.remove"} : MayCall(h, perms)
<1> UsersController \subseteq Requires
  BY DEF Requires
<1> QED BY ServedFacts DEF UsersController

LEMMA LedgerServed ==
  ASSUME NEW perms
  PROVE  /\ "ledger.view" \in perms =>
              \A h \in {"accounts.tree", "accounts.postable", "journal.list", "journal.trash",
                        "journal.get"} : MayCall(h, perms)
         /\ "ledger.create" \in perms =>
              \A h \in {"journal.create", "journal.update", "journal.remove"} : MayCall(h, perms)
         /\ "ledger.post" \in perms => MayCall("journal.post", perms)
         /\ "ledger.reverse" \in perms => MayCall("journal.reverse", perms)
<1> AccountsController \subseteq Requires /\ JournalController \subseteq Requires
  BY DEF Requires
<1>1. "ledger.view" \in perms =>
        \A h \in {"accounts.tree", "accounts.postable", "journal.list", "journal.trash",
                  "journal.get"} : MayCall(h, perms)
  BY ServedFacts DEF AccountsController, JournalController
<1>2. "ledger.create" \in perms =>
        \A h \in {"journal.create", "journal.update", "journal.remove"} : MayCall(h, perms)
  BY ServedFacts DEF JournalController
<1>3. /\ "ledger.post" \in perms => MayCall("journal.post", perms)
      /\ "ledger.reverse" \in perms => MayCall("journal.reverse", perms)
  BY ServedFacts DEF JournalController
<1> QED BY <1>1, <1>2, <1>3

LEMMA ReportsServed ==
  ASSUME NEW perms
  PROVE  /\ "report.financial" \in perms =>
              \A h \in {"reports.trialBalance", "reports.profitAndLoss", "reports.balanceSheet",
                        "reports.generalLedger"} : MayCall(h, perms)
         /\ "report.ceo" \in perms => MayCall("dashboard.ceo", perms)
         /\ MayCall("health.ready", perms)
         /\ "system.admin" \in perms => MayCall("health.system", perms)
<1> /\ ReportsController \subseteq Requires /\ DashboardController \subseteq Requires
    /\ HealthController \subseteq Requires
  BY DEF Requires
<1> QED BY ServedFacts DEF ReportsController, DashboardController, HealthController

LEMMA StaffServed ==
  ASSUME NEW perms
  PROVE  /\ "hr.view" \in perms =>
              \A h \in {"positions.list", "personnel.list", "personnel.get"} : MayCall(h, perms)
         /\ "hr.manage" \in perms =>
              \A h \in {"positions.create", "positions.remove", "personnel.create",
                        "personnel.update", "personnel.remove", "personnel.trash",
                        "personnel.restore"} : MayCall(h, perms)
         /\ MayCall("personnel.me", perms)
         /\ "payroll.run" \in perms =>
              \A h \in {"payroll.list", "payroll.get", "payroll.create", "payroll.post"} :
                MayCall(h, perms)
<1> HrControllers \subseteq Requires /\ PayrollController \subseteq Requires
  BY DEF Requires
<1>1. /\ "hr.view" \in perms =>
           \A h \in {"positions.list", "personnel.list", "personnel.get"} : MayCall(h, perms)
      /\ MayCall("personnel.me", perms)
  BY ServedFacts DEF HrControllers
<1>2. "hr.manage" \in perms =>
        \A h \in {"positions.create", "positions.remove", "personnel.create", "personnel.update",
                  "personnel.remove", "personnel.trash", "personnel.restore"} : MayCall(h, perms)
  BY ServedFacts DEF HrControllers
<1>3. "payroll.run" \in perms =>
        \A h \in {"payroll.list", "payroll.get", "payroll.create", "payroll.post"} : MayCall(h, perms)
  BY ServedFacts DEF PayrollController
<1> QED BY <1>1, <1>2, <1>3

LEMMA TasksServed ==
  ASSUME NEW perms
  PROVE  /\ "task.manage" \in perms =>
              \A h \in {"tasks.all", "tasks.trash", "tasks.create", "tasks.update",
                        "tasks.remove", "tasks.restore"} : MayCall(h, perms)
         /\ \A h \in {"tasks.mine", "tasks.group", "tasks.updateStatus"} : MayCall(h, perms)
         /\ \A h \in {"auth.updateProfile", "auth.changePassword", "auth.enrollMfa",
                      "auth.activateMfa", "auth.disableMfa"} : MayCall(h, perms)
<1> TasksController \subseteq Requires /\ AuthController \subseteq Requires
  BY DEF Requires
<1> QED BY ServedFacts DEF TasksController, AuthController

LEMMA CrmServed ==
  ASSUME NEW perms
  PROVE  /\ "project.view" \in perms => MayCall("projects.list", perms)
         /\ "project.manage" \in perms =>
              \A h \in {"projects.create", "projects.update", "projects.remove",
                        "projects.trash", "projects.restore"} : MayCall(h, perms)
         /\ "customer.view" \in perms => MayCall("customers.list", perms)
         /\ "customer.manage" \in perms =>
              \A h \in {"customers.create", "customers.update", "customers.remove",
                        "customers.trash", "customers.restore"} : MayCall(h, perms)
<1> ProjectsController \subseteq Requires /\ CustomersController \subseteq Requires
  BY DEF Requires
<1>1. /\ "project.view" \in perms => MayCall("projects.list", perms)
      /\ "project.manage" \in perms =>
           \A h \in {"projects.create", "projects.update", "projects.remove", "projects.trash",
                     "projects.restore"} : MayCall(h, perms)
  BY ServedFacts DEF ProjectsController
<1>2. /\ "customer.view" \in perms => MayCall("customers.list", perms)
      /\ "customer.manage" \in perms =>
           \A h \in {"customers.create", "customers.update", "customers.remove",
                     "customers.trash", "customers.restore"} : MayCall(h, perms)
  BY ServedFacts DEF CustomersController
<1> QED BY <1>1, <1>2

\* The two things about roles that the screens rely on: whoever views the ledger
\* may read the reports, and whoever writes entries may view the ledger.
RolesFit(perms) ==
  /\ "ledger.view" \in perms => "report.financial" \in perms
  /\ "ledger.create" \in perms => "ledger.view" \in perms

LEMMA RolesDoFit == \A role \in DOMAIN RolePermissions : RolesFit(RolePermissions[role])
BY DEF RolePermissions, RolesFit

\* On every screen that is open to such permissions, all that is offered is served.
LEMMA ScreensServed ==
  ASSUME NEW perms, RolesFit(perms), NEW s \in VisibleGroups(perms),
         NEW h \in Offered(s, perms) \ {"journal.restore"}
  PROVE  MayCall(h, perms)
<1>1. s \in DOMAIN Routes /\ Can(perms, Routes[s])
  BY DEF VisibleGroups
<1>2. CASE s \in {"workspace", "profile", "tasks"}
  <2>1. CASE s = "workspace"
    <3>1. h \in {"personnel.me", "tasks.mine", "tasks.group", "tasks.updateStatus"}
      BY <2>1 DEF Offered, WorkspaceLoads, WorkspaceButtons
    <3> QED BY <3>1, StaffServed, TasksServed
  <2>2. CASE s = "profile"
    <3>1. h \in {"auth.updateProfile", "auth.changePassword", "auth.enrollMfa", "auth.activateMfa",
                 "auth.disableMfa"}
      BY <2>2 DEF Offered, ProfileButtons
    <3> QED BY <3>1, TasksServed
  <2>3. CASE s = "tasks"
    <3>1. "task.manage" \in perms
      BY <1>1, <2>3 DEF Routes, Can, NoPerm
    <3>2. h \in {"tasks.all", "users.directory", "tasks.create", "tasks.update", "tasks.remove"}
      BY <2>3 DEF Offered, TaskManagementLoads, TaskManagementButtons
    <3> QED BY <3>1, <3>2, TasksServed, UsersServed
  <2> QED BY <1>2, <2>1, <2>2, <2>3
<1>3. CASE s \in {"accounts", "ledger", "journal", "journalNew"}
  <2>1. "ledger.view" \in perms /\ "report.financial" \in perms
    <3>1. "ledger.view" \in perms \/ "ledger.create" \in perms
      <4>1. Routes[s] \in {"ledger.view", "ledger.create"}
        BY <1>3 DEF Routes
      <4> QED BY <1>1, <4>1 DEF Can, NoPerm
    <3> QED BY <3>1 DEF RolesFit
  <2>2. CASE s = "accounts"
    <3>1. h = "accounts.tree"
      BY <2>2 DEF Offered, AccountsLoads
    <3> QED BY <2>1, <3>1, LedgerServed
  <2>3. CASE s = "ledger"
    <3>1. h \in {"reports.generalLedger", "accounts.postable"}
      BY <2>3 DEF Offered, LedgerLoads
    <3> QED BY <2>1, <3>1, LedgerServed, ReportsServed
  <2>4. CASE s = "journal"
    <3>1. \/ h \in {"journal.list", "journal.get"}
          \/ h = "journal.remove" /\ "ledger.create" \in perms
          \/ h = "journal.post" /\ "ledger.post" \in perms
          \/ h = "journal.reverse" /\ "ledger.reverse" \in perms
      BY <2>4 DEF Offered, JournalEntriesLoads, JournalEntriesButtons, For, Can, NoPerm
    <3> QED BY <2>1, <3>1, LedgerServed
  <2>5. CASE s = "journalNew"
    <3>1. "ledger.create" \in perms
      BY <1>1, <2>5 DEF Routes, Can, NoPerm
    <3>2. \/ h \in {"accounts.postable", "journal.get", "journal.create", "journal.update"}
          \/ h = "journal.post" /\ "ledger.post" \in perms
      BY <2>5 DEF Offered, JournalNewLoads, JournalNewButtons, For, Can, NoPerm
    <3> QED BY <2>1, <3>1, <3>2, LedgerServed
  <2> QED BY <1>3, <2>2, <2>3, <2>4, <2>5
<1>4. CASE s \in {"trialBalance", "profitLoss", "balanceSheet", "dashboard", "system"}
  <2>1. CASE s \in {"trialBalance", "profitLoss", "balanceSheet"}
    <3>1. "report.financial" \in perms
      <4>1. Routes[s] = "report.financial"
        BY <2>1 DEF Routes
      <4> QED BY <1>1, <4>1 DEF Can, NoPerm
    <3>2. h \in {"reports.trialBalance", "reports.profitAndLoss", "reports.balanceSheet"}
      BY <2>1 DEF Offered, TrialBalanceLoads, ProfitLossLoads, BalanceSheetLoads
    <3> QED BY <3>1, <3>2, ReportsServed
  <2>2. CASE s = "dashboard"
    <3>1. "report.ceo" \in perms
      BY <1>1, <2>2 DEF Routes, Can, NoPerm
    <3>2. h = "dashboard.ceo"
      BY <2>2 DEF Offered, DashboardLoads
    <3> QED BY <3>1, <3>2, ReportsServed
  <2>3. CASE s = "system"
    <3>1. "system.admin" \in perms
      BY <1>1, <2>3 DEF Routes, Can, NoPerm
    <3>2. h \in {"health.ready", "health.system"}
      BY <2>3 DEF Offered, SystemLoads
    <3> QED BY <3>1, <3>2, ReportsServed
  <2> QED BY <1>4, <2>1, <2>2, <2>3
<1>5. CASE s \in {"personnel", "payroll", "users"}
  <2>1. CASE s = "personnel"
    <3>1. "hr.view" \in perms
      BY <1>1, <2>1 DEF Routes, Can, NoPerm
    <3>2. \/ h \in {"personnel.list", "positions.list", "users.directory"}
          \/ /\ h \in {"personnel.get", "personnel.create", "personnel.update",
                       "personnel.remove", "positions.create", "positions.remove"}
             /\ "hr.manage" \in perms
      BY <2>1 DEF Offered, PersonnelLoads, PersonnelButtons, For, Can, NoPerm
    <3> QED BY <3>1, <3>2, StaffServed, UsersServed
  <2>2. CASE s = "payroll"
    <3>1. "payroll.run" \in perms
      BY <1>1, <2>2 DEF Routes, Can, NoPerm
    <3>2. h \in {"payroll.list", "payroll.create", "payroll.get", "payroll.post"}
      BY <2>2 DEF Offered, PayrollLoads, PayrollButtons
    <3> QED BY <3>1, <3>2, StaffServed
  <2>3. CASE s = "users"
    <3>1. "user.manage" \in perms
      BY <1>1, <2>3 DEF Routes, Can, NoPerm
    <3>2. h \in {"users.list", "users.roles", "users.catalog", "users.create", "users.update",
                 "users.reset", "users.resetMfa", "users.remove", "users.detail",
                 "users.setPermissions"}
      BY <2>3 DEF Offered, UsersLoads, UsersButtons
    <3> QED BY <3>1, <3>2, UsersServed
  <2> QED BY <1>5, <2>1, <2>2, <2>3
<1>6. CASE s \in {"projects", "customers"}
  <2>1. CASE s = "projects"
    <3>1. "project.view" \in perms
      BY <1>1, <2>1 DEF Routes, Can, NoPerm
    <3>2. \/ h = "projects.list" \/ (h = "customers.list" /\ "customer.view" \in perms)
          \/ /\ h \in {"projects.create", "projects.update", "projects.remove"}
             /\ "project.manage" \in perms
      BY <2>1 DEF Offered, ProjectsLoads, ProjectsButtons, For, Can, NoPerm
    <3> QED BY <3>1, <3>2, CrmServed
  <2>2. CASE s = "customers"
    <3>1. "customer.view" \in perms
      BY <1>1, <2>2 DEF Routes, Can, NoPerm
    <3>2. \/ h = "customers.list"
          \/ /\ h \in {"customers.create", "customers.update", "customers.remove"}
             /\ "customer.manage" \in perms
      BY <2>2 DEF Offered, CustomersLoads, CustomersButtons, For, Can, NoPerm
    <3> QED BY <3>1, <3>2, CrmServed
  <2> QED BY <1>6, <2>1, <2>2
<1>7. CASE s = "trash"
  <2>1. PICK t \in TrashTabs(perms) : h = t.list \/ h = t.restore
    BY <1>7 DEF Offered, TrashLoads, TrashButtons
  <2>2. \/ t.list = "journal.trash" /\ t.restore = "journal.restore" /\ "ledger.view" \in perms
        \/ t.list = "projects.trash" /\ t.restore = "projects.restore" /\ "project.manage" \in perms
        \/ t.list = "customers.trash" /\ t.restore = "customers.restore" /\ "customer.manage" \in perms
        \/ t.list = "personnel.trash" /\ t.restore = "personnel.restore" /\ "hr.manage" \in perms
        \/ t.list = "tasks.trash" /\ t.restore = "tasks.restore" /\ "task.manage" \in perms
    <3>1. /\ Can(perms, t.perm)
          /\ \/ t.perm = "ledger.view" /\ t.list = "journal.trash" /\ t.restore = "journal.restore"
             \/ t.perm = "project.manage" /\ t.list = "projects.trash" /\ t.restore = "projects.restore"
             \/ t.perm = "customer.manage" /\ t.list = "customers.trash" /\ t.restore = "customers.restore"
             \/ t.perm = "hr.manage" /\ t.list = "personnel.trash" /\ t.restore = "personnel.restore"
             \/ t.perm = "task.manage" /\ t.list = "tasks.trash" /\ t.restore = "tasks.restore"
      BY DEF TrashTabs
    <3> QED BY <3>1 DEF Can, NoPerm
  <2>3. h # "journal.restore"
    OBVIOUS
  <2> QED BY <2>1, <2>2, <2>3, LedgerServed, CrmServed, StaffServed, TasksServed
<1>8. s \in {"workspace", "profile", "tasks"} \cup {"accounts", "ledger", "journal", "journalNew"}
             \cup {"trialBalance", "profitLoss", "balanceSheet", "dashboard", "system"}
             \cup {"personnel", "payroll", "users"} \cup {"projects", "customers", "trash"}
  BY <1>1 DEF Routes
<1> QED BY <1>2, <1>3, <1>4, <1>5, <1>6, <1>7, <1>8

\* With the permissions of a role no screen offers what the server refuses, but
\* for the restore of a deleted entry, as long as page, token and server agree.
THEOREM OffersAreServed == TabSpec => []OfferedIsServed
<1>1. ASSUME TabInv, who.grants = {}, me = who, access # Null, access.of = who,
             NEW s \in VisibleGroups(MyPerms), NEW h \in Offered(s, MyPerms) \ {"journal.restore"}
      PROVE  MayCall(h, Perms(access.of))
  <2>1. who.role \in DOMAIN RolePermissions
    BY <1>1, ClientAssumption DEF TabInv, TabTyped, ServerTyped
  <2>2. MyPerms = RolePermissions[who.role] /\ Perms(access.of) = MyPerms
    BY <1>1 DEF MyPerms, Perms, EffectivePermissions
  <2>3. RolesFit(MyPerms)
    BY <2>1, <2>2, RolesDoFit
  <2> QED BY <1>1, <2>2, <2>3, ScreensServed
<1>2. TabInv => OfferedIsServed
  BY <1>1 DEF OfferedIsServed
<1> QED BY <1>2, TabInvariance, PTL

=============================================================================

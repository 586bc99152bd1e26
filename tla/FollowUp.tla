------------------------------- MODULE FollowUp -------------------------------
(***************************************************************************)
(* What company, student and advisor exchange in an application besides its *)
(* anteproyecto: interviews, deliverables and the documents that the company *)
(* asks for before it decides. Every request reads a row, decides on what it *)
(* has read and saves the row later. The save is two statements: it reads    *)
(* the row again and writes the columns in which that differs from what the  *)
(* request has in hand. So it also brings back what others changed before    *)
(* the first of the two, and leaves what they change before the second. A    *)
(* behaviour is about rows of one kind; they do not touch each other.        *)
(*                                                                         *)
(* A file is the number of its upload, 0 for none. Titles, dates, grades and *)
(* comments are left out; the status of the application is kept as far as     *)
(* these requests look at it; a resolution that fails goes as one that        *)
(* passes.                                                                   *)
(***************************************************************************)
EXTENDS Integers, FiniteSets

CONSTANTS
    Requests,      \* slots for the requests that run at a time
    MaxRows,       \* [kind |-> bound on its rows]
    MaxUploads,    \* [kind |-> bound on the uploads]
    MaxRestarts    \* bound on the restarts

FollowUpAssumption ==
    /\ MaxRows \in [{"interview", "deliverable", "selection"} -> Nat]
    /\ MaxUploads \in [DOMAIN MaxRows -> Nat]
    /\ MaxRestarts \in Nat

VARIABLES
    kind,          \* of the rows: interview, deliverable or selection
    application,   \* status: open or interview; for deliverables working; or over
    rows,          \* [id |-> row]
    call,          \* what runs in each slot
    uploads,       \* how many files were uploaded
    restarts,
    seen,          \* history: [id |-> the file that its last reviewer had read]
    answered,      \* history: [id |-> the revisions the student answered]
    disturbed,     \* history: requests overlapped, or one was cut off
    slipped        \* history: rows with files that changed between the statements of a save

vars == <<kind, application, rows, call, uploads, restarts, seen, answered, disturbed,
          slipped>>
History == <<seen, answered, slipped>>

Ids == 1..MaxRows[kind]
NoRow == [status |-> "none"]
Idle == [op |-> "none"]

InterviewStatus == {"scheduled", "completed", "cancelled", "rescheduled"}
DeliverableStatus == {"pending", "submitted", "approved", "rejected", "needs_revision"}
SelectionDocumentStatus == {"requested", "submitted", "approved", "rejected"}
StatusOf == [interview |-> InterviewStatus, deliverable |-> DeliverableStatus,
             selection |-> SelectionDocumentStatus]

Row == [status : StatusOf[kind], file : 0..MaxUploads[kind], revision : Nat,
        resolution : {"none", "passed"}, from : {0} \cup Ids]

TypeOK ==
    /\ kind \in DOMAIN StatusOf
    /\ application \in {"open", "interview", "working", "over"}
    /\ rows \in [Ids -> Row \cup {NoRow}]
    /\ DOMAIN call = Requests
    /\ uploads \in 0..MaxUploads[kind] /\ restarts \in 0..MaxRestarts
    /\ seen \in [Ids -> 0..MaxUploads[kind]] /\ answered \in [Ids -> Nat]
    /\ disturbed \in BOOLEAN /\ slipped \subseteq Ids

Init ==
    /\ kind \in DOMAIN StatusOf
    /\ application = (IF kind = "deliverable" THEN "working" ELSE "open")
    /\ rows = [i \in Ids |-> NoRow]
    /\ call = [r \in Requests |-> Idle]
    /\ uploads = 0 /\ restarts = 0
    /\ seen = [i \in Ids |-> 0] /\ answered = [i \in Ids |-> 0]
    /\ disturbed = FALSE /\ slipped = {}

There == {i \in Ids : rows[i] # NoRow}
Next1 == Cardinality(There) + 1

Goes(r, c) == call' = [call EXCEPT ![r] = c]
Starts(r) ==
    /\ call[r] = Idle
    /\ disturbed' = (disturbed \/ \E other \in Requests : call[other] # Idle)

Insert(row) == Next1 \in Ids /\ rows' = [rows EXCEPT ![Next1] = row]
New(status, file) ==
    [status |-> status, file |-> file, revision |-> 1, resolution |-> "none", from |-> 0]

\* The company moves the application on; what admits which is in ApplicationLifecycle.
Advance ==
    /\ \/ application = "open" /\ application' \in {"interview", "over"}
       \/ application \in {"interview", "working"} /\ application' = "over"
    /\ disturbed' = (disturbed \/ \E r \in Requests : call[r] # Idle)
    /\ UNCHANGED <<kind, rows, call, uploads, restarts, History>>

(***************************************************************************)
(* Making rows                                                             *)
(***************************************************************************)
\* scheduleInterview: the interview, and then updateStatus for an application that was
\* not in interviews when it was read; a failure there leaves the interview.
ScheduleStart(r) ==
    /\ kind = "interview" /\ Starts(r) /\ application \in {"open", "interview"}
    /\ Goes(r, [op |-> "schedule", read |-> application])
    /\ UNCHANGED <<kind, application, rows, uploads, restarts, History>>

ScheduleSave(r) ==
    /\ call[r].op = "schedule"
    /\ Insert(New("scheduled", 0))
    /\ Goes(r, IF call[r].read = "open" THEN [op |-> "move"] ELSE Idle)
    /\ UNCHANGED <<kind, application, uploads, restarts, disturbed, History>>

\* updateStatus reads the application anew and refuses what its status does not admit.
ScheduleMove(r) ==
    /\ call[r].op = "move"
    /\ application' = IF application = "open" THEN "interview" ELSE application
    /\ Goes(r, Idle)
    /\ UNCHANGED <<kind, rows, uploads, restarts, disturbed, History>>

\* createDeliverable and submitDeliverable look at the application and insert;
\* bulkCreateDeliverable and requestSelectionDocument do not look at its status.
CreateDeliverable ==
    /\ kind = "deliverable" /\ application = "working"
    /\ Insert(New("pending", 0))
    /\ UNCHANGED <<kind, application, call, uploads, restarts, disturbed, History>>

BulkCreateDeliverable ==
    /\ kind = "deliverable"
    /\ Insert(New("pending", 0))
    /\ UNCHANGED <<kind, application, call, uploads, restarts, disturbed, History>>

SubmitDeliverable ==
    /\ kind = "deliverable" /\ application = "working" /\ uploads < MaxUploads[kind]
    /\ uploads' = uploads + 1
    /\ Insert(New("submitted", uploads'))
    /\ UNCHANGED <<kind, application, call, restarts, disturbed, History>>

RequestSelectionDocument ==
    /\ kind = "selection"
    /\ Insert(New("requested", 0))
    /\ UNCHANGED <<kind, application, call, uploads, restarts, disturbed, History>>

(***************************************************************************)
(* Changing a row                                                          *)
(***************************************************************************)
\* The brief, the solution and the feedback of an interview fill columns that no other
\* request looks at: one operation, feedback, stands for the three.
OpsOf ==
    [interview |-> {"pass", "cancel", "feedback", "reschedule"},
     deliverable |-> {"update", "approve", "reject", "revise"},
     selection |-> {"submit", "approve", "reject"}]

Uploading == {"update", "submit"}
Reviewing == {"approve", "reject", "revise"}

\* What the handler asks of the row it has read: completeInterview, rescheduleInterview
\* and submitSelectionDocument ask nothing.
Admits(op, row) ==
    CASE op \in Reviewing -> row.status = "submitted"
      [] op = "update" -> row.status # "approved"
      [] op = "cancel" -> row.status # "completed"
      [] OTHER -> TRUE

Reviewed == [approve |-> "approved", reject |-> "rejected", revise |-> "needs_revision"]

InterviewChanged(op, row) ==
    CASE op = "pass" -> [row EXCEPT !.status = "completed", !.resolution = "passed"]
      [] op = "cancel" -> [row EXCEPT !.status = "cancelled"]
      [] op = "reschedule" -> [row EXCEPT !.status = "rescheduled"]
      [] op = "feedback" -> row

DeliverableChanged(op, row, file) ==
    IF op = "update"
    THEN [row EXCEPT !.status = "submitted", !.file = file,
                     !.revision = IF row.status = "needs_revision" THEN @ + 1 ELSE @]
    ELSE [row EXCEPT !.status = Reviewed[op]]

SelectionChanged(op, row, file) ==
    IF op = "submit" THEN [row EXCEPT !.status = "submitted", !.file = file]
    ELSE [row EXCEPT !.status = Reviewed[op]]

Changed(op, row, file) ==
    CASE kind = "interview" -> InterviewChanged(op, row)
      [] kind = "deliverable" -> DeliverableChanged(op, row, file)
      [] kind = "selection" -> SelectionChanged(op, row, file)

Read(r, op, i) ==
    /\ Starts(r) /\ i \in There /\ op \in OpsOf[kind] /\ Admits(op, rows[i])
    /\ op \in Uploading => uploads < MaxUploads[kind]
    /\ uploads' = IF op \in Uploading THEN uploads + 1 ELSE uploads
    /\ Goes(r, [op |-> op, step |-> "select", id |-> i, row |-> rows[i], file |-> uploads'])
    /\ UNCHANGED <<kind, application, rows, restarts, History>>

\* Mutant of Saved: a review brings its status and nothing of the row that it read.
SavedStatus(c) ==
    IF c.op \in Reviewing THEN [rows[c.id] EXCEPT !.status = Reviewed[c.op]]
    ELSE Changed(c.op, c.row, c.file)

\* What save(row) is to leave: the row as the request read it, with the change.
Saved(c) == Changed(c.op, c.row, c.file)

Holds(r, step) == call[r].op \in OpsOf[kind] /\ call[r].step = step

SaveSelect(r) ==
    /\ Holds(r, "select")
    /\ LET c == call[r] IN
       Goes(r, [op |-> c.op, step |-> "update", id |-> c.id, row |-> c.row, file |-> c.file,
                base |-> rows[c.id]])
    /\ UNCHANGED <<kind, application, rows, uploads, restarts, disturbed, History>>

\* The columns that are to be other than they were found.
Merged(row, base, saved) ==
    [k \in DOMAIN row |-> IF saved[k] # base[k] THEN saved[k] ELSE row[k]]

SaveUpdate(r) ==
    /\ Holds(r, "update")
    /\ LET c == call[r] IN
       /\ rows' = [rows EXCEPT ![c.id] = Merged(@, c.base, Saved(c))]
       /\ seen' = IF c.op \in Reviewing THEN [seen EXCEPT ![c.id] = c.row.file] ELSE seen
       /\ answered' = IF c.op = "update" /\ rows[c.id].status = "needs_revision"
                      THEN [answered EXCEPT ![c.id] = @ + 1] ELSE answered
       /\ slipped' = IF kind # "interview" /\ rows[c.id] # c.base
                     THEN slipped \cup {c.id} ELSE slipped
       /\ Goes(r, IF c.op = "reschedule" THEN [op |-> "again", id |-> c.id] ELSE Idle)
    /\ UNCHANGED <<kind, application, uploads, restarts, disturbed>>

\* The second half of rescheduleInterview.
RescheduleInsert(r) ==
    /\ call[r].op = "again"
    /\ Insert([New("scheduled", 0) EXCEPT !.from = call[r].id])
    /\ Goes(r, Idle)
    /\ UNCHANGED <<kind, application, uploads, restarts, disturbed, History>>

\* The process restarts: its requests end where they are.
Restart ==
    /\ restarts < MaxRestarts
    /\ restarts' = restarts + 1
    /\ disturbed' = (disturbed \/ \E r \in Requests : call[r] # Idle)
    /\ call' = [r \in Requests |-> Idle]
    /\ UNCHANGED <<kind, application, rows, uploads, History>>

Schedule(r) == ScheduleStart(r) \/ ScheduleSave(r) \/ ScheduleMove(r)

Next ==
    \/ Advance \/ Restart
    \/ CreateDeliverable \/ BulkCreateDeliverable \/ SubmitDeliverable
    \/ RequestSelectionDocument
    \/ \E r \in Requests :
         \/ Schedule(r) \/ SaveSelect(r) \/ SaveUpdate(r) \/ RescheduleInsert(r)
         \/ \E i \in Ids : \E op \in OpsOf[kind] : Read(r, op, i)

Spec == Init /\ [][Next]_vars

(***************************************************************************)
(* Properties                                                              *)
(***************************************************************************)
\* What stands approved is the very file its reviewer had read, whatever the student
\* uploaded meanwhile, unless an upload came between the two statements of a save.
ApprovedAsReviewed ==
    \A i \in There \ slipped : rows[i].status = "approved" => rows[i].file = seen[i]

\* An approved deliverable is opened again only by a request that had read it before
\* its approval.
ReopenedByEarlier ==
    \A i \in There : (kind = "deliverable" /\ rows[i].status = "approved"
                            /\ rows'[i].status # "approved")
            => \E r \in Requests : /\ call[r].op \in OpsOf["deliverable"]
                                   /\ call[r].id = i /\ call[r].row.status # "approved"
ApprovalKept == [][ReopenedByEarlier]_vars

\* The number of a deliverable counts the revisions its student answered, unless
\* requests overlapped.
RevisionsCounted ==
    ~disturbed => \A i \in There : rows[i].revision = 1 + answered[i]

\* The company's resolution of an interview is undone only by a request that had read
\* the interview before.
UndoneByEarlier ==
    \A i \in There : (rows[i].resolution # "none" /\ rows'[i].resolution = "none")
            => \E r \in Requests : /\ call[r].op \in OpsOf["interview"]
                                   /\ call[r].id = i /\ call[r].row.resolution = "none"
ResolutionKept == [][UndoneByEarlier]_vars

\* With nothing cut off or in its way a rescheduled interview has its successor, and
\* scheduling one has moved the application on.
InterviewsFollowUp ==
    (kind = "interview" /\ ~disturbed /\ \A r \in Requests : call[r] = Idle)
        => /\ There # {} => application # "open"
           /\ \A i \in There : rows[i].status = "rescheduled"
                                 => \E j \in There : rows[j].from = i

(***************************************************************************)
(* What every step keeps                                                   *)
(***************************************************************************)
\* What a request knows: the row it has read is one that its operation admits, and an
\* application that has left "open" does not come back to it.
Fits(r) ==
    \/ call[r] = Idle
    \/ /\ \/ call[r] \in [op : OpsOf[kind], step : {"select"}, id : There, row : Row,
                          file : 0..MaxUploads[kind]]
          \/ call[r] \in [op : OpsOf[kind], step : {"update"}, id : There, row : Row,
                          file : 0..MaxUploads[kind], base : Row]
       /\ Admits(call[r].op, call[r].row)
       /\ kind # "interview" => call[r].row.resolution = "none"
    \/ /\ kind = "interview"
       /\ \/ /\ call[r] \in [op : {"schedule"}, read : {"open", "interview"}]
             /\ application = "open" => call[r].read = "open"
          \/ call[r] = [op |-> "move"]
          \/ call[r] \in [op : {"again"}, id : There]
CallsFit == \A r \in Requests : Fits(r)

\* Rows are numbered as they come; only interviews are resolved, and only a row that is
\* there is answered.
RowsInTurn ==
    /\ \E n \in 0..MaxRows[kind] : There = 1..n
    /\ \A i \in There : kind # "interview" => rows[i].resolution = "none"
    /\ \A i \in Ids \ There : answered[i] = 0

\* Requests in turn: there is one at a time and it has read what is still there.
Alone ==
    ~disturbed => /\ \A r, q \in Requests : call[r] # Idle /\ call[q] # Idle => r = q
                  /\ \A r \in Requests : call[r].op \in OpsOf[kind]
                        => /\ call[r].row = rows[call[r].id]
                           /\ call[r].step = "update" => call[r].base = rows[call[r].id]

\* What the one request there is has yet to do for the interviews.
InterviewsGoOn ==
    (kind = "interview" /\ ~disturbed)
        => /\ (There # {} /\ application = "open") => \E r \in Requests : call[r].op = "move"
           /\ \A i \in There : rows[i].status = "rescheduled"
                => \/ \E j \in There : rows[j].from = i
                   \/ \E r \in Requests : call[r].op = "again" /\ call[r].id = i

FollowUpInv ==
    /\ TypeOK /\ CallsFit /\ RowsInTurn /\ ApprovedAsReviewed
    /\ Alone /\ RevisionsCounted /\ InterviewsGoOn
===============================================================================

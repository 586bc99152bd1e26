------------------------ MODULE ApplicationLifecycle ------------------------
(***************************************************************************)
(* The status of an application in application-service, and what follows   *)
(* from it: the deliverables copied from the project, the academic record  *)
(* and its anteproyecto submission.                                        *)
(*                                                                         *)
(* A handler reads the application, decides on the status it has read, and *)
(* saves the row with the new one; nothing keeps another request away      *)
(* between the two.  The requests of users run in the slots Users; the     *)
(* calls of admin-service carry the state of the handler that serves them. *)
(*                                                                         *)
(* The entries of the timeline and the published events, which no handler  *)
(* reads back, are left out.  Of the academic record this module keeps     *)
(* whether it is open: the statuses from waiting_anteproyecto to           *)
(* finalizing are one here, so that each of them allows what one allows.   *)
(***************************************************************************)
EXTENDS AcademicCalls

CONSTANTS
    InitialStatus,  \* statuses of the applications where a behaviour starts
    Users,          \* slots for the requests of companies, students and admins
    MayLose         \* whether a call may be lost before it is served

ASSUME LifecycleAssumption ==
    /\ InitialStatus \subseteq {"pending", "accepted"}
    /\ MayLose \in BOOLEAN

VARIABLES
    status,         \* Application.status
    deliverables,   \* how many times the templates of the project were copied
    record,         \* supervisor of the assignment of the academic record
    recordStatus,   \* ProjectAcademicRecord.status
    submission,     \* whether the anteproyecto submission exists
    user            \* what runs in each slot of Users

applicationVars == <<status, deliverables, record, recordStatus, submission, user>>
lifecycleVars == <<applicationVars, calls>>

Status == {"pending", "under_review", "shortlisted", "interview", "accepted",
           "pending_supervisor", "rejected", "withdrawn", "in_progress",
           "completed", "cancelled"}
RecordStatus == {"none", "open", "completed", "cancelled"}

UserSteps == {"idle", "save", "record_progress", "record_close", "status_close"}
UserRequest == [pc : UserSteps, app : Applications \cup {None}, to : Status]
UserIdle == [pc |-> "idle", app |-> None, to |-> "pending"]

\* STATUS_TRANSITIONS: what the company may ask for from each status.
Transitions ==
    [s \in Status |->
        CASE s = "pending"            -> {"under_review", "shortlisted", "interview", "rejected"}
          [] s = "under_review"       -> {"shortlisted", "interview", "rejected"}
          [] s = "shortlisted"        -> {"interview", "rejected"}
          [] s = "interview"          -> {"accepted", "rejected"}
          [] s = "accepted"           -> {"pending_supervisor", "cancelled"}
          [] s = "pending_supervisor" -> {"in_progress", "cancelled"}
          [] s = "in_progress"        -> {"completed", "cancelled"}
          [] OTHER                    -> {}]

LifecycleTypeOK ==
    /\ status \in [Applications -> Status]
    /\ deliverables \in [Applications -> Nat]
    /\ record \in [Applications -> Supervisors \cup {None}]
    /\ recordStatus \in [Applications -> RecordStatus]
    /\ submission \in [Applications -> BOOLEAN]
    /\ user \in [Users -> UserRequest]

\* An application has just been created (createApplication), or the company
\* has just accepted it and nobody has been invited yet.
LifecycleInit ==
    /\ status \in [Applications -> InitialStatus]
    /\ deliverables = [a \in Applications |-> 0]
    /\ record = [a \in Applications |-> None]
    /\ recordStatus = [a \in Applications |-> "none"]
    /\ submission = [a \in Applications |-> FALSE]
    /\ user = [u \in Users |-> UserIdle]

(***************************************************************************)
(* Requests of users: read and decide, then save                           *)
(***************************************************************************)
UserBegin(u, a, pc, to) ==
    /\ user[u].pc = "idle"
    /\ user' = [user EXCEPT ![u] = [pc |-> pc, app |-> a, to |-> to]]
    /\ UNCHANGED <<status, deliverables, record, recordStatus, submission, calls>>

\* updateStatus; scheduleInterview ends in it with the status interview.
CompanyCheck(u, a, to) == to \in Transitions[status[a]] /\ UserBegin(u, a, "save", to)

\* withdraw: refused in three of the four terminal statuses.
WithdrawCheck(u, a) ==
    /\ status[a] \notin {"rejected", "withdrawn", "completed"}
    /\ UserBegin(u, a, "save", "withdrawn")

\* withdrawAllByStudent, for one of the applications it finds.
DeactivateCheck(u, a) ==
    /\ status[a] \in {"pending", "under_review", "shortlisted", "interview"}
    /\ UserBegin(u, a, "save", "withdrawn")

\* updateNotes: saves the whole row, so the status as it was read too.
NotesCheck(u, a) == UserBegin(u, a, "save", status[a])

UserSave(u) ==
    /\ user[u].pc = "save"
    /\ status' = [status EXCEPT ![user[u].app] = user[u].to]
    /\ user' = [user EXCEPT ![u] = UserIdle]
    /\ UNCHANGED <<deliverables, record, recordStatus, submission, calls>>

\* The approval of the anteproyecto and the agreement ask nothing of the record
\* but that it exists; the two steps of the finalization and the alert of its
\* progress read one that is open.  Each saves it as open.
ProgressCheck(u, a) ==
    /\ record[a] # None
    /\ UserBegin(u, a, "record_progress", status[a])

ProgressRecord(u) ==
    /\ user[u].pc = "record_progress"
    /\ recordStatus' = [recordStatus EXCEPT ![user[u].app] = "open"]
    /\ user' = [user EXCEPT ![u] = UserIdle]
    /\ UNCHANGED <<status, deliverables, record, submission, calls>>

\* uploadFinalGrade and cancelFinalization: the record is saved first, then
\* the application is, whatever status it has by then.
CloseCheck(u, a, to) ==
    /\ to \in {"completed", "rejected"}
    /\ recordStatus[a] = "open"
    /\ UserBegin(u, a, "record_close", to)

\* Mutant of CloseRecord: the record gets the status of the application.
CloseRecordSameStatus(u) ==
    /\ user[u].pc = "record_close"
    /\ recordStatus' = [recordStatus EXCEPT ![user[u].app] = user[u].to]
    /\ user' = [user EXCEPT ![u].pc = "status_close"]
    /\ UNCHANGED <<status, deliverables, record, submission, calls>>

CloseRecord(u) ==
    /\ user[u].pc = "record_close"
    /\ recordStatus' = [recordStatus EXCEPT ![user[u].app] =
                           IF user[u].to = "completed" THEN "completed" ELSE "cancelled"]
    /\ user' = [user EXCEPT ![u].pc = "status_close"]
    /\ UNCHANGED <<status, deliverables, record, submission, calls>>

CloseApplication(u) ==
    /\ user[u].pc = "status_close"
    /\ status' = [status EXCEPT ![user[u].app] = user[u].to]
    /\ user' = [user EXCEPT ![u] = UserIdle]
    /\ UNCHANGED <<deliverables, record, recordStatus, submission, calls>>

(***************************************************************************)
(* Calls of admin-service                                                  *)
(***************************************************************************)
CallAt(c, kind, pc) == c \in calls /\ c.kind = kind /\ c.pc = pc
CallGoto(c, pc) == calls' = (calls \ {c}) \cup {[c EXCEPT !.pc = pc]}
CallEnd(c) == calls' = calls \ {c}

\* markPendingSupervisor and revertToAccepted skip any other status.
ShiftFrom(kind) == IF kind = "pending-supervisor" THEN "accepted" ELSE "pending_supervisor"
ShiftTo(kind) == IF kind = "pending-supervisor" THEN "pending_supervisor" ELSE "accepted"

ShiftCheck(c) ==
    /\ c \in calls /\ c.pc = "sent" /\ c.kind # "start-progress"
    /\ IF status[c.app] = ShiftFrom(c.kind) THEN CallGoto(c, "save") ELSE CallEnd(c)
    /\ UNCHANGED applicationVars

ShiftSave(c) ==
    /\ c \in calls /\ c.pc = "save" /\ c.kind # "start-progress"
    /\ status' = [status EXCEPT ![c.app] = ShiftTo(c.kind)]
    /\ CallEnd(c)
    /\ UNCHANGED <<deliverables, record, recordStatus, submission, user>>

\* Mutant of StartSave: only a waiting application starts.
StartSaveWaiting(c) ==
    /\ CallAt(c, "start-progress", "sent")
    /\ IF status[c.app] = "pending_supervisor"
       THEN status' = [status EXCEPT ![c.app] = "in_progress"] /\ CallGoto(c, "deliverables")
       ELSE CallEnd(c) /\ UNCHANGED status
    /\ UNCHANGED <<deliverables, record, recordStatus, submission, user>>

\* startInProgress asks for no status: the application is in progress now.
StartSave(c) ==
    /\ CallAt(c, "start-progress", "sent")
    /\ status' = [status EXCEPT ![c.app] = "in_progress"]
    /\ CallGoto(c, "deliverables")
    /\ UNCHANGED <<deliverables, record, recordStatus, submission, user>>

\* Mutant of StartDeliverables: the error of project-service ends the handler.
StartDeliverablesOrFail(c) ==
    /\ CallAt(c, "start-progress", "deliverables")
    /\ \/ /\ deliverables' = [deliverables EXCEPT ![c.app] = @ + 1]
          /\ CallGoto(c, "record_check")
       \/ CallEnd(c) /\ UNCHANGED deliverables
    /\ UNCHANGED <<status, record, recordStatus, submission, user>>

\* instantiateProjectDeliverables gives up when project-service fails.
StartDeliverables(c) ==
    /\ CallAt(c, "start-progress", "deliverables")
    /\ \E copied \in {0, 1} : deliverables' = [deliverables EXCEPT ![c.app] = @ + copied]
    /\ CallGoto(c, "record_check")
    /\ UNCHANGED <<status, record, recordStatus, submission, user>>

StartRecordCheck(c) ==
    /\ CallAt(c, "start-progress", "record_check")
    /\ IF record[c.app] = None THEN CallGoto(c, "record_save") ELSE CallEnd(c)
    /\ UNCHANGED applicationVars

\* Mutant of StartRecordSave: the record is written over.
StartRecordSaveOver(c) ==
    /\ CallAt(c, "start-progress", "record_save")
    /\ record' = [record EXCEPT ![c.app] = c.sup]
    /\ recordStatus' = [recordStatus EXCEPT ![c.app] = "open"]
    /\ CallGoto(c, "submission_save")
    /\ UNCHANGED <<status, deliverables, submission, user>>

\* Mutant of StartRecordSave: the submission is left to the first upload.
StartRecordSaveAlone(c) ==
    /\ CallAt(c, "start-progress", "record_save")
    /\ record' = [record EXCEPT ![c.app] = IF @ = None THEN c.sup ELSE @]
    /\ recordStatus' = [recordStatus EXCEPT ![c.app] = "open"]
    /\ CallEnd(c)
    /\ UNCHANGED <<status, deliverables, submission, user>>

\* The column applicationId is unique: a second record ends the handler.
StartRecordSave(c) ==
    /\ CallAt(c, "start-progress", "record_save")
    /\ IF record[c.app] = None
       THEN /\ record' = [record EXCEPT ![c.app] = c.sup]
            /\ recordStatus' = [recordStatus EXCEPT ![c.app] = "open"]
            /\ CallGoto(c, "submission_save")
       ELSE CallEnd(c) /\ UNCHANGED <<record, recordStatus>>
    /\ UNCHANGED <<status, deliverables, submission, user>>

StartSubmissionSave(c) ==
    /\ CallAt(c, "start-progress", "submission_save")
    /\ submission' = [submission EXCEPT ![c.app] = TRUE]
    /\ CallEnd(c)
    /\ UNCHANGED <<status, deliverables, record, recordStatus, user>>

Serve(c) ==
    \/ ShiftCheck(c) \/ ShiftSave(c)
    \/ StartSave(c) \/ StartDeliverables(c)
    \/ StartRecordCheck(c) \/ StartRecordSave(c) \/ StartSubmissionSave(c)

(***************************************************************************)
(* Failures, and the service                                               *)
(***************************************************************************)
\* The call never arrives; its caller swallows the error and does not retry.
LoseCall(c) ==
    /\ MayLose
    /\ c \in calls /\ c.pc = "sent"
    /\ CallEnd(c)
    /\ UNCHANGED applicationVars

ApplicationCrash ==
    /\ MayCrash
    /\ user' = [u \in Users |-> UserIdle]
    /\ calls' = {c \in calls : c.pc = "sent"}
    /\ UNCHANGED <<status, deliverables, record, recordStatus, submission>>

UserArrive(u) ==
    \E a \in Applications :
        \/ \E to \in Status : CompanyCheck(u, a, to) \/ CloseCheck(u, a, to)
        \/ WithdrawCheck(u, a)
        \/ DeactivateCheck(u, a)
        \/ NotesCheck(u, a)
        \/ ProgressCheck(u, a)

UserAdvance(u) ==
    UserSave(u) \/ ProgressRecord(u) \/ CloseRecord(u) \/ CloseApplication(u)

LifecycleNext ==
    \/ \E u \in Users : UserArrive(u) \/ UserAdvance(u)
    \/ \E c \in calls : Serve(c) \/ LoseCall(c)
    \/ ApplicationCrash
=============================================================================

--------------------------- MODULE AcademicRecord ---------------------------
(***************************************************************************)
(* The academic record of one application, in application-service, from    *)
(* the approval of its anteproyecto to the final grade: the documents the  *)
(* admin asks for, the initiation agreement, the finalization with its     *)
(* final documents, and the closing of record and application.  The status *)
(* of the application is also changed by handlers that look at no record.  *)
(*                                                                         *)
(* A handler loads the record, decides, and saves the whole row.  A slot   *)
(* keeps the row as the handler will save it; consecutive reads are one    *)
(* step.  A requirement has one document, as it does unless two first      *)
(* uploads overlap.  Of files, dates, grades and comments only whether the *)
(* record has them is kept.                                                *)
(*                                                                         *)
(* How the anteproyecto comes to be approved is the module Anteproyecto;   *)
(* here it is approved once, at any time.                                  *)
(***************************************************************************)
EXTENDS Integers, FiniteSets

CONSTANTS
    InitialDocs,       \* document requirements of the catalogue of admin-service
    FinalDocs,         \* requirements startFinalization may create
    Mandatory,         \* those with isMandatory, of both kinds
    CatalogueMayFail,  \* whether the catalogue may fail to be read
    Requests,          \* slots for the requests application-service runs at a time
    MayCrash           \* whether the process may restart in mid-request

Docs == InitialDocs \cup FinalDocs

ASSUME RecordAssumption ==
    /\ InitialDocs \cap FinalDocs = {}
    /\ Mandatory \subseteq Docs
    /\ CatalogueMayFail \in BOOLEAN
    /\ MayCrash \in BOOLEAN

VARIABLES
    approved,      \* whether the anteproyecto submission is approved
    record,        \* the row of project_academic_records
    application,   \* Application.status
    byHand,        \* history: whether updateStatus made it completed
    selected,      \* requirements linked to the application
    finals,        \* final requirements created for it
    docs,          \* status of the document of each requirement
    req            \* what runs in each request slot

vars == <<approved, record, application, byHand, selected, finals, docs, req>>

(***************************************************************************)
(* Rows and requests                                                       *)
(***************************************************************************)
\* No code sets waiting_agreement.
RecordStatus == {"waiting_anteproyecto", "waiting_documents", "waiting_agreement",
                 "active", "waiting_final_docs", "final_docs_review", "finalizing",
                 "completed", "cancelled"}

Rank ==
    [s \in RecordStatus |->
        CASE s = "waiting_anteproyecto" -> 0
          [] s = "waiting_documents"    -> 1
          [] s = "waiting_agreement"    -> 2
          [] s = "active"               -> 3
          [] s = "waiting_final_docs"   -> 4
          [] s = "final_docs_review"    -> 5
          [] s = "finalizing"           -> 6
          [] s = "completed"            -> 7
          [] s = "cancelled"            -> 8]

Record == [status : RecordStatus,
           agreement : BOOLEAN,    \* initiationAgreementFileId is set
           alerted : BOOLEAN,      \* progressAlertSent
           graded : BOOLEAN]       \* finalGradeFileId is set

DocStatus == {"absent", "submitted", "approved", "rejected"}

\* The steps that save the record, one per handler.
RecordSaves == {"approve_save", "agreement_save", "alert_save", "finalization_save",
                "advance_save", "grade_save", "cancel_save"}

Steps == {"idle", "selection_save", "document_save", "approve_record", "finals_save",
          "application_save", "status_save"} \cup RecordSaves

\* The statuses an application may have once it has a record.
ApplicationStatus == {"in_progress", "completed", "cancelled", "rejected", "withdrawn"}

FirstRecord == [status |-> "waiting_anteproyecto", agreement |-> FALSE,
                alerted |-> FALSE, graded |-> FALSE]

Request == [pc : Steps,
            row : Record,                \* the record as it will be saved
            docs : SUBSET Docs,          \* the document at hand, or the new requirements
            to : DocStatus,              \* status the document gets
            status : ApplicationStatus]  \* status the application gets

Idle == [pc |-> "idle", row |-> FirstRecord, docs |-> {}, to |-> "absent",
         status |-> "in_progress"]

TypeOK ==
    /\ approved \in BOOLEAN
    /\ record \in Record
    /\ application \in ApplicationStatus
    /\ byHand \in BOOLEAN
    /\ selected \subseteq InitialDocs
    /\ finals \subseteq FinalDocs
    /\ docs \in [Docs -> DocStatus]
    /\ req \in [Requests -> Request]

Init ==
    /\ approved = FALSE
    /\ record = FirstRecord
    /\ application = "in_progress" /\ byHand = FALSE
    /\ selected = {}
    /\ finals = {}
    /\ docs = [d \in Docs |-> "absent"]
    /\ req = [r \in Requests |-> Idle]

At(r, pc) == req[r].pc = pc
Done(r) == req' = [req EXCEPT ![r] = Idle]

Begin(r, new) ==
    /\ At(r, "idle")
    /\ req' = [req EXCEPT ![r] = new]
    /\ UNCHANGED <<approved, record, application, byHand, selected, finals, docs>>

\* A handler that has loaded the record is going to save it as row.
WillSave(r, pc, row) == Begin(r, [Idle EXCEPT !.pc = pc, !.row = row])

(***************************************************************************)
(* Documents                                                               *)
(***************************************************************************)
\* selectDocumentRequirements adds the links that are missing: all of them, or
\* none if one has been added meanwhile (they have a unique key).
SelectCheck(r, D) ==
    /\ ~ D \subseteq selected
    /\ Begin(r, [Idle EXCEPT !.pc = "selection_save", !.docs = D \ selected])

SelectionSave(r) ==
    /\ At(r, "selection_save")
    /\ selected' = IF req[r].docs \cap selected = {}
                   THEN selected \cup (req[r].docs \cap InitialDocs) ELSE selected
    /\ Done(r)
    /\ UNCHANGED <<approved, record, application, byHand, finals, docs>>

\* The uploads ask for the requirement, and for no phase of the record or status
\* of the document.
Upload(r, d) ==
    Begin(r, [Idle EXCEPT !.pc = "document_save", !.docs = {d}, !.to = "submitted"])

UploadCheck(r, d) == d \in selected /\ Upload(r, d)
UploadFinalCheck(r, d) == d \in finals /\ Upload(r, d)

\* reviewDocument asks for the document, and not that it waits for a review.
ReviewCheck(r, d, verdict) ==
    /\ docs[d] # "absent"
    /\ Begin(r, [Idle EXCEPT !.pc = "document_save", !.docs = {d}, !.to = verdict])

DocumentSave(r) ==
    /\ At(r, "document_save")
    /\ docs' = [d \in Docs |-> IF d \in req[r].docs THEN req[r].to ELSE docs[d]]
    /\ Done(r)
    /\ UNCHANGED <<approved, record, application, byHand, selected, finals>>

\* Mutant of AllApproved: an uploaded document is enough.
AllUploaded(D) == \A d \in D \cap Mandatory : docs[d] # "absent"

AllApproved(D) == \A d \in D \cap Mandatory : docs[d] = "approved"

(***************************************************************************)
(* The approval of the anteproyecto, the agreement and the alert           *)
(***************************************************************************)
\* reviewAnteproyecto saves the submission, loads the record and saves it.
ApproveSubmission(r) ==
    /\ At(r, "idle")
    /\ ~ approved
    /\ approved' = TRUE
    /\ req' = [req EXCEPT ![r].pc = "approve_record"]
    /\ UNCHANGED <<record, application, byHand, selected, finals, docs>>

ApproveRecord(r) ==
    /\ At(r, "approve_record")
    /\ req' = [req EXCEPT ![r].pc = "approve_save",
                          ![r].row = [record EXCEPT !.status = "waiting_documents"]]
    /\ UNCHANGED <<approved, record, application, byHand, selected, finals, docs>>

\* getInitiationChecklist: a catalogue that cannot be read asks for no document.
ReadyForAgreement == approved /\ (AllApproved(selected) \/ CatalogueMayFail)

\* uploadInitiationAgreement asks that there is none yet, and for no status.
AgreementCheck(r) ==
    /\ ~ record.agreement
    /\ ReadyForAgreement
    /\ WillSave(r, "agreement_save", [record EXCEPT !.agreement = TRUE, !.status = "active"])

\* getProgress, once nine tenths of the agreed time are over.
AlertCheck(r) ==
    /\ record.status = "active" /\ record.agreement /\ ~ record.alerted
    /\ WillSave(r, "alert_save", [record EXCEPT !.alerted = TRUE])

(***************************************************************************)
(* Finalization                                                            *)
(***************************************************************************)
\* Mutant of FinalizationCheck: the record is saved before the requirements.
FinalizationCheckRecordFirst(r, D) ==
    /\ record.status = "active"
    /\ finals = {} /\ D # {}
    /\ Begin(r, [Idle EXCEPT !.pc = "finalization_save", !.docs = D,
                             !.row = [record EXCEPT !.status = "waiting_final_docs"]])

FinalizationCheck(r, D) ==
    /\ record.status = "active"
    /\ finals = {} /\ D # {}
    /\ Begin(r, [Idle EXCEPT !.pc = "finals_save", !.docs = D,
                             !.row = [record EXCEPT !.status = "waiting_final_docs"]])

FinalsSave(r) ==
    /\ At(r, "finals_save")
    /\ finals' = finals \cup (req[r].docs \cap FinalDocs)
    /\ req' = [req EXCEPT ![r].pc = "finalization_save"]
    /\ UNCHANGED <<approved, record, application, byHand, selected, docs>>

\* Mutant of Advanceable: a record that is finalizing may go back.
AdvanceableAgain == {"waiting_final_docs", "final_docs_review", "finalizing"}

Advanceable == {"waiting_final_docs", "final_docs_review"}

AdvanceCheck(r) ==
    /\ record.status \in Advanceable
    /\ WillSave(r, "advance_save",
                [record EXCEPT !.status = IF AllApproved(finals) THEN "finalizing"
                                          ELSE "final_docs_review"])

Graded(row) == [row EXCEPT !.graded = TRUE, !.status = "completed"]

\* Mutant of GradeCheck: the application is closed first.
GradeCheckApplicationFirst(r) ==
    /\ record.status = "finalizing"
    /\ WillSave(r, "application_save", Graded(record))

GradeCheck(r) ==
    /\ record.status = "finalizing"
    /\ WillSave(r, "grade_save", Graded(record))

CancelCheck(r) ==
    /\ record.status \notin {"completed", "cancelled"}
    /\ WillSave(r, "cancel_save", [record EXCEPT !.status = "cancelled"])

\* The two handlers that close the record go on to the application.
RecordSave(r) ==
    /\ req[r].pc \in RecordSaves
    /\ record' = req[r].row
    /\ IF req[r].pc \in {"grade_save", "cancel_save"}
       THEN req' = [req EXCEPT ![r].pc = "application_save"]
       ELSE Done(r)
    /\ UNCHANGED <<approved, application, byHand, selected, finals, docs>>

ApplicationSave(r) ==
    /\ At(r, "application_save")
    /\ application' = IF req[r].row.status = "completed" THEN "completed" ELSE "rejected"
    /\ byHand' = FALSE
    /\ Done(r)
    /\ UNCHANGED <<approved, record, selected, finals, docs>>

(***************************************************************************)
(* The application, without its record                                     *)
(***************************************************************************)
\* A handler that has loaded the application is going to save it with this status.
StatusCheck(r, status) == Begin(r, [Idle EXCEPT !.pc = "status_save", !.status = status])

\* updateStatus: from in_progress the company or an admin may end the application,
\* whatever its record says.
UpdateStatusCheck(r, status) ==
    /\ application = "in_progress"
    /\ status \in {"completed", "cancelled"}
    /\ StatusCheck(r, status)

WithdrawCheck(r) ==
    /\ application \notin {"rejected", "withdrawn", "completed"}
    /\ StatusCheck(r, "withdrawn")

\* startInProgress of a later acceptance, which finds the record, and updateNotes.
StartCheck(r) == StatusCheck(r, "in_progress")
NotesCheck(r) == StatusCheck(r, application)

StatusSave(r) ==
    /\ At(r, "status_save")
    /\ application' = req[r].status
    /\ byHand' = (req[r].status = "completed" /\ (byHand \/ application # "completed"))
    /\ Done(r)
    /\ UNCHANGED <<approved, record, selected, finals, docs>>

(***************************************************************************)
(* The specification                                                       *)
(***************************************************************************)
\* The process restarts: what ran in it is gone.
Crash ==
    /\ MayCrash
    /\ req' = [r \in Requests |-> Idle]
    /\ UNCHANGED <<approved, record, application, byHand, selected, finals, docs>>

Arrive(r) ==
    \/ \E D \in SUBSET InitialDocs : SelectCheck(r, D)
    \/ \E d \in Docs : UploadCheck(r, d) \/ UploadFinalCheck(r, d)
    \/ \E d \in Docs, v \in {"approved", "rejected"} : ReviewCheck(r, d, v)
    \/ ApproveSubmission(r) \/ AgreementCheck(r) \/ AlertCheck(r)
    \/ \E D \in SUBSET FinalDocs : FinalizationCheck(r, D)
    \/ AdvanceCheck(r) \/ GradeCheck(r) \/ CancelCheck(r)
    \/ \E status \in ApplicationStatus : UpdateStatusCheck(r, status)
    \/ WithdrawCheck(r) \/ StartCheck(r) \/ NotesCheck(r)

Advance(r) ==
    \/ SelectionSave(r) \/ DocumentSave(r) \/ ApproveRecord(r) \/ FinalsSave(r)
    \/ RecordSave(r) \/ ApplicationSave(r) \/ StatusSave(r)

Next ==
    \/ \E r \in Requests : Arrive(r) \/ Advance(r)
    \/ Crash

Spec == Init /\ [][Next]_vars

(***************************************************************************)
(* Properties                                                              *)
(***************************************************************************)
Developed == {"active", "waiting_final_docs", "final_docs_review", "finalizing", "completed"}
Finalization == Developed \ {"active"}

\* An agreement has an approved anteproyecto behind it, a project that is
\* developed its agreement, one in finalization its final requirements, a
\* completed one its grade, although every handler from uploadInitiationAgreement
\* to uploadFinalGrade may overwrite the row another one has just saved.
PhaseBacked ==
    /\ record.agreement => approved
    /\ record.status \in Developed => record.agreement
    /\ record.status \in Finalization => finals # {}
    /\ record.status = "completed" => record.graded

\* With one request at a time and restarts at any step, the record goes through
\* its phases in their order, and may be cancelled until it is completed.  What
\* was cancelled may go on: an approval and an agreement look at no status.
PhaseOrder ==
    [][record.status # "cancelled" => Rank[record'.status] >= Rank[record.status]]_vars

\* With one request at a time and a catalogue that can be read, the agreement is
\* saved while every mandatory document selected is approved, and the record is
\* ready for its grade while every mandatory final document is
\* (getInitiationChecklist, advanceFinalization).
DocumentGates ==
    [][/\ ~ record.agreement /\ record'.agreement
             => \A d \in selected \cap Mandatory : docs[d] = "approved"
       /\ record.status # "finalizing" /\ record'.status = "finalizing"
             => \A d \in finals \cap Mandatory : docs[d] = "approved"]_vars

\* With one request at a time, an application that is completed has a completed record
\* with a grade, and keeps both, unless updateStatus completed it by hand, for which
\* the record need not be there: uploadFinalGrade saves two rows, the process may
\* restart between them, and cancelFinalization reads only the first.
CompletedIsGraded ==
    application = "completed" /\ ~ byHand => record.status = "completed" /\ record.graded
=============================================================================

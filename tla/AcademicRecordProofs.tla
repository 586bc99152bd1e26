------------------------ MODULE AcademicRecordProofs ------------------------
(***************************************************************************)
(* What holds of the academic record for every catalogue and any number of *)
(* overlapping requests, and what holds when they come one at a time.      *)
(*                                                                         *)
(* With overlapping requests a handler saves a row it loaded long ago.     *)
(* RowOK therefore speaks of one row, the stored one or a loaded one, and  *)
(* of facts that never cease: the anteproyecto once approved and the final *)
(* requirements once created.                                              *)
(***************************************************************************)
EXTENDS AcademicRecord, TLAPS

RowOK(row, a, F) ==
    /\ row.agreement => a
    /\ row.status \in Developed => row.agreement
    /\ row.status \in Finalization => F # {}
    /\ row.status = "completed" => row.graded

\* A slot holds a row that may be saved; startFinalization's may be once its
\* requirements are there.
SlotOK(q, a, F) ==
    /\ q.pc \in {"approve_record", "approve_save"} => a
    /\ q.pc = "finals_save" =>
          /\ q.docs \cap FinalDocs # {}
          /\ q.row.agreement /\ a /\ q.row.status = "waiting_final_docs"
    /\ q.pc # "finals_save" => RowOK(q.row, a, F)

Invariant ==
    /\ TypeOK
    /\ RowOK(record, approved, finals)
    /\ \A r \in Requests : SlotOK(req[r], approved, finals)

LEMMA RowStays ==
    ASSUME NEW row, NEW a \in BOOLEAN, NEW a2 \in BOOLEAN, a => a2, NEW F, NEW F2,
           F \subseteq F2, RowOK(row, a, F)
    PROVE  RowOK(row, a2, F2)
BY DEF RowOK

LEMMA SlotStays ==
    ASSUME NEW q, NEW a \in BOOLEAN, NEW a2 \in BOOLEAN, a => a2, NEW F, NEW F2,
           F \subseteq F2, SlotOK(q, a, F)
    PROVE  SlotOK(q, a2, F2)
BY RowStays DEF SlotOK

LEMMA IdleOK ==
    ASSUME NEW a, NEW F
    PROVE  Idle \in Request /\ Idle.pc = "idle" /\ SlotOK(Idle, a, F)
           /\ FirstRecord \in Record /\ RowOK(FirstRecord, a, F)
<1>1. /\ FirstRecord \in Record
      /\ FirstRecord.status = "waiting_anteproyecto" /\ ~ FirstRecord.agreement
  BY DEF FirstRecord, Record, RecordStatus
<1>2. Idle \in Request /\ Idle.pc = "idle" /\ Idle.row = FirstRecord
  BY <1>1 DEF Idle, Request, Steps, DocStatus, ApplicationStatus
<1>3. RowOK(FirstRecord, a, F)
  BY <1>1 DEF RowOK, Developed, Finalization
<1> QED
  BY <1>1, <1>2, <1>3 DEF SlotOK

LEMMA InitInvariant == Init => Invariant
<1> SUFFICES ASSUME Init PROVE Invariant
  OBVIOUS
<1>1. docs \in [Docs -> DocStatus]
  BY DEF Init, DocStatus
<1> QED
  BY <1>1, IdleOK DEF Init, Invariant, TypeOK, ApplicationStatus

\* A request that writes something else than the record, and goes on with a good
\* slot.
LEMMA OthersKeep ==
    ASSUME Invariant, NEW r \in Requests, NEW q \in Request,
           req' = [req EXCEPT ![r] = q], SlotOK(q, approved', finals'),
           approved' \in BOOLEAN, approved => approved',
           finals' \subseteq FinalDocs, finals \subseteq finals',
           selected' \subseteq InitialDocs, docs' \in [Docs -> DocStatus],
           application' \in ApplicationStatus, byHand' \in BOOLEAN,
           record' = record
    PROVE  Invariant'
<1>1. TypeOK'
  BY DEF Invariant, TypeOK
<1>2. RowOK(record, approved', finals')
  BY RowStays DEF Invariant, TypeOK
<1>3. \A t \in Requests : SlotOK(req[t], approved', finals')
  BY SlotStays DEF Invariant, TypeOK
<1>4. \A t \in Requests : SlotOK(req'[t], approved', finals')
  BY <1>3 DEF Invariant, TypeOK
<1> QED
  BY <1>1, <1>2, <1>4 DEF Invariant

\* A request that has loaded the record and is going to save a good row.
LEMMA WillSaveKeeps ==
    ASSUME Invariant, NEW r \in Requests, NEW pc \in RecordSaves \ {"approve_save"},
           NEW row \in Record, RowOK(row, approved, finals), WillSave(r, pc, row)
    PROVE  Invariant'
<1> DEFINE q == [Idle EXCEPT !.pc = pc, !.row = row]
<1>1. q \in Request /\ q.pc = pc /\ q.row = row
  BY IdleOK DEF Request, Steps
<1>2. SlotOK(q, approved, finals)
  BY <1>1 DEF SlotOK, RecordSaves
<1>3. /\ req' = [req EXCEPT ![r] = q]
      /\ UNCHANGED <<approved, record, application, byHand, selected, finals, docs>>
  BY DEF WillSave, Begin
<1> HIDE DEF q
<1> QED
  BY <1>1, <1>2, <1>3, OthersKeep DEF Invariant, TypeOK

LEMMA ArriveKeeps ==
    ASSUME Invariant, NEW r \in Requests, Arrive(r)
    PROVE  Invariant'
<1> USE DEF Developed, Finalization
<1>1. record \in Record /\ RowOK(record, approved, finals) /\ approved \in BOOLEAN
  BY DEF Invariant, TypeOK
<1>2. ASSUME NEW q \in Request, q.pc \in {"selection_save", "document_save", "status_save"},
             q.row = Idle.row, Begin(r, q)
      PROVE  Invariant'
  <2>1. SlotOK(q, approved, finals)
    BY <1>2, IdleOK DEF SlotOK
  <2>2. /\ req' = [req EXCEPT ![r] = q]
        /\ UNCHANGED <<approved, record, application, byHand, selected, finals, docs>>
    BY <1>2 DEF Begin
  <2> QED
    BY <2>1, <2>2, OthersKeep DEF Invariant, TypeOK
<1>3. ASSUME NEW D \in SUBSET InitialDocs, SelectCheck(r, D) PROVE Invariant'
  <2> DEFINE q == [Idle EXCEPT !.pc = "selection_save", !.docs = D \ selected]
  <2>1. q \in Request /\ q.pc = "selection_save" /\ q.row = Idle.row
    BY IdleOK DEF Request, Steps, Docs
  <2>2. Begin(r, q)
    BY <1>3 DEF SelectCheck
  <2> HIDE DEF q
  <2> QED
    BY <1>2, <2>1, <2>2
<1>4. ASSUME NEW d \in Docs, NEW to \in DocStatus, NEW q, Begin(r, q),
             q = [Idle EXCEPT !.pc = "document_save", !.docs = {d}, !.to = to]
      PROVE  Invariant'
  <2>1. q \in Request /\ q.pc = "document_save" /\ q.row = Idle.row
    BY <1>4, IdleOK DEF Request, Steps
  <2> QED
    BY <1>2, <1>4, <2>1
<1>5. /\ \A d \in Docs : UploadCheck(r, d) \/ UploadFinalCheck(r, d) => Invariant'
      /\ \A d \in Docs, v \in {"approved", "rejected"} : ReviewCheck(r, d, v) => Invariant'
  BY <1>4 DEF UploadCheck, UploadFinalCheck, Upload, ReviewCheck, DocStatus
<1>6. CASE ApproveSubmission(r)
  <2> DEFINE q == [req[r] EXCEPT !.pc = "approve_record"]
  <2>1. q \in Request /\ q.pc = "approve_record" /\ q.row = req[r].row
    BY DEF Invariant, TypeOK, Request, Steps
  <2>2. RowOK(req[r].row, approved, finals)
    BY <1>6 DEF ApproveSubmission, At, Invariant, SlotOK
  <2>3. SlotOK(q, approved', finals)
    <3>1. approved' = TRUE
      BY <1>6 DEF ApproveSubmission
    <3> QED
      BY <1>1, <2>1, <2>2, <3>1, RowStays DEF SlotOK
  <2>4. /\ req' = [req EXCEPT ![r] = q] /\ approved' = TRUE
        /\ UNCHANGED <<record, application, byHand, selected, finals, docs>>
    BY <1>6 DEF ApproveSubmission
  <2> HIDE DEF q
  <2> QED
    BY <2>1, <2>3, <2>4, OthersKeep DEF Invariant, TypeOK
<1>7. CASE AgreementCheck(r)
  <2> DEFINE row == [record EXCEPT !.agreement = TRUE, !.status = "active"]
  <2>1. row \in Record /\ row.status = "active" /\ row.agreement
    BY <1>1 DEF Record, RecordStatus
  <2>2. RowOK(row, approved, finals)
    BY <1>7, <2>1 DEF RowOK, AgreementCheck, ReadyForAgreement
  <2>3. WillSave(r, "agreement_save", row)
    BY <1>7 DEF AgreementCheck
  <2> HIDE DEF row
  <2> QED
    BY <2>1, <2>2, <2>3, WillSaveKeeps DEF RecordSaves
<1>8. CASE AlertCheck(r)
  <2> DEFINE row == [record EXCEPT !.alerted = TRUE]
  <2>1. row \in Record /\ row.status = record.status /\ row.agreement = record.agreement
        /\ row.graded = record.graded
    BY <1>1 DEF Record
  <2>2. RowOK(row, approved, finals)
    BY <1>1, <2>1 DEF RowOK
  <2>3. WillSave(r, "alert_save", row)
    BY <1>8 DEF AlertCheck
  <2> HIDE DEF row
  <2> QED
    BY <2>1, <2>2, <2>3, WillSaveKeeps DEF RecordSaves
<1>9. ASSUME NEW D \in SUBSET FinalDocs, FinalizationCheck(r, D) PROVE Invariant'
  <2> DEFINE row == [record EXCEPT !.status = "waiting_final_docs"]
             q == [Idle EXCEPT !.pc = "finals_save", !.docs = D, !.row = row]
  <2>1. row \in Record /\ row.status = "waiting_final_docs" /\ row.agreement = record.agreement
    BY <1>1 DEF Record, RecordStatus
  <2>2. q \in Request /\ q.pc = "finals_save" /\ q.row = row /\ q.docs = D
    <3> HIDE DEF row
    <3> QED
      BY <2>1, IdleOK DEF Request, Steps, Docs
  <2>3. SlotOK(q, approved, finals)
    BY <1>1, <1>9, <2>1, <2>2 DEF SlotOK, RowOK, FinalizationCheck
  <2>4. /\ req' = [req EXCEPT ![r] = q]
        /\ UNCHANGED <<approved, record, application, byHand, selected, finals, docs>>
    BY <1>9 DEF FinalizationCheck, Begin
  <2> HIDE DEF q
  <2> QED
    BY <2>2, <2>3, <2>4, OthersKeep DEF Invariant, TypeOK
<1>10. CASE AdvanceCheck(r)
  <2>1. ASSUME NEW s \in {"finalizing", "final_docs_review"}, NEW row,
               row = [record EXCEPT !.status = s], WillSave(r, "advance_save", row)
        PROVE  Invariant'
    <3>1. row \in Record /\ row.status = s /\ row.agreement = record.agreement
      BY <1>1, <2>1 DEF Record, RecordStatus
    <3>2. RowOK(row, approved, finals)
      BY <1>1, <1>10, <3>1 DEF RowOK, AdvanceCheck, Advanceable
    <3> QED
      BY <2>1, <3>1, <3>2, WillSaveKeeps DEF RecordSaves
  <2> QED
    BY <1>10, <2>1 DEF AdvanceCheck
<1>11. CASE GradeCheck(r)
  <2>1. Graded(record) \in Record /\ Graded(record).status = "completed"
        /\ Graded(record).graded /\ Graded(record).agreement = record.agreement
    BY <1>1 DEF Graded, Record, RecordStatus
  <2>2. RowOK(Graded(record), approved, finals)
    BY <1>1, <1>11, <2>1 DEF RowOK, GradeCheck
  <2> QED
    BY <1>11, <2>1, <2>2, WillSaveKeeps DEF GradeCheck, RecordSaves
<1>12. CASE CancelCheck(r)
  <2> DEFINE row == [record EXCEPT !.status = "cancelled"]
  <2>1. row \in Record /\ row.status = "cancelled" /\ row.agreement = record.agreement
    BY <1>1 DEF Record, RecordStatus
  <2>2. RowOK(row, approved, finals)
    BY <1>1, <2>1 DEF RowOK
  <2>3. WillSave(r, "cancel_save", row)
    BY <1>12 DEF CancelCheck
  <2> HIDE DEF row
  <2> QED
    BY <2>1, <2>2, <2>3, WillSaveKeeps DEF RecordSaves
<1>13. ASSUME NEW status \in ApplicationStatus, StatusCheck(r, status) PROVE Invariant'
  <2> DEFINE q == [Idle EXCEPT !.pc = "status_save", !.status = status]
  <2>1. q \in Request /\ q.pc = "status_save" /\ q.row = Idle.row
    BY IdleOK DEF Request, Steps
  <2>2. Begin(r, q)
    BY <1>13 DEF StatusCheck
  <2> HIDE DEF q
  <2> QED
    BY <1>2, <2>1, <2>2
<1>14. /\ \A status \in ApplicationStatus : UpdateStatusCheck(r, status) => Invariant'
       /\ WithdrawCheck(r) \/ StartCheck(r) \/ NotesCheck(r) => Invariant'
  BY <1>13 DEF UpdateStatusCheck, WithdrawCheck, StartCheck, NotesCheck, ApplicationStatus,
               Invariant, TypeOK
<1> QED
  BY <1>3, <1>5, <1>6, <1>7, <1>8, <1>9, <1>10, <1>11, <1>12, <1>14 DEF Arrive

\* A request that has ended.
LEMMA DoneKeeps ==
    ASSUME Invariant, NEW r \in Requests, Done(r), UNCHANGED <<approved, record, finals>>,
           selected' \subseteq InitialDocs, docs' \in [Docs -> DocStatus],
           application' \in ApplicationStatus, byHand' \in BOOLEAN
    PROVE  Invariant'
<1>1. Idle \in Request /\ SlotOK(Idle, approved', finals')
  BY IdleOK
<1> QED
  BY <1>1, OthersKeep DEF Done, Invariant, TypeOK

LEMMA AdvanceKeeps ==
    ASSUME Invariant, NEW r \in Requests, Advance(r)
    PROVE  Invariant'
<1>1. req[r] \in Request /\ record \in Record /\ approved \in BOOLEAN
      /\ docs \in [Docs -> DocStatus] /\ selected \subseteq InitialDocs
      /\ finals \subseteq FinalDocs
      /\ application \in ApplicationStatus /\ byHand \in BOOLEAN
      /\ SlotOK(req[r], approved, finals) /\ RowOK(record, approved, finals)
  BY DEF Invariant, TypeOK
<1>2. CASE SelectionSave(r)
  BY <1>1, <1>2, DoneKeeps DEF SelectionSave
<1>3. CASE DocumentSave(r)
  <2>1. docs' \in [Docs -> DocStatus]
    BY <1>1, <1>3 DEF DocumentSave, Request
  <2> QED
    BY <1>1, <1>3, <2>1, DoneKeeps DEF DocumentSave
<1>4. CASE ApproveRecord(r)
  <2> DEFINE row == [record EXCEPT !.status = "waiting_documents"]
             q == [req[r] EXCEPT !.pc = "approve_save", !.row = row]
  <2>1. row \in Record /\ row.status = "waiting_documents" /\ row.agreement = record.agreement
    BY <1>1 DEF Record, RecordStatus
  <2>2. RowOK(row, approved, finals)
    BY <1>1, <2>1 DEF RowOK, Developed, Finalization
  <2>3. q \in Request /\ q.pc = "approve_save" /\ q.row = row
    <3> HIDE DEF row
    <3> QED
      BY <1>1, <2>1 DEF Request, Steps, RecordSaves
  <2>4. SlotOK(q, approved, finals)
    BY <1>1, <1>4, <2>2, <2>3 DEF SlotOK, ApproveRecord, At
  <2>5. /\ req' = [req EXCEPT ![r] = q]
        /\ UNCHANGED <<approved, record, application, byHand, selected, finals, docs>>
    <3>1. req' = [req EXCEPT ![r].pc = "approve_save", ![r].row = row]
      BY <1>4 DEF ApproveRecord
    <3> HIDE DEF row
    <3> QED
      BY <1>4, <3>1 DEF ApproveRecord, Invariant, TypeOK
  <2> HIDE DEF q
  <2> QED
    BY <1>1, <2>3, <2>4, <2>5, OthersKeep
<1>5. CASE FinalsSave(r)
  <2> DEFINE q == [req[r] EXCEPT !.pc = "finalization_save"]
  <2>1. q \in Request /\ q.pc = "finalization_save" /\ q.row = req[r].row
    BY <1>1 DEF Request, Steps, RecordSaves
  <2>2. finals' = finals \cup (req[r].docs \cap FinalDocs) /\ finals' # {}
        /\ req[r].pc = "finals_save" /\ req' = [req EXCEPT ![r] = q]
        /\ UNCHANGED <<approved, record, application, byHand, selected, docs>>
    BY <1>1, <1>5 DEF FinalsSave, At, SlotOK
  <2>3. SlotOK(q, approved, finals')
    BY <1>1, <2>1, <2>2 DEF SlotOK, RowOK, Developed, Finalization
  <2> HIDE DEF q
  <2> QED
    BY <1>1, <2>1, <2>2, <2>3, OthersKeep
<1>6. CASE RecordSave(r)
  <2> DEFINE q == IF req[r].pc \in {"grade_save", "cancel_save"}
                  THEN [req[r] EXCEPT !.pc = "application_save"] ELSE Idle
  <2>1. record' = req[r].row /\ req' = [req EXCEPT ![r] = q]
        /\ UNCHANGED <<approved, application, byHand, selected, finals, docs>>
    BY <1>6 DEF RecordSave, Done
  <2>2. RowOK(req[r].row, approved, finals) /\ req[r].row \in Record
    BY <1>1, <1>6 DEF RecordSave, RecordSaves, SlotOK, Request
  <2>3. q \in Request /\ SlotOK(q, approved, finals)
    <3>1. CASE req[r].pc \in {"grade_save", "cancel_save"}
      <4>1. q \in Request /\ q.pc = "application_save" /\ q.row = req[r].row
        BY <1>1, <3>1 DEF Request, Steps
      <4> QED
        BY <2>2, <4>1 DEF SlotOK
    <3>2. CASE req[r].pc \notin {"grade_save", "cancel_save"}
      BY <3>2, IdleOK
    <3> QED
      BY <3>1, <3>2
  <2> HIDE DEF q
  <2>4. TypeOK'
    BY <2>1, <2>2, <2>3 DEF Invariant, TypeOK
  <2>5. \A t \in Requests : SlotOK(req'[t], approved, finals)
    BY <2>1, <2>3 DEF Invariant, TypeOK
  <2> QED
    BY <2>1, <2>2, <2>4, <2>5 DEF Invariant
<1>7. CASE ApplicationSave(r)
  BY <1>1, <1>7, DoneKeeps DEF ApplicationSave, ApplicationStatus
<1>8. CASE StatusSave(r)
  <2>1. application' \in ApplicationStatus /\ byHand' \in BOOLEAN
    BY <1>1, <1>8 DEF StatusSave, Request
  <2> QED
    BY <1>1, <1>8, <2>1, DoneKeeps DEF StatusSave
<1> QED
  BY <1>2, <1>3, <1>4, <1>5, <1>6, <1>7, <1>8 DEF Advance

LEMMA NextInvariant == Invariant /\ [Next]_vars => Invariant'
<1> SUFFICES ASSUME Invariant, [Next]_vars PROVE Invariant'
  OBVIOUS
<1>1. CASE Crash
  <2>1. TypeOK'
    BY <1>1, IdleOK DEF Crash, Invariant, TypeOK
  <2> QED
    BY <1>1, <2>1, IdleOK DEF Crash, Invariant
<1>2. CASE UNCHANGED vars
  BY <1>2 DEF vars, Invariant, TypeOK
<1> QED
  BY <1>1, <1>2, ArriveKeeps, AdvanceKeeps DEF Next

LEMMA AlwaysInvariant == Spec => []Invariant
BY InitInvariant, NextInvariant, PTL DEF Spec

\* The rows and the requests have their types, whatever overlaps (the entities
\* ProjectAcademicRecord and ProjectDocument).
THEOREM RecordTypeCorrect == Spec => []TypeOK
<1>1. Invariant => TypeOK
  BY DEF Invariant
<1> QED
  BY AlwaysInvariant, <1>1, PTL

\* No phase is reached without what it rests on, however many handlers save the
\* record over each other (uploadInitiationAgreement to uploadFinalGrade).
THEOREM PhasesAreBacked == Spec => []PhaseBacked
<1>1. Invariant => PhaseBacked
  BY DEF Invariant, RowOK, PhaseBacked
<1> QED
  BY AlwaysInvariant, <1>1, PTL

(***************************************************************************)
(* One request at a time                                                   *)
(*                                                                         *)
(* The row in the slot is now the stored row with the change its handler   *)
(* makes, and what the handler has checked still holds.                    *)
(***************************************************************************)
Serial == \A r, q \in Requests : r = q

Early == {"waiting_anteproyecto", "cancelled"}

\* What the handler has checked of the stored rows, and the row it made of them.
Made(q) ==
    /\ q.pc \in {"approve_record", "approve_save"} => record.status \in Early
    /\ q.pc = "approve_save" => q.row = [record EXCEPT !.status = "waiting_documents"]
    /\ q.pc = "agreement_save" =>
          /\ q.row = [record EXCEPT !.agreement = TRUE, !.status = "active"]
          /\ ~ record.agreement
          /\ ~ CatalogueMayFail => \A d \in selected \cap Mandatory : docs[d] = "approved"
    /\ q.pc = "alert_save" => q.row = [record EXCEPT !.alerted = TRUE]
    /\ q.pc \in {"finals_save", "finalization_save"} =>
          /\ q.row = [record EXCEPT !.status = "waiting_final_docs"]
          /\ record.status = "active"
    /\ q.pc = "advance_save" =>
          /\ record.status \in Advanceable
          /\ \/ q.row = [record EXCEPT !.status = "final_docs_review"]
             \/ /\ q.row = [record EXCEPT !.status = "finalizing"]
                /\ \A d \in finals \cap Mandatory : docs[d] = "approved"
    /\ q.pc = "grade_save" => q.row = Graded(record) /\ record.status = "finalizing"
    /\ q.pc = "cancel_save" =>
          /\ q.row = [record EXCEPT !.status = "cancelled"]
          /\ record.status # "completed"
    /\ q.pc = "application_save" => q.row = record /\ record.status \in {"completed", "cancelled"}

SerialInv ==
    /\ ~ approved => record.status \in Early
    /\ CompletedIsGraded
    /\ \A r \in Requests : Made(req[r])

\* What PhaseOrder and DocumentGates ask of a step.
PhaseStep ==
    record.status # "cancelled" => Rank[record'.status] >= Rank[record.status]

GateStep ==
    /\ ~ record.agreement /\ record'.agreement
          => \A d \in selected \cap Mandatory : docs[d] = "approved"
    /\ record.status # "finalizing" /\ record'.status = "finalizing"
          => \A d \in finals \cap Mandatory : docs[d] = "approved"

\* The order of the phases.
LEMMA Ranks ==
    /\ Rank["waiting_anteproyecto"] = 0
    /\ Rank["waiting_documents"] = 1
    /\ Rank["waiting_agreement"] = 2
    /\ Rank["active"] = 3
    /\ Rank["waiting_final_docs"] = 4
    /\ Rank["final_docs_review"] = 5
    /\ Rank["finalizing"] = 6
    /\ Rank["completed"] = 7
    /\ Rank["cancelled"] = 8
BY SMTT(30) DEF Rank, RecordStatus

LEMMA SerialInit == Init => SerialInv
<1> SUFFICES ASSUME Init PROVE SerialInv
  OBVIOUS
<1>1. record.status = "waiting_anteproyecto" /\ application = "in_progress"
  BY DEF Init, FirstRecord
<1>2. \A r \in Requests : req[r].pc = "idle"
  BY DEF Init, Idle
<1> QED
  BY <1>1, <1>2 DEF SerialInv, Early, CompletedIsGraded, Made

\* When one slot is all there is, an action that leaves the record alone keeps
\* the invariant if its slot is left with a row made of it.
LEMMA SlotIsAll ==
    ASSUME Serial, TypeOK, SerialInv, NEW r \in Requests, NEW q,
           req' = [req EXCEPT ![r] = q], Made(q)', record' = record,
           ~ approved' => ~ approved, CompletedIsGraded'
    PROVE  SerialInv'
<1>1. \A t \in Requests : req'[t] = q
  BY DEF Serial, TypeOK
<1>2. \A t \in Requests : Made(req[t])'
  BY <1>1 DEF Made
<1> QED
  BY <1>2 DEF SerialInv

LEMMA BeginSerial ==
    ASSUME Serial, TypeOK, SerialInv, NEW r \in Requests, NEW q, Begin(r, q), Made(q)
    PROVE  SerialInv'
<1>1. Made(q)' /\ CompletedIsGraded'
  BY DEF Begin, Made, SerialInv, CompletedIsGraded
<1> QED
  BY <1>1, SlotIsAll DEF Begin

LEMMA IdleSerial ==
    ASSUME Serial, TypeOK, SerialInv, NEW r \in Requests, Done(r),
           UNCHANGED <<approved, record>>, CompletedIsGraded'
    PROVE  SerialInv'
<1>1. Made(Idle)'
  BY DEF Idle, Made
<1> QED
  BY <1>1, SlotIsAll DEF Done

LEMMA ArriveSerial ==
    ASSUME Serial, Invariant, SerialInv, NEW r \in Requests, Arrive(r)
    PROVE  SerialInv'
<1> USE DEF Invariant
<1>1. ASSUME NEW pc, NEW row, WillSave(r, pc, row),
             Made([Idle EXCEPT !.pc = pc, !.row = row])
      PROVE  SerialInv'
  BY <1>1, BeginSerial DEF WillSave
<1>2. ASSUME NEW D \in SUBSET InitialDocs, SelectCheck(r, D) PROVE SerialInv'
  <2>1. Made([Idle EXCEPT !.pc = "selection_save", !.docs = D \ selected])
    BY DEF Made, Idle
  <2> QED
    BY <1>2, <2>1, BeginSerial DEF SelectCheck
<1>3. ASSUME NEW d \in Docs, UploadCheck(r, d) \/ UploadFinalCheck(r, d)
      PROVE  SerialInv'
  <2>1. Made([Idle EXCEPT !.pc = "document_save", !.docs = {d}, !.to = "submitted"])
    BY DEF Made, Idle
  <2> QED
    BY <1>3, <2>1, BeginSerial DEF UploadCheck, UploadFinalCheck, Upload
<1>4. ASSUME NEW d \in Docs, NEW v \in {"approved", "rejected"}, ReviewCheck(r, d, v)
      PROVE  SerialInv'
  <2>1. Made([Idle EXCEPT !.pc = "document_save", !.docs = {d}, !.to = v])
    BY DEF Made, Idle
  <2> QED
    BY <1>4, <2>1, BeginSerial DEF ReviewCheck
<1>5. ASSUME ApproveSubmission(r), NEW q, q = [req[r] EXCEPT !.pc = "approve_record"]
      PROVE  SerialInv'
  <2>1. req' = [req EXCEPT ![r] = q] /\ record' = record /\ approved' = TRUE
        /\ application' = application /\ byHand' = byHand
    BY <1>5 DEF ApproveSubmission, TypeOK
  <2>2. record.status \in Early
    BY <1>5 DEF ApproveSubmission, SerialInv
  <2>3. q.pc = "approve_record"
    BY <1>5 DEF TypeOK, Request
  <2>4. Made(q)'
    BY <2>1, <2>2, <2>3 DEF Made
  <2>5. CompletedIsGraded'
    BY <2>1 DEF SerialInv, CompletedIsGraded
  <2> QED
    BY <2>1, <2>4, <2>5, SlotIsAll
<1>6. CASE AgreementCheck(r)
  <2>1. Made([Idle EXCEPT !.pc = "agreement_save",
                          !.row = [record EXCEPT !.agreement = TRUE, !.status = "active"]])
    BY <1>6 DEF Made, Idle, AgreementCheck, ReadyForAgreement, AllApproved
  <2> QED
    BY <1>1, <1>6, <2>1 DEF AgreementCheck
<1>7. CASE AlertCheck(r)
  <2>1. Made([Idle EXCEPT !.pc = "alert_save", !.row = [record EXCEPT !.alerted = TRUE]])
    BY DEF Made, Idle
  <2> QED
    BY <1>1, <1>7, <2>1 DEF AlertCheck
<1>8. ASSUME NEW D \in SUBSET FinalDocs, FinalizationCheck(r, D) PROVE SerialInv'
  <2>1. Made([Idle EXCEPT !.pc = "finals_save", !.docs = D,
                          !.row = [record EXCEPT !.status = "waiting_final_docs"]])
    BY <1>8 DEF Made, Idle, FinalizationCheck
  <2> QED
    BY <1>8, <2>1, BeginSerial DEF FinalizationCheck
<1>9. CASE AdvanceCheck(r)
  <2>1. CASE AllApproved(finals)
    <3>1. Made([Idle EXCEPT !.pc = "advance_save",
                            !.row = [record EXCEPT !.status = "finalizing"]])
      BY <1>9, <2>1 DEF Made, Idle, AdvanceCheck, AllApproved
    <3> QED
      BY <1>1, <1>9, <2>1, <3>1 DEF AdvanceCheck
  <2>2. CASE ~ AllApproved(finals)
    <3>1. Made([Idle EXCEPT !.pc = "advance_save",
                            !.row = [record EXCEPT !.status = "final_docs_review"]])
      BY <1>9 DEF Made, Idle, AdvanceCheck
    <3> QED
      BY <1>1, <1>9, <2>2, <3>1 DEF AdvanceCheck
  <2> QED
    BY <2>1, <2>2
<1>10. CASE GradeCheck(r)
  <2>1. Made([Idle EXCEPT !.pc = "grade_save", !.row = Graded(record)])
    BY <1>10 DEF Made, Idle, GradeCheck
  <2> QED
    BY <1>1, <1>10, <2>1 DEF GradeCheck
<1>11. CASE CancelCheck(r)
  <2>1. Made([Idle EXCEPT !.pc = "cancel_save", !.row = [record EXCEPT !.status = "cancelled"]])
    BY <1>11 DEF Made, Idle, CancelCheck
  <2> QED
    BY <1>1, <1>11, <2>1 DEF CancelCheck
<1>12. ASSUME NEW status, StatusCheck(r, status)
       PROVE  SerialInv'
  <2>1. Made([Idle EXCEPT !.pc = "status_save", !.status = status])
    BY DEF Made, Idle
  <2> QED
    BY <1>12, <2>1, BeginSerial DEF StatusCheck
<1>13. /\ \A status \in ApplicationStatus : UpdateStatusCheck(r, status) => SerialInv'
       /\ WithdrawCheck(r) \/ StartCheck(r) \/ NotesCheck(r) => SerialInv'
  BY <1>12 DEF UpdateStatusCheck, WithdrawCheck, StartCheck, NotesCheck
<1> QED
  BY <1>2, <1>3, <1>4, <1>5, <1>6, <1>7, <1>8, <1>9, <1>10, <1>11, <1>13 DEF Arrive

\* What may become of the record, by the handler that saves it.
Changed(row) ==
    \/ /\ approved /\ record.status \in Early
       /\ row = [record EXCEPT !.status = "waiting_documents"]
    \/ /\ row = [record EXCEPT !.agreement = TRUE, !.status = "active"]
       /\ approved /\ ~ record.agreement
       /\ ~ CatalogueMayFail => \A d \in selected \cap Mandatory : docs[d] = "approved"
    \/ row = [record EXCEPT !.alerted = TRUE]
    \/ /\ record.status = "active" /\ approved
       /\ row = [record EXCEPT !.status = "waiting_final_docs"]
    \/ /\ record.status \in Advanceable
       /\ row = [record EXCEPT !.status = "final_docs_review"]
    \/ /\ record.status \in Advanceable
       /\ row = [record EXCEPT !.status = "finalizing"]
       /\ \A d \in finals \cap Mandatory : docs[d] = "approved"
    \/ record.status = "finalizing" /\ row = Graded(record)
    \/ /\ record.status # "completed"
       /\ row = [record EXCEPT !.status = "cancelled"]

LEMMA SavedRow ==
    ASSUME Invariant, SerialInv, NEW r \in Requests, req[r].pc \in RecordSaves
    PROVE  Changed(req[r].row)
<1> USE DEF Changed
<1>1. Made(req[r]) /\ SlotOK(req[r], approved, finals) /\ record \in Record
      /\ RowOK(record, approved, finals)
  BY DEF Invariant, SerialInv, TypeOK
<1>2. CASE req[r].pc = "approve_save"
  BY <1>1, <1>2 DEF Made, SlotOK
<1>3. CASE req[r].pc = "agreement_save"
  <2>1. req[r].row.agreement
    BY <1>1, <1>3 DEF Made, Record
  <2>2. approved
    BY <1>1, <1>3, <2>1 DEF SlotOK, RowOK
  <2> QED
    BY <1>1, <1>3, <2>2 DEF Made
<1>4. CASE req[r].pc = "finalization_save"
  BY <1>1, <1>4 DEF Made, RowOK, Developed
<1>5. CASE req[r].pc \in {"alert_save", "advance_save", "grade_save", "cancel_save"}
  BY <1>1, <1>5 DEF Made
<1> QED
  BY <1>2, <1>3, <1>4, <1>5 DEF RecordSaves

\* What such a row means for the three properties.
LEMMA SavedStep ==
    ASSUME Invariant, SerialInv, NEW r \in Requests, req[r].pc \in RecordSaves,
           record' = req[r].row
    PROVE  /\ PhaseStep
           /\ ~ CatalogueMayFail => GateStep
           /\ ~ approved => record'.status \in Early
           /\ record.status = "completed" => record' = record \/ record' = [record EXCEPT !.alerted = TRUE]
<1> USE DEF PhaseStep, GateStep, Early
<1>1. record \in Record /\ RowOK(record, approved, finals) /\ record.status \in RecordStatus
      /\ (~ approved => record.status \in Early)
  BY DEF Invariant, SerialInv, TypeOK, Record
<1>2. \A s \in RecordStatus : Rank[s] \in Int /\ Rank[s] <= 8
  BY Ranks DEF RecordStatus
<1>3. CASE /\ approved /\ record.status \in Early
           /\ record' = [record EXCEPT !.status = "waiting_documents"]
  <2>1. record'.status = "waiting_documents" /\ record'.agreement = record.agreement
    BY <1>1, <1>3 DEF Record
  <2> QED
    BY <1>1, <1>3, <2>1, Ranks
<1>4. CASE /\ record' = [record EXCEPT !.agreement = TRUE, !.status = "active"]
           /\ approved /\ ~ record.agreement
           /\ ~ CatalogueMayFail => \A d \in selected \cap Mandatory : docs[d] = "approved"
  <2>1. record'.status = "active"
    BY <1>1, <1>4 DEF Record
  <2>2. record.status \in {"waiting_anteproyecto", "waiting_documents",
                           "waiting_agreement", "cancelled"}
    BY <1>1, <1>4 DEF RowOK, Developed, RecordStatus
  <2> QED
    BY <1>4, <2>1, <2>2, Ranks
<1>5. CASE record' = [record EXCEPT !.alerted = TRUE]
  <2>1. record'.status = record.status /\ record'.agreement = record.agreement
    BY <1>1, <1>5 DEF Record
  <2> QED
    BY <1>1, <1>2, <1>5, <2>1
<1>6. CASE /\ record.status = "active" /\ approved
           /\ record' = [record EXCEPT !.status = "waiting_final_docs"]
  <2>1. record'.status = "waiting_final_docs" /\ record'.agreement = record.agreement
    BY <1>1, <1>6 DEF Record
  <2> QED
    BY <1>1, <1>6, <2>1, Ranks
<1>7. CASE /\ record.status \in Advanceable
           /\ record' = [record EXCEPT !.status = "final_docs_review"]
  <2>1. record'.status = "final_docs_review" /\ record'.agreement = record.agreement
    BY <1>1, <1>7 DEF Record
  <2> QED
    BY <1>1, <1>7, <2>1, Ranks DEF Advanceable
<1>8. CASE /\ record.status \in Advanceable
           /\ record' = [record EXCEPT !.status = "finalizing"]
           /\ \A d \in finals \cap Mandatory : docs[d] = "approved"
  <2>1. record'.status = "finalizing" /\ record'.agreement = record.agreement
    BY <1>1, <1>8 DEF Record
  <2> QED
    BY <1>1, <1>8, <2>1, Ranks DEF Advanceable
<1>9. CASE record.status = "finalizing" /\ record' = Graded(record)
  <2>1. record'.status = "completed" /\ record'.agreement = record.agreement
    BY <1>1, <1>9 DEF Record, Graded
  <2> QED
    BY <1>1, <1>9, <2>1, Ranks
<1>10. CASE /\ record.status # "completed"
            /\ record' = [record EXCEPT !.status = "cancelled"]
  <2>1. record'.status = "cancelled" /\ record'.agreement = record.agreement
    BY <1>1, <1>10 DEF Record
  <2> QED
    BY <1>1, <1>2, <1>10, <2>1, Ranks
<1>11. Changed(record')
  BY SavedRow
<1> HIDE DEF PhaseStep, GateStep, Early
<1> QED
  BY <1>3, <1>4, <1>5, <1>6, <1>7, <1>8, <1>9, <1>10, <1>11 DEF Changed

LEMMA AdvanceSerial ==
    ASSUME Serial, Invariant, SerialInv, NEW r \in Requests, Advance(r)
    PROVE  SerialInv' /\ PhaseStep /\ (~ CatalogueMayFail => GateStep)
<1>1. /\ TypeOK /\ RowOK(record, approved, finals) /\ Made(req[r]) /\ CompletedIsGraded
      /\ record \in Record /\ (~ approved => record.status \in Early)
  BY DEF Invariant, SerialInv, TypeOK
<1>2. record' = record => PhaseStep /\ GateStep
  <2>1. \A s \in RecordStatus : Rank[s] \in Int
    BY Ranks DEF RecordStatus
  <2> QED
    BY <1>1, <2>1 DEF PhaseStep, GateStep, Record
<1>3. CASE SelectionSave(r) \/ DocumentSave(r)
  <2>1. Done(r) /\ UNCHANGED <<approved, record, application, byHand>>
    BY <1>3 DEF SelectionSave, DocumentSave
  <2>2. CompletedIsGraded'
    BY <1>1, <2>1 DEF CompletedIsGraded
  <2> QED
    BY <1>1, <1>2, <2>1, <2>2, IdleSerial
<1>4. ASSUME ApproveRecord(r), NEW q, NEW row,
             row = [record EXCEPT !.status = "waiting_documents"],
             q = [req[r] EXCEPT !.pc = "approve_save", !.row = row]
      PROVE  SerialInv' /\ PhaseStep /\ (~ CatalogueMayFail => GateStep)
  <2>1. req' = [req EXCEPT ![r] = q] /\ record.status \in Early
        /\ UNCHANGED <<approved, record, application, byHand, selected, finals, docs>>
    BY <1>1, <1>4 DEF ApproveRecord, At, TypeOK, Made
  <2>2. q.pc = "approve_save" /\ q.row = row
    BY <1>1, <1>4 DEF TypeOK, Request
  <2>3. Made(q)'
    BY <1>4, <2>1, <2>2 DEF Made
  <2>4. CompletedIsGraded'
    BY <1>1, <2>1 DEF CompletedIsGraded
  <2> QED
    BY <1>1, <1>2, <2>1, <2>3, <2>4, SlotIsAll
<1>5. ASSUME FinalsSave(r), NEW q, q = [req[r] EXCEPT !.pc = "finalization_save"]
      PROVE  SerialInv' /\ PhaseStep /\ (~ CatalogueMayFail => GateStep)
  <2>1. req' = [req EXCEPT ![r] = q] /\ req[r].pc = "finals_save"
        /\ UNCHANGED <<approved, record, application, byHand, selected, docs>>
    BY <1>5 DEF FinalsSave, At
  <2>2. q.pc = "finalization_save" /\ q.row = req[r].row
    BY <1>1, <1>5 DEF TypeOK, Request
  <2>3. Made(q)'
    BY <1>1, <2>1, <2>2 DEF Made
  <2>4. CompletedIsGraded'
    BY <1>1, <2>1 DEF CompletedIsGraded
  <2> QED
    BY <1>1, <1>2, <2>1, <2>3, <2>4, SlotIsAll
<1>6. ASSUME RecordSave(r), NEW q,
             q = IF req[r].pc \in {"grade_save", "cancel_save"}
                 THEN [req[r] EXCEPT !.pc = "application_save"] ELSE Idle
      PROVE  SerialInv' /\ PhaseStep /\ (~ CatalogueMayFail => GateStep)
  <2>1. /\ req[r].pc \in RecordSaves /\ record' = req[r].row /\ req' = [req EXCEPT ![r] = q]
        /\ UNCHANGED <<approved, application, byHand, selected, finals, docs>>
    BY <1>6 DEF RecordSave, Done
  <2>2. /\ PhaseStep /\ (~ CatalogueMayFail => GateStep)
        /\ ~ approved => record'.status \in Early
        /\ record.status = "completed" =>
              record' = record \/ record' = [record EXCEPT !.alerted = TRUE]
    BY <2>1, SavedStep
  <2>3. Made(q)'
    <3>1. CASE req[r].pc \in {"grade_save", "cancel_save"}
      <4>1. q.pc = "application_save" /\ q.row = record'
        BY <1>1, <1>6, <2>1, <3>1 DEF TypeOK, Request
      <4>2. record'.status \in {"completed", "cancelled"}
        BY <1>1, <2>1, <3>1 DEF Made, Graded, Record
      <4> QED
        BY <4>1, <4>2 DEF Made
    <3>2. CASE req[r].pc \notin {"grade_save", "cancel_save"}
      <4>1. q.pc = "idle"
        BY <1>6, <3>2 DEF Idle
      <4> QED
        BY <4>1 DEF Made
    <3> QED
      BY <3>1, <3>2
  <2>4. CompletedIsGraded'
    BY <1>1, <2>1, <2>2 DEF CompletedIsGraded, Record
  <2>5. \A t \in Requests : Made(req[t])'
    <3>1. \A t \in Requests : req'[t] = q
      BY <1>1, <2>1 DEF Serial, TypeOK
    <3> QED
      BY <2>3, <3>1 DEF Made
  <2> QED
    BY <2>1, <2>2, <2>4, <2>5 DEF SerialInv
<1>7. CASE ApplicationSave(r)
  <2>1. /\ Done(r) /\ UNCHANGED <<approved, record>>
        /\ req[r].row = record
        /\ application' = IF record.status = "completed" THEN "completed" ELSE "rejected"
    BY <1>1, <1>7 DEF ApplicationSave, At, Made
  <2>2. CompletedIsGraded'
    BY <1>1, <2>1 DEF CompletedIsGraded, RowOK
  <2> QED
    BY <1>1, <1>2, <2>1, <2>2, IdleSerial
<1>8. CASE StatusSave(r)
  \* Only updateStatus makes an application completed that was not, by hand.
  <2>1. /\ Done(r) /\ UNCHANGED <<approved, record>>
        /\ application' = "completed" /\ ~ byHand' => application = "completed" /\ ~ byHand
    BY <1>8 DEF StatusSave
  <2>2. CompletedIsGraded'
    BY <1>1, <2>1 DEF CompletedIsGraded
  <2> QED
    BY <1>1, <1>2, <2>1, <2>2, IdleSerial
<1> QED
  BY <1>3, <1>4, <1>5, <1>6, <1>7, <1>8 DEF Advance

LEMMA NextSerial ==
    ASSUME Serial, Invariant, SerialInv, [Next]_vars
    PROVE  SerialInv' /\ PhaseStep /\ (~ CatalogueMayFail => GateStep)
<1>1. record' = record => PhaseStep /\ GateStep
  <2>1. \A s \in RecordStatus : Rank[s] \in Int
    BY Ranks DEF RecordStatus
  <2> QED
    BY <2>1 DEF PhaseStep, GateStep, Invariant, TypeOK, Record
<1>2. ASSUME NEW r \in Requests, Arrive(r)
      PROVE  SerialInv' /\ record' = record
  <2>1. record' = record
    BY <1>2 DEF Arrive, SelectCheck, UploadCheck, UploadFinalCheck, Upload, ReviewCheck, ApproveSubmission,
                AgreementCheck, AlertCheck, FinalizationCheck, AdvanceCheck, GradeCheck,
                CancelCheck, UpdateStatusCheck, WithdrawCheck, StartCheck, NotesCheck,
                StatusCheck, WillSave, Begin
  <2> QED
    BY <1>2, <2>1, ArriveSerial
<1>3. CASE Crash
  <2>1. \A r \in Requests : req'[r] = Idle
    BY <1>3 DEF Crash
  <2>2. \A r \in Requests : Made(req[r])'
    BY <2>1 DEF Made, Idle
  <2>3. UNCHANGED <<approved, record, application, byHand>>
    BY <1>3 DEF Crash
  <2> QED
    BY <1>1, <2>2, <2>3 DEF SerialInv, CompletedIsGraded
<1>4. CASE UNCHANGED vars
  BY <1>1, <1>4 DEF vars, SerialInv, CompletedIsGraded, Made
<1> QED
  BY <1>1, <1>2, <1>3, <1>4, AdvanceSerial DEF Next

LEMMA AlwaysSerial == Serial /\ Spec => []SerialInv
<1> SUFFICES ASSUME Serial PROVE Spec => []SerialInv
  OBVIOUS
<1>1. Invariant /\ SerialInv /\ [Next]_vars => SerialInv'
  BY NextSerial
<1> QED
  BY <1>1, SerialInit, AlwaysInvariant, PTL DEF Spec

\* With one request at a time the record goes through its phases in their order.
THEOREM PhasesInOrder == Serial /\ Spec => PhaseOrder
<1> SUFFICES ASSUME Serial PROVE Spec => PhaseOrder
  OBVIOUS
<1>1. Invariant /\ SerialInv /\ [Next]_vars => [PhaseStep]_vars
  BY NextSerial
<1>2. Spec => []SerialInv
  BY AlwaysSerial
<1> QED
  BY <1>1, <1>2, AlwaysInvariant, PTL DEF Spec, PhaseOrder, PhaseStep

\* With one request at a time and a catalogue that can be read, nothing passes
\* the gates of getInitiationChecklist and advanceFinalization.
THEOREM GatesHold == Serial /\ ~ CatalogueMayFail /\ Spec => DocumentGates
<1> SUFFICES ASSUME Serial, ~ CatalogueMayFail PROVE Spec => DocumentGates
  OBVIOUS
<1>1. Invariant /\ SerialInv /\ [Next]_vars => [GateStep]_vars
  BY NextSerial
<1>2. Spec => []SerialInv
  BY AlwaysSerial
<1> QED
  BY <1>1, <1>2, AlwaysInvariant, PTL DEF Spec, DocumentGates, GateStep

\* With one request at a time and restarts at any step, a completed application that
\* updateStatus did not complete by hand has its completed and graded record
\* (uploadFinalGrade, cancelFinalization, withdraw, startInProgress).
THEOREM CompletedAreGraded == Serial /\ Spec => []CompletedIsGraded
<1> SUFFICES ASSUME Serial PROVE Spec => []CompletedIsGraded
  OBVIOUS
<1>1. SerialInv => CompletedIsGraded
  BY DEF SerialInv
<1> QED
  BY <1>1, AlwaysSerial, PTL
=============================================================================

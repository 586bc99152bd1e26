----------------------- MODULE ProjectLifecycleProofs -----------------------
(***************************************************************************)
(* Theorems of ProjectLifecycle: types, that nothing is public that the     *)
(* Faculty has not approved, and that a project which is over stays so      *)
(* while requests do not overlap.                                           *)
(***************************************************************************)
EXTENDS ProjectLifecycle, FiniteSetTheorems, TLAPS

\* Rows whose document is there once the row has been submitted.
Submitted == {"pending_approval", "needs_changes", "published", "in_progress",
              "completed"}
Filed == {p \in Project : p.status \in Submitted => p.document \in Documents}

\* What runs in a slot that will save or count has a row, and so has who applies.
WellFormed ==
    /\ Exists => project \in Filed
    /\ \A r \in Requests :
        /\ req[r].pc \in Saving \ {"remove"} => req[r].row \in Filed
        /\ req[r].pc = "apply_save" => req[r].student \in Students

TypeInv == TypeOK /\ WellFormed

(***************************************************************************)
(* Types                                                                   *)
(***************************************************************************)
LEMMA IdleIsRequest == Idle \in Request /\ Idle.pc = "idle"
BY DEF Idle, Request, Steps

LEMMA LoadedIsRequest ==
    ASSUME NEW row \in Filed, NEW pc \in Steps
    PROVE  [Idle EXCEPT !.pc = pc, !.row = row] \in Request
BY DEF Idle, Request, Filed

\* Requests that load a row keep the types.
LEMMA LoadTypes ==
    ASSUME TypeInv, NEW r \in Requests, NEW row \in Filed,
           NEW pc \in (Saving \ {"remove"}) \cup {"remove"},
           Load(r, row, pc),
           UNCHANGED <<project, Applying, approved, redelivered, restarts>>,
           skills' \subseteq Skills
    PROVE  TypeInv'
<1>1. pc \in Steps
  BY DEF Saving, Steps
<1>2. [Idle EXCEPT !.pc = pc, !.row = row] \in Request
  BY <1>1, LoadedIsRequest
<1>3. req' \in [Requests -> Request]
  BY <1>2 DEF Load, Begin, TypeInv, TypeOK
<1>4. undisturbed' \in BOOLEAN
  BY DEF Load, Begin
<1>5. WellFormed'
  <2>0. (Exists => project \in Filed)'
    BY DEF TypeInv, WellFormed, Exists
  <2> SUFFICES ASSUME NEW q \in Requests
               PROVE  /\ req'[q].pc \in Saving \ {"remove"} => req'[q].row \in Filed
                      /\ req'[q].pc = "apply_save" => req'[q].student \in Students
    BY <2>0 DEF WellFormed
  <2>1. CASE q = r
    BY <2>1 DEF Load, Begin, TypeInv, TypeOK, Idle, Saving
  <2>2. CASE q # r
    BY <2>2 DEF Load, Begin, TypeInv, TypeOK, WellFormed
  <2> QED BY <2>1, <2>2
<1> QED BY <1>3, <1>4, <1>5 DEF TypeInv, TypeOK, Applying

\* Requests that save a row and end keep the types.
LEMMA DoneTypes ==
    ASSUME TypeInv, NEW r \in Requests, Done(r), Exists' => project' \in Filed
    PROVE  req' \in [Requests -> Request] /\ WellFormed'
<1>1. req' \in [Requests -> Request]
  BY IdleIsRequest DEF Done, TypeInv, TypeOK
<1>2. WellFormed'
  BY IdleIsRequest DEF Done, TypeInv, TypeOK, WellFormed, Saving
<1> QED BY <1>1, <1>2

LEMMA SaveTypes ==
    ASSUME TypeInv, NEW r \in Requests, NEW pc \in Saving \ {"remove"}, Save(r, pc)
    PROVE  TypeInv'
<1>1. project' \in Filed
  BY DEF Save, At, TypeInv, WellFormed
<1>2. req' \in [Requests -> Request] /\ WellFormed'
  BY <1>1, DoneTypes DEF Save
<1> QED BY <1>1, <1>2 DEF Save, TypeInv, TypeOK, Applying, History, Filed

LEMMA IdledTypes ==
    ASSUME TypeInv, Exists' => project' \in Filed,
           req' = [q \in Requests |-> IF At(q, "apply_save") THEN req[q] ELSE Idle]
    PROVE  req' \in [Requests -> Request] /\ WellFormed'
<1>1. req' \in [Requests -> Request]
  BY IdleIsRequest DEF TypeInv, TypeOK
<1>2. WellFormed'
  BY IdleIsRequest DEF TypeInv, TypeOK, WellFormed, At, Saving
<1> QED BY <1>1, <1>2

LEMMA InitTypes == Init => TypeInv
<1> SUFFICES ASSUME Init PROVE TypeInv
  OBVIOUS
<1>1. project \in Filed
  <2>1. PICK d \in Documents \cup {NoDocument} :
            project = [status |-> "draft", document |-> d, reviewed |-> FALSE,
                       applicationsCount |-> 0]
    BY DEF Init
  <2> QED BY <2>1 DEF Project, ProjectStatus, Filed, Submitted
<1>2. req \in [Requests -> Request]
  BY IdleIsRequest DEF Init
<1>3. WellFormed
  BY <1>1, IdleIsRequest DEF Init, WellFormed, Saving
<1> QED BY <1>1, <1>2, <1>3, ProjectAssumption DEF Init, TypeInv, TypeOK, Filed

LEMMA NextTypes == TypeInv /\ [Next]_vars => TypeInv'
<1> SUFFICES ASSUME TypeInv, [Next]_vars PROVE TypeInv'
  OBVIOUS
<1>1. CASE UNCHANGED vars
  BY <1>1 DEF vars, TypeInv, TypeOK, WellFormed, Applying, History, Exists
<1>2. CASE ChangeSkills
  BY <1>2 DEF ChangeSkills, TypeInv, TypeOK, WellFormed, Applying, History, Exists
<1>3. CASE CallLost
  <2>1. calls' \in Nat
    BY <1>3 DEF CallLost, TypeInv, TypeOK
  <2>2. WellFormed'
    BY <1>3 DEF CallLost, TypeInv, WellFormed, Exists
  <2> QED BY <1>3, <2>1, <2>2 DEF CallLost, TypeInv, TypeOK
<1>4. CASE Restart
  <2> DEFINE Counting == {r \in Requests : At(r, "count_save") /\ req[r].event}
  <2>1. Cardinality(Counting) \in Nat
    BY ProjectAssumption, FS_Subset, FS_CardinalityType
  <2>2. req' \in [Requests -> Request] /\ WellFormed'
    BY <1>4, IdledTypes DEF Restart, TypeInv, WellFormed, Exists
  <2>3. events' = events + Cardinality(Counting)
        /\ redelivered' = redelivered + Cardinality(Counting)
    BY <1>4 DEF Restart
  <2> HIDE DEF Counting
  <2>4. events' \in Nat /\ redelivered' \in Nat
    BY <2>1, <2>3 DEF TypeInv, TypeOK
  <2>5. restarts' \in 0..MaxRestarts
    BY <1>4, ProjectAssumption DEF Restart, TypeInv, TypeOK
  <2> QED BY <1>4, <2>2, <2>4, <2>5 DEF Restart, TypeInv, TypeOK
<1>5. ASSUME NEW s \in Students, Accept(s) PROVE TypeInv'
  BY <1>5 DEF Accept, TypeInv, TypeOK, WellFormed, History, Exists
<1>6. ASSUME NEW r \in Requests, UpdateProject(r) PROVE TypeInv'
  <2>1. PICK d \in Documents \cup {project.document} :
            Load(r, [project EXCEPT !.document = d], "update_save")
    BY <1>6 DEF UpdateProject
  <2>2. project \in Filed
    BY <1>6 DEF UpdateProject, TypeInv, WellFormed
  <2>3. [project EXCEPT !.document = d] \in Filed
    BY <2>1, <2>2 DEF Project, Filed
  <2> QED BY <1>6, <2>1, <2>3, LoadTypes DEF UpdateProject, Saving
<1>7. ASSUME NEW r \in Requests, UpdateStatus(r) PROVE TypeInv'
  <2>1. PICK to \in ProjectStatus :
            /\ OwnerMayMove(project.status, to)
            /\ to = "pending_approval" => Complete
            /\ Load(r, [project EXCEPT !.status = to], "status_save")
    BY <1>7 DEF UpdateStatus
  <2>2. project \in Filed
    BY <1>7 DEF UpdateStatus, TypeInv, WellFormed
  <2>3. to \in Submitted => to = "pending_approval" \/ project.status \in Submitted
    BY <2>1, <2>2 DEF OwnerMayMove, VALID_TRANSITIONS, Submitted, Filed, Project,
       ProjectStatus
  <2>4. to \in Submitted => project.document \in Documents
    BY <2>1, <2>2, <2>3 DEF Complete, Filed, Project
  <2>5. [project EXCEPT !.status = to] \in Filed
    BY <2>2, <2>4 DEF Filed, Project
  <2> QED BY <1>7, <2>1, <2>5, LoadTypes DEF UpdateStatus, Saving, TypeInv, TypeOK
<1>8. ASSUME NEW r \in Requests, ReviewProject(r) PROVE TypeInv'
  <2>1. PICK v \in Verdicts :
            Load(r, [project EXCEPT !.status = v, !.reviewed = TRUE], "review_save")
    BY <1>8 DEF ReviewProject
  <2>2. [project EXCEPT !.status = v, !.reviewed = TRUE] \in Filed
    BY <1>8 DEF ReviewProject, TypeInv, WellFormed, Filed, Submitted, Project, Verdicts,
       ProjectStatus
  <2> QED BY <1>8, <2>1, <2>2, LoadTypes DEF ReviewProject, Saving, TypeInv, TypeOK
<1>9. ASSUME NEW r \in Requests, ViewProject(r) PROVE TypeInv'
  BY <1>9, LoadTypes DEF ViewProject, Saving, TypeInv, TypeOK, WellFormed
<1>10. ASSUME NEW r \in Requests, StartProject(r) PROVE TypeInv'
  <2>1. [project EXCEPT !.status = "in_progress"] \in Filed
    BY <1>10 DEF StartProject, TypeInv, WellFormed, Filed, Submitted, Project,
       ProjectStatus
  <2> QED BY <1>10, <2>1, LoadTypes DEF StartProject, Saving, TypeInv, TypeOK
<1>11. ASSUME NEW r \in Requests, DeleteProject(r) PROVE TypeInv'
  BY <1>11, LoadTypes DEF DeleteProject, Saving, TypeInv, TypeOK, WellFormed
<1>12. ASSUME NEW r \in Requests, NEW s \in Students, ApplyCheck(r, s) PROVE TypeInv'
  <2>1. [Idle EXCEPT !.pc = "apply_save", !.student = s] \in Request
    BY DEF Idle, Request, Steps
  <2>2. req' \in [Requests -> Request]
    BY <1>12, <2>1 DEF ApplyCheck, TypeInv, TypeOK
  <2>3. WellFormed'
    BY <1>12 DEF ApplyCheck, TypeInv, TypeOK, WellFormed, Idle, Saving, Exists
  <2> QED BY <1>12, <2>2, <2>3 DEF ApplyCheck, TypeInv, TypeOK, Applying, History
<1>13. ASSUME NEW r \in Requests, ApplySave(r) PROVE TypeInv'
  <2>1. req' \in [Requests -> Request] /\ WellFormed'
    BY <1>13, DoneTypes DEF ApplySave, TypeInv, WellFormed, Exists
  <2>2. req[r].student \in Students
    BY <1>13 DEF ApplySave, At, TypeInv, WellFormed
  <2>3. application' \in [Students -> {"none", "pending", "accepted"}] /\ calls' \in Nat
    BY <1>13, <2>2 DEF ApplySave, TypeInv, TypeOK
  <2> QED BY <1>13, <2>1, <2>3 DEF ApplySave, TypeInv, TypeOK, History
<1>14. ASSUME NEW r \in Requests, Increment(r) PROVE TypeInv'
  <2>1. calls' \in Nat /\ events' \in Nat
    BY <1>14 DEF Increment, TypeInv, TypeOK
  <2>2. CASE ~Exists
    BY <1>14, <2>1, <2>2 DEF Increment, TypeInv, TypeOK, WellFormed, Exists
  <2>3. CASE Exists
    <3> DEFINE new == [Idle EXCEPT !.pc = "count_save", !.row = Counted(project),
                                   !.event = events' # events]
    <3>1. Counted(project) \in Filed
      BY <2>3 DEF TypeInv, WellFormed, Filed, Counted, Project
    <3>2. new \in Request /\ new.pc = "count_save" /\ new.row \in Filed
      BY <3>1 DEF Idle, Request, Steps, Filed
    <3>3. Begin(r, new)
      BY <1>14, <2>3 DEF Increment
    <3> HIDE DEF new
    <3>4. req' \in [Requests -> Request] /\ undisturbed' \in BOOLEAN
      BY <3>2, <3>3 DEF Begin, TypeInv, TypeOK
    <3>5. WellFormed'
      BY <1>14, <3>2, <3>3 DEF Increment, Begin, TypeInv, TypeOK, WellFormed, Saving, Exists
    <3> QED BY <1>14, <2>1, <3>4, <3>5 DEF Increment, TypeInv, TypeOK
  <2> QED BY <2>2, <2>3
<1>15. ASSUME NEW r \in Requests, ReviewSave(r) PROVE TypeInv'
  <2>1. req[r].row \in Filed
    BY <1>15 DEF ReviewSave, At, TypeInv, WellFormed, Saving
  <2>2. req' \in [Requests -> Request] /\ WellFormed'
    BY <1>15, <2>1, DoneTypes DEF ReviewSave
  <2>3. approved' \subseteq Documents
    BY <1>15, <2>1 DEF ReviewSave, TypeInv, TypeOK, Filed, Submitted
  <2> QED BY <1>15, <2>1, <2>2, <2>3 DEF ReviewSave, TypeInv, TypeOK, Applying, Filed
<1>16. ASSUME NEW r \in Requests, Remove(r) PROVE TypeInv'
  <2>1. req' \in [Requests -> Request] /\ WellFormed'
    BY <1>16, DoneTypes DEF Remove, Exists
  <2> QED BY <1>16, <2>1 DEF Remove, TypeInv, TypeOK, Applying, History
<1>17. ASSUME NEW r \in Requests, RestartUnacked(r) PROVE TypeInv'
  <2>1. req[r].row \in Filed
    BY <1>17 DEF RestartUnacked, At, TypeInv, WellFormed, Saving
  <2>2. req' \in [Requests -> Request] /\ WellFormed'
    BY <1>17, <2>1, IdledTypes DEF RestartUnacked
  <2>3. events' \in Nat /\ redelivered' \in Nat /\ restarts' \in 0..MaxRestarts
    BY <1>17, ProjectAssumption DEF RestartUnacked, TypeInv, TypeOK
  <2> QED BY <1>17, <2>1, <2>2, <2>3 DEF RestartUnacked, TypeInv, TypeOK, Filed
<1>18. ASSUME NEW r \in Requests,
              \/ UpdateSave(r) \/ UpdateStatusSave(r) \/ ViewSave(r)
              \/ StartSave(r) \/ IncrementSave(r)
       PROVE  TypeInv'
  BY <1>18, SaveTypes DEF UpdateSave, UpdateStatusSave, ViewSave, StartSave,
     IncrementSave, Saving
<1> QED BY <1>1, <1>2, <1>3, <1>4, <1>5, <1>6, <1>7, <1>8, <1>9, <1>10, <1>11, <1>12,
        <1>13, <1>14, <1>15, <1>16, <1>17, <1>18 DEF Next

\* The project, its requests, the applications and what is on its way keep their types,
\* for any number of overlapping requests, restarts included.
THEOREM ProjectTypeCorrect == Spec => []TypeOK
<1>1. Spec => []TypeInv
  BY InitTypes, NextTypes, PTL DEF Spec
<1> QED BY <1>1, PTL DEF TypeInv

(***************************************************************************)
(* Nothing is public that was not reviewed                                 *)
(***************************************************************************)
\* What a row says if the Faculty has approved these documents. It stays true when more
\* are approved.
RowOK(row, documents) ==
    row.status \in PUBLIC_STATUSES => row.reviewed /\ row.document \in documents

\* A loaded row says the truth as well as the stored one; the row of a review will, once
\* the approval is saved with it.
ReviewInv ==
    /\ Exists => RowOK(project, approved)
    /\ \A r \in Requests :
         req[r].pc \in Saving \ {"remove"} =>
            IF req[r].pc = "review_save"
            THEN req[r].row.reviewed /\ req[r].row.status \in Verdicts
            ELSE RowOK(req[r].row, approved)

LEMMA MoreApproved ==
    ASSUME NEW row, NEW a, NEW b, a \subseteq b, RowOK(row, a)
    PROVE  RowOK(row, b)
BY DEF RowOK

LEMMA InitReviewed == Init => ReviewInv
BY IdleIsRequest DEF Init, ReviewInv, RowOK, PUBLIC_STATUSES, Saving

\* A request that loads a row good enough for what it will do keeps ReviewInv.
LEMMA LoadReviewed ==
    ASSUME TypeInv, ReviewInv, NEW r \in Requests, NEW new, Begin(r, new),
           UNCHANGED <<project, approved>>,
           new.pc \in Saving \ {"remove"} =>
              IF new.pc = "review_save"
              THEN new.row.reviewed /\ new.row.status \in Verdicts
              ELSE RowOK(new.row, approved)
    PROVE  ReviewInv'
<1>1. Exists' => RowOK(project, approved)'
  BY DEF ReviewInv, Exists
<1>2. ASSUME NEW q \in Requests, req'[q].pc \in Saving \ {"remove"}
      PROVE  IF req'[q].pc = "review_save"
             THEN req'[q].row.reviewed /\ req'[q].row.status \in Verdicts
             ELSE RowOK(req'[q].row, approved)
  <2>1. req'[q] = IF q = r THEN new ELSE req[q]
    BY DEF Begin, TypeInv, TypeOK
  <2> QED BY <1>2, <2>1 DEF ReviewInv
<1> QED BY <1>1, <1>2 DEF ReviewInv

\* Slots that end, or stay as they are, keep what ReviewInv says of the others.
LEMMA SlotsReviewed ==
    ASSUME TypeInv, ReviewInv, approved \subseteq approved',
           \A q \in Requests : req'[q] = req[q] \/ req'[q].pc \notin Saving \ {"remove"},
           Exists' => RowOK(project', approved')
    PROVE  ReviewInv'
<1>1. ASSUME NEW q \in Requests, req'[q].pc \in Saving \ {"remove"}
      PROVE  IF req'[q].pc = "review_save"
             THEN req'[q].row.reviewed /\ req'[q].row.status \in Verdicts
             ELSE RowOK(req'[q].row, approved')
  <2>1. req'[q] = req[q]
    BY <1>1
  <2> QED BY <1>1, <2>1, MoreApproved DEF ReviewInv
<1> QED BY <1>1 DEF ReviewInv

LEMMA DoneSlots ==
    ASSUME TypeInv, NEW r \in Requests, Done(r)
    PROVE  \A q \in Requests : req'[q] = req[q] \/ req'[q].pc \notin Saving \ {"remove"}
BY IdleIsRequest DEF Done, TypeInv, TypeOK, Saving

LEMMA IdledSlots ==
    ASSUME TypeInv, req' = [q \in Requests |-> IF At(q, "apply_save") THEN req[q] ELSE Idle]
    PROVE  \A q \in Requests : req'[q] = req[q] \/ req'[q].pc \notin Saving \ {"remove"}
BY IdleIsRequest DEF TypeInv, TypeOK, Saving

LEMMA SaveReviewed ==
    ASSUME TypeInv, ReviewInv, NEW r \in Requests,
           NEW pc \in Saving \ {"remove", "review_save"}, Save(r, pc)
    PROVE  ReviewInv'
<1>1. RowOK(req[r].row, approved)
  BY DEF Save, At, ReviewInv
<1> QED BY <1>1, SlotsReviewed, DoneSlots DEF Save, History

LEMMA NextReviewed == TypeInv /\ ReviewInv /\ [Next]_vars => ReviewInv'
<1> SUFFICES ASSUME TypeInv, ReviewInv, [Next]_vars PROVE ReviewInv'
  OBVIOUS
<1>0. UNCHANGED <<project, req, approved>> => ReviewInv'
  BY DEF ReviewInv, Exists
<1>1. CASE UNCHANGED vars \/ ChangeSkills \/ CallLost
  BY <1>0, <1>1 DEF vars, ChangeSkills, CallLost, History
<1>2. ASSUME NEW s \in Students, Accept(s) PROVE ReviewInv'
  BY <1>0, <1>2 DEF Accept, History
<1>3. CASE Restart
  BY <1>3, SlotsReviewed, IdledSlots DEF Restart, ReviewInv, Exists
<1>4. ASSUME NEW r \in Requests, UpdateProject(r) PROVE ReviewInv'
  <2>1. PICK d \in Documents \cup {project.document} :
            /\ MayReplace(project, d)
            /\ Load(r, [project EXCEPT !.document = d], "update_save")
    BY <1>4 DEF UpdateProject
  <2>2. project \in Project
    BY <1>4 DEF UpdateProject, Exists, TypeInv, TypeOK
  <2>3. RowOK([project EXCEPT !.document = d], approved)
    BY <1>4, <2>1, <2>2 DEF UpdateProject, ReviewInv, RowOK, MayReplace, PUBLIC_STATUSES,
       EDITABLE_STATUSES, Project
  <2> QED BY <1>4, <2>1, <2>3, LoadReviewed DEF UpdateProject, Load, Idle
<1>5. ASSUME NEW r \in Requests, UpdateStatus(r) PROVE ReviewInv'
  <2>1. PICK to \in ProjectStatus :
            /\ OwnerMayMove(project.status, to)
            /\ Load(r, [project EXCEPT !.status = to], "status_save")
    BY <1>5 DEF UpdateStatus
  <2>2. project \in Project
    BY <1>5 DEF UpdateStatus, Exists, TypeInv, TypeOK
  <2>3. to \in PUBLIC_STATUSES => project.status \in PUBLIC_STATUSES
    BY <2>1, <2>2 DEF OwnerMayMove, VALID_TRANSITIONS, PUBLIC_STATUSES, Project,
       ProjectStatus
  <2>4. RowOK([project EXCEPT !.status = to], approved)
    BY <1>5, <2>2, <2>3 DEF UpdateStatus, ReviewInv, RowOK, Project
  <2> QED BY <1>5, <2>1, <2>4, LoadReviewed DEF UpdateStatus, Load, Idle
<1>6. ASSUME NEW r \in Requests, ReviewProject(r) PROVE ReviewInv'
  <2>1. PICK v \in Verdicts :
            Load(r, [project EXCEPT !.status = v, !.reviewed = TRUE], "review_save")
    BY <1>6 DEF ReviewProject
  <2>2. project \in Project
    BY <1>6 DEF ReviewProject, Exists, TypeInv, TypeOK
  <2>3. LET row == [project EXCEPT !.status = v, !.reviewed = TRUE]
        IN  row.reviewed /\ row.status \in Verdicts
    BY <2>1, <2>2 DEF Project
  <2> QED BY <1>6, <2>1, <2>3, LoadReviewed DEF ReviewProject, Load, Idle
<1>7. ASSUME NEW r \in Requests, ViewProject(r) PROVE ReviewInv'
  BY <1>7, LoadReviewed DEF ViewProject, Load, Idle, ReviewInv
<1>8. ASSUME NEW r \in Requests, StartProject(r) PROVE ReviewInv'
  <2>1. project \in Project
    BY <1>8 DEF StartProject, Exists, TypeInv, TypeOK
  <2>2. RowOK([project EXCEPT !.status = "in_progress"], approved)
    BY <1>8, <2>1 DEF StartProject, ReviewInv, RowOK, PUBLIC_STATUSES, Project
  <2> QED BY <1>8, <2>2, LoadReviewed DEF StartProject, Load, Idle
<1>9. ASSUME NEW r \in Requests, DeleteProject(r) PROVE ReviewInv'
  BY <1>9, LoadReviewed DEF DeleteProject, Load, Idle, ReviewInv
<1>10. ASSUME NEW r \in Requests, NEW s \in Students, ApplyCheck(r, s) PROVE ReviewInv'
  <2>1. \A q \in Requests : req'[q] = req[q] \/ req'[q].pc \notin Saving \ {"remove"}
    BY <1>10 DEF ApplyCheck, TypeInv, TypeOK, Saving, Idle
  <2> QED BY <1>10, <2>1, SlotsReviewed DEF ApplyCheck, History, ReviewInv, Exists
<1>11. ASSUME NEW r \in Requests, ApplySave(r) PROVE ReviewInv'
  BY <1>11, SlotsReviewed, DoneSlots DEF ApplySave, History, ReviewInv, Exists
<1>12. ASSUME NEW r \in Requests, Increment(r) PROVE ReviewInv'
  <2>1. CASE ~Exists
    BY <1>0, <1>12, <2>1 DEF Increment
  <2>2. CASE Exists
    <3>1. project \in Project
      BY <2>2 DEF Exists, TypeInv, TypeOK
    <3>2. RowOK(Counted(project), approved)
      BY <2>2, <3>1 DEF ReviewInv, RowOK, Counted, Project
    <3> QED BY <1>12, <2>2, <3>2, LoadReviewed DEF Increment, Idle
  <2> QED BY <2>1, <2>2
<1>13. ASSUME NEW r \in Requests, ReviewSave(r) PROVE ReviewInv'
  <2>1. req[r].row.reviewed /\ req[r].row.status \in Verdicts
    BY <1>13 DEF ReviewSave, At, ReviewInv, Saving
  <2>2. RowOK(project', approved')
    BY <1>13, <2>1 DEF ReviewSave, RowOK, Verdicts, PUBLIC_STATUSES
  <2>3. approved \subseteq approved'
    BY <1>13 DEF ReviewSave
  <2> QED BY <1>13, <2>2, <2>3, SlotsReviewed, DoneSlots DEF ReviewSave
<1>14. ASSUME NEW r \in Requests, Remove(r) PROVE ReviewInv'
  BY <1>14, SlotsReviewed, DoneSlots DEF Remove, History, Exists
<1>15. ASSUME NEW r \in Requests, RestartUnacked(r) PROVE ReviewInv'
  <2>1. RowOK(req[r].row, approved)
    BY <1>15 DEF RestartUnacked, At, ReviewInv, Saving
  <2> QED BY <1>15, <2>1, SlotsReviewed, IdledSlots DEF RestartUnacked
<1>16. ASSUME NEW r \in Requests,
              \/ UpdateSave(r) \/ UpdateStatusSave(r) \/ ViewSave(r)
              \/ StartSave(r) \/ IncrementSave(r)
       PROVE  ReviewInv'
  BY <1>16, SaveReviewed DEF UpdateSave, UpdateStatusSave, ViewSave, StartSave,
     IncrementSave, Saving
<1> QED BY <1>1, <1>2, <1>3, <1>4, <1>5, <1>6, <1>7, <1>8, <1>9, <1>10, <1>11, <1>12,
        <1>13, <1>14, <1>15, <1>16 DEF Next

\* However requests, events and restarts interleave, a public project was reviewed and
\* the Faculty has approved the document it shows, for every set of documents.
THEOREM PublicProjectsReviewed == Spec => []PublicWasReviewed
<1>1. Spec => [](TypeInv /\ ReviewInv)
  BY InitTypes, InitReviewed, NextTypes, NextReviewed, PTL DEF Spec
<1>2. ReviewInv => PublicWasReviewed
  BY DEF ReviewInv, RowOK, PublicWasReviewed, PUBLIC_STATUSES
<1> QED BY <1>1, <1>2, PTL

(***************************************************************************)
(* What is over stays so while requests do not overlap                     *)
(***************************************************************************)
Over == {"completed", "cancelled"}

\* While nothing has overlapped one request at most will save, and what it will save over
\* a project that is over says the same of it.
QuietInv ==
    undisturbed =>
        /\ \A q1, q2 \in Requests :
             req[q1].pc \in Saving /\ req[q2].pc \in Saving => q1 = q2
        /\ \A q \in Requests :
             Exists /\ project.status \in Over /\ req[q].pc \in Saving \ {"remove"}
                => req[q].row.status = project.status

LEMMA InitQuiet == Init => QuietInv
BY IdleIsRequest DEF Init, QuietInv, Saving

\* A request that loads a row whose status an ended project would share keeps QuietInv.
LEMMA LoadQuiet ==
    ASSUME TypeInv, QuietInv, NEW r \in Requests, NEW new, Begin(r, new),
           UNCHANGED project,
           Exists /\ project.status \in Over /\ new.pc \in Saving \ {"remove"}
              => new.row.status = project.status
    PROVE  QuietInv'
<1> SUFFICES ASSUME undisturbed'
             PROVE  /\ \A q1, q2 \in Requests :
                         req'[q1].pc \in Saving /\ req'[q2].pc \in Saving => q1 = q2
                    /\ \A q \in Requests :
                         Exists' /\ project'.status \in Over
                         /\ req'[q].pc \in Saving \ {"remove"}
                            => req'[q].row.status = project'.status
  BY DEF QuietInv
<1>1. \A q \in Requests : req[q].pc \notin Saving
  BY DEF Begin
<1>2. \A q \in Requests : req'[q] = IF q = r THEN new ELSE req[q]
  BY DEF Begin, TypeInv, TypeOK
<1>3. \A q1, q2 \in Requests :
         req'[q1].pc \in Saving /\ req'[q2].pc \in Saving => q1 = q2
  BY <1>1, <1>2
<1>4. ASSUME NEW q \in Requests, Exists', project'.status \in Over,
             req'[q].pc \in Saving \ {"remove"}
      PROVE  req'[q].row.status = project'.status
  <2>1. q = r
    BY <1>1, <1>2, <1>4
  <2>2. Exists /\ project.status \in Over
    BY <1>4 DEF Exists
  <2> QED BY <1>2, <1>4, <2>1, <2>2
<1> QED BY <1>3, <1>4

\* Slots that end leave nothing that will save, or leave the others and the project.
LEMMA EndQuiet ==
    ASSUME QuietInv, undisturbed' => undisturbed,
           \A q \in Requests : req'[q] = req[q] \/ req'[q].pc \notin Saving,
           undisturbed' =>
              \/ UNCHANGED project
              \/ \A q \in Requests : req'[q].pc \notin Saving
    PROVE  QuietInv'
<1> SUFFICES ASSUME undisturbed'
             PROVE  /\ \A q1, q2 \in Requests :
                         req'[q1].pc \in Saving /\ req'[q2].pc \in Saving => q1 = q2
                    /\ \A q \in Requests :
                         Exists' /\ project'.status \in Over
                         /\ req'[q].pc \in Saving \ {"remove"}
                            => req'[q].row.status = project'.status
  BY DEF QuietInv
<1>1. \A q1, q2 \in Requests :
         req'[q1].pc \in Saving /\ req'[q2].pc \in Saving => q1 = q2
  BY DEF QuietInv
<1>2. ASSUME NEW q \in Requests, Exists', project'.status \in Over,
             req'[q].pc \in Saving \ {"remove"}
      PROVE  req'[q].row.status = project'.status
  <2>1. req'[q] = req[q] /\ UNCHANGED project
    BY <1>2
  <2>2. Exists /\ project.status \in Over
    BY <1>2, <2>1 DEF Exists
  <2> QED BY <1>2, <2>1, <2>2 DEF QuietInv
<1> QED BY <1>1, <1>2

\* The only request that saves leaves none behind.
LEMMA DoneQuiet ==
    ASSUME TypeInv, QuietInv, NEW r \in Requests, req[r].pc \in Saving, Done(r),
           UNCHANGED undisturbed
    PROVE  QuietInv'
<1>1. \A q \in Requests : req'[q] = req[q] \/ req'[q].pc \notin Saving
  BY IdleIsRequest DEF Done, TypeInv, TypeOK, Saving
<1>2. undisturbed => \A q \in Requests : req'[q].pc \notin Saving
  BY IdleIsRequest DEF Done, TypeInv, TypeOK, Saving, QuietInv
<1> QED BY <1>1, <1>2, EndQuiet

LEMMA NextQuiet == TypeInv /\ QuietInv /\ [Next]_vars => QuietInv'
<1> SUFFICES ASSUME TypeInv, QuietInv, [Next]_vars PROVE QuietInv'
  OBVIOUS
<1>0. UNCHANGED <<project, req, undisturbed>> => QuietInv'
  BY DEF QuietInv, Exists
<1>1. CASE UNCHANGED vars \/ ChangeSkills
  BY <1>0, <1>1 DEF vars, ChangeSkills, History
<1>2. CASE CallLost \/ Restart
  BY <1>2 DEF CallLost, Restart, QuietInv
<1>3. ASSUME NEW s \in Students, Accept(s) PROVE QuietInv'
  BY <1>0, <1>3 DEF Accept, History
<1>4. ASSUME NEW r \in Requests, UpdateProject(r) PROVE QuietInv'
  <2>1. PICK d \in Documents \cup {project.document} :
            /\ MayReplace(project, d)
            /\ Load(r, [project EXCEPT !.document = d], "update_save")
    BY <1>4 DEF UpdateProject
  <2>2. project.status \notin Over
    BY <2>1 DEF MayReplace, EDITABLE_STATUSES, Over
  <2> QED BY <1>4, <2>1, <2>2, LoadQuiet DEF UpdateProject, Load
<1>5. ASSUME NEW r \in Requests, UpdateStatus(r) PROVE QuietInv'
  <2>1. PICK to \in ProjectStatus :
            /\ OwnerMayMove(project.status, to)
            /\ Load(r, [project EXCEPT !.status = to], "status_save")
    BY <1>5 DEF UpdateStatus
  <2>2. project.status \notin Over
    <3>1. project.status \in ProjectStatus
      BY <1>5 DEF UpdateStatus, Exists, TypeInv, TypeOK, Project
    <3> QED BY <2>1, <3>1 DEF OwnerMayMove, VALID_TRANSITIONS, Over, ProjectStatus
  <2> QED BY <1>5, <2>1, <2>2, LoadQuiet DEF UpdateStatus, Load
<1>6. ASSUME NEW r \in Requests, ReviewProject(r) PROVE QuietInv'
  <2>1. PICK v \in Verdicts :
            Load(r, [project EXCEPT !.status = v, !.reviewed = TRUE], "review_save")
    BY <1>6 DEF ReviewProject
  <2>2. project.status \notin Over
    BY <1>6 DEF ReviewProject, Over
  <2> QED BY <1>6, <2>1, <2>2, LoadQuiet DEF ReviewProject, Load
<1>7. ASSUME NEW r \in Requests, ViewProject(r) PROVE QuietInv'
  BY <1>7, LoadQuiet DEF ViewProject, Load, Idle
<1>8. ASSUME NEW r \in Requests, StartProject(r) PROVE QuietInv'
  <2>1. project.status \notin Over
    BY <1>8 DEF StartProject, Over
  <2>2. Begin(r, [Idle EXCEPT !.pc = "start_save",
                              !.row = [project EXCEPT !.status = "in_progress"]])
    BY <1>8 DEF StartProject, Load
  <2>3. UNCHANGED project
    BY <1>8 DEF StartProject
  <2> QED BY <2>1, <2>2, <2>3, LoadQuiet
<1>9. ASSUME NEW r \in Requests, DeleteProject(r) PROVE QuietInv'
  BY <1>9, LoadQuiet DEF DeleteProject, Load, Idle
<1>10. ASSUME NEW r \in Requests, NEW s \in Students, ApplyCheck(r, s) PROVE QuietInv'
  <2>1. \A q \in Requests : req'[q] = req[q] \/ req'[q].pc \notin Saving
    BY <1>10 DEF ApplyCheck, TypeInv, TypeOK, Saving, Idle
  <2> QED BY <1>10, <2>1, EndQuiet DEF ApplyCheck, History
<1>11. ASSUME NEW r \in Requests, ApplySave(r) PROVE QuietInv'
  <2>1. \A q \in Requests : req'[q] = req[q] \/ req'[q].pc \notin Saving
    BY <1>11, IdleIsRequest DEF ApplySave, Done, TypeInv, TypeOK, Saving
  <2> QED BY <1>11, <2>1, EndQuiet DEF ApplySave, History
<1>12. ASSUME NEW r \in Requests, Increment(r) PROVE QuietInv'
  <2>1. CASE ~Exists
    BY <1>0, <1>12, <2>1 DEF Increment
  <2>2. CASE Exists
    <3>1. Counted(project).status = project.status
      BY <2>2 DEF Counted, Exists, TypeInv, TypeOK, Project
    <3> QED BY <1>12, <2>2, <3>1, LoadQuiet DEF Increment, Idle
  <2> QED BY <2>1, <2>2
<1>13. ASSUME NEW r \in Requests, ReviewSave(r) \/ Remove(r) PROVE QuietInv'
  BY <1>13, DoneQuiet DEF ReviewSave, Remove, At, Saving, History
<1>14. ASSUME NEW r \in Requests, RestartUnacked(r) PROVE QuietInv'
  BY <1>14 DEF RestartUnacked, QuietInv
<1>15. ASSUME NEW r \in Requests,
              \/ UpdateSave(r) \/ UpdateStatusSave(r) \/ ViewSave(r)
              \/ StartSave(r) \/ IncrementSave(r)
       PROVE  QuietInv'
  BY <1>15, DoneQuiet DEF UpdateSave, UpdateStatusSave, ViewSave, StartSave,
     IncrementSave, Save, At, Saving, History
<1> QED BY <1>1, <1>2, <1>3, <1>4, <1>5, <1>6, <1>7, <1>8, <1>9, <1>10, <1>11, <1>12,
        <1>13, <1>14, <1>15 DEF Next

\* A step that changes the status of a project that is over saves a row that disagrees.
LEMMA NextKeepsOver ==
    ASSUME TypeInv, QuietInv, [Next]_vars, undisturbed,
           Exists, project.status \in Over, project' # NoProject
    PROVE  project'.status = project.status
<1>1. CASE UNCHANGED project
  BY <1>1
<1>2. CASE \E r \in Requests : req[r].pc \in Saving \ {"remove"} /\ project' = req[r].row
  BY <1>2 DEF QuietInv
<1>3. \/ UNCHANGED project
      \/ \E r \in Requests : req[r].pc \in Saving \ {"remove"} /\ project' = req[r].row
  <2>1. CASE UNCHANGED vars \/ ChangeSkills \/ CallLost \/ Restart
             \/ \E s \in Students : Accept(s)
    BY <2>1 DEF vars, ChangeSkills, CallLost, Restart, Accept
  <2>2. ASSUME NEW r \in Requests,
               \/ UpdateProject(r) \/ UpdateStatus(r) \/ ReviewProject(r)
               \/ ViewProject(r) \/ StartProject(r) \/ DeleteProject(r)
               \/ Increment(r) \/ ApplySave(r) \/ (\E s \in Students : ApplyCheck(r, s))
        PROVE  UNCHANGED project
    BY <2>2 DEF UpdateProject, UpdateStatus, ReviewProject, ViewProject, StartProject,
       DeleteProject, Increment, ApplySave, ApplyCheck
  <2>3. ASSUME NEW r \in Requests,
               \/ UpdateSave(r) \/ UpdateStatusSave(r) \/ ViewSave(r)
               \/ StartSave(r) \/ IncrementSave(r) \/ ReviewSave(r) \/ RestartUnacked(r)
        PROVE  req[r].pc \in Saving \ {"remove"} /\ project' = req[r].row
    BY <2>3 DEF UpdateSave, UpdateStatusSave, ViewSave, StartSave, IncrementSave, Save,
       ReviewSave, RestartUnacked, At, Saving
  <2>4. ASSUME NEW r \in Requests, Remove(r) PROVE FALSE
    BY <2>4 DEF Remove
  <2> QED BY <2>1, <2>2, <2>3, <2>4 DEF Next
<1> QED BY <1>1, <1>2, <1>3

\* A cancelled or completed project leaves that status only where requests have
\* overlapped or a process was restarted, whatever the owner, the desk, the asesor and
\* the counter do, for any number of requests.
THEOREM OverProjectsStay == Spec => OverUnlessStale
<1>1. TypeInv /\ QuietInv /\ [Next]_vars
      => [Exists /\ project.status \in {"completed", "cancelled"}
          /\ project' # NoProject /\ project'.status # project.status
            => ~undisturbed]_vars
  BY NextKeepsOver DEF Over
<1>2. Spec => [](TypeInv /\ QuietInv)
  BY InitTypes, InitQuiet, NextTypes, NextQuiet, PTL DEF Spec
<1> QED BY <1>1, <1>2, PTL DEF Spec, OverUnlessStale

(***************************************************************************)
(* The counter of applications                                             *)
(***************************************************************************)
Created == {s \in Students : application[s] # "none"}
Accepted == {s \in Students : application[s] = "accepted"}

\* What the counter may have come to: what it counts, less the calls and the events
\* that have not moved it yet.
Room == Cardinality(Created) + Cardinality(Accepted) + redelivered - calls - events

\* Each row, the stored one and those loaded, was right or behind when it was loaded.
AheadInv ==
    /\ Exists => project.applicationsCount <= Room
    /\ \A r \in Requests :
         req[r].pc \in Saving \ {"remove"} => req[r].row.applicationsCount <= Room

\* While nothing has overlapped the row that will be saved is exact, and so is the
\* stored one unless that row counts one more.
ExactInv ==
    undisturbed =>
        /\ redelivered = 0
        /\ \A r \in Requests : req[r].pc \in Saving => Exists
        /\ \A r \in Requests :
             req[r].pc \in Saving \ {"remove"} => req[r].row.applicationsCount = Room
        /\ Exists /\ (\A r \in Requests : ~At(r, "count_save"))
             => project.applicationsCount = Room

CountInv == AheadInv /\ ExactInv

LEMMA RoomType ==
    ASSUME TypeOK
    PROVE  /\ Room \in Int
           /\ Room <= Cardinality(Created) + Cardinality(Accepted) + redelivered
           /\ Cardinality(Created) \in Nat /\ Cardinality(Accepted) \in Nat
           /\ IsFiniteSet(Created) /\ IsFiniteSet(Accepted)
<1>1. IsFiniteSet(Created) /\ IsFiniteSet(Accepted)
  BY ProjectAssumption, FS_Subset DEF Created, Accepted
<1>2. Cardinality(Created) \in Nat /\ Cardinality(Accepted) \in Nat
  BY <1>1, FS_CardinalityType
<1> QED BY <1>1, <1>2 DEF Room, TypeOK

\* The counts of the rows are numbers.
LEMMA RowCounts ==
    ASSUME TypeInv
    PROVE  /\ Exists => project.applicationsCount \in Nat
           /\ \A r \in Requests : req[r].pc \in Saving \ {"remove"}
                                    => req[r].row.applicationsCount \in Nat
BY DEF TypeInv, WellFormed, Filed, Project

\* What the desk and the company do with the project leaves what is counted alone.
LEMMA SameRoom ==
    ASSUME UNCHANGED <<application, calls, events, redelivered>>
    PROVE  Room' = Room
BY DEF Room, Created, Accepted

\* A student who applies is counted by a call, one who is accepted by an event.
LEMMA RoomOfApply ==
    ASSUME TypeOK, NEW s \in Students, application[s] = "none",
           application' = [application EXCEPT ![s] = "pending"], calls' = calls + 1,
           UNCHANGED <<events, redelivered>>
    PROVE  Room' = Room
<1>1. Created' = Created \cup {s} /\ Accepted' = Accepted /\ s \notin Created
  BY DEF Created, Accepted, TypeOK
<1>2. Cardinality(Created \cup {s}) = Cardinality(Created) + 1
  BY <1>1, RoomType, FS_AddElement
<1> QED BY <1>1, <1>2, RoomType DEF Room, TypeOK

LEMMA RoomOfAccept ==
    ASSUME TypeOK, NEW s \in Students, Accept(s)
    PROVE  Room' = Room
<1>1. Accepted' = Accepted \cup {s} /\ Created' = Created /\ s \notin Accepted
  BY DEF Accept, Created, Accepted, TypeOK
<1>2. Cardinality(Accepted \cup {s}) = Cardinality(Accepted) + 1
  BY <1>1, RoomType, FS_AddElement
<1>3. events' = events + 1 /\ UNCHANGED <<calls, redelivered>>
  BY DEF Accept, History
<1> QED BY <1>1, <1>2, <1>3, RoomType DEF Room, TypeOK

LEMMA InitCounts == Init => CountInv
<1> SUFFICES ASSUME Init PROVE CountInv
  OBVIOUS
<1>1. Created = {} /\ Accepted = {}
  BY DEF Init, Created, Accepted
<1>2. Room = 0
  BY <1>1, FS_EmptySet DEF Init, Room
<1>3. project.applicationsCount = 0
  BY DEF Init
<1> QED BY <1>2, <1>3, IdleIsRequest DEF Init, CountInv, AheadInv, ExactInv, Saving

\* A request that loads the row and will save it with the same count.
LEMMA LoadCounts ==
    ASSUME TypeInv, CountInv, NEW r \in Requests, NEW row, NEW pc \in Saving \ {"count_save"},
           Load(r, row, pc), Exists,
           row.applicationsCount = project.applicationsCount,
           UNCHANGED <<project, Applying, redelivered>>
    PROVE  CountInv'
<1>1. Room' = Room
  BY SameRoom DEF Applying
<1>2. \A q \in Requests :
        IF q = r THEN req'[q].pc = pc /\ req'[q].row = row ELSE req'[q] = req[q]
  BY DEF Load, Begin, Idle, TypeInv, TypeOK
<1>3. Exists' /\ project.applicationsCount <= Room
  BY DEF Exists, CountInv, AheadInv
<1>4. AheadInv'
  BY <1>1, <1>2, <1>3 DEF CountInv, AheadInv
<1>5. ASSUME undisturbed'
      PROVE  /\ redelivered' = 0
             /\ \A q \in Requests : req'[q].pc \in Saving \ {"remove"}
                                      => req'[q].row.applicationsCount = Room'
             /\ project'.applicationsCount = Room'
  <2>1. undisturbed /\ \A q \in Requests : req[q].pc \notin Saving
    BY <1>5 DEF Load, Begin
  <2>2. project.applicationsCount = Room /\ redelivered = 0
    BY <2>1 DEF CountInv, ExactInv, At, Saving, Exists
  <2> QED BY <1>1, <1>2, <2>1, <2>2
<1> QED BY <1>3, <1>4, <1>5 DEF CountInv, ExactInv

\* A request that saves a row with its count, and ends.
LEMMA SaveCounts ==
    ASSUME TypeInv, QuietInv, CountInv, NEW r \in Requests,
           req[r].pc \in Saving \ {"remove"}, project' = req[r].row, Done(r),
           UNCHANGED <<Applying, redelivered, undisturbed>>
    PROVE  CountInv'
<1>1. Room' = Room
  BY SameRoom DEF Applying
<1>2. \A q \in Requests : req'[q] = req[q] \/ req'[q].pc \notin Saving \ {"remove"}
  BY DoneSlots
<1>3. AheadInv'
  BY <1>1, <1>2 DEF CountInv, AheadInv
<1>4. ASSUME undisturbed'
      PROVE  /\ redelivered' = 0
             /\ \A q \in Requests : req'[q].pc \notin Saving
             /\ project'.applicationsCount = Room'
  <2>1. undisturbed
    BY <1>4
  <2>2. \A q \in Requests : req'[q].pc \notin Saving
    BY <2>1, IdleIsRequest DEF Done, TypeInv, TypeOK, QuietInv, Saving
  <2> QED BY <1>1, <2>1, <2>2 DEF CountInv, ExactInv
<1> QED BY <1>3, <1>4 DEF CountInv, ExactInv

\* Steps of others leave the project and the slots that will save alone.
LEMMA KeptCounts ==
    ASSUME CountInv, Room' = Room, UNCHANGED <<project, redelivered>>,
           undisturbed' => undisturbed,
           \A q \in Requests : \/ req'[q] = req[q]
                               \/ req[q].pc \notin Saving /\ req'[q].pc \notin Saving
    PROVE  CountInv'
<1>1. AheadInv'
  BY DEF CountInv, AheadInv, Exists
<1>2. ASSUME undisturbed'
      PROVE  /\ redelivered' = 0
             /\ \A q \in Requests : req'[q].pc \in Saving => Exists'
             /\ \A q \in Requests :
                  req'[q].pc \in Saving \ {"remove"} => req'[q].row.applicationsCount = Room'
             /\ Exists' /\ (\A q \in Requests : req'[q].pc # "count_save")
                  => project'.applicationsCount = Room'
  <2>1. undisturbed
    BY <1>2
  <2>2. (\A q \in Requests : req'[q].pc # "count_save")
        => \A q \in Requests : ~At(q, "count_save")
    BY DEF At, Saving
  <2> QED BY <2>1, <2>2 DEF CountInv, ExactInv, Exists
<1> QED BY <1>1, <1>2 DEF CountInv, ExactInv, At

\* An increment moves what is owed into the row it has loaded.
LEMMA IncrementCounts ==
    ASSUME TypeInv, CountInv, NEW r \in Requests, Increment(r)
    PROVE  CountInv'
<1>1. Room' = Room + 1
  <2>1. Created' = Created /\ Accepted' = Accepted /\ redelivered' = redelivered
    BY DEF Increment, Created, Accepted
  <2>2. CASE calls' = calls - 1 /\ events' = events
    BY <2>1, <2>2, RoomType DEF Room, TypeInv, TypeOK
  <2>3. CASE calls' = calls /\ events' = events - 1
    BY <2>1, <2>3, RoomType DEF Room, TypeInv, TypeOK
  <2> QED BY <2>2, <2>3 DEF Increment
<1>2. UNCHANGED <<project, redelivered>>
  BY DEF Increment
<1>3. CASE ~Exists
  <2>1. req' = req /\ undisturbed' = undisturbed
    BY <1>3 DEF Increment
  <2>2. AheadInv'
    BY <1>1, <1>2, <2>1, RoomType, RowCounts DEF CountInv, AheadInv, Exists, TypeInv
  <2>3. ExactInv'
    BY <1>2, <1>3, <2>1 DEF CountInv, ExactInv, Exists, Saving
  <2> QED BY <2>2, <2>3 DEF CountInv
<1>4. CASE Exists
  <2>1. PICK e \in BOOLEAN :
           Begin(r, [Idle EXCEPT !.pc = "count_save", !.row = Counted(project), !.event = e])
    BY <1>4 DEF Increment
  <2>2. Counted(project).applicationsCount = project.applicationsCount + 1
    BY <1>4 DEF Counted, Exists, TypeInv, TypeOK, Project
  <2>3. \A q \in Requests :
          IF q = r THEN /\ req'[q].pc = "count_save"
                        /\ req'[q].row.applicationsCount = project.applicationsCount + 1
          ELSE req'[q] = req[q]
    BY <2>1, <2>2 DEF Begin, Idle, TypeInv, TypeOK
  <2>4. AheadInv'
    BY <1>1, <1>2, <1>4, <2>3, RoomType, RowCounts DEF CountInv, AheadInv, Exists, TypeInv
  <2>5. ASSUME undisturbed'
        PROVE  /\ redelivered' = 0
               /\ \A q \in Requests :
                    req'[q].pc \in Saving \ {"remove"} => req'[q].row.applicationsCount = Room'
               /\ \E q \in Requests : req'[q].pc = "count_save"
    <3>1. undisturbed /\ \A q \in Requests : req[q].pc \notin Saving
      BY <2>1, <2>5 DEF Begin
    <3>2. project.applicationsCount = Room /\ redelivered = 0
      BY <1>4, <3>1 DEF CountInv, ExactInv, At, Saving
    <3> QED BY <1>1, <1>2, <2>3, <3>1, <3>2
  <2> QED BY <1>2, <1>4, <2>4, <2>5 DEF CountInv, ExactInv, At, Exists
<1> QED BY <1>3, <1>4

\* A restart brings back the events that were not acknowledged, and counts them.
LEMMA RestartCounts ==
    ASSUME TypeInv, CountInv, Restart
    PROVE  CountInv'
<1> DEFINE again == Cardinality({r \in Requests : At(r, "count_save") /\ req[r].event})
<1>1. again \in Nat
  BY ProjectAssumption, FS_Subset, FS_CardinalityType
<1>2. events' = events + again /\ redelivered' = redelivered + again
  BY DEF Restart
<1>3. Created' = Created /\ Accepted' = Accepted /\ calls' = calls /\ project' = project
  BY DEF Restart, Created, Accepted
<1> HIDE DEF again
<1>4. Room' = Room
  BY <1>1, <1>2, <1>3, RoomType DEF Room, TypeInv, TypeOK
<1>5. \A q \in Requests : req'[q] = req[q] \/ req'[q].pc \notin Saving \ {"remove"}
  BY IdledSlots DEF Restart
<1>6. ~undisturbed'
  BY DEF Restart
<1> QED BY <1>3, <1>4, <1>5, <1>6 DEF CountInv, AheadInv, ExactInv, Exists

LEMMA UnackedCounts ==
    ASSUME TypeInv, CountInv, NEW r \in Requests, RestartUnacked(r)
    PROVE  CountInv'
<1>1. Room' = Room
  <2>1. Created' = Created /\ Accepted' = Accepted
    BY DEF RestartUnacked, Created, Accepted
  <2>2. events' = events + 1 /\ redelivered' = redelivered + 1 /\ calls' = calls
    BY DEF RestartUnacked
  <2> QED BY <2>1, <2>2, RoomType DEF Room, TypeInv, TypeOK
<1>2. \A q \in Requests : req'[q] = req[q] \/ req'[q].pc \notin Saving \ {"remove"}
  BY IdledSlots DEF RestartUnacked
<1>3. project'.applicationsCount <= Room
  BY DEF RestartUnacked, At, Saving, CountInv, AheadInv
<1>4. ~undisturbed'
  BY DEF RestartUnacked
<1> QED BY <1>1, <1>2, <1>3, <1>4 DEF CountInv, AheadInv, ExactInv

LEMMA NextCounts == TypeInv /\ QuietInv /\ CountInv /\ [Next]_vars => CountInv'
<1> SUFFICES ASSUME TypeInv, QuietInv, CountInv, [Next]_vars PROVE CountInv'
  OBVIOUS
<1>1. CASE UNCHANGED vars \/ ChangeSkills
  <2>1. UNCHANGED <<project, req, application, calls, events, undisturbed, redelivered>>
    BY <1>1 DEF vars, ChangeSkills, Applying, History
  <2> QED BY <2>1, SameRoom, KeptCounts
<1>2. CASE CallLost
  <2>1. Room' = Room + 1
    <3>1. Created' = Created /\ Accepted' = Accepted
      BY <1>2 DEF CallLost, Created, Accepted
    <3>2. calls' = calls - 1 /\ events' = events /\ redelivered' = redelivered
      BY <1>2 DEF CallLost
    <3> QED BY <3>1, <3>2, RoomType DEF Room, TypeInv, TypeOK
  <2>2. UNCHANGED <<project, req>> /\ ~undisturbed'
    BY <1>2 DEF CallLost
  <2> QED BY <2>1, <2>2, RoomType, RowCounts
          DEF CountInv, AheadInv, ExactInv, Exists, TypeInv
<1>3. CASE Restart
  BY <1>3, RestartCounts
<1>4. ASSUME NEW s \in Students, Accept(s) PROVE CountInv'
  BY <1>4, RoomOfAccept, KeptCounts DEF Accept, History, TypeInv
<1>5. ASSUME NEW r \in Requests, UpdateProject(r) PROVE CountInv'
  <2>1. PICK d \in Documents \cup {project.document} :
            Load(r, [project EXCEPT !.document = d], "update_save")
    BY <1>5 DEF UpdateProject
  <2>2. [project EXCEPT !.document = d].applicationsCount = project.applicationsCount
    BY <1>5 DEF UpdateProject, Exists, TypeInv, TypeOK, Project
  <2> QED BY <1>5, <2>1, <2>2, LoadCounts DEF UpdateProject, Saving
<1>6. ASSUME NEW r \in Requests, UpdateStatus(r) PROVE CountInv'
  <2>1. PICK to \in ProjectStatus : Load(r, [project EXCEPT !.status = to], "status_save")
    BY <1>6 DEF UpdateStatus
  <2>2. [project EXCEPT !.status = to].applicationsCount = project.applicationsCount
    BY <1>6 DEF UpdateStatus, Exists, TypeInv, TypeOK, Project
  <2> QED BY <1>6, <2>1, <2>2, LoadCounts DEF UpdateStatus, Saving
<1>7. ASSUME NEW r \in Requests, ReviewProject(r) PROVE CountInv'
  <2>1. PICK v \in Verdicts :
            Load(r, [project EXCEPT !.status = v, !.reviewed = TRUE], "review_save")
    BY <1>7 DEF ReviewProject
  <2>2. [project EXCEPT !.status = v, !.reviewed = TRUE].applicationsCount
          = project.applicationsCount
    BY <1>7 DEF ReviewProject, Exists, TypeInv, TypeOK, Project
  <2> QED BY <1>7, <2>1, <2>2, LoadCounts DEF ReviewProject, Saving
<1>8. ASSUME NEW r \in Requests, ViewProject(r) \/ DeleteProject(r) PROVE CountInv'
  BY <1>8, LoadCounts DEF ViewProject, DeleteProject, Saving
<1>9. ASSUME NEW r \in Requests, StartProject(r) PROVE CountInv'
  <2>1. [project EXCEPT !.status = "in_progress"].applicationsCount
          = project.applicationsCount
    BY <1>9 DEF StartProject, Exists, TypeInv, TypeOK, Project
  <2> QED BY <1>9, <2>1, LoadCounts DEF StartProject, Saving
<1>10. ASSUME NEW r \in Requests, NEW s \in Students, ApplyCheck(r, s) PROVE CountInv'
  <2>1. \A q \in Requests :
          \/ req'[q] = req[q]
          \/ req[q].pc \notin Saving /\ req'[q].pc \notin Saving
    BY <1>10 DEF ApplyCheck, At, TypeInv, TypeOK, Saving, Idle
  <2>2. Room' = Room
    BY <1>10, SameRoom DEF ApplyCheck, Applying, History
  <2> QED BY <1>10, <2>1, <2>2, KeptCounts DEF ApplyCheck, History
<1>11. ASSUME NEW r \in Requests, ApplySave(r) PROVE CountInv'
  <2>1. \A q \in Requests :
          \/ req'[q] = req[q]
          \/ req[q].pc \notin Saving /\ req'[q].pc \notin Saving
    BY <1>11, IdleIsRequest DEF ApplySave, At, Done, TypeInv, TypeOK, Saving
  <2>2. PICK s \in Students : s = req[r].student
    BY <1>11 DEF ApplySave, At, TypeInv, WellFormed
  <2>3. Room' = Room
    <3>1. CASE application[s] = "none"
      <4>1. application' = [application EXCEPT ![s] = "pending"] /\ calls' = calls + 1
        BY <1>11, <2>2, <3>1 DEF ApplySave
      <4> QED BY <1>11, <3>1, <4>1, RoomOfApply DEF ApplySave, History, TypeInv
    <3>2. CASE application[s] # "none"
      BY <1>11, <2>2, <3>2, SameRoom DEF ApplySave, History
    <3> QED BY <3>1, <3>2
  <2> QED BY <1>11, <2>1, <2>3, KeptCounts DEF ApplySave, History
<1>12. ASSUME NEW r \in Requests, Increment(r) PROVE CountInv'
  BY <1>12, IncrementCounts
<1>13. ASSUME NEW r \in Requests, ReviewSave(r) PROVE CountInv'
  BY <1>13, SaveCounts DEF ReviewSave, At, Saving
<1>14. ASSUME NEW r \in Requests, Remove(r) PROVE CountInv'
  <2>1. Room' = Room
    BY <1>14, SameRoom DEF Remove, Applying, History
  <2>2. ~Exists' /\ UNCHANGED <<undisturbed, redelivered>>
    BY <1>14 DEF Remove, Exists, History
  <2>3. \A q \in Requests : req'[q] = req[q] \/ req'[q].pc \notin Saving \ {"remove"}
    BY <1>14, DoneSlots DEF Remove
  <2>4. undisturbed => \A q \in Requests : req'[q].pc \notin Saving
    BY <1>14, IdleIsRequest DEF Remove, At, Done, TypeInv, TypeOK, QuietInv, Saving
  <2> QED BY <2>1, <2>2, <2>3, <2>4 DEF CountInv, AheadInv, ExactInv
<1>15. ASSUME NEW r \in Requests, RestartUnacked(r) PROVE CountInv'
  BY <1>15, UnackedCounts
<1>16. ASSUME NEW r \in Requests,
              \/ UpdateSave(r) \/ UpdateStatusSave(r) \/ ViewSave(r)
              \/ StartSave(r) \/ IncrementSave(r)
       PROVE  CountInv'
  BY <1>16, SaveCounts DEF UpdateSave, UpdateStatusSave, ViewSave, StartSave,
     IncrementSave, Save, At, Saving, History
<1> QED BY <1>1, <1>2, <1>3, <1>4, <1>5, <1>6, <1>7, <1>8, <1>9, <1>10, <1>11, <1>12,
        <1>13, <1>14, <1>15, <1>16 DEF Next

\* The counter of applications never runs ahead of the applications, the acceptances and
\* the events delivered again, and is exact where nothing overlapped or was lost and
\* nothing is on its way, for any number of students, requests and restarts.
THEOREM CounterKeepsToApplications == Spec => []CounterFollows
<1>1. Spec => [](TypeInv /\ QuietInv /\ CountInv)
  BY InitTypes, InitQuiet, InitCounts, NextTypes, NextQuiet, NextCounts, PTL DEF Spec
<1>2. TypeInv /\ CountInv => CountNeverAhead
  <2> SUFFICES ASSUME TypeInv, CountInv, Exists
               PROVE  project.applicationsCount
                        <= Cardinality(Created) + Cardinality(Accepted) + redelivered
    BY DEF CountNeverAhead, Created, Accepted
  <2>1. project.applicationsCount <= Room
    BY DEF CountInv, AheadInv
  <2> QED BY <2>1, RoomType, RowCounts DEF TypeInv, TypeOK
<1>3. TypeInv /\ CountInv => CountExactWhenQuiet
  <2> SUFFICES ASSUME TypeInv, CountInv, Exists, undisturbed, calls = 0, events = 0,
                      \A r \in Requests : req[r].pc \in {"idle", "apply_save"}
               PROVE  project.applicationsCount
                        = Cardinality(Created) + Cardinality(Accepted)
    BY DEF CountExactWhenQuiet, Created, Accepted
  <2>1. project.applicationsCount = Room /\ redelivered = 0
    BY DEF CountInv, ExactInv, At
  <2> QED BY <2>1, RoomType DEF Room, TypeInv, TypeOK
<1> QED BY <1>1, <1>2, <1>3, PTL DEF CounterFollows

=============================================================================

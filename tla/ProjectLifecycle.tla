-------------------------- MODULE ProjectLifecycle --------------------------
(***************************************************************************)
(* project-service: one project from its draft to its end, the review by    *)
(* the Faculty, and the counter of its applications, which                  *)
(* application-service moves by a call when a student applies and again by  *)
(* an event when an application is accepted.                                *)
(*                                                                          *)
(* Every request loads the project and saves the whole row afterwards, so   *)
(* that it overwrites what others saved meanwhile and inserts again a row   *)
(* that was removed; `req` keeps the row each request has loaded.           *)
(*                                                                          *)
(* Titles, dates, hours and the counter of views are left out; skills stand *)
(* for the skills and the academic programs, which are asked for alike.     *)
(* Projects share no rows: one stands for all.                              *)
(***************************************************************************)
EXTENDS Integers, FiniteSets

CONSTANTS
    Students,
    Documents,     \* request documents in storage-service
    NoDocument,
    NoProject,     \* a value that is no row
    Skills,        \* what may be a required skill
    Requests,      \* slots for the requests project-service runs at a time
    MaxRestarts    \* bound on the restarts of project-service

ASSUME ProjectAssumption ==
    /\ NoDocument \notin Documents
    /\ IsFiniteSet(Requests) /\ IsFiniteSet(Students)
    /\ MaxRestarts \in Nat

VARIABLES
    project,       \* the row of projects
    skills,        \* its rows in project_skills
    req,           \* what runs in each slot
    application,   \* the application of each student, in application-service
    calls,         \* increment-applications calls on their way
    events,        \* application.status.changed events to be handled
    approved,      \* history: documents that were approved
    undisturbed,   \* history: no two requests overlapped, no call was lost
    redelivered,   \* history: events handled again
    restarts

vars == <<project, skills, req, application, calls, events, approved,
          undisturbed, redelivered, restarts>>
History == <<approved, undisturbed, redelivered, restarts>>
Applying == <<application, calls, events>>

(***************************************************************************)
(* Rows                                                                    *)
(***************************************************************************)
ProjectStatus == {"draft", "needs_changes", "pending_approval", "published",
                  "in_progress", "completed", "cancelled"}

Project == [status : ProjectStatus,
            document : Documents \cup {NoDocument},   \* requestDocumentFileId
            reviewed : BOOLEAN,                       \* facultyReviewedAt set
            applicationsCount : Nat]

\* Mutant of VALID_TRANSITIONS: a cancelled project may be taken up again.
TransitionsReopen(s) ==
    CASE s \in {"draft", "needs_changes"} -> {"pending_approval", "cancelled"}
      [] s = "pending_approval" -> {"published", "needs_changes", "draft"}
      [] s = "published" -> {"in_progress", "cancelled"}
      [] s = "in_progress" -> {"completed", "cancelled"}
      [] s = "completed" -> {}
      [] s = "cancelled" -> {"draft"}

VALID_TRANSITIONS(s) ==
    CASE s \in {"draft", "needs_changes"} -> {"pending_approval", "cancelled"}
      [] s = "pending_approval" -> {"published", "needs_changes", "draft"}
      [] s = "published" -> {"in_progress", "cancelled"}
      [] s = "in_progress" -> {"completed", "cancelled"}
      [] s \in {"completed", "cancelled"} -> {}

PUBLIC_STATUSES == {"published", "in_progress", "completed"}
EDITABLE_STATUSES == {"draft", "published", "needs_changes"}

Steps == {"idle", "update_save", "status_save", "review_save", "view_save",
          "start_save", "count_save", "remove", "skill_save", "apply_save"}

Request == [pc : Steps, row : Project \cup {NoProject},
            student : Students \cup {"none"},   \* who applies
            skill : Skills \cup {"none"},
            event : BOOLEAN]                    \* the increment is of an event

Idle == [pc |-> "idle", row |-> NoProject, student |-> "none", skill |-> "none",
         event |-> FALSE]

TypeOK ==
    /\ project \in Project \cup {NoProject}
    /\ skills \subseteq Skills
    /\ req \in [Requests -> Request]
    /\ application \in [Students -> {"none", "pending", "accepted"}]
    /\ calls \in Nat /\ events \in Nat
    /\ approved \subseteq Documents
    /\ undisturbed \in BOOLEAN
    /\ redelivered \in Nat
    /\ restarts \in 0..MaxRestarts

\* createProject: a draft of the owner with some skills.
Init ==
    /\ project \in [status : {"draft"}, document : Documents \cup {NoDocument},
                    reviewed : {FALSE}, applicationsCount : {0}]
    /\ skills \in SUBSET Skills
    /\ req = [r \in Requests |-> Idle]
    /\ application = [s \in Students |-> "none"]
    /\ calls = 0 /\ events = 0
    /\ approved = {}
    /\ undisturbed = TRUE
    /\ redelivered = 0 /\ restarts = 0

Exists == project # NoProject
At(r, pc) == req[r].pc = pc
Done(r) == req' = [req EXCEPT ![r] = Idle]
Saving == {"update_save", "status_save", "review_save", "view_save", "start_save",
           "count_save", "remove"}

\* The request loads the row and goes on with new.pc; what will save beside
\* another request that saves is disturbed by it.
Begin(r, new) ==
    /\ At(r, "idle")
    /\ req' = [req EXCEPT ![r] = new]
    /\ undisturbed' =
          (undisturbed /\ ~\E q \in Requests : req[q].pc \in Saving)

Load(r, row, pc) == Begin(r, [Idle EXCEPT !.pc = pc, !.row = row])

\* repository.save of the loaded row, changed by the request.
Save(r, pc) ==
    /\ At(r, pc)
    /\ project' = req[r].row
    /\ Done(r)
    /\ UNCHANGED <<skills, Applying, History>>

(***************************************************************************)
(* updateProject and the skills, by the owner                              *)
(***************************************************************************)
MayReplace(row, document) ==
    /\ row.status \in EDITABLE_STATUSES
    /\ document # row.document => row.status # "published"

\* The skills of the dto are replaced before the row is saved.
UpdateProject(r) ==
    /\ Exists
    /\ \E d \in Documents \cup {project.document} :
         /\ MayReplace(project, d)
         /\ Load(r, [project EXCEPT !.document = d], "update_save")
    /\ skills' \in SUBSET Skills
    /\ UNCHANGED <<project, Applying, approved, redelivered, restarts>>

UpdateSave(r) == Save(r, "update_save")

\* addSkill and deleteSkill ask for the owner, whatever the status.
ChangeSkills ==
    /\ Exists
    /\ \E k \in Skills : skills' = IF k \in skills THEN skills \ {k} ELSE skills \cup {k}
    /\ UNCHANGED <<project, req, Applying, History>>

(***************************************************************************)
(* updateProjectStatus, reviewProject                                      *)
(***************************************************************************)
\* Mutant of OwnerMayMove: the owner may publish.
OwnerMayMoveAnywhere(from, to) == to \in VALID_TRANSITIONS(from)

OwnerMayMove(from, to) ==
    /\ to \notin {"published", "needs_changes"}
    /\ to \in VALID_TRANSITIONS(from)

Complete == skills # {} /\ project.document # NoDocument

UpdateStatus(r) ==
    /\ Exists
    /\ \E to \in ProjectStatus :
         /\ OwnerMayMove(project.status, to)
         /\ to = "pending_approval" => Complete
         /\ Load(r, [project EXCEPT !.status = to], "status_save")
    /\ UNCHANGED <<project, skills, Applying, approved, redelivered, restarts>>

UpdateStatusSave(r) == Save(r, "status_save")

Verdicts == {"published", "needs_changes", "draft"}   \* approve, needs_changes, reject

ReviewProject(r) ==
    /\ Exists /\ project.status = "pending_approval"
    /\ \E verdict \in Verdicts :
         Load(r, [project EXCEPT !.status = verdict, !.reviewed = TRUE], "review_save")
    /\ UNCHANGED <<project, skills, Applying, approved, redelivered, restarts>>

ReviewSave(r) ==
    /\ At(r, "review_save")
    /\ project' = req[r].row
    /\ approved' = IF req[r].row.status = "published"
                   THEN approved \cup {req[r].row.document} ELSE approved
    /\ Done(r)
    /\ UNCHANGED <<skills, Applying, undisturbed, redelivered, restarts>>

(***************************************************************************)
(* getProjectById (a view), startProject, deleteProject                    *)
(***************************************************************************)
\* A view of a public project counts itself and saves the row.
ViewProject(r) ==
    /\ Exists /\ project.status \in PUBLIC_STATUSES
    /\ Load(r, project, "view_save")
    /\ UNCHANGED <<project, skills, Applying, approved, redelivered, restarts>>

ViewSave(r) == Save(r, "view_save")

\* Called when an asesor accepts; another status is left as it is.
StartProject(r) ==
    /\ Exists /\ project.status = "published"
    /\ Load(r, [project EXCEPT !.status = "in_progress"], "start_save")
    /\ UNCHANGED <<project, skills, Applying, approved, redelivered, restarts>>

StartSave(r) == Save(r, "start_save")

DeleteProject(r) ==
    /\ Exists
    /\ Load(r, project, "remove")
    /\ UNCHANGED <<project, skills, Applying, approved, redelivered, restarts>>

Remove(r) ==
    /\ At(r, "remove")
    /\ project' = NoProject
    /\ skills' = {}
    /\ Done(r)
    /\ UNCHANGED <<Applying, History>>

(***************************************************************************)
(* createApplication, the acceptance and incrementApplications             *)
(***************************************************************************)
\* createApplication asks projectExists, then much later inserts the row.
ApplyCheck(r, s) ==
    /\ Exists /\ project.status = "published"
    /\ application[s] = "none"
    /\ At(r, "idle")
    /\ req' = [req EXCEPT ![r] = [Idle EXCEPT !.pc = "apply_save", !.student = s]]
    /\ UNCHANGED <<project, skills, Applying, History>>

\* The pair of project and student is unique: of two inserts one fails.
ApplySave(r) ==
    /\ At(r, "apply_save")
    /\ LET s == req[r].student IN
         IF application[s] = "none"
         THEN /\ application' = [application EXCEPT ![s] = "pending"]
              /\ calls' = calls + 1
         ELSE UNCHANGED <<application, calls>>
    /\ Done(r)
    /\ UNCHANGED <<project, skills, events, History>>

Accept(s) ==
    /\ application[s] = "pending"
    /\ application' = [application EXCEPT ![s] = "accepted"]
    /\ events' = events + 1
    /\ UNCHANGED <<project, skills, req, calls, History>>

\* The call is not awaited and its failure is only logged.
CallLost ==
    /\ calls > 0
    /\ calls' = calls - 1
    /\ undisturbed' = FALSE
    /\ UNCHANGED <<project, skills, req, application, events, approved,
                   redelivered, restarts>>

\* Mutant of Counted: the loaded count is moved by two.
CountedTwice(row) == [row EXCEPT !.applicationsCount = @ + 2]

Counted(row) == [row EXCEPT !.applicationsCount = @ + 1]

\* A removed project is a 404, which both callers swallow.
Increment(r) ==
    /\ \/ calls > 0 /\ calls' = calls - 1 /\ UNCHANGED events
       \/ events > 0 /\ events' = events - 1 /\ UNCHANGED calls
    /\ IF Exists
       THEN Begin(r, [Idle EXCEPT !.pc = "count_save", !.row = Counted(project),
                                  !.event = events' # events])
       ELSE UNCHANGED <<req, undisturbed>>
    /\ UNCHANGED <<project, skills, application, approved, redelivered, restarts>>

IncrementSave(r) == Save(r, "count_save")

\* An event in progress has not been acknowledged: the broker delivers it again.
Restart ==
    /\ restarts < MaxRestarts
    /\ restarts' = restarts + 1
    /\ LET again == Cardinality({r \in Requests : At(r, "count_save") /\ req[r].event})
       IN  /\ events' = events + again
           /\ redelivered' = redelivered + again
    /\ req' = [r \in Requests |-> IF At(r, "apply_save") THEN req[r] ELSE Idle]
    /\ undisturbed' = FALSE
    /\ UNCHANGED <<project, skills, application, calls, approved>>

\* The event was handled and the process restarts before it is acknowledged.
RestartUnacked(r) ==
    /\ restarts < MaxRestarts
    /\ At(r, "count_save") /\ req[r].event
    /\ restarts' = restarts + 1
    /\ project' = req[r].row
    /\ events' = events + 1
    /\ redelivered' = redelivered + 1
    /\ req' = [q \in Requests |-> IF At(q, "apply_save") THEN req[q] ELSE Idle]
    /\ undisturbed' = FALSE
    /\ UNCHANGED <<skills, application, calls, approved>>

Next ==
    \/ ChangeSkills \/ CallLost \/ Restart
    \/ \E s \in Students : Accept(s)
    \/ \E r \in Requests :
         \/ UpdateProject(r) \/ UpdateSave(r) \/ UpdateStatus(r) \/ UpdateStatusSave(r)
         \/ ReviewProject(r) \/ ReviewSave(r) \/ ViewProject(r) \/ ViewSave(r)
         \/ StartProject(r) \/ StartSave(r) \/ DeleteProject(r) \/ Remove(r)
         \/ Increment(r) \/ IncrementSave(r) \/ ApplySave(r) \/ RestartUnacked(r)
         \/ \E s \in Students : ApplyCheck(r, s)

Spec == Init /\ [][Next]_vars

(***************************************************************************)
(* Properties                                                              *)
(***************************************************************************)
\* "La empresa NUNCA puede saltarse la revision institucional"
\* (project.service.ts:291): however requests interleave, a public project was
\* reviewed and the Faculty has approved the very document it shows.
PublicWasReviewed ==
    Exists /\ project.status \in {"published", "in_progress", "completed"}
        => project.reviewed /\ project.document \in approved

\* The counter never runs ahead of what it counts: one per application, one more
\* per acceptance and one per event that was delivered again.
CountNeverAhead ==
    LET created == {s \in Students : application[s] # "none"}
        accepted == {s \in Students : application[s] = "accepted"}
    IN  Exists => project.applicationsCount
                    <= Cardinality(created) + Cardinality(accepted) + redelivered

\* Where nothing overlapped, nothing was lost and nothing is on its way, the counter
\* is the number of applications plus, because of the event, that of acceptances.
CountExactWhenQuiet ==
    LET created == {s \in Students : application[s] # "none"}
        accepted == {s \in Students : application[s] = "accepted"}
    IN  Exists /\ undisturbed /\ calls = 0 /\ events = 0
        /\ (\A r \in Requests : req[r].pc \in {"idle", "apply_save"})
            => project.applicationsCount = Cardinality(created) + Cardinality(accepted)

\* The counter of applications keeps to what it counts, requests overlapping or not.
CounterFollows == CountNeverAhead /\ CountExactWhenQuiet

\* A cancelled or completed project is over: it leaves that status only where requests
\* have overlapped, so that one saves a row it had loaded before the end.
OverUnlessStale ==
    [][Exists /\ project.status \in {"completed", "cancelled"}
       /\ project' # NoProject /\ project'.status # project.status
         => ~undisturbed]_vars
=============================================================================

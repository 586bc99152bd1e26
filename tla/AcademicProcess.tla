--------------------------- MODULE AcademicProcess --------------------------
(***************************************************************************)
(* An application from the day it is sent until its project is over: the   *)
(* desk of admin-service and the lifecycle of application-service, which   *)
(* meet only in the HTTP calls of the desk.                                *)
(***************************************************************************)
EXTENDS SupervisorAssignment, ApplicationLifecycle

vars == <<deskVars, applicationVars, calls>>

Init == AssignmentInit /\ LifecycleInit

Next ==
    \/ AssignmentNext /\ UNCHANGED applicationVars
    \/ Crash /\ UNCHANGED applicationVars
    \/ LifecycleNext /\ UNCHANGED deskVars

\* A request that runs goes on, and a call that waits is served, unless a
\* crash or a loss takes it away: the event loop and the HTTP server promise
\* this much.  Nobody has to send a request.
Fairness ==
    /\ \A r \in Requests : WF_vars(Advance(r) /\ UNCHANGED applicationVars)
    /\ \A k \in CallKinds :
          WF_vars((\E c \in calls : c.kind = k /\ Serve(c)) /\ UNCHANGED deskVars)

Spec == Init /\ [][Next]_vars
FairSpec == Spec /\ Fairness

TypeOK == AssignmentTypeOK /\ LifecycleTypeOK

(***************************************************************************)
(* Properties                                                              *)
(***************************************************************************)
\* An academic record, and every call that may yet create one, is for an
\* asesor who was invited and has answered: acceptAssignment saves the row
\* before it calls, and no request makes an answered row pending again.  It
\* holds with overlapping requests, lost calls and restarts.
RecordBacked ==
    /\ \A a \in Applications : record[a] # None =>
          asesor[a][record[a]] \notin {"none", "pending_acceptance"}
    /\ \A c \in calls : c.kind = "start-progress" =>
          asesor[c.app][c.sup] \notin {"none", "pending_acceptance"}

\* When no call is being served, an application with an academic record has
\* its anteproyecto submission: the two saves of startInProgress, with
\* overlapping calls for the same application.
RecordHasSubmission ==
    \A a \in Applications :
        record[a] # None /\ (\A c \in calls : c.app = a => c.pc = "sent")
        => submission[a]

\* The record keeps the assignment it was created for, whatever asesor comes
\* after and however many calls of startInProgress overlap.
RecordOnce ==
    [][\A a \in Applications : record[a] # None => record'[a] = record[a]]_vars

\* The deliverables of the project are copied once per asesor who accepts: a
\* second asesor gets a second copy, a restart or a lost call none (the call
\* of acceptAssignment, which startInProgress does not recognise as repeated).
CopiesPerAcceptance ==
    \A a \in Applications :
        deliverables[a] <= Cardinality({s \in Supervisors :
                                           asesor[a][s] \in {"accepted", "replaced"}})

\* When calls are not lost, an application whose asesor accepts gets its
\* academic record in the end, even where project-service fails
\* (acceptAssignment and startInProgress).
AcceptanceOpensRecord ==
    \A a \in Applications, s \in Supervisors :
        asesor[a][s] = "accepted" ~> record[a] # None

\* An application an asesor accepts is in progress at some time (the comment
\* of acceptAssignment): true of overlapping requests while no call is lost,
\* and not true when one is, since nobody sends the call again.
AcceptanceStarts ==
    \A a \in Applications, s \in Supervisors :
        <>(asesor[a][s] = "accepted") => <>(status[a] = "in_progress")
=============================================================================

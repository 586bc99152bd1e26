---------------------------- MODULE AcademicCalls ---------------------------
(***************************************************************************)
(* What admin-service and application-service share: the identifiers they  *)
(* exchange and the HTTP calls of the first to the second.                 *)
(*                                                                         *)
(* A call is in the set from the moment it is sent until the handler that  *)
(* serves it ends; pc is the step of that handler.  Its sender waits for   *)
(* it five seconds at most, or not at all, and swallows every error.       *)
(***************************************************************************)
EXTENDS Integers, FiniteSets

CONSTANTS
    Applications,   \* applications, one per (studentId, projectId)
    Supervisors,    \* rows of the table supervisors
    Requests,       \* slots for the requests admin-service runs at a time
    MayCrash,       \* whether a process may restart in mid-request
    None            \* the null of the optional fields

ASSUME CallsAssumption ==
    /\ IsFiniteSet(Applications) /\ IsFiniteSet(Supervisors)
    /\ MayCrash \in BOOLEAN
    /\ None \notin Applications \cup Supervisors

VARIABLE calls

CallKinds == {"pending-supervisor", "revert-accepted", "start-progress"}

CallSteps == {"sent", "save", "deliverables", "record_check", "record_save",
              "submission_save"}

\* The supervisor stands for the assignment of the application to him or her.
Call == [kind : CallKinds, app : Applications, sup : Supervisors,
         from : Requests, pc : CallSteps]

CallsTypeOK == calls \subseteq Call
=============================================================================

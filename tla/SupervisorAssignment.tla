------------------------ MODULE SupervisorAssignment ------------------------
(***************************************************************************)
(* The assignment desk of admin-service: asesor and jurado rows, the       *)
(* counter of students of every supervisor, and the HTTP calls with which  *)
(* the desk moves the application along.                                   *)
(*                                                                         *)
(* A handler runs no database transaction: every await is a point where    *)
(* another request may run and where the process may die.  A handler that  *)
(* has read what it decides on waits in the request slot that runs it and  *)
(* goes on from there, one database statement or one call at a time.       *)
(* Consecutive reads are one step, and the rows of the assignment history  *)
(* and the published events, which no handler reads back, are left out.    *)
(*                                                                         *)
(* An application stands for its (studentId, projectId) pair, unique in    *)
(* application-service; a row of this service is found by pair, role and   *)
(* supervisor, the unique key of the table, so each role keeps its rows in *)
(* a function of the application and the supervisor.                       *)
(***************************************************************************)
EXTENDS AcademicCalls

CONSTANTS
    Inactive,       \* the supervisors with isActive = false
    MaxStudents,    \* maxStudents of every supervisor
    JuradoLists     \* the lists of jurados, as sets, that the DTOs may bring

ASSUME AssignmentAssumption ==
    /\ Inactive \subseteq Supervisors
    /\ MaxStudents \in [Supervisors -> Nat]
    /\ JuradoLists \subseteq SUBSET Supervisors

VARIABLES
    asesor,           \* status of the asesor row of an application and a supervisor
    jurado,           \* the same for the jurado_anteproyecto rows
    juradoFinal,      \* the same for the jurado_final rows
    currentStudents,  \* counter column of the table supervisors
    req               \* what runs in each request slot

deskVars == <<asesor, jurado, juradoFinal, currentStudents, req>>
assignmentVars == <<asesor, jurado, juradoFinal, currentStudents, req, calls>>

(***************************************************************************)
(* Rows, requests and calls                                                *)
(***************************************************************************)
Live == {"pending_acceptance", "accepted"}
AsesorStatus == Live \cup {"none", "declined", "replaced"}
JuradoStatus == {"none", "accepted", "disconnected"}

Steps == {"idle", "assign_insert", "assign_count", "assign_call", "assign_jurados",
          "jurado_insert", "final_check", "final_insert", "accept_save", "accept_call",
          "decline_save", "decline_count", "decline_call", "replace_save",
          "replace_uncount", "replace_insert", "replace_count", "profile_save"}

Request == [pc : Steps,
            app : Applications \cup {None},
            sup : Supervisors \cup {None},     \* the supervisor of the row at hand
            new : Supervisors \cup {None},     \* replacement, or next jurado to insert
            jurados : SUBSET Supervisors,      \* jurados of the DTO still to handle
            seen : Int]                        \* currentStudents as it was read

Idle == [pc |-> "idle", app |-> None, sup |-> None, new |-> None,
         jurados |-> {}, seen |-> 0]

AssignmentTypeOK ==
    /\ asesor \in [Applications -> [Supervisors -> AsesorStatus]]
    /\ jurado \in [Applications -> [Supervisors -> JuradoStatus]]
    /\ juradoFinal \in [Applications -> [Supervisors -> JuradoStatus]]
    /\ currentStudents \in [Supervisors -> Int]
    /\ req \in [Requests -> Request]
    /\ CallsTypeOK

AssignmentInit ==
    /\ asesor = [a \in Applications |-> [s \in Supervisors |-> "none"]]
    /\ jurado = [a \in Applications |-> [s \in Supervisors |-> "none"]]
    /\ juradoFinal = [a \in Applications |-> [s \in Supervisors |-> "none"]]
    /\ currentStudents = [s \in Supervisors |-> 0]
    /\ req = [r \in Requests |-> Idle]
    /\ calls = {}

(***************************************************************************)
(* Helpers of the steps of a request                                       *)
(***************************************************************************)
At(r, pc) == req[r].pc = pc
Begin(r, new) == At(r, "idle") /\ req' = [req EXCEPT ![r] = new]
Goto(r, pc) == req' = [req EXCEPT ![r].pc = pc]
Done(r) == req' = [req EXCEPT ![r] = Idle]

SetAsesor(a, s, status) == asesor' = [asesor EXCEPT ![a][s] = status]
Count(s, d) == currentStudents' = [currentStudents EXCEPT ![s] = @ + d]
Send(r, kind) ==
    calls' = calls \cup {[kind |-> kind, app |-> req[r].app, sup |-> req[r].sup,
                          from |-> r, pc |-> "sent"]}

(***************************************************************************)
(* assignSupervisor: an asesor, then the jurados of the anteproyecto       *)
(***************************************************************************)
HasRoom(s) == s \notin Inactive /\ currentStudents[s] < MaxStudents[s]

\* Mutant of Assignable: only a row of the same supervisor refuses.
AssignableSameSupervisor(a, s) == HasRoom(s) /\ asesor[a][s] = "none"

\* Any row in the role refuses the assignment, whatever its status.
Assignable(a, s) == HasRoom(s) /\ \A t \in Supervisors : asesor[a][t] = "none"

AssignCheck(r, a, s, J) ==
    /\ Assignable(a, s)
    /\ Begin(r, [Idle EXCEPT !.pc = "assign_insert", !.app = a, !.sup = s, !.jurados = J])
    /\ UNCHANGED <<asesor, jurado, juradoFinal, currentStudents, calls>>

\* The unique key answers the insertion of a row that exists with an error.
AssignInsert(r) ==
    /\ At(r, "assign_insert")
    /\ LET a == req[r].app  s == req[r].sup IN
       IF asesor[a][s] = "none"
       THEN SetAsesor(a, s, "pending_acceptance") /\ Goto(r, "assign_count")
       ELSE Done(r) /\ UNCHANGED asesor
    /\ UNCHANGED <<jurado, juradoFinal, currentStudents, calls>>

AssignCount(r) ==
    /\ At(r, "assign_count")
    /\ Count(req[r].sup, 1)
    /\ Goto(r, "assign_call")
    /\ UNCHANGED <<asesor, jurado, juradoFinal, calls>>

\* Awaited, but a failure or a timeout is only logged: the handler goes on.
AssignCall(r) ==
    /\ At(r, "assign_call")
    /\ Send(r, "pending-supervisor")
    /\ Goto(r, "assign_jurados")
    /\ UNCHANGED <<asesor, jurado, juradoFinal, currentStudents>>

\* One round of the loop over juradoIds: a jurado who is the asesor or is
\* inactive ends the request with an error, after the rows already saved, and
\* one who has a row is skipped.
AssignJurado(r, j) ==
    /\ At(r, "assign_jurados")
    /\ j \in req[r].jurados
    /\ LET rest == req[r].jurados \ {j} IN
       CASE j = req[r].sup \/ j \in Inactive -> Done(r)
         [] j \notin Inactive \cup {req[r].sup} /\ jurado[req[r].app][j] # "none" ->
              req' = [req EXCEPT ![r].jurados = rest]
         [] OTHER -> req' = [req EXCEPT ![r].pc = "jurado_insert", ![r].new = j,
                                        ![r].jurados = rest]
    /\ UNCHANGED <<asesor, jurado, juradoFinal, currentStudents, calls>>

JuradoInsert(r) ==
    /\ At(r, "jurado_insert")
    /\ LET a == req[r].app  j == req[r].new IN
       IF jurado[a][j] = "none"
       THEN jurado' = [jurado EXCEPT ![a][j] = "accepted"] /\ Goto(r, "assign_jurados")
       ELSE Done(r) /\ UNCHANGED jurado
    /\ UNCHANGED <<asesor, juradoFinal, currentStudents, calls>>

AssignDone(r) ==
    /\ At(r, "assign_jurados")
    /\ req[r].jurados = {}
    /\ Done(r)
    /\ UNCHANGED <<asesor, jurado, juradoFinal, currentStudents, calls>>

(***************************************************************************)
(* assignJurado: the jurados of the defence                                *)
(***************************************************************************)
FinalBegin(r, a, J) ==
    /\ J # {}
    /\ Begin(r, [Idle EXCEPT !.pc = "final_check", !.app = a, !.jurados = J])
    /\ UNCHANGED <<asesor, jurado, juradoFinal, currentStudents, calls>>

\* Mutant of FinalCheck: looks for the row of the jurado, as assignSupervisor does.
FinalCheckSameJurado(r, j) ==
    /\ At(r, "final_check")
    /\ j \in req[r].jurados
    /\ req' = [req EXCEPT ![r].pc = "final_insert", ![r].new = j,
                          ![r].jurados = req[r].jurados \ {j}]
    /\ UNCHANGED <<asesor, jurado, juradoFinal, currentStudents, calls>>

\* A jurado of the list is looked up; an inactive one ends the request, and
\* one is skipped when the application has a row in the role.
FinalCheck(r, j) ==
    /\ At(r, "final_check")
    /\ j \in req[r].jurados
    /\ LET rest == req[r].jurados \ {j}
           taken == \E t \in Supervisors : juradoFinal[req[r].app][t] # "none" IN
       CASE j \in Inactive -> Done(r)
         [] j \notin Inactive /\ taken /\ rest = {} -> Done(r)
         [] j \notin Inactive /\ taken /\ rest # {} ->
              req' = [req EXCEPT ![r].jurados = rest]
         [] OTHER -> req' = [req EXCEPT ![r].pc = "final_insert", ![r].new = j,
                                        ![r].jurados = rest]
    /\ UNCHANGED <<asesor, jurado, juradoFinal, currentStudents, calls>>

FinalInsert(r) ==
    /\ At(r, "final_insert")
    /\ LET a == req[r].app  j == req[r].new IN
       IF juradoFinal[a][j] = "none"
       THEN /\ juradoFinal' = [juradoFinal EXCEPT ![a][j] = "accepted"]
            /\ IF req[r].jurados = {} THEN Done(r) ELSE Goto(r, "final_check")
       ELSE Done(r) /\ UNCHANGED juradoFinal
    /\ UNCHANGED <<asesor, jurado, currentStudents, calls>>

(***************************************************************************)
(* acceptAssignment and declineAssignment: the answer of the asesor        *)
(***************************************************************************)
\* Mutant of AnswerCheck: an accepted asesor may still answer.
AnswerCheckAnyLive(r, a, s, pc) ==
    /\ asesor[a][s] \in Live
    /\ Begin(r, [Idle EXCEPT !.pc = pc, !.app = a, !.sup = s])
    /\ UNCHANGED <<asesor, jurado, juradoFinal, currentStudents, calls>>

AnswerCheck(r, a, s, pc) ==
    /\ asesor[a][s] = "pending_acceptance"
    /\ Begin(r, [Idle EXCEPT !.pc = pc, !.app = a, !.sup = s])
    /\ UNCHANGED <<asesor, jurado, juradoFinal, currentStudents, calls>>

\* Mutant of AcceptCheck: the call leaves before the row is saved.
AcceptCheckCallFirst(r, a, s) == AnswerCheck(r, a, s, "accept_call")

AcceptCheck(r, a, s) == AnswerCheck(r, a, s, "accept_save")
DeclineCheck(r, a, s) == AnswerCheck(r, a, s, "decline_save")

AcceptSave(r) ==
    /\ At(r, "accept_save")
    /\ SetAsesor(req[r].app, req[r].sup, "accepted")
    /\ Goto(r, "accept_call")
    /\ UNCHANGED <<jurado, juradoFinal, currentStudents, calls>>

\* Mutant of AcceptCall: the call is made again although it was served.
AcceptCallRetry(r) ==
    /\ At(r, "accept_call")
    /\ Send(r, "start-progress")
    /\ req' \in {req, [req EXCEPT ![r] = Idle]}
    /\ UNCHANGED <<asesor, jurado, juradoFinal, currentStudents>>

\* Fire and forget: the request ends without knowing what became of the call.
AcceptCall(r) ==
    /\ At(r, "accept_call")
    /\ Send(r, "start-progress")
    /\ Done(r)
    /\ UNCHANGED <<asesor, jurado, juradoFinal, currentStudents>>

DeclineSave(r) ==
    /\ At(r, "decline_save")
    /\ SetAsesor(req[r].app, req[r].sup, "declined")
    /\ Goto(r, "decline_count")
    /\ UNCHANGED <<jurado, juradoFinal, currentStudents, calls>>

\* Mutant of DeclineCount: the counter is forgotten.
DeclineCountForgotten(r) ==
    /\ At(r, "decline_count")
    /\ Goto(r, "decline_call")
    /\ UNCHANGED <<asesor, jurado, juradoFinal, currentStudents, calls>>

DeclineCount(r) ==
    /\ At(r, "decline_count")
    /\ Count(req[r].sup, -1)
    /\ Goto(r, "decline_call")
    /\ UNCHANGED <<asesor, jurado, juradoFinal, calls>>

DeclineCall(r) ==
    /\ At(r, "decline_call")
    /\ Send(r, "revert-accepted")
    /\ Done(r)
    /\ UNCHANGED <<asesor, jurado, juradoFinal, currentStudents>>

(***************************************************************************)
(* replaceAssignment: another asesor in the place of the present one       *)
(***************************************************************************)
ReplaceCheck(r, a, s, t) ==
    /\ asesor[a][s] \in Live
    /\ t \notin Inactive
    /\ Begin(r, [Idle EXCEPT !.pc = "replace_save", !.app = a, !.sup = s, !.new = t])
    /\ UNCHANGED <<asesor, jurado, juradoFinal, currentStudents, calls>>

ReplaceSave(r) ==
    /\ At(r, "replace_save")
    /\ SetAsesor(req[r].app, req[r].sup, "replaced")
    /\ Goto(r, "replace_uncount")
    /\ UNCHANGED <<jurado, juradoFinal, currentStudents, calls>>

ReplaceUncount(r) ==
    /\ At(r, "replace_uncount")
    /\ Count(req[r].sup, -1)
    /\ Goto(r, "replace_insert")
    /\ UNCHANGED <<asesor, jurado, juradoFinal, calls>>

\* Mutant of ReplaceInsert: the row of a former asesor is used again.
ReplaceInsertOver(r) ==
    /\ At(r, "replace_insert")
    /\ SetAsesor(req[r].app, req[r].new, "pending_acceptance")
    /\ Goto(r, "replace_count")
    /\ UNCHANGED <<jurado, juradoFinal, currentStudents, calls>>

\* A supervisor who had a row for the application breaks the unique key, and
\* the old row stays replaced.
ReplaceInsert(r) ==
    /\ At(r, "replace_insert")
    /\ LET a == req[r].app  t == req[r].new IN
       IF asesor[a][t] = "none"
       THEN SetAsesor(a, t, "pending_acceptance") /\ Goto(r, "replace_count")
       ELSE Done(r) /\ UNCHANGED asesor
    /\ UNCHANGED <<jurado, juradoFinal, currentStudents, calls>>

ReplaceCount(r) ==
    /\ At(r, "replace_count")
    /\ Count(req[r].new, 1)
    /\ Done(r)
    /\ UNCHANGED <<asesor, jurado, juradoFinal, calls>>

(***************************************************************************)
(* The rest of the desk                                                    *)
(***************************************************************************)
\* disconnectAssignment: by the admin, for a jurado row in any status.
Disconnect(a, s) ==
    /\ \/ /\ jurado[a][s] # "none"
          /\ jurado' = [jurado EXCEPT ![a][s] = "disconnected"]
          /\ UNCHANGED juradoFinal
       \/ /\ juradoFinal[a][s] # "none"
          /\ juradoFinal' = [juradoFinal EXCEPT ![a][s] = "disconnected"]
          /\ UNCHANGED jurado
    /\ UNCHANGED <<asesor, currentStudents, req, calls>>

\* autoDisconnectJuradosAnteproyecto, on academic.anteproyecto.approved: one round
\* of its loop.  The event may come at any time, so nothing keeps rounds together,
\* and a row that was disconnected since the list was read is only saved again.
AutoDisconnect(a, s) ==
    /\ jurado[a][s] = "accepted"
    /\ jurado' = [jurado EXCEPT ![a][s] = "disconnected"]
    /\ UNCHANGED <<asesor, juradoFinal, currentStudents, req, calls>>

\* updateMyProfile: the supervisor is read and saved as a whole row, so the
\* save writes the counter back as it was read.
ProfileRead(r, s) ==
    /\ Begin(r, [Idle EXCEPT !.pc = "profile_save", !.sup = s, !.seen = currentStudents[s]])
    /\ UNCHANGED <<asesor, jurado, juradoFinal, currentStudents, calls>>

ProfileSave(r) ==
    /\ At(r, "profile_save")
    /\ currentStudents' = [currentStudents EXCEPT ![req[r].sup] = req[r].seen]
    /\ Done(r)
    /\ UNCHANGED <<asesor, jurado, juradoFinal, calls>>

\* The process restarts: what ran in it is gone, what it wrote or sent is not.
Crash ==
    /\ MayCrash
    /\ req' = [r \in Requests |-> Idle]
    /\ UNCHANGED <<asesor, jurado, juradoFinal, currentStudents, calls>>

(***************************************************************************)
(* The desk                                                                *)
(***************************************************************************)
\* A request arrives and is not refused.
Arrive(r) ==
    \/ \E a \in Applications, s \in Supervisors, J \in JuradoLists :
          AssignCheck(r, a, s, J)
    \/ \E a \in Applications, J \in JuradoLists : FinalBegin(r, a, J)
    \/ \E a \in Applications, s \in Supervisors : AcceptCheck(r, a, s)
    \/ \E a \in Applications, s \in Supervisors : DeclineCheck(r, a, s)
    \/ \E a \in Applications, s, t \in Supervisors : ReplaceCheck(r, a, s, t)
    \/ \E s \in Supervisors : ProfileRead(r, s)

\* A request that has arrived takes its next step.
Advance(r) ==
    \/ AssignInsert(r) \/ AssignCount(r) \/ AssignCall(r) \/ AssignDone(r)
    \/ \E j \in Supervisors : AssignJurado(r, j)
    \/ JuradoInsert(r)
    \/ \E j \in Supervisors : FinalCheck(r, j)
    \/ FinalInsert(r)
    \/ AcceptSave(r) \/ AcceptCall(r)
    \/ DeclineSave(r) \/ DeclineCount(r) \/ DeclineCall(r)
    \/ ReplaceSave(r) \/ ReplaceUncount(r) \/ ReplaceInsert(r) \/ ReplaceCount(r)
    \/ ProfileSave(r)

AssignmentNext ==
    \/ \E r \in Requests : Arrive(r) \/ Advance(r)
    \/ \E a \in Applications, s \in Supervisors : Disconnect(a, s) \/ AutoDisconnect(a, s)

DeskNext == AssignmentNext \/ Crash

AssignmentSpec == AssignmentInit /\ [][DeskNext]_assignmentVars

\* The desk while the process does not restart.
CalmSpec == AssignmentInit /\ [][AssignmentNext]_assignmentVars

(***************************************************************************)
(* Properties                                                              *)
(***************************************************************************)
LiveRows(s) == {a \in Applications : asesor[a][s] \in Live}
Quiet == \A r \in Requests : At(r, "idle")

\* No two asesors of an application are live at a time: what assignSupervisor
\* looks for and replaceAssignment swaps, when requests do not overlap.
SingleLiveAsesor ==
    \A a \in Applications : \A s, t \in Supervisors :
        asesor[a][s] \in Live /\ asesor[a][t] \in Live => s = t

\* Between requests currentStudents counts the live rows of the supervisor, while
\* the process does not restart: the increments and decrements of assign, decline
\* and replace balance, on the paths that end with the unique key broken too.
CounterMatchesRows ==
    Quiet => \A s \in Supervisors : currentStudents[s] = Cardinality(LiveRows(s))

\* An application has one jurado_final at most (assignJurado).
SingleJuradoFinal ==
    \A a \in Applications : \A s, t \in Supervisors :
        juradoFinal[a][s] # "none" /\ juradoFinal[a][t] # "none" => s = t

\* An answer is given once: a declined or replaced row never changes again and
\* an accepted one only by a replacement (acceptAssignment, declineAssignment,
\* replaceAssignment).
AnsweredRowsFinal ==
    [][\A a \in Applications, s \in Supervisors :
          /\ asesor[a][s] \in {"declined", "replaced"} => asesor'[a][s] = asesor[a][s]
          /\ asesor[a][s] = "accepted" => asesor'[a][s] \in {"accepted", "replaced"}]_asesor

\* The desk keeps the promise of AdvisorSeat while requests do not overlap: the
\* rows of an application are one seat, which is empty between the two saves of
\* a replacement and stays empty after a refusal, or when the replacement breaks
\* the unique key (assignSupervisor, the answers, replaceAssignment).
SeatHolder(a) ==
    IF \E s \in Supervisors : asesor[a][s] \in Live
    THEN CHOOSE s \in Supervisors : asesor[a][s] \in Live ELSE None

SeatConfirmed(a) == \E s \in Supervisors : asesor[a][s] = "accepted"
SeatFormer(a) == {s \in Supervisors : asesor[a][s] \in {"declined", "replaced"}}
SeatRefused(a) == \E s \in Supervisors : asesor[a][s] = "declined"

Seat == INSTANCE AdvisorSeat WITH
    holder <- [a \in Applications |-> SeatHolder(a)],
    confirmed <- [a \in Applications |-> SeatConfirmed(a)],
    former <- [a \in Applications |-> SeatFormer(a)],
    refused <- [a \in Applications |-> SeatRefused(a)]

ImplementsSeat == Seat!Spec
=============================================================================

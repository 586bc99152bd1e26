----------------------- MODULE AcademicProcessProofs -----------------------
(***************************************************************************)
(* Theorems about the assignment desk, and about the desk and the          *)
(* lifecycle together, for every number of applications, supervisors,      *)
(* requests and users, with overlapping requests, lost calls and restarts. *)
(***************************************************************************)
EXTENDS AcademicProcess, FiniteSetTheorems, TLAPS

(***************************************************************************)
(* The desk: type correctness                                              *)
(***************************************************************************)
\* What the handler has put in its slot when it gets to a step.
NeedsApp == Steps \ {"idle", "profile_save"}
NeedsSup == Steps \ {"idle", "final_check", "final_insert"}
NeedsNew == {"jurado_insert", "final_insert", "replace_save", "replace_uncount", "replace_insert",
             "replace_count"}

WellFormed == {q \in Request : /\ q.pc \in NeedsApp => q.app \in Applications
                               /\ q.pc \in NeedsSup => q.sup \in Supervisors
                               /\ q.pc \in NeedsNew => q.new \in Supervisors}

TypeInv == AssignmentTypeOK /\ req \in [Requests -> WellFormed]

LEMMA IdleWellFormed == Idle \in WellFormed
BY DEF Idle, WellFormed, Request, Steps, NeedsApp, NeedsSup, NeedsNew

LEMMA SlotType ==
    ASSUME TypeInv, NEW r \in Requests, NEW q \in WellFormed,
           req' = [req EXCEPT ![r] = q]
    PROVE  /\ req' \in [Requests -> WellFormed]
           /\ req' \in [Requests -> Request]
BY DEF TypeInv, WellFormed

LEMMA BeginType ==
    ASSUME TypeInv, NEW r \in Requests, NEW q \in WellFormed, Begin(r, q)
    PROVE  /\ req' \in [Requests -> WellFormed]
           /\ req' \in [Requests -> Request]
BY SlotType DEF Begin

LEMMA DoneType ==
    ASSUME TypeInv, NEW r \in Requests, Done(r)
    PROVE  /\ req' \in [Requests -> WellFormed]
           /\ req' \in [Requests -> Request]
BY SlotType, IdleWellFormed DEF Done

LEMMA GotoType ==
    ASSUME TypeInv, NEW r \in Requests, NEW pc \in Steps, Goto(r, pc),
           pc \in NeedsApp => req[r].pc \in NeedsApp,
           pc \in NeedsSup => req[r].pc \in NeedsSup,
           pc \in NeedsNew => req[r].pc \in NeedsNew
    PROVE  /\ req' \in [Requests -> WellFormed]
           /\ req' \in [Requests -> Request]
<1>1. [req[r] EXCEPT !.pc = pc] \in WellFormed
  BY DEF TypeInv, WellFormed, Request
<1>2. QED
  BY <1>1, SlotType DEF Goto

LEMMA SetJuradoType ==
    ASSUME NEW rows \in [Applications -> [Supervisors -> JuradoStatus]], NEW new,
           NEW a \in Applications, NEW s \in Supervisors, NEW v \in {"accepted", "disconnected"},
           new = [rows EXCEPT ![a][s] = v]
    PROVE  new \in [Applications -> [Supervisors -> JuradoStatus]]
BY DEF JuradoStatus

LEMMA SetAsesorType ==
    ASSUME TypeInv, NEW a \in Applications, NEW s \in Supervisors,
           NEW st \in AsesorStatus, SetAsesor(a, s, st)
    PROVE  asesor' \in [Applications -> [Supervisors -> AsesorStatus]]
BY DEF TypeInv, AssignmentTypeOK, SetAsesor

LEMMA CountType ==
    ASSUME TypeInv, NEW s \in Supervisors, NEW d \in Int, Count(s, d)
    PROVE  currentStudents' \in [Supervisors -> Int]
BY DEF TypeInv, AssignmentTypeOK, Count

LEMMA SendType ==
    ASSUME TypeInv, NEW r \in Requests, NEW kind \in CallKinds, Send(r, kind),
           req[r].pc \in NeedsApp \cap NeedsSup
    PROVE  CallsTypeOK'
BY DEF TypeInv, AssignmentTypeOK, WellFormed, CallsTypeOK, Send, Call, CallSteps

LEMMA AssignTypes ==
    ASSUME TypeInv, NEW r \in Requests,
           \/ \E a \in Applications, s \in Supervisors, J \in JuradoLists :
                 AssignCheck(r, a, s, J)
           \/ AssignInsert(r) \/ AssignCount(r) \/ AssignCall(r) \/ AssignDone(r)
           \/ JuradoInsert(r) \/ \E j \in Supervisors : AssignJurado(r, j)
    PROVE  TypeInv'
<1> USE AssignmentAssumption
    DEF TypeInv, AssignmentTypeOK, At, NeedsApp, NeedsSup, NeedsNew, Steps
<1>1. ASSUME NEW a \in Applications, NEW s \in Supervisors, NEW J \in JuradoLists,
             AssignCheck(r, a, s, J)
      PROVE  TypeInv'
  <2> DEFINE q == [Idle EXCEPT !.pc = "assign_insert", !.app = a, !.sup = s, !.jurados = J]
  <2>1. q \in WellFormed
    <3>1. J \in SUBSET Supervisors
      OBVIOUS
    <3>2. QED
      BY <3>1, IdleWellFormed DEF WellFormed, Request
  <2>2. Begin(r, q)
    BY <1>1 DEF AssignCheck
  <2> HIDE DEF q
  <2>3. /\ req' \in [Requests -> WellFormed]
        /\ req' \in [Requests -> Request]
    BY <2>1, <2>2, BeginType
  <2>4. QED
    BY <1>1, <2>3 DEF AssignCheck, CallsTypeOK
<1>2. CASE AssignInsert(r)
  BY <1>2, SetAsesorType, GotoType, DoneType DEF AssignInsert, CallsTypeOK, WellFormed, AsesorStatus, Live
<1>3. CASE AssignCount(r)
  BY <1>3, CountType, GotoType DEF AssignCount, CallsTypeOK, WellFormed
<1>4. CASE AssignCall(r)
  BY <1>4, SendType, GotoType DEF AssignCall, CallKinds
<1>5. CASE AssignDone(r)
  BY <1>5, DoneType DEF AssignDone, CallsTypeOK
<1>6. ASSUME NEW j \in Supervisors, AssignJurado(r, j)
      PROVE  TypeInv'
  <2> DEFINE rest == req[r].jurados \ {j}
             skip == [req[r] EXCEPT !.jurados = rest]
             take == [req[r] EXCEPT !.pc = "jurado_insert", !.new = j, !.jurados = rest]
  <2>1. /\ req[r] \in Request /\ req[r].pc = "assign_jurados"
        /\ req[r].app \in Applications /\ req[r].sup \in Supervisors
    BY <1>6 DEF AssignJurado, WellFormed
  <2>2. rest \in SUBSET Supervisors
    BY <2>1 DEF Request
  <2>3. /\ skip \in Request /\ skip.pc = "assign_jurados"
        /\ skip.app = req[r].app /\ skip.sup = req[r].sup
    BY <2>1, <2>2 DEF Request
  <2>4. skip \in WellFormed
    BY <2>1, <2>3 DEF WellFormed
  <2>5. /\ take \in Request /\ take.pc = "jurado_insert"
        /\ take.app = req[r].app /\ take.sup = req[r].sup /\ take.new = j
    BY <2>1, <2>2 DEF Request
  <2>6. take \in WellFormed
    BY <2>1, <2>5 DEF WellFormed
  <2>7. \/ Done(r)
        \/ req' = [req EXCEPT ![r] = skip]
        \/ req' = [req EXCEPT ![r] = take]
    BY <1>6 DEF AssignJurado
  <2> HIDE DEF skip, take
  <2>8. /\ req' \in [Requests -> WellFormed]
        /\ req' \in [Requests -> Request]
    BY <2>4, <2>6, <2>7, DoneType, SlotType
  <2>9. QED
    BY <1>6, <2>8 DEF AssignJurado, CallsTypeOK
<1>7. CASE JuradoInsert(r)
  <2>1. /\ req' \in [Requests -> WellFormed]
        /\ req' \in [Requests -> Request]
    BY <1>7, DoneType, GotoType DEF JuradoInsert
  <2>2. jurado' \in [Applications -> [Supervisors -> JuradoStatus]]
    <3>1. req[r].app \in Applications /\ req[r].new \in Supervisors
      BY <1>7 DEF JuradoInsert, WellFormed
    <3>2. \/ jurado' = [jurado EXCEPT ![req[r].app][req[r].new] = "accepted"]
          \/ UNCHANGED jurado
      BY <1>7 DEF JuradoInsert
    <3>3. QED
      BY <3>1, <3>2, SetJuradoType
  <2>3. QED
    BY <1>7, <2>1, <2>2 DEF JuradoInsert, CallsTypeOK
<1>8. QED
  BY <1>1, <1>2, <1>3, <1>4, <1>5, <1>6, <1>7

LEMMA FinalTypes ==
    ASSUME TypeInv, NEW r \in Requests,
           \/ \E a \in Applications, J \in JuradoLists : FinalBegin(r, a, J)
           \/ \E j \in Supervisors : FinalCheck(r, j)
           \/ FinalInsert(r)
    PROVE  TypeInv'
<1> USE AssignmentAssumption
    DEF TypeInv, AssignmentTypeOK, At, NeedsApp, NeedsSup, NeedsNew, Steps
<1>1. ASSUME NEW a \in Applications, NEW J \in JuradoLists, FinalBegin(r, a, J)
      PROVE  TypeInv'
  <2> DEFINE q == [Idle EXCEPT !.pc = "final_check", !.app = a, !.jurados = J]
  <2>1. q \in WellFormed
    <3>1. J \in SUBSET Supervisors
      OBVIOUS
    <3>2. QED
      BY <3>1, IdleWellFormed DEF WellFormed, Request
  <2>2. Begin(r, q)
    BY <1>1 DEF FinalBegin
  <2> HIDE DEF q
  <2>3. /\ req' \in [Requests -> WellFormed]
        /\ req' \in [Requests -> Request]
    BY <2>1, <2>2, BeginType
  <2>4. QED
    BY <1>1, <2>3 DEF FinalBegin, CallsTypeOK
<1>2. ASSUME NEW j \in Supervisors, FinalCheck(r, j)
      PROVE  TypeInv'
  <2> DEFINE rest == req[r].jurados \ {j}
             skip == [req[r] EXCEPT !.jurados = rest]
             take == [req[r] EXCEPT !.pc = "final_insert", !.new = j, !.jurados = rest]
  <2>1. req[r] \in Request /\ req[r].pc = "final_check" /\ req[r].app \in Applications
    BY <1>2 DEF FinalCheck, WellFormed
  <2>2. rest \in SUBSET Supervisors
    BY <2>1 DEF Request
  <2>3. skip \in Request /\ skip.pc = "final_check" /\ skip.app = req[r].app
    BY <2>1, <2>2 DEF Request
  <2>4. skip \in WellFormed
    BY <2>1, <2>3 DEF WellFormed
  <2>5. /\ take \in Request
        /\ take.pc = "final_insert" /\ take.app = req[r].app /\ take.new = j
    BY <2>1, <2>2 DEF Request
  <2>6. take \in WellFormed
    BY <2>1, <2>5 DEF WellFormed
  <2>7. \/ Done(r)
        \/ req' = [req EXCEPT ![r] = skip]
        \/ req' = [req EXCEPT ![r] = take]
    BY <1>2 DEF FinalCheck
  <2> HIDE DEF skip, take
  <2>8. /\ req' \in [Requests -> WellFormed]
        /\ req' \in [Requests -> Request]
    BY <2>4, <2>6, <2>7, DoneType, SlotType
  <2>9. QED
    BY <1>2, <2>8 DEF FinalCheck, CallsTypeOK
<1>3. CASE FinalInsert(r)
  <2>1. /\ req' \in [Requests -> WellFormed]
        /\ req' \in [Requests -> Request]
    BY <1>3, DoneType, GotoType DEF FinalInsert
  <2>2. juradoFinal' \in [Applications -> [Supervisors -> JuradoStatus]]
    <3>1. req[r].app \in Applications /\ req[r].new \in Supervisors
      BY <1>3 DEF FinalInsert, WellFormed
    <3>2. \/ juradoFinal' = [juradoFinal EXCEPT ![req[r].app][req[r].new] = "accepted"]
          \/ UNCHANGED juradoFinal
      BY <1>3 DEF FinalInsert
    <3>3. QED
      BY <3>1, <3>2, SetJuradoType
  <2>3. QED
    BY <1>3, <2>1, <2>2 DEF FinalInsert, CallsTypeOK
<1>4. QED
  BY <1>1, <1>2, <1>3

LEMMA AnswerTypes ==
    ASSUME TypeInv, NEW r \in Requests,
           \/ \E a \in Applications, s \in Supervisors :
                 AcceptCheck(r, a, s) \/ DeclineCheck(r, a, s)
           \/ AcceptSave(r) \/ AcceptCall(r)
           \/ DeclineSave(r) \/ DeclineCount(r) \/ DeclineCall(r)
    PROVE  TypeInv'
<1> USE AssignmentAssumption
    DEF TypeInv, AssignmentTypeOK, At, NeedsApp, NeedsSup, NeedsNew, Steps
<1>1. ASSUME NEW a \in Applications, NEW s \in Supervisors,
             NEW pc \in {"accept_save", "decline_save"}, AnswerCheck(r, a, s, pc)
      PROVE  TypeInv'
  <2> DEFINE q == [Idle EXCEPT !.pc = pc, !.app = a, !.sup = s]
  <2>1. q \in WellFormed
    BY IdleWellFormed DEF WellFormed, Request
  <2>2. Begin(r, q)
    BY <1>1 DEF AnswerCheck
  <2> HIDE DEF q
  <2>3. /\ req' \in [Requests -> WellFormed]
        /\ req' \in [Requests -> Request]
    BY <2>1, <2>2, BeginType
  <2>4. QED
    BY <1>1, <2>3 DEF AnswerCheck, CallsTypeOK
<1>2. CASE AcceptSave(r)
  BY <1>2, SetAsesorType, GotoType
  DEF AcceptSave, CallsTypeOK, WellFormed, AsesorStatus, Live
<1>3. CASE AcceptCall(r)
  BY <1>3, SendType, DoneType DEF AcceptCall, CallKinds
<1>4. CASE DeclineSave(r)
  BY <1>4, SetAsesorType, GotoType
  DEF DeclineSave, CallsTypeOK, WellFormed, AsesorStatus
<1>5. CASE DeclineCount(r)
  BY <1>5, CountType, GotoType DEF DeclineCount, CallsTypeOK, WellFormed
<1>6. CASE DeclineCall(r)
  BY <1>6, SendType, DoneType DEF DeclineCall, CallKinds
<1>7. QED
  BY <1>1, <1>2, <1>3, <1>4, <1>5, <1>6 DEF AcceptCheck, DeclineCheck

LEMMA ReplaceTypes ==
    ASSUME TypeInv, NEW r \in Requests,
           \/ \E a \in Applications, s, t \in Supervisors : ReplaceCheck(r, a, s, t)
           \/ ReplaceSave(r) \/ ReplaceUncount(r) \/ ReplaceInsert(r) \/ ReplaceCount(r)
    PROVE  TypeInv'
<1> USE AssignmentAssumption
    DEF TypeInv, AssignmentTypeOK, At, NeedsApp, NeedsSup, NeedsNew, Steps
<1>1. ASSUME NEW a \in Applications, NEW s \in Supervisors, NEW t \in Supervisors,
             ReplaceCheck(r, a, s, t)
      PROVE  TypeInv'
  <2> DEFINE q == [Idle EXCEPT !.pc = "replace_save", !.app = a, !.sup = s, !.new = t]
  <2>1. q \in WellFormed
    BY IdleWellFormed DEF WellFormed, Request
  <2>2. Begin(r, q)
    BY <1>1 DEF ReplaceCheck
  <2> HIDE DEF q
  <2>3. /\ req' \in [Requests -> WellFormed]
        /\ req' \in [Requests -> Request]
    BY <2>1, <2>2, BeginType
  <2>4. QED
    BY <1>1, <2>3 DEF ReplaceCheck, CallsTypeOK
<1>2. CASE ReplaceSave(r)
  BY <1>2, SetAsesorType, GotoType
  DEF ReplaceSave, CallsTypeOK, WellFormed, AsesorStatus
<1>3. CASE ReplaceUncount(r)
  BY <1>3, CountType, GotoType DEF ReplaceUncount, CallsTypeOK, WellFormed
<1>4. CASE ReplaceInsert(r)
  BY <1>4, SetAsesorType, GotoType, DoneType
  DEF ReplaceInsert, CallsTypeOK, WellFormed, AsesorStatus, Live
<1>5. CASE ReplaceCount(r)
  BY <1>5, CountType, DoneType DEF ReplaceCount, CallsTypeOK, WellFormed
<1>6. QED
  BY <1>1, <1>2, <1>3, <1>4, <1>5

LEMMA RestTypes ==
    ASSUME TypeInv,
           \/ \E r \in Requests : \/ \E s \in Supervisors : ProfileRead(r, s)
                                  \/ ProfileSave(r)
           \/ \E a \in Applications, s \in Supervisors : Disconnect(a, s)
           \/ \E a \in Applications, s \in Supervisors : AutoDisconnect(a, s)
           \/ Crash
    PROVE  TypeInv'
<1> USE AssignmentAssumption
    DEF TypeInv, AssignmentTypeOK, At, NeedsApp, NeedsSup, NeedsNew, Steps
<1>1. ASSUME NEW r \in Requests, NEW s \in Supervisors, ProfileRead(r, s)
      PROVE  TypeInv'
  <2> DEFINE q == [Idle EXCEPT !.pc = "profile_save", !.sup = s, !.seen = currentStudents[s]]
  <2>1. q \in WellFormed
    BY IdleWellFormed DEF WellFormed, Request
  <2>2. Begin(r, q)
    BY <1>1 DEF ProfileRead
  <2> HIDE DEF q
  <2>3. /\ req' \in [Requests -> WellFormed]
        /\ req' \in [Requests -> Request]
    BY <2>1, <2>2, BeginType
  <2>4. QED
    BY <1>1, <2>3 DEF ProfileRead, CallsTypeOK
<1>2. ASSUME NEW r \in Requests, ProfileSave(r)
      PROVE  TypeInv'
  <2>1. /\ req' \in [Requests -> WellFormed]
        /\ req' \in [Requests -> Request]
    BY <1>2, DoneType DEF ProfileSave
  <2>2. currentStudents' \in [Supervisors -> Int]
    BY <1>2 DEF ProfileSave, Request
  <2>3. QED
    BY <1>2, <2>1, <2>2 DEF ProfileSave, CallsTypeOK
<1>3. ASSUME NEW a \in Applications, NEW s \in Supervisors, Disconnect(a, s)
      PROVE  TypeInv'
  <2>1. \/ /\ jurado' = [jurado EXCEPT ![a][s] = "disconnected"]
           /\ UNCHANGED juradoFinal
        \/ /\ juradoFinal' = [juradoFinal EXCEPT ![a][s] = "disconnected"]
           /\ UNCHANGED jurado
    BY <1>3 DEF Disconnect
  <2>2. /\ jurado' \in [Applications -> [Supervisors -> JuradoStatus]]
        /\ juradoFinal' \in [Applications -> [Supervisors -> JuradoStatus]]
    BY <2>1, SetJuradoType
  <2>3. QED
    BY <1>3, <2>2 DEF Disconnect, CallsTypeOK
<1>4. ASSUME NEW a \in Applications, NEW s \in Supervisors, AutoDisconnect(a, s)
      PROVE  TypeInv'
  <2>1. jurado' \in [Applications -> [Supervisors -> JuradoStatus]]
    BY <1>4, SetJuradoType DEF AutoDisconnect
  <2>2. QED
    BY <1>4, <2>1 DEF AutoDisconnect, CallsTypeOK
<1>5. CASE Crash
  <2>1. /\ req' \in [Requests -> WellFormed]
        /\ req' \in [Requests -> Request]
    BY <1>5, IdleWellFormed DEF Crash, WellFormed
  <2>2. QED
    BY <1>5, <2>1 DEF Crash, CallsTypeOK
<1>6. QED
  BY <1>1, <1>2, <1>3, <1>4, <1>5

LEMMA DeskTypes == TypeInv /\ DeskNext => TypeInv'
BY AssignTypes, FinalTypes, AnswerTypes, ReplaceTypes, RestTypes
   DEF DeskNext, AssignmentNext, Arrive, Advance

LEMMA InitTypes == AssignmentInit => TypeInv
BY IdleWellFormed
   DEF AssignmentInit, TypeInv, AssignmentTypeOK, AsesorStatus, JuradoStatus,
       CallsTypeOK, WellFormed

\* The state of the desk keeps its types: in particular a call names an
\* application and a supervisor, whatever request it comes from.
THEOREM DeskTypeCorrect == AssignmentSpec => []AssignmentTypeOK
<1>1. TypeInv /\ [DeskNext]_assignmentVars => TypeInv'
  <2>1. CASE UNCHANGED assignmentVars
    BY <2>1 DEF assignmentVars, TypeInv, AssignmentTypeOK, CallsTypeOK
  <2>2. QED
    BY <2>1, DeskTypes
<1>2. TypeInv => AssignmentTypeOK
  BY DEF TypeInv
<1>3. QED
  BY InitTypes, <1>1, <1>2, PTL DEF AssignmentSpec

(***************************************************************************)
(* One asesor at a time, when the desk handles one request at a time.      *)
(*                                                                         *)
(* The checks of assignSupervisor and replaceAssignment are worth what     *)
(* their reads are worth when the handler writes.  SlotInv says what still *)
(* holds of them at every step after the read.                             *)
(***************************************************************************)
Serial == \A r1, r2 \in Requests : r1 = r2

\* An application whom an asesor may be assigned to: nobody has refused it.
Vacant(a) == \A t \in Supervisors : asesor[a][t] \in {"none", "replaced"}

\* What the rows of an application look like whenever a step is over.
RowInv ==
    /\ SingleLiveAsesor
    /\ \A a \in Applications : \A s, t \in Supervisors :
          asesor[a][s] = "declined" => asesor[a][t] \notin Live

SlotInv(r) ==
    /\ At(r, "assign_insert") => Vacant(req[r].app)
    /\ req[r].pc \in {"accept_save", "decline_save"} =>
          asesor[req[r].app][req[r].sup] = "pending_acceptance"
    /\ At(r, "replace_save") => asesor[req[r].app][req[r].sup] \in Live
    /\ req[r].pc \in {"replace_uncount", "replace_insert"} => Vacant(req[r].app)

SeatInv == RowInv /\ \A r \in Requests : SlotInv(r)

\* The four ways to write an asesor row.
Invited(a, s) ==
    Vacant(a) /\ asesor[a][s] = "none" /\ SetAsesor(a, s, "pending_acceptance")
Accepted(a, s) == asesor[a][s] = "pending_acceptance" /\ SetAsesor(a, s, "accepted")
Declined(a, s) == asesor[a][s] = "pending_acceptance" /\ SetAsesor(a, s, "declined")
Replaced(a, s) == asesor[a][s] \in Live /\ SetAsesor(a, s, "replaced")

SeatMove ==
    \/ UNCHANGED asesor
    \/ \E a \in Applications, s \in Supervisors :
          Invited(a, s) \/ Accepted(a, s) \/ Declined(a, s) \/ Replaced(a, s)

\* What a write of one asesor row changes.
LEMMA SetAsesorEffect ==
    ASSUME TypeInv, NEW a \in Applications, NEW s \in Supervisors, NEW st,
           SetAsesor(a, s, st)
    PROVE  /\ asesor'[a][s] = st
           /\ \A b \in Applications, t \in Supervisors :
                 b # a \/ t # s => asesor'[b][t] = asesor[b][t]
BY DEF TypeInv, AssignmentTypeOK, SetAsesor

LEMMA MoveKeepsRows ==
    ASSUME TypeInv, RowInv, SeatMove
    PROVE  RowInv'
<1>1. CASE UNCHANGED asesor
  BY <1>1 DEF RowInv, SingleLiveAsesor
<1>2. ASSUME NEW a \in Applications, NEW s \in Supervisors,
             Invited(a, s) \/ Accepted(a, s) \/ Declined(a, s) \/ Replaced(a, s)
      PROVE  RowInv'
  BY <1>2, SetAsesorEffect
  DEF Invited, Accepted, Declined, Replaced, RowInv, SingleLiveAsesor, Vacant, Live
<1>3. QED
  BY <1>1, <1>2 DEF SeatMove

LEMMA OwnSlot ==
    ASSUME Serial, NEW r \in Requests, SlotInv(r)'
    PROVE  (\A x \in Requests : SlotInv(x))'
BY DEF Serial

\* A step that ends a request, or takes it to a step SlotInv says nothing of.
LEMMA FreeSlot ==
    ASSUME NEW r \in Requests,
           req'[r].pc \notin {"assign_insert", "accept_save", "decline_save", "replace_save",
                              "replace_uncount", "replace_insert"}
    PROVE  SlotInv(r)'
BY DEF SlotInv, At

LEMMA DoneFrees ==
    ASSUME TypeInv, NEW r \in Requests, Done(r)
    PROVE  SlotInv(r)'
BY FreeSlot DEF TypeInv, AssignmentTypeOK, Done, Idle

LEMMA GotoEffect ==
    ASSUME TypeInv, NEW r \in Requests, NEW pc, Goto(r, pc)
    PROVE  /\ req'[r].pc = pc
           /\ req'[r].app = req[r].app
           /\ req'[r].sup = req[r].sup
BY DEF TypeInv, AssignmentTypeOK, Request, Goto

\* How a row may change in a step.
RowStep ==
    \A a \in Applications, s \in Supervisors :
        /\ asesor[a][s] \in {"declined", "replaced"} => asesor'[a][s] = asesor[a][s]
        /\ asesor[a][s] = "accepted" => asesor'[a][s] \in {"accepted", "replaced"}

LEMMA MoveKeepsAnswers ==
    ASSUME TypeInv, SeatMove
    PROVE  RowStep
BY SetAsesorEffect DEF SeatMove, Invited, Accepted, Declined, Replaced, RowStep, Live

\* Where the rounds of the two loops over jurados take a request.
LEMMA JuradoRound ==
    ASSUME TypeInv, NEW r \in Requests, NEW j \in Supervisors,
           AssignJurado(r, j) \/ FinalCheck(r, j)
    PROVE  req'[r].pc \in {"idle", "assign_jurados", "jurado_insert", "final_check",
                           "final_insert"}
<1> USE DEF TypeInv, AssignmentTypeOK, At
<1> DEFINE rest == req[r].jurados \ {j}
           skip == [req[r] EXCEPT !.jurados = rest]
           insert == [req[r] EXCEPT !.pc = "jurado_insert", !.new = j, !.jurados = rest]
           take == [req[r] EXCEPT !.pc = "final_insert", !.new = j, !.jurados = rest]
<1>1. req[r] \in Request /\ req[r].pc \in {"assign_jurados", "final_check"}
  BY DEF AssignJurado, FinalCheck
<1>2. skip.pc = req[r].pc /\ insert.pc = "jurado_insert" /\ take.pc = "final_insert"
  BY <1>1 DEF Request
<1>3. \/ Done(r)
      \/ req' = [req EXCEPT ![r] = skip]
      \/ req' = [req EXCEPT ![r] = insert]
      \/ req' = [req EXCEPT ![r] = take]
  <2>1. CASE AssignJurado(r, j)
    BY <2>1 DEF AssignJurado
  <2>2. CASE FinalCheck(r, j)
    BY <2>2 DEF FinalCheck
  <2>3. QED
    BY <2>1, <2>2
<1> HIDE DEF skip, insert, take
<1>4. QED
  BY <1>1, <1>2, <1>3 DEF Done, Idle

\* The steps that write no asesor row and lead to no step SlotInv is about.
LEMMA QuietStep ==
    ASSUME TypeInv, NEW r \in Requests,
           \/ \E a \in Applications, J \in JuradoLists : FinalBegin(r, a, J)
           \/ \E s \in Supervisors : ProfileRead(r, s)
           \/ AssignCount(r) \/ AssignCall(r) \/ AssignDone(r)
           \/ \E j \in Supervisors : AssignJurado(r, j) \/ FinalCheck(r, j)
           \/ JuradoInsert(r) \/ FinalInsert(r) \/ AcceptCall(r)
           \/ DeclineCount(r) \/ DeclineCall(r) \/ ReplaceCount(r) \/ ProfileSave(r)
    PROVE  /\ UNCHANGED asesor
           /\ req'[r].pc \in {"idle", "assign_call", "assign_jurados", "jurado_insert",
                              "final_check", "final_insert", "decline_call", "profile_save"}
<1> DEFINE Goal == /\ UNCHANGED asesor
                   /\ req'[r].pc \in {"idle", "assign_call", "assign_jurados", "jurado_insert",
                              "final_check", "final_insert", "decline_call", "profile_save"}
<1>1. ASSUME NEW a \in Applications, NEW J \in JuradoLists, FinalBegin(r, a, J)
      PROVE  Goal
  BY <1>1 DEF FinalBegin, Begin, Idle, TypeInv, AssignmentTypeOK
<1>2. ASSUME NEW s \in Supervisors, ProfileRead(r, s)
      PROVE  Goal
  BY <1>2 DEF ProfileRead, Begin, Idle, TypeInv, AssignmentTypeOK
<1>3. CASE AssignCount(r) \/ AssignCall(r) \/ DeclineCount(r)
  <2>1. PICK pc \in {"assign_call", "assign_jurados", "decline_call"} :
           Goto(r, pc) /\ UNCHANGED asesor
    BY <1>3 DEF AssignCount, AssignCall, DeclineCount
  <2>2. QED
    BY <2>1, GotoEffect
<1>4. CASE \/ AssignDone(r) \/ AcceptCall(r) \/ DeclineCall(r) \/ ReplaceCount(r)
           \/ ProfileSave(r)
  <2>1. Done(r) /\ UNCHANGED asesor
    BY <1>4 DEF AssignDone, AcceptCall, DeclineCall, ReplaceCount, ProfileSave
  <2>2. QED
    BY <2>1 DEF Done, Idle, TypeInv, AssignmentTypeOK
<1>5. ASSUME NEW j \in Supervisors, AssignJurado(r, j) \/ FinalCheck(r, j)
      PROVE  Goal
  BY <1>5, JuradoRound DEF AssignJurado, FinalCheck
<1>6. CASE JuradoInsert(r) \/ FinalInsert(r)
  <2>1. Done(r) \/ Goto(r, "assign_jurados") \/ Goto(r, "final_check")
    BY <1>6 DEF JuradoInsert, FinalInsert
  <2>2. UNCHANGED asesor
    BY <1>6 DEF JuradoInsert, FinalInsert
  <2>3. QED
    BY <2>1, <2>2, GotoEffect DEF Done, Idle, TypeInv, AssignmentTypeOK
<1>7. QED
  BY <1>1, <1>2, <1>3, <1>4, <1>5, <1>6

LEMMA SeatStep ==
    ASSUME Serial, TypeInv, SeatInv, NEW r \in Requests, Arrive(r) \/ Advance(r)
    PROVE  SlotInv(r)' /\ SeatMove
<1> USE DEF SeatInv
<1> DEFINE Goal == SlotInv(r)' /\ SeatMove
<1>1. UNCHANGED asesor => SeatMove
  BY DEF SeatMove
<1>2. ASSUME NEW pc \in NeedsApp \cap NeedsSup, At(r, pc)
      PROVE  req[r].app \in Applications /\ req[r].sup \in Supervisors
  BY <1>2 DEF TypeInv, WellFormed, At
<1>3. ASSUME NEW a \in Applications, NEW s \in Supervisors, NEW J \in JuradoLists,
             AssignCheck(r, a, s, J)
      PROVE  Goal
  <2>1. req'[r].pc = "assign_insert" /\ req'[r].app = a
    BY <1>3 DEF AssignCheck, Begin, Idle, TypeInv, AssignmentTypeOK
  <2>2. Vacant(a)
    BY <1>3 DEF AssignCheck, Assignable, Vacant
  <2>3. QED
    BY <1>1, <1>3, <2>1, <2>2 DEF AssignCheck, SlotInv, At, Vacant
<1>4. CASE AssignInsert(r)
  <2>1. req[r].app \in Applications /\ req[r].sup \in Supervisors
    BY <1>2, <1>4 DEF AssignInsert, NeedsApp, NeedsSup, Steps
  <2>2. Vacant(req[r].app)
    BY <1>4 DEF AssignInsert, SlotInv
  <2>3. CASE Invited(req[r].app, req[r].sup) /\ Goto(r, "assign_count")
    BY <2>1, <2>3, GotoEffect, FreeSlot DEF SeatMove
  <2>4. CASE Done(r) /\ UNCHANGED asesor
    BY <1>1, <2>4, DoneFrees
  <2>5. QED
    BY <1>4, <2>2, <2>3, <2>4 DEF AssignInsert, Invited
<1>5. ASSUME NEW a \in Applications, NEW s \in Supervisors,
             NEW pc \in {"accept_save", "decline_save"}, AnswerCheck(r, a, s, pc)
      PROVE  Goal
  <2>1. req'[r].pc = pc /\ req'[r].app = a /\ req'[r].sup = s
    BY <1>5 DEF AnswerCheck, Begin, Idle, TypeInv, AssignmentTypeOK
  <2>2. QED
    BY <1>1, <1>5, <2>1 DEF AnswerCheck, SlotInv, At
<1>6. CASE AcceptSave(r)
  <2>1. /\ req[r].app \in Applications /\ req[r].sup \in Supervisors
        /\ asesor[req[r].app][req[r].sup] = "pending_acceptance"
    BY <1>2, <1>6 DEF AcceptSave, SlotInv, At, NeedsApp, NeedsSup, Steps
  <2>2. Accepted(req[r].app, req[r].sup)
    BY <1>6, <2>1 DEF AcceptSave, Accepted
  <2>3. QED
    BY <1>6, <2>1, <2>2, GotoEffect, FreeSlot DEF AcceptSave, SeatMove
<1>7. CASE DeclineSave(r)
  <2>1. /\ req[r].app \in Applications /\ req[r].sup \in Supervisors
        /\ asesor[req[r].app][req[r].sup] = "pending_acceptance"
    BY <1>2, <1>7 DEF DeclineSave, SlotInv, At, NeedsApp, NeedsSup, Steps
  <2>2. Declined(req[r].app, req[r].sup)
    BY <1>7, <2>1 DEF DeclineSave, Declined
  <2>3. QED
    BY <1>7, <2>1, <2>2, GotoEffect, FreeSlot DEF DeclineSave, SeatMove
<1>8. ASSUME NEW a \in Applications, NEW s \in Supervisors, NEW t \in Supervisors,
             ReplaceCheck(r, a, s, t)
      PROVE  Goal
  <2>1. req'[r].pc = "replace_save" /\ req'[r].app = a /\ req'[r].sup = s
    BY <1>8 DEF ReplaceCheck, Begin, Idle, TypeInv, AssignmentTypeOK
  <2>2. QED
    BY <1>1, <1>8, <2>1 DEF ReplaceCheck, SlotInv, At
<1>9. CASE ReplaceSave(r)
  <2> DEFINE a == req[r].app  s == req[r].sup
  <2>1. a \in Applications /\ s \in Supervisors /\ asesor[a][s] \in Live
    BY <1>2, <1>9 DEF ReplaceSave, SlotInv, At, NeedsApp, NeedsSup, Steps
  <2>2. SetAsesor(a, s, "replaced")
    BY <1>9 DEF ReplaceSave
  <2>3. SeatMove
    BY <2>1, <2>2 DEF SeatMove, Replaced
  <2>4. req'[r].pc = "replace_uncount" /\ req'[r].app = a
    BY <1>9, GotoEffect DEF ReplaceSave
  <2>5. \A t \in Supervisors : t # s => asesor[a][t] \in {"none", "replaced"}
    BY <2>1 DEF RowInv, SingleLiveAsesor, Live, TypeInv, AssignmentTypeOK, AsesorStatus
  <2>6. \A t \in Supervisors : asesor'[a][t] \in {"none", "replaced"}
    BY <2>1, <2>2, <2>5, SetAsesorEffect
  <2>7. QED
    BY <2>3, <2>4, <2>6 DEF SlotInv, At, Vacant
<1>10. CASE ReplaceUncount(r)
  <2>1. UNCHANGED asesor /\ Vacant(req[r].app)
    BY <1>10 DEF ReplaceUncount, SlotInv, At
  <2>2. req'[r].pc = "replace_insert" /\ req'[r].app = req[r].app
    BY <1>10, GotoEffect DEF ReplaceUncount
  <2>3. QED
    BY <1>1, <2>1, <2>2 DEF SlotInv, At, Vacant
<1>11. CASE ReplaceInsert(r)
  <2>1. req[r].app \in Applications /\ req[r].new \in Supervisors
    BY <1>11 DEF ReplaceInsert, TypeInv, WellFormed, At, NeedsApp, NeedsNew, Steps
  <2>2. Vacant(req[r].app)
    BY <1>11 DEF ReplaceInsert, SlotInv, At
  <2>3. CASE Invited(req[r].app, req[r].new) /\ Goto(r, "replace_count")
    BY <2>1, <2>3, GotoEffect, FreeSlot DEF SeatMove
  <2>4. CASE Done(r) /\ UNCHANGED asesor
    BY <1>1, <2>4, DoneFrees
  <2>5. QED
    BY <1>11, <2>2, <2>3, <2>4 DEF ReplaceInsert, Invited
<1>12. CASE /\ UNCHANGED asesor
            /\ req'[r].pc \in {"idle", "assign_call", "assign_jurados", "jurado_insert",
                              "final_check", "final_insert", "decline_call", "profile_save"}
  BY <1>1, <1>12, FreeSlot
<1>13. QED
  BY <1>3, <1>4, <1>5, <1>6, <1>7, <1>8, <1>9, <1>10, <1>11, <1>12, QuietStep
  DEF Arrive, Advance, AcceptCheck, DeclineCheck

LEMMA SeatNext ==
    ASSUME Serial, TypeInv, SeatInv, [DeskNext]_assignmentVars
    PROVE  SeatInv' /\ SeatMove
<1>1. (\A r \in Requests : SlotInv(r)') /\ SeatMove
  <2>1. CASE UNCHANGED <<asesor, req>>
    BY <2>1 DEF SeatInv, SlotInv, Vacant, At, SeatMove
  <2>2. CASE Crash
    <3>1. \A r \in Requests : req'[r].pc = "idle"
      BY <2>2 DEF Crash, Idle
    <3>2. QED
      BY <2>2, <3>1, FreeSlot DEF Crash, SeatMove
  <2>3. QED
    BY <2>1, <2>2, SeatStep, OwnSlot
    DEF DeskNext, AssignmentNext, Disconnect, AutoDisconnect, assignmentVars
<1>2. QED
  BY <1>1, MoveKeepsRows DEF SeatInv

LEMMA SeatInit == AssignmentInit => SeatInv
BY DEF AssignmentInit, SeatInv, RowInv, SingleLiveAsesor, SlotInv, At, Idle, Live

\* What the theorems below take from a step of the desk.
LEMMA SerialStep ==
    ASSUME Serial
    PROVE  TypeInv /\ SeatInv /\ [DeskNext]_assignmentVars
           => TypeInv' /\ SeatInv' /\ SeatMove
<1>1. TypeInv /\ [DeskNext]_assignmentVars => TypeInv'
  BY DeskTypes DEF assignmentVars, TypeInv, AssignmentTypeOK, CallsTypeOK
<1>2. QED
  BY <1>1, SeatNext

\* With one request at a time an application has never two live asesors,
\* whatever the process loses when it restarts.
THEOREM SerialSingleAsesor == Serial /\ AssignmentSpec => []SingleLiveAsesor
<1> SUFFICES ASSUME Serial PROVE AssignmentSpec => []SingleLiveAsesor
  OBVIOUS
<1>1. SeatInv => SingleLiveAsesor
  BY DEF SeatInv, RowInv
<1>2. QED
  BY InitTypes, SeatInit, SerialStep, <1>1, PTL DEF AssignmentSpec

\* With one request at a time an answer is given once.
THEOREM SerialAnswers == Serial /\ AssignmentSpec => AnsweredRowsFinal
<1> SUFFICES ASSUME Serial PROVE AssignmentSpec => AnsweredRowsFinal
  OBVIOUS
<1>1. TypeInv /\ SeatMove => [RowStep]_asesor
  BY MoveKeepsAnswers
<1>2. QED
  BY InitTypes, SeatInit, SerialStep, <1>1, PTL DEF AssignmentSpec, AnsweredRowsFinal, RowStep

(***************************************************************************)
(* With one request at a time the desk implements AdvisorSeat.             *)
(***************************************************************************)
\* The holder is the supervisor of the live row.
LEMMA HolderIsLive ==
    ASSUME RowInv, NEW a \in Applications, NEW s \in Supervisors
    PROVE  /\ asesor[a][s] \in Live => SeatHolder(a) = s
           /\ (\A t \in Supervisors : asesor[a][t] \notin Live) => SeatHolder(a) = None
BY DEF RowInv, SingleLiveAsesor, SeatHolder

\* The seat of an application whose rows a step leaves alone.
LEMMA OtherSeat ==
    ASSUME NEW b \in Applications, \A t \in Supervisors : asesor'[b][t] = asesor[b][t]
    PROVE  /\ SeatHolder(b)' = SeatHolder(b)
           /\ SeatConfirmed(b)' = SeatConfirmed(b)
           /\ SeatFormer(b)' = SeatFormer(b)
           /\ SeatRefused(b)' = SeatRefused(b)
<1>1. SeatHolder(b)' = SeatHolder(b)
  <2>1. (CHOOSE s \in Supervisors : asesor'[b][s] \in Live)
           = (CHOOSE s \in Supervisors : asesor[b][s] \in Live)
    OBVIOUS
  <2>2. QED
    BY <2>1 DEF SeatHolder
<1>2. QED
  BY <1>1 DEF SeatConfirmed, SeatFormer, SeatRefused

\* What the four writes do to the seat of the application, field by field.
SeatTaken(a, s) ==
    /\ SeatHolder(a) = None /\ SeatHolder(a)' = s
    /\ s \notin SeatFormer(a) /\ ~SeatRefused(a)
    /\ SeatConfirmed(a)' = SeatConfirmed(a)
    /\ SeatFormer(a)' = SeatFormer(a) /\ SeatRefused(a)' = SeatRefused(a)
SeatKept(a, s) ==
    /\ SeatHolder(a) = s /\ SeatHolder(a)' = s
    /\ ~SeatConfirmed(a) /\ SeatConfirmed(a)' = TRUE
    /\ SeatFormer(a)' = SeatFormer(a) /\ SeatRefused(a)' = SeatRefused(a)
SeatGivenUp(a, s) ==
    /\ SeatHolder(a) = s /\ SeatHolder(a)' = None
    /\ ~SeatConfirmed(a) /\ SeatConfirmed(a)' = SeatConfirmed(a)
    /\ SeatFormer(a)' = SeatFormer(a) \cup {s} /\ SeatRefused(a)' = TRUE
SeatEmptied(a, s) ==
    /\ SeatHolder(a) = s /\ SeatHolder(a)' = None
    /\ SeatConfirmed(a)' = FALSE
    /\ SeatFormer(a)' = SeatFormer(a) \cup {s} /\ SeatRefused(a)' = SeatRefused(a)

LEMMA SeatEffect ==
    ASSUME TypeInv, RowInv, RowInv', NEW a \in Applications, NEW s \in Supervisors,
           Invited(a, s) \/ Accepted(a, s) \/ Declined(a, s) \/ Replaced(a, s)
    PROVE  SeatTaken(a, s) \/ SeatKept(a, s) \/ SeatGivenUp(a, s) \/ SeatEmptied(a, s)
<1>1. /\ \A t \in Supervisors : t # s => asesor'[a][t] = asesor[a][t]
      /\ \A st : SetAsesor(a, s, st) => asesor'[a][s] = st
  BY SetAsesorEffect DEF Invited, Accepted, Declined, Replaced
<1>2. /\ asesor[a][s] \in Live => SeatHolder(a) = s
      /\ (\A t \in Supervisors : asesor[a][t] \notin Live) => SeatHolder(a) = None
      /\ asesor'[a][s] \in Live => SeatHolder(a)' = s
      /\ (\A t \in Supervisors : asesor'[a][t] \notin Live) => SeatHolder(a)' = None
  <2>1. asesor'[a][s] \in Live => SeatHolder(a)' = s
    BY DEF RowInv, SingleLiveAsesor, SeatHolder
  <2>2. (\A t \in Supervisors : asesor'[a][t] \notin Live) => SeatHolder(a)' = None
    BY DEF SeatHolder
  <2>3. QED
    BY <2>1, <2>2, HolderIsLive
<1>3. asesor[a][s] \in Live => \A t \in Supervisors \ {s} : asesor[a][t] \notin Live
  BY DEF RowInv, SingleLiveAsesor
<1>4. CASE Invited(a, s)
  <2>1. asesor[a][s] = "none" /\ asesor'[a][s] = "pending_acceptance"
    BY <1>1, <1>4 DEF Invited
  <2>2. SeatHolder(a) = None /\ SeatHolder(a)' = s
    BY <1>2, <1>4, <2>1 DEF Invited, Vacant, Live
  <2>3. QED
    BY <1>1, <1>4, <2>1, <2>2
    DEF SeatTaken, Invited, Vacant, SeatConfirmed, SeatFormer, SeatRefused
<1>5. CASE Accepted(a, s)
  <2>1. asesor[a][s] = "pending_acceptance" /\ asesor'[a][s] = "accepted"
    BY <1>1, <1>5 DEF Accepted
  <2>2. SeatHolder(a) = s /\ SeatHolder(a)' = s
    BY <1>2, <2>1 DEF Live
  <2>3. ~SeatConfirmed(a) /\ SeatConfirmed(a)'
    BY <1>3, <2>1 DEF SeatConfirmed, Live
  <2>4. QED
    BY <1>1, <2>1, <2>2, <2>3 DEF SeatKept, SeatConfirmed, SeatFormer, SeatRefused
<1>6. CASE Declined(a, s)
  <2>1. asesor[a][s] = "pending_acceptance" /\ asesor'[a][s] = "declined"
    BY <1>1, <1>6 DEF Declined
  <2>2. \A t \in Supervisors : asesor'[a][t] \notin Live
    BY <1>1, <1>3, <2>1 DEF Live
  <2>3. SeatHolder(a) = s /\ SeatHolder(a)' = None
    BY <1>2, <2>1, <2>2 DEF Live
  <2>4. ~SeatConfirmed(a) /\ ~SeatConfirmed(a)'
    BY <1>3, <2>1, <2>2 DEF SeatConfirmed, Live
  <2>5. SeatFormer(a)' = SeatFormer(a) \cup {s} /\ SeatRefused(a)'
    BY <1>1, <2>1 DEF SeatFormer, SeatRefused
  <2>6. QED
    BY <2>3, <2>4, <2>5 DEF SeatGivenUp, SeatConfirmed, SeatRefused
<1>7. CASE Replaced(a, s)
  <2>1. asesor[a][s] \in Live /\ asesor'[a][s] = "replaced"
    BY <1>1, <1>7 DEF Replaced
  <2>2. \A t \in Supervisors : asesor'[a][t] \notin Live
    BY <1>1, <1>3, <2>1 DEF Live
  <2>3. SeatHolder(a) = s /\ SeatHolder(a)' = None
    BY <1>2, <2>1, <2>2
  <2>4. ~SeatConfirmed(a)'
    BY <2>2 DEF SeatConfirmed, Live
  <2>5. SeatFormer(a)' = SeatFormer(a) \cup {s} /\ SeatRefused(a)' = SeatRefused(a)
    BY <1>1, <2>1 DEF SeatFormer, SeatRefused, Live
  <2>6. QED
    BY <2>3, <2>4, <2>5 DEF SeatEmptied, SeatConfirmed
<1>8. QED
  BY <1>4, <1>5, <1>6, <1>7

LEMMA MoveIsSeatStep ==
    ASSUME TypeInv, RowInv, RowInv', SeatMove
    PROVE  [Seat!Next]_(Seat!seatVars)
<1> DEFINE holder == [a \in Applications |-> SeatHolder(a)]
           confirmed == [a \in Applications |-> SeatConfirmed(a)]
           former == [a \in Applications |-> SeatFormer(a)]
           refused == [a \in Applications |-> SeatRefused(a)]
<1>1. CASE UNCHANGED asesor
  <2>1. \A b \in Applications :
           /\ SeatHolder(b)' = SeatHolder(b) /\ SeatConfirmed(b)' = SeatConfirmed(b)
           /\ SeatFormer(b)' = SeatFormer(b) /\ SeatRefused(b)' = SeatRefused(b)
    BY <1>1, OtherSeat
  <2>2. QED
    BY <2>1 DEF Seat!seatVars
<1>2. ASSUME NEW a \in Applications, NEW s \in Supervisors,
             Invited(a, s) \/ Accepted(a, s) \/ Declined(a, s) \/ Replaced(a, s)
      PROVE  Seat!Next
  <2>1. \A b \in Applications \ {a}, t \in Supervisors : asesor'[b][t] = asesor[b][t]
    BY <1>2, SetAsesorEffect DEF Invited, Accepted, Declined, Replaced
  <2>2. \A b \in Applications \ {a} :
           /\ SeatHolder(b)' = SeatHolder(b) /\ SeatConfirmed(b)' = SeatConfirmed(b)
           /\ SeatFormer(b)' = SeatFormer(b) /\ SeatRefused(b)' = SeatRefused(b)
    BY <2>1, OtherSeat
  <2>3. /\ holder' = [holder EXCEPT ![a] = SeatHolder(a)']
        /\ confirmed' = [confirmed EXCEPT ![a] = SeatConfirmed(a)']
        /\ former' = [former EXCEPT ![a] = SeatFormer(a)']
        /\ refused' = [refused EXCEPT ![a] = SeatRefused(a)']
    BY <2>2
  <2>4. /\ holder[a] = SeatHolder(a) /\ confirmed[a] = SeatConfirmed(a)
        /\ former[a] = SeatFormer(a) /\ refused[a] = SeatRefused(a)
    OBVIOUS
  <2>5. s # None
    BY CallsAssumption
  <2>6. CASE SeatTaken(a, s)
    <3>1. Seat!Invite(a, s)
      BY <2>3, <2>4, <2>6 DEF Seat!Invite, SeatTaken
    <3>2. QED
      BY <3>1 DEF Seat!Next
  <2>7. CASE SeatKept(a, s)
    <3>1. Seat!Confirm(a)
      BY <2>3, <2>4, <2>5, <2>7 DEF Seat!Confirm, SeatKept
    <3>2. QED
      BY <3>1 DEF Seat!Next
  <2>8. CASE SeatGivenUp(a, s)
    <3>1. Seat!Refuse(a)
      BY <2>3, <2>4, <2>5, <2>8 DEF Seat!Refuse, Seat!Leave, SeatGivenUp
    <3>2. QED
      BY <3>1 DEF Seat!Next
  <2>9. CASE SeatEmptied(a, s)
    <3>1. Seat!Replace(a)
      BY <2>3, <2>4, <2>5, <2>9 DEF Seat!Replace, Seat!Leave, SeatEmptied
    <3>2. QED
      BY <3>1 DEF Seat!Next
  <2>10. QED
    BY <1>2, <2>6, <2>7, <2>8, <2>9, SeatEffect
<1>3. QED
  BY <1>1, <1>2 DEF SeatMove

\* While requests do not overlap, the asesor rows of an application are one
\* seat: one holder at a time, nobody twice, nobody after a refusal.
THEOREM SerialSeat == Serial /\ AssignmentSpec => ImplementsSeat
<1> SUFFICES ASSUME Serial PROVE AssignmentSpec => ImplementsSeat
  OBVIOUS
<1>1. AssignmentInit => Seat!Init
  BY DEF AssignmentInit, Seat!Init, SeatHolder, SeatConfirmed, SeatFormer, SeatRefused, Live
<1>2. TypeInv /\ SeatInv /\ TypeInv' /\ SeatInv' /\ SeatMove => [Seat!Next]_(Seat!seatVars)
  BY MoveIsSeatStep DEF SeatInv
<1>3. QED
  BY InitTypes, SeatInit, SerialStep, <1>1, <1>2, PTL
  DEF AssignmentSpec, ImplementsSeat, Seat!Spec

(***************************************************************************)
(* One jurado_final, when the desk handles one request at a time           *)
(***************************************************************************)
\* What findOne told assignJurado still holds when the row is inserted.
FinalInv ==
    /\ SingleJuradoFinal
    /\ \A r \in Requests : At(r, "final_insert") =>
          \A t \in Supervisors : juradoFinal[req[r].app][t] = "none"

\* Only the loop of assignJurado leads to the insertion, and it is the only
\* step of a request that writes a row.
LEMMA ReachFinalInsert ==
    ASSUME TypeInv, NEW r \in Requests, Arrive(r) \/ Advance(r),
           ~FinalInsert(r), \A j \in Supervisors : ~FinalCheck(r, j)
    PROVE  UNCHANGED juradoFinal /\ req'[r].pc # "final_insert"
<1> USE DEF TypeInv, AssignmentTypeOK
<1>1. CASE Arrive(r)
  <2>1. \A new : Begin(r, new) => req'[r] = new
    BY DEF Begin
  <2> HIDE DEF TypeInv, AssignmentTypeOK
  <2>2. CASE \E a \in Applications, s \in Supervisors, J \in JuradoLists : AssignCheck(r, a, s, J)
    BY <2>1, <2>2 DEF AssignCheck, Idle
  <2>3. CASE \E a \in Applications, J \in JuradoLists : FinalBegin(r, a, J)
    BY <2>1, <2>3 DEF FinalBegin, Idle
  <2>4. CASE \E a \in Applications, s \in Supervisors : AcceptCheck(r, a, s) \/ DeclineCheck(r, a, s)
    BY <2>1, <2>4 DEF AcceptCheck, DeclineCheck, AnswerCheck, Idle
  <2>5. CASE \E a \in Applications, s, t \in Supervisors : ReplaceCheck(r, a, s, t)
    BY <2>1, <2>5 DEF ReplaceCheck, Idle
  <2>6. CASE \E s \in Supervisors : ProfileRead(r, s)
    BY <2>1, <2>6 DEF ProfileRead, Idle
  <2>7. QED
    BY <1>1, <2>2, <2>3, <2>4, <2>5, <2>6 DEF Arrive
<1>2. CASE \E j \in Supervisors : AssignJurado(r, j)
  <2>1. PICK j \in Supervisors : AssignJurado(r, j)
    BY <1>2
  <2>2. \/ Done(r)
        \/ req' = [req EXCEPT ![r].jurados = @ \ {j}]
        \/ req' = [req EXCEPT ![r].pc = "jurado_insert", ![r].new = j, ![r].jurados = @ \ {j}]
    BY <2>1 DEF AssignJurado
  <2>3. req[r] \in Request /\ req[r].pc = "assign_jurados"
    BY <2>1 DEF AssignJurado, At
  <2>4. QED
    BY <2>1, <2>2, <2>3 DEF AssignJurado, Done, Idle, Request
<1>3. CASE \/ AssignInsert(r) \/ AssignCount(r) \/ AssignCall(r) \/ AssignDone(r)
           \/ JuradoInsert(r) \/ AcceptSave(r) \/ AcceptCall(r)
           \/ DeclineSave(r) \/ DeclineCount(r) \/ DeclineCall(r)
           \/ ReplaceSave(r) \/ ReplaceUncount(r) \/ ReplaceInsert(r) \/ ReplaceCount(r)
           \/ ProfileSave(r)
  <2>1. /\ UNCHANGED juradoFinal
        /\ \/ Done(r)
           \/ \E pc \in Steps \ {"final_insert"} : Goto(r, pc)
    BY <1>3 DEF AssignInsert, AssignCount, AssignCall, AssignDone, JuradoInsert, AcceptSave,
                AcceptCall, DeclineSave, DeclineCount, DeclineCall, ReplaceSave, ReplaceUncount,
                ReplaceInsert, ReplaceCount, ProfileSave, Steps
  <2>2. QED
    BY <2>1, GotoEffect DEF Done, Idle
<1>4. QED
  BY <1>1, <1>2, <1>3 DEF Advance

LEMMA FinalCheckEffect ==
    ASSUME TypeInv, NEW r \in Requests, NEW j \in Supervisors, FinalCheck(r, j),
           req'[r].pc = "final_insert"
    PROVE  /\ req'[r].app = req[r].app
           /\ \A t \in Supervisors : juradoFinal[req[r].app][t] = "none"
<1> DEFINE rest == req[r].jurados \ {j}
           skip == [req[r] EXCEPT !.jurados = rest]
           take == [req[r] EXCEPT !.pc = "final_insert", !.new = j, !.jurados = rest]
           free == \A t \in Supervisors : juradoFinal[req[r].app][t] = "none"
<1>1. req[r] \in Request /\ req[r].pc = "final_check"
  BY DEF FinalCheck, At, TypeInv, AssignmentTypeOK
<1>2. skip.pc = "final_check" /\ take.app = req[r].app
  BY <1>1 DEF Request
<1>3. \/ Done(r)
      \/ req' = [req EXCEPT ![r] = skip]
      \/ req' = [req EXCEPT ![r] = take] /\ free
  <2>1. CASE j \in Inactive
    BY <2>1 DEF FinalCheck
  <2>2. CASE j \notin Inactive /\ ~free
    BY <2>2 DEF FinalCheck
  <2>3. CASE j \notin Inactive /\ free
    BY <2>3 DEF FinalCheck
  <2>4. QED
    BY <2>1, <2>2, <2>3
<1> HIDE DEF skip, take
<1>4. QED
  BY <1>1, <1>2, <1>3 DEF Done, Idle, TypeInv, AssignmentTypeOK

LEMMA FinalInsertEffect ==
    ASSUME TypeInv, FinalInv, NEW r \in Requests, FinalInsert(r)
    PROVE  SingleJuradoFinal' /\ req'[r].pc # "final_insert"
<1> DEFINE a == req[r].app  j == req[r].new
<1>1. a \in Applications /\ j \in Supervisors
  BY DEF FinalInsert, At, TypeInv, WellFormed, NeedsApp, NeedsNew, Steps
<1>2. \A t \in Supervisors : juradoFinal[a][t] = "none"
  BY DEF FinalInsert, FinalInv
<1>3. juradoFinal' = [juradoFinal EXCEPT ![a][j] = "accepted"]
  BY <1>1, <1>2 DEF FinalInsert
<1>4. SingleJuradoFinal'
  BY <1>1, <1>2, <1>3 DEF SingleJuradoFinal, FinalInv, TypeInv, AssignmentTypeOK
<1>5. Done(r) \/ Goto(r, "final_check")
  BY DEF FinalInsert
<1>6. QED
  BY <1>4, <1>5, GotoEffect DEF Done, Idle, TypeInv, AssignmentTypeOK

LEMMA FinalNext ==
    ASSUME Serial, TypeInv, FinalInv, [DeskNext]_assignmentVars
    PROVE  FinalInv'
<1>1. CASE UNCHANGED <<juradoFinal, req>>
  BY <1>1 DEF FinalInv, SingleJuradoFinal, At
<1>2. CASE Crash
  <2>1. UNCHANGED juradoFinal /\ \A r \in Requests : req'[r].pc = "idle"
    BY <1>2 DEF Crash, Idle
  <2>2. QED
    BY <2>1 DEF FinalInv, SingleJuradoFinal, At
<1>3. ASSUME NEW a \in Applications, NEW s \in Supervisors, Disconnect(a, s),
             ~UNCHANGED juradoFinal
      PROVE  FinalInv'
  <2>1. /\ juradoFinal' = [juradoFinal EXCEPT ![a][s] = "disconnected"]
        /\ juradoFinal[a][s] # "none" /\ UNCHANGED req
    BY <1>3 DEF Disconnect
  <2>2. \A b \in Applications, t \in Supervisors :
           juradoFinal'[b][t] = "none" <=> juradoFinal[b][t] = "none"
    BY <2>1 DEF TypeInv, AssignmentTypeOK
  <2>3. SingleJuradoFinal'
    BY <2>2 DEF FinalInv, SingleJuradoFinal
  <2>4. ASSUME NEW r \in Requests, At(r, "final_insert")'
        PROVE  \A t \in Supervisors : juradoFinal'[req'[r].app][t] = "none"
    <3>1. At(r, "final_insert") /\ req'[r] = req[r]
      BY <2>1, <2>4 DEF At
    <3>2. req[r].app \in Applications
      BY <3>1 DEF At, TypeInv, WellFormed, NeedsApp, Steps
    <3>3. QED
      BY <2>2, <3>1, <3>2 DEF FinalInv
  <2>5. QED
    BY <2>3, <2>4 DEF FinalInv
<1>4. ASSUME NEW r \in Requests, Arrive(r) \/ Advance(r)
      PROVE  FinalInv'
  <2>1. /\ SingleJuradoFinal'
        /\ req'[r].pc = "final_insert" =>
              \A t \in Supervisors : juradoFinal'[req'[r].app][t] = "none"
    <3>1. CASE FinalInsert(r)
      BY <3>1, FinalInsertEffect
    <3>2. ASSUME NEW j \in Supervisors, FinalCheck(r, j)
          PROVE  /\ UNCHANGED juradoFinal
                 /\ req'[r].pc = "final_insert" =>
                       \A t \in Supervisors : juradoFinal[req'[r].app][t] = "none"
      BY <3>2, FinalCheckEffect DEF FinalCheck
    <3>3. QED
      BY <1>4, <3>1, <3>2, ReachFinalInsert DEF FinalInv, SingleJuradoFinal
  <2>2. QED
    BY <2>1 DEF Serial, FinalInv, At
<1>5. QED
  BY <1>1, <1>2, <1>3, <1>4
  DEF DeskNext, AssignmentNext, Disconnect, AutoDisconnect, assignmentVars

\* With one request at a time an application has one jurado of the defence,
\* though each jurado of the list is looked up after the rows before it.
THEOREM SerialJuradoFinal == Serial /\ AssignmentSpec => []SingleJuradoFinal
<1> SUFFICES ASSUME Serial PROVE AssignmentSpec => []SingleJuradoFinal
  OBVIOUS
<1>1. AssignmentInit => FinalInv
  BY DEF AssignmentInit, FinalInv, SingleJuradoFinal, At, Idle
<1>2. TypeInv /\ FinalInv /\ [DeskNext]_assignmentVars => TypeInv' /\ FinalInv'
  BY DeskTypes, FinalNext DEF assignmentVars, TypeInv, AssignmentTypeOK, CallsTypeOK
<1>3. FinalInv => SingleJuradoFinal
  BY DEF FinalInv
<1>4. QED
  BY InitTypes, <1>1, <1>2, <1>3, PTL DEF AssignmentSpec

(***************************************************************************)
(* The counter currentStudents and the asesor rows it counts, for every    *)
(* number of applications and supervisors, while the desk handles one      *)
(* request at a time and does not restart.                                 *)
(***************************************************************************)

LiveCount(s) == Cardinality(LiveRows(s))

\* What the request that runs has still to add to the counter of a supervisor,
\* after it has written the row and before it writes the counter.
Due(r, s) ==
    IF At(r, "assign_count") /\ req[r].sup = s THEN 1
    ELSE IF At(r, "replace_count") /\ req[r].new = s THEN 1
    ELSE IF req[r].pc \in {"decline_count", "replace_uncount"} /\ req[r].sup = s THEN -1
    ELSE 0

\* A request that saves a profile holds the counter as it still is.
SlotCount(r) ==
    /\ \A s \in Supervisors : currentStudents[s] + Due(r, s) = LiveCount(s)
    /\ At(r, "profile_save") => req[r].seen = currentStudents[req[r].sup]

CountInv == CounterMatchesRows /\ \A r \in Requests : SlotCount(r)

CountSteps == {"assign_count", "replace_count", "decline_count", "replace_uncount"}

LEMMA NothingDue ==
    ASSUME NEW r \in Requests, NEW s \in Supervisors
    PROVE  /\ req[r].pc \notin CountSteps => Due(r, s) = 0
           /\ req'[r].pc \notin CountSteps => Due(r, s)' = 0
           /\ Due(r, s) \in Int
BY DEF Due, At, CountSteps

(***************************************************************************)
(* What a write of a row does to the count                                 *)
(***************************************************************************)
LEMMA LiveRowsFinite ==
    ASSUME NEW s \in Supervisors
    PROVE  IsFiniteSet(LiveRows(s)) /\ LiveCount(s) \in Nat
<1>1. LiveRows(s) \subseteq Applications
  BY DEF LiveRows
<1>2. IsFiniteSet(LiveRows(s))
  BY <1>1, CallsAssumption, FS_Subset
<1>3. QED
  BY <1>2, FS_CardinalityType DEF LiveCount

\* The rows of a supervisor that are live change by the application written.
LEMMA RowCounts ==
    ASSUME TypeInv, NEW a \in Applications, NEW s \in Supervisors, NEW st,
           SetAsesor(a, s, st)
    PROVE  /\ \A t \in Supervisors \ {s} : LiveCount(t)' = LiveCount(t)
           /\ (asesor[a][s] \in Live <=> st \in Live) => LiveCount(s)' = LiveCount(s)
           /\ asesor[a][s] \notin Live /\ st \in Live => LiveCount(s)' = LiveCount(s) + 1
           /\ asesor[a][s] \in Live /\ st \notin Live => LiveCount(s)' = LiveCount(s) - 1
<1>1. /\ asesor'[a][s] = st
      /\ \A b \in Applications, t \in Supervisors :
            b # a \/ t # s => asesor'[b][t] = asesor[b][t]
  BY SetAsesorEffect
<1>2. \A t \in Supervisors \ {s} : LiveRows(t)' = LiveRows(t)
  BY <1>1 DEF LiveRows
<1>3. ASSUME asesor[a][s] \in Live <=> st \in Live
      PROVE  LiveRows(s)' = LiveRows(s)
  BY <1>1, <1>3 DEF LiveRows
<1>4. ASSUME asesor[a][s] \notin Live, st \in Live
      PROVE  LiveCount(s)' = LiveCount(s) + 1
  <2>1. LiveRows(s)' = LiveRows(s) \cup {a} /\ a \notin LiveRows(s)
    BY <1>1, <1>4 DEF LiveRows
  <2>2. Cardinality(LiveRows(s) \cup {a}) = Cardinality(LiveRows(s)) + 1
    BY <2>1, LiveRowsFinite, FS_AddElement
  <2>3. QED
    BY <2>1, <2>2 DEF LiveCount
<1>5. ASSUME asesor[a][s] \in Live, st \notin Live
      PROVE  LiveCount(s)' = LiveCount(s) - 1
  <2>1. LiveRows(s)' = LiveRows(s) \ {a} /\ a \in LiveRows(s)
    BY <1>1, <1>5 DEF LiveRows
  <2>2. Cardinality(LiveRows(s) \ {a}) = Cardinality(LiveRows(s)) - 1
    BY <2>1, LiveRowsFinite, FS_RemoveElement
  <2>3. QED
    BY <2>1, <2>2 DEF LiveCount
<1>6. QED
  BY <1>2, <1>3, <1>4, <1>5 DEF LiveCount

LEMMA SameRows ==
    ASSUME UNCHANGED asesor
    PROVE  \A s \in Supervisors : LiveCount(s)' = LiveCount(s)
BY DEF LiveCount, LiveRows

(***************************************************************************)
(* The steps of a request                                                  *)
(***************************************************************************)
\* A step that writes neither and has nothing to count before or after it.
LEMMA IdleCount ==
    ASSUME NEW r \in Requests, SlotCount(r), UNCHANGED <<asesor, currentStudents>>,
           req[r].pc \notin CountSteps, req'[r].pc \notin CountSteps,
           At(r, "profile_save")' => req'[r].seen = currentStudents[req'[r].sup]
    PROVE  SlotCount(r)'
<1>1. \A s \in Supervisors : Due(r, s) = 0 /\ Due(r, s)' = 0 /\ LiveCount(s)' = LiveCount(s)
  BY NothingDue, SameRows
<1>2. QED
  BY <1>1 DEF SlotCount

LEMMA ArriveCount ==
    ASSUME TypeInv, NEW r \in Requests, SlotCount(r), Arrive(r)
    PROVE  SlotCount(r)'
<1> USE DEF Begin, Idle, At, CountSteps, TypeInv, AssignmentTypeOK
<1>1. req[r].pc = "idle" /\ UNCHANGED <<asesor, currentStudents>>
  BY DEF Arrive, AssignCheck, FinalBegin, AcceptCheck, DeclineCheck, AnswerCheck,
         ReplaceCheck, ProfileRead
<1>2. \/ req'[r].pc \in {"assign_insert", "final_check", "accept_save", "decline_save",
                       "replace_save"}
      \/ req'[r].pc = "profile_save" /\ req'[r].seen = currentStudents[req'[r].sup]
  <2>1. CASE \E s \in Supervisors : ProfileRead(r, s)
    BY <2>1 DEF ProfileRead
  <2>2. CASE \E a \in Applications, s \in Supervisors, J \in JuradoLists : AssignCheck(r, a, s, J)
    BY <2>2 DEF AssignCheck
  <2>3. CASE \E a \in Applications, J \in JuradoLists : FinalBegin(r, a, J)
    BY <2>3 DEF FinalBegin
  <2>4. CASE \E a \in Applications, s \in Supervisors : AcceptCheck(r, a, s) \/ DeclineCheck(r, a, s)
    BY <2>4 DEF AcceptCheck, DeclineCheck, AnswerCheck
  <2>5. CASE \E a \in Applications, s, t \in Supervisors : ReplaceCheck(r, a, s, t)
    BY <2>5 DEF ReplaceCheck
  <2>6. QED
    BY <2>1, <2>2, <2>3, <2>4, <2>5 DEF Arrive
<1>3. QED
  BY <1>1, <1>2, IdleCount

\* The steps that write a row and leave the counter to the next one.
LEMMA RowStepCount ==
    ASSUME TypeInv, NEW r \in Requests, SlotInv(r), SlotCount(r),
           \/ AssignInsert(r) \/ AcceptSave(r) \/ DeclineSave(r) \/ ReplaceSave(r)
           \/ ReplaceInsert(r)
    PROVE  SlotCount(r)'
<1> USE DEF SlotCount
<1>0. /\ req[r].pc \in NeedsApp => req[r].app \in Applications
      /\ req[r].pc \in NeedsSup => req[r].sup \in Supervisors
      /\ req[r].pc \in NeedsNew => req[r].new \in Supervisors
      /\ req[r].pc \notin CountSteps => \A s \in Supervisors : Due(r, s) = 0
  BY NothingDue DEF TypeInv, WellFormed
<1>1. CASE Done(r) /\ UNCHANGED <<asesor, currentStudents>>
  <2>1. req'[r].pc = "idle"
    BY <1>1 DEF Done, Idle, TypeInv, AssignmentTypeOK
  <2>2. req[r].pc \notin CountSteps
    BY <1>1 DEF AssignInsert, AcceptSave, DeclineSave, ReplaceSave, ReplaceInsert, At, CountSteps
  <2>3. QED
    BY <2>1, <2>2, <1>1, IdleCount DEF At, CountSteps
<1>2. ASSUME NEW a \in Applications, NEW s \in Supervisors, NEW st, NEW pc, NEW d \in {-1, 0, 1},
             SetAsesor(a, s, st), Goto(r, pc), UNCHANGED currentStudents,
             pc # "profile_save", req[r].pc \notin CountSteps,
             LiveCount(s)' = LiveCount(s) + d,
             \A t \in Supervisors : Due(r, t)' = IF t = s THEN d ELSE 0
      PROVE  SlotCount(r)'
  <2>1. \A t \in Supervisors \ {s} : LiveCount(t)' = LiveCount(t)
    BY <1>2, RowCounts
  <2>2. \A t \in Supervisors : LiveCount(t)' = currentStudents[t] + Due(r, t)'
    <3>1. \A t \in Supervisors : /\ LiveCount(t) = currentStudents[t]
                                 /\ currentStudents[t] \in Int
      BY <1>0, <1>2 DEF TypeInv, AssignmentTypeOK
    <3>2. LiveCount(s)' = currentStudents[s] + d
      BY <1>2, <3>1
    <3>3. \A t \in Supervisors \ {s} : LiveCount(t)' = currentStudents[t] + 0
      BY <2>1, <3>1
    <3>4. QED
      BY <1>2, <3>2, <3>3
  <2>3. req'[r].pc # "profile_save"
    BY <1>2, GotoEffect
  <2>4. QED
    BY <1>2, <2>2, <2>3 DEF At
<1>3. CASE AssignInsert(r) /\ asesor[req[r].app][req[r].sup] = "none"
  <2>0. PICK a \in Applications, s \in Supervisors : a = req[r].app /\ s = req[r].sup
    BY <1>0, <1>3 DEF AssignInsert, At, NeedsApp, NeedsSup, Steps
  <2>1. /\ asesor[a][s] = "none"
        /\ SetAsesor(a, s, "pending_acceptance") /\ Goto(r, "assign_count")
        /\ UNCHANGED currentStudents /\ req[r].pc \notin CountSteps
    BY <1>3, <2>0 DEF AssignInsert, At, CountSteps
  <2>2. LiveCount(s)' = LiveCount(s) + 1
    BY <2>1, RowCounts DEF Live
  <2>3. \A t \in Supervisors : Due(r, t)' = IF t = s THEN 1 ELSE 0
    BY <2>0, <2>1, GotoEffect DEF Due, At
  <2>4. QED
    BY <2>1, <2>2, <2>3, <1>2
<1>4. CASE AcceptSave(r)
  <2>0. PICK a \in Applications, s \in Supervisors : a = req[r].app /\ s = req[r].sup
    BY <1>0, <1>4 DEF AcceptSave, At, NeedsApp, NeedsSup, Steps
  <2>1. /\ asesor[a][s] = "pending_acceptance"
        /\ SetAsesor(a, s, "accepted") /\ Goto(r, "accept_call")
        /\ UNCHANGED currentStudents /\ req[r].pc \notin CountSteps
    BY <1>4, <2>0 DEF AcceptSave, SlotInv, At, CountSteps
  <2>2. LiveCount(s)' = LiveCount(s) + 0
    BY <2>1, RowCounts, LiveRowsFinite DEF Live
  <2>3. \A t \in Supervisors : Due(r, t)' = IF t = s THEN 0 ELSE 0
    BY <2>0, <2>1, GotoEffect DEF Due, At
  <2>4. QED
    BY <2>1, <2>2, <2>3, <1>2
<1>5. CASE DeclineSave(r)
  <2>0. PICK a \in Applications, s \in Supervisors : a = req[r].app /\ s = req[r].sup
    BY <1>0, <1>5 DEF DeclineSave, At, NeedsApp, NeedsSup, Steps
  <2>1. /\ asesor[a][s] = "pending_acceptance"
        /\ SetAsesor(a, s, "declined") /\ Goto(r, "decline_count")
        /\ UNCHANGED currentStudents /\ req[r].pc \notin CountSteps
    BY <1>5, <2>0 DEF DeclineSave, SlotInv, At, CountSteps
  <2>2. LiveCount(s)' = LiveCount(s) + (-1)
    BY <2>1, RowCounts, LiveRowsFinite DEF Live
  <2>3. \A t \in Supervisors : Due(r, t)' = IF t = s THEN -1 ELSE 0
    BY <2>0, <2>1, GotoEffect DEF Due, At
  <2>4. QED
    BY <2>1, <2>2, <2>3, <1>2
<1>6. CASE ReplaceSave(r)
  <2>0. PICK a \in Applications, s \in Supervisors : a = req[r].app /\ s = req[r].sup
    BY <1>0, <1>6 DEF ReplaceSave, At, NeedsApp, NeedsSup, Steps
  <2>1. /\ asesor[a][s] \in Live
        /\ SetAsesor(a, s, "replaced") /\ Goto(r, "replace_uncount")
        /\ UNCHANGED currentStudents /\ req[r].pc \notin CountSteps
    BY <1>6, <2>0 DEF ReplaceSave, SlotInv, At, CountSteps
  <2>2. LiveCount(s)' = LiveCount(s) + (-1)
    BY <2>1, RowCounts, LiveRowsFinite DEF Live
  <2>3. \A t \in Supervisors : Due(r, t)' = IF t = s THEN -1 ELSE 0
    BY <2>0, <2>1, GotoEffect DEF Due, At
  <2>4. QED
    BY <2>1, <2>2, <2>3, <1>2
<1>7. CASE ReplaceInsert(r) /\ asesor[req[r].app][req[r].new] = "none"
  <2>0. PICK a \in Applications, s \in Supervisors : a = req[r].app /\ s = req[r].new
    BY <1>0, <1>7 DEF ReplaceInsert, At, NeedsApp, NeedsNew, Steps
  <2>1. /\ asesor[a][s] = "none"
        /\ SetAsesor(a, s, "pending_acceptance") /\ Goto(r, "replace_count")
        /\ UNCHANGED currentStudents /\ req[r].pc \notin CountSteps
    BY <1>7, <2>0 DEF ReplaceInsert, At, CountSteps
  <2>2. LiveCount(s)' = LiveCount(s) + 1
    BY <2>1, RowCounts DEF Live
  <2>3. req'[r].new = req[r].new
    BY <2>1 DEF Goto, TypeInv, AssignmentTypeOK, Request
  <2>4. \A t \in Supervisors : Due(r, t)' = IF t = s THEN 1 ELSE 0
    BY <2>0, <2>1, <2>3, GotoEffect DEF Due, At
  <2>5. QED
    BY <2>1, <2>2, <2>4, <1>2
<1> HIDE DEF SlotCount
<1>8. QED
  BY <1>1, <1>3, <1>4, <1>5, <1>6, <1>7 DEF AssignInsert, ReplaceInsert

\* The steps that write the counter of one supervisor.
LEMMA CountStep ==
    ASSUME TypeInv, NEW r \in Requests, SlotCount(r),
           AssignCount(r) \/ DeclineCount(r) \/ ReplaceUncount(r) \/ ReplaceCount(r)
    PROVE  SlotCount(r)'
<1> USE DEF SlotCount
<1>1. ASSUME NEW s \in Supervisors, NEW d \in {-1, 1}, Count(s, d), UNCHANGED asesor,
             \A t \in Supervisors : Due(r, t) = IF t = s THEN d ELSE 0,
             req'[r].pc \in {"idle", "assign_call", "decline_call", "replace_insert"}
      PROVE  SlotCount(r)'
  <2>1. \A t \in Supervisors : currentStudents'[t] = currentStudents[t] + Due(r, t)
    BY <1>1 DEF Count, TypeInv, AssignmentTypeOK
  <2>2. \A t \in Supervisors : Due(r, t)' = 0 /\ LiveCount(t)' = LiveCount(t)
    BY <1>1, NothingDue, SameRows DEF CountSteps
  <2>3. \A t \in Supervisors : currentStudents'[t] + 0 = LiveCount(t)'
    BY <2>1, <2>2, LiveRowsFinite
  <2>4. QED
    BY <1>1, <2>2, <2>3 DEF At
<1>2. /\ req[r].pc \in NeedsSup => req[r].sup \in Supervisors
      /\ req[r].pc \in NeedsNew => req[r].new \in Supervisors
  BY DEF TypeInv, WellFormed
<1>3. CASE AssignCount(r)
  <2>1. req[r].pc = "assign_count" /\ req[r].sup \in Supervisors
    BY <1>2, <1>3 DEF AssignCount, At, NeedsSup, Steps
  <2>2. req'[r].pc = "assign_call"
    BY <1>3, GotoEffect DEF AssignCount
  <2>3. \A t \in Supervisors : Due(r, t) = IF t = req[r].sup THEN 1 ELSE 0
    BY <2>1 DEF Due, At
  <2>4. QED
    BY <1>1, <1>3, <2>1, <2>2, <2>3 DEF AssignCount
<1>4. CASE DeclineCount(r) \/ ReplaceUncount(r)
  <2>1. req[r].pc \in {"decline_count", "replace_uncount"} /\ req[r].sup \in Supervisors
    BY <1>2, <1>4 DEF DeclineCount, ReplaceUncount, At, NeedsSup, Steps
  <2>2. req'[r].pc \in {"decline_call", "replace_insert"}
    BY <1>4, GotoEffect DEF DeclineCount, ReplaceUncount
  <2>3. \A t \in Supervisors : Due(r, t) = IF t = req[r].sup THEN -1 ELSE 0
    BY <2>1 DEF Due, At
  <2>4. QED
    BY <1>1, <1>4, <2>1, <2>2, <2>3 DEF DeclineCount, ReplaceUncount
<1>5. CASE ReplaceCount(r)
  <2>1. req[r].pc = "replace_count" /\ req[r].new \in Supervisors
    BY <1>2, <1>5 DEF ReplaceCount, At, NeedsNew, Steps
  <2>2. req'[r].pc = "idle"
    BY <1>5 DEF ReplaceCount, Done, Idle, TypeInv, AssignmentTypeOK
  <2>3. \A t \in Supervisors : Due(r, t) = IF t = req[r].new THEN 1 ELSE 0
    BY <2>1 DEF Due, At
  <2>4. QED
    BY <1>1, <1>5, <2>1, <2>2, <2>3 DEF ReplaceCount
<1>6. QED
  BY <1>3, <1>4, <1>5

\* The steps that touch neither rows nor counter, or write back what is there.
LEMMA OtherCount ==
    ASSUME TypeInv, NEW r \in Requests, SlotCount(r),
           \/ AssignCall(r) \/ AssignDone(r) \/ JuradoInsert(r) \/ FinalInsert(r)
           \/ \E j \in Supervisors : AssignJurado(r, j) \/ FinalCheck(r, j)
           \/ AcceptCall(r) \/ DeclineCall(r) \/ ProfileSave(r)
    PROVE  SlotCount(r)'
<1>1. req[r].pc \notin CountSteps
  BY DEF AssignCall, AssignDone, JuradoInsert, FinalInsert, AssignJurado, FinalCheck,
         AcceptCall, DeclineCall, ProfileSave, At, CountSteps
<1>2. req'[r].pc \in {"idle", "assign_jurados", "jurado_insert", "final_check",
                      "final_insert"}
  <2>1. CASE \E j \in Supervisors : AssignJurado(r, j) \/ FinalCheck(r, j)
    BY <2>1, JuradoRound
  <2>2. CASE AssignCall(r) \/ JuradoInsert(r) \/ FinalInsert(r)
    <3>1. Done(r) \/ Goto(r, "assign_jurados") \/ Goto(r, "final_check")
      BY <2>2 DEF AssignCall, JuradoInsert, FinalInsert
    <3>2. QED
      BY <3>1, GotoEffect DEF Done, Idle, TypeInv, AssignmentTypeOK
  <2>3. CASE AssignDone(r) \/ AcceptCall(r) \/ DeclineCall(r) \/ ProfileSave(r)
    <3>1. Done(r)
      BY <2>3 DEF AssignDone, AcceptCall, DeclineCall, ProfileSave
    <3>2. QED
      BY <3>1 DEF Done, Idle, TypeInv, AssignmentTypeOK
  <2>4. QED
    BY <2>1, <2>2, <2>3
<1>3. UNCHANGED <<asesor, currentStudents>>
  <2>1. CASE ProfileSave(r)
    <3>1. /\ req[r].seen = currentStudents[req[r].sup] /\ UNCHANGED asesor
          /\ currentStudents' = [currentStudents EXCEPT ![req[r].sup] = req[r].seen]
      BY <2>1 DEF ProfileSave, SlotCount
    <3>2. QED
      BY <3>1 DEF TypeInv, AssignmentTypeOK
  <2>2. CASE ~ProfileSave(r)
    BY <2>2 DEF AssignCall, AssignDone, JuradoInsert, FinalInsert, AssignJurado,
                FinalCheck, AcceptCall, DeclineCall
  <2>3. QED
    BY <2>1, <2>2
<1>4. QED
  BY <1>1, <1>2, <1>3, IdleCount DEF At, CountSteps

LEMMA CountNext ==
    ASSUME Serial, TypeInv, SeatInv, CountInv, [AssignmentNext]_assignmentVars
    PROVE  CountInv'
<1>1. CASE UNCHANGED <<asesor, currentStudents, req>>
  <2>1. \A s \in Supervisors : LiveRows(s)' = LiveRows(s)
    BY <1>1 DEF LiveRows
  <2>2. QED
    BY <1>1, <2>1
    DEF CountInv, CounterMatchesRows, SlotCount, LiveCount, Due, Quiet, At
<1>2. ASSUME NEW r \in Requests, Arrive(r) \/ Advance(r)
      PROVE  CountInv'
  <2>1. SlotCount(r)'
    BY <1>2, ArriveCount, RowStepCount, CountStep, OtherCount
    DEF SeatInv, CountInv, Advance
  <2>2. (\A x \in Requests : SlotCount(x))'
    BY <2>1 DEF Serial
  <2>3. ASSUME Quiet'
        PROVE  \A s \in Supervisors : currentStudents'[s] = LiveCount(s)'
    <3>1. req'[r].pc = "idle"
      BY <2>3 DEF Quiet, At
    <3>2. \A s \in Supervisors : Due(r, s)' = 0
      BY <3>1, NothingDue DEF CountSteps
    <3>3. \A s \in Supervisors : currentStudents'[s] \in Int
      BY <1>2, DeskTypes DEF DeskNext, AssignmentNext, TypeInv, AssignmentTypeOK
    <3>4. QED
      BY <2>1, <3>2, <3>3 DEF SlotCount
  <2>4. QED
    BY <2>2, <2>3 DEF CountInv, CounterMatchesRows, LiveCount
<1>3. QED
  BY <1>1, <1>2 DEF AssignmentNext, Disconnect, AutoDisconnect, assignmentVars

LEMMA CountInit == AssignmentInit => CountInv
<1> SUFFICES ASSUME AssignmentInit PROVE CountInv
  OBVIOUS
<1>1. \A s \in Supervisors : currentStudents[s] = 0 /\ LiveRows(s) = {}
  BY DEF AssignmentInit, LiveRows, Live
<1>2. Cardinality({}) = 0
  BY FS_EmptySet
<1>3. \A r \in Requests : req[r].pc = "idle"
  BY DEF AssignmentInit, Idle
<1>4. \A r \in Requests, s \in Supervisors : Due(r, s) = 0
  BY <1>3, NothingDue DEF CountSteps
<1>5. \A s \in Supervisors : currentStudents[s] = LiveCount(s)
  BY <1>1, <1>2 DEF LiveCount
<1>6. ASSUME NEW r \in Requests
      PROVE  SlotCount(r)
  <2>1. \A s \in Supervisors : currentStudents[s] + Due(r, s) = LiveCount(s)
    BY <1>1, <1>4, <1>5
  <2>2. QED
    BY <1>3, <2>1 DEF SlotCount, At
<1>7. QED
  BY <1>5, <1>6 DEF CountInv, CounterMatchesRows, LiveCount

\* With one request at a time, and while the process does not restart, the
\* counter of every supervisor is the number of his or her live rows whenever no
\* request runs, through every path of assign, decline and replace.
THEOREM SerialCounter == Serial /\ CalmSpec => []CounterMatchesRows
<1> SUFFICES ASSUME Serial PROVE CalmSpec => []CounterMatchesRows
  OBVIOUS
<1>1. TypeInv /\ SeatInv /\ CountInv /\ [AssignmentNext]_assignmentVars
         => TypeInv' /\ SeatInv' /\ CountInv'
  <2>1. [AssignmentNext]_assignmentVars => [DeskNext]_assignmentVars
    BY DEF DeskNext
  <2>2. QED
    BY <2>1, SerialStep, CountNext
<1>2. CountInv => CounterMatchesRows
  BY DEF CountInv
<1>3. QED
  BY InitTypes, SeatInit, CountInit, <1>1, <1>2, PTL DEF CalmSpec

(***************************************************************************)
(* The desk and the lifecycle: type correctness                            *)
(***************************************************************************)
UserOK == {q \in UserRequest : q.pc # "idle" => q.app \in Applications}

LifecycleInv == LifecycleTypeOK /\ user \in [Users -> UserOK]

ProcessTypes == TypeInv /\ LifecycleInv

LEMMA UserIdleOK == UserIdle \in UserOK
BY DEF UserIdle, UserOK, UserRequest, UserSteps, Status

LEMMA CallGotoType ==
    ASSUME CallsTypeOK, NEW c \in calls, NEW pc \in CallSteps, CallGoto(c, pc)
    PROVE  CallsTypeOK'
<1>1. [c EXCEPT !.pc = pc] \in Call
  BY DEF CallsTypeOK, Call
<1>2. QED
  BY <1>1 DEF CallsTypeOK, CallGoto

LEMMA CallEndType ==
    ASSUME CallsTypeOK, NEW c \in calls, CallEnd(c)
    PROVE  CallsTypeOK'
BY DEF CallsTypeOK, CallEnd

LEMMA UserTypes ==
    ASSUME LifecycleInv, NEW u \in Users, UserArrive(u) \/ UserAdvance(u)
    PROVE  LifecycleInv'
<1> USE DEF LifecycleInv, LifecycleTypeOK
<1>1. ASSUME NEW a \in Applications, NEW pc \in {"save", "record_progress", "record_close"}, NEW to \in Status,
             UserBegin(u, a, pc, to)
      PROVE  LifecycleInv'
  <2> DEFINE q == [pc |-> pc, app |-> a, to |-> to]
  <2>1. q \in UserOK /\ q \in UserRequest
    BY DEF UserOK, UserRequest, UserSteps
  <2>2. user' = [user EXCEPT ![u] = q]
    BY <1>1 DEF UserBegin
  <2> HIDE DEF q
  <2>3. user' \in [Users -> UserOK] /\ user' \in [Users -> UserRequest]
    BY <2>1, <2>2 DEF UserOK
  <2>4. QED
    BY <1>1, <2>3 DEF UserBegin
<1>2. CASE UserArrive(u)
  <2>1. PICK a \in Applications :
           \/ \E to \in Status : CompanyCheck(u, a, to) \/ CloseCheck(u, a, to)
           \/ WithdrawCheck(u, a) \/ DeactivateCheck(u, a) \/ NotesCheck(u, a)
           \/ ProgressCheck(u, a)
    BY <1>2 DEF UserArrive
  <2>2. \E to \in Status, pc \in {"save", "record_progress", "record_close"} :
           UserBegin(u, a, pc, to)
    BY <2>1 DEF CompanyCheck, CloseCheck, WithdrawCheck, DeactivateCheck, NotesCheck,
                ProgressCheck, Status
  <2>3. QED
    BY <1>1, <2>2
<1>3. ASSUME NEW pc \in UserSteps \ {"idle"}, user[u].pc = pc
      PROVE  user[u].app \in Applications /\ user[u].to \in Status
  BY <1>3 DEF UserOK, UserRequest, UserSteps
<1>4. CASE UserSave(u) \/ CloseApplication(u)
  <2>1. /\ status' = [status EXCEPT ![user[u].app] = user[u].to]
        /\ user' = [user EXCEPT ![u] = UserIdle]
        /\ user[u].app \in Applications /\ user[u].to \in Status
        /\ UNCHANGED <<deliverables, record, recordStatus, submission>>
    BY <1>3, <1>4 DEF UserSave, CloseApplication, UserSteps
  <2>2. QED
    BY <2>1, UserIdleOK DEF UserOK
<1>5. CASE CloseRecord(u)
  <2>1. user[u].app \in Applications
    BY <1>3, <1>5 DEF CloseRecord, UserSteps
  <2>2. [user[u] EXCEPT !.pc = "status_close"] \in UserOK
    BY <2>1 DEF UserOK, UserRequest, UserSteps
  <2>3. user' = [user EXCEPT ![u] = [user[u] EXCEPT !.pc = "status_close"]]
    BY <1>5 DEF CloseRecord
  <2>4. user' \in [Users -> UserOK] /\ user' \in [Users -> UserRequest]
    BY <2>2, <2>3 DEF UserOK
  <2>5. recordStatus' \in [Applications -> RecordStatus]
    BY <1>5, <2>1 DEF CloseRecord, RecordStatus
  <2>6. QED
    BY <1>5, <2>4, <2>5 DEF CloseRecord
<1>6. CASE ProgressRecord(u)
  <2>1. user[u].app \in Applications
    BY <1>3, <1>6 DEF ProgressRecord, UserSteps
  <2>2. QED
    BY <1>6, <2>1, UserIdleOK DEF ProgressRecord, UserOK, RecordStatus
<1>7. QED
  BY <1>2, <1>4, <1>5, <1>6 DEF UserAdvance

LEMMA ServeTypes ==
    ASSUME LifecycleInv, CallsTypeOK, NEW c \in calls, Serve(c) \/ LoseCall(c)
    PROVE  LifecycleInv' /\ CallsTypeOK'
<1> USE DEF LifecycleInv, LifecycleTypeOK
<1>1. c \in Call /\ c.app \in Applications /\ c.sup \in Supervisors
  BY DEF CallsTypeOK, Call
<1>2. CASE ShiftCheck(c) \/ StartRecordCheck(c) \/ LoseCall(c)
  <2>1. UNCHANGED applicationVars
    BY <1>2 DEF ShiftCheck, StartRecordCheck, LoseCall
  <2>2. CallGoto(c, "save") \/ CallGoto(c, "record_save") \/ CallEnd(c)
    BY <1>2 DEF ShiftCheck, StartRecordCheck, LoseCall
  <2>3. CallsTypeOK'
    BY <2>2, CallGotoType, CallEndType DEF CallSteps
  <2>4. QED
    BY <2>1, <2>3 DEF applicationVars
<1>3. CASE ShiftSave(c)
  BY <1>1, <1>3, CallEndType DEF ShiftSave, ShiftTo, Status
<1>4. CASE StartSave(c)
  BY <1>1, <1>4, CallGotoType DEF StartSave, Status, CallSteps
<1>5. CASE StartDeliverables(c)
  <2>1. PICK copied \in {0, 1} : deliverables' = [deliverables EXCEPT ![c.app] = @ + copied]
    BY <1>5 DEF StartDeliverables
  <2>2. deliverables' \in [Applications -> Nat]
    BY <1>1, <2>1
  <2>3. CallsTypeOK'
    BY <1>5, CallGotoType DEF StartDeliverables, CallSteps
  <2>4. QED
    BY <1>5, <2>2, <2>3 DEF StartDeliverables
<1>6. CASE StartRecordSave(c)
  <2>1. CallsTypeOK'
    BY <1>6, CallGotoType, CallEndType DEF StartRecordSave, CallSteps
  <2>2. QED
    BY <1>1, <1>6, <2>1 DEF StartRecordSave, RecordStatus
<1>7. CASE StartSubmissionSave(c)
  BY <1>1, <1>7, CallEndType DEF StartSubmissionSave
<1>8. QED
  BY <1>2, <1>3, <1>4, <1>5, <1>6, <1>7 DEF Serve

LEMMA CrashTypes ==
    ASSUME LifecycleInv, CallsTypeOK, ApplicationCrash
    PROVE  LifecycleInv' /\ CallsTypeOK'
BY UserIdleOK DEF ApplicationCrash, LifecycleInv, LifecycleTypeOK, CallsTypeOK, UserOK

LEMMA NextTypes == ProcessTypes /\ [Next]_vars => ProcessTypes'
<1> SUFFICES ASSUME ProcessTypes, [Next]_vars PROVE ProcessTypes'
  OBVIOUS
<1> USE DEF ProcessTypes
<1>1. CASE DeskNext /\ UNCHANGED applicationVars
  BY <1>1, DeskTypes DEF LifecycleInv, LifecycleTypeOK, applicationVars
<1>2. CASE LifecycleNext /\ UNCHANGED deskVars
  <2>1. LifecycleInv' /\ CallsTypeOK'
    <3>1. CASE \E u \in Users : UserArrive(u) \/ UserAdvance(u)
      <4>1. UNCHANGED calls
        BY <3>1 DEF UserArrive, UserAdvance, CompanyCheck, CloseCheck, WithdrawCheck,
                    DeactivateCheck, NotesCheck, ProgressCheck, UserBegin, UserSave,
                    ProgressRecord, CloseRecord, CloseApplication
      <4>2. QED
        BY <3>1, <4>1, UserTypes DEF TypeInv, AssignmentTypeOK, CallsTypeOK
    <3>2. QED
      BY <1>2, <3>1, ServeTypes, CrashTypes
      DEF LifecycleNext, TypeInv, AssignmentTypeOK
  <2>2. QED
    BY <1>2, <2>1 DEF deskVars, TypeInv, AssignmentTypeOK
<1>3. CASE UNCHANGED vars
  BY <1>3 DEF vars, deskVars, applicationVars, TypeInv, AssignmentTypeOK, CallsTypeOK,
              LifecycleInv, LifecycleTypeOK
<1>4. QED
  BY <1>1, <1>2, <1>3 DEF Next, DeskNext

LEMMA ProcessInitTypes == Init => ProcessTypes
<1>1. ASSUME LifecycleInit
      PROVE  LifecycleInv
  <2>1. status \in [Applications -> Status]
    BY <1>1, LifecycleAssumption DEF LifecycleInit, Status
  <2>2. user \in [Users -> UserOK] /\ user \in [Users -> UserRequest]
    BY <1>1, UserIdleOK DEF LifecycleInit, UserOK
  <2>3. QED
    BY <1>1, <2>1, <2>2 DEF LifecycleInit, LifecycleInv, LifecycleTypeOK, RecordStatus
<1>2. QED
  BY <1>1, InitTypes DEF Init, ProcessTypes

\* The state of both services keeps its types, and a call names an application
\* and a supervisor at every step of the handler that serves it.
THEOREM TypeCorrect == Spec => []TypeOK
<1>1. ProcessTypes => TypeOK
  BY DEF ProcessTypes, TypeInv, LifecycleInv, TypeOK
<1>2. QED
  BY ProcessInitTypes, NextTypes, <1>1, PTL DEF Spec

(***************************************************************************)
(* An academic record is for an asesor who has answered                    *)
(*                                                                         *)
(* No write makes an answered row pending again, so that what a handler    *)
(* has seen answered stays so: in the slot that is about to call, in the   *)
(* call, and in the record.                                                *)
(***************************************************************************)
Answered(a, s) == asesor[a][s] \notin {"none", "pending_acceptance"}

CallerAnswered ==
    \A r \in Requests : At(r, "accept_call") => Answered(req[r].app, req[r].sup)

LEMMA RowWrite ==
    ASSUME TypeInv, DeskNext
    PROVE  \/ UNCHANGED asesor
           \/ \E a \in Applications, s \in Supervisors, st \in AsesorStatus :
                 /\ SetAsesor(a, s, st)
                 /\ st = "pending_acceptance" => asesor[a][s] = "none"
                 /\ st # "none"
<1> DEFINE Goal ==
       \/ UNCHANGED asesor
       \/ \E a \in Applications, s \in Supervisors, st \in AsesorStatus :
             /\ SetAsesor(a, s, st)
             /\ st = "pending_acceptance" => asesor[a][s] = "none"
             /\ st # "none"
<1>1. ASSUME NEW r \in Requests, Arrive(r)
      PROVE  Goal
  BY <1>1 DEF Arrive, AssignCheck, FinalBegin, AcceptCheck, DeclineCheck, AnswerCheck,
              ReplaceCheck, ProfileRead
<1>2. ASSUME NEW r \in Requests,
             AssignInsert(r) \/ AcceptSave(r) \/ DeclineSave(r) \/ ReplaceSave(r)
      PROVE  Goal
  <2>1. req[r].app \in Applications /\ req[r].sup \in Supervisors
    BY <1>2 DEF AssignInsert, AcceptSave, DeclineSave, ReplaceSave, At, TypeInv, WellFormed,
                NeedsApp, NeedsSup, Steps
  <2>2. QED
    BY <1>2, <2>1 DEF AssignInsert, AcceptSave, DeclineSave, ReplaceSave, AsesorStatus, Live
<1>3. ASSUME NEW r \in Requests, ReplaceInsert(r)
      PROVE  Goal
  <2>1. req[r].app \in Applications /\ req[r].new \in Supervisors
    BY <1>3 DEF ReplaceInsert, At, TypeInv, WellFormed, NeedsApp, NeedsNew, Steps
  <2>2. QED
    BY <1>3, <2>1 DEF ReplaceInsert, AsesorStatus, Live
<1>4. ASSUME NEW r \in Requests, Advance(r),
             ~(AssignInsert(r) \/ AcceptSave(r) \/ DeclineSave(r) \/ ReplaceSave(r)
               \/ ReplaceInsert(r))
      PROVE  UNCHANGED asesor
  BY <1>4 DEF Advance, AssignCount, AssignCall, AssignDone, AssignJurado,
              JuradoInsert, FinalCheck, FinalInsert, AcceptCall, DeclineCount,
              DeclineCall, ReplaceUncount, ReplaceCount, ProfileSave
<1>5. QED
  BY <1>1, <1>2, <1>3, <1>4 DEF DeskNext, AssignmentNext, Disconnect, AutoDisconnect, Crash

LEMMA AnsweredStays ==
    ASSUME TypeInv, DeskNext, NEW a \in Applications, NEW s \in Supervisors,
           Answered(a, s)
    PROVE  Answered(a, s)'
BY RowWrite, SetAsesorEffect DEF Answered

\* Only acceptAssignment gets to the call, and it has just written the row.
LEMMA ReachAcceptCall ==
    ASSUME TypeInv, NEW r \in Requests, Arrive(r) \/ Advance(r),
           req'[r].pc = "accept_call"
    PROVE  AcceptSave(r)
<1> USE DEF TypeInv, AssignmentTypeOK
<1>1. ASSUME Arrive(r) PROVE FALSE
  BY <1>1 DEF Arrive, AssignCheck, FinalBegin, AcceptCheck, DeclineCheck, AnswerCheck,
              ReplaceCheck, ProfileRead, Begin, Idle
<1>2. CASE AssignInsert(r) \/ DeclineSave(r) \/ ReplaceSave(r) \/ ReplaceUncount(r)
           \/ ReplaceInsert(r)
  <2>1. \/ \E pc \in {"assign_count", "decline_count", "replace_uncount", "replace_insert",
                       "replace_count"} : Goto(r, pc)
        \/ Done(r)
    BY <1>2 DEF AssignInsert, DeclineSave, ReplaceSave, ReplaceUncount, ReplaceInsert
  <2>2. QED
    BY <2>1, GotoEffect DEF Done, Idle
<1>3. QED
  BY <1>1, <1>2, QuietStep DEF Advance

LEMMA OtherSlots ==
    ASSUME TypeInv, NEW r \in Requests, NEW x \in Requests \ {r}, Arrive(r) \/ Advance(r)
    PROVE  req'[x] = req[x]
<1>1. CASE Arrive(r)
  BY <1>1 DEF Arrive, AssignCheck, FinalBegin, AcceptCheck, DeclineCheck, AnswerCheck,
              ReplaceCheck, ProfileRead, Begin, TypeInv, AssignmentTypeOK
<1>2. CASE Advance(r)
  BY <1>2 DEF Advance, AssignInsert, AssignCount, AssignCall, AssignDone, AssignJurado,
              JuradoInsert, FinalCheck, FinalInsert, AcceptSave, AcceptCall, DeclineSave,
              DeclineCount, DeclineCall, ReplaceSave, ReplaceUncount, ReplaceInsert,
              ReplaceCount, ProfileSave, Goto, Done, TypeInv, AssignmentTypeOK
<1>3. QED
  BY <1>1, <1>2

\* A request about to call was so before the step, or has just saved the row.
LEMMA AboutToCall ==
    ASSUME TypeInv, DeskNext, NEW x \in Requests, req'[x].pc = "accept_call"
    PROVE  req'[x] = req[x] \/ AcceptSave(x)
<1>1. ASSUME NEW r \in Requests, Arrive(r) \/ Advance(r)
      PROVE  req'[x] = req[x] \/ AcceptSave(x)
  BY <1>1, OtherSlots, ReachAcceptCall
<1>2. CASE Crash
  BY <1>2 DEF Crash, Idle
<1>3. QED
  BY <1>1, <1>2 DEF DeskNext, AssignmentNext, Disconnect, AutoDisconnect

LEMMA CallerStays ==
    ASSUME TypeInv, CallerAnswered, DeskNext
    PROVE  CallerAnswered'
<1> SUFFICES ASSUME NEW x \in Requests, req'[x].pc = "accept_call"
             PROVE  Answered(req[x].app, req[x].sup)'
  BY DEF CallerAnswered, At
<1>1. CASE req'[x] = req[x]
  <2>1. req[x].app \in Applications /\ req[x].sup \in Supervisors
    BY <1>1 DEF TypeInv, WellFormed, NeedsApp, NeedsSup, Steps
  <2>2. QED
    BY <1>1, <2>1, AnsweredStays DEF CallerAnswered, At, Answered
<1>2. CASE AcceptSave(x)
  <2>1. req[x].app \in Applications /\ req[x].sup \in Supervisors
    BY <1>2 DEF AcceptSave, At, TypeInv, WellFormed, NeedsApp, NeedsSup, Steps
  <2>2. QED
    BY <1>2, <2>1, SetAsesorEffect, GotoEffect DEF AcceptSave, Answered
<1>3. QED
  BY <1>1, <1>2, AboutToCall

LEMMA NewCall ==
    ASSUME DeskNext, NEW c \in calls', c \notin calls, c.kind = "start-progress"
    PROVE  \E r \in Requests : AcceptCall(r) /\ c.app = req[r].app /\ c.sup = req[r].sup
<1>1. ASSUME NEW r \in Requests, Arrive(r)
      PROVE  UNCHANGED calls
  BY <1>1 DEF Arrive, AssignCheck, FinalBegin, AcceptCheck, DeclineCheck, AnswerCheck,
              ReplaceCheck, ProfileRead
<1>2. ASSUME NEW r \in Requests, AssignCall(r) \/ DeclineCall(r)
      PROVE  FALSE
  BY <1>2 DEF AssignCall, DeclineCall, Send
<1>3. ASSUME NEW r \in Requests, Advance(r), ~AssignCall(r), ~DeclineCall(r), ~AcceptCall(r)
      PROVE  UNCHANGED calls
  BY <1>3 DEF Advance, AssignInsert, AssignCount, AssignDone, AssignJurado,
              JuradoInsert, FinalCheck, FinalInsert, AcceptSave, DeclineSave,
              DeclineCount, ReplaceSave, ReplaceUncount, ReplaceInsert, ReplaceCount,
              ProfileSave
<1>4. PICK r \in Requests : AcceptCall(r)
  BY <1>1, <1>2, <1>3 DEF DeskNext, AssignmentNext, Disconnect, AutoDisconnect, Crash
<1>5. QED
  BY <1>4 DEF AcceptCall, Send

\* Serving a call leaves its application and its supervisor as they are.
LEMMA ServedCalls ==
    ASSUME CallsTypeOK, LifecycleNext, NEW d \in calls'
    PROVE  \E c \in calls : d.kind = c.kind /\ d.app = c.app /\ d.sup = c.sup
<1>1. ASSUME NEW c \in calls, NEW pc, CallGoto(c, pc)
      PROVE  \E e \in calls : d.kind = e.kind /\ d.app = e.app /\ d.sup = e.sup
  BY <1>1 DEF CallGoto, CallsTypeOK, Call
<1>2. ASSUME NEW c \in calls, CallEnd(c)
      PROVE  d \in calls
  BY <1>2 DEF CallEnd
<1>3. ASSUME NEW c \in calls, Serve(c) \/ LoseCall(c)
      PROVE  CallEnd(c) \/ \E pc : CallGoto(c, pc)
  BY <1>3 DEF Serve, LoseCall, ShiftCheck, ShiftSave, StartSave, StartDeliverables,
              StartRecordCheck, StartRecordSave, StartSubmissionSave
<1>4. ASSUME NEW u \in Users, UserArrive(u) \/ UserAdvance(u)
      PROVE  UNCHANGED calls
  BY <1>4 DEF UserArrive, UserAdvance, CompanyCheck, CloseCheck, WithdrawCheck,
              DeactivateCheck, NotesCheck, ProgressCheck, UserBegin, UserSave,
              ProgressRecord, CloseRecord, CloseApplication
<1>5. QED
  BY <1>1, <1>2, <1>3, <1>4 DEF LifecycleNext, ApplicationCrash

\* A record appears in one step only, and never over another.
LEMMA RecordWrite ==
    ASSUME ProcessTypes, LifecycleNext, NEW a \in Applications, record'[a] # record[a]
    PROVE  /\ record[a] = None
           /\ \E c \in calls : /\ c.kind = "start-progress" /\ c.app = a
                               /\ record'[a] = c.sup /\ c.sup \in Supervisors
<1>1. ASSUME NEW u \in Users, UserArrive(u) \/ UserAdvance(u)
      PROVE  UNCHANGED record
  BY <1>1 DEF UserArrive, UserAdvance, CompanyCheck, CloseCheck, WithdrawCheck,
              DeactivateCheck, NotesCheck, ProgressCheck, UserBegin, UserSave,
              ProgressRecord, CloseRecord, CloseApplication
<1>2. PICK c \in calls : StartRecordSave(c)
  BY <1>1 DEF LifecycleNext, Serve, LoseCall, ApplicationCrash, ShiftCheck, ShiftSave,
              StartSave, StartDeliverables, StartRecordCheck, StartSubmissionSave,
              applicationVars
<1>3. c.app \in Applications /\ c.sup \in Supervisors
  BY DEF ProcessTypes, TypeInv, AssignmentTypeOK, CallsTypeOK, Call
<1>4. QED
  BY <1>2, <1>3 DEF StartRecordSave, CallAt, ProcessTypes, LifecycleInv, LifecycleTypeOK

BackedInv == RecordBacked /\ CallerAnswered

LEMMA BackedNext == ProcessTypes /\ BackedInv /\ [Next]_vars => BackedInv'
<1> SUFFICES ASSUME ProcessTypes, BackedInv, [Next]_vars PROVE BackedInv'
  OBVIOUS
<1> USE DEF ProcessTypes, BackedInv
<1>0. /\ \A c \in calls : c.app \in Applications /\ c.sup \in Supervisors
      /\ \A a \in Applications : record[a] # None => record[a] \in Supervisors
  BY DEF TypeInv, AssignmentTypeOK, CallsTypeOK, Call, LifecycleInv, LifecycleTypeOK
<1>1. CASE DeskNext /\ UNCHANGED applicationVars
  <2>1. ASSUME NEW a \in Applications, record'[a] # None
        PROVE  Answered(a, record[a])'
    <3>1. record' = record
      BY <1>1 DEF applicationVars
    <3>2. record[a] \in Supervisors /\ Answered(a, record[a])
      BY <1>0, <2>1, <3>1 DEF RecordBacked, Answered
    <3>3. \A s \in Supervisors : Answered(a, s) => Answered(a, s)'
      BY <1>1, AnsweredStays
    <3>4. QED
      BY <3>1, <3>2, <3>3 DEF Answered
  <2>2. ASSUME NEW c \in calls', c.kind = "start-progress"
        PROVE  Answered(c.app, c.sup)'
    <3>1. CASE c \in calls
      BY <1>0, <1>1, <2>2, <3>1, AnsweredStays DEF RecordBacked, Answered
    <3>2. CASE c \notin calls
      <4>1. PICK r \in Requests :
               AcceptCall(r) /\ c.app = req[r].app /\ c.sup = req[r].sup
        BY <1>1, <2>2, <3>2, NewCall
      <4>2. Answered(req[r].app, req[r].sup) /\ UNCHANGED asesor
        BY <4>1 DEF AcceptCall, CallerAnswered
      <4>3. QED
        BY <4>1, <4>2 DEF Answered
    <3>3. QED
      BY <3>1, <3>2
  <2>3. CallerAnswered'
    BY <1>1, CallerStays
  <2>4. QED
    BY <2>1, <2>2, <2>3 DEF RecordBacked, Answered
<1>2. CASE LifecycleNext /\ UNCHANGED deskVars
  <2>1. UNCHANGED <<asesor, req>>
    BY <1>2 DEF deskVars
  <2>2. ASSUME NEW a \in Applications, record'[a] # None
        PROVE  asesor[a][record'[a]] \notin {"none", "pending_acceptance"}
    BY <1>2, <2>2, RecordWrite DEF RecordBacked
  <2>3. ASSUME NEW c \in calls', c.kind = "start-progress"
        PROVE  asesor[c.app][c.sup] \notin {"none", "pending_acceptance"}
    BY <1>2, <2>3, ServedCalls DEF RecordBacked, TypeInv, AssignmentTypeOK
  <2>4. QED
    BY <2>1, <2>2, <2>3 DEF RecordBacked, CallerAnswered, At, Answered
<1>3. CASE UNCHANGED vars
  BY <1>3 DEF vars, deskVars, applicationVars, RecordBacked, CallerAnswered, At, Answered
<1>4. QED
  BY <1>1, <1>2, <1>3 DEF Next, DeskNext

LEMMA BackedInit == Init => BackedInv
BY DEF Init, AssignmentInit, LifecycleInit, BackedInv, RecordBacked, CallerAnswered, At, Idle

\* Whatever requests overlap, whatever call is lost and whenever a service
\* restarts, a record is for an asesor who was invited and has answered.
THEOREM RecordsAreBacked == Spec => []RecordBacked
<1>1. BackedInv => RecordBacked
  BY DEF BackedInv
<1>2. QED
  BY ProcessInitTypes, NextTypes, BackedInit, BackedNext, <1>1, PTL DEF Spec

(***************************************************************************)
(* A record keeps its assignment                                           *)
(***************************************************************************)
\* What RecordOnce asks of a step.
RecordStep == \A a \in Applications : record[a] # None => record'[a] = record[a]

LEMMA RecordNext ==
    ASSUME ProcessTypes, [Next]_vars
    PROVE  RecordStep
<1>1. CASE UNCHANGED record
  BY <1>1 DEF RecordStep
<1>2. CASE LifecycleNext
  BY <1>2, RecordWrite DEF RecordStep
<1>3. QED
  BY <1>1, <1>2 DEF Next, vars, applicationVars

\* A record keeps the assignment it was opened for, with overlapping calls for
\* the same application too.
THEOREM RecordsOpenOnce == Spec => RecordOnce
<1>1. ProcessTypes /\ [Next]_vars => [RecordStep]_vars
  BY RecordNext
<1>2. QED
  BY ProcessInitTypes, NextTypes, <1>1, PTL DEF Spec, RecordOnce, RecordStep

(***************************************************************************)
(* A record has its submission, while application-service does not restart *)
(***************************************************************************)
\* Who has saved a record is on the way to the submission.
SubmissionInv ==
    \A a \in Applications : record[a] # None /\ ~submission[a] =>
        \E c \in calls : c.app = a /\ c.pc = "submission_save"

\* The desk sends calls and takes none back.
LEMMA DeskKeepsCalls ==
    ASSUME DeskNext
    PROVE  calls \subseteq calls'
<1>1. ASSUME NEW r \in Requests, Arrive(r)
      PROVE  UNCHANGED calls
  BY <1>1 DEF Arrive, AssignCheck, FinalBegin, AcceptCheck, DeclineCheck, AnswerCheck,
              ReplaceCheck, ProfileRead
<1>2. ASSUME NEW r \in Requests, Advance(r)
      PROVE  UNCHANGED calls \/ \E kind \in CallKinds : Send(r, kind)
  BY <1>2 DEF Advance, AssignInsert, AssignCount, AssignCall, AssignDone, AssignJurado,
              JuradoInsert, FinalCheck, FinalInsert, AcceptSave, AcceptCall, DeclineSave,
              DeclineCount, DeclineCall, ReplaceSave, ReplaceUncount, ReplaceInsert,
              ReplaceCount, ProfileSave, CallKinds
<1>3. QED
  BY <1>1, <1>2 DEF DeskNext, AssignmentNext, Disconnect, AutoDisconnect, Crash, Send

LEMMA SubmissionServe ==
    ASSUME ProcessTypes, SubmissionInv, NEW c \in calls, Serve(c) \/ LoseCall(c)
    PROVE  SubmissionInv'
<1> USE DEF SubmissionInv
<1>0. c \in Call /\ c.app \in Applications
  BY DEF ProcessTypes, TypeInv, AssignmentTypeOK, CallsTypeOK, Call
<1>1. ASSUME NEW d \in calls, d # c, CallEnd(c) \/ \E pc : CallGoto(c, pc)
      PROVE  d \in calls'
  BY <1>1 DEF CallEnd, CallGoto
<1>2. CASE StartRecordSave(c)
  <2>1. c.pc # "submission_save"
    BY <1>2 DEF StartRecordSave, CallAt
  <2>2. CASE record[c.app] = None
    <3>1. /\ record' = [record EXCEPT ![c.app] = c.sup]
          /\ CallGoto(c, "submission_save") /\ UNCHANGED submission
      BY <1>2, <2>2 DEF StartRecordSave
    <3>2. PICK e \in calls' : e.app = c.app /\ e.pc = "submission_save"
      <4>1. [c EXCEPT !.pc = "submission_save"] \in calls'
        BY <3>1 DEF CallGoto
      <4>2. QED
        BY <1>0, <4>1 DEF Call
    <3>3. \A a \in Applications \ {c.app} : record'[a] = record[a]
      BY <3>1 DEF ProcessTypes, LifecycleInv, LifecycleTypeOK
    <3>4. QED
      BY <1>1, <2>1, <3>1, <3>2, <3>3
  <2>3. CASE record[c.app] # None
    BY <1>1, <1>2, <2>1, <2>3 DEF StartRecordSave
  <2>4. QED
    BY <2>2, <2>3
<1>3. CASE StartSubmissionSave(c)
  <2>1. CallEnd(c) /\ UNCHANGED record /\ submission' = [submission EXCEPT ![c.app] = TRUE]
    BY <1>3 DEF StartSubmissionSave
  <2>2. /\ submission'[c.app]
        /\ \A a \in Applications \ {c.app} : submission'[a] = submission[a]
    BY <1>0, <2>1 DEF ProcessTypes, LifecycleInv, LifecycleTypeOK
  <2>3. QED
    BY <1>1, <2>1, <2>2
<1>4. CASE \/ LoseCall(c) \/ ShiftCheck(c) \/ ShiftSave(c) \/ StartSave(c)
           \/ StartDeliverables(c) \/ StartRecordCheck(c)
  <2>1. /\ UNCHANGED <<record, submission>> /\ c.pc # "submission_save"
        /\ CallEnd(c) \/ \E pc : CallGoto(c, pc)
    BY <1>4 DEF LoseCall, ShiftCheck, ShiftSave, StartSave, StartDeliverables,
                StartRecordCheck, CallAt, applicationVars
  <2>2. QED
    BY <1>1, <2>1
<1>5. QED
  BY <1>2, <1>3, <1>4 DEF Serve

LEMMA SubmissionNext ==
    ASSUME ~MayCrash, ProcessTypes, SubmissionInv, [Next]_vars
    PROVE  SubmissionInv'
<1>1. CASE DeskNext /\ UNCHANGED applicationVars
  BY <1>1, DeskKeepsCalls DEF applicationVars, SubmissionInv
<1>2. ASSUME NEW u \in Users, UserArrive(u) \/ UserAdvance(u)
      PROVE  UNCHANGED <<record, submission, calls>>
  BY <1>2 DEF UserArrive, UserAdvance, CompanyCheck, CloseCheck, WithdrawCheck,
              DeactivateCheck, NotesCheck, ProgressCheck, UserBegin, UserSave,
              ProgressRecord, CloseRecord, CloseApplication
<1>3. CASE UNCHANGED <<record, submission, calls>>
  BY <1>3 DEF SubmissionInv
<1>4. QED
  BY <1>1, <1>2, <1>3, SubmissionServe
  DEF Next, DeskNext, LifecycleNext, ApplicationCrash, vars, applicationVars

\* While application-service does not restart, a record whose handlers are over
\* has its submission, though calls overlap and may be lost on their way.
THEOREM RecordsHaveSubmissions == ~MayCrash /\ Spec => []RecordHasSubmission
<1> SUFFICES ASSUME ~MayCrash PROVE Spec => []RecordHasSubmission
  OBVIOUS
<1>1. Init => SubmissionInv
  BY DEF Init, LifecycleInit, SubmissionInv
<1>2. ProcessTypes /\ SubmissionInv /\ [Next]_vars => ProcessTypes' /\ SubmissionInv'
  BY NextTypes, SubmissionNext
<1>3. SubmissionInv => RecordHasSubmission
  BY DEF SubmissionInv, RecordHasSubmission
<1>4. QED
  BY ProcessInitTypes, <1>1, <1>2, <1>3, PTL DEF Spec

(***************************************************************************)
(* The copies of the deliverables of a project, for every number of        *)
(* applications and supervisors, with lost calls and with restarts of both *)
(* services, while the desk handles one request at a time.                 *)
(*                                                                         *)
(* startInProgress copies without looking whether it has copied, so that   *)
(* the bound comes from its callers: an acceptance makes one call, and a   *)
(* call that is served copies once.  Each copy made is charged to an       *)
(* asesor who has accepted and whose call is not on its way any more.      *)
(***************************************************************************)

Taken == {"accepted", "replaced"}

IsStart(c, a, s) == c.kind = "start-progress" /\ c.app = a /\ c.sup = s

\* A request is about to make the call of this acceptance.
Calling(a, s) ==
    \E r \in Requests : At(r, "accept_call") /\ req[r].app = a /\ req[r].sup = s

\* The call of this acceptance may still copy.
Copying(a, s) ==
    \E c \in calls : IsStart(c, a, s) /\ c.pc \in {"sent", "deliverables"}

Copied(a) ==
    {s \in Supervisors : asesor[a][s] \in Taken /\ ~Calling(a, s) /\ ~Copying(a, s)}

\* An acceptance makes one call: none while the row waits for its answer, and
\* one request or one call after that.
OneCall ==
    /\ \A a \in Applications, s \in Supervisors :
          (Calling(a, s) \/ \E c \in calls : IsStart(c, a, s)) => asesor[a][s] \in Taken
    /\ \A a \in Applications, s \in Supervisors :
          Calling(a, s) => \A c \in calls : ~IsStart(c, a, s)
    /\ \A a \in Applications, s \in Supervisors : \A c, d \in calls :
          IsStart(c, a, s) /\ IsStart(d, a, s) => c = d

CopyInv ==
    /\ OneCall
    /\ \A a \in Applications : deliverables[a] <= Cardinality(Copied(a))

LEMMA CopiedFinite ==
    ASSUME NEW a \in Applications
    PROVE  /\ IsFiniteSet(Copied(a)) /\ IsFiniteSet(Copied(a)')
           /\ Cardinality(Copied(a)) \in Nat /\ Cardinality(Copied(a)') \in Nat
<1>1. Copied(a) \subseteq Supervisors /\ Copied(a)' \subseteq Supervisors
  BY DEF Copied
<1>2. IsFiniteSet(Copied(a)) /\ IsFiniteSet(Copied(a)')
  BY <1>1, CallsAssumption, FS_Subset
<1>3. QED
  BY <1>2, FS_CardinalityType

\* Where nothing was copied and nobody is taken off, the bound stays.
LEMMA BoundStays ==
    ASSUME ProcessTypes, CopyInv, NEW a \in Applications,
           deliverables'[a] = deliverables[a], Copied(a) \subseteq Copied(a)'
    PROVE  deliverables'[a] <= Cardinality(Copied(a)')
<1>1. Cardinality(Copied(a)) <= Cardinality(Copied(a)')
  BY CopiedFinite, FS_Subset
<1>2. deliverables[a] \in Nat
  BY DEF ProcessTypes, LifecycleInv, LifecycleTypeOK
<1>3. QED
  BY <1>1, <1>2, CopiedFinite DEF CopyInv

(***************************************************************************)
(* The desk                                                                *)
(***************************************************************************)
\* An accepted row stays accepted or becomes replaced.
LEMMA TakenStays ==
    ASSUME TypeInv, SeatMove, NEW a \in Applications, NEW s \in Supervisors,
           asesor[a][s] \in Taken
    PROVE  asesor'[a][s] \in Taken
BY MoveKeepsAnswers DEF RowStep, Taken

\* A request that is about to call was so before, or saves the answer of a row
\* that waited for it.
LEMMA CallingFrom ==
    ASSUME TypeInv, SeatInv, DeskNext, NEW a \in Applications, NEW s \in Supervisors,
           Calling(a, s)'
    PROVE  \/ Calling(a, s)
           \/ /\ asesor[a][s] = "pending_acceptance" /\ asesor'[a][s] = "accepted"
              /\ UNCHANGED calls
<1>1. PICK x \in Requests : req'[x].pc = "accept_call" /\ req'[x].app = a /\ req'[x].sup = s
  BY DEF Calling, At
<1>2. CASE req'[x] = req[x]
  BY <1>1, <1>2 DEF Calling, At
<1>3. CASE AcceptSave(x)
  <2>1. req[x].app = a /\ req[x].sup = s
    BY <1>1, <1>3, GotoEffect DEF AcceptSave
  <2>2. asesor[a][s] = "pending_acceptance"
    BY <1>3, <2>1 DEF AcceptSave, At, SeatInv, SlotInv
  <2>3. asesor'[a][s] = "accepted"
    BY <1>3, <2>1, SetAsesorEffect DEF AcceptSave
  <2>4. QED
    BY <1>3, <2>2, <2>3 DEF AcceptSave
<1>4. QED
  BY <1>1, <1>2, <1>3, AboutToCall

LEMMA StartFrom ==
    ASSUME Serial, TypeInv, DeskNext, NEW a \in Applications, NEW s \in Supervisors,
           NEW c \in calls', IsStart(c, a, s), c \notin calls
    PROVE  /\ Calling(a, s) /\ ~Calling(a, s)' /\ UNCHANGED asesor
           /\ \A d \in calls' : d \in calls \/ d = c
<1>1. PICK r \in Requests : AcceptCall(r) /\ c.app = req[r].app /\ c.sup = req[r].sup
  BY NewCall DEF IsStart
<1>2. Calling(a, s) /\ UNCHANGED asesor
  BY <1>1 DEF AcceptCall, Calling, IsStart
<1>3. \A x \in Requests : req'[x].pc = "idle"
  BY <1>1 DEF AcceptCall, Done, Idle, Serial, TypeInv, AssignmentTypeOK
<1>4. \A d \in calls' : d \in calls \/ d = c
  BY <1>1 DEF AcceptCall, Send
<1>5. QED
  BY <1>2, <1>3, <1>4 DEF Calling, At

LEMMA DeskCopies ==
    ASSUME Serial, ProcessTypes, SeatInv, SeatMove, CopyInv, DeskNext,
           UNCHANGED applicationVars
    PROVE  CopyInv'
<1> USE DEF ProcessTypes, CopyInv, OneCall
<1>1. ASSUME NEW a \in Applications, NEW s \in Supervisors,
             Calling(a, s)' \/ \E c \in calls' : IsStart(c, a, s)
      PROVE  asesor'[a][s] \in Taken
  <2>1. CASE Calling(a, s)'
    BY <2>1, CallingFrom, TakenStays DEF Taken
  <2>2. ASSUME NEW c \in calls', IsStart(c, a, s)
        PROVE  asesor'[a][s] \in Taken
    BY <2>2, StartFrom, TakenStays
  <2>3. QED
    BY <1>1, <2>1, <2>2
<1>2. ASSUME NEW a \in Applications, NEW s \in Supervisors, Calling(a, s)',
             NEW c \in calls', IsStart(c, a, s)
      PROVE  FALSE
  <2>1. c \in calls
    BY <1>2, StartFrom
  <2>2. ~Calling(a, s) /\ asesor[a][s] \in Taken
    BY <1>2, <2>1
  <2>3. QED
    BY <1>2, <2>2, CallingFrom DEF Taken
<1>3. ASSUME NEW a \in Applications, NEW s \in Supervisors, NEW c \in calls', NEW d \in calls',
             IsStart(c, a, s), IsStart(d, a, s)
      PROVE  c = d
  <2>1. CASE c \in calls /\ d \in calls
    BY <1>3, <2>1
  <2>2. ASSUME NEW e \in {c, d}, e \notin calls
        PROVE  c = d
    BY <1>3, <2>2, StartFrom
  <2>3. QED
    BY <2>1, <2>2
<1>4. ASSUME NEW a \in Applications
      PROVE  deliverables'[a] <= Cardinality(Copied(a)')
  <2>1. ASSUME NEW s \in Copied(a)
        PROVE  s \in Copied(a)'
    <3>1. s \in Supervisors /\ asesor[a][s] \in Taken /\ ~Calling(a, s) /\ ~Copying(a, s)
      BY DEF Copied
    <3>2. asesor'[a][s] \in Taken
      BY <3>1, TakenStays
    <3>3. ~Calling(a, s)'
      BY <3>1, CallingFrom DEF Taken
    <3>4. ASSUME NEW c \in calls', IsStart(c, a, s), c.pc \in {"sent", "deliverables"}
          PROVE  FALSE
      <4>1. c \in calls
        BY <3>1, <3>4, StartFrom
      <4>2. QED
        BY <3>1, <3>4, <4>1 DEF Copying
    <3>5. QED
      BY <3>1, <3>2, <3>3, <3>4 DEF Copied, Copying
  <2>2. QED
    BY <2>1, BoundStays DEF applicationVars
<1>5. QED
  BY <1>1, <1>2, <1>3, <1>4 DEF IsStart

(***************************************************************************)
(* application-service                                                     *)
(***************************************************************************)
\* What a step makes of the calls: no new one, and those it goes on with keep
\* who they are for.
CallStep(c, d) ==
    /\ calls' = (calls \ {c}) \cup {d}
    /\ d.kind = c.kind /\ d.app = c.app /\ d.sup = c.sup

LEMMA LifecycleCalls ==
    ASSUME ProcessTypes, LifecycleNext, UNCHANGED deskVars
    PROVE  /\ UNCHANGED <<asesor, req>>
           /\ calls' \subseteq calls \/ \E c \in calls : \E d : CallStep(c, d)
<1>1. ASSUME NEW c \in calls, NEW pc, CallGoto(c, pc)
      PROVE  \E d : CallStep(c, d)
  <2>1. c \in Call
    BY DEF ProcessTypes, TypeInv, AssignmentTypeOK, CallsTypeOK
  <2>2. CallStep(c, [c EXCEPT !.pc = pc])
    BY <1>1, <2>1 DEF CallGoto, CallStep, Call
  <2>3. QED
    BY <2>2
<1>2. ASSUME NEW c \in calls, Serve(c) \/ LoseCall(c)
      PROVE  CallEnd(c) \/ \E pc : CallGoto(c, pc)
  BY <1>2 DEF Serve, LoseCall, ShiftCheck, ShiftSave, StartSave, StartDeliverables,
              StartRecordCheck, StartRecordSave, StartSubmissionSave
<1>3. ASSUME NEW u \in Users, UserArrive(u) \/ UserAdvance(u)
      PROVE  UNCHANGED calls
  BY <1>3 DEF UserArrive, UserAdvance, CompanyCheck, CloseCheck, WithdrawCheck,
              DeactivateCheck, NotesCheck, ProgressCheck, UserBegin, UserSave,
              ProgressRecord, CloseRecord, CloseApplication
<1>4. QED
  BY <1>1, <1>2, <1>3 DEF LifecycleNext, ApplicationCrash, CallEnd, deskVars

LEMMA LifecycleOneCall ==
    ASSUME ProcessTypes, OneCall, LifecycleNext, UNCHANGED deskVars
    PROVE  OneCall'
<1>1. UNCHANGED <<asesor, req>>
  BY LifecycleCalls
<1>2. \A a \in Applications, s \in Supervisors : Calling(a, s)' <=> Calling(a, s)
  BY <1>1 DEF Calling, At
<1>3. CASE calls' \subseteq calls
  BY <1>1, <1>2, <1>3 DEF OneCall, IsStart
<1>4. ASSUME NEW c \in calls, NEW d, CallStep(c, d)
      PROVE  OneCall'
  <2>1. \A a, s : IsStart(d, a, s) <=> IsStart(c, a, s)
    BY <1>4 DEF CallStep, IsStart
  <2>2. calls' = (calls \ {c}) \cup {d}
    BY <1>4 DEF CallStep
  <2>3. \A a, s : (\E e \in calls' : IsStart(e, a, s)) <=> (\E e \in calls : IsStart(e, a, s))
    BY <2>1, <2>2
  <2>4. \A a \in Applications, s \in Supervisors : \A e, f \in calls' :
           IsStart(e, a, s) /\ IsStart(f, a, s) => e = f
    BY <2>1, <2>2 DEF OneCall
  <2>5. QED
    BY <1>1, <1>2, <2>3, <2>4 DEF OneCall, IsStart
<1>5. QED
  BY <1>3, <1>4, LifecycleCalls

\* Only a call that was to copy is to copy after a step.
LEMMA CopyingFrom ==
    ASSUME ProcessTypes, LifecycleNext, NEW a, NEW s, Copying(a, s)'
    PROVE  Copying(a, s)
<1>1. PICK d \in calls' : IsStart(d, a, s) /\ d.pc \in {"sent", "deliverables"}
  BY DEF Copying
<1>2. CASE d \in calls
  BY <1>1, <1>2 DEF Copying
<1>3. ASSUME NEW c \in calls, NEW pc, CallGoto(c, pc), d \notin calls
      PROVE  d.kind = c.kind /\ d.app = c.app /\ d.sup = c.sup /\ d.pc = pc
  BY <1>3 DEF CallGoto, ProcessTypes, TypeInv, AssignmentTypeOK, CallsTypeOK, Call
<1>4. ASSUME NEW c \in calls, StartSave(c), d \notin calls
      PROVE  Copying(a, s)
  <2>1. CallGoto(c, "deliverables") /\ c.pc = "sent"
    BY <1>4 DEF StartSave, CallAt
  <2>2. d.kind = c.kind /\ d.app = c.app /\ d.sup = c.sup
    BY <1>3, <1>4, <2>1
  <2>3. QED
    BY <1>1, <2>1, <2>2 DEF Copying, IsStart
<1>5. ASSUME NEW c \in calls, d \notin calls,
             \/ ShiftCheck(c) \/ ShiftSave(c) \/ LoseCall(c) \/ StartDeliverables(c)
             \/ StartRecordCheck(c) \/ StartRecordSave(c) \/ StartSubmissionSave(c)
      PROVE  FALSE
  <2>1. \/ CallEnd(c)
        \/ \E pc \in {"save", "record_check", "record_save", "submission_save"} : CallGoto(c, pc)
    BY <1>5 DEF ShiftCheck, ShiftSave, LoseCall, StartDeliverables, StartRecordCheck,
                StartRecordSave, StartSubmissionSave
  <2>2. QED
    BY <1>1, <1>3, <1>5, <2>1 DEF CallEnd
<1>6. ASSUME NEW u \in Users, UserArrive(u) \/ UserAdvance(u)
      PROVE  UNCHANGED calls
  BY <1>6 DEF UserArrive, UserAdvance, CompanyCheck, CloseCheck, WithdrawCheck,
              DeactivateCheck, NotesCheck, ProgressCheck, UserBegin, UserSave,
              ProgressRecord, CloseRecord, CloseApplication
<1>7. QED
  BY <1>2, <1>4, <1>5, <1>6 DEF LifecycleNext, Serve, ApplicationCrash

LEMMA CopiedStays ==
    ASSUME ProcessTypes, LifecycleNext, UNCHANGED deskVars, NEW a \in Applications
    PROVE  Copied(a) \subseteq Copied(a)'
<1>1. UNCHANGED <<asesor, req>>
  BY LifecycleCalls
<1>2. \A s \in Supervisors : Calling(a, s)' <=> Calling(a, s)
  BY <1>1 DEF Calling, At
<1>3. \A s \in Supervisors : Copying(a, s)' => Copying(a, s)
  BY CopyingFrom
<1>4. QED
  BY <1>1, <1>2, <1>3 DEF Copied

\* The copy is charged to the asesor of the call, for the first time.
LEMMA CopyCharged ==
    ASSUME ProcessTypes, CopyInv, OneCall', LifecycleNext, UNCHANGED deskVars,
           NEW c \in calls, StartDeliverables(c)
    PROVE  \A a \in Applications : deliverables'[a] <= Cardinality(Copied(a)')
<1>1. c.app \in Applications /\ c.sup \in Supervisors /\ c \in Call
  BY DEF ProcessTypes, TypeInv, AssignmentTypeOK, CallsTypeOK, Call
<1>2. PICK k \in {0, 1} : deliverables' = [deliverables EXCEPT ![c.app] = @ + k]
  BY DEF StartDeliverables
<1>3. deliverables \in [Applications -> Nat]
  BY DEF ProcessTypes, LifecycleInv, LifecycleTypeOK
<1>4. \A a \in Applications \ {c.app} : deliverables'[a] = deliverables[a]
  BY <1>2, <1>3
<1>5. IsStart(c, c.app, c.sup) /\ c.pc = "deliverables" /\ CallGoto(c, "record_check")
  BY DEF StartDeliverables, CallAt, IsStart
<1>6. c.sup \notin Copied(c.app)
  BY <1>5 DEF Copied, Copying
<1>7. c.sup \in Copied(c.app)'
  <2>1. PICK d \in calls' : IsStart(d, c.app, c.sup) /\ d.pc = "record_check"
    <3>1. [c EXCEPT !.pc = "record_check"] \in calls'
      BY <1>5 DEF CallGoto
    <3>2. QED
      BY <1>1, <1>5, <3>1 DEF IsStart, Call
  <2>2. asesor'[c.app][c.sup] \in Taken /\ ~Calling(c.app, c.sup)'
    BY <1>1, <2>1 DEF OneCall, IsStart, Calling
  <2>3. ~Copying(c.app, c.sup)'
    BY <1>1, <2>1 DEF OneCall, Copying, IsStart
  <2>4. QED
    BY <1>1, <2>2, <2>3 DEF Copied
<1>8. deliverables'[c.app] <= Cardinality(Copied(c.app)')
  <2> DEFINE old == Copied(c.app)
             new == Copied(c.app)'
  <2>1. IsFiniteSet(old) /\ IsFiniteSet(new)
        /\ Cardinality(old) \in Nat /\ Cardinality(new) \in Nat
    BY <1>1, CopiedFinite
  <2>2. old \cup {c.sup} \subseteq new
    BY <1>1, <1>7, CopiedStays
  <2>3. c.sup \notin old
    BY <1>6
  <2>4. deliverables[c.app] <= Cardinality(old)
    BY <1>1 DEF CopyInv
  <2>5. deliverables[c.app] \in Nat /\ deliverables'[c.app] = deliverables[c.app] + k
    BY <1>1, <1>2, <1>3
  <2> HIDE DEF old, new
  <2>6. Cardinality(old \cup {c.sup}) = Cardinality(old) + 1
    BY <2>1, <2>3, FS_AddElement
  <2>7. Cardinality(old \cup {c.sup}) <= Cardinality(new)
    BY <2>1, <2>2, FS_Subset
  <2>8. deliverables'[c.app] <= Cardinality(new)
    BY <2>1, <2>4, <2>5, <2>6, <2>7
  <2>9. QED
    BY <2>8 DEF new
<1>9. QED
  BY <1>4, <1>8, CopiedStays, BoundStays

LEMMA LifecycleCopies ==
    ASSUME ProcessTypes, CopyInv, LifecycleNext, UNCHANGED deskVars
    PROVE  CopyInv'
<1>1. OneCall'
  BY LifecycleOneCall DEF CopyInv
<1>2. CASE \E c \in calls : StartDeliverables(c)
  BY <1>1, <1>2, CopyCharged DEF CopyInv
<1>3. CASE ~\E c \in calls : StartDeliverables(c)
  <2>1. UNCHANGED deliverables
    <3>1. ASSUME NEW u \in Users, UserArrive(u) \/ UserAdvance(u)
          PROVE  UNCHANGED deliverables
      BY <3>1 DEF UserArrive, UserAdvance, CompanyCheck, CloseCheck, WithdrawCheck,
                  DeactivateCheck, NotesCheck, ProgressCheck, UserBegin, UserSave,
                  ProgressRecord, CloseRecord, CloseApplication
    <3>2. QED
      BY <1>3, <3>1 DEF LifecycleNext, Serve, LoseCall, ApplicationCrash, ShiftCheck, ShiftSave,
                        StartSave, StartRecordCheck, StartRecordSave, StartSubmissionSave,
                        applicationVars
  <2>2. QED
    BY <1>1, <2>1, CopiedStays, BoundStays DEF CopyInv
<1>4. QED
  BY <1>2, <1>3

(***************************************************************************)
(* The theorem                                                             *)
(***************************************************************************)
CopiesInv == ProcessTypes /\ SeatInv /\ CopyInv

LEMMA CopiesNext ==
    ASSUME Serial
    PROVE  CopiesInv /\ [Next]_vars => CopiesInv'
<1> SUFFICES ASSUME CopiesInv, [Next]_vars PROVE CopiesInv'
  OBVIOUS
<1> USE DEF CopiesInv
<1>1. ProcessTypes'
  BY NextTypes
<1>2. CASE DeskNext /\ UNCHANGED applicationVars
  <2>1. SeatInv' /\ SeatMove
    BY <1>2, SerialStep DEF ProcessTypes
  <2>2. QED
    BY <1>1, <1>2, <2>1, DeskCopies
<1>3. ASSUME UNCHANGED <<asesor, req>>
      PROVE  SeatInv'
  BY <1>3 DEF SeatInv, RowInv, SingleLiveAsesor, SlotInv, At, Vacant
<1>4. CASE LifecycleNext /\ UNCHANGED deskVars
  <2>1. SeatInv'
    BY <1>3, <1>4, LifecycleCalls
  <2>2. QED
    BY <1>1, <1>4, <2>1, LifecycleCopies
<1>5. CASE UNCHANGED vars
  <2>1. CopyInv'
    BY <1>5 DEF vars, deskVars, applicationVars, CopyInv, OneCall, IsStart, Calling, Copying,
                Copied, At
  <2>2. QED
    BY <1>1, <1>3, <1>5, <2>1 DEF vars, deskVars
<1>6. QED
  BY <1>2, <1>4, <1>5 DEF Next, DeskNext

LEMMA CopiesInit == Init => CopiesInv
<1> SUFFICES ASSUME Init PROVE CopiesInv
  OBVIOUS
<1>1. calls = {} /\ \A r \in Requests : req[r].pc = "idle"
  BY DEF Init, AssignmentInit, Idle
<1>2. OneCall
  BY <1>1 DEF OneCall, Calling, At
<1>3. \A a \in Applications : deliverables[a] = 0
  BY DEF Init, LifecycleInit
<1>4. \A a \in Applications : deliverables[a] <= Cardinality(Copied(a))
  BY <1>3, CopiedFinite
<1>5. QED
  BY <1>2, <1>4, ProcessInitTypes, SeatInit DEF CopiesInv, CopyInv, Init

\* With one request at a time at the desk, the deliverables are copied once per
\* acceptance at most, though calls are lost and both services restart.
THEOREM SerialCopies == Serial /\ Spec => []CopiesPerAcceptance
<1> SUFFICES ASSUME Serial PROVE Spec => []CopiesPerAcceptance
  OBVIOUS
<1>1. CopiesInv => CopiesPerAcceptance
  <2> SUFFICES ASSUME CopiesInv, NEW a \in Applications
               PROVE  deliverables[a] <= Cardinality({s \in Supervisors : asesor[a][s] \in Taken})
    BY DEF CopiesPerAcceptance, Taken
  <2> DEFINE taken == {s \in Supervisors : asesor[a][s] \in Taken}
  <2>1. Copied(a) \subseteq taken /\ taken \subseteq Supervisors
    BY DEF Copied
  <2>2. IsFiniteSet(taken) /\ Cardinality(taken) \in Nat
    BY <2>1, CallsAssumption, FS_Subset, FS_CardinalityType
  <2> HIDE DEF taken
  <2>3. Cardinality(Copied(a)) <= Cardinality(taken)
    BY <2>1, <2>2, FS_Subset
  <2>4. deliverables[a] <= Cardinality(Copied(a)) /\ deliverables[a] \in Nat
    BY DEF CopiesInv, CopyInv, ProcessTypes, LifecycleInv, LifecycleTypeOK
  <2>5. deliverables[a] <= Cardinality(taken)
    BY <2>2, <2>3, <2>4, CopiedFinite
  <2>6. QED
    BY <2>5 DEF taken
<1>2. CopiesInv /\ [Next]_vars => CopiesInv'
  BY CopiesNext
<1>3. QED
  BY CopiesInit, <1>1, <1>2, PTL DEF Spec
=============================================================================

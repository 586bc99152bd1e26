---------------------------- MODULE Anteproyecto ----------------------------
(***************************************************************************)
(* The anteproyecto of one application, in application-service: the student *)
(* delivers versions, the jurados ask for corrections or vote, the admin    *)
(* extends deadlines, and a deadline that has passed is noticed when        *)
(* somebody looks.                                                          *)
(*                                                                          *)
(* Every handler loads the submission row, awaits settings and lists from   *)
(* admin-service, and saves the whole row: what another request has saved   *)
(* meanwhile is overwritten.  A request slot keeps the row as it was loaded *)
(* until its save.  Applications do not share rows, so one stands for all.  *)
(*                                                                          *)
(* A deadline is either set or null: one that is set may have passed or     *)
(* not.  Files, comments and dates are left out, and of the history only    *)
(* the votes are kept.                                                      *)
(***************************************************************************)
EXTENDS Integers, FiniteSets

CONSTANTS
    Jurados,       \* users with an accepted jurado_anteproyecto row at the start
    NoJurado,      \* a value that is no jurado
    Requests,      \* slots for the requests application-service runs at a time
    Limits,        \* what reading anteproyecto.max_corrections may give: the
                   \* setting, or the fallback 2 when admin-service fails
    ListMayFail,   \* whether the list of active jurados may fail to be read
    MayCrash,      \* whether the process may restart in mid-request
    MaxVersions    \* bound on the versions the student delivers

ASSUME AnteproyectoAssumption ==
    /\ NoJurado \notin Jurados
    /\ Limits # {} /\ Limits \subseteq Nat
    /\ ListMayFail \in BOOLEAN
    /\ MayCrash \in BOOLEAN
    /\ MaxVersions \in Nat

VARIABLES
    submission,    \* the row of academic_submissions
    history,       \* the votes in submission_history
    panel,         \* the jurados whose row is accepted
    record,        \* status of the project_academic_record
    req            \* what runs in each request slot

vars == <<submission, history, panel, record, req>>

(***************************************************************************)
(* Rows and requests                                                       *)
(***************************************************************************)
InReview == {"submitted", "revised", "under_review"}
Deliverable == {"pending_submission", "needs_revision"}
SubmissionStatus == InReview \cup Deliverable \cup {"approved", "rejected", "expired"}
Verdicts == {"approve", "reject"}

Ballots == [Jurados -> Verdicts \cup {"none"}]

Submission == [status : SubmissionStatus, version : Nat, corrections : Nat,
               votes : Ballots,
               reviewDue : BOOLEAN, studentDue : BOOLEAN]

Vote == [jurado : Jurados, verdict : Verdicts, version : Nat]

NoVotes == [j \in Jurados |-> "none"]

Pending == [status |-> "pending_submission", version |-> 0, corrections |-> 0,
            votes |-> NoVotes, reviewDue |-> FALSE, studentDue |-> FALSE]

RecordStatus == {"waiting_anteproyecto", "waiting_documents"}

Steps == {"idle", "submit_save", "comment_save", "correct_save", "vote_poll",
          "vote_save", "record_save", "extend_save", "expire_save"}

Request == [pc : Steps,
            row : Submission,                    \* the submission as it was loaded
            voter : Jurados \cup {NoJurado},     \* who votes
            verdict : Verdicts,                  \* and what
            seen : SUBSET Jurados,               \* the active jurados as listed
            target : {"review", "student"}]      \* the deadline to extend

Idle == [pc |-> "idle", row |-> Pending, voter |-> NoJurado, verdict |-> "approve",
         seen |-> {}, target |-> "review"]

TypeOK ==
    /\ submission \in Submission
    /\ history \subseteq Vote
    /\ panel \subseteq Jurados
    /\ record \in RecordStatus
    /\ req \in [Requests -> Request]

\* startInProgress has just created the record and its submission.
Init ==
    /\ submission = Pending
    /\ history = {}
    /\ panel = Jurados
    /\ record = "waiting_anteproyecto"
    /\ req = [r \in Requests |-> Idle]

At(r, pc) == req[r].pc = pc
Begin(r, new) == At(r, "idle") /\ req' = [req EXCEPT ![r] = new]
Done(r) == req' = [req EXCEPT ![r] = Idle]

\* A handler that has nothing else to remember loads the row and goes on to save.
Load(r, pc) ==
    /\ Begin(r, [Idle EXCEPT !.pc = pc, !.row = submission])
    /\ UNCHANGED <<submission, history, panel, record>>

\* Saving the loaded row, changed by the handler, overwrites the whole row.
Save(r, row) ==
    /\ submission' = row
    /\ Done(r)
    /\ UNCHANGED <<history, panel, record>>

(***************************************************************************)
(* submitAnteproyecto and addAsesorComment                                 *)
(***************************************************************************)
SubmitCheck(r) ==
    /\ submission.status \in Deliverable
    /\ submission.version < MaxVersions
    /\ Load(r, "submit_save")

\* Mutant of Delivered: the votes of the last version stay.
DeliveredVotesKept(row) ==
    [row EXCEPT !.version = @ + 1,
                !.status = IF row.version = 0 THEN "submitted" ELSE "revised",
                !.reviewDue = TRUE, !.studentDue = FALSE]

Delivered(row) ==
    [row EXCEPT !.version = @ + 1,
                !.status = IF row.version = 0 THEN "submitted" ELSE "revised",
                !.votes = NoVotes, !.reviewDue = TRUE, !.studentDue = FALSE]

SubmitSave(r) == At(r, "submit_save") /\ Save(r, Delivered(req[r].row))

\* The comment itself is left out: what counts is that the row is saved again.
CommentLoad(r) == Load(r, "comment_save")
CommentSave(r) == At(r, "comment_save") /\ Save(r, req[r].row)

(***************************************************************************)
(* reviewAnteproyecto                                                      *)
(***************************************************************************)
\* A jurado whose row is not accepted any more is refused by authorize.
MayReview(j) == j \in panel /\ submission.status \in InReview

\* Mutant of MayCorrect: one correction more than the limit.
MayCorrectOnceMore(limit) == submission.corrections <= limit

MayCorrect(limit) == submission.corrections < limit

CorrectCheck(r, j) ==
    /\ MayReview(j)
    /\ \E limit \in Limits : MayCorrect(limit)
    /\ Load(r, "correct_save")

\* A correction needs no consensus, and resets the votes.
Corrected(row) ==
    [row EXCEPT !.status = "needs_revision", !.corrections = @ + 1, !.votes = NoVotes,
                !.reviewDue = FALSE, !.studentDue = TRUE]

CorrectSave(r) == At(r, "correct_save") /\ Save(r, Corrected(req[r].row))

VoteCheck(r, j, verdict) ==
    /\ MayReview(j)
    /\ verdict = "reject" => \E limit \in Limits : submission.corrections >= limit
    /\ Begin(r, [Idle EXCEPT !.pc = "vote_poll", !.row = submission,
                             !.voter = j, !.verdict = verdict])
    /\ UNCHANGED <<submission, history, panel, record>>

\* The active jurados are listed, an empty list standing for a failure, and the
\* vote goes to the history before it goes to the row.
VotePoll(r) ==
    /\ At(r, "vote_poll")
    /\ LET j == req[r].voter IN
       \E list \in {panel} \cup (IF ListMayFail THEN {{}} ELSE {}) :
          /\ history' = history \cup {[jurado |-> j, verdict |-> req[r].verdict,
                                       version |-> req[r].row.version]}
          /\ req' = [req EXCEPT ![r].pc = "vote_save", ![r].seen = list,
                                ![r].row.votes[j] = req[r].verdict]
    /\ UNCHANGED <<submission, panel, record>>

\* Mutant of AllVoted: a list that is empty passes.
AllVotedEvenNone(row, list) == \A j \in list : row.votes[j] # "none"

AllVoted(row, list) == list # {} /\ \A j \in list : row.votes[j] # "none"

Outcome(row, list) ==
    CASE ~ AllVoted(row, list) -> "under_review"
      [] AllVoted(row, list) /\ (\E j \in list : row.votes[j] = "reject") -> "rejected"
      [] OTHER -> "approved"

\* A decision clears the deadlines, and an approval goes on to the record.
VoteSave(r) ==
    /\ At(r, "vote_save")
    /\ LET row == req[r].row
           outcome == Outcome(row, req[r].seen)
           open == outcome = "under_review" IN
       /\ submission' = [row EXCEPT !.status = outcome,
                                    !.reviewDue = @ /\ open, !.studentDue = @ /\ open]
       /\ IF outcome = "approved"
          THEN req' = [req EXCEPT ![r].pc = "record_save"]
          ELSE Done(r)
    /\ UNCHANGED <<history, panel, record>>

RecordSave(r) ==
    /\ At(r, "record_save")
    /\ record' = "waiting_documents"
    /\ Done(r)
    /\ UNCHANGED <<submission, history, panel>>

(***************************************************************************)
(* extendAnteproyectoDeadline and checkAnteproyectoExpiry                  *)
(***************************************************************************)
Extendable(target) ==
    IF target = "review" THEN InReview \cup {"expired"} ELSE {"needs_revision", "expired"}

ExtendCheck(r, target) ==
    /\ submission.status \in Extendable(target)
    /\ Begin(r, [Idle EXCEPT !.pc = "extend_save", !.row = submission, !.target = target])
    /\ UNCHANGED <<submission, history, panel, record>>

\* Mutant of Extended: the deadline is set and the expired row stays as it is
\* for the student.
ExtendedReviewOnly(row, target) ==
    [row EXCEPT !.status = IF @ # "expired" THEN @
                           ELSE IF row.version <= 1 THEN "submitted" ELSE "revised",
                !.reviewDue = @ \/ target = "review",
                !.studentDue = @ \/ target = "student"]

Extended(row, target) ==
    [row EXCEPT !.status = IF @ # "expired" THEN @
                           ELSE IF target = "student" THEN "needs_revision"
                           ELSE IF row.version <= 1 THEN "submitted" ELSE "revised",
                !.reviewDue = @ \/ target = "review",
                !.studentDue = @ \/ target = "student"]

ExtendSave(r) ==
    At(r, "extend_save") /\ Save(r, Extended(req[r].row, req[r].target))

\* A deadline of the party whose turn it is has passed.
ExpireCheck(r) ==
    /\ \/ submission.status \in InReview /\ submission.reviewDue
       \/ submission.status = "needs_revision" /\ submission.studentDue
    /\ Load(r, "expire_save")

ExpireSave(r) ==
    At(r, "expire_save") /\ Save(r, [req[r].row EXCEPT !.status = "expired"])

(***************************************************************************)
(* What admin-service and the host do, and the specification               *)
(***************************************************************************)
\* disconnectAssignment, or autoDisconnectJuradosAnteproyecto after an approval.
Disconnect(j) ==
    /\ panel' = panel \ {j}
    /\ UNCHANGED <<submission, history, record, req>>

\* The process restarts: what ran in it is gone.
Crash ==
    /\ MayCrash
    /\ req' = [r \in Requests |-> Idle]
    /\ UNCHANGED <<submission, history, panel, record>>

Arrive(r) ==
    \/ SubmitCheck(r) \/ CommentLoad(r) \/ ExpireCheck(r)
    \/ \E j \in Jurados : CorrectCheck(r, j)
    \/ \E j \in Jurados, v \in Verdicts : VoteCheck(r, j, v)
    \/ \E t \in {"review", "student"} : ExtendCheck(r, t)

Advance(r) ==
    \/ SubmitSave(r) \/ CommentSave(r) \/ CorrectSave(r)
    \/ VotePoll(r) \/ VoteSave(r) \/ RecordSave(r)
    \/ ExtendSave(r) \/ ExpireSave(r)

Handle == \E r \in Requests : Arrive(r) \/ Advance(r)

Next ==
    \/ Handle
    \/ \E j \in panel : Disconnect(j)
    \/ Crash

Spec == Init /\ [][Next]_vars

\* The same while no jurado leaves and the process does not restart.
StablePanelSpec == Init /\ [][Handle]_vars

(***************************************************************************)
(* Properties                                                              *)
(***************************************************************************)
\* The jurados ask for max_corrections corrections at most and reject after
\* max_corrections at least, whatever reading the setting gives and however
\* requests overlap (reviewAnteproyecto).
CorrectionsBounded ==
    /\ \E limit \in Limits : submission.corrections <= limit
    /\ submission.status = "rejected" => \E limit \in Limits : submission.corrections >= limit

\* A vote in the row is one its jurado gave for the version of the row: a stale
\* save brings back an old version and its votes, never old votes for a new
\* version (the comment of juradoVotes).
VotesAreForVersion ==
    \A j \in Jurados : submission.votes[j] # "none" =>
        [jurado |-> j, verdict |-> submission.votes[j], version |-> submission.version]
            \in history

\* An approved version has the approval of every jurado who is still active, and
\* of one at least, in the history: whoever left, whatever list failed and
\* however votes, corrections and deliveries overlap (reviewAnteproyecto).
ApprovedByPanel ==
    submission.status = "approved" =>
        /\ \A j \in panel : [jurado |-> j, verdict |-> "approve",
                              version |-> submission.version] \in history
        /\ \E v \in history : v.verdict = "approve" /\ v.version = submission.version

\* Whoever must act has a deadline, on a version that exists: what
\* extendAnteproyectoDeadline restores after an expiry.
TurnHasDeadline ==
    /\ submission.status \in InReview => submission.reviewDue /\ submission.version > 0
    /\ submission.status = "needs_revision" => submission.studentDue

\* When nothing runs and every active jurado has voted on the version, the
\* anteproyecto is decided (the comment of reviewAnteproyecto).
AllVotesDecide ==
    /\ panel # {}
    /\ \A r \in Requests : At(r, "idle")
    /\ \A j \in panel : \E v \in history :
          v.jurado = j /\ v.version = submission.version
    => submission.status \notin InReview
=============================================================================

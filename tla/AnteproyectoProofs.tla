------------------------- MODULE AnteproyectoProofs -------------------------
(***************************************************************************)
(* What holds of the anteproyecto for every set of jurados and limits and  *)
(* any number of overlapping requests, restarts and failures included.     *)
(*                                                                         *)
(* A request may save a row it loaded long ago, so the invariant cannot    *)
(* speak of the stored row alone: RowOK holds of the stored row and of     *)
(* every loaded one, it only mentions the history, which grows, and the    *)
(* panel, which shrinks, and every handler turns a row that has it into    *)
(* another that has it.                                                    *)
(***************************************************************************)
EXTENDS Anteproyecto, TLAPS

RowOK(row, h, p) ==
    /\ \E limit \in Limits : row.corrections <= limit
    /\ row.status = "rejected" \/ (\E j \in Jurados : row.votes[j] = "reject") =>
          \E limit \in Limits : row.corrections >= limit
    /\ \A j \in Jurados : row.votes[j] # "none" =>
          [jurado |-> j, verdict |-> row.votes[j], version |-> row.version] \in h
    /\ row.status = "approved" =>
          /\ \A j \in p : [jurado |-> j, verdict |-> "approve",
                           version |-> row.version] \in h
          /\ \E v \in h : v.verdict = "approve" /\ v.version = row.version
    /\ row.status \in InReview => row.reviewDue
    /\ row.status = "needs_revision" => row.studentDue
    /\ row.status # "pending_submission" => row.version > 0

\* What a handler has checked of the row before it saves it.
Checked(q, p) ==
    /\ q.pc = "correct_save" =>
          q.row.status \in InReview /\ \E limit \in Limits : q.row.corrections < limit
    /\ q.pc \in {"vote_poll", "vote_save"} => q.row.status \in InReview /\ q.voter \in Jurados
    /\ q.pc = "vote_poll" /\ q.verdict = "reject" =>
          \E limit \in Limits : q.row.corrections >= limit
    /\ q.pc = "vote_save" => q.seen = {} \/ p \subseteq q.seen
    /\ q.pc = "extend_save" => q.row.status \in Extendable(q.target)
    /\ q.pc = "expire_save" => q.row.status \in InReview \cup {"needs_revision"}

Invariant ==
    /\ TypeOK
    /\ RowOK(submission, history, panel)
    /\ \A r \in Requests : RowOK(req[r].row, history, panel) /\ Checked(req[r], panel)

\* A row stays good when the history grows and the panel shrinks.
LEMMA RowStays ==
    ASSUME NEW row, NEW h, NEW h2, NEW p, NEW p2, h \subseteq h2, p2 \subseteq p,
           RowOK(row, h, p)
    PROVE  RowOK(row, h2, p2)
BY DEF RowOK

\* So does what a handler has checked.
LEMMA CheckedStays ==
    ASSUME NEW q, NEW p, NEW p2, p2 \subseteq p, Checked(q, p)
    PROVE  Checked(q, p2)
BY DEF Checked

\* No votes at all are votes.
LEMMA NoVotesOK ==
    /\ NoVotes \in Ballots
    /\ \A j \in Jurados : NoVotes[j] = "none"
BY DEF NoVotes, Ballots

\* The row startInProgress creates is good, and so is an idle slot.
LEMMA PendingOK ==
    ASSUME NEW h, NEW p
    PROVE  /\ Pending \in Submission
           /\ Idle \in Request
           /\ RowOK(Pending, h, p)
           /\ RowOK(Idle.row, h, p) /\ Checked(Idle, p)
<1>1. Pending \in Submission
  BY NoVotesOK DEF Pending, Submission, SubmissionStatus, Deliverable
<1>2. Idle \in Request /\ Idle.row = Pending /\ Idle.pc = "idle"
  BY <1>1 DEF Idle, Request, Steps, Verdicts
<1>3. RowOK(Pending, h, p)
  <2>1. \A j \in Jurados : Pending.votes[j] = "none"
    BY DEF Pending, NoVotes
  <2>2. \E limit \in Limits : 0 <= limit
    <3>1. PICK limit \in Limits : limit \in Nat
      BY AnteproyectoAssumption
    <3> QED
      BY <3>1
  <2>3. Pending.status = "pending_submission" /\ Pending.corrections = 0
    BY DEF Pending
  <2> QED
    BY <2>1, <2>2, <2>3 DEF RowOK, InReview
<1>4. Checked(Idle, p)
  BY <1>2 DEF Checked
<1> QED
  BY <1>1, <1>2, <1>3, <1>4

LEMMA InitInvariant == Init => Invariant
<1> SUFFICES ASSUME Init PROVE Invariant
  OBVIOUS
<1>1. TypeOK
  BY PendingOK DEF Init, TypeOK, RecordStatus
<1> QED
  BY <1>1, PendingOK DEF Init, Invariant

\* A request that loads the row it needs: the slot is good if what it checked is.
LEMMA LoadKeeps ==
    ASSUME Invariant, NEW r \in Requests, NEW q \in Request,
           q.row = submission, Checked(q, panel),
           req' = [req EXCEPT ![r] = q],
           UNCHANGED <<submission, history, panel, record>>
    PROVE  Invariant'
<1>1. TypeOK'
  BY DEF Invariant, TypeOK
<1>2. \A t \in Requests : RowOK(req'[t].row, history, panel) /\ Checked(req'[t], panel)
  BY DEF Invariant, TypeOK
<1> QED
  BY <1>1, <1>2 DEF Invariant

\* A request that saves a good row and ends, or goes on with a good slot.
LEMMA SaveKeeps ==
    ASSUME Invariant, NEW r \in Requests, NEW row \in Submission, NEW q \in Request,
           RowOK(row, history, panel), RowOK(q.row, history, panel), Checked(q, panel),
           submission' = row, req' = [req EXCEPT ![r] = q], record' \in RecordStatus,
           UNCHANGED <<history, panel>>
    PROVE  Invariant'
<1>1. TypeOK'
  BY DEF Invariant, TypeOK
<1>2. \A t \in Requests : RowOK(req'[t].row, history, panel) /\ Checked(req'[t], panel)
  BY DEF Invariant, TypeOK
<1> QED
  BY <1>1, <1>2 DEF Invariant

\* The rows the handlers save, from the rows they loaded.
LEMMA DeliveredOK ==
    ASSUME NEW row \in Submission, NEW h, NEW p, RowOK(row, h, p)
    PROVE  Delivered(row) \in Submission /\ RowOK(Delivered(row), h, p)
<1> DEFINE new == Delivered(row)
<1>1. /\ new \in Submission /\ new.status \in {"submitted", "revised"}
      /\ new.corrections = row.corrections /\ new.version > 0
      /\ new.reviewDue /\ new.votes = NoVotes
  <2>1. row.version \in Nat /\ row.corrections \in Nat
    BY DEF Submission
  <2>2. new \in Submission
    <3>1. row.version + 1 \in Nat /\ NoVotes \in Ballots
      BY <2>1, NoVotesOK
    <3>2. (IF row.version = 0 THEN "submitted" ELSE "revised") \in SubmissionStatus
      BY DEF SubmissionStatus, InReview
    <3> QED
      BY <3>1, <3>2 DEF Submission, Delivered
  <2>3. new.status \in {"submitted", "revised"} /\ new.corrections = row.corrections
    BY DEF Submission, Delivered
  <2>4. new.version > 0
    BY <2>1 DEF Submission, Delivered
  <2>5. new.reviewDue /\ new.votes = NoVotes
    BY DEF Submission, Delivered
  <2> QED
    BY <2>2, <2>3, <2>4, <2>5
<1> HIDE DEF new
<1>2. RowOK(new, h, p)
  BY <1>1, NoVotesOK DEF RowOK, InReview
<1> QED
  BY <1>1, <1>2 DEF new

LEMMA CorrectedOK ==
    ASSUME NEW row \in Submission, NEW h, NEW p, RowOK(row, h, p),
           row.status \in InReview, \E limit \in Limits : row.corrections < limit
    PROVE  Corrected(row) \in Submission /\ RowOK(Corrected(row), h, p)
<1> DEFINE new == Corrected(row)
<1>1. PICK limit \in Limits : row.corrections < limit /\ limit \in Nat
  BY AnteproyectoAssumption
<1>2. /\ new \in Submission /\ new.status = "needs_revision"
      /\ new.corrections <= limit
      /\ new.version = row.version /\ new.studentDue
      /\ new.votes = NoVotes
  <2>1. row.corrections \in Nat
    BY DEF Submission
  <2>2. new \in Submission
    <3>1. row.corrections + 1 \in Nat /\ NoVotes \in Ballots
      BY <2>1, NoVotesOK
    <3>2. "needs_revision" \in SubmissionStatus
      BY DEF SubmissionStatus, Deliverable
    <3> QED
      BY <3>1, <3>2 DEF Submission, Corrected
  <2>3. new.corrections <= limit
    BY <1>1, <2>1 DEF Submission, Corrected
  <2>4. /\ new.status = "needs_revision" /\ new.version = row.version
        /\ new.studentDue /\ new.votes = NoVotes
    BY DEF Submission, Corrected
  <2> QED
    BY <2>2, <2>3, <2>4
<1>3. row.version > 0
  BY DEF RowOK, InReview
<1> HIDE DEF new
<1>4. RowOK(new, h, p)
  BY <1>1, <1>2, <1>3, NoVotesOK DEF RowOK, InReview
<1> QED
  BY <1>2, <1>4 DEF new

LEMMA ExtendedOK ==
    ASSUME NEW row \in Submission, NEW h, NEW p, RowOK(row, h, p),
           NEW target \in {"review", "student"}, row.status \in Extendable(target)
    PROVE  Extended(row, target) \in Submission /\ RowOK(Extended(row, target), h, p)
BY DEF Submission, SubmissionStatus, InReview, Deliverable, Extended, Extendable, RowOK

\* The row once it is noticed that a deadline has passed.
ExpiredRow(row) == [row EXCEPT !.status = "expired"]

LEMMA ExpiredOK ==
    ASSUME NEW row \in Submission, NEW h, NEW p, RowOK(row, h, p),
           row.status \in InReview \cup {"needs_revision"}
    PROVE  ExpiredRow(row) \in Submission /\ RowOK(ExpiredRow(row), h, p)
BY DEF Submission, SubmissionStatus, InReview, Deliverable, ExpiredRow, RowOK

\* The row once a vote has been counted: the outcome, and the deadlines with it.
CountedRow(row, list) ==
    [row EXCEPT !.status = Outcome(row, list),
                !.reviewDue = @ /\ Outcome(row, list) = "under_review",
                !.studentDue = @ /\ Outcome(row, list) = "under_review"]

LEMMA CountedOK ==
    ASSUME NEW row \in Submission, NEW h, NEW p, RowOK(row, h, p),
           row.status \in InReview, NEW list \in SUBSET Jurados,
           list = {} \/ p \subseteq list
    PROVE  CountedRow(row, list) \in Submission /\ RowOK(CountedRow(row, list), h, p)
<1> DEFINE new == CountedRow(row, list)
<1>1. Outcome(row, list) \in {"under_review", "rejected", "approved"}
  BY DEF Outcome
<1>2. new \in Submission
  BY <1>1 DEF Submission, SubmissionStatus, InReview, CountedRow
<1>3. /\ new.status = Outcome(row, list) /\ new.version = row.version
      /\ new.corrections = row.corrections /\ new.votes = row.votes
  BY DEF Submission, CountedRow
<1>4. new.status = "under_review" => new.reviewDue
  BY <1>3 DEF Submission, CountedRow, RowOK
<1>5. new.status = "rejected" => \E j \in Jurados : row.votes[j] = "reject"
  BY <1>3 DEF Outcome
<1>6. ASSUME new.status = "approved"
      PROVE  list # {} /\ \A j \in list : row.votes[j] = "approve"
  <2>1. list # {} /\ \A j \in list : row.votes[j] # "none" /\ row.votes[j] # "reject"
    BY <1>3, <1>6 DEF Outcome, AllVoted
  <2>2. \A j \in Jurados : row.votes[j] \in {"approve", "reject", "none"}
    BY DEF Submission, Ballots, Verdicts
  <2> QED
    BY <2>1, <2>2
<1>7. ASSUME new.status = "approved"
      PROVE  /\ \A j \in p : [jurado |-> j, verdict |-> "approve",
                               version |-> row.version] \in h
             /\ \E v \in h : v.verdict = "approve" /\ v.version = row.version
  <2>1. \A j \in list : [jurado |-> j, verdict |-> "approve",
                         version |-> row.version] \in h
    BY <1>6, <1>7 DEF RowOK
  <2>2. PICK j \in list : TRUE
    BY <1>6, <1>7
  <2>3. \E v \in h : v.verdict = "approve" /\ v.version = row.version
    BY <2>1, <2>2
  <2> QED
    BY <1>6, <1>7, <2>1, <2>3
<1>8. row.version > 0
  BY DEF RowOK, InReview
<1> HIDE DEF new
<1>9. RowOK(new, h, p)
  BY <1>1, <1>3, <1>4, <1>5, <1>7, <1>8 DEF RowOK, InReview
<1> QED
  BY <1>2, <1>9 DEF new

\* The row with a vote that is in the history.
VotedRow(row, j, verdict) == [row EXCEPT !.votes[j] = verdict]

LEMMA VotedOK ==
    ASSUME NEW row \in Submission, NEW h, NEW p, RowOK(row, h, p),
           row.status \in InReview, NEW j \in Jurados, NEW verdict \in Verdicts,
           verdict = "reject" => \E limit \in Limits : row.corrections >= limit,
           [jurado |-> j, verdict |-> verdict, version |-> row.version] \in h
    PROVE  /\ VotedRow(row, j, verdict) \in Submission
           /\ VotedRow(row, j, verdict).status = row.status
           /\ RowOK(VotedRow(row, j, verdict), h, p)
<1> DEFINE new == VotedRow(row, j, verdict)
<1>1. row.votes \in Ballots
  BY DEF Submission
<1>2. [row.votes EXCEPT ![j] = verdict] \in Ballots
  BY <1>1 DEF Ballots
<1>3. /\ new \in Submission
      /\ new.votes = [row.votes EXCEPT ![j] = verdict]
      /\ new.status = row.status /\ new.version = row.version
      /\ new.corrections = row.corrections /\ new.reviewDue = row.reviewDue
      /\ new.studentDue = row.studentDue
  BY <1>2 DEF Submission, VotedRow
<1>4. \A k \in Jurados : new.votes[k] = IF k = j THEN verdict ELSE row.votes[k]
  BY <1>1, <1>3 DEF Ballots
<1> HIDE DEF new
<1>5. RowOK(new, h, p)
  BY <1>3, <1>4 DEF RowOK, InReview
<1> QED
  BY <1>3, <1>5 DEF new

(***************************************************************************)
(* The steps                                                               *)
(***************************************************************************)
\* A slot with nothing more to check than the row it has loaded.
LEMMA ArriveKeeps ==
    ASSUME Invariant, NEW r \in Requests, Arrive(r)
    PROVE  Invariant'
<1>1. submission \in Submission /\ Idle \in Request
  BY PendingOK DEF Invariant, TypeOK
<1>2. \A q \in Request : Checked(q, panel) \/ q.pc \notin {"submit_save", "comment_save"}
  BY DEF Checked
<1>3. CASE SubmitCheck(r)
  <2> DEFINE q == [Idle EXCEPT !.pc = "submit_save", !.row = submission]
  <2>1. q \in Request /\ q.row = submission /\ q.pc = "submit_save"
    BY <1>1 DEF Request, Steps
  <2>2. req' = [req EXCEPT ![r] = q] /\ UNCHANGED <<submission, history, panel, record>>
    BY <1>3 DEF SubmitCheck, Load, Begin
  <2> HIDE DEF q
  <2> QED
    BY <2>1, <2>2, <1>2, LoadKeeps
<1>4. CASE CommentLoad(r)
  <2> DEFINE q == [Idle EXCEPT !.pc = "comment_save", !.row = submission]
  <2>1. q \in Request /\ q.row = submission /\ q.pc = "comment_save"
    BY <1>1 DEF Request, Steps
  <2>2. req' = [req EXCEPT ![r] = q] /\ UNCHANGED <<submission, history, panel, record>>
    BY <1>4 DEF CommentLoad, Load, Begin
  <2> HIDE DEF q
  <2> QED
    BY <2>1, <2>2, <1>2, LoadKeeps
<1>5. CASE ExpireCheck(r)
  <2> DEFINE q == [Idle EXCEPT !.pc = "expire_save", !.row = submission]
  <2>1. q \in Request /\ q.row = submission /\ q.pc = "expire_save"
    BY <1>1 DEF Request, Steps
  <2>2. req' = [req EXCEPT ![r] = q] /\ UNCHANGED <<submission, history, panel, record>>
    BY <1>5 DEF ExpireCheck, Load, Begin
  <2>3. submission.status \in InReview \cup {"needs_revision"}
    BY <1>5 DEF ExpireCheck
  <2> HIDE DEF q
  <2>4. Checked(q, panel)
    BY <2>1, <2>3 DEF Checked
  <2> QED
    BY <2>1, <2>2, <2>4, LoadKeeps
<1>6. ASSUME NEW j \in Jurados, CorrectCheck(r, j) PROVE Invariant'
  <2> DEFINE q == [Idle EXCEPT !.pc = "correct_save", !.row = submission]
  <2>1. q \in Request /\ q.row = submission /\ q.pc = "correct_save"
    BY <1>1 DEF Request, Steps
  <2>2. req' = [req EXCEPT ![r] = q] /\ UNCHANGED <<submission, history, panel, record>>
    BY <1>6 DEF CorrectCheck, Load, Begin
  <2>3. /\ submission.status \in InReview
        /\ \E limit \in Limits : submission.corrections < limit
    BY <1>6 DEF CorrectCheck, MayReview, MayCorrect
  <2> HIDE DEF q
  <2>4. Checked(q, panel)
    BY <2>1, <2>3 DEF Checked
  <2> QED
    BY <2>1, <2>2, <2>4, LoadKeeps
<1>7. ASSUME NEW j \in Jurados, NEW v \in Verdicts, VoteCheck(r, j, v) PROVE Invariant'
  <2> DEFINE q == [Idle EXCEPT !.pc = "vote_poll", !.row = submission,
                               !.voter = j, !.verdict = v]
  <2>1. q \in Request /\ q.row = submission /\ q.pc = "vote_poll" /\ q.voter = j /\ q.verdict = v
    BY <1>1 DEF Request, Steps
  <2>2. req' = [req EXCEPT ![r] = q] /\ UNCHANGED <<submission, history, panel, record>>
    BY <1>7 DEF VoteCheck, Begin
  <2>3. /\ submission.status \in InReview
        /\ v = "reject" => \E limit \in Limits : submission.corrections >= limit
    BY <1>7 DEF VoteCheck, MayReview
  <2> HIDE DEF q
  <2>4. Checked(q, panel)
    BY <2>1, <2>3 DEF Checked
  <2> QED
    BY <2>1, <2>2, <2>4, LoadKeeps
<1>8. ASSUME NEW t \in {"review", "student"}, ExtendCheck(r, t) PROVE Invariant'
  <2> DEFINE q == [Idle EXCEPT !.pc = "extend_save", !.row = submission, !.target = t]
  <2>1. q \in Request /\ q.row = submission /\ q.pc = "extend_save" /\ q.target = t
    BY <1>1 DEF Request, Steps
  <2>2. req' = [req EXCEPT ![r] = q] /\ UNCHANGED <<submission, history, panel, record>>
    BY <1>8 DEF ExtendCheck, Begin
  <2>3. submission.status \in Extendable(t)
    BY <1>8 DEF ExtendCheck
  <2> HIDE DEF q
  <2>4. Checked(q, panel)
    BY <2>1, <2>3 DEF Checked
  <2> QED
    BY <2>1, <2>2, <2>4, LoadKeeps
<1> QED
  BY <1>3, <1>4, <1>5, <1>6, <1>7, <1>8 DEF Arrive

\* A handler saves the row, the history only grows, and the slot is idle after.
LEMMA AdvanceKeeps ==
    ASSUME Invariant, NEW r \in Requests, Advance(r)
    PROVE  Invariant'
<1> DEFINE row == req[r].row
<1>1. /\ req \in [Requests -> Request] /\ record \in RecordStatus
      /\ req[r] \in Request /\ row \in Submission
      /\ RowOK(row, history, panel) /\ Checked(req[r], panel)
  BY DEF Invariant, TypeOK, Request
<1>2. Idle \in Request /\ RowOK(Idle.row, history, panel) /\ Checked(Idle, panel)
  BY PendingOK
<1>3. ASSUME NEW new, new \in Submission, RowOK(new, history, panel), Save(r, new)
      PROVE  Invariant'
  BY <1>1, <1>2, <1>3, SaveKeeps DEF Save, Done
<1>4. CASE SubmitSave(r)
  BY <1>1, <1>3, <1>4, DeliveredOK DEF SubmitSave
<1>5. CASE CommentSave(r)
  BY <1>1, <1>3, <1>5 DEF CommentSave
<1>6. CASE CorrectSave(r)
  <2>1. row.status \in InReview /\ \E limit \in Limits : row.corrections < limit
    BY <1>1, <1>6 DEF CorrectSave, At, Checked
  <2> QED
    BY <1>1, <1>3, <1>6, <2>1, CorrectedOK DEF CorrectSave
<1>7. CASE ExtendSave(r)
  <2>1. row.status \in Extendable(req[r].target) /\ req[r].target \in {"review", "student"}
    BY <1>1, <1>7 DEF ExtendSave, At, Checked, Request
  <2> QED
    BY <1>1, <1>3, <1>7, <2>1, ExtendedOK DEF ExtendSave
<1>8. CASE ExpireSave(r)
  <2>1. row.status \in InReview \cup {"needs_revision"}
    BY <1>1, <1>8 DEF ExpireSave, At, Checked
  <2> QED
    BY <1>1, <1>3, <1>8, <2>1, ExpiredOK DEF ExpireSave, ExpiredRow
<1>9. CASE RecordSave(r)
  <2>1. submission' = submission /\ req' = [req EXCEPT ![r] = Idle] /\ record' \in RecordStatus
        /\ UNCHANGED <<history, panel>>
    BY <1>9 DEF RecordSave, Done, RecordStatus
  <2>2. submission \in Submission /\ RowOK(submission, history, panel)
    BY DEF Invariant, TypeOK
  <2> QED
    BY <1>2, <2>1, <2>2, SaveKeeps
<1>10. CASE VoteSave(r)
  <2> DEFINE new == CountedRow(row, req[r].seen)
             q == IF Outcome(row, req[r].seen) = "approved"
                  THEN [req[r] EXCEPT !.pc = "record_save"] ELSE Idle
  <2>1. /\ row.status \in InReview
        /\ req[r].seen = {} \/ panel \subseteq req[r].seen
        /\ req[r].seen \in SUBSET Jurados
    BY <1>1, <1>10 DEF VoteSave, At, Checked, Request
  <2>2. new \in Submission /\ RowOK(new, history, panel)
    BY <1>1, <2>1, CountedOK
  <2>3. /\ submission' = new /\ req' = [req EXCEPT ![r] = q]
        /\ UNCHANGED <<history, panel, record>>
    BY <1>1, <1>10 DEF VoteSave, CountedRow, Done
  <2>4. CASE Outcome(row, req[r].seen) = "approved"
    <3>1. q \in Request /\ q.row = row /\ q.pc = "record_save"
      BY <1>1, <2>4 DEF Request, Steps
    <3> HIDE DEF q, new
    <3>2. Checked(q, panel)
      BY <3>1 DEF Checked
    <3> QED
      BY <1>1, <2>2, <2>3, <3>1, <3>2, SaveKeeps
  <2>5. CASE Outcome(row, req[r].seen) # "approved"
    <3>1. q = Idle
      BY <2>5
    <3> HIDE DEF q, new
    <3> QED
      BY <1>1, <1>2, <2>2, <2>3, <3>1, SaveKeeps
  <2> QED
    BY <2>4, <2>5
<1>11. CASE VotePoll(r)
  <2>1. PICK list \in SUBSET Jurados :
          /\ list = {} \/ list = panel
          /\ history' = history \cup {[jurado |-> req[r].voter, verdict |-> req[r].verdict,
                                       version |-> row.version]}
          /\ req' = [req EXCEPT ![r].pc = "vote_save", ![r].seen = list,
                                ![r].row.votes[req[r].voter] = req[r].verdict]
          /\ UNCHANGED <<submission, panel, record>>
    BY <1>11 DEF VotePoll, Invariant, TypeOK
  <2> DEFINE new == VotedRow(row, req[r].voter, req[r].verdict)
             q == [req[r] EXCEPT !.pc = "vote_save", !.seen = list, !.row = new]
  <2>2. /\ row.status \in InReview /\ req[r].voter \in Jurados /\ req[r].verdict \in Verdicts
        /\ req[r].verdict = "reject" => \E limit \in Limits : row.corrections >= limit
    BY <1>1, <1>11 DEF VotePoll, At, Checked, Request
  <2>3. RowOK(row, history', panel) /\ history \subseteq history'
    BY <1>1, <2>1, RowStays
  <2>4. new \in Submission /\ new.status \in InReview /\ RowOK(new, history', panel)
    <3> DEFINE h == history'
    <3>1. /\ RowOK(row, h, panel)
          /\ [jurado |-> req[r].voter, verdict |-> req[r].verdict,
              version |-> row.version] \in h
      BY <2>1, <2>3
    <3> HIDE DEF h
    <3>2. /\ new \in Submission /\ new.status = row.status
          /\ RowOK(new, h, panel)
      BY <1>1, <2>2, <3>1, VotedOK
    <3> QED
      BY <2>2, <3>2 DEF h
  <2>5. req' = [req EXCEPT ![r] = q]
    BY <1>1, <2>1 DEF VotedRow, Request, Submission
  <2>6. q \in Request /\ q.row = new /\ q.pc = "vote_save" /\ q.seen = list
        /\ q.voter = req[r].voter
    BY <1>1, <2>4 DEF Request, Steps
  <2> HIDE DEF q, new
  <2>7. RowOK(q.row, history', panel) /\ Checked(q, panel)
    BY <2>1, <2>2, <2>4, <2>6 DEF Checked
  <2>8. \A t \in Requests : RowOK(req'[t].row, history', panel) /\ Checked(req'[t], panel)
    BY <1>1, <2>3, <2>5, <2>7, RowStays DEF Invariant
  <2>9. RowOK(submission, history', panel)
    BY <2>3, RowStays DEF Invariant
  <2>10. history' \subseteq Vote
    BY <1>1, <2>1, <2>2 DEF Invariant, TypeOK, Vote, Submission
  <2>11. TypeOK'
    BY <1>1, <2>1, <2>5, <2>6, <2>10 DEF Invariant, TypeOK
  <2> QED
    BY <2>1, <2>8, <2>9, <2>11 DEF Invariant
<1> QED
  BY <1>4, <1>5, <1>6, <1>7, <1>8, <1>9, <1>10, <1>11 DEF Advance

LEMMA NextInvariant == Invariant /\ [Next]_vars => Invariant'
<1> SUFFICES ASSUME Invariant, [Next]_vars PROVE Invariant'
  OBVIOUS
<1>1. CASE Handle
  BY <1>1, ArriveKeeps, AdvanceKeeps DEF Handle
<1>2. ASSUME NEW j \in panel, Disconnect(j) PROVE Invariant'
  <2>1. panel' \subseteq panel /\ UNCHANGED <<submission, history, record, req>>
    BY <1>2 DEF Disconnect
  <2>2. TypeOK'
    BY <2>1 DEF Invariant, TypeOK
  <2>3. RowOK(submission, history, panel')
    BY <2>1, RowStays DEF Invariant
  <2>4. \A r \in Requests : RowOK(req[r].row, history, panel') /\ Checked(req[r], panel')
    BY <2>1, RowStays, CheckedStays DEF Invariant
  <2> QED
    BY <2>1, <2>2, <2>3, <2>4 DEF Invariant
<1>3. CASE Crash
  <2>1. TypeOK'
    BY <1>3, PendingOK DEF Crash, Invariant, TypeOK
  <2> QED
    BY <1>3, <2>1, PendingOK DEF Crash, Invariant
<1>4. CASE UNCHANGED vars
  BY <1>4 DEF vars, Invariant, TypeOK
<1> QED
  BY <1>1, <1>2, <1>3, <1>4 DEF Next

LEMMA AlwaysInvariant == Spec => []Invariant
BY InitInvariant, NextInvariant, PTL DEF Spec

(***************************************************************************)
(* The theorems                                                            *)
(***************************************************************************)
\* The rows, the votes and the requests have their types, whatever overlaps
\* (the entity AcademicSubmission and its status enum).
THEOREM AnteproyectoTypeCorrect == Spec => []TypeOK
<1>1. Invariant => TypeOK
  BY DEF Invariant
<1> QED
  BY AlwaysInvariant, <1>1, PTL

\* The limit of corrections binds every run of reviewAnteproyecto, for every
\* setting and however many requests overlap.
THEOREM CorrectionsAreBounded == Spec => []CorrectionsBounded
<1>1. Invariant => CorrectionsBounded
  BY DEF Invariant, RowOK, CorrectionsBounded
<1> QED
  BY AlwaysInvariant, <1>1, PTL

\* No vote in the row was given for another version: submitAnteproyecto and the
\* correction of reviewAnteproyecto reset them, and a stale save takes its
\* version along.
THEOREM VotesMatchVersion == Spec => []VotesAreForVersion
<1>1. Invariant => VotesAreForVersion
  BY DEF Invariant, RowOK, VotesAreForVersion
<1> QED
  BY AlwaysInvariant, <1>1, PTL

\* No anteproyecto is approved over an active jurado's head (reviewAnteproyecto),
\* for any number of jurados and of overlapping requests.
THEOREM PanelApproves == Spec => []ApprovedByPanel
<1>1. Invariant => ApprovedByPanel
  BY DEF Invariant, RowOK, ApprovedByPanel
<1> QED
  BY AlwaysInvariant, <1>1, PTL

\* The party whose turn it is has a deadline that can expire and be extended
\* (extendAnteproyectoDeadline, checkAnteproyectoExpiry).
THEOREM TurnsHaveDeadlines == Spec => []TurnHasDeadline
<1>1. Invariant => TurnHasDeadline
  BY DEF Invariant, RowOK, TurnHasDeadline, InReview
<1> QED
  BY AlwaysInvariant, <1>1, PTL
=============================================================================

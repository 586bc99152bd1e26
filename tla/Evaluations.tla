----------------------------- MODULE Evaluations -----------------------------
(***************************************************************************)
(* evaluation-service: the evaluations that the parties of one application  *)
(* make of each other once its academic process is completed. They are made *)
(* by the subscriber of academic.completed, one after another, or by a       *)
(* request of their evaluator; they are submitted with ratings, and the job  *)
(* of every hour expires those that are due.                                 *)
(*                                                                         *)
(* An evaluation is told apart by its evaluator and its type, which one      *)
(* value of Pairs stands for; nothing in the database makes it unique. A     *)
(* score is kept as the ratings that it is the mean of.                      *)
(***************************************************************************)
EXTENDS Integers

CONSTANTS
    Requests,      \* slots for the requests that run at a time
    MaxIds,        \* bound on the evaluations
    Pairs,         \* evaluator and type
    Gated,         \* the pairs whose type needs a completed process
    FromEvent,     \* the pairs whose two parties the event names
    Criteria, Scores,
    MaxRestarts,   \* bound on the restarts
    None           \* no row

VARIABLES
    record,        \* the academic record of the application
    event,         \* academic.completed: unpublished, queued, handling or gone
    todo,          \* the pairs its subscriber has yet to look at
    found,         \* the pair it looked at and did not find
    evaluations,   \* [id |-> its row]
    ratings,       \* evaluation_ratings; of: the slot that inserted it
    due,           \* the evaluations whose due date has passed
    call,          \* what runs in each slot
    restarts,
    doubled,       \* history: the pairs of which two creations overlapped
    swallowed,     \* history: the subscriber failed, and its event is lost
    overlapped,    \* history: the evaluations of which two submissions overlapped
    cut            \* history: those of which a restart cut a submission off

vars == <<record, event, todo, found, evaluations, ratings, due, call, restarts,
          doubled, swallowed, overlapped, cut>>
Histories == <<doubled, overlapped, cut>>

Ids == 1..MaxIds
Idle == [op |-> "none"]
NoScore == {}
EvaluationStatus == {"pending", "completed", "expired"}
Rating == [evaluation : Ids, criterion : Criteria, score : Scores, of : Requests]

Evaluation == [pair : Pairs, status : EvaluationStatus, dated : BOOLEAN,
               score : SUBSET Rating]

EvaluationAssumption ==
    /\ Gated \subseteq Pairs /\ FromEvent \subseteq Pairs
    /\ MaxIds \in Nat /\ MaxRestarts \in Nat
    /\ None \notin Pairs /\ None \notin Criteria /\ None \notin Rating /\ None \notin Evaluation

TypeOK ==
    /\ record \in {"in_progress", "completed"}
    /\ event \in {"unpublished", "queued", "handling", "gone"}
    /\ todo \subseteq Pairs /\ found \in Pairs \cup {None}
    /\ DOMAIN evaluations = Ids
    /\ \A i \in Ids : evaluations[i] # None => evaluations[i] \in Evaluation
    /\ ratings \subseteq Rating /\ due \subseteq Ids
    /\ DOMAIN call = Requests /\ restarts \in 0..MaxRestarts
    /\ doubled \subseteq Pairs /\ swallowed \in BOOLEAN
    /\ overlapped \subseteq Ids /\ cut \subseteq Ids

Init ==
    /\ record = "in_progress" /\ event = "unpublished" /\ todo = {} /\ found = None
    /\ evaluations = [i \in Ids |-> None]
    /\ ratings = {} /\ due = {} /\ restarts = 0
    /\ call = [r \in Requests |-> Idle]
    /\ doubled = {} /\ swallowed = FALSE /\ overlapped = {} /\ cut = {}

Rows == {i \in Ids : evaluations[i] # None}
Exists(pair) == \E i \in Rows : evaluations[i].pair = pair
Free == Ids \ Rows

Insert(pair, dated) ==
    /\ Free # {}
    /\ evaluations' = [evaluations EXCEPT ![CHOOSE i \in Free : TRUE] =
        [pair |-> pair, status |-> "pending", dated |-> dated, score |-> NoScore]]

Goes(r, c) == call' = [call EXCEPT ![r] = c]
At(r, op, step) == call[r].op = op /\ call[r].step = step

\* Who is making an evaluation of the pair, and who is submitting the evaluation.
Creating(r, pair) == call[r].op = "create" /\ call[r].pair = pair
Submitting(r, i) == call[r].op = "submit" /\ call[r].id = i

(***************************************************************************)
(* The record and its event                                                *)
(***************************************************************************)
\* uploadFinalGrade of application-service.
Complete ==
    /\ record = "in_progress"
    /\ record' = "completed" /\ event' = "queued"
    /\ UNCHANGED <<todo, found, evaluations, ratings, due, call, restarts, swallowed,
                   Histories>>

Deliver ==
    /\ event = "queued"
    /\ event' = "handling" /\ todo' = FromEvent /\ found' = None
    /\ UNCHANGED <<record, evaluations, ratings, due, call, restarts, swallowed, Histories>>

\* Mutant of LookUp: every delivery makes all evaluations.
LookUpNothing(pair) ==
    /\ event = "handling" /\ found = None /\ pair \in todo
    /\ todo' = todo \ {pair}
    /\ found' = pair
    /\ UNCHANGED <<record, event, evaluations, ratings, due, call, restarts, swallowed,
                   Histories>>

\* createEvaluationsForCompletedProject, one pair after another: findOne ...
LookUp(pair) ==
    /\ event = "handling" /\ found = None /\ pair \in todo
    /\ todo' = todo \ {pair}
    /\ found' = IF Exists(pair) THEN None ELSE pair
    /\ doubled' = IF ~Exists(pair) /\ \E r \in Requests : Creating(r, pair)
                  THEN doubled \cup {pair} ELSE doubled
    /\ UNCHANGED <<record, event, evaluations, ratings, due, call, restarts, swallowed,
                   overlapped, cut>>

\* ... and save; a due date is never set here.
Generate ==
    /\ event = "handling" /\ found # None
    /\ Insert(found, FALSE)
    /\ found' = None
    /\ UNCHANGED <<record, event, todo, ratings, due, call, restarts, swallowed,
                   Histories>>

\* The handler ends; an error of the database in the middle is swallowed as well.
Ends ==
    /\ event = "handling"
    /\ event' = "gone" /\ found' = None /\ todo' = {}
    /\ swallowed' = (todo # {} \/ found # None)
    /\ UNCHANGED <<record, evaluations, ratings, due, call, restarts, Histories>>

(***************************************************************************)
(* createEvaluation                                                        *)
(***************************************************************************)
CreateStart(r, pair) ==
    /\ call[r] = Idle /\ ~Exists(pair) /\ Free # {}
    /\ Goes(r, [op |-> "create", step |-> "assert", pair |-> pair])
    /\ doubled' = IF found = pair \/ \E q \in Requests : Creating(q, pair)
                  THEN doubled \cup {pair} ELSE doubled
    /\ UNCHANGED <<record, event, todo, found, evaluations, ratings, due, restarts,
                   swallowed, overlapped, cut>>

\* Without an answer a gated evaluation is refused.
assertAcademicProcessCompleted(pair, answer) == pair \in Gated => answer = "completed"

CreateAssert(r) ==
    /\ At(r, "create", "assert")
    /\ \E answer \in {record, "none"} :
         Goes(r, IF assertAcademicProcessCompleted(call[r].pair, answer)
                 THEN [call[r] EXCEPT !.step = "save"] ELSE Idle)
    /\ UNCHANGED <<record, event, todo, found, evaluations, ratings, due, restarts,
                   swallowed, Histories>>

CreateSave(r) ==
    /\ At(r, "create", "save")
    /\ \E dated \in BOOLEAN : Insert(call[r].pair, dated)
    /\ Goes(r, Idle)
    /\ UNCHANGED <<record, event, todo, found, ratings, due, restarts, swallowed,
                   Histories>>

(***************************************************************************)
(* submitEvaluation                                                        *)
(***************************************************************************)
\* Mutant of SubmitStart: an evaluation that has expired is taken, too.
SubmitStartLate(r, i) ==
    /\ call[r] = Idle /\ i \in Rows /\ evaluations[i].status # "completed"
    /\ \E cs \in SUBSET Criteria, score \in Scores :
         Goes(r, [op |-> "submit", step |-> "look", id |-> i, row |-> evaluations[i],
                  todo |-> cs, rated |-> cs # {}, score |-> score, criterion |-> None,
                  old |-> None])
    /\ overlapped' = overlapped
    /\ UNCHANGED <<record, event, todo, found, evaluations, ratings, due, restarts,
                   swallowed, doubled, cut>>

SubmitStart(r, i) ==
    /\ call[r] = Idle /\ i \in Rows
    /\ evaluations[i].status # "completed" /\ evaluations[i].status # "expired"
    /\ \E cs \in SUBSET Criteria, score \in Scores :
         Goes(r, [op |-> "submit", step |-> "look", id |-> i, row |-> evaluations[i],
                  todo |-> cs, rated |-> cs # {}, score |-> score, criterion |-> None,
                  old |-> None])
    /\ overlapped' = IF \E q \in Requests : Submitting(q, i)
                     THEN overlapped \cup {i} ELSE overlapped
    /\ UNCHANGED <<record, event, todo, found, evaluations, ratings, due, restarts,
                   swallowed, doubled, cut>>

RatingsOf(i) == {t \in ratings : t.evaluation = i}

\* findOne of the rating of one criterion ...
SubmitLook(r, c) ==
    /\ At(r, "submit", "look") /\ c \in call[r].todo
    /\ LET there == {t \in RatingsOf(call[r].id) : t.criterion = c}
       IN \E old \in (IF there = {} THEN {None} ELSE there) :
            Goes(r, [call[r] EXCEPT !.step = "rate", !.todo = @ \ {c},
                                    !.criterion = c, !.old = old])
    /\ UNCHANGED <<record, event, todo, found, evaluations, ratings, due, restarts,
                   swallowed, Histories>>

\* ... and save: its new score, or a new row.
SubmitRate(r) ==
    /\ At(r, "submit", "rate")
    /\ LET c == call[r]
           new == [evaluation |-> c.id, criterion |-> c.criterion, score |-> c.score,
                   of |-> IF c.old = None THEN r ELSE c.old.of]
       IN /\ ratings' = (ratings \ {c.old}) \cup {new}
          /\ Goes(r, [c EXCEPT !.step = "look", !.criterion = None, !.old = None])
    /\ UNCHANGED <<record, event, todo, found, evaluations, due, restarts, swallowed,
                   Histories>>

\* The mean of all the ratings that are there by now.
Mean(i) == RatingsOf(i)

\* A request without ratings brings its own score, or none.
SubmitScore(r) ==
    /\ At(r, "submit", "look") /\ call[r].todo = {}
    /\ Goes(r, [call[r] EXCEPT !.step = "save",
            !.row.score = IF call[r].rated THEN Mean(call[r].id) ELSE NoScore])
    /\ UNCHANGED <<record, event, todo, found, evaluations, ratings, due, restarts,
                   swallowed, Histories>>

\* save(evaluation), as it was read but completed.
SubmitSave(r) ==
    /\ At(r, "submit", "save")
    /\ evaluations' = [evaluations EXCEPT ![call[r].id] =
                         [call[r].row EXCEPT !.status = "completed"]]
    /\ Goes(r, Idle)
    /\ UNCHANGED <<record, event, todo, found, ratings, due, restarts, swallowed,
                   Histories>>

(***************************************************************************)
(* expireEvaluations                                                       *)
(***************************************************************************)
FallsDue(i) ==
    /\ i \in Rows /\ evaluations[i].dated /\ i \notin due
    /\ due' = due \cup {i}
    /\ UNCHANGED <<record, event, todo, found, evaluations, ratings, call, restarts,
                   swallowed, Histories>>

Overdue == {i \in Rows : evaluations[i].dated /\ i \in due
                         /\ evaluations[i].status = "pending"}

\* One statement, for all of them.
expireEvaluations ==
    /\ Overdue # {}
    /\ evaluations' = [i \in Ids |-> IF i \in Overdue
                          THEN [evaluations[i] EXCEPT !.status = "expired"]
                          ELSE evaluations[i]]
    /\ UNCHANGED <<record, event, todo, found, ratings, due, call, restarts, swallowed,
                   Histories>>

\* The process restarts: its requests end where they are, and the broker delivers again
\* the event that was not acknowledged.
Restart ==
    /\ restarts < MaxRestarts
    /\ restarts' = restarts + 1
    /\ cut' = cut \cup {i \in Ids : \E r \in Requests : Submitting(r, i)}
    /\ call' = [r \in Requests |-> Idle]
    /\ event' = IF event = "handling" THEN "queued" ELSE event
    /\ todo' = {} /\ found' = None
    /\ UNCHANGED <<record, evaluations, ratings, due, swallowed, doubled, overlapped>>

Subscriber ==
    \/ Complete \/ Deliver \/ Generate \/ Ends
    \/ \E pair \in Pairs : LookUp(pair)

Create(r) == CreateAssert(r) \/ CreateSave(r) \/ \E pair \in Pairs : CreateStart(r, pair)

Submit(r) ==
    \/ \E i \in Ids : SubmitStart(r, i)
    \/ \E c \in Criteria : SubmitLook(r, c)
    \/ SubmitRate(r) \/ SubmitScore(r) \/ SubmitSave(r)

Next ==
    \/ Subscriber \/ expireEvaluations \/ Restart
    \/ \E r \in Requests : Create(r) \/ Submit(r)
    \/ \E i \in Ids : FallsDue(i)

Spec == Init /\ [][Next]_vars

(***************************************************************************)
(* Properties                                                              *)
(***************************************************************************)
\* However often restarts have the event delivered again, wherever its handler was, and
\* whoever asks by hand, nobody gets the same evaluation twice, unless two creations of
\* that very evaluation were running at the same time.
OneOfEach ==
    \A i, j \in Rows : evaluations[i].pair = evaluations[j].pair
                         => i = j \/ evaluations[i].pair \in doubled

\* A gated evaluation exists only once the academic process is completed.
GatedAfterCompletion ==
    \A i \in Rows : evaluations[i].pair \in Gated => record = "completed"

\* The parties get all their evaluations, restarts or not: once the event is gone none
\* is missing, unless its subscriber swallowed an error.
AllGenerated ==
    (event = "gone" /\ ~swallowed) => \A pair \in FromEvent : Exists(pair)

\* Unless two submissions of an evaluation overlapped, it has one rating for each
\* criterion, and the score it is completed with is the mean of all of them, those
\* included that an earlier submission left when a restart cut it off; only a request
\* that brings no ratings then gives another score.
ScoreIsMean ==
    \A i \in Rows \ overlapped :
        /\ \A t, u \in RatingsOf(i) : t.criterion = u.criterion => t = u
        /\ evaluations[i].status = "completed"
             => \/ evaluations[i].score = Mean(i)
                \/ i \in cut /\ evaluations[i].score = NoScore

\* A completed evaluation stays so, and one that expired is completed only by a request
\* that had read it when it was still pending.
SettledByEarlier ==
    \A i \in Rows :
        /\ evaluations[i].status = "completed" => evaluations'[i].status = "completed"
        /\ (evaluations[i].status = "expired" /\ evaluations'[i].status # "expired")
             => \E r \in Requests : /\ Submitting(r, i) /\ call[r].row.status = "pending"
                                    /\ call'[r].op = "none"
Settled == [][SettledByEarlier]_vars

(***************************************************************************)
(* What every step keeps                                                   *)
(***************************************************************************)
\* What a request knows: a creation that is let through needs no process or has it
\* completed, and what will be saved is of the same parties.
Creates(r) ==
    /\ call[r] \in [op : {"create"}, step : {"assert", "save"}, pair : Pairs]
    /\ (call[r].step = "save" /\ call[r].pair \in Gated) => record = "completed"
Submits(r) ==
    /\ call[r] \in [op : {"submit"}, step : {"look", "rate", "save"}, id : Rows, row : Evaluation,
                    todo : SUBSET Criteria, rated : BOOLEAN, score : Scores,
                    criterion : Criteria \cup {None}, old : Rating \cup {None}]
    /\ call[r].row.pair = evaluations[call[r].id].pair /\ call[r].row.status = "pending"
    /\ call[r].step = "rate" => call[r].criterion \in Criteria
    /\ call[r].old # None => call[r].old.evaluation = call[r].id
CallsFit == \A r \in Requests : call[r] = Idle \/ Creates(r) \/ Submits(r)

\* The event comes with the completion, and its subscriber has in hand what is not there.
EventFits ==
    /\ event # "unpublished" => record = "completed"
    /\ event # "handling" => todo = {} /\ found = None
    /\ event = "handling" => \A pair \in FromEvent : Exists(pair) \/ pair \in todo \/ pair = found

\* Whoever makes an evaluation makes it alone, and it is not there yet.
Alone ==
    \A pair \in Pairs \ doubled :
        /\ found = pair => ~Exists(pair) /\ \A r \in Requests : ~Creating(r, pair)
        /\ \A r \in Requests : Creating(r, pair)
             => ~Exists(pair) /\ \A q \in Requests : Creating(q, pair) => q = r

\* Ratings come with a submission of an evaluation that is not completed yet, and stay
\* behind only where one was cut off.
Rates(r, i) ==
    /\ evaluations[i].status # "completed"
    /\ ~call[r].rated => /\ RatingsOf(i) = {} \/ i \in cut
                         /\ call[r].todo = {} /\ call[r].step # "rate"
    /\ call[r].step = "save"
         => call[r].row.score = IF call[r].rated THEN Mean(i) ELSE NoScore
    /\ call[r].step = "rate" =>
         /\ call[r].old # None => call[r].old \in RatingsOf(i)
         /\ \A t \in RatingsOf(i) : t.criterion = call[r].criterion => t = call[r].old

RatingsFit ==
    /\ \A t \in ratings : t.evaluation \in Rows
    /\ \A i \in Rows \ overlapped :
         /\ \A r, q \in Requests : Submitting(r, i) /\ Submitting(q, i) => r = q
         /\ \A r \in Requests : Submitting(r, i) => Rates(r, i)
         /\ (evaluations[i].status # "completed" /\ \A r \in Requests : ~Submitting(r, i))
              => RatingsOf(i) = {} \/ i \in cut

EvaluationInv ==
    /\ TypeOK /\ CallsFit /\ EventFits /\ Alone /\ RatingsFit
    /\ OneOfEach /\ GatedAfterCompletion /\ AllGenerated /\ ScoreIsMean
===============================================================================

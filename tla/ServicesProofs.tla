--------------------------- MODULE ServicesProofs ---------------------------
(***************************************************************************)
(* Theorems of Services: what holds of its components for every value of   *)
(* their constants. The invariants are in the modules of the components,   *)
(* under "What every step keeps"; here the variables of a component are    *)
(* v1, v2, ... in the order of its module. The chat, the notifications and *)
(* the follow-up are in MessagingProofs.                                   *)
(***************************************************************************)
EXTENDS MessagingProofs

(***************************************************************************)
(* Evaluations: v1 record, v2 event, v3 todo, v4 found, v5 evaluations,     *)
(* v6 ratings, v7 due, v8 call, v9 restarts, v10 doubled, v11 swallowed,    *)
(* v12 overlapped, v13 cut                                                  *)
(***************************************************************************)
\* The markers are no values and the bounds are numbers.
LEMMA EvaluationMarks ==
    /\ Gated \subseteq Pairs /\ FromEvent \subseteq Pairs
    /\ MaxIds \in Nat /\ MaxRestarts \in Nat /\ None \notin Pairs /\ None \notin Criteria
    /\ None \notin Evaluation!Rating /\ None \notin Evaluation!Evaluation
BY ServicesAssumption DEF Evaluation!EvaluationAssumption

LEMMA EvaluationInit == Evaluation!Init => Evaluation!EvaluationInv
<1> SUFFICES ASSUME Evaluation!Init PROVE Evaluation!EvaluationInv
  OBVIOUS
<1> USE DEF Evaluation!Init
<1>1. /\ Evaluation!Rows = {} /\ \A r \in Evaluators : v8[r] = Evaluation!Idle
      /\ \A r \in Evaluators : \A pair : ~Evaluation!Creating(r, pair)
  BY DEF Evaluation!Rows, Evaluation!Creating, Evaluation!Idle
<1>2. Evaluation!TypeOK
  <2>1. 0 \in 0..MaxRestarts
    BY EvaluationMarks
  <2> QED BY <2>1 DEF Evaluation!TypeOK
<1>3. Evaluation!CallsFit
  BY <1>1 DEF Evaluation!CallsFit
<1>4. Evaluation!EventFits
  BY DEF Evaluation!EventFits
<1>5. Evaluation!Alone
  BY <1>1, EvaluationMarks DEF Evaluation!Alone
<1>6. Evaluation!RatingsFit
  BY <1>1 DEF Evaluation!RatingsFit
<1>7. Evaluation!OneOfEach /\ Evaluation!GatedAfterCompletion /\ Evaluation!AllGenerated
  BY <1>1 DEF Evaluation!OneOfEach, Evaluation!GatedAfterCompletion, Evaluation!AllGenerated
<1>8. Evaluation!ScoreIsMean
  BY <1>1 DEF Evaluation!ScoreIsMean
<1> QED BY <1>2, <1>3, <1>4, <1>5, <1>6, <1>7, <1>8 DEF Evaluation!EvaluationInv

\* A slot of which what it knows stays true.
LEMMA EvaluatorFits ==
    ASSUME Evaluation!CallsFit, NEW r \in Evaluators, v8'[r] = v8[r] \/ v8'[r] = Evaluation!Idle,
           Evaluation!Rows \subseteq Evaluation!Rows',
           \A i \in Evaluation!Rows : v5'[i].pair = v5[i].pair,
           v1 = "completed" => v1' = "completed"
    PROVE  (v8[r] = Evaluation!Idle \/ Evaluation!Creates(r) \/ Evaluation!Submits(r))'
<1>1. CASE v8'[r] = Evaluation!Idle
  BY <1>1 DEF Evaluation!Idle
<1>2. CASE v8'[r] = v8[r] /\ v8[r] # Evaluation!Idle
  <2>1. CASE Evaluation!Creates(r)
    BY <1>2, <2>1 DEF Evaluation!Creates
  <2>2. CASE Evaluation!Submits(r)
    BY <1>2, <2>2 DEF Evaluation!Submits, Evaluation!Evaluation, Evaluation!EvaluationStatus,
       Evaluation!Rating, Evaluation!Ids
  <2> QED BY <1>2, <2>1, <2>2 DEF Evaluation!CallsFit
<1> QED BY <1>1, <1>2

\* Who submits an evaluation submits one that is there.
LEMMA SubmitterFits ==
    ASSUME Evaluation!CallsFit, NEW r \in Evaluators, v8[r].op = "submit"
    PROVE  Evaluation!Submits(r) /\ v8[r].id \in Evaluation!Rows /\ v8[r] # Evaluation!Idle
BY DEF Evaluation!CallsFit, Evaluation!Submits, Evaluation!Creates, Evaluation!Idle

LEMMA MeanStays ==
    ASSUME UNCHANGED v6, NEW i
    PROVE  Evaluation!RatingsOf(i)' = Evaluation!RatingsOf(i)
           /\ Evaluation!Mean(i)' = Evaluation!Mean(i)
<1>1. Evaluation!RatingsOf(i)' = Evaluation!RatingsOf(i)
  BY DEF Evaluation!RatingsOf
<1> QED BY <1>1 DEF Evaluation!Mean

\* What holds of the evaluations and their ratings holds as long as they stay.
LEMMA EvaluationsStay ==
    ASSUME Evaluation!EvaluationInv, UNCHANGED <<v5, v6>>,
           v10 \subseteq v10', v12 \subseteq v12', v13 \subseteq v13',
           v1 = "completed" => v1' = "completed"
    PROVE  /\ Evaluation!Rows' = Evaluation!Rows
           /\ \A pair : Evaluation!Exists(pair)' <=> Evaluation!Exists(pair)
           /\ Evaluation!OneOfEach' /\ Evaluation!GatedAfterCompletion' /\ Evaluation!ScoreIsMean'
<1> USE DEF Evaluation!EvaluationInv
<1>1. Evaluation!Rows' = Evaluation!Rows
  BY DEF Evaluation!Rows, Evaluation!Ids
<1>2. \A pair : Evaluation!Exists(pair)' <=> Evaluation!Exists(pair)
  BY <1>1 DEF Evaluation!Exists
<1>3. Evaluation!OneOfEach' /\ Evaluation!GatedAfterCompletion'
  BY <1>1 DEF Evaluation!OneOfEach, Evaluation!GatedAfterCompletion
<1>4. Evaluation!ScoreIsMean'
  BY <1>1, MeanStays DEF Evaluation!ScoreIsMean
<1> QED BY <1>1, <1>2, <1>3, <1>4

\* Creations stay alone as long as no other begins and nothing is inserted.
LEMMA CreationsStay ==
    ASSUME Evaluation!Alone, v10 \subseteq v10', v4' = v4 \/ v4' = None,
           \A pair : Evaluation!Exists(pair)' => Evaluation!Exists(pair),
           \A q \in Evaluators, pair \in Pairs :
             Evaluation!Creating(q, pair)' => Evaluation!Creating(q, pair)
    PROVE  Evaluation!Alone'
BY EvaluationMarks DEF Evaluation!Alone

\* Ratings fit as long as they stay and what is submitted is what was.
LEMMA RatingsStay ==
    ASSUME Evaluation!EvaluationInv, UNCHANGED v6, v12 \subseteq v12', v13 \subseteq v13',
           Evaluation!Rows \subseteq Evaluation!Rows',
           \A i \in Evaluation!Rows : v5'[i].status = "completed" <=> v5[i].status = "completed",
           \A q \in Evaluators :
             /\ v8'[q].op = "submit" => v8'[q] = v8[q]
             /\ v8[q].op = "submit" => v8'[q] = v8[q] \/ v8[q].id \in v13'
    PROVE  Evaluation!RatingsFit'
<1> USE DEF Evaluation!EvaluationInv
<1>1. \A t \in v6' : t.evaluation \in Evaluation!Rows'
  BY DEF Evaluation!RatingsFit
<1>2. ASSUME NEW i \in Evaluation!Rows' \ v12'
      PROVE  /\ \A r, q \in Evaluators :
                  Evaluation!Submitting(r, i)' /\ Evaluation!Submitting(q, i)' => r = q
             /\ \A r \in Evaluators : Evaluation!Submitting(r, i)' => Evaluation!Rates(r, i)'
             /\ (v5'[i].status # "completed" /\ \A r \in Evaluators : ~Evaluation!Submitting(r, i)')
                  => Evaluation!RatingsOf(i)' = {} \/ i \in v13'
  <2>1. \A r \in Evaluators : Evaluation!Submitting(r, i)'
          => /\ v8'[r] = v8[r] /\ Evaluation!Submitting(r, i) /\ i \in Evaluation!Rows
    BY SubmitterFits DEF Evaluation!Submitting
  <2>2. \A r, q \in Evaluators :
          Evaluation!Submitting(r, i)' /\ Evaluation!Submitting(q, i)' => r = q
    BY <1>2, <2>1 DEF Evaluation!RatingsFit
  <2>3. ASSUME NEW r \in Evaluators, Evaluation!Submitting(r, i)'
        PROVE  Evaluation!Rates(r, i)'
    <3>1. Evaluation!Rates(r, i) /\ v8'[r] = v8[r] /\ i \in Evaluation!Rows
      BY <1>2, <2>1, <2>3 DEF Evaluation!RatingsFit
    <3> QED BY <3>1, MeanStays DEF Evaluation!Rates
  <2>4. ASSUME v5'[i].status # "completed", \A r \in Evaluators : ~Evaluation!Submitting(r, i)'
        PROVE  Evaluation!RatingsOf(i)' = {} \/ i \in v13'
    <3>1. CASE i \notin Evaluation!Rows
      BY <3>1, MeanStays DEF Evaluation!RatingsFit, Evaluation!RatingsOf
    <3>2. CASE i \in Evaluation!Rows /\ \E r \in Evaluators : Evaluation!Submitting(r, i)
      BY <2>4, <3>2 DEF Evaluation!Submitting
    <3>3. CASE i \in Evaluation!Rows /\ \A r \in Evaluators : ~Evaluation!Submitting(r, i)
      BY <1>2, <2>4, <3>3, MeanStays DEF Evaluation!RatingsFit
    <3> QED BY <3>1, <3>2, <3>3
  <2> QED BY <2>2, <2>3, <2>4
<1> QED BY <1>1, <1>2 DEF Evaluation!RatingsFit

\* An evaluation that is inserted is a new one of its pair.
LEMMA EvaluationInserted ==
    ASSUME Evaluation!EvaluationInv, NEW pair \in Pairs, NEW dated \in BOOLEAN,
           Evaluation!Insert(pair, dated), UNCHANGED <<v1, v6, v10, v12, v13>>,
           pair \in Gated => v1 = "completed", pair \notin v10 => ~Evaluation!Exists(pair)
    PROVE  /\ Evaluation!Rows \subseteq Evaluation!Rows' /\ DOMAIN v5' = Evaluation!Ids
           /\ \A i \in Evaluation!Ids : v5'[i] # None => v5'[i] \in Evaluation!Evaluation
           /\ \A i \in Evaluation!Rows : v5'[i] = v5[i]
           /\ \A other : Evaluation!Exists(other)' <=> (Evaluation!Exists(other) \/ other = pair)
           /\ Evaluation!OneOfEach' /\ Evaluation!GatedAfterCompletion' /\ Evaluation!ScoreIsMean'
<1> DEFINE row == [pair |-> pair, status |-> "pending", dated |-> dated,
                   score |-> Evaluation!NoScore]
<1> USE DEF Evaluation!EvaluationInv
<1>1. PICK i \in Evaluation!Free : v5' = [v5 EXCEPT ![i] = row]
  BY DEF Evaluation!Insert
<1>2. i \in Evaluation!Ids /\ i \notin Evaluation!Rows
  BY DEF Evaluation!Free
<1>3. row \in Evaluation!Evaluation /\ row.pair = pair /\ row.status = "pending"
  BY DEF Evaluation!Evaluation, Evaluation!EvaluationStatus, Evaluation!NoScore
<1> HIDE DEF row
<1>4. /\ DOMAIN v5' = Evaluation!Ids /\ v5'[i] = row
      /\ \A j \in Evaluation!Ids \ {i} : v5'[j] = v5[j]
  BY <1>1, <1>2 DEF Evaluation!TypeOK
<1>5. Evaluation!Rows' = Evaluation!Rows \cup {i}
  <2>1. row # None
    BY <1>3, EvaluationMarks
  <2> QED BY <1>2, <1>4, <2>1 DEF Evaluation!Rows, Evaluation!Ids
<1>6. \A j \in Evaluation!Rows : v5'[j] = v5[j] /\ j # i
  BY <1>2, <1>4 DEF Evaluation!Rows
<1>7. \A other : Evaluation!Exists(other)' <=> (Evaluation!Exists(other) \/ other = pair)
  BY <1>3, <1>4, <1>5, <1>6 DEF Evaluation!Exists
<1>8. \A j \in Evaluation!Ids : v5'[j] # None => v5'[j] \in Evaluation!Evaluation
  BY <1>3, <1>4 DEF Evaluation!TypeOK
<1>9. Evaluation!OneOfEach'
  BY <1>3, <1>4, <1>5, <1>6 DEF Evaluation!OneOfEach, Evaluation!Exists
<1>10. Evaluation!GatedAfterCompletion'
  BY <1>3, <1>4, <1>5, <1>6 DEF Evaluation!GatedAfterCompletion
<1>11. Evaluation!ScoreIsMean'
  <2> SUFFICES ASSUME NEW j \in Evaluation!Rows' \ v12
               PROVE  /\ \A t, u \in Evaluation!RatingsOf(j)' : t.criterion = u.criterion => t = u
                      /\ v5'[j].status = "completed"
                           => \/ v5'[j].score = Evaluation!Mean(j)'
                              \/ j \in v13 /\ v5'[j].score = Evaluation!NoScore
    BY DEF Evaluation!ScoreIsMean
  <2>1. CASE j = i
    <3>1. Evaluation!RatingsOf(i)' = {}
      BY <1>2 DEF Evaluation!RatingsOf, Evaluation!RatingsFit
    <3> QED BY <1>3, <1>4, <2>1, <3>1
  <2>2. CASE j \in Evaluation!Rows
    BY <1>6, <2>2, MeanStays DEF Evaluation!ScoreIsMean
  <2> QED BY <1>5, <2>1, <2>2
<1> QED BY <1>4, <1>5, <1>6, <1>7, <1>8, <1>9, <1>10, <1>11

LEMMA EvaluationSubscriber ==
    ASSUME Evaluation!EvaluationInv,
           \/ Evaluation!Complete \/ Evaluation!Deliver \/ Evaluation!Ends
           \/ \E pair \in Pairs : Evaluation!LookUp(pair)
    PROVE  Evaluation!EvaluationInv'
<1> USE DEF Evaluation!EvaluationInv
<1>1. /\ UNCHANGED <<v5, v6, v7, v8, v9, v12, v13>> /\ v1' \in {"in_progress", "completed"}
      /\ v1 = "completed" => v1' = "completed"
      /\ v2' \in {"unpublished", "queued", "handling", "gone"}
      /\ v3' \subseteq Pairs /\ v4' \in Pairs \cup {None}
      /\ v10' \subseteq Pairs /\ v11' \in BOOLEAN /\ v10 \subseteq v10'
  BY EvaluationMarks
  DEF Evaluation!Complete, Evaluation!Deliver, Evaluation!Ends, Evaluation!LookUp,
      Evaluation!TypeOK, Evaluation!Histories
<1>2. Evaluation!TypeOK'
  BY <1>1 DEF Evaluation!TypeOK, Evaluation!Ids, Evaluation!Evaluation, Evaluation!Rating,
     Evaluation!EvaluationStatus
<1>3. /\ Evaluation!Rows' = Evaluation!Rows
      /\ \A pair : Evaluation!Exists(pair)' <=> Evaluation!Exists(pair)
      /\ Evaluation!OneOfEach' /\ Evaluation!GatedAfterCompletion' /\ Evaluation!ScoreIsMean'
  BY <1>1, EvaluationsStay
<1>4. Evaluation!CallsFit'
  BY <1>1, <1>3, EvaluatorFits DEF Evaluation!CallsFit
<1>5. Evaluation!RatingsFit'
  BY <1>1, <1>3, RatingsStay
<1>6. \A q \in Evaluators, pair \in Pairs :
        Evaluation!Creating(q, pair)' <=> Evaluation!Creating(q, pair)
  BY <1>1 DEF Evaluation!Creating
<1>7. Evaluation!EventFits' /\ Evaluation!AllGenerated' /\ Evaluation!Alone'
  <2>1. CASE Evaluation!Complete
    <3>1. v1 = "in_progress" /\ v2' = "queued" /\ v1' = "completed" /\ UNCHANGED <<v3, v4>>
      BY <2>1 DEF Evaluation!Complete
    <3>2. v2 # "handling"
      BY <3>1 DEF Evaluation!EventFits
    <3>3. Evaluation!Alone'
      BY <1>1, <1>3, <1>6, <3>1, CreationsStay
    <3> QED BY <1>3, <3>1, <3>2, <3>3 DEF Evaluation!EventFits, Evaluation!AllGenerated
  <2>2. CASE Evaluation!Deliver
    <3>1. v2 = "queued" /\ v2' = "handling" /\ v3' = FromEvent /\ v4' = None /\ UNCHANGED v1
      BY <2>2 DEF Evaluation!Deliver
    <3>2. Evaluation!Alone'
      BY <1>1, <1>3, <1>6, <3>1, CreationsStay
    <3> QED BY <1>3, <3>1, <3>2 DEF Evaluation!EventFits, Evaluation!AllGenerated
  <2>3. CASE Evaluation!Ends
    <3>1. /\ v2 = "handling" /\ v2' = "gone" /\ v3' = {} /\ v4' = None
          /\ v11' = (v3 # {} \/ v4 # None) /\ UNCHANGED v1
      BY <2>3 DEF Evaluation!Ends
    <3>2. ~v11' => \A pair \in FromEvent : Evaluation!Exists(pair)
      BY <3>1, EvaluationMarks DEF Evaluation!EventFits
    <3>3. Evaluation!Alone'
      BY <1>1, <1>3, <1>6, <3>1, CreationsStay
    <3> QED BY <1>3, <3>1, <3>2, <3>3 DEF Evaluation!EventFits, Evaluation!AllGenerated
  <2>4. ASSUME NEW pair \in Pairs, Evaluation!LookUp(pair)
        PROVE  Evaluation!EventFits' /\ Evaluation!AllGenerated' /\ Evaluation!Alone'
    <3>1. /\ v2 = "handling" /\ v4 = None /\ v3' = v3 \ {pair}
          /\ v4' = (IF Evaluation!Exists(pair) THEN None ELSE pair)
          /\ UNCHANGED <<v1, v2, v11>>
          /\ ~Evaluation!Exists(pair) /\ (\E r \in Evaluators : Evaluation!Creating(r, pair))
               => pair \in v10'
      BY <2>4 DEF Evaluation!LookUp
    <3>2. \A other \in FromEvent :
            Evaluation!Exists(other) \/ other \in v3' \/ other = v4'
      BY <3>1, EvaluationMarks DEF Evaluation!EventFits
    <3>3. Evaluation!EventFits'
      BY <1>3, <3>1, <3>2 DEF Evaluation!EventFits
    <3>4. Evaluation!AllGenerated'
      BY <3>1 DEF Evaluation!AllGenerated
    <3>5. Evaluation!Alone'
      <4>1. CASE Evaluation!Exists(pair)
        BY <1>1, <1>3, <1>6, <3>1, <4>1, CreationsStay
      <4>2. CASE ~Evaluation!Exists(pair)
        BY <1>1, <1>3, <1>6, <3>1, <4>2 DEF Evaluation!Alone
      <4> QED BY <4>1, <4>2
    <3> QED BY <3>3, <3>4, <3>5
  <2> QED BY <2>1, <2>2, <2>3, <2>4
<1> QED BY <1>2, <1>3, <1>4, <1>5, <1>7

LEMMA EvaluationGenerate ==
    ASSUME Evaluation!EvaluationInv, Evaluation!Generate
    PROVE  Evaluation!EvaluationInv'
<1> USE DEF Evaluation!EvaluationInv
<1>1. /\ v2 = "handling" /\ v4 # None /\ Evaluation!Insert(v4, FALSE) /\ v4' = None
      /\ UNCHANGED <<v1, v2, v3, v6, v7, v8, v9, v10, v11, v12, v13>>
  BY DEF Evaluation!Generate, Evaluation!Histories
<1>2. v4 \in Pairs /\ v1 = "completed" /\ (v4 \notin v10 => ~Evaluation!Exists(v4))
  BY <1>1 DEF Evaluation!TypeOK, Evaluation!EventFits, Evaluation!Alone
<1>3. /\ Evaluation!Rows \subseteq Evaluation!Rows' /\ DOMAIN v5' = Evaluation!Ids
      /\ \A i \in Evaluation!Ids : v5'[i] # None => v5'[i] \in Evaluation!Evaluation
      /\ \A i \in Evaluation!Rows : v5'[i] = v5[i]
      /\ \A other : Evaluation!Exists(other)' <=> (Evaluation!Exists(other) \/ other = v4)
      /\ Evaluation!OneOfEach' /\ Evaluation!GatedAfterCompletion' /\ Evaluation!ScoreIsMean'
  BY <1>1, <1>2, EvaluationInserted
<1>4. Evaluation!TypeOK'
  BY <1>1, <1>3 DEF Evaluation!TypeOK, Evaluation!Ids, Evaluation!Evaluation, Evaluation!Rating,
     Evaluation!EvaluationStatus
<1>5. Evaluation!CallsFit'
  BY <1>1, <1>3, EvaluatorFits DEF Evaluation!CallsFit
<1>6. Evaluation!RatingsFit'
  BY <1>1, <1>3, RatingsStay
<1>7. Evaluation!EventFits' /\ Evaluation!AllGenerated'
  BY <1>1, <1>3 DEF Evaluation!EventFits, Evaluation!AllGenerated
<1>8. Evaluation!Alone'
  <2>1. \A q \in Evaluators, pair \in Pairs :
          Evaluation!Creating(q, pair)' <=> Evaluation!Creating(q, pair)
    BY <1>1 DEF Evaluation!Creating
  <2> QED BY <1>1, <1>2, <1>3, <2>1, EvaluationMarks DEF Evaluation!Alone
<1> QED BY <1>3, <1>4, <1>5, <1>6, <1>7, <1>8

LEMMA EvaluatorGoes ==
    ASSUME Evaluation!TypeOK, NEW r \in Evaluators, NEW c, Evaluation!Goes(r, c)
    PROVE  DOMAIN v8' = Evaluators /\ v8'[r] = c /\ \A q \in Evaluators \ {r} : v8'[q] = v8[q]
BY DEF Evaluation!TypeOK, Evaluation!Goes

\* A slot moves while the rows and their ratings stay: what is left is its own part. If
\* it begins a submission, nobody else submits that evaluation, or the overlap is noted.
LEMMA EvaluatorMoves ==
    ASSUME Evaluation!EvaluationInv, NEW r \in Evaluators, NEW c, Evaluation!Goes(r, c),
           UNCHANGED <<v1, v2, v3, v4, v5, v6, v7, v9, v11, v13>>,
           v10 \subseteq v10', v10' \subseteq Pairs,
           v12 \subseteq v12', v12' \subseteq Evaluation!Ids,
           (v8[r] = Evaluation!Idle \/ Evaluation!Creates(r) \/ Evaluation!Submits(r))',
           Evaluation!Alone', v8[r].op = "submit" => c.op = "submit" /\ c.id = v8[r].id,
           (c.op = "submit" /\ c.id \notin v12') =>
             /\ v8[r].op = "submit" \/ \A q \in Evaluators : ~Evaluation!Submitting(q, c.id)
             /\ v5[c.id].status # "completed"
             /\ ~c.rated => /\ Evaluation!RatingsOf(c.id) = {} \/ c.id \in v13
                            /\ c.todo = {} /\ c.step # "rate"
             /\ c.step = "save" => c.row.score = IF c.rated THEN Evaluation!Mean(c.id)
                                                            ELSE Evaluation!NoScore
             /\ c.step = "rate" =>
                  /\ c.old # None => c.old \in Evaluation!RatingsOf(c.id)
                  /\ \A t \in Evaluation!RatingsOf(c.id) : t.criterion = c.criterion => t = c.old
    PROVE  Evaluation!EvaluationInv'
<1> USE DEF Evaluation!EvaluationInv
<1>1. DOMAIN v8' = Evaluators /\ v8'[r] = c /\ \A q \in Evaluators \ {r} : v8'[q] = v8[q]
  BY EvaluatorGoes
<1>2. Evaluation!TypeOK'
  BY <1>1 DEF Evaluation!TypeOK, Evaluation!Ids, Evaluation!Evaluation, Evaluation!Rating,
     Evaluation!EvaluationStatus
<1>3. /\ Evaluation!Rows' = Evaluation!Rows
      /\ \A pair : Evaluation!Exists(pair)' <=> Evaluation!Exists(pair)
      /\ Evaluation!OneOfEach' /\ Evaluation!GatedAfterCompletion' /\ Evaluation!ScoreIsMean'
  BY EvaluationsStay
<1>4. Evaluation!CallsFit'
  <2>1. ASSUME NEW q \in Evaluators \ {r}
        PROVE  (v8[q] = Evaluation!Idle \/ Evaluation!Creates(q) \/ Evaluation!Submits(q))'
    BY <1>1, <1>3, EvaluatorFits
  <2> QED BY <2>1 DEF Evaluation!CallsFit
<1>5. Evaluation!EventFits' /\ Evaluation!AllGenerated'
  BY <1>3 DEF Evaluation!EventFits, Evaluation!AllGenerated
<1>6. Evaluation!RatingsFit'
  <2>1. \A t \in v6' : t.evaluation \in Evaluation!Rows'
    BY <1>3 DEF Evaluation!RatingsFit
  <2>2. ASSUME NEW i \in Evaluation!Rows' \ v12'
        PROVE  /\ \A s, q \in Evaluators :
                    Evaluation!Submitting(s, i)' /\ Evaluation!Submitting(q, i)' => s = q
               /\ \A q \in Evaluators : Evaluation!Submitting(q, i)' => Evaluation!Rates(q, i)'
               /\ (v5'[i].status # "completed"
                     /\ \A q \in Evaluators : ~Evaluation!Submitting(q, i)')
                    => Evaluation!RatingsOf(i)' = {} \/ i \in v13'
    <3>1. /\ \A q \in Evaluators \ {r} : Evaluation!Submitting(q, i)' <=> Evaluation!Submitting(q, i)
          /\ Evaluation!Submitting(r, i)' <=> (c.op = "submit" /\ c.id = i)
          /\ Evaluation!Submitting(r, i) => Evaluation!Submitting(r, i)'
          /\ Evaluation!Submitting(r, i)' =>
               Evaluation!Submitting(r, i) \/ \A q \in Evaluators : ~Evaluation!Submitting(q, i)
      BY <1>1, <2>2 DEF Evaluation!Submitting
    <3>2. i \in Evaluation!Rows \ v12
      BY <1>3, <2>2
    <3>3. \A s, q \in Evaluators :
            Evaluation!Submitting(s, i)' /\ Evaluation!Submitting(q, i)' => s = q
      BY <3>1, <3>2 DEF Evaluation!RatingsFit
    <3>4. ASSUME NEW q \in Evaluators, q # r, Evaluation!Submitting(q, i)'
          PROVE  Evaluation!Rates(q, i)'
      <4>1. Evaluation!Rates(q, i) /\ v8'[q] = v8[q]
        BY <1>1, <3>1, <3>2, <3>4 DEF Evaluation!RatingsFit
      <4> QED BY <4>1, MeanStays DEF Evaluation!Rates
    <3>5. ASSUME Evaluation!Submitting(r, i)'
          PROVE  Evaluation!Rates(r, i)'
      <4>1. c.op = "submit" /\ c.id = i /\ i \notin v12'
        BY <2>2, <3>1, <3>5
      <4> QED BY <1>1, <4>1, MeanStays DEF Evaluation!Rates
    <3>6. ASSUME v5'[i].status # "completed", \A q \in Evaluators : ~Evaluation!Submitting(q, i)'
          PROVE  Evaluation!RatingsOf(i)' = {} \/ i \in v13'
      <4>1. \A q \in Evaluators : ~Evaluation!Submitting(q, i)
        BY <3>1, <3>6
      <4> QED BY <3>2, <3>6, <4>1, MeanStays DEF Evaluation!RatingsFit
    <3> QED BY <3>3, <3>4, <3>5, <3>6
  <2> QED BY <2>1, <2>2 DEF Evaluation!RatingsFit
<1> QED BY <1>2, <1>3, <1>4, <1>5, <1>6

LEMMA EvaluationCreateStart ==
    ASSUME Evaluation!EvaluationInv, NEW r \in Evaluators, NEW pair \in Pairs,
           Evaluation!CreateStart(r, pair)
    PROVE  Evaluation!EvaluationInv'
<1> USE DEF Evaluation!EvaluationInv
<1> DEFINE c == [op |-> "create", step |-> "assert", pair |-> pair]
<1>1. /\ v8[r] = Evaluation!Idle /\ ~Evaluation!Exists(pair) /\ Evaluation!Goes(r, c)
      /\ UNCHANGED <<v1, v2, v3, v4, v5, v6, v7, v9, v11, v12, v13>>
      /\ v10' = IF v4 = pair \/ \E q \in Evaluators : Evaluation!Creating(q, pair)
                THEN v10 \cup {pair} ELSE v10
  BY DEF Evaluation!CreateStart
<1>2. c \in [op : {"create"}, step : {"assert", "save"}, pair : Pairs] /\ c.op = "create"
      /\ c.step = "assert" /\ c.pair = pair
  OBVIOUS
<1> HIDE DEF c
<1>3. v8'[r] = c /\ \A q \in Evaluators \ {r} : v8'[q] = v8[q]
  BY <1>1, EvaluatorGoes
<1>4. v10 \subseteq v10' /\ v10' \subseteq Pairs /\ v12' \subseteq Evaluation!Ids
  BY <1>1 DEF Evaluation!TypeOK
<1>5. Evaluation!Creates(r)'
  BY <1>2, <1>3 DEF Evaluation!Creates
<1>6. Evaluation!Alone'
  <2>1. \A other : Evaluation!Exists(other)' <=> Evaluation!Exists(other)
    BY <1>1, <1>4, EvaluationsStay
  <2>2. /\ \A q \in Evaluators \ {r}, other \in Pairs :
             Evaluation!Creating(q, other)' <=> Evaluation!Creating(q, other)
        /\ \A other \in Pairs : Evaluation!Creating(r, other)' <=> other = pair
    BY <1>2, <1>3 DEF Evaluation!Creating
  <2>3. ASSUME NEW other \in Pairs \ v10', other = pair
        PROVE  v4 # pair /\ \A q \in Evaluators : ~Evaluation!Creating(q, pair)
    BY <1>1, <2>3
  <2>4. ASSUME NEW other \in Pairs \ v10'
        PROVE  /\ v4' = other => /\ ~Evaluation!Exists(other)'
                                 /\ \A q \in Evaluators : ~Evaluation!Creating(q, other)'
               /\ \A s \in Evaluators : Evaluation!Creating(s, other)' =>
                    /\ ~Evaluation!Exists(other)'
                    /\ \A q \in Evaluators : Evaluation!Creating(q, other)' => q = s
    <3>1. CASE other = pair
      BY <1>1, <2>1, <2>2, <2>3, <3>1
    <3>2. CASE other # pair
      <4>1. other \in Pairs \ v10
        BY <1>4
      <4> QED BY <1>1, <2>1, <2>2, <3>2, <4>1 DEF Evaluation!Alone
    <3> QED BY <3>1, <3>2
  <2> QED BY <2>4 DEF Evaluation!Alone
<1> QED BY <1>1, <1>2, <1>4, <1>5, <1>6, EvaluatorMoves DEF Evaluation!Idle

LEMMA EvaluationCreateAssert ==
    ASSUME Evaluation!EvaluationInv, NEW r \in Evaluators, Evaluation!CreateAssert(r)
    PROVE  Evaluation!EvaluationInv'
<1> USE DEF Evaluation!EvaluationInv
<1>1. /\ v8[r].op = "create" /\ v8[r].step = "assert"
      /\ UNCHANGED <<v1, v2, v3, v4, v5, v6, v7, v9, v10, v11, v12, v13>>
  BY DEF Evaluation!CreateAssert, Evaluation!At, Evaluation!Histories
<1>2. Evaluation!Creates(r)
  BY <1>1 DEF Evaluation!CallsFit, Evaluation!Submits, Evaluation!Idle
<1>3. PICK c : /\ Evaluation!Goes(r, c)
               /\ \/ c = Evaluation!Idle
                  \/ /\ c = [v8[r] EXCEPT !.step = "save"]
                     /\ v8[r].pair \in Gated => v1 = "completed"
  BY DEF Evaluation!CreateAssert, Evaluation!assertAcademicProcessCompleted
<1>4. v8'[r] = c /\ \A q \in Evaluators \ {r} : v8'[q] = v8[q]
  BY <1>3, EvaluatorGoes
<1>5. /\ c.op # "submit" /\ (c.op = "create" => c.pair = v8[r].pair)
      /\ (v8[r] = Evaluation!Idle \/ Evaluation!Creates(r) \/ Evaluation!Submits(r))'
  <2>1. CASE c = Evaluation!Idle
    BY <1>4, <2>1 DEF Evaluation!Idle
  <2>2. CASE c = [v8[r] EXCEPT !.step = "save"] /\ (v8[r].pair \in Gated => v1 = "completed")
    <3>1. /\ c \in [op : {"create"}, step : {"assert", "save"}, pair : Pairs]
          /\ c.op = "create" /\ c.pair = v8[r].pair
      BY <1>2, <2>2 DEF Evaluation!Creates
    <3> QED BY <1>1, <1>4, <2>2, <3>1 DEF Evaluation!Creates
  <2> QED BY <1>3, <2>1, <2>2
<1>6. Evaluation!Alone'
  <2>1. \A other : Evaluation!Exists(other)' <=> Evaluation!Exists(other)
    BY <1>1, EvaluationsStay
  <2>2. \A q \in Evaluators, other \in Pairs :
          Evaluation!Creating(q, other)' => Evaluation!Creating(q, other)
    BY <1>1, <1>4, <1>5 DEF Evaluation!Creating
  <2> QED BY <1>1, <2>1, <2>2, CreationsStay
<1>7. v10' \subseteq Pairs /\ v12' \subseteq Evaluation!Ids
  BY <1>1 DEF Evaluation!TypeOK
<1> QED BY <1>1, <1>3, <1>5, <1>6, <1>7, EvaluatorMoves

LEMMA EvaluationCreateSave ==
    ASSUME Evaluation!EvaluationInv, NEW r \in Evaluators, Evaluation!CreateSave(r)
    PROVE  Evaluation!EvaluationInv'
<1> USE DEF Evaluation!EvaluationInv
<1>1. /\ v8[r].op = "create" /\ v8[r].step = "save" /\ Evaluation!Goes(r, Evaluation!Idle)
      /\ UNCHANGED <<v1, v2, v3, v4, v6, v7, v9, v10, v11, v12, v13>>
  BY DEF Evaluation!CreateSave, Evaluation!At, Evaluation!Histories
<1>2. Evaluation!Creates(r)
  BY <1>1 DEF Evaluation!CallsFit, Evaluation!Submits, Evaluation!Idle
<1>3. PICK pair \in Pairs, dated \in BOOLEAN :
        pair = v8[r].pair /\ Evaluation!Insert(pair, dated)
  BY <1>2 DEF Evaluation!CreateSave, Evaluation!Creates
<1>4. /\ pair \in Gated => v1 = "completed"
      /\ pair \notin v10 => ~Evaluation!Exists(pair)
      /\ Evaluation!Creating(r, pair)
  BY <1>1, <1>2, <1>3 DEF Evaluation!Creates, Evaluation!Creating, Evaluation!Alone
<1>5. /\ Evaluation!Rows \subseteq Evaluation!Rows' /\ DOMAIN v5' = Evaluation!Ids
      /\ \A i \in Evaluation!Ids : v5'[i] # None => v5'[i] \in Evaluation!Evaluation
      /\ \A i \in Evaluation!Rows : v5'[i] = v5[i]
      /\ \A other : Evaluation!Exists(other)' <=> (Evaluation!Exists(other) \/ other = pair)
      /\ Evaluation!OneOfEach' /\ Evaluation!GatedAfterCompletion' /\ Evaluation!ScoreIsMean'
  BY <1>1, <1>3, <1>4, EvaluationInserted
<1>6. /\ DOMAIN v8' = Evaluators /\ v8'[r] = Evaluation!Idle
      /\ \A q \in Evaluators \ {r} : v8'[q] = v8[q]
  BY <1>1, EvaluatorGoes
<1>7. Evaluation!TypeOK'
  BY <1>1, <1>5, <1>6 DEF Evaluation!TypeOK, Evaluation!Ids, Evaluation!Evaluation,
     Evaluation!Rating, Evaluation!EvaluationStatus
<1>8. Evaluation!CallsFit'
  <2>1. ASSUME NEW q \in Evaluators
        PROVE  (v8[q] = Evaluation!Idle \/ Evaluation!Creates(q) \/ Evaluation!Submits(q))'
    BY <1>1, <1>5, <1>6, EvaluatorFits
  <2> QED BY <2>1 DEF Evaluation!CallsFit
<1>9. Evaluation!RatingsFit'
  <2>1. \A q \in Evaluators : v8[q].op = "submit" \/ v8'[q].op = "submit" => v8'[q] = v8[q]
    BY <1>1, <1>6 DEF Evaluation!Idle
  <2> QED BY <1>1, <1>5, <2>1, RatingsStay
<1>10. Evaluation!EventFits' /\ Evaluation!AllGenerated'
  BY <1>1, <1>5 DEF Evaluation!EventFits, Evaluation!AllGenerated
<1>11. Evaluation!Alone'
  <2>1. /\ \A q \in Evaluators \ {r}, other \in Pairs :
             Evaluation!Creating(q, other)' <=> Evaluation!Creating(q, other)
        /\ \A other \in Pairs : ~Evaluation!Creating(r, other)'
    BY <1>6 DEF Evaluation!Creating, Evaluation!Idle
  <2> QED BY <1>1, <1>4, <1>5, <2>1 DEF Evaluation!Alone
<1> QED BY <1>5, <1>7, <1>8, <1>9, <1>10, <1>11

LEMMA EvaluationSubmitStart ==
    ASSUME Evaluation!EvaluationInv, NEW r \in Evaluators, NEW i \in Evaluation!Ids,
           Evaluation!SubmitStart(r, i)
    PROVE  Evaluation!EvaluationInv'
<1> USE DEF Evaluation!EvaluationInv
<1>1. /\ v8[r] = Evaluation!Idle /\ i \in Evaluation!Rows
      /\ v5[i].status # "completed" /\ v5[i].status # "expired"
      /\ UNCHANGED <<v1, v2, v3, v4, v5, v6, v7, v9, v10, v11, v13>>
      /\ v12' = IF \E q \in Evaluators : Evaluation!Submitting(q, i)
                THEN v12 \cup {i} ELSE v12
  BY DEF Evaluation!SubmitStart
<1>2. PICK cs \in SUBSET Criteria, score \in Scores :
        Evaluation!Goes(r, [op |-> "submit", step |-> "look", id |-> i, row |-> v5[i],
                            todo |-> cs, rated |-> cs # {}, score |-> score, criterion |-> None,
                            old |-> None])
  BY DEF Evaluation!SubmitStart
<1> DEFINE c == [op |-> "submit", step |-> "look", id |-> i, row |-> v5[i],
                 todo |-> cs, rated |-> cs # {}, score |-> score, criterion |-> None,
                 old |-> None]
<1>3. v5[i] \in Evaluation!Evaluation /\ v5[i].status = "pending"
  BY <1>1 DEF Evaluation!TypeOK, Evaluation!Rows, Evaluation!Evaluation, Evaluation!EvaluationStatus
<1>4. /\ c \in [op : {"submit"}, step : {"look", "rate", "save"}, id : Evaluation!Rows,
                row : Evaluation!Evaluation, todo : SUBSET Criteria, rated : BOOLEAN,
                score : Scores, criterion : Criteria \cup {None},
                old : Evaluation!Rating \cup {None}]
      /\ c.op = "submit" /\ c.step = "look" /\ c.id = i /\ c.row = v5[i] /\ c.todo = cs
      /\ c.rated = (cs # {}) /\ c.old = None
  BY <1>1, <1>3
<1>5. Evaluation!Goes(r, c)
  BY <1>2
<1> HIDE DEF c
<1>6. v8'[r] = c /\ \A q \in Evaluators \ {r} : v8'[q] = v8[q]
  BY <1>5, EvaluatorGoes
<1>7. /\ v12 \subseteq v12' /\ v12' \subseteq Evaluation!Ids /\ v10' \subseteq Pairs
      /\ i \notin v12' => \A q \in Evaluators : ~Evaluation!Submitting(q, i)
  BY <1>1 DEF Evaluation!TypeOK
<1>8. /\ Evaluation!Rows' = Evaluation!Rows
      /\ \A other : Evaluation!Exists(other)' <=> Evaluation!Exists(other)
  BY <1>1, <1>7, EvaluationsStay
<1>9. Evaluation!Alone'
  <2>1. \A q \in Evaluators, other \in Pairs :
          Evaluation!Creating(q, other)' => Evaluation!Creating(q, other)
    BY <1>4, <1>6 DEF Evaluation!Creating
  <2> QED BY <1>1, <1>8, <2>1, CreationsStay
<1>10. Evaluation!Submits(r)'
  BY <1>1, <1>3, <1>4, <1>6, <1>8 DEF Evaluation!Submits, Evaluation!Evaluation,
     Evaluation!EvaluationStatus, Evaluation!Rating, Evaluation!Ids
<1>11. i \notin v12' => Evaluation!RatingsOf(i) = {} \/ i \in v13
  BY <1>1, <1>7 DEF Evaluation!RatingsFit
<1> QED BY <1>1, <1>4, <1>5, <1>7, <1>9, <1>10, <1>11, EvaluatorMoves DEF Evaluation!Idle

\* The ratings of an evaluation are ratings.
LEMMA RatingsOfAre ==
    ASSUME Evaluation!TypeOK, NEW i
    PROVE  Evaluation!RatingsOf(i) \subseteq v6 /\ Evaluation!RatingsOf(i) \subseteq Evaluation!Rating
           /\ Evaluation!Mean(i) = Evaluation!RatingsOf(i)
BY DEF Evaluation!TypeOK, Evaluation!RatingsOf, Evaluation!Mean

LEMMA EvaluationSubmitLook ==
    ASSUME Evaluation!EvaluationInv, NEW r \in Evaluators, NEW k \in Criteria,
           Evaluation!SubmitLook(r, k)
    PROVE  Evaluation!EvaluationInv'
<1> USE DEF Evaluation!EvaluationInv
<1>1. /\ v8[r].op = "submit" /\ v8[r].step = "look" /\ k \in v8[r].todo
      /\ UNCHANGED <<v1, v2, v3, v4, v5, v6, v7, v9, v10, v11, v12, v13>>
  BY DEF Evaluation!SubmitLook, Evaluation!At, Evaluation!Histories
<1>2. Evaluation!Submits(r)
  BY <1>1, SubmitterFits
<1> DEFINE there == {t \in Evaluation!RatingsOf(v8[r].id) : t.criterion = k}
<1>3. PICK old \in (IF there = {} THEN {None} ELSE there) :
        Evaluation!Goes(r, [v8[r] EXCEPT !.step = "rate", !.todo = @ \ {k}, !.criterion = k,
                                         !.old = old])
  BY DEF Evaluation!SubmitLook
<1> DEFINE c == [v8[r] EXCEPT !.step = "rate", !.todo = @ \ {k}, !.criterion = k, !.old = old]
<1>4. /\ there = {} => old = None
      /\ there # {} => old \in there
  BY <1>3
<1>5. /\ old \in Evaluation!Rating \cup {None}
      /\ old # None => old \in Evaluation!RatingsOf(v8[r].id) /\ old.evaluation = v8[r].id
  BY <1>4, RatingsOfAre DEF Evaluation!RatingsOf
<1>6. /\ c \in [op : {"submit"}, step : {"look", "rate", "save"}, id : Evaluation!Rows,
                row : Evaluation!Evaluation, todo : SUBSET Criteria, rated : BOOLEAN,
                score : Scores, criterion : Criteria \cup {None},
                old : Evaluation!Rating \cup {None}]
      /\ c.op = "submit" /\ c.step = "rate" /\ c.id = v8[r].id /\ c.row = v8[r].row
      /\ c.rated = v8[r].rated /\ c.criterion = k /\ c.old = old
  BY <1>2, <1>5 DEF Evaluation!Submits
<1>7. Evaluation!Goes(r, c)
  BY <1>3
<1> HIDE DEF c
<1>8. v8'[r] = c /\ \A q \in Evaluators \ {r} : v8'[q] = v8[q]
  BY <1>7, EvaluatorGoes
<1>9. /\ Evaluation!Rows' = Evaluation!Rows /\ v10' \subseteq Pairs /\ v12' \subseteq Evaluation!Ids
      /\ \A pair : Evaluation!Exists(pair)' <=> Evaluation!Exists(pair)
  BY <1>1, EvaluationsStay DEF Evaluation!TypeOK
<1>10. Evaluation!Alone'
  <2>1. \A q \in Evaluators, other \in Pairs :
          Evaluation!Creating(q, other)' => Evaluation!Creating(q, other)
    BY <1>6, <1>8 DEF Evaluation!Creating
  <2> QED BY <1>1, <1>9, <2>1, CreationsStay
<1>11. Evaluation!Submits(r)'
  BY <1>1, <1>2, <1>5, <1>6, <1>8, <1>9 DEF Evaluation!Submits, Evaluation!Evaluation,
     Evaluation!EvaluationStatus, Evaluation!Rating, Evaluation!Ids
<1>12. c.id \notin v12' =>
         /\ v5[c.id].status # "completed"
         /\ c.rated
         /\ \A t \in Evaluation!RatingsOf(c.id) : t.criterion = c.criterion => t = c.old
  <2> SUFFICES ASSUME v8[r].id \notin v12
               PROVE  /\ v5[v8[r].id].status # "completed" /\ v8[r].rated
                      /\ \A t \in Evaluation!RatingsOf(v8[r].id) : t.criterion = k => t = old
    BY <1>1, <1>6
  <2>1. Evaluation!Rates(r, v8[r].id) /\ v8[r].id \in Evaluation!Rows \ v12
    BY <1>1, SubmitterFits DEF Evaluation!RatingsFit, Evaluation!Submitting
  <2>2. v5[v8[r].id].status # "completed" /\ (~v8[r].rated => v8[r].todo = {})
    BY <2>1 DEF Evaluation!Rates
  <2>3. ASSUME NEW t \in Evaluation!RatingsOf(v8[r].id), t.criterion = k
        PROVE  t = old
    <3>1. t \in there
      BY <2>3
    <3>2. old \in Evaluation!RatingsOf(v8[r].id) /\ old.criterion = k
      BY <1>4, <3>1
    <3> QED BY <2>1, <2>3, <3>2 DEF Evaluation!ScoreIsMean
  <2>4. v8[r].rated
    BY <1>1, <1>2, <2>2 DEF Evaluation!Submits
  <2> QED BY <2>2, <2>3, <2>4
<1> QED BY <1>1, <1>5, <1>6, <1>7, <1>9, <1>10, <1>11, <1>12, EvaluatorMoves

LEMMA EvaluationSubmitScore ==
    ASSUME Evaluation!EvaluationInv, NEW r \in Evaluators, Evaluation!SubmitScore(r)
    PROVE  Evaluation!EvaluationInv'
<1> USE DEF Evaluation!EvaluationInv
<1>1. /\ v8[r].op = "submit" /\ v8[r].step = "look" /\ v8[r].todo = {}
      /\ UNCHANGED <<v1, v2, v3, v4, v5, v6, v7, v9, v10, v11, v12, v13>>
  BY DEF Evaluation!SubmitScore, Evaluation!At, Evaluation!Histories
<1>2. Evaluation!Submits(r)
  BY <1>1, SubmitterFits
<1> DEFINE score == IF v8[r].rated THEN Evaluation!Mean(v8[r].id) ELSE Evaluation!NoScore
<1> DEFINE c == [v8[r] EXCEPT !.step = "save", !.row.score = score]
<1>3. score \subseteq Evaluation!Rating
  BY RatingsOfAre DEF Evaluation!NoScore
<1>4. Evaluation!Goes(r, c)
  BY DEF Evaluation!SubmitScore
<1>5. /\ c \in [op : {"submit"}, step : {"look", "rate", "save"}, id : Evaluation!Rows,
                row : Evaluation!Evaluation, todo : SUBSET Criteria, rated : BOOLEAN,
                score : Scores, criterion : Criteria \cup {None},
                old : Evaluation!Rating \cup {None}]
      /\ c.op = "submit" /\ c.step = "save" /\ c.id = v8[r].id /\ c.row.pair = v8[r].row.pair
      /\ c.row.status = v8[r].row.status /\ c.old = v8[r].old
      /\ c.row.score = score /\ c.rated = v8[r].rated /\ c.todo = v8[r].todo
  <2> HIDE DEF score
  <2>1. v8[r].row \in Evaluation!Evaluation
    BY <1>2 DEF Evaluation!Submits
  <2> DEFINE row == [v8[r].row EXCEPT !.score = score]
  <2>2. row \in Evaluation!Evaluation /\ row.pair = v8[r].row.pair /\ row.score = score
        /\ row.status = v8[r].row.status
    BY <1>3, <2>1 DEF Evaluation!Evaluation
  <2>3. c = [v8[r] EXCEPT !.step = "save", !.row = row]
    BY <1>2 DEF Evaluation!Submits
  <2> HIDE DEF c, row
  <2> QED BY <1>2, <2>2, <2>3 DEF Evaluation!Submits
<1> HIDE DEF c
<1>6. v8'[r] = c /\ \A q \in Evaluators \ {r} : v8'[q] = v8[q]
  BY <1>4, EvaluatorGoes
<1>7. /\ Evaluation!Rows' = Evaluation!Rows /\ v10' \subseteq Pairs /\ v12' \subseteq Evaluation!Ids
      /\ \A pair : Evaluation!Exists(pair)' <=> Evaluation!Exists(pair)
  BY <1>1, EvaluationsStay DEF Evaluation!TypeOK
<1>8. Evaluation!Alone'
  <2>1. \A q \in Evaluators, other \in Pairs :
          Evaluation!Creating(q, other)' => Evaluation!Creating(q, other)
    BY <1>5, <1>6 DEF Evaluation!Creating
  <2> QED BY <1>1, <1>7, <2>1, CreationsStay
<1>9. Evaluation!Submits(r)'
  BY <1>1, <1>2, <1>5, <1>6, <1>7 DEF Evaluation!Submits, Evaluation!Evaluation,
     Evaluation!EvaluationStatus, Evaluation!Rating, Evaluation!Ids
<1>10. c.id \notin v12' => /\ v5[c.id].status # "completed"
                           /\ ~c.rated => Evaluation!RatingsOf(c.id) = {} \/ c.id \in v13
  BY <1>1, <1>5, SubmitterFits DEF Evaluation!RatingsFit, Evaluation!Rates, Evaluation!Submitting
<1> QED BY <1>1, <1>4, <1>5, <1>7, <1>8, <1>9, <1>10, EvaluatorMoves

LEMMA EvaluationSubmitRate ==
    ASSUME Evaluation!EvaluationInv, NEW r \in Evaluators, Evaluation!SubmitRate(r)
    PROVE  Evaluation!EvaluationInv'
<1> USE DEF Evaluation!EvaluationInv
<1>1. /\ v8[r].op = "submit" /\ v8[r].step = "rate"
      /\ UNCHANGED <<v1, v2, v3, v4, v5, v7, v9, v10, v11, v12, v13>>
  BY DEF Evaluation!SubmitRate, Evaluation!At, Evaluation!Histories
<1>2. Evaluation!Submits(r)
  BY <1>1, SubmitterFits
<1> DEFINE id == v8[r].id
           old == v8[r].old
           new == [evaluation |-> id, criterion |-> v8[r].criterion, score |-> v8[r].score,
                   of |-> IF old = None THEN r ELSE old.of]
           c == [v8[r] EXCEPT !.step = "look", !.criterion = None, !.old = None]
<1>3. v6' = (v6 \ {old}) \cup {new} /\ Evaluation!Goes(r, c)
  BY DEF Evaluation!SubmitRate
<1>4. /\ id \in Evaluation!Rows /\ id \in Evaluation!Ids
      /\ new \in Evaluation!Rating /\ new.evaluation = id /\ new.criterion = v8[r].criterion
      /\ old # None => old.evaluation = id
  <2>1. /\ id \in Evaluation!Rows /\ id \in Evaluation!Ids
        /\ v8[r].criterion \in Criteria /\ v8[r].score \in Scores
        /\ old # None => old \in Evaluation!Rating /\ old.evaluation = id
    BY <1>1, <1>2 DEF Evaluation!Submits, Evaluation!Rows
  <2>2. (IF old = None THEN r ELSE old.of) \in Evaluators
    BY <2>1 DEF Evaluation!Rating
  <2> QED BY <2>1, <2>2 DEF Evaluation!Rating
<1>5. /\ c \in [op : {"submit"}, step : {"look", "rate", "save"}, id : Evaluation!Rows,
                row : Evaluation!Evaluation, todo : SUBSET Criteria, rated : BOOLEAN,
                score : Scores, criterion : Criteria \cup {None},
                old : Evaluation!Rating \cup {None}]
      /\ c.op = "submit" /\ c.step = "look" /\ c.id = id /\ c.row = v8[r].row
      /\ c.rated = v8[r].rated /\ c.old = None
  BY <1>2 DEF Evaluation!Submits
<1> HIDE DEF new, c
<1>6. DOMAIN v8' = Evaluators /\ v8'[r] = c /\ \A q \in Evaluators \ {r} : v8'[q] = v8[q]
  BY <1>3, EvaluatorGoes
<1>7. /\ Evaluation!Rows' = Evaluation!Rows
      /\ \A pair : Evaluation!Exists(pair)' <=> Evaluation!Exists(pair)
  <2>1. Evaluation!Rows' = Evaluation!Rows
    BY <1>1 DEF Evaluation!Rows, Evaluation!Ids
  <2> QED BY <1>1, <2>1 DEF Evaluation!Exists
<1>8. Evaluation!TypeOK'
  <2>1. v6' \subseteq Evaluation!Rating
    BY <1>3, <1>4 DEF Evaluation!TypeOK
  <2> QED BY <1>1, <1>6, <2>1 DEF Evaluation!TypeOK, Evaluation!Ids, Evaluation!Evaluation,
             Evaluation!Rating, Evaluation!EvaluationStatus
<1>9. Evaluation!CallsFit'
  <2>1. ASSUME NEW q \in Evaluators \ {r}
        PROVE  (v8[q] = Evaluation!Idle \/ Evaluation!Creates(q) \/ Evaluation!Submits(q))'
    BY <1>1, <1>6, <1>7, EvaluatorFits
  <2>2. Evaluation!Submits(r)'
    BY <1>1, <1>2, <1>5, <1>6, <1>7 DEF Evaluation!Submits, Evaluation!Evaluation,
       Evaluation!EvaluationStatus, Evaluation!Rating, Evaluation!Ids
  <2> QED BY <2>1, <2>2 DEF Evaluation!CallsFit
<1>10. /\ Evaluation!EventFits' /\ Evaluation!AllGenerated' /\ Evaluation!OneOfEach'
       /\ Evaluation!GatedAfterCompletion'
  BY <1>1, <1>7 DEF Evaluation!EventFits, Evaluation!AllGenerated, Evaluation!OneOfEach,
     Evaluation!GatedAfterCompletion
<1>11. Evaluation!Alone'
  <2>1. \A q \in Evaluators, other \in Pairs :
          Evaluation!Creating(q, other)' => Evaluation!Creating(q, other)
    BY <1>5, <1>6 DEF Evaluation!Creating
  <2> QED BY <1>1, <1>7, <2>1, CreationsStay
\* Unless submissions overlapped, the rating that it found is the only one of its criterion.
<1>12. id \notin v12 =>
         /\ v5[id].status # "completed" /\ v8[r].rated
         /\ old # None => old \in Evaluation!RatingsOf(id)
         /\ \A t \in Evaluation!RatingsOf(id) : t.criterion = new.criterion => t = old
         /\ \A q \in Evaluators : Evaluation!Submitting(q, id) => q = r
  <2> SUFFICES ASSUME id \notin v12
               PROVE  /\ v5[id].status # "completed" /\ v8[r].rated
                      /\ old # None => old \in Evaluation!RatingsOf(id)
                      /\ \A t \in Evaluation!RatingsOf(id) : t.criterion = v8[r].criterion => t = old
                      /\ \A q \in Evaluators : Evaluation!Submitting(q, id) => q = r
    BY <1>4
  <2>1. Evaluation!Rates(r, id) /\ \A q \in Evaluators : Evaluation!Submitting(q, id) => q = r
    BY <1>1, <1>4 DEF Evaluation!RatingsFit, Evaluation!Submitting
  <2> QED BY <1>1, <2>1 DEF Evaluation!Rates
<1>13. ASSUME NEW j, j # id
       PROVE  Evaluation!RatingsOf(j)' = Evaluation!RatingsOf(j)
  <2>1. old \notin Evaluation!RatingsOf(j)
    BY <1>4, <1>13, EvaluationMarks DEF Evaluation!RatingsOf, Evaluation!TypeOK
  <2> QED BY <1>3, <1>4, <1>13, <2>1 DEF Evaluation!RatingsOf
<1>14. Evaluation!RatingsFit'
  <2>1. \A t \in v6' : t.evaluation \in Evaluation!Rows'
    BY <1>3, <1>4, <1>7 DEF Evaluation!RatingsFit
  <2>2. /\ \A q \in Evaluators \ {r}, i \in Evaluation!Rows :
             Evaluation!Submitting(q, i)' <=> Evaluation!Submitting(q, i)
        /\ \A i \in Evaluation!Rows : Evaluation!Submitting(r, i)' <=> i = id
        /\ \A i \in Evaluation!Rows : Evaluation!Submitting(r, i) <=> i = id
    BY <1>1, <1>5, <1>6 DEF Evaluation!Submitting
  <2>3. ASSUME NEW i \in Evaluation!Rows' \ v12'
        PROVE  /\ \A s, q \in Evaluators :
                    Evaluation!Submitting(s, i)' /\ Evaluation!Submitting(q, i)' => s = q
               /\ \A q \in Evaluators : Evaluation!Submitting(q, i)' => Evaluation!Rates(q, i)'
               /\ (v5'[i].status # "completed"
                     /\ \A q \in Evaluators : ~Evaluation!Submitting(q, i)')
                    => Evaluation!RatingsOf(i)' = {} \/ i \in v13'
    <3>1. i \in Evaluation!Rows \ v12
      BY <1>1, <1>7, <2>3
    <3>2. CASE i = id
      <4>1. \A q \in Evaluators : Evaluation!Submitting(q, i)' => q = r
        BY <1>12, <2>2, <3>1, <3>2
      <4>2. Evaluation!Rates(r, i)'
        BY <1>1, <1>5, <1>6, <1>12, <3>1, <3>2 DEF Evaluation!Rates
      <4> QED BY <2>2, <3>1, <3>2, <4>1, <4>2
    <3>3. CASE i # id
      <4>1. \A s, q \in Evaluators :
              Evaluation!Submitting(s, i)' /\ Evaluation!Submitting(q, i)' => s = q
        BY <2>2, <3>1, <3>3 DEF Evaluation!RatingsFit
      <4>2. ASSUME NEW q \in Evaluators, Evaluation!Submitting(q, i)'
            PROVE  Evaluation!Rates(q, i)'
        <5>1. Evaluation!Rates(q, i) /\ v8'[q] = v8[q]
          BY <1>6, <2>2, <3>1, <3>3, <4>2 DEF Evaluation!RatingsFit
        <5>2. Evaluation!RatingsOf(i)' = Evaluation!RatingsOf(i)
              /\ Evaluation!Mean(i)' = Evaluation!Mean(i)
          BY <1>13, <3>3 DEF Evaluation!Mean
        <5> QED BY <1>1, <5>1, <5>2 DEF Evaluation!Rates
      <4>3. ASSUME v5'[i].status # "completed", \A q \in Evaluators : ~Evaluation!Submitting(q, i)'
            PROVE  Evaluation!RatingsOf(i)' = {} \/ i \in v13'
        <5>1. \A q \in Evaluators : ~Evaluation!Submitting(q, i)
          BY <2>2, <3>1, <3>3, <4>3
        <5> QED BY <1>1, <1>13, <3>1, <3>3, <4>3, <5>1 DEF Evaluation!RatingsFit
      <4> QED BY <4>1, <4>2, <4>3
    <3> QED BY <3>2, <3>3
  <2> QED BY <2>1, <2>3 DEF Evaluation!RatingsFit
<1>15. Evaluation!ScoreIsMean'
  <2> SUFFICES ASSUME NEW j \in Evaluation!Rows \ v12
               PROVE  /\ \A t, u \in Evaluation!RatingsOf(j)' : t.criterion = u.criterion => t = u
                      /\ v5[j].status = "completed"
                           => \/ v5[j].score = Evaluation!Mean(j)'
                              \/ j \in v13 /\ v5[j].score = Evaluation!NoScore
    BY <1>1, <1>7 DEF Evaluation!ScoreIsMean
  <2>1. CASE j # id
    BY <1>13, <2>1 DEF Evaluation!ScoreIsMean, Evaluation!Mean
  <2>2. CASE j = id
    <3>1. Evaluation!RatingsOf(j)' = (Evaluation!RatingsOf(j) \ {old}) \cup {new}
      BY <1>3, <1>4, <2>2 DEF Evaluation!RatingsOf
    <3>2. ASSUME NEW t \in Evaluation!RatingsOf(j)', NEW u \in Evaluation!RatingsOf(j)',
                 t.criterion = u.criterion
          PROVE  t = u
      <4>1. \A o \in Evaluation!RatingsOf(j) \ {old} : o.criterion # new.criterion
        BY <1>12, <2>2
      <4>2. CASE t = new \/ u = new
        BY <3>1, <3>2, <4>1, <4>2
      <4>3. CASE t \in Evaluation!RatingsOf(j) /\ u \in Evaluation!RatingsOf(j)
        BY <3>2, <4>3 DEF Evaluation!ScoreIsMean
      <4> QED BY <3>1, <4>2, <4>3
    <3> QED BY <1>12, <2>2, <3>2
  <2> QED BY <2>1, <2>2
<1> QED BY <1>8, <1>9, <1>10, <1>11, <1>14, <1>15

\* Evaluations that are written again stay of their parties.
LEMMA EvaluationsKept ==
    ASSUME Evaluation!EvaluationInv, UNCHANGED <<v1, v2, v3, v4, v10, v11>>,
           DOMAIN v5' = Evaluation!Ids,
           \A i \in Evaluation!Ids \ Evaluation!Rows : v5'[i] = None,
           \A i \in Evaluation!Rows : v5'[i] \in Evaluation!Evaluation /\ v5'[i].pair = v5[i].pair
    PROVE  /\ Evaluation!Rows' = Evaluation!Rows
           /\ \A i \in Evaluation!Ids : v5'[i] # None => v5'[i] \in Evaluation!Evaluation
           /\ \A pair : Evaluation!Exists(pair)' <=> Evaluation!Exists(pair)
           /\ Evaluation!OneOfEach' /\ Evaluation!GatedAfterCompletion'
           /\ Evaluation!EventFits' /\ Evaluation!AllGenerated'
<1> USE DEF Evaluation!EvaluationInv
<1>1. Evaluation!Rows' = Evaluation!Rows
  <2>1. \A i \in Evaluation!Ids : v5'[i] # None <=> v5[i] # None
    BY EvaluationMarks DEF Evaluation!Rows
  <2> QED BY <2>1 DEF Evaluation!Rows, Evaluation!Ids
<1>2. \A i \in Evaluation!Ids : v5'[i] # None => v5'[i] \in Evaluation!Evaluation
  OBVIOUS
<1>3. Evaluation!OneOfEach' /\ Evaluation!GatedAfterCompletion'
  BY <1>1 DEF Evaluation!OneOfEach, Evaluation!GatedAfterCompletion
<1>4. \A pair : Evaluation!Exists(pair)' <=> Evaluation!Exists(pair)
  BY <1>1 DEF Evaluation!Exists
<1>5. Evaluation!EventFits' /\ Evaluation!AllGenerated'
  BY <1>4 DEF Evaluation!EventFits, Evaluation!AllGenerated
<1> QED BY <1>1, <1>2, <1>3, <1>4, <1>5

LEMMA EvaluationSubmitSave ==
    ASSUME Evaluation!EvaluationInv, NEW r \in Evaluators, Evaluation!SubmitSave(r)
    PROVE  Evaluation!EvaluationInv'
<1> USE DEF Evaluation!EvaluationInv
<1>1. /\ v8[r].op = "submit" /\ v8[r].step = "save" /\ Evaluation!Goes(r, Evaluation!Idle)
      /\ UNCHANGED <<v1, v2, v3, v4, v6, v7, v9, v10, v11, v12, v13>>
  BY DEF Evaluation!SubmitSave, Evaluation!At, Evaluation!Histories
<1>2. Evaluation!Submits(r)
  BY <1>1, SubmitterFits
<1> DEFINE id == v8[r].id
           row == [v8[r].row EXCEPT !.status = "completed"]
<1>3. v5' = [v5 EXCEPT ![id] = row]
  BY DEF Evaluation!SubmitSave
<1>4. /\ id \in Evaluation!Rows /\ id \in Evaluation!Ids
      /\ row \in Evaluation!Evaluation /\ row.status = "completed"
      /\ row.pair = v5[id].pair /\ row.score = v8[r].row.score
  BY <1>2 DEF Evaluation!Submits, Evaluation!Rows, Evaluation!Evaluation, Evaluation!EvaluationStatus
<1> HIDE DEF row
<1>5. /\ DOMAIN v5' = Evaluation!Ids /\ v5'[id] = row
      /\ \A j \in Evaluation!Ids \ {id} : v5'[j] = v5[j]
  BY <1>3, <1>4 DEF Evaluation!TypeOK
<1>6. /\ \A i \in Evaluation!Ids \ Evaluation!Rows : v5'[i] = None
      /\ \A i \in Evaluation!Rows : v5'[i] \in Evaluation!Evaluation /\ v5'[i].pair = v5[i].pair
  BY <1>4, <1>5 DEF Evaluation!Rows, Evaluation!TypeOK
<1>7. /\ Evaluation!Rows' = Evaluation!Rows
      /\ \A i \in Evaluation!Ids : v5'[i] # None => v5'[i] \in Evaluation!Evaluation
      /\ \A pair : Evaluation!Exists(pair)' <=> Evaluation!Exists(pair)
      /\ Evaluation!OneOfEach' /\ Evaluation!GatedAfterCompletion'
      /\ Evaluation!EventFits' /\ Evaluation!AllGenerated'
  BY <1>1, <1>5, <1>6, EvaluationsKept
<1>8. /\ DOMAIN v8' = Evaluators /\ v8'[r] = Evaluation!Idle
      /\ \A q \in Evaluators \ {r} : v8'[q] = v8[q]
  BY <1>1, EvaluatorGoes
<1>9. Evaluation!TypeOK'
  BY <1>1, <1>5, <1>7, <1>8 DEF Evaluation!TypeOK, Evaluation!Ids, Evaluation!Evaluation,
     Evaluation!Rating, Evaluation!EvaluationStatus
<1>10. Evaluation!CallsFit'
  <2>1. ASSUME NEW q \in Evaluators
        PROVE  (v8[q] = Evaluation!Idle \/ Evaluation!Creates(q) \/ Evaluation!Submits(q))'
    BY <1>1, <1>6, <1>7, <1>8, EvaluatorFits
  <2> QED BY <2>1 DEF Evaluation!CallsFit
<1>11. Evaluation!Alone'
  <2>1. \A q \in Evaluators, other \in Pairs :
          Evaluation!Creating(q, other)' => Evaluation!Creating(q, other)
    BY <1>8 DEF Evaluation!Creating, Evaluation!Idle
  <2> QED BY <1>1, <1>7, <2>1, CreationsStay
<1>12. Evaluation!RatingsFit'
  <2>1. \A t \in v6' : t.evaluation \in Evaluation!Rows'
    BY <1>1, <1>7 DEF Evaluation!RatingsFit
  <2>2. /\ \A q \in Evaluators \ {r}, i \in Evaluation!Rows :
             Evaluation!Submitting(q, i)' <=> Evaluation!Submitting(q, i)
        /\ \A i \in Evaluation!Rows : ~Evaluation!Submitting(r, i)'
        /\ \A i \in Evaluation!Rows : Evaluation!Submitting(r, i) <=> i = id
    BY <1>1, <1>8 DEF Evaluation!Submitting, Evaluation!Idle
  <2>3. ASSUME NEW i \in Evaluation!Rows' \ v12'
        PROVE  /\ \A s, q \in Evaluators :
                    Evaluation!Submitting(s, i)' /\ Evaluation!Submitting(q, i)' => s = q
               /\ \A q \in Evaluators : Evaluation!Submitting(q, i)' => Evaluation!Rates(q, i)'
               /\ (v5'[i].status # "completed"
                     /\ \A q \in Evaluators : ~Evaluation!Submitting(q, i)')
                    => Evaluation!RatingsOf(i)' = {} \/ i \in v13'
    <3>1. i \in Evaluation!Rows \ v12
      BY <1>1, <1>7, <2>3
    <3>2. CASE i = id
      <4>1. \A q \in Evaluators : ~Evaluation!Submitting(q, i)'
        BY <2>2, <3>1, <3>2 DEF Evaluation!RatingsFit
      <4> QED BY <1>4, <1>5, <3>2, <4>1
    <3>3. CASE i # id
      <4>1. v5'[i] = v5[i]
        BY <1>5, <3>1, <3>3 DEF Evaluation!Rows
      <4>2. \A s, q \in Evaluators :
              Evaluation!Submitting(s, i)' /\ Evaluation!Submitting(q, i)' => s = q
        BY <2>2, <3>1, <3>3 DEF Evaluation!RatingsFit
      <4>3. ASSUME NEW q \in Evaluators, Evaluation!Submitting(q, i)'
            PROVE  Evaluation!Rates(q, i)'
        <5>1. Evaluation!Rates(q, i) /\ v8'[q] = v8[q]
          BY <1>8, <2>2, <3>1, <3>3, <4>3 DEF Evaluation!RatingsFit
        <5> QED BY <1>1, <4>1, <5>1, MeanStays DEF Evaluation!Rates
      <4>4. ASSUME v5'[i].status # "completed", \A q \in Evaluators : ~Evaluation!Submitting(q, i)'
            PROVE  Evaluation!RatingsOf(i)' = {} \/ i \in v13'
        <5>1. \A q \in Evaluators : ~Evaluation!Submitting(q, i)
          BY <2>2, <3>1, <3>3, <4>4
        <5> QED BY <1>1, <3>1, <4>1, <4>4, <5>1, MeanStays DEF Evaluation!RatingsFit
      <4> QED BY <4>2, <4>3, <4>4
    <3> QED BY <3>2, <3>3
  <2> QED BY <2>1, <2>3 DEF Evaluation!RatingsFit
<1>13. Evaluation!ScoreIsMean'
  <2> SUFFICES ASSUME NEW j \in Evaluation!Rows \ v12
               PROVE  /\ \A t, u \in Evaluation!RatingsOf(j)' : t.criterion = u.criterion => t = u
                      /\ v5'[j].status = "completed"
                           => \/ v5'[j].score = Evaluation!Mean(j)'
                              \/ j \in v13 /\ v5'[j].score = Evaluation!NoScore
    BY <1>1, <1>7 DEF Evaluation!ScoreIsMean
  <2>1. CASE j # id
    <3>1. v5'[j] = v5[j]
      BY <1>5, <2>1 DEF Evaluation!Rows
    <3> QED BY <1>1, <3>1, MeanStays DEF Evaluation!ScoreIsMean
  <2>2. CASE j = id
    <3>1. Evaluation!Rates(r, id)
      BY <1>1, <1>4, <2>2 DEF Evaluation!RatingsFit, Evaluation!Submitting
    <3>2. row.score = Evaluation!Mean(id) \/ (id \in v13 /\ row.score = Evaluation!NoScore)
      BY <1>1, <1>4, <3>1 DEF Evaluation!Rates, Evaluation!Mean, Evaluation!NoScore
    <3> QED BY <1>1, <1>5, <2>2, <3>2, MeanStays DEF Evaluation!ScoreIsMean
  <2> QED BY <2>1, <2>2
<1> QED BY <1>7, <1>9, <1>10, <1>11, <1>12, <1>13

LEMMA EvaluationClock ==
    ASSUME Evaluation!EvaluationInv,
           Evaluation!expireEvaluations \/ \E i \in Evaluation!Ids : Evaluation!FallsDue(i)
    PROVE  Evaluation!EvaluationInv'
<1> USE DEF Evaluation!EvaluationInv
<1>1. UNCHANGED <<v1, v2, v3, v4, v6, v8, v9, v10, v11, v12, v13>> /\ v7' \subseteq Evaluation!Ids
  BY DEF Evaluation!expireEvaluations, Evaluation!FallsDue, Evaluation!TypeOK, Evaluation!Histories
<1>2. /\ DOMAIN v5' = Evaluation!Ids
      /\ \A i \in Evaluation!Ids \ Evaluation!Rows : v5'[i] = None
      /\ \A i \in Evaluation!Rows : /\ v5'[i] \in Evaluation!Evaluation
                                    /\ v5'[i].pair = v5[i].pair /\ v5'[i].score = v5[i].score
                                    /\ v5'[i].status = "completed" <=> v5[i].status = "completed"
  <2>1. CASE \E i \in Evaluation!Ids : Evaluation!FallsDue(i)
    BY <2>1 DEF Evaluation!FallsDue, Evaluation!TypeOK, Evaluation!Rows
  <2>2. CASE Evaluation!expireEvaluations
    <3>1. v5' = [i \in Evaluation!Ids |-> IF i \in Evaluation!Overdue
                   THEN [v5[i] EXCEPT !.status = "expired"] ELSE v5[i]]
      BY <2>2 DEF Evaluation!expireEvaluations
    <3>2. ASSUME NEW i \in Evaluation!Rows
          PROVE  /\ v5'[i] \in Evaluation!Evaluation
                 /\ v5'[i].pair = v5[i].pair /\ v5'[i].score = v5[i].score
                 /\ v5'[i].status = "completed" <=> v5[i].status = "completed"
      <4>1. v5[i] \in Evaluation!Evaluation /\ i \in Evaluation!Ids
        BY DEF Evaluation!TypeOK, Evaluation!Rows
      <4>2. CASE i \in Evaluation!Overdue
        <5>1. v5[i].status = "pending" /\ v5'[i] = [v5[i] EXCEPT !.status = "expired"]
          BY <3>1, <4>1, <4>2 DEF Evaluation!Overdue
        <5> QED BY <4>1, <5>1 DEF Evaluation!Evaluation, Evaluation!EvaluationStatus
      <4>3. CASE i \notin Evaluation!Overdue
        BY <3>1, <4>1, <4>3
      <4> QED BY <4>2, <4>3
    <3> QED BY <3>1, <3>2 DEF Evaluation!Rows, Evaluation!Overdue
  <2> QED BY <2>1, <2>2
<1>3. /\ Evaluation!Rows' = Evaluation!Rows
      /\ \A i \in Evaluation!Ids : v5'[i] # None => v5'[i] \in Evaluation!Evaluation
      /\ \A pair : Evaluation!Exists(pair)' <=> Evaluation!Exists(pair)
      /\ Evaluation!OneOfEach' /\ Evaluation!GatedAfterCompletion'
      /\ Evaluation!EventFits' /\ Evaluation!AllGenerated'
  BY <1>1, <1>2, EvaluationsKept
<1>4. Evaluation!TypeOK'
  BY <1>1, <1>2, <1>3 DEF Evaluation!TypeOK, Evaluation!Ids, Evaluation!Evaluation,
     Evaluation!Rating, Evaluation!EvaluationStatus
<1>5. Evaluation!CallsFit'
  BY <1>1, <1>2, <1>3, EvaluatorFits DEF Evaluation!CallsFit
<1>6. Evaluation!RatingsFit'
  BY <1>1, <1>2, <1>3, RatingsStay
<1>7. Evaluation!Alone'
  <2>1. \A q \in Evaluators, other \in Pairs :
          Evaluation!Creating(q, other)' => Evaluation!Creating(q, other)
    BY <1>1 DEF Evaluation!Creating
  <2> QED BY <1>1, <1>3, <2>1, CreationsStay
<1>8. Evaluation!ScoreIsMean'
  BY <1>1, <1>2, <1>3, MeanStays DEF Evaluation!ScoreIsMean
<1> QED BY <1>3, <1>4, <1>5, <1>6, <1>7, <1>8

LEMMA EvaluationRestart ==
    ASSUME Evaluation!EvaluationInv, Evaluation!Restart
    PROVE  Evaluation!EvaluationInv'
<1> USE DEF Evaluation!EvaluationInv
<1>1. /\ v9 < MaxRestarts /\ v9' = v9 + 1
      /\ v13' = v13 \cup {i \in Evaluation!Ids : \E r \in Evaluators : Evaluation!Submitting(r, i)}
      /\ v8' = [r \in Evaluators |-> Evaluation!Idle]
      /\ v2' = (IF v2 = "handling" THEN "queued" ELSE v2)
      /\ v3' = {} /\ v4' = None /\ UNCHANGED <<v1, v5, v6, v7, v10, v11, v12>>
  BY DEF Evaluation!Restart
<1>2. /\ DOMAIN v8' = Evaluators /\ \A r \in Evaluators : v8'[r] = Evaluation!Idle
      /\ v13 \subseteq v13' /\ v13' \subseteq Evaluation!Ids
  BY <1>1 DEF Evaluation!TypeOK
<1>3. Evaluation!TypeOK'
  <2>1. v9' \in 0..MaxRestarts
    BY <1>1, EvaluationMarks DEF Evaluation!TypeOK
  <2> QED BY <1>1, <1>2, <2>1 DEF Evaluation!TypeOK, Evaluation!Ids, Evaluation!Evaluation,
             Evaluation!Rating, Evaluation!EvaluationStatus
<1>4. /\ Evaluation!Rows' = Evaluation!Rows
      /\ \A pair : Evaluation!Exists(pair)' <=> Evaluation!Exists(pair)
      /\ Evaluation!OneOfEach' /\ Evaluation!GatedAfterCompletion' /\ Evaluation!ScoreIsMean'
  BY <1>1, <1>2, EvaluationsStay
<1>5. Evaluation!CallsFit'
  BY <1>2 DEF Evaluation!CallsFit, Evaluation!Idle
<1>6. Evaluation!RatingsFit'
  <2>1. \A q \in Evaluators :
          /\ v8'[q].op # "submit"
          /\ v8[q].op = "submit" => v8[q].id \in v13'
    BY <1>1, <1>2, SubmitterFits DEF Evaluation!Submitting, Evaluation!Idle, Evaluation!Rows
  <2> QED BY <1>1, <1>2, <1>4, <2>1, RatingsStay
<1>7. Evaluation!EventFits' /\ Evaluation!AllGenerated'
  BY <1>1, <1>4 DEF Evaluation!EventFits, Evaluation!AllGenerated
<1>8. Evaluation!Alone'
  <2>1. \A q \in Evaluators, other \in Pairs : ~Evaluation!Creating(q, other)'
    BY <1>2 DEF Evaluation!Creating, Evaluation!Idle
  <2> QED BY <1>1, <1>4, <2>1, CreationsStay
<1> QED BY <1>3, <1>4, <1>5, <1>6, <1>7, <1>8

LEMMA EvaluationStep ==
    Evaluation!EvaluationInv /\ Evaluation!Next => Evaluation!EvaluationInv'
BY EvaluationSubscriber, EvaluationGenerate, EvaluationCreateStart, EvaluationCreateAssert,
   EvaluationCreateSave, EvaluationSubmitStart, EvaluationSubmitLook, EvaluationSubmitRate,
   EvaluationSubmitScore, EvaluationSubmitSave, EvaluationClock, EvaluationRestart
DEF Evaluation!Next, Evaluation!Subscriber, Evaluation!Create, Evaluation!Submit

LEMMA EvaluationStutter ==
    ASSUME Evaluation!EvaluationInv,
           UNCHANGED <<v1, v2, v3, v4, v5, v6, v7, v8, v9, v10, v11, v12, v13>>
    PROVE  Evaluation!EvaluationInv'
<1> USE DEF Evaluation!EvaluationInv
<1>1. Evaluation!TypeOK'
  BY DEF Evaluation!TypeOK, Evaluation!Ids, Evaluation!Evaluation, Evaluation!Rating,
     Evaluation!EvaluationStatus
<1>2. /\ Evaluation!Rows' = Evaluation!Rows
      /\ \A pair : Evaluation!Exists(pair)' <=> Evaluation!Exists(pair)
      /\ Evaluation!OneOfEach' /\ Evaluation!GatedAfterCompletion' /\ Evaluation!ScoreIsMean'
  BY EvaluationsStay
<1>3. Evaluation!CallsFit'
  BY <1>2, EvaluatorFits DEF Evaluation!CallsFit
<1>4. Evaluation!RatingsFit'
  BY <1>2, RatingsStay
<1>5. Evaluation!EventFits' /\ Evaluation!AllGenerated'
  BY <1>2 DEF Evaluation!EventFits, Evaluation!AllGenerated
<1>6. Evaluation!Alone'
  <2>1. \A q \in Evaluators, other \in Pairs :
          Evaluation!Creating(q, other)' => Evaluation!Creating(q, other)
    BY DEF Evaluation!Creating
  <2> QED BY <1>2, <2>1, CreationsStay
<1> QED BY <1>1, <1>2, <1>3, <1>4, <1>5, <1>6

\* Only a submission that read the row while it was pending writes over its expiry.
LEMMA EvaluationSettled ==
    ASSUME Evaluation!EvaluationInv, Evaluation!Next
    PROVE  Evaluation!SettledByEarlier
<1> USE DEF Evaluation!EvaluationInv
<1> SUFFICES ASSUME NEW i \in Evaluation!Rows
             PROVE  /\ v5[i].status = "completed" => v5'[i].status = "completed"
                    /\ (v5[i].status = "expired" /\ v5'[i].status # "expired")
                         => \E r \in Evaluators :
                              /\ Evaluation!Submitting(r, i) /\ v8[r].row.status = "pending"
                              /\ v8'[r].op = "none"
  BY DEF Evaluation!SettledByEarlier
<1>1. CASE UNCHANGED v5
  BY <1>1
<1>2. ASSUME NEW pair, NEW dated, Evaluation!Insert(pair, dated)
      PROVE  v5'[i] = v5[i]
  <2>1. PICK j \in Evaluation!Free : v5' = [v5 EXCEPT ![j] =
          [pair |-> pair, status |-> "pending", dated |-> dated, score |-> Evaluation!NoScore]]
    BY <1>2 DEF Evaluation!Insert
  <2> QED BY <2>1 DEF Evaluation!Free
<1>3. CASE Evaluation!expireEvaluations
  <2>1. v5' = [j \in Evaluation!Ids |-> IF j \in Evaluation!Overdue
                 THEN [v5[j] EXCEPT !.status = "expired"] ELSE v5[j]]
    BY <1>3 DEF Evaluation!expireEvaluations
  <2>2. v5[i] \in Evaluation!Evaluation /\ i \in Evaluation!Ids
    BY DEF Evaluation!TypeOK, Evaluation!Rows
  <2>3. CASE i \in Evaluation!Overdue
    BY <2>3 DEF Evaluation!Overdue
  <2>4. CASE i \notin Evaluation!Overdue
    BY <2>1, <2>2, <2>4
  <2> QED BY <2>3, <2>4
<1>4. ASSUME NEW r \in Evaluators, Evaluation!SubmitSave(r)
      PROVE  /\ v5[i].status = "completed" => v5'[i].status = "completed"
             /\ (v5[i].status = "expired" /\ v5'[i].status # "expired")
                  => /\ Evaluation!Submitting(r, i) /\ v8[r].row.status = "pending"
                     /\ v8'[r].op = "none"
  <2>1. /\ v8[r].op = "submit" /\ Evaluation!Goes(r, Evaluation!Idle)
        /\ v5' = [v5 EXCEPT ![v8[r].id] = [v8[r].row EXCEPT !.status = "completed"]]
    BY <1>4 DEF Evaluation!SubmitSave, Evaluation!At
  <2>2. v8'[r] = Evaluation!Idle
    BY <2>1, EvaluatorGoes
  <2>3. v8[r].row \in Evaluation!Evaluation /\ v8[r].row.status = "pending"
    BY <2>1, SubmitterFits DEF Evaluation!Submits
  <2>4. v5'[i] = v5[i] \/ (v8[r].id = i /\ v5'[i].status = "completed")
    BY <2>1, <2>3 DEF Evaluation!TypeOK, Evaluation!Rows, Evaluation!Evaluation
  <2> QED BY <2>1, <2>2, <2>3, <2>4 DEF Evaluation!Idle, Evaluation!Submitting
<1>5. \/ UNCHANGED v5 \/ Evaluation!expireEvaluations
      \/ \E pair, dated : Evaluation!Insert(pair, dated)
      \/ \E r \in Evaluators : Evaluation!SubmitSave(r)
  BY DEF Evaluation!Next, Evaluation!Subscriber, Evaluation!Create, Evaluation!Submit,
     Evaluation!Complete, Evaluation!Deliver, Evaluation!LookUp, Evaluation!Generate,
     Evaluation!Ends, Evaluation!CreateStart, Evaluation!CreateAssert, Evaluation!CreateSave,
     Evaluation!SubmitStart, Evaluation!SubmitLook, Evaluation!SubmitRate, Evaluation!SubmitScore,
     Evaluation!FallsDue, Evaluation!Restart
<1> QED BY <1>1, <1>2, <1>3, <1>4, <1>5

(***************************************************************************)
(* StoredFiles: v1 quota, v2 file, v3 versions, v4 disk, v5 listed, v6 call, *)
(* v7 created, v8 writes, v9 restarts, v10 disturbed, v11 swept             *)
(***************************************************************************)
\* The component counts with the operators of FiniteSets.
LEMMA StorageCount ==
    /\ \A S : Storage!Cardinality(S) = Cardinality(S)
    /\ \A S : Storage!IsFiniteSet(S) = IsFiniteSet(S)
BY DEF Storage!Cardinality, Cardinality, Storage!IsFiniteSet, IsFiniteSet

\* The markers are no values and the bounds are numbers.
LEMMA StorageMarks ==
    /\ IsFiniteSet(StoredIds) /\ FileSizes \subseteq Nat \ {0}
    /\ RoleMax \in Nat /\ DefaultMax \in Nat /\ MaxFiles \in Nat
    /\ MaxWrites \in Nat /\ MaxRestarts \in Nat
    /\ None \notin StoredIds /\ None \notin Storage!Row /\ None \notin Storage!Quota
    /\ None \notin Storage!Listed
BY ServicesAssumption, StorageCount DEF Storage!StorageAssumption

LEMMA StorageInit == Storage!Init => Storage!StorageInv
<1> SUFFICES ASSUME Storage!Init PROVE Storage!StorageInv
  OBVIOUS
<1> USE DEF Storage!Init
<1>1. /\ DOMAIN v2 = StoredIds /\ \A f \in StoredIds : v2[f] = None
      /\ \A r \in Requests : v6[r] = Storage!Idle
  OBVIOUS
<1>2. Storage!TypeOK
  <2>1. 0 \in 0..MaxWrites /\ 0 \in 0..MaxRestarts
    BY StorageMarks
  <2> QED BY <1>1, <2>1 DEF Storage!TypeOK
<1>3. Storage!Active = {}
  BY <1>1 DEF Storage!Active
<1>4. Storage!UsedWithinMax /\ Storage!CallsFit /\ Storage!ListedFits
  BY <1>1 DEF Storage!UsedWithinMax, Storage!CallsFit, Storage!Fits, Storage!ListedFits
<1>5. \A r \in Requests : \A f : ~Storage!On(r, f)
  BY <1>1 DEF Storage!On
<1>6. Storage!ContentsApart
  BY <1>1, <1>5 DEF Storage!ContentsApart, Storage!Mentions
<1>7. Storage!UploadsApart
  BY <1>5 DEF Storage!UploadsApart
<1>8. Storage!NumbersFit
  BY <1>3, <1>5 DEF Storage!NumbersFit, Storage!Live
<1>9. Storage!NextIsLatest
  BY <1>1 DEF Storage!NextIsLatest, Storage!Saving, Storage!At, Storage!Idle
<1>10. Storage!LatestIsComing /\ Storage!ActiveHasContent
  BY <1>3 DEF Storage!LatestIsComing, Storage!ActiveHasContent
<1>11. Storage!InTurn
  BY <1>1, <1>3 DEF Storage!InTurn, Storage!Counted
<1> QED BY <1>2, <1>4, <1>6, <1>7, <1>8, <1>9, <1>10, <1>11 DEF Storage!StorageInv

\* The properties of the component.
LEMMA StorageHolds ==
    ASSUME Storage!StorageInv
    PROVE  /\ Storage!TypeOK /\ Storage!UsedWithinMax /\ Storage!QuotaCountsFiles
           /\ Storage!ActiveHasContent /\ Storage!CurrentIsLatest
<1> USE DEF Storage!StorageInv
<1>1. Storage!QuotaCountsFiles
  <2> SUFFICES ASSUME Storage!Quiet, ~v10
               PROVE  /\ Storage!Active # {} => v1 # None
                      /\ v1 # None => /\ v1.files = Storage!Cardinality(Storage!Active)
                                      /\ v1.used = Storage!Cardinality(Storage!Bytes)
    BY DEF Storage!QuotaCountsFiles
  <2>1. Storage!Counted
    BY DEF Storage!InTurn
  <2>2. v1 # None => v1.files \in Int /\ v1.used \in Int
    BY DEF Storage!TypeOK, Storage!Quota
  <2> QED BY <2>1, <2>2 DEF Storage!Counted, Storage!Counts
<1>2. Storage!CurrentIsLatest
  BY DEF Storage!CurrentIsLatest, Storage!LatestIsComing, Storage!Quiet, Storage!Saving,
     Storage!At, Storage!Idle
<1> QED BY <1>1, <1>2

LEMMA StorageGoes ==
    ASSUME Storage!TypeOK, NEW r \in Requests, NEW c, Storage!Goes(r, c)
    PROVE  DOMAIN v6' = Requests /\ v6'[r] = c /\ \A q \in Requests \ {r} : v6'[q] = v6[q]
BY DEF Storage!TypeOK, Storage!Goes

\* A slot that stays as it was has in hand what it had.
LEMMA SlotKeeps ==
    ASSUME Storage!StorageInv, NEW r \in Requests, v6'[r] = v6[r], v8' \in Nat, v8 <= v8',
           v11 \subseteq v11',
           Storage!Saving(r) /\ v6[r].file \notin v11' => v6[r].content \in v4'
    PROVE  Storage!Fits(r)'
<1> USE DEF Storage!StorageInv
<1>1. CASE v6[r] = Storage!Idle
  BY <1>1 DEF Storage!Fits, Storage!Idle
<1>2. CASE v6[r] # Storage!Idle
  <2>1. v6[r] \in Storage!Asking /\ v8 \in Nat
    BY <1>2 DEF Storage!CallsFit, Storage!Fits, Storage!TypeOK
  <2>2. Storage!Written(v6[r]) => v6[r].content \in 1..v8'
    BY <2>1 DEF Storage!Written, Storage!Asking
  <2>3. v6'[r] \in Storage!Asking'
    BY <2>1 DEF Storage!Asking, Storage!Quota, Storage!Row
  <2>4. CASE Storage!UploadFits(r)
    <3>1. Storage!UploadFits(r)'
      BY <2>2, <2>4 DEF Storage!UploadFits, Storage!Written, Storage!Room, Storage!Quota
    <3> QED BY <2>3, <3>1 DEF Storage!Fits
  <2>5. CASE Storage!DeleteFits(r)
    <3>1. Storage!DeleteFits(r)'
      BY <2>5 DEF Storage!DeleteFits, Storage!Room, Storage!Quota, Storage!Row
    <3> QED BY <2>3, <3>1 DEF Storage!Fits
  <2>6. CASE Storage!VersionFits(r)
    <3>1. Storage!VersionFits(r)'
      BY <2>2, <2>6 DEF Storage!VersionFits, Storage!Written, Storage!Room, Storage!Quota,
         Storage!Row, Storage!Grows, Storage!Saving, Storage!At
    <3> QED BY <2>3, <3>1 DEF Storage!Fits
  <2> QED BY <1>2, <2>4, <2>5, <2>6 DEF Storage!CallsFit, Storage!Fits
<1> QED BY <1>1, <1>2

\* The others keep what they have when one slot moves.
LEMMA SlotsKeep ==
    ASSUME Storage!StorageInv, NEW r \in Requests, NEW c, Storage!Goes(r, c), v8' \in Nat, v8 <= v8',
           UNCHANGED v11,
           \A q \in Requests \ {r} :
             Storage!Saving(q) /\ v6[q].file \notin v11 => v6[q].content \in v4',
           Storage!Fits(r)'
    PROVE  Storage!CallsFit'
<1>1. \A q \in Requests \ {r} : v6'[q] = v6[q]
  BY StorageGoes DEF Storage!StorageInv
<1>2. ASSUME NEW q \in Requests \ {r} PROVE Storage!Fits(q)'
  BY <1>1, SlotKeeps
<1> QED BY <1>2 DEF Storage!CallsFit

\* Contents stay apart when at most one file gets a new one.
LEMMA ContentsStay ==
    ASSUME Storage!StorageInv, NEW g, v8' \in {v8, v8 + 1},
           \A f \in StoredIds, k \in 1..MaxWrites :
             Storage!Mentions(f, k)' =>
               Storage!Mentions(f, k) \/ (f = g /\ k = v8' /\ v8' = v8 + 1)
    PROVE  Storage!ContentsApart'
<1>1. v8 \in Nat
  BY DEF Storage!StorageInv, Storage!TypeOK
<1>2. \A f, h \in StoredIds, k \in 1..MaxWrites :
        Storage!Mentions(f, k) => k <= v8 /\ (Storage!Mentions(h, k) => f = h)
  BY DEF Storage!StorageInv, Storage!ContentsApart
<1>3. ASSUME NEW f \in StoredIds, NEW h \in StoredIds, NEW k \in 1..MaxWrites,
             Storage!Mentions(f, k)'
      PROVE  k <= v8' /\ (Storage!Mentions(h, k)' => f = h)
  <2>1. CASE Storage!Mentions(f, k)
    BY <1>1, <1>2, <1>3, <2>1
  <2>2. CASE f = g /\ k = v8' /\ v8' = v8 + 1
    BY <1>1, <1>2, <1>3, <2>2
  <2> QED BY <1>3, <2>1, <2>2
<1> QED BY <1>3 DEF Storage!ContentsApart

\* Numbers fit as long as files become known only by numbers that are taken, and what is
\* new is a first version.
LEMMA NumbersStay ==
    ASSUME Storage!StorageInv, v11 \subseteq v11',
           \A f \in StoredIds \ v11' : Storage!Live(f)' =>
             \/ /\ Storage!Live(f)
                /\ Storage!Known(f)' \subseteq Storage!Known(f) \cup Storage!Taken(f) \cup {1}
                /\ Storage!Taken(f) \subseteq Storage!Taken(f)'
                /\ Storage!Taken(f)' \subseteq Storage!Taken(f) \cup {1}
             \/ Storage!Known(f)' \cup Storage!Taken(f)' \subseteq {1}
    PROVE  Storage!NumbersFit'
<1>1. 2..1 = {}
  OBVIOUS
<1>2. ASSUME NEW f \in StoredIds \ v11', Storage!Live(f)',
             NEW m \in Storage!Known(f)' \cup Storage!Taken(f)'
      PROVE  2..m \subseteq Storage!Taken(f)'
  <2>1. CASE m = 1
    BY <1>1, <2>1
  <2>2. CASE m # 1
    <3>1. m \in Storage!Known(f) \cup Storage!Taken(f) /\ Storage!Live(f)
          /\ Storage!Taken(f) \subseteq Storage!Taken(f)'
      BY <1>2, <2>2
    <3> QED BY <3>1 DEF Storage!StorageInv, Storage!NumbersFit
  <2> QED BY <2>1, <2>2
<1> QED BY <1>2 DEF Storage!NumbersFit

\* The numbers of a file.
LEMMA NumbersAre ==
    ASSUME Storage!StorageInv, NEW f
    PROVE  Storage!Taken(f) \subseteq Nat \ {0}
BY DEF Storage!StorageInv, Storage!TypeOK, Storage!Taken, Storage!Version

\* A request that saves goes on being the only one, of the highest number.
LEMMA NextStays ==
    ASSUME Storage!StorageInv, v11 \subseteq v11',
           \A r \in Requests : Storage!Saving(r)' /\ v6'[r].file \notin v11' =>
             /\ Storage!Saving(r) /\ v6'[r] = v6[r]
             /\ \A f \in StoredIds : f = v6[r].file =>
                  /\ Storage!Known(f)' \subseteq Storage!Known(f) \cup {1}
                  /\ Storage!Taken(f) \subseteq Storage!Taken(f)'
                  /\ Storage!Taken(f)' \subseteq Storage!Taken(f) \cup {1}
    PROVE  Storage!NextIsLatest'
<1> SUFFICES ASSUME NEW r \in Requests, Storage!Saving(r)', v6'[r].file \notin v11'
             PROVE  /\ v6'[r].row.version + 1 \in Storage!Taken(v6[r].file)'
                    /\ \A m \in Storage!Known(v6[r].file)' : m <= v6'[r].row.version
                    /\ \A m \in Storage!Taken(v6[r].file)' : m <= v6'[r].row.version + 1
                    /\ \A q \in Requests : Storage!Saving(q)' /\ v6'[q].file = v6'[r].file => q = r
  BY DEF Storage!NextIsLatest
<1>1. Storage!Saving(r) /\ v6'[r] = v6[r]
  OBVIOUS
<1>2. v6[r].file \in StoredIds /\ v6[r].row.version \in Nat \ {0}
  BY <1>1 DEF Storage!StorageInv, Storage!CallsFit, Storage!Fits, Storage!UploadFits,
     Storage!DeleteFits, Storage!VersionFits, Storage!Saving, Storage!At, Storage!Idle, Storage!Row
<1>3. PICK f \in StoredIds : f = v6[r].file
  BY <1>2
<1>4. /\ v6[r].row.version + 1 \in Storage!Taken(f)
      /\ \A m \in Storage!Known(f) : m <= v6[r].row.version
      /\ \A m \in Storage!Taken(f) : m <= v6[r].row.version + 1
      /\ \A q \in Requests : Storage!Saving(q) /\ v6[q].file = v6[r].file => q = r
  <2>1. v6[r].file \notin v11
    BY <1>1
  <2> QED BY <1>1, <1>3, <2>1 DEF Storage!StorageInv, Storage!NextIsLatest
<1>5. /\ v6[r].row.version + 1 \in Storage!Taken(f)'
      /\ \A m \in Storage!Known(f)' : m <= v6[r].row.version
      /\ \A m \in Storage!Taken(f)' : m <= v6[r].row.version + 1
  <2>1. /\ Storage!Known(f)' \subseteq Storage!Known(f) \cup {1}
        /\ Storage!Taken(f) \subseteq Storage!Taken(f)'
        /\ Storage!Taken(f)' \subseteq Storage!Taken(f) \cup {1}
    BY <1>3
  <2>2. 1 <= v6[r].row.version /\ 1 <= v6[r].row.version + 1
    BY <1>2
  <2> QED BY <1>4, <2>1, <2>2
<1>6. \A q \in Requests : Storage!Saving(q)' /\ v6'[q].file = v6'[r].file => q = r
  BY <1>1, <1>4
<1>7. f = v6'[r].file
  BY <1>1, <1>3
<1> QED BY <1>1, <1>5, <1>6, <1>7

\* The bytes of some files, one by one.
BytesOf(file, files) == UNION {{f} \X (1..file[f].size) : f \in files}

LEMMA BlockCount ==
    ASSUME NEW f, NEW n \in Nat
    PROVE  IsFiniteSet({f} \X (1..n)) /\ Cardinality({f} \X (1..n)) = n
<1> DEFINE F == [i \in 1..n |-> <<f, i>>]
<1>1. F \in Bijection(1..n, {f} \X (1..n))
  <2>1. F \in [1..n -> {f} \X (1..n)]
    OBVIOUS
  <2>2. \A i, j \in 1..n : F[i] = F[j] => i = j
    OBVIOUS
  <2>3. \A p \in {f} \X (1..n) : \E i \in 1..n : F[i] = p
    OBVIOUS
  <2> HIDE DEF F
  <2> QED BY <2>1, <2>2, <2>3 DEF Bijection, Injection, Surjection, IsInjective
<1>2. ExistsBijection(1..n, {f} \X (1..n))
  BY <1>1 DEF ExistsBijection
<1>3. IsFiniteSet(1..n) /\ Cardinality(1..n) = n
  BY FS_Interval
<1> QED BY <1>2, <1>3, FS_Bijection

LEMMA BytesFinite ==
    ASSUME NEW files, IsFiniteSet(files), NEW file, \A f \in files : file[f].size \in Nat
    PROVE  IsFiniteSet(BytesOf(file, files)) /\ Cardinality(BytesOf(file, files)) \in Nat
<1> DEFINE S == {{f} \X (1..file[f].size) : f \in files}
           F == [f \in files |-> {f} \X (1..file[f].size)]
<1>1. F \in Surjection(files, S)
  BY DEF Surjection
<1>2. IsFiniteSet(S)
  BY <1>1, FS_Surjection
<1>3. ASSUME NEW T \in S PROVE IsFiniteSet(T)
  <2>1. PICK f \in files : T = {f} \X (1..file[f].size)
    OBVIOUS
  <2> QED BY <2>1, BlockCount
<1> QED BY <1>2, <1>3, FS_UNION, FS_CardinalityType DEF BytesOf

\* What one file adds to the count of the files and of their bytes.
LEMMA FileCounts ==
    ASSUME NEW files, IsFiniteSet(files), NEW file, \A f \in files : file[f].size \in Nat,
           NEW g \in files
    PROVE  /\ Cardinality(files) = Cardinality(files \ {g}) + 1
           /\ Cardinality(BytesOf(file, files))
                = Cardinality(BytesOf(file, files \ {g})) + file[g].size
           /\ Cardinality(files \ {g}) \in Nat
           /\ Cardinality(BytesOf(file, files \ {g})) \in Nat
<1> DEFINE rest == files \ {g}
           block == {g} \X (1..file[g].size)
<1>1. IsFiniteSet(rest) /\ Cardinality(rest) \in Nat
      /\ Cardinality(files) = Cardinality(rest) + 1
  <2>1. IsFiniteSet(rest) /\ Cardinality(rest) = Cardinality(files) - 1
    BY FS_RemoveElement
  <2>2. Cardinality(rest) \in Nat /\ Cardinality(files) \in Nat
    BY <2>1, FS_CardinalityType
  <2> QED BY <2>1, <2>2
<1>2. IsFiniteSet(BytesOf(file, rest)) /\ Cardinality(BytesOf(file, rest)) \in Nat
  <2>1. \A f \in rest : file[f].size \in Nat
    OBVIOUS
  <2> HIDE DEF rest
  <2> QED BY <1>1, <2>1, BytesFinite
<1>3. IsFiniteSet(block) /\ Cardinality(block) = file[g].size
  BY BlockCount
<1>4. BytesOf(file, files) = BytesOf(file, rest) \cup block
  <2>1. files = rest \cup {g}
    OBVIOUS
  <2>2. BytesOf(file, rest \cup {g}) = BytesOf(file, rest) \cup block
    BY DEF BytesOf
  <2> QED BY <2>1, <2>2
<1>5. BytesOf(file, rest) \cap block = {}
  <2>1. \A p \in BytesOf(file, rest) : p[1] \in rest
    BY DEF BytesOf
  <2>2. \A p \in block : p[1] = g
    OBVIOUS
  <2> QED BY <2>1, <2>2
<1>6. Cardinality(BytesOf(file, rest) \cap block) = 0
  BY <1>5, FS_EmptySet
<1>7. Cardinality(BytesOf(file, rest) \cup block)
        = Cardinality(BytesOf(file, rest)) + Cardinality(block)
  <2> HIDE DEF rest, block
  <2>1. Cardinality(BytesOf(file, rest) \cup block)
          = Cardinality(BytesOf(file, rest)) + Cardinality(block)
              - Cardinality(BytesOf(file, rest) \cap block)
    BY <1>2, <1>3, FS_Union
  <2>2. Cardinality(block) \in Nat
    BY <1>3, FS_CardinalityType
  <2> QED BY <1>2, <1>6, <2>1, <2>2
<1> QED BY <1>1, <1>2, <1>3, <1>4, <1>7

\* The active files and their bytes are finitely many.
LEMMA ActiveCounts ==
    ASSUME Storage!TypeOK
    PROVE  /\ IsFiniteSet(Storage!Active) /\ Cardinality(Storage!Active) \in Nat
           /\ \A f \in Storage!Active : v2[f].size \in Nat \ {0}
           /\ Storage!Bytes = BytesOf(v2, Storage!Active)
           /\ IsFiniteSet(Storage!Bytes) /\ Cardinality(Storage!Bytes) \in Nat
<1>1. Storage!Active \subseteq StoredIds
  BY DEF Storage!Active
<1>2. IsFiniteSet(Storage!Active) /\ Cardinality(Storage!Active) \in Nat
  BY <1>1, StorageMarks, FS_Subset, FS_CardinalityType
<1>3. \A f \in Storage!Active : v2[f].size \in Nat \ {0}
  BY <1>1, StorageMarks DEF Storage!TypeOK, Storage!Row, Storage!Active
<1>4. Storage!Bytes = BytesOf(v2, Storage!Active)
  BY DEF Storage!Bytes, BytesOf
<1> QED BY <1>2, <1>3, <1>4, BytesFinite

\* A request has something in hand of the file that it is about.
LEMMA SlotOf ==
    ASSUME Storage!StorageInv, NEW r \in Requests, v6[r] # Storage!Idle
    PROVE  /\ v6[r] \in Storage!Asking
           /\ v6[r].op = "upload" <=> Storage!UploadFits(r)
           /\ v6[r].op = "delete" <=> Storage!DeleteFits(r)
           /\ v6[r].op = "version" <=> Storage!VersionFits(r)
BY DEF Storage!StorageInv, Storage!CallsFit, Storage!Fits, Storage!UploadFits,
   Storage!DeleteFits, Storage!VersionFits

LEMMA SavingHas ==
    ASSUME Storage!StorageInv
    PROVE  /\ v8 \in Nat /\ v8 \in 0..MaxWrites /\ v4 \subseteq 1..MaxWrites
           /\ v5 \in [StoredIds -> Storage!Listed \cup {None}] /\ v11 \subseteq StoredIds
           /\ \A q \in Requests : Storage!Saving(q) /\ v6[q].file \notin v11 => v6[q].content \in v4
BY DEF Storage!StorageInv, Storage!TypeOK, Storage!Saving, Storage!At, Storage!CallsFit,
   Storage!Fits, Storage!UploadFits, Storage!DeleteFits, Storage!VersionFits, Storage!Idle

\* Steps that write neither rows nor versions: every slot stays, ends, goes on with the
\* file and the row that it has, or begins with the row that is there.
LEMMA StorageRests ==
    ASSUME Storage!StorageInv, UNCHANGED <<v2, v3>>, v4 \subseteq v4', v8' \in {v8, v8 + 1},
           v9' = 0 => v9 = 0,
           v11 \subseteq v11',
           \A f \in StoredIds : v5'[f] # None =>
             \/ v5[f] # None /\ v5'[f].content = v5[f].content
             \/ /\ v2[f] # None /\ v2[f].status = "deleted" /\ v5'[f].content = v2[f].content
                /\ f \notin v11' =>
                     \A q \in Requests : Storage!On(q, f)' => v6'[q].op # "version",
           \A q \in Requests :
             \/ v6'[q] = v6[q]
             \/ v6'[q] = Storage!Idle /\ (v9' = 0 => ~Storage!Saving(q))
             \/ /\ v6[q] # Storage!Idle /\ ~Storage!Saving(q) /\ v6'[q].step # "row"
                /\ v6'[q].op = v6[q].op /\ v6'[q].file = v6[q].file
                /\ v6'[q].row = v6[q].row /\ v6'[q].content = v6[q].content
             \/ /\ v6[q] = Storage!Idle /\ v6'[q].content = 0 /\ v6'[q].step # "row"
                /\ \/ v6'[q].file = None
                   \/ /\ v6'[q].row = v2[v6'[q].file] /\ v2[v6'[q].file] # None
                      /\ \/ v6'[q].op = "delete"
                         \/ v6'[q].op = "version" /\ v6'[q].file \in Storage!Active
    PROVE  /\ Storage!ContentsApart' /\ Storage!ListedFits' /\ Storage!UploadsApart'
           /\ Storage!NumbersFit' /\ Storage!NextIsLatest' /\ Storage!LatestIsComing'
           /\ Storage!ActiveHasContent'
<1> USE DEF Storage!StorageInv
<1>1. ASSUME NEW f \in StoredIds, NEW q \in Requests, Storage!On(q, f)'
      PROVE  \/ /\ Storage!On(q, f) /\ v6'[q].op = v6[q].op /\ v6'[q].row = v6[q].row
                /\ v6'[q].content = v6[q].content
             \/ /\ v6'[q].content = 0 /\ v6'[q].row = v2[f] /\ v2[f] # None
                /\ v6'[q].op = "delete" \/ (v6'[q].op = "version" /\ f \in Storage!Active)
  BY <1>1, StorageMarks DEF Storage!On, Storage!Idle
<1>2. Storage!Active' = Storage!Active
  BY DEF Storage!Active
<1>3. \A f \in StoredIds, k \in 1..MaxWrites : Storage!Mentions(f, k)' => Storage!Mentions(f, k)
  BY <1>1 DEF Storage!Mentions
<1>4. ASSUME NEW f \in StoredIds
      PROVE  /\ Storage!Known(f)' \subseteq Storage!Known(f)
             /\ Storage!Taken(f)' = Storage!Taken(f)
             /\ Storage!Live(f)' => Storage!Live(f)
  <2>1. Storage!Known(f)' \subseteq Storage!Known(f)
    BY <1>1 DEF Storage!Known
  <2>2. Storage!Taken(f)' = Storage!Taken(f)
    BY DEF Storage!Taken
  <2>3. Storage!Live(f)' => Storage!Live(f)
    BY <1>1, <1>2 DEF Storage!Live
  <2> QED BY <2>1, <2>2, <2>3
<1>5. ASSUME NEW q \in Requests
      PROVE  /\ Storage!Saving(q)' => Storage!Saving(q) /\ v6'[q] = v6[q]
             /\ Storage!Saving(q) /\ v9' = 0 => v6'[q] = v6[q]
  BY DEF Storage!Saving, Storage!At, Storage!Idle
<1>6. Storage!ContentsApart'
  BY <1>3, ContentsStay
<1>7. Storage!NumbersFit'
  BY <1>4, NumbersStay
<1>8. Storage!NextIsLatest'
  BY <1>4, <1>5, NextStays
<1>9. Storage!ListedFits'
  <2>1. ASSUME NEW f \in StoredIds \ v11', v5'[f] # None
        PROVE  /\ v2[f] # None /\ v2[f].status = "deleted"
               /\ \A q \in Requests : Storage!On(q, f)' => v6'[q].op # "version"
    <3>1. CASE v5[f] # None
      <4>1. /\ v2[f] # None /\ v2[f].status = "deleted"
            /\ \A q \in Requests : Storage!On(q, f) => v6[q].op # "version"
        BY <2>1, <3>1 DEF Storage!ListedFits
      <4>2. f \notin Storage!Active
        BY <4>1 DEF Storage!Active
      <4> QED BY <1>1, <4>1, <4>2
    <3>2. CASE v5[f] = None
      BY <2>1, <3>2
    <3> QED BY <3>1, <3>2
  <2> QED BY <2>1 DEF Storage!ListedFits
<1>10. Storage!UploadsApart'
  BY <1>1 DEF Storage!UploadsApart
<1>11. Storage!LatestIsComing'
  <2>1. ASSUME v9' = 0, NEW v \in v3, v.file \in Storage!Active \ v11',
               ~(v.number <= v2[v.file].version)
        PROVE  \E r \in Requests : Storage!Saving(r)' /\ v6'[r].file = v.file
    <3>1. PICK r \in Requests : Storage!Saving(r) /\ v6[r].file = v.file
      BY <2>1 DEF Storage!LatestIsComing
    <3> QED BY <1>5, <2>1, <3>1 DEF Storage!Saving, Storage!At
  <2> QED BY <1>2, <2>1 DEF Storage!LatestIsComing
<1>12. Storage!ActiveHasContent'
  BY <1>2 DEF Storage!ActiveHasContent
<1> QED BY <1>6, <1>7, <1>8, <1>9, <1>10, <1>11, <1>12

\* The same where the content and what is listed stay as well.
LEMMA StorageQuiet ==
    ASSUME Storage!StorageInv, UNCHANGED <<v2, v3, v4, v5, v8, v11>>, v9' = 0 => v9 = 0,
           \A q \in Requests :
             \/ v6'[q] = v6[q]
             \/ v6'[q] = Storage!Idle /\ (v9' = 0 => ~Storage!Saving(q))
             \/ /\ v6[q] # Storage!Idle /\ ~Storage!Saving(q) /\ v6'[q].step # "row"
                /\ v6'[q].op = v6[q].op /\ v6'[q].file = v6[q].file
                /\ v6'[q].row = v6[q].row /\ v6'[q].content = v6[q].content
             \/ /\ v6[q] = Storage!Idle /\ v6'[q].content = 0 /\ v6'[q].step # "row"
                /\ \/ v6'[q].file = None
                   \/ /\ v6'[q].row = v2[v6'[q].file] /\ v2[v6'[q].file] # None
                      /\ \/ v6'[q].op = "delete"
                         \/ v6'[q].op = "version" /\ v6'[q].file \in Storage!Active
    PROVE  /\ Storage!ContentsApart' /\ Storage!ListedFits' /\ Storage!UploadsApart'
           /\ Storage!NumbersFit' /\ Storage!NextIsLatest' /\ Storage!LatestIsComing'
           /\ Storage!ActiveHasContent'
<1>1. /\ v4 \subseteq v4' /\ v8' \in {v8, v8 + 1} /\ v11 \subseteq v11'
      /\ \A f \in StoredIds : v5'[f] # None => v5[f] # None /\ v5'[f].content = v5[f].content
  BY SavingHas
<1> QED BY <1>1, StorageRests

LEMMA StorageTurn ==
    ASSUME Storage!StorageInv, NEW r \in Requests, NEW c, Storage!Goes(r, c), v10 => v10',
           UNCHANGED v11,
           ~v10' => \A q \in Requests \ {r} : v6[q] = Storage!Idle,
           ~v10' /\ c # Storage!Idle => Storage!Accounting(r)',
           ~v10' /\ c = Storage!Idle => Storage!Counted'
    PROVE  Storage!InTurn'
<1>1. v6'[r] = c /\ \A q \in Requests \ {r} : v6'[q] = v6[q]
  BY StorageGoes DEF Storage!StorageInv
<1> SUFFICES ASSUME ~v10'
             PROVE  /\ v11' = {}
                    /\ \A s, q \in Requests :
                         v6'[s] # Storage!Idle /\ v6'[q] # Storage!Idle => s = q
                    /\ \A q \in Requests : v6'[q] # Storage!Idle => Storage!Accounting(q)'
                    /\ Storage!Quiet' => Storage!Counted'
  BY DEF Storage!InTurn, Storage!Idle
<1>2. \A q \in Requests \ {r} : v6'[q] = Storage!Idle
  BY <1>1
<1>3. Storage!Quiet' => c = Storage!Idle
  BY <1>1 DEF Storage!Quiet, Storage!Idle
<1>4. v11' = {}
  BY DEF Storage!StorageInv, Storage!InTurn
<1> QED BY <1>1, <1>2, <1>3, <1>4

\* In turn a request that runs is the only one.
LEMMA StorageAlone ==
    ASSUME Storage!StorageInv, NEW r \in Requests, v6[r] # Storage!Idle, ~v10
    PROVE  Storage!Accounting(r) /\ v11 = {} /\ \A q \in Requests \ {r} : v6[q] = Storage!Idle
BY DEF Storage!StorageInv, Storage!InTurn

LEMMA StorageBegins ==
    ASSUME Storage!StorageInv, NEW r \in Requests, Storage!Starts(r)
    PROVE  /\ v6[r] = Storage!Idle /\ v10' \in BOOLEAN /\ (v10 => v10')
           /\ ~v10' => Storage!Counted /\ \A q \in Requests \ {r} : v6[q] = Storage!Idle
<1>1. v6[r] = Storage!Idle /\ v10' = (v10 \/ Storage!Overlap(r))
  BY DEF Storage!Starts
<1>2. v10' \in BOOLEAN /\ (v10 => v10')
      /\ (~v10' => ~v10 /\ \A q \in Requests \ {r} : v6[q] = Storage!Idle)
  BY <1>1 DEF Storage!Overlap, Storage!StorageInv, Storage!TypeOK
<1>3. ~v10' => Storage!Counted
  BY <1>1, <1>2 DEF Storage!StorageInv, Storage!InTurn, Storage!Quiet
<1> QED BY <1>1, <1>2, <1>3

\* The count of the files and their bytes stays with the files.
LEMMA CountStays ==
    ASSUME UNCHANGED v2
    PROVE  Storage!Active' = Storage!Active /\ Storage!Bytes' = Storage!Bytes
<1>1. Storage!Active' = Storage!Active
  BY DEF Storage!Active
<1> QED BY <1>1 DEF Storage!Bytes

\* A quota that is there has room for nothing more, at least.
LEMMA QuotaIs ==
    ASSUME Storage!StorageInv
    PROVE  /\ v1 # None => v1 \in Storage!Quota /\ Storage!Room(v1, 0) /\ v1.max \in Nat
           /\ \A q \in Storage!Quota : q.used \in Int /\ q.files \in Int /\ q.max \in Nat
           /\ \A max \in {RoleMax, DefaultMax} :
                /\ Storage!NewQuota(max) \in Storage!Quota /\ Storage!NewQuota(max) # None
                /\ Storage!NewQuota(max).used = 0 /\ Storage!NewQuota(max).files = 0
                /\ Storage!NewQuota(max).max = max
<1>1. \A q \in Storage!Quota : q.used \in Int /\ q.files \in Int /\ q.max \in Nat
  BY StorageMarks DEF Storage!Quota
<1>2. v1 # None => v1 \in Storage!Quota /\ v1.used <= v1.max
  BY DEF Storage!StorageInv, Storage!TypeOK, Storage!UsedWithinMax
<1>3. v1 # None => Storage!Room(v1, 0)
  BY <1>1, <1>2 DEF Storage!Room
<1>4. ASSUME NEW max \in {RoleMax, DefaultMax}
      PROVE  /\ Storage!NewQuota(max) \in Storage!Quota /\ Storage!NewQuota(max) # None
             /\ Storage!NewQuota(max).used = 0 /\ Storage!NewQuota(max).files = 0
             /\ Storage!NewQuota(max).max = max
  BY StorageMarks DEF Storage!NewQuota, Storage!Quota
<1> QED BY <1>1, <1>2, <1>3, <1>4

LEMMA QuotaRead ==
    ASSUME Storage!StorageInv, NEW r \in Requests, NEW c \in Storage!Asking,
           NEW next \in {"check", "quota"}, Storage!ReadQuota(r, c, next)
    PROVE  \E d \in Storage!Asking :
             /\ Storage!Goes(r, d) /\ d.op = c.op /\ d.file = c.file /\ d.row = c.row
             /\ d.content = c.content /\ d.size = c.size
             /\ \/ v1 # None /\ d.step = next /\ d.quota = v1
                \/ v1 = None /\ d.step = "make" /\ d.next = next
<1>1. CASE v1 # None
  <2> DEFINE d == [Storage!To(c, next) EXCEPT !.quota = v1]
  <2>1. Storage!Goes(r, d)
    BY <1>1 DEF Storage!ReadQuota
  <2>2. /\ d \in Storage!Asking /\ d.op = c.op /\ d.file = c.file /\ d.row = c.row
        /\ d.content = c.content /\ d.size = c.size /\ d.step = next /\ d.quota = v1
    BY <1>1, QuotaIs DEF Storage!To, Storage!Asking
  <2> HIDE DEF d
  <2> QED BY <1>1, <2>1, <2>2
<1>2. CASE v1 = None
  <2> DEFINE d == [Storage!To(c, "make") EXCEPT !.next = next]
  <2>1. Storage!Goes(r, d)
    BY <1>2 DEF Storage!ReadQuota
  <2>2. /\ d \in Storage!Asking /\ d.op = c.op /\ d.file = c.file /\ d.row = c.row
        /\ d.content = c.content /\ d.size = c.size /\ d.step = "make" /\ d.next = next
    BY DEF Storage!To, Storage!Asking
  <2> HIDE DEF d
  <2> QED BY <1>2, <2>1, <2>2
<1> QED BY <1>1, <1>2

LEMMA StorageUploadStart ==
    ASSUME Storage!StorageInv, NEW r \in Requests, Storage!UploadStart(r)
    PROVE  Storage!StorageInv'
<1> USE DEF Storage!StorageInv
<1>1. Storage!Starts(r) /\ UNCHANGED <<v1, v2, v3, v4, v5, v7, v8, v9, v11>>
  BY DEF Storage!UploadStart
<1>2. PICK size \in FileSizes : Storage!ReadQuota(r, Storage!Asked("upload", None, size), "check")
  BY DEF Storage!UploadStart
<1> DEFINE a == Storage!Asked("upload", None, size)
<1>3. a \in Storage!Asking /\ a.op = "upload" /\ a.file = None /\ a.row = None /\ a.content = 0
      /\ a.size = size
  BY StorageMarks DEF Storage!Asked, Storage!Asking
<1> HIDE DEF a
<1>4. PICK c \in Storage!Asking :
        /\ Storage!Goes(r, c) /\ c.op = "upload" /\ c.file = None /\ c.row = None
        /\ c.content = 0 /\ c.size = size
        /\ \/ v1 # None /\ c.step = "check" /\ c.quota = v1
           \/ v1 = None /\ c.step = "make" /\ c.next = "check"
  <2>1. Storage!ReadQuota(r, a, "check")
    BY <1>2 DEF a
  <2> QED BY <1>3, <2>1, QuotaRead
<1>5. DOMAIN v6' = Requests /\ v6'[r] = c /\ \A q \in Requests \ {r} : v6'[q] = v6[q]
  BY <1>4, StorageGoes
<1>6. /\ v6[r] = Storage!Idle /\ v10' \in BOOLEAN /\ (v10 => v10')
      /\ ~v10' => Storage!Counted /\ \A q \in Requests \ {r} : v6[q] = Storage!Idle
  BY <1>1, StorageBegins
<1>7. Storage!TypeOK' /\ Storage!UsedWithinMax'
  BY <1>1, <1>5, <1>6 DEF Storage!TypeOK, Storage!UsedWithinMax, Storage!Quota, Storage!Row,
     Storage!Version
<1>8. Storage!CallsFit'
  <2>1. Storage!UploadFits(r)'
    BY <1>4, <1>5, QuotaIs DEF Storage!UploadFits, Storage!Room, Storage!Quota
  <2>2. Storage!Fits(r)'
    BY <1>5, <2>1 DEF Storage!Fits, Storage!Asking, Storage!Quota, Storage!Row
  <2>3. v8 \in Nat
        /\ \A q \in Requests : Storage!Saving(q) /\ v6[q].file \notin v11 => v6[q].content \in v4'
    BY <1>1, SavingHas
  <2> QED BY <1>1, <1>4, <2>2, <2>3, SlotsKeep
<1>9. /\ Storage!ContentsApart' /\ Storage!ListedFits' /\ Storage!UploadsApart'
      /\ Storage!NumbersFit' /\ Storage!NextIsLatest' /\ Storage!LatestIsComing'
      /\ Storage!ActiveHasContent'
  BY <1>1, <1>4, <1>5, <1>6, SavingHas, StorageQuiet
<1>10. Storage!InTurn'
  <2>1. ~v10' => Storage!Counted'
    BY <1>1, <1>6, CountStays DEF Storage!Counted, Storage!Counts
  <2>2. ~v10' => Storage!Accounting(r)'
    BY <1>1, <1>4, <1>5, <2>1 DEF Storage!Accounting, Storage!Behind, Storage!At
  <2> QED BY <1>1, <1>4, <1>6, <2>1, <2>2, StorageTurn
<1> QED BY <1>7, <1>8, <1>9, <1>10

\* A new quota counts nothing, as there is no active file before it.
LEMMA CountBegins ==
    ASSUME Storage!StorageInv, Storage!Counted, v1 = None, NEW max \in {RoleMax, DefaultMax},
           v1' = Storage!NewQuota(max), UNCHANGED v2
    PROVE  Storage!Counted'
<1>1. Storage!Active' = {} /\ Storage!Bytes' = {}
  <2>1. Storage!Active = {}
    BY DEF Storage!Counted
  <2> QED BY <2>1, CountStays DEF Storage!Bytes
<1>2. Storage!Cardinality({}) = 0
  BY StorageCount, FS_EmptySet
<1>3. v1' # None /\ v1'.used = 0 /\ v1'.files = 0
  BY QuotaIs
<1> QED BY <1>1, <1>2, <1>3 DEF Storage!Counted, Storage!Counts

LEMMA StorageMakeQuota ==
    ASSUME Storage!StorageInv, NEW r \in Requests, Storage!MakeQuota(r)
    PROVE  Storage!StorageInv'
<1> USE DEF Storage!StorageInv
<1>1. /\ v6[r] # Storage!Idle /\ v6[r].step = "make"
      /\ UNCHANGED <<v2, v3, v4, v5, v7, v8, v9, v10, v11>>
  BY DEF Storage!MakeQuota
<1>2. /\ v6[r] \in Storage!Asking /\ ~Storage!Saving(r)
      /\ v6[r].op = "upload" => v6[r].next = "check" /\ Storage!UploadFits(r)
      /\ v6[r].op = "delete" => v6[r].next = "quota" /\ Storage!DeleteFits(r)
      /\ v6[r].op = "version" => v6[r].next = "check" /\ Storage!VersionFits(r)
      /\ v6[r].next # "row" /\ v6[r].content = 0
  BY <1>1, SlotOf DEF Storage!UploadFits, Storage!DeleteFits, Storage!VersionFits, Storage!Saving,
     Storage!At, Storage!Asking
<1>3. PICK c :
        /\ Storage!Goes(r, c)
        /\ \/ /\ v1 # None /\ v1' = v1 /\ c = Storage!Idle
           \/ /\ v1 = None /\ v1' = Storage!NewQuota(DefaultMax) /\ c \in Storage!Asking
              /\ c.op = v6[r].op /\ c.step = v6[r].next /\ c.quota = v1' /\ c.file = v6[r].file
              /\ c.row = v6[r].row /\ c.size = v6[r].size /\ c.content = v6[r].content
  <2>1. CASE v1 # None
    BY <2>1 DEF Storage!MakeQuota
  <2>2. CASE v1 = None
    <3> DEFINE q == Storage!NewQuota(DefaultMax)
               c == [Storage!To(v6[r], v6[r].next) EXCEPT !.quota = q]
    <3>1. v1' = q /\ Storage!Goes(r, c)
      BY <2>2 DEF Storage!MakeQuota
    <3>2. q \in Storage!Quota
      BY QuotaIs
    <3> HIDE DEF q
    <3>3. /\ c \in Storage!Asking
          /\ c.op = v6[r].op /\ c.step = v6[r].next /\ c.quota = q /\ c.file = v6[r].file
          /\ c.row = v6[r].row /\ c.size = v6[r].size /\ c.content = v6[r].content
      BY <1>2, <3>2 DEF Storage!To, Storage!Asking
    <3> HIDE DEF c
    <3> QED BY <2>2, <3>1, <3>3 DEF q
  <2> QED BY <2>1, <2>2
<1>4. DOMAIN v6' = Requests /\ v6'[r] = c /\ \A q \in Requests \ {r} : v6'[q] = v6[q]
  BY <1>3, StorageGoes
<1>5. v1' # None => v1' \in Storage!Quota /\ Storage!Room(v1', 0) /\ v1'.used <= v1'.max
  BY <1>3, QuotaIs DEF Storage!Room
<1>6. Storage!TypeOK' /\ Storage!UsedWithinMax'
  BY <1>1, <1>4, <1>5 DEF Storage!TypeOK, Storage!UsedWithinMax, Storage!Quota, Storage!Row,
     Storage!Version
<1>7. Storage!CallsFit'
  <2>1. Storage!Fits(r)'
    <3>1. CASE c = Storage!Idle
      BY <1>4, <3>1 DEF Storage!Fits, Storage!Idle
    <3>2. CASE c # Storage!Idle
      <4>1. /\ c \in Storage!Asking /\ c.op = v6[r].op /\ c.step = v6[r].next
            /\ c.quota = v1' /\ v1' # None /\ c.file = v6[r].file
            /\ c.row = v6[r].row /\ c.size = v6[r].size /\ c.content = v6[r].content
        BY <1>3, <3>2, QuotaIs
      <4>2. v1' \in Storage!Quota /\ v1'.used + 0 <= v1'.max
        BY <1>5, <4>1, QuotaIs DEF Storage!Room
      <4>3. CASE v6[r].op = "upload"
        <5>1. /\ c.op = "upload" /\ c.step = "check" /\ c.file = None /\ c.row = None
              /\ c.size \in FileSizes /\ c.content = 0
          BY <1>1, <1>2, <4>1, <4>3 DEF Storage!UploadFits
        <5>2. Storage!UploadFits(r)'
          BY <1>4, <4>1, <4>2, <5>1 DEF Storage!UploadFits, Storage!Room, Storage!Quota
        <5> QED BY <1>4, <4>1, <5>2 DEF Storage!Fits, Storage!Asking, Storage!Quota, Storage!Row
      <4>4. CASE v6[r].op = "delete"
        <5>1. Storage!DeleteFits(r)'
          BY <1>2, <1>4, <4>1, <4>2, <4>4
          DEF Storage!DeleteFits, Storage!Room, Storage!Quota, Storage!Row
        <5> QED BY <1>4, <4>1, <5>1 DEF Storage!Fits, Storage!Asking, Storage!Quota, Storage!Row
      <4>5. CASE v6[r].op = "version"
        <5>1. Storage!VersionFits(r)'
          BY <1>2, <1>4, <4>1, <4>2, <4>5
          DEF Storage!VersionFits, Storage!Room, Storage!Quota, Storage!Row
        <5> QED BY <1>4, <4>1, <5>1 DEF Storage!Fits, Storage!Asking, Storage!Quota, Storage!Row
      <4> QED BY <1>2, <4>3, <4>4, <4>5 DEF Storage!Asking
    <3> QED BY <3>1, <3>2
  <2> QED BY <1>1, <1>3, <2>1, SavingHas, SlotsKeep
<1>8. /\ Storage!ContentsApart' /\ Storage!ListedFits' /\ Storage!UploadsApart'
      /\ Storage!NumbersFit' /\ Storage!NextIsLatest' /\ Storage!LatestIsComing'
      /\ Storage!ActiveHasContent'
  BY <1>1, <1>2, <1>3, <1>4, SavingHas, StorageQuiet
<1>9. Storage!InTurn'
  <2>1. ~v10 => /\ Storage!Counted /\ v6[r].op = "upload"
                /\ \A q \in Requests \ {r} : v6[q] = Storage!Idle
    BY <1>1, <1>2, StorageAlone DEF Storage!Accounting, Storage!Asking
  <2>2. ~v10 => Storage!Counted'
    <3>1. CASE v1 = None
      BY <1>1, <1>3, <2>1, <3>1, CountBegins
    <3>2. CASE v1 # None
      BY <1>1, <1>3, <2>1, <3>2, CountStays DEF Storage!Counted, Storage!Counts
    <3> QED BY <3>1, <3>2
  <2>3. ~v10 /\ c # Storage!Idle => Storage!Accounting(r)'
    <3>1. c # Storage!Idle => v1' # None
      BY <1>3, QuotaIs
    <3> QED BY <1>2, <1>3, <1>4, <2>1, <2>2, <3>1
            DEF Storage!Accounting, Storage!Behind, Storage!At
  <2> QED BY <1>1, <1>3, <2>1, <2>2, <2>3, StorageTurn
<1> QED BY <1>6, <1>7, <1>8, <1>9

LEMMA StorageInitializeQuota ==
    ASSUME Storage!StorageInv, Storage!InitializeQuota
    PROVE  Storage!StorageInv'
<1> USE DEF Storage!StorageInv
<1>1. /\ v7' = TRUE /\ UNCHANGED <<v2, v3, v4, v5, v6, v8, v9, v10, v11>>
      /\ v1' = IF v1 = None THEN Storage!NewQuota(RoleMax) ELSE v1
  BY DEF Storage!InitializeQuota
<1>2. v1' # None => v1' \in Storage!Quota /\ v1'.used <= v1'.max
  BY <1>1, QuotaIs DEF Storage!Room
<1>3. Storage!TypeOK' /\ Storage!UsedWithinMax'
  BY <1>1, <1>2 DEF Storage!TypeOK, Storage!UsedWithinMax, Storage!Quota, Storage!Row,
     Storage!Version
<1>4. Storage!CallsFit'
  BY <1>1, SavingHas, SlotKeeps DEF Storage!CallsFit
<1>5. /\ Storage!ContentsApart' /\ Storage!ListedFits' /\ Storage!UploadsApart'
      /\ Storage!NumbersFit' /\ Storage!NextIsLatest' /\ Storage!LatestIsComing'
      /\ Storage!ActiveHasContent'
  BY <1>1, SavingHas, StorageQuiet
<1>6. Storage!InTurn'
  <2>1. Storage!Counted => Storage!Counted'
    <3>1. CASE v1 = None
      BY <1>1, <3>1, CountBegins
    <3>2. CASE v1 # None
      BY <1>1, <3>2, CountStays DEF Storage!Counted, Storage!Counts
    <3> QED BY <3>1, <3>2
  <2>2. ASSUME NEW r \in Requests, v6[r] # Storage!Idle, Storage!Accounting(r)
        PROVE  Storage!Accounting(r)'
    <3>1. CASE v1 = None
      BY <1>1, <2>1, <2>2, <3>1, SlotOf
      DEF Storage!Accounting, Storage!Behind, Storage!At, Storage!Counts, Storage!Asking
    <3>2. CASE v1 # None
      BY <1>1, <2>1, <2>2, <3>2, CountStays
      DEF Storage!Accounting, Storage!Behind, Storage!At, Storage!Counts, Storage!Grows
    <3> QED BY <3>1, <3>2
  <2> QED BY <1>1, <2>1, <2>2 DEF Storage!InTurn, Storage!Quiet, Storage!Idle
<1> QED BY <1>3, <1>4, <1>5, <1>6

LEMMA StorageRestart ==
    ASSUME Storage!StorageInv, Storage!Restart
    PROVE  Storage!StorageInv'
<1> USE DEF Storage!StorageInv
<1>1. /\ v9 < MaxRestarts /\ v9' = v9 + 1 /\ UNCHANGED <<v1, v2, v3, v4, v7, v8, v11>>
      /\ v5' = [f \in StoredIds |-> None]
      /\ v10' = (v10 \/ \E r \in Requests : v6[r] # Storage!Idle)
      /\ v6' = [r \in Requests |-> Storage!Idle]
  BY DEF Storage!Restart
<1>2. DOMAIN v6' = Requests /\ \A r \in Requests : v6'[r] = Storage!Idle
  BY <1>1
<1>3. /\ v9' \in 0..MaxRestarts /\ v9' # 0 /\ v10' \in BOOLEAN
      /\ ~v10' => ~v10 /\ Storage!Quiet
  <2>1. v9' \in 0..MaxRestarts /\ v9' # 0
    BY <1>1, StorageMarks DEF Storage!TypeOK
  <2>2. v10 \in BOOLEAN
    BY DEF Storage!TypeOK
  <2> QED BY <1>1, <2>1, <2>2 DEF Storage!Quiet
<1>4. Storage!TypeOK' /\ Storage!UsedWithinMax'
  BY <1>1, <1>2, <1>3 DEF Storage!TypeOK, Storage!UsedWithinMax, Storage!Quota, Storage!Row,
     Storage!Version
<1>5. Storage!CallsFit'
  BY <1>2 DEF Storage!CallsFit, Storage!Fits, Storage!Idle
<1>6. /\ Storage!ContentsApart' /\ Storage!ListedFits' /\ Storage!UploadsApart'
      /\ Storage!NumbersFit' /\ Storage!NextIsLatest' /\ Storage!LatestIsComing'
      /\ Storage!ActiveHasContent'
  <2>1. /\ v4 \subseteq v4' /\ v8' \in {v8, v8 + 1} /\ v11 \subseteq v11'
        /\ \A f \in StoredIds : ~(v5'[f] # None)
    BY <1>1, SavingHas
  <2> QED BY <1>1, <1>2, <1>3, <2>1, StorageRests
<1>7. Storage!InTurn'
  <2>1. ~v10' => Storage!Counted'
    BY <1>1, <1>3, CountStays DEF Storage!InTurn, Storage!Counted, Storage!Counts
  <2> QED BY <1>1, <1>2, <1>3, <2>1 DEF Storage!InTurn, Storage!Idle
<1> QED BY <1>4, <1>5, <1>6, <1>7

\* A request that goes on without files and versions: what is left is its own part.
LEMMA StorageMoves ==
    ASSUME Storage!StorageInv, NEW r \in Requests, NEW c, Storage!Goes(r, c),
           UNCHANGED <<v2, v3, v5, v7, v9, v10, v11>>, v4 \subseteq v4', v4' \subseteq 1..MaxWrites,
           v8' \in {v8, v8 + 1}, v8' \in 0..MaxWrites,
           v1' # None => v1' \in Storage!Quota /\ v1'.used <= v1'.max,
           v6[r] # Storage!Idle, ~Storage!Saving(r),
           \/ c = Storage!Idle
           \/ /\ c.op = v6[r].op /\ c.file = v6[r].file /\ c.row = v6[r].row
              /\ c.content = v6[r].content /\ c.step # "row",
           Storage!Fits(r)', ~v10 => (IF c = Storage!Idle THEN Storage!Counted'
                                                          ELSE Storage!Accounting(r)')
    PROVE  Storage!StorageInv'
<1> USE DEF Storage!StorageInv
<1>1. DOMAIN v6' = Requests /\ v6'[r] = c /\ \A q \in Requests \ {r} : v6'[q] = v6[q]
  BY StorageGoes
<1>2. Storage!TypeOK' /\ Storage!UsedWithinMax'
  BY <1>1 DEF Storage!TypeOK, Storage!UsedWithinMax, Storage!Quota, Storage!Row, Storage!Version
<1>3. Storage!CallsFit'
  <2>1. v8' \in Nat /\ v8 <= v8'
    BY SavingHas
  <2>2. \A q \in Requests \ {r} :
          Storage!Saving(q) /\ v6[q].file \notin v11 => v6[q].content \in v4'
    BY SavingHas
  <2> QED BY <2>1, <2>2, SlotsKeep
<1>4. /\ Storage!ContentsApart' /\ Storage!ListedFits' /\ Storage!UploadsApart'
      /\ Storage!NumbersFit' /\ Storage!NextIsLatest' /\ Storage!LatestIsComing'
      /\ Storage!ActiveHasContent'
  <2>1. \A f \in StoredIds : v5'[f] # None => v5[f] # None /\ v5'[f].content = v5[f].content
    OBVIOUS
  <2>2. v11 \subseteq v11'
    OBVIOUS
  <2>3. \A q \in Requests :
          \/ v6'[q] = v6[q]
          \/ v6'[q] = Storage!Idle /\ ~Storage!Saving(q)
          \/ /\ v6[q] # Storage!Idle /\ ~Storage!Saving(q) /\ v6'[q].step # "row"
             /\ v6'[q].op = v6[q].op /\ v6'[q].file = v6[q].file
             /\ v6'[q].row = v6[q].row /\ v6'[q].content = v6[q].content
    BY <1>1
  <2> QED BY <2>1, <2>2, <2>3, StorageRests
<1>5. Storage!InTurn'
  BY StorageAlone, StorageTurn
<1> QED BY <1>2, <1>3, <1>4, <1>5

LEMMA StorageUploadQuota ==
    ASSUME Storage!StorageInv, NEW r \in Requests, Storage!UploadQuota(r)
    PROVE  Storage!StorageInv'
<1> USE DEF Storage!StorageInv
<1>1. /\ v6[r].op = "upload" /\ v6[r].step = "quota" /\ v6[r] # Storage!Idle /\ ~Storage!Saving(r)
      /\ UNCHANGED <<v2, v3, v4, v5, v7, v8, v9, v10, v11>>
      /\ v1' = [v6[r].quota EXCEPT !.used = @ + v6[r].size, !.files = @ + 1]
      /\ Storage!Goes(r, [Storage!To(v6[r], "version") EXCEPT !.quota = None])
  BY DEF Storage!UploadQuota, Storage!At, Storage!Idle, Storage!Saving
<1>2. /\ v6[r] \in Storage!Asking /\ v6[r].file \in StoredIds /\ Storage!Written(v6[r])
      /\ v6[r].row = None /\ v6[r].size \in FileSizes /\ v6[r].size \in Nat
      /\ v6[r].quota \in Storage!Quota /\ v6[r].quota.used + v6[r].size <= v6[r].quota.max
  BY <1>1, SlotOf, StorageMarks DEF Storage!UploadFits, Storage!Room
<1>3. /\ v1' \in Storage!Quota /\ v1'.used = v6[r].quota.used + v6[r].size
      /\ v1'.files = v6[r].quota.files + 1 /\ v1'.max = v6[r].quota.max
  <2>1. v6[r].quota.files + 1 \in Int /\ v6[r].quota.used + v6[r].size \in Int
    BY <1>2, QuotaIs
  <2> DEFINE used == v6[r].quota.used + v6[r].size
             files == v6[r].quota.files + 1
             p == [v6[r].quota EXCEPT !.used = used]
  <2>2. v1' = [p EXCEPT !.files = files]
    BY <1>1
  <2>3. used \in Int /\ files \in Int /\ v6[r].quota \in Storage!Quota
    BY <1>2, <2>1
  <2> HIDE DEF used, files
  <2>4. p \in Storage!Quota /\ p.used = used /\ p.max = v6[r].quota.max
    BY <2>3 DEF Storage!Quota
  <2> HIDE DEF p
  <2>5. v1' \in Storage!Quota /\ v1'.used = used /\ v1'.files = files /\ v1'.max = p.max
    BY <2>2, <2>3, <2>4 DEF Storage!Quota
  <2> QED BY <2>4, <2>5 DEF used, files
<1> DEFINE c == [Storage!To(v6[r], "version") EXCEPT !.quota = None]
<1>4. /\ c \in Storage!Asking /\ c.op = "upload" /\ c.step = "version" /\ c.file = v6[r].file
      /\ c.row = v6[r].row /\ c.content = v6[r].content /\ c.size = v6[r].size
  BY <1>1, <1>2 DEF Storage!To, Storage!Asking
<1>5. Storage!Goes(r, c)
  BY <1>1
<1> HIDE DEF c
<1>6. v6'[r] = c
  BY <1>5, StorageGoes
<1>7. Storage!Fits(r)'
  <2>1. Storage!UploadFits(r)'
    BY <1>1, <1>2, <1>4, <1>6 DEF Storage!UploadFits, Storage!Written
  <2> QED BY <1>4, <1>6, <2>1 DEF Storage!Fits, Storage!Asking, Storage!Quota, Storage!Row
<1>8. ~v10 => Storage!Accounting(r)'
  <2> SUFFICES ASSUME ~v10 PROVE Storage!Accounting(r)'
    OBVIOUS
  <2>1. /\ v6[r].quota.files + 1 = Storage!Cardinality(Storage!Active)
        /\ v6[r].quota.used + v6[r].size = Storage!Cardinality(Storage!Bytes)
    BY <1>1, StorageAlone DEF Storage!Accounting, Storage!Behind, Storage!At, Storage!Counts
  <2>2. v1' # None
    BY <1>3, StorageMarks
  <2>3. Storage!Active' = Storage!Active /\ Storage!Bytes' = Storage!Bytes
    BY <1>1, CountStays
  <2>4. v6[r].quota.files \in Int /\ v6[r].quota.used \in Int
    BY <1>2, QuotaIs
  <2>5. Storage!Counted'
    BY <1>2, <1>3, <2>1, <2>2, <2>3, <2>4 DEF Storage!Counted, Storage!Counts
  <2> QED BY <1>4, <1>6, <2>5 DEF Storage!Accounting, Storage!Behind, Storage!At
<1>9. c # Storage!Idle /\ c.step # "row" /\ v1'.used <= v1'.max
  BY <1>2, <1>3, <1>4 DEF Storage!Idle
<1> QED BY <1>1, <1>3, <1>4, <1>5, <1>7, <1>8, <1>9, SavingHas, StorageMoves

\* What a quota gives back leaves nothing below zero, so it is never beyond its maximum.
LEMMA NonnegIs ==
    ASSUME NEW n \in Int
    PROVE  /\ Storage!Nonneg(n) \in Nat /\ (n >= 0 => Storage!Nonneg(n) = n)
           /\ \A m \in Nat : n <= m => Storage!Nonneg(n) <= m
BY DEF Storage!Nonneg

LEMMA StorageDeleteQuota ==
    ASSUME Storage!StorageInv, NEW r \in Requests, Storage!DeleteQuota(r)
    PROVE  Storage!StorageInv'
<1> USE DEF Storage!StorageInv
<1>1. /\ v6[r].op = "delete" /\ v6[r].step = "quota" /\ v6[r] # Storage!Idle /\ ~Storage!Saving(r)
      /\ UNCHANGED <<v2, v3, v4, v5, v7, v8, v9, v10, v11>> /\ Storage!Goes(r, Storage!Idle)
      /\ v1' = [v6[r].quota EXCEPT !.used = Storage!Nonneg(@ - v6[r].row.size),
                                   !.files = Storage!Nonneg(@ - 1)]
  BY DEF Storage!DeleteQuota, Storage!At, Storage!Idle, Storage!Saving
<1>2. /\ v6[r].row \in Storage!Row /\ v6[r].row.size \in Nat
      /\ v6[r].quota \in Storage!Quota /\ v6[r].quota.used + 0 <= v6[r].quota.max
  BY <1>1, SlotOf, StorageMarks DEF Storage!DeleteFits, Storage!Room, Storage!Row
<1>3. v6[r].quota.files \in Int /\ v6[r].quota.used \in Int /\ v6[r].quota.max \in Nat
  BY <1>2, QuotaIs
<1> DEFINE used == Storage!Nonneg(v6[r].quota.used - v6[r].row.size)
           files == Storage!Nonneg(v6[r].quota.files - 1)
<1>4. /\ used \in Nat /\ files \in Nat /\ used <= v6[r].quota.max
      /\ v6[r].quota.used - v6[r].row.size >= 0 => used = v6[r].quota.used - v6[r].row.size
      /\ v6[r].quota.files - 1 >= 0 => files = v6[r].quota.files - 1
  <2>1. v6[r].quota.used - v6[r].row.size \in Int /\ v6[r].quota.files - 1 \in Int
        /\ v6[r].quota.used - v6[r].row.size <= v6[r].quota.max
    BY <1>2, <1>3
  <2> QED BY <1>3, <2>1, NonnegIs
<1>5. v1' \in Storage!Quota /\ v1'.used = used /\ v1'.files = files /\ v1'.max = v6[r].quota.max
  <2> DEFINE p == [v6[r].quota EXCEPT !.used = used]
  <2>1. v1' = [p EXCEPT !.files = files]
    BY <1>1, <1>2 DEF Storage!Quota
  <2>2. used \in Int /\ files \in Int
    BY <1>4
  <2> HIDE DEF used, files
  <2>3. p \in Storage!Quota /\ p.used = used /\ p.max = v6[r].quota.max
    BY <1>2, <2>2 DEF Storage!Quota
  <2> HIDE DEF p
  <2> QED BY <2>1, <2>2, <2>3 DEF Storage!Quota
<1> HIDE DEF used, files
<1>6. ~v10 => Storage!Counted'
  <2> SUFFICES ASSUME ~v10 PROVE Storage!Counted'
    OBVIOUS
  <2>1. /\ v6[r].quota.files + (-1) = Storage!Cardinality(Storage!Active)
        /\ v6[r].quota.used + (-v6[r].row.size) = Storage!Cardinality(Storage!Bytes)
    BY <1>1, StorageAlone DEF Storage!Accounting, Storage!Behind, Storage!At, Storage!Counts
  <2>2. /\ Storage!Cardinality(Storage!Active) \in Nat
        /\ Storage!Cardinality(Storage!Bytes) \in Nat
    BY ActiveCounts, StorageCount
  <2>3. /\ used = Storage!Cardinality(Storage!Bytes)
        /\ files = Storage!Cardinality(Storage!Active)
    BY <1>2, <1>3, <1>4, <2>1, <2>2
  <2>4. Storage!Active' = Storage!Active /\ Storage!Bytes' = Storage!Bytes
    BY <1>1, CountStays
  <2>5. v1' # None
    BY <1>5, StorageMarks
  <2> QED BY <1>4, <1>5, <2>3, <2>4, <2>5 DEF Storage!Counted, Storage!Counts
<1>7. Storage!Fits(r)'
  BY <1>1, StorageGoes DEF Storage!Fits, Storage!Idle
<1> QED BY <1>1, <1>4, <1>5, <1>6, <1>7, SavingHas, StorageMoves

LEMMA StorageVersionQuota ==
    ASSUME Storage!StorageInv, NEW r \in Requests, Storage!VersionQuota(r)
    PROVE  Storage!StorageInv'
<1> USE DEF Storage!StorageInv
<1>1. /\ v6[r].op = "version" /\ v6[r].step = "quota" /\ v6[r] # Storage!Idle /\ ~Storage!Saving(r)
      /\ UNCHANGED <<v2, v3, v4, v5, v7, v8, v9, v10, v11>> /\ Storage!Goes(r, Storage!Idle)
      /\ v1' = [v6[r].quota EXCEPT !.used = @ + Storage!Grows(v6[r])]
  BY DEF Storage!VersionQuota, Storage!At, Storage!Idle, Storage!Saving
<1>2. /\ v6[r].row.size \in Nat /\ v6[r].size \in Nat /\ v6[r].quota \in Storage!Quota
      /\ v6[r].quota.used + Storage!Grows(v6[r]) <= v6[r].quota.max
      /\ Storage!Grows(v6[r]) \in Int
  BY <1>1, SlotOf, StorageMarks DEF Storage!VersionFits, Storage!Room, Storage!Row, Storage!Grows
<1>3. v6[r].quota.files \in Int /\ v6[r].quota.used \in Int /\ v6[r].quota.max \in Nat
  BY <1>2, QuotaIs
<1>4. /\ v1' \in Storage!Quota /\ v1'.used = v6[r].quota.used + Storage!Grows(v6[r])
      /\ v1'.files = v6[r].quota.files /\ v1'.max = v6[r].quota.max
  BY <1>1, <1>2, <1>3 DEF Storage!Quota
<1>5. ~v10 => Storage!Counted'
  <2> SUFFICES ASSUME ~v10 PROVE Storage!Counted'
    OBVIOUS
  <2>1. /\ v6[r].quota.files + 0 = Storage!Cardinality(Storage!Active)
        /\ v6[r].quota.used + Storage!Grows(v6[r]) = Storage!Cardinality(Storage!Bytes)
    BY <1>1, StorageAlone DEF Storage!Accounting, Storage!Behind, Storage!At, Storage!Counts
  <2>2. Storage!Active' = Storage!Active /\ Storage!Bytes' = Storage!Bytes
    BY <1>1, CountStays
  <2>3. v1' # None
    BY <1>4, StorageMarks
  <2> QED BY <1>2, <1>3, <1>4, <2>1, <2>2, <2>3 DEF Storage!Counted, Storage!Counts
<1>6. Storage!Fits(r)'
  BY <1>1, StorageGoes DEF Storage!Fits, Storage!Idle
<1> QED BY <1>1, <1>2, <1>4, <1>5, <1>6, SavingHas, StorageMoves

LEMMA StorageVersionReadQuota ==
    ASSUME Storage!StorageInv, NEW r \in Requests, Storage!VersionReadQuota(r)
    PROVE  Storage!StorageInv'
<1> USE DEF Storage!StorageInv
<1>1. /\ v6[r].op = "version" /\ v6[r].step = "read" /\ v6[r] # Storage!Idle /\ ~Storage!Saving(r)
      /\ UNCHANGED <<v1, v2, v3, v4, v5, v7, v8, v9, v10, v11>>
      /\ Storage!ReadQuota(r, v6[r], "check")
  BY DEF Storage!VersionReadQuota, Storage!At, Storage!Idle, Storage!Saving
<1>2. v6[r] \in Storage!Asking /\ Storage!VersionFits(r) /\ v6[r].content = 0
  BY <1>1, SlotOf DEF Storage!VersionFits
<1>3. PICK c \in Storage!Asking :
        /\ Storage!Goes(r, c) /\ c.op = v6[r].op /\ c.file = v6[r].file /\ c.row = v6[r].row
        /\ c.content = v6[r].content /\ c.size = v6[r].size
        /\ \/ v1 # None /\ c.step = "check" /\ c.quota = v1
           \/ v1 = None /\ c.step = "make" /\ c.next = "check"
  BY <1>1, <1>2, QuotaRead
<1>4. v6'[r] = c /\ c # Storage!Idle
  BY <1>1, <1>3, StorageGoes DEF Storage!Idle
<1>5. Storage!Fits(r)'
  <2>1. Storage!VersionFits(r)'
    BY <1>1, <1>2, <1>3, <1>4, QuotaIs DEF Storage!VersionFits, Storage!Room, Storage!Quota,
       Storage!Row
  <2> QED BY <1>3, <1>4, <2>1 DEF Storage!Fits, Storage!Asking, Storage!Quota, Storage!Row
<1>6. ~v10 => Storage!Accounting(r)'
  <2> SUFFICES ASSUME ~v10 PROVE Storage!Accounting(r)'
    OBVIOUS
  <2>1. Storage!Counted /\ v2[v6[r].file] = v6[r].row
    BY <1>1, StorageAlone DEF Storage!Accounting
  <2>2. v1 # None
    BY <1>2, <2>1, StorageMarks DEF Storage!Counted, Storage!Active, Storage!VersionFits
  <2>3. Storage!Counted'
    BY <1>1, <2>1, CountStays DEF Storage!Counted, Storage!Counts
  <2> QED BY <1>1, <1>3, <1>4, <2>1, <2>2, <2>3 DEF Storage!Accounting, Storage!Behind, Storage!At
<1>7. v1 # None => v1 \in Storage!Quota /\ v1.used <= v1.max
  BY DEF Storage!TypeOK, Storage!UsedWithinMax
<1> QED BY <1>1, <1>3, <1>4, <1>5, <1>6, <1>7, SavingHas, StorageMoves

\* A request begins with the row that is there.
LEMMA StorageReads ==
    ASSUME Storage!StorageInv, NEW r \in Requests, Storage!Starts(r),
           UNCHANGED <<v1, v2, v3, v4, v5, v7, v8, v9, v11>>, NEW c \in Storage!Asking,
           Storage!Goes(r, c), c.step = "read", c.content = 0,
           c.file \in StoredIds, v2[c.file] # None, c.row = v2[c.file],
           \/ c.op = "delete"
           \/ c.op = "version" /\ c.file \in Storage!Active /\ c.size \in FileSizes
    PROVE  Storage!StorageInv'
<1> USE DEF Storage!StorageInv
<1>1. DOMAIN v6' = Requests /\ v6'[r] = c /\ \A q \in Requests \ {r} : v6'[q] = v6[q]
  BY StorageGoes
<1>2. /\ v6[r] = Storage!Idle /\ v10' \in BOOLEAN /\ (v10 => v10')
      /\ ~v10' => Storage!Counted /\ \A q \in Requests \ {r} : v6[q] = Storage!Idle
  BY StorageBegins
<1>3. Storage!TypeOK' /\ Storage!UsedWithinMax'
  BY <1>1, <1>2 DEF Storage!TypeOK, Storage!UsedWithinMax, Storage!Quota, Storage!Row,
     Storage!Version
<1>4. Storage!CallsFit'
  <2>1. c.row \in Storage!Row /\ (c.op = "version" => c.row.status = "active")
    BY DEF Storage!TypeOK, Storage!Active
  <2>2. Storage!DeleteFits(r)' \/ Storage!VersionFits(r)'
    BY <1>1, <2>1 DEF Storage!DeleteFits, Storage!VersionFits, Storage!Row
  <2>3. Storage!Fits(r)'
    BY <1>1, <2>2 DEF Storage!Fits, Storage!Asking, Storage!Quota, Storage!Row
  <2> QED BY <2>3, SavingHas, SlotsKeep
<1>5. /\ Storage!ContentsApart' /\ Storage!ListedFits' /\ Storage!UploadsApart'
      /\ Storage!NumbersFit' /\ Storage!NextIsLatest' /\ Storage!LatestIsComing'
      /\ Storage!ActiveHasContent'
  BY <1>1, <1>2, SavingHas, StorageQuiet
<1>6. Storage!InTurn'
  <2>1. ~v10' => Storage!Counted'
    BY <1>2, CountStays DEF Storage!Counted, Storage!Counts
  <2>2. ~v10' => Storage!Accounting(r)'
    BY <1>1, <2>1 DEF Storage!Accounting, Storage!Behind, Storage!At
  <2>3. c # Storage!Idle
    BY DEF Storage!Idle
  <2> QED BY <1>2, <2>1, <2>2, <2>3, StorageTurn
<1> QED BY <1>3, <1>4, <1>5, <1>6

LEMMA StorageDeleteStart ==
    ASSUME Storage!StorageInv, NEW r \in Requests, Storage!DeleteStart(r)
    PROVE  Storage!StorageInv'
<1>1. /\ Storage!Starts(r) /\ UNCHANGED <<v1, v2, v3, v4, v5, v7, v8, v9, v11>>
  BY DEF Storage!DeleteStart
<1>2. PICK f \in StoredIds :
        /\ v2[f] # None
        /\ Storage!Goes(r, [Storage!Asked("delete", f, 0) EXCEPT !.row = v2[f]])
  BY DEF Storage!DeleteStart
<1> DEFINE c == [Storage!Asked("delete", f, 0) EXCEPT !.row = v2[f]]
<1>3. v2[f] \in Storage!Row
  BY <1>2 DEF Storage!StorageInv, Storage!TypeOK
<1>4. /\ c \in Storage!Asking /\ c.op = "delete" /\ c.step = "read" /\ c.content = 0
      /\ c.file = f /\ c.row = v2[f]
  BY <1>3 DEF Storage!Asked, Storage!Asking
<1>5. Storage!Goes(r, c)
  BY <1>2
<1> HIDE DEF c
<1> QED BY <1>1, <1>2, <1>4, <1>5, StorageReads

LEMMA StorageVersionStart ==
    ASSUME Storage!StorageInv, NEW r \in Requests, Storage!VersionStart(r)
    PROVE  Storage!StorageInv'
<1>1. /\ Storage!Starts(r) /\ UNCHANGED <<v1, v2, v3, v4, v5, v7, v8, v9, v11>>
  BY DEF Storage!VersionStart
<1>2. PICK f \in StoredIds, size \in FileSizes :
        /\ v2[f] # None /\ v2[f].status = "active"
        /\ Storage!Goes(r, [Storage!Asked("version", f, size) EXCEPT !.row = v2[f]])
  BY DEF Storage!VersionStart
<1> DEFINE c == [Storage!Asked("version", f, size) EXCEPT !.row = v2[f]]
<1>3. v2[f] \in Storage!Row /\ f \in Storage!Active /\ size \in Nat
  BY <1>2, StorageMarks DEF Storage!StorageInv, Storage!TypeOK, Storage!Active
<1>4. /\ c \in Storage!Asking /\ c.op = "version" /\ c.step = "read" /\ c.content = 0
      /\ c.file = f /\ c.row = v2[f] /\ c.size = size
  BY <1>3 DEF Storage!Asked, Storage!Asking
<1>5. Storage!Goes(r, c)
  BY <1>2
<1> HIDE DEF c
<1> QED BY <1>1, <1>2, <1>3, <1>4, <1>5, StorageReads

\* The cleanup finds a deleted file.
LEMMA StorageList ==
    ASSUME Storage!StorageInv, NEW f \in StoredIds, Storage!List(f)
    PROVE  Storage!StorageInv'
<1> USE DEF Storage!StorageInv
<1> DEFINE item == [step |-> "unlink", content |-> v2[f].content]
<1>1. /\ UNCHANGED <<v1, v2, v3, v4, v6, v7, v8, v9, v10>> /\ v5' = [v5 EXCEPT ![f] = item]
      /\ v2[f] # None /\ v2[f].status = "deleted" /\ v11' \in {v11, v11 \cup {f}}
      /\ f \notin v11' => \A q \in Requests : v6[q].op = "version" => v6[q].file # f
  BY DEF Storage!List
<1>2. item \in Storage!Listed /\ item # None /\ item.content = v2[f].content
  BY <1>1, StorageMarks DEF Storage!TypeOK, Storage!Row, Storage!Listed
<1> HIDE DEF item
<1>3. /\ v5'[f] = item /\ \A h \in StoredIds \ {f} : v5'[h] = v5[h]
      /\ v5' \in [StoredIds -> Storage!Listed \cup {None}] /\ v11' \subseteq StoredIds
  BY <1>1, <1>2, SavingHas
<1>4. Storage!TypeOK' /\ Storage!UsedWithinMax'
  BY <1>1, <1>3 DEF Storage!TypeOK, Storage!UsedWithinMax, Storage!Quota, Storage!Row,
     Storage!Version, Storage!Listed
<1>5. Storage!CallsFit'
  BY <1>1, SavingHas, SlotKeeps DEF Storage!CallsFit
<1>6. /\ Storage!ContentsApart' /\ Storage!ListedFits' /\ Storage!UploadsApart'
      /\ Storage!NumbersFit' /\ Storage!NextIsLatest' /\ Storage!LatestIsComing'
      /\ Storage!ActiveHasContent'
  <2>1. ASSUME NEW g \in StoredIds, v5'[g] # None
        PROVE  \/ v5[g] # None /\ v5'[g].content = v5[g].content
               \/ /\ v2[g] # None /\ v2[g].status = "deleted" /\ v5'[g].content = v2[g].content
                  /\ g \notin v11' =>
                       \A q \in Requests : Storage!On(q, g)' => v6'[q].op # "version"
    <3>1. CASE g = f
      BY <1>1, <1>2, <1>3, <3>1 DEF Storage!On
    <3>2. CASE g # f
      BY <1>3, <2>1, <3>2
    <3> QED BY <3>1, <3>2
  <2>2. v4 \subseteq v4' /\ v8' \in {v8, v8 + 1} /\ UNCHANGED <<v2, v3>> /\ v11 \subseteq v11'
        /\ \A q \in Requests : v6'[q] = v6[q]
    BY <1>1
  <2>3. v9' = 0 => v9 = 0
    BY <1>1
  <2> QED BY <2>1, <2>2, <2>3, StorageRests
<1>7. Storage!InTurn'
  <2>1. ASSUME NEW r \in Requests, Storage!Accounting(r) PROVE Storage!Accounting(r)'
    BY <1>1, <2>1, CountStays DEF Storage!Accounting, Storage!Behind, Storage!At,
       Storage!Counted, Storage!Counts, Storage!Grows
  <2>2. Storage!Counted => Storage!Counted'
    BY <1>1, CountStays DEF Storage!Counted, Storage!Counts
  <2>3. ~v10 => v11' = {}
    <3> SUFFICES ASSUME ~v10 PROVE v11' = {}
      OBVIOUS
    <3>1. ASSUME NEW q \in Requests, v6[q].op = "version" PROVE v6[q].file # f
      <4>1. v6[q] # Storage!Idle
        BY <3>1 DEF Storage!Idle
      <4>2. Storage!Accounting(q) /\ Storage!VersionFits(q)
        BY <3>1, <4>1, StorageAlone, SlotOf
      <4>3. v6[q].step # "quota" => v2[v6[q].file] = v6[q].row
        BY <3>1, <4>2 DEF Storage!Accounting
      <4>4. v6[q].step = "quota" => v6[q].file \in Storage!Active
        BY <3>1, <4>2 DEF Storage!Accounting, Storage!At
      <4>5. v6[q].row.status = "active"
        BY <4>2 DEF Storage!VersionFits
      <4> QED BY <1>1, <4>3, <4>4, <4>5 DEF Storage!Active
    <3>2. v11' = v11
      BY <3>1 DEF Storage!List
    <3> QED BY <3>2 DEF Storage!InTurn
  <2> QED BY <1>1, <2>1, <2>2, <2>3 DEF Storage!InTurn, Storage!Quiet, Storage!Idle
<1> QED BY <1>4, <1>5, <1>6, <1>7

\* How the counts move when one file changes.
LEMMA CountMoves ==
    ASSUME NEW a, NEW b, IsFiniteSet(a), IsFiniteSet(b), NEW p, NEW q,
           \A f \in a : p[f].size \in Nat, \A f \in b : q[f].size \in Nat,
           NEW g, a \ {g} = b \ {g}, \A f \in a \ {g} : q[f] = p[f]
    PROVE  /\ g \in a /\ g \in b =>
                /\ Cardinality(b) = Cardinality(a)
                /\ Cardinality(BytesOf(q, b)) = Cardinality(BytesOf(p, a)) + (q[g].size - p[g].size)
           /\ g \notin a /\ g \in b =>
                /\ Cardinality(b) = Cardinality(a) + 1
                /\ Cardinality(BytesOf(q, b)) = Cardinality(BytesOf(p, a)) + q[g].size
           /\ g \in a /\ g \notin b =>
                /\ Cardinality(b) = Cardinality(a) - 1
                /\ Cardinality(BytesOf(q, b)) = Cardinality(BytesOf(p, a)) - p[g].size
           /\ g \notin a /\ g \notin b =>
                /\ Cardinality(b) = Cardinality(a)
                /\ Cardinality(BytesOf(q, b)) = Cardinality(BytesOf(p, a))
<1>1. BytesOf(q, b \ {g}) = BytesOf(p, a \ {g})
  BY DEF BytesOf
<1>2. g \in a => /\ Cardinality(a) = Cardinality(a \ {g}) + 1
                 /\ Cardinality(BytesOf(p, a)) = Cardinality(BytesOf(p, a \ {g})) + p[g].size
                 /\ Cardinality(a \ {g}) \in Nat /\ Cardinality(BytesOf(p, a \ {g})) \in Nat
                 /\ p[g].size \in Nat
  BY FileCounts
<1>3. g \in b => /\ Cardinality(b) = Cardinality(b \ {g}) + 1
                 /\ Cardinality(BytesOf(q, b)) = Cardinality(BytesOf(q, b \ {g})) + q[g].size
                 /\ Cardinality(b \ {g}) \in Nat /\ Cardinality(BytesOf(q, b \ {g})) \in Nat
                 /\ q[g].size \in Nat
  BY FileCounts
<1>4. g \notin a => a \ {g} = a
  OBVIOUS
<1>5. g \notin b => b \ {g} = b
  OBVIOUS
<1>6. CASE g \in a /\ g \in b
  BY <1>1, <1>2, <1>3, <1>6
<1>7. CASE g \notin a /\ g \in b
  BY <1>1, <1>3, <1>4, <1>7
<1>8. CASE g \in a /\ g \notin b
  <2>1. /\ Cardinality(a) = Cardinality(b) + 1
        /\ Cardinality(BytesOf(p, a)) = Cardinality(BytesOf(q, b)) + p[g].size
        /\ Cardinality(b) \in Nat /\ Cardinality(BytesOf(q, b)) \in Nat /\ p[g].size \in Nat
    BY <1>1, <1>2, <1>5, <1>8
  <2> QED BY <1>8, <2>1
<1>9. CASE g \notin a /\ g \notin b
  <2>1. b = a
    BY <1>4, <1>5, <1>9
  <2>2. BytesOf(q, b) = BytesOf(p, a)
    BY <1>1, <1>4, <1>5, <1>9
  <2> QED BY <1>9, <2>1, <2>2
<1> QED BY <1>6, <1>7, <1>8, <1>9

\* The active ones of some rows are finitely many, of some size.
LEMMA ActiveRows ==
    ASSUME NEW file, \A f \in StoredIds : file[f] # None => file[f] \in Storage!Row,
           NEW active,
           active = {f \in StoredIds : file[f] # None /\ file[f].status = "active"}
    PROVE  IsFiniteSet(active) /\ \A f \in active : file[f].size \in Nat
<1>1. IsFiniteSet(active)
  BY StorageMarks, FS_Subset
<1>2. \A f \in active : file[f].size \in Nat
  BY StorageMarks DEF Storage!Row
<1> QED BY <1>1, <1>2

LEMMA CountChanges ==
    ASSUME Storage!TypeOK, Storage!TypeOK', NEW g \in StoredIds,
           \A f \in StoredIds \ {g} : v2'[f] = v2[f]
    PROVE  /\ g \in Storage!Active /\ g \in Storage!Active' =>
                /\ Storage!Cardinality(Storage!Active') = Storage!Cardinality(Storage!Active)
                /\ Storage!Cardinality(Storage!Bytes')
                     = Storage!Cardinality(Storage!Bytes) + (v2'[g].size - v2[g].size)
           /\ g \notin Storage!Active /\ g \in Storage!Active' =>
                /\ Storage!Cardinality(Storage!Active') = Storage!Cardinality(Storage!Active) + 1
                /\ Storage!Cardinality(Storage!Bytes')
                     = Storage!Cardinality(Storage!Bytes) + v2'[g].size
           /\ g \in Storage!Active /\ g \notin Storage!Active' =>
                /\ Storage!Cardinality(Storage!Active') = Storage!Cardinality(Storage!Active) - 1
                /\ Storage!Cardinality(Storage!Bytes')
                     = Storage!Cardinality(Storage!Bytes) - v2[g].size
           /\ g \notin Storage!Active /\ g \notin Storage!Active' =>
                /\ Storage!Cardinality(Storage!Active') = Storage!Cardinality(Storage!Active)
                /\ Storage!Cardinality(Storage!Bytes') = Storage!Cardinality(Storage!Bytes)
<1>1. IsFiniteSet(Storage!Active) /\ \A f \in Storage!Active : v2[f].size \in Nat
  BY ActiveRows DEF Storage!TypeOK, Storage!Active
<1>2. IsFiniteSet(Storage!Active') /\ \A f \in Storage!Active' : v2'[f].size \in Nat
  <2>1. \A f \in StoredIds : v2'[f] # None => v2'[f] \in Storage!Row
    BY DEF Storage!TypeOK, Storage!Row
  <2>2. Storage!Active' = {f \in StoredIds : v2'[f] # None /\ v2'[f].status = "active"}
    BY DEF Storage!Active
  <2> QED BY <2>1, <2>2, ActiveRows
<1>3. Storage!Active \ {g} = Storage!Active' \ {g}
      /\ \A f \in Storage!Active \ {g} : v2'[f] = v2[f]
  BY DEF Storage!Active
<1>4. Storage!Bytes = BytesOf(v2, Storage!Active) /\ Storage!Bytes' = BytesOf(v2', Storage!Active')
  BY DEF Storage!Bytes, BytesOf
<1>5. /\ g \in Storage!Active /\ g \in Storage!Active' =>
           /\ Cardinality(Storage!Active') = Cardinality(Storage!Active)
           /\ Cardinality(BytesOf(v2', Storage!Active'))
                = Cardinality(BytesOf(v2, Storage!Active)) + (v2'[g].size - v2[g].size)
      /\ g \notin Storage!Active /\ g \in Storage!Active' =>
           /\ Cardinality(Storage!Active') = Cardinality(Storage!Active) + 1
           /\ Cardinality(BytesOf(v2', Storage!Active'))
                = Cardinality(BytesOf(v2, Storage!Active)) + v2'[g].size
      /\ g \in Storage!Active /\ g \notin Storage!Active' =>
           /\ Cardinality(Storage!Active') = Cardinality(Storage!Active) - 1
           /\ Cardinality(BytesOf(v2', Storage!Active'))
                = Cardinality(BytesOf(v2, Storage!Active)) - v2[g].size
      /\ g \notin Storage!Active /\ g \notin Storage!Active' =>
           /\ Cardinality(Storage!Active') = Cardinality(Storage!Active)
           /\ Cardinality(BytesOf(v2', Storage!Active')) = Cardinality(BytesOf(v2, Storage!Active))
  BY <1>1, <1>2, <1>3, CountMoves
<1> QED BY <1>4, <1>5, StorageCount

\* The version a request adds is the highest, and no other request saves one.
LEMMA VersionIsNext ==
    ASSUME Storage!StorageInv, NEW r \in Requests, v6[r] # Storage!Idle, v6[r].op = "version",
           NEW f \in StoredIds, v6[r].file = f, NEW n, n = v6[r].row.version + 1,
           n \notin Storage!Taken(f), f \notin v11
    PROVE  /\ n \in Nat /\ n >= 2 /\ 2..(n - 1) \subseteq Storage!Taken(f)
           /\ \A m \in Storage!Known(f) \cup Storage!Taken(f) : m <= n - 1
           /\ \A q \in Requests : ~(Storage!Saving(q) /\ v6[q].file = f)
<1> USE DEF Storage!StorageInv
<1>1. v6[r].row \in Storage!Row /\ v6[r].row.version \in Nat \ {0}
  BY SlotOf DEF Storage!VersionFits, Storage!Row
<1>2. Storage!Live(f) /\ v6[r].row.version \in Storage!Known(f)
  BY <1>1, StorageMarks DEF Storage!Live, Storage!Known, Storage!On
<1>3. n \in Nat /\ n >= 2 /\ n - 1 = v6[r].row.version
  BY <1>1
<1>4. \A m \in Storage!Known(f) \cup Storage!Taken(f) : 2..m \subseteq Storage!Taken(f)
  BY <1>2 DEF Storage!NumbersFit
<1>5. ASSUME NEW q \in Requests, v6[q] # Storage!Idle, v6[q].row # None
      PROVE  v6[q].row \in Storage!Row /\ v6[q].row.version \in Nat \ {0}
  BY <1>5, SlotOf DEF Storage!UploadFits, Storage!DeleteFits, Storage!VersionFits, Storage!Row,
     Storage!Asking
<1>6. v2[f] # None => v2[f].version \in Nat
  BY DEF Storage!TypeOK, Storage!Row
<1>7. \A m \in Storage!Known(f) : m \in Nat
  <2>1. \A q \in Requests : Storage!On(q, f) /\ v6[q].row # None => v6[q].row.version \in Nat
    BY <1>5 DEF Storage!On
  <2> QED BY <1>6, <2>1 DEF Storage!Known
<1>8. \A m \in Storage!Taken(f) : m \in Nat
  BY NumbersAre
<1>9. ASSUME NEW m \in Storage!Known(f) \cup Storage!Taken(f) PROVE m <= n - 1
  <2>1. m \in Nat /\ 2..m \subseteq Storage!Taken(f)
    BY <1>4, <1>7, <1>8
  <2>2. m >= n => n \in 2..m
    BY <1>3, <2>1
  <2> QED BY <1>3, <2>1, <2>2
<1>10. ASSUME NEW q \in Requests, Storage!Saving(q), v6[q].file = f PROVE FALSE
  <2>1. v6[q].row.version + 1 \in Storage!Taken(f)
        /\ \A m \in Storage!Known(f) : m <= v6[q].row.version
    BY <1>10 DEF Storage!NextIsLatest
  <2>2. v6[r].row.version <= v6[q].row.version /\ v6[q].row.version + 1 <= n - 1
    BY <1>2, <1>9, <2>1
  <2>3. v6[q] # Storage!Idle
    BY <1>10 DEF Storage!Saving, Storage!At, Storage!Idle
  <2>4. v6[q].row.version \in Nat
    BY <1>10, <2>3, SlotOf DEF Storage!VersionFits, Storage!Row, Storage!Saving, Storage!At
  <2> QED BY <1>1, <1>3, <2>2, <2>4
<1> QED BY <1>2, <1>3, <1>4, <1>9, <1>10

LEMMA StorageVersionRow ==
    ASSUME Storage!StorageInv, NEW r \in Requests, Storage!VersionRow(r)
    PROVE  Storage!StorageInv'
<1> USE DEF Storage!StorageInv
<1>1. /\ v6[r].op = "version" /\ v6[r].step = "check" /\ v6[r] # Storage!Idle /\ ~Storage!Saving(r)
      /\ UNCHANGED <<v1, v2, v5, v7, v9, v10, v11>>
  BY DEF Storage!VersionRow, Storage!At, Storage!Idle, Storage!Saving
<1>2. v6[r] \in Storage!Asking /\ Storage!VersionFits(r) /\ v6[r].content = 0
      /\ v6[r].row \in Storage!Row /\ v6[r].row.status = "active" /\ v6[r].size \in FileSizes
      /\ v6[r].quota \in Storage!Quota /\ v6[r].quota.used + 0 <= v6[r].quota.max
  BY <1>1, SlotOf DEF Storage!VersionFits, Storage!Room
<1>3. PICK f \in StoredIds : v6[r].file = f
  BY <1>2 DEF Storage!VersionFits
<1> DEFINE n == v6[r].row.version + 1
           k == v8 + 1
           v == [file |-> f, number |-> n, size |-> v6[r].size, content |-> k]
<1>4. \/ /\ Storage!Goes(r, Storage!Idle) /\ v3' = v3 /\ v4 \subseteq v4'
         /\ v4' \subseteq v4 \cup {v8'}
         /\ (v8' = v8 /\ v4' = v4) \/ (v8' = k /\ v8 < MaxWrites)
      \/ /\ v8 < MaxWrites /\ v8' = k /\ v4' = v4 \cup {k} /\ v2[f] # None
         /\ Storage!VersionAccepted(v6[r])
         /\ \A w \in v3 : ~(w.file = f /\ w.number = n)
         /\ v3' = v3 \cup {v}
         /\ Storage!Goes(r, [Storage!To(v6[r], "row") EXCEPT !.content = k])
  BY <1>3 DEF Storage!VersionRow
<1>5. CASE /\ Storage!Goes(r, Storage!Idle) /\ v3' = v3 /\ v4 \subseteq v4'
           /\ v4' \subseteq v4 \cup {v8'}
           /\ (v8' = v8 /\ v4' = v4) \/ (v8' = k /\ v8 < MaxWrites)
  <2>1. v8' \in {v8, v8 + 1} /\ v8' \in 0..MaxWrites /\ v4' \subseteq 1..MaxWrites
    BY <1>5, SavingHas, StorageMarks
  <2>2. Storage!Fits(r)'
    BY <1>5, StorageGoes DEF Storage!Fits, Storage!Idle
  <2>3. ~v10 => Storage!Counted'
    BY <1>1, StorageAlone, CountStays DEF Storage!Accounting, Storage!Counted, Storage!Counts
  <2>4. v1' # None => v1' \in Storage!Quota /\ v1'.used <= v1'.max
    BY <1>1 DEF Storage!TypeOK, Storage!UsedWithinMax
  <2> QED BY <1>1, <1>5, <2>1, <2>2, <2>3, <2>4, StorageMoves
<1>6. CASE /\ v8 < MaxWrites /\ v8' = k /\ v4' = v4 \cup {k} /\ v2[f] # None
           /\ Storage!VersionAccepted(v6[r])
           /\ \A w \in v3 : ~(w.file = f /\ w.number = n)
           /\ v3' = v3 \cup {v}
           /\ Storage!Goes(r, [Storage!To(v6[r], "row") EXCEPT !.content = k])
  <2> DEFINE c == [Storage!To(v6[r], "row") EXCEPT !.content = k]
  <2>1. k \in 1..MaxWrites /\ k \in 0..MaxWrites /\ k \in Nat /\ v8 <= k
    BY <1>6, SavingHas, StorageMarks
  <2>2. /\ c \in Storage!Asking /\ c.op = "version" /\ c.step = "row" /\ c.content = k
        /\ c.file = f /\ c.row = v6[r].row /\ c.size = v6[r].size /\ c.quota = v6[r].quota
    BY <1>1, <1>2, <1>3, <2>1 DEF Storage!To, Storage!Asking
  <2>3. Storage!Goes(r, c)
    BY <1>6
  <2> HIDE DEF c
  <2>4. DOMAIN v6' = Requests /\ v6'[r] = c /\ \A q \in Requests \ {r} : v6'[q] = v6[q]
    BY <2>3, StorageGoes
  <2>5. n \notin Storage!Taken(f)
    BY <1>6 DEF Storage!Taken
  <2>6. /\ n \in Nat /\ n >= 2
        /\ f \notin v11 =>
             /\ 2..(n - 1) \subseteq Storage!Taken(f)
             /\ \A m \in Storage!Known(f) \cup Storage!Taken(f) : m <= n - 1
             /\ \A q \in Requests : ~(Storage!Saving(q) /\ v6[q].file = f)
    <3>1. n \in Nat /\ n >= 2
      BY <1>2 DEF Storage!Row
    <3> QED BY <1>1, <1>3, <2>5, <3>1, VersionIsNext
  <2>7. v \in Storage!Version /\ v.file = f /\ v.number = n /\ v.content = k
    BY <1>2, <2>1, <2>6 DEF Storage!Version
  <2> HIDE DEF v
  <2>8. v.number # 1 /\ v.number \in Nat \ {0}
    BY <2>6, <2>7
  <2>9. n - 1 = v6[r].row.version
    BY <1>2, <2>6 DEF Storage!Row
  <2>10. v6[r].row.version + 1 = n
    OBVIOUS
  <2> HIDE DEF n, k
  <2>11. ASSUME NEW h \in StoredIds
         PROVE  /\ Storage!Known(h)' = Storage!Known(h)
                /\ Storage!Taken(h)' = Storage!Taken(h) \cup (IF h = f THEN {n} ELSE {})
                /\ Storage!Live(h)' => Storage!Live(h)
    <3>1. \A q \in Requests : /\ Storage!On(q, h)' <=> Storage!On(q, h)
                              /\ v6'[q].op = v6[q].op /\ v6'[q].row = v6[q].row
      BY <1>1, <1>3, <2>2, <2>4 DEF Storage!On, Storage!Idle
    <3>2. Storage!Known(h)' = Storage!Known(h)
      BY <1>1, <3>1 DEF Storage!Known
    <3>3. Storage!Taken(h)' = Storage!Taken(h) \cup (IF h = f THEN {n} ELSE {})
      BY <1>6, <2>7 DEF Storage!Taken
    <3>4. Storage!Live(h)' => Storage!Live(h)
      BY <1>1, <3>1 DEF Storage!Live, Storage!Active
    <3> QED BY <3>2, <3>3, <3>4
  <2>12. Storage!TypeOK' /\ Storage!UsedWithinMax'
    <3>1. v3' \subseteq Storage!Version
      BY <1>6, <2>7 DEF Storage!TypeOK
    <3>2. \A u, w \in v3' : (u.file = w.file /\ u.number = w.number) => u = w
      BY <1>6, <2>7 DEF Storage!TypeOK
    <3>3. v4' \subseteq 1..MaxWrites /\ v8' \in 0..MaxWrites
      BY <1>6, <2>1, SavingHas
    <3> QED BY <1>1, <2>4, <3>1, <3>2, <3>3 DEF Storage!TypeOK, Storage!UsedWithinMax,
            Storage!Quota, Storage!Row, Storage!Version
  <2>13. Storage!CallsFit'
    <3>1. Storage!Grows(v6[r]) \in Int
      <4>1. v6[r].size \in Nat /\ v6[r].row.size \in Nat
        BY <1>2, StorageMarks DEF Storage!Row
      <4> QED BY <4>1 DEF Storage!Grows
    <3>2. v6[r].quota.used \in Int /\ v6[r].quota.max \in Nat
      BY <1>2, QuotaIs
    <3>3. v6[r].quota.used + Storage!Grows(v6[r]) <= v6[r].quota.max
      BY <1>2, <1>6, <3>1, <3>2 DEF Storage!VersionAccepted
    <3>4. k \in 1..v8'
      BY <1>6, <2>1, SavingHas DEF k
    <3>5. Storage!VersionFits(r)'
      BY <1>2, <1>6, <2>2, <2>4, <3>3, <3>4
      DEF Storage!VersionFits, Storage!Written, Storage!Room, Storage!Grows, Storage!Quota,
          Storage!Row
    <3>6. Storage!Fits(r)'
      BY <2>2, <2>4, <3>5 DEF Storage!Fits, Storage!Asking, Storage!Quota, Storage!Row
    <3>7. \A q \in Requests \ {r} :
            Storage!Saving(q) /\ v6[q].file \notin v11 => v6[q].content \in v4'
      BY <1>6, SavingHas
    <3> QED BY <1>1, <1>6, <2>1, <2>3, <3>6, <3>7, SlotsKeep
  <2>14. Storage!ContentsApart'
    <3>1. ASSUME NEW h \in StoredIds, NEW j \in 1..MaxWrites, Storage!Mentions(h, j)',
                 ~(h = f /\ j = k)
          PROVE  Storage!Mentions(h, j)
      <4>1. \A q \in Requests : /\ Storage!On(q, h)' <=> Storage!On(q, h)
                                /\ v6'[q].row = v6[q].row
                                /\ v6'[q].content = v6[q].content \/ (q = r /\ v6'[q].content = k)
        BY <1>1, <1>3, <2>2, <2>4 DEF Storage!On, Storage!Idle
      <4>2. Storage!On(r, h) => h = f
        BY <1>3 DEF Storage!On
      <4> QED BY <1>1, <1>6, <2>7, <3>1, <4>1, <4>2 DEF Storage!Mentions
    <3>2. v8' \in {v8, v8 + 1} /\ v8' = v8 + 1 /\ k = v8'
      BY <1>6 DEF k
    <3> QED BY <3>1, <3>2, ContentsStay
  <2>15. Storage!ListedFits'
    BY <1>1, <1>3, <2>2, <2>4 DEF Storage!ListedFits, Storage!On, Storage!Idle
  <2>16. Storage!UploadsApart'
    BY <1>1, <1>6, <2>2, <2>4, <2>8 DEF Storage!UploadsApart, Storage!On
  <2>17. Storage!NumbersFit'
    <3>1. ASSUME NEW h \in StoredIds \ v11, Storage!Live(h)',
                 NEW m \in Storage!Known(h)' \cup Storage!Taken(h)'
          PROVE  2..m \subseteq Storage!Taken(h)'
      <4>1. CASE m \in Storage!Known(h) \cup Storage!Taken(h)
        <5>1. 2..m \subseteq Storage!Taken(h)
          BY <2>11, <3>1, <4>1 DEF Storage!NumbersFit
        <5> QED BY <2>11, <5>1
      <4>2. CASE h = f /\ m = n
        <5>1. \A i \in 2..n : i \in 2..(n - 1) \/ i = n
          BY <2>6
        <5> QED BY <2>6, <2>11, <4>2, <5>1
      <4> QED BY <2>11, <3>1, <4>1, <4>2
    <3> QED BY <1>1, <3>1 DEF Storage!NumbersFit
  <2>18. Storage!NextIsLatest'
    <3>1. \A q \in Requests \ {r} : Storage!Saving(q)' /\ v6'[q].file \notin v11 =>
            Storage!Saving(q) /\ v6[q].file # f /\ v6'[q] = v6[q]
      BY <2>4, <2>6 DEF Storage!Saving, Storage!At
    <3>2. ASSUME NEW q \in Requests \ {r}, Storage!Saving(q)', v6'[q].file \notin v11
          PROVE  /\ v6'[q].row.version + 1 \in Storage!Taken(v6[q].file)'
                 /\ \A m \in Storage!Known(v6[q].file)' : m <= v6'[q].row.version
                 /\ \A m \in Storage!Taken(v6[q].file)' : m <= v6'[q].row.version + 1
      <4>1. PICK h \in StoredIds : h = v6[q].file
        BY <3>1, <3>2, SlotOf DEF Storage!Saving, Storage!At, Storage!VersionFits, Storage!Idle
      <4>2. h # f /\ Storage!Known(h)' = Storage!Known(h) /\ Storage!Taken(h)' = Storage!Taken(h)
        BY <2>11, <3>1, <3>2, <4>1
      <4>3. /\ v6[q].row.version + 1 \in Storage!Taken(h)
            /\ \A m \in Storage!Known(h) : m <= v6[q].row.version
            /\ \A m \in Storage!Taken(h) : m <= v6[q].row.version + 1
        BY <3>1, <3>2, <4>1 DEF Storage!NextIsLatest
      <4>4. v6'[q] = v6[q] /\ h = v6'[q].file
        BY <2>4, <4>1
      <4> QED BY <4>2, <4>3, <4>4
    <3>3. f \notin v11 =>
            /\ n \in Storage!Taken(f)' /\ \A m \in Storage!Known(f)' : m <= n - 1
            /\ \A m \in Storage!Taken(f)' : m <= n
      <4> SUFFICES ASSUME f \notin v11
                   PROVE  /\ n \in Storage!Taken(f)' /\ \A m \in Storage!Known(f)' : m <= n - 1
                          /\ \A m \in Storage!Taken(f)' : m <= n
        OBVIOUS
      <4>1. \A m \in Storage!Taken(f) : m \in Nat /\ m <= n - 1
        BY <2>6, NumbersAre
      <4>2. \A m \in Storage!Taken(f) : m <= n
        BY <2>6, <4>1
      <4> QED BY <2>6, <2>11, <4>2
    <3>4. ASSUME NEW q \in Requests, Storage!Saving(q)', v6'[q].file \notin v11
          PROVE  /\ v6'[q].row.version + 1 \in Storage!Taken(v6[q].file)'
                 /\ \A m \in Storage!Known(v6[q].file)' : m <= v6'[q].row.version
                 /\ \A m \in Storage!Taken(v6[q].file)' : m <= v6'[q].row.version + 1
      <4>1. CASE q = r
        <5>1. v6'[q].row.version = n - 1 /\ v6'[q].row.version + 1 = n /\ v6'[q].file = f
          BY <2>2, <2>4, <2>9, <2>10, <4>1
        <5> QED BY <3>3, <3>4, <5>1
      <4>2. CASE q # r
        BY <3>2, <3>4, <4>2
      <4> QED BY <4>1, <4>2
    <3>5. \A p, q \in Requests :
            Storage!Saving(p)' /\ Storage!Saving(q)' /\ v6'[p].file = v6'[q].file
                /\ v6'[p].file \notin v11 => p = q
      BY <2>2, <2>4, <3>1 DEF Storage!NextIsLatest, Storage!Saving
    <3> QED BY <1>1, <3>4, <3>5 DEF Storage!NextIsLatest
  <2>19. Storage!LatestIsComing'
    BY <1>1, <1>6, <2>2, <2>4, <2>7 DEF Storage!LatestIsComing, Storage!Active, Storage!Saving,
       Storage!At
  <2>20. Storage!ActiveHasContent'
    BY <1>1, <1>6 DEF Storage!ActiveHasContent, Storage!Active
  <2>21. Storage!InTurn'
    <3>1. ~v10 => /\ Storage!Counted /\ \A q \in Requests \ {r} : v6[q] = Storage!Idle
                  /\ v2[f] = v6[r].row /\ v1 # None /\ v6[r].quota = v1
      BY <1>1, <1>3, StorageAlone DEF Storage!Accounting
    <3>2. ~v10 => Storage!Counted'
      BY <1>1, <3>1, CountStays DEF Storage!Counted, Storage!Counts
    <3>3. ~v10 => Storage!Accounting(r)'
      BY <1>1, <2>2, <2>4, <3>1, <3>2 DEF Storage!Accounting, Storage!Behind, Storage!At
    <3>4. c # Storage!Idle
      BY <2>2 DEF Storage!Idle
    <3> QED BY <1>1, <2>3, <3>1, <3>2, <3>3, <3>4, StorageTurn
  <2> QED BY <2>12, <2>13, <2>14, <2>15, <2>16, <2>17, <2>18, <2>19, <2>20, <2>21
<1> QED BY <1>4, <1>5, <1>6

LEMMA StorageVersionFile ==
    ASSUME Storage!StorageInv, NEW r \in Requests, Storage!VersionFile(r)
    PROVE  Storage!StorageInv'
<1> USE DEF Storage!StorageInv
<1>1. /\ v6[r].op = "version" /\ v6[r].step = "row" /\ v6[r] # Storage!Idle /\ Storage!Saving(r)
      /\ UNCHANGED <<v1, v3, v4, v5, v7, v8, v9, v10, v11>>
  BY DEF Storage!VersionFile, Storage!At, Storage!Idle, Storage!Saving
<1>2. /\ v6[r] \in Storage!Asking /\ v6[r].row \in Storage!Row /\ v6[r].row.status = "active"
      /\ v6[r].size \in FileSizes /\ Storage!Written(v6[r]) /\ (v6[r].file \notin v11 => v6[r].content \in v4)
      /\ Storage!Room(v6[r].quota, Storage!Grows(v6[r])) /\ v6[r].content \in 1..MaxWrites
      /\ v6[r].size \in Nat /\ v6[r].row.size \in Nat
  <2>1. Storage!VersionFits(r) /\ v6[r] \in Storage!Asking
    BY <1>1, SlotOf
  <2>2. v6[r].content \in 1..MaxWrites
    BY <1>1, <2>1, SavingHas, StorageMarks DEF Storage!VersionFits, Storage!Written
  <2>3. v6[r].size \in Nat /\ v6[r].row.size \in Nat
    BY <2>1, StorageMarks DEF Storage!VersionFits, Storage!Row
  <2> QED BY <1>1, <2>1, <2>2, <2>3 DEF Storage!VersionFits
<1>3. PICK f \in StoredIds : v6[r].file = f
  BY <1>1, SlotOf DEF Storage!VersionFits
<1> DEFINE n == v6[r].row.version + 1
           row == [status |-> v6[r].row.status, size |-> v6[r].size, version |-> n,
                   content |-> v6[r].content]
           c == IF Storage!Grows(v6[r]) = 0 THEN Storage!Idle ELSE Storage!To(v6[r], "quota")
<1>4. v2' = [v2 EXCEPT ![f] = row] /\ Storage!Goes(r, c)
  BY <1>3 DEF Storage!VersionFile
<1>5. row \in Storage!Row /\ row.status = "active" /\ row.size = v6[r].size /\ row.version = n
      /\ row.content = v6[r].content /\ row # None /\ n \in Nat /\ n - 1 = v6[r].row.version
  BY <1>2, StorageMarks DEF Storage!Row
<1>6. \/ c = Storage!Idle /\ Storage!Grows(v6[r]) = 0
      \/ /\ c \in Storage!Asking /\ c.op = "version" /\ c.step = "quota" /\ c.file = f
         /\ c.row = v6[r].row /\ c.size = v6[r].size /\ c.quota = v6[r].quota
         /\ c.content = v6[r].content /\ c # Storage!Idle
  BY <1>1, <1>2, <1>3 DEF Storage!To, Storage!Asking, Storage!Idle
<1> HIDE DEF row, c
<1>7. DOMAIN v6' = Requests /\ v6'[r] = c /\ \A q \in Requests \ {r} : v6'[q] = v6[q]
  BY <1>4, StorageGoes
<1>8. /\ DOMAIN v2' = StoredIds /\ v2'[f] = row
      /\ \A h \in StoredIds \ {f} : v2'[h] = v2[h]
  BY <1>4 DEF Storage!TypeOK
<1>9. f \notin v11 =>
        /\ n \in Storage!Taken(f) /\ \A m \in Storage!Taken(f) : m <= n
        /\ \A q \in Requests : Storage!Saving(q) /\ v6[q].file = f => q = r
  BY <1>1, <1>3 DEF Storage!NextIsLatest
<1> HIDE DEF n
<1>10. /\ f \in Storage!Active'
       /\ \A h \in StoredIds \ {f} : h \in Storage!Active' <=> h \in Storage!Active
  BY <1>5, <1>8 DEF Storage!Active
<1>11. ASSUME NEW h \in StoredIds, NEW q \in Requests, Storage!On(q, h)'
       PROVE  /\ Storage!On(q, h) /\ v6'[q].op = v6[q].op /\ v6'[q].row = v6[q].row
              /\ v6'[q].content = v6[q].content
  BY <1>1, <1>3, <1>6, <1>7, <1>11 DEF Storage!On
<1>12. ASSUME NEW h \in StoredIds
       PROVE  /\ Storage!Known(h)' \subseteq Storage!Known(h) \cup (IF h = f THEN {n} ELSE {})
              /\ Storage!Taken(h)' = Storage!Taken(h)
              /\ Storage!Live(h)' => Storage!Live(h)
  <2>1. Storage!Known(h)' \subseteq Storage!Known(h) \cup (IF h = f THEN {n} ELSE {})
    BY <1>5, <1>8, <1>11 DEF Storage!Known
  <2>2. Storage!Taken(h)' = Storage!Taken(h)
    BY <1>1 DEF Storage!Taken
  <2>3. Storage!Live(h)' => Storage!Live(h)
    BY <1>1, <1>3, <1>10, <1>11 DEF Storage!Live, Storage!On
  <2> QED BY <2>1, <2>2, <2>3
<1>13. Storage!TypeOK' /\ Storage!UsedWithinMax'
  <2>1. \A h \in StoredIds : v2'[h] # None => v2'[h] \in Storage!Row
    BY <1>5, <1>8 DEF Storage!TypeOK
  <2> QED BY <1>1, <1>7, <1>8, <2>1 DEF Storage!TypeOK, Storage!UsedWithinMax,
          Storage!Quota, Storage!Row, Storage!Version
<1>14. Storage!CallsFit'
  <2>1. Storage!Fits(r)'
    <3>1. CASE c = Storage!Idle
      BY <1>7, <3>1 DEF Storage!Fits, Storage!Idle
    <3>2. CASE c # Storage!Idle
      <4>1. Storage!VersionFits(r)'
        BY <1>1, <1>2, <1>6, <1>7, <3>2
        DEF Storage!VersionFits, Storage!Written, Storage!Room, Storage!Grows, Storage!Quota,
            Storage!Row
      <4> QED BY <1>6, <1>7, <3>2, <4>1 DEF Storage!Fits, Storage!Asking, Storage!Quota,
              Storage!Row
    <3> QED BY <3>1, <3>2
  <2> QED BY <1>1, <1>4, <2>1, SavingHas, SlotsKeep
<1>15. Storage!ContentsApart'
  <2>1. Storage!Mentions(f, v6[r].content)
    BY <1>1, <1>3 DEF Storage!Mentions, Storage!On
  <2>2. ASSUME NEW h \in StoredIds, NEW j \in 1..MaxWrites, Storage!Mentions(h, j)'
        PROVE  Storage!Mentions(h, j)
    <3>1. CASE v2'[h] # None /\ v2'[h].content = j
      BY <1>5, <1>8, <2>1, <3>1 DEF Storage!Mentions
    <3>2. CASE ~(v2'[h] # None /\ v2'[h].content = j)
      BY <1>1, <1>11, <2>2, <3>2 DEF Storage!Mentions
    <3> QED BY <3>1, <3>2
  <2> QED BY <1>1, <2>2, ContentsStay
<1>16. Storage!ListedFits'
  <2>1. Storage!On(r, f)
    BY <1>1, <1>3 DEF Storage!On
  <2>2. ASSUME NEW h \in StoredIds \ v11, v5[h] # None
        PROVE  /\ v2'[h] # None /\ v2'[h].status = "deleted"
               /\ \A q \in Requests : Storage!On(q, h)' => v6'[q].op # "version"
    BY <1>1, <1>8, <1>11, <2>1, <2>2 DEF Storage!ListedFits
  <2> QED BY <1>1, <2>2 DEF Storage!ListedFits
<1>17. Storage!UploadsApart'
  BY <1>1, <1>11 DEF Storage!UploadsApart
<1>18. Storage!NumbersFit'
  <2>1. \A h \in StoredIds \ v11 : Storage!Live(h)' =>
          /\ Storage!Live(h)
          /\ Storage!Known(h)' \subseteq Storage!Known(h) \cup Storage!Taken(h) \cup {1}
          /\ Storage!Taken(h) \subseteq Storage!Taken(h)'
          /\ Storage!Taken(h)' \subseteq Storage!Taken(h) \cup {1}
    BY <1>9, <1>12
  <2> QED BY <1>1, <2>1, NumbersStay
<1>19. Storage!NextIsLatest'
  <2>1. ASSUME NEW q \in Requests, Storage!Saving(q)', v6'[q].file \notin v11
        PROVE  Storage!Saving(q) /\ v6'[q] = v6[q] /\ v6[q].file # f
    BY <1>6, <1>7, <1>9, <2>1 DEF Storage!Saving, Storage!At, Storage!Idle
  <2> QED BY <1>1, <1>12, <2>1, NextStays
<1>20. Storage!LatestIsComing'
  <2>1. ASSUME v9 = 0, NEW v \in v3, v.file \in Storage!Active' \ v11
        PROVE  \/ v.number <= v2'[v.file].version
               \/ \E q \in Requests : Storage!Saving(q)' /\ v6'[q].file = v.file
    <3>1. CASE v.file = f
      BY <1>5, <1>8, <1>9, <2>1, <3>1 DEF Storage!Taken
    <3>2. CASE v.file # f
      <4>1. v.file \in Storage!Active /\ v2'[v.file] = v2[v.file]
        BY <1>8, <1>10, <2>1, <3>2 DEF Storage!Active
      <4>2. CASE \E q \in Requests : Storage!Saving(q) /\ v6[q].file = v.file
        BY <1>3, <1>7, <3>2, <4>2 DEF Storage!Saving, Storage!At
      <4> QED BY <2>1, <4>1, <4>2 DEF Storage!LatestIsComing
    <3> QED BY <3>1, <3>2
  <2> QED BY <1>1, <2>1 DEF Storage!LatestIsComing
<1>21. Storage!ActiveHasContent'
  <2>1. ASSUME NEW h \in Storage!Active' \ v11 PROVE v2'[h].content \in v4
    BY <1>2, <1>3, <1>5, <1>8, <1>10, <2>1 DEF Storage!ActiveHasContent, Storage!Active
  <2> QED BY <1>1, <2>1 DEF Storage!ActiveHasContent
<1>22. Storage!InTurn'
  <2>1. ~v10 => /\ Storage!Counted /\ \A q \in Requests \ {r} : v6[q] = Storage!Idle
                /\ v2[f] = v6[r].row /\ v1 # None /\ v6[r].quota = v1
    BY <1>1, <1>3, StorageAlone DEF Storage!Accounting
  <2>2. ~v10 =>
          /\ Storage!Cardinality(Storage!Active') = Storage!Cardinality(Storage!Active)
          /\ Storage!Cardinality(Storage!Bytes')
               = Storage!Cardinality(Storage!Bytes) + Storage!Grows(v6[r])
    <3>1. ~v10 => f \in Storage!Active /\ v2'[f].size - v2[f].size = Storage!Grows(v6[r])
      BY <1>2, <1>5, <1>8, <2>1, StorageMarks DEF Storage!Active, Storage!Grows
    <3> QED BY <1>8, <1>10, <1>13, <3>1, CountChanges
  <2>3. v1 # None => v1.files \in Int /\ v1.used \in Int
    BY QuotaIs
  <2>4. Storage!Cardinality(Storage!Bytes) \in Nat /\ Storage!Grows(v6[r]) \in Int
    BY <1>2, ActiveCounts, StorageCount DEF Storage!Grows
  <2>5. ~v10 /\ c = Storage!Idle => Storage!Counted'
    BY <1>1, <1>6, <2>1, <2>2, <2>3, <2>4 DEF Storage!Counted, Storage!Counts, Storage!Idle
  <2>6. ~v10 /\ c # Storage!Idle => Storage!Accounting(r)'
    <3> SUFFICES ASSUME ~v10, c # Storage!Idle PROVE Storage!Accounting(r)'
      OBVIOUS
    <3>1. Storage!Grows(v6'[r]) = Storage!Grows(v6[r])
      BY <1>6, <1>7 DEF Storage!Grows
    <3>2. Storage!Counts(0, Storage!Grows(v6[r]))'
      BY <1>1, <2>1, <2>2, <2>3, <2>4, <1>6, <1>7
      DEF Storage!Counted, Storage!Counts, Storage!Grows
    <3>3. v6'[r].file \in Storage!Active'
      BY <1>6, <1>7, <1>10
    <3> QED BY <1>1, <1>6, <1>7, <2>1, <3>1, <3>2, <3>3
            DEF Storage!Accounting, Storage!Behind, Storage!At, Storage!Counts, Storage!Grows
  <2> QED BY <1>1, <1>4, <2>1, <2>5, <2>6, StorageTurn
<1> QED BY <1>13, <1>14, <1>15, <1>16, <1>17, <1>18, <1>19, <1>20, <1>21, <1>22

LEMMA StorageUploadVersion ==
    ASSUME Storage!StorageInv, NEW r \in Requests, Storage!UploadVersion(r)
    PROVE  Storage!StorageInv'
<1> USE DEF Storage!StorageInv
<1>1. /\ v6[r].op = "upload" /\ v6[r].step = "version" /\ v6[r] # Storage!Idle /\ ~Storage!Saving(r)
      /\ UNCHANGED <<v1, v2, v4, v5, v7, v8, v9, v10, v11>> /\ Storage!Goes(r, Storage!Idle)
  BY DEF Storage!UploadVersion, Storage!At, Storage!Idle, Storage!Saving
<1>2. /\ v6[r] \in Storage!Asking /\ v6[r].size \in FileSizes /\ Storage!Written(v6[r])
      /\ v6[r].content \in 1..MaxWrites
  <2>1. v6[r] \in Storage!Asking /\ v6[r].size \in FileSizes /\ Storage!Written(v6[r])
    BY <1>1, SlotOf DEF Storage!UploadFits
  <2>2. v6[r].content \in 1..v8 /\ v8 \in 0..MaxWrites
    BY <2>1, SavingHas DEF Storage!Written
  <2> QED BY <2>1, <2>2, StorageMarks
<1>3. PICK f \in StoredIds : v6[r].file = f
  BY <1>1, SlotOf DEF Storage!UploadFits
<1>4. DOMAIN v6' = Requests /\ v6'[r] = Storage!Idle
      /\ \A q \in Requests \ {r} : v6'[q] = v6[q]
  BY <1>1, StorageGoes
<1>5. ~v10 => Storage!Counted /\ \A q \in Requests \ {r} : v6[q] = Storage!Idle
  BY <1>1, StorageAlone DEF Storage!Accounting
<1>6. ~v10 => Storage!Counted'
  BY <1>1, <1>5, CountStays DEF Storage!Counted, Storage!Counts
<1>7. Storage!Fits(r)'
  BY <1>4 DEF Storage!Fits, Storage!Idle
<1>8. CASE v2[f] = None
  <2>1. v3' = v3
    BY <1>3, <1>8 DEF Storage!UploadVersion
  <2>2. v8 \in 0..MaxWrites /\ v4 \subseteq 1..MaxWrites
    BY SavingHas
  <2>3. v1' # None => v1' \in Storage!Quota /\ v1'.used <= v1'.max
    BY <1>1 DEF Storage!TypeOK, Storage!UsedWithinMax
  <2>4. UNCHANGED <<v2, v3, v5, v7, v9, v10, v11>> /\ v4 \subseteq v4' /\ v4' \subseteq 1..MaxWrites
        /\ v8' \in {v8, v8 + 1} /\ v8' \in 0..MaxWrites
    BY <1>1, <2>1, <2>2
  <2> QED BY <1>1, <1>6, <1>7, <2>3, <2>4, StorageMoves
<1>9. CASE v2[f] # None
  <2> DEFINE v == [file |-> f, number |-> 1, size |-> v6[r].size, content |-> v6[r].content]
  <2>1. v3' = v3 \cup {v}
    BY <1>3, <1>9 DEF Storage!UploadVersion
  <2>2. v \in Storage!Version /\ v.file = f /\ v.number = 1 /\ v.content = v6[r].content
    BY <1>2 DEF Storage!Version
  <2> HIDE DEF v
  <2>3. /\ \A w \in v3 : w.file = f => w.number # 1
        /\ \A q \in Requests : Storage!On(q, f) /\ v6[q].op = "upload" => q = r
    BY <1>1, <1>3 DEF Storage!UploadsApart, Storage!On
  <2>4. ASSUME NEW h \in StoredIds, NEW q \in Requests, Storage!On(q, h)'
        PROVE  Storage!On(q, h) /\ v6'[q] = v6[q] /\ q # r
    BY <1>4, <2>4 DEF Storage!On
  <2>5. ASSUME NEW h \in StoredIds
        PROVE  /\ Storage!Known(h)' \subseteq Storage!Known(h)
               /\ Storage!Taken(h)' = Storage!Taken(h) \cup (IF h = f THEN {1} ELSE {})
               /\ Storage!Live(h)' => Storage!Live(h)
    <3>1. Storage!Known(h)' \subseteq Storage!Known(h)
      BY <1>1, <2>4 DEF Storage!Known
    <3>2. Storage!Taken(h)' = Storage!Taken(h) \cup (IF h = f THEN {1} ELSE {})
      BY <2>1, <2>2 DEF Storage!Taken
    <3>3. Storage!Live(h)' => Storage!Live(h)
      BY <1>1, <2>4 DEF Storage!Live, Storage!Active
    <3> QED BY <3>1, <3>2, <3>3
  <2>6. Storage!TypeOK' /\ Storage!UsedWithinMax'
    <3>1. v3' \subseteq Storage!Version
      BY <2>1, <2>2 DEF Storage!TypeOK
    <3>2. \A u, w \in v3' : (u.file = w.file /\ u.number = w.number) => u = w
      BY <2>1, <2>2, <2>3 DEF Storage!TypeOK
    <3> QED BY <1>1, <1>4, <3>1, <3>2 DEF Storage!TypeOK, Storage!UsedWithinMax, Storage!Quota,
            Storage!Row, Storage!Version
  <2>7. Storage!CallsFit'
    BY <1>1, <1>7, SavingHas, SlotsKeep
  <2>8. Storage!ContentsApart'
    <3>1. Storage!Mentions(f, v6[r].content)
      BY <1>1, <1>3 DEF Storage!Mentions, Storage!On
    <3>2. ASSUME NEW h \in StoredIds, NEW j \in 1..MaxWrites, Storage!Mentions(h, j)'
          PROVE  Storage!Mentions(h, j)
      BY <1>1, <2>1, <2>2, <2>4, <3>1, <3>2 DEF Storage!Mentions
    <3> QED BY <1>1, <3>2, ContentsStay
  <2>9. Storage!ListedFits'
    BY <1>1, <2>4 DEF Storage!ListedFits
  <2>10. Storage!UploadsApart'
    <3>1. ASSUME NEW q \in Requests, NEW h \in StoredIds, Storage!On(q, h)', v6'[q].op = "upload"
          PROVE  h # f /\ Storage!On(q, h) /\ v6[q].op = "upload"
      BY <2>3, <2>4, <3>1
    <3>2. ASSUME NEW q \in Requests, NEW h \in StoredIds, Storage!On(q, h)', v6'[q].op = "upload"
          PROVE  \A w \in v3' : w.file = h => w.number # 1
      BY <2>1, <2>2, <3>1, <3>2 DEF Storage!UploadsApart
    <3>3. ASSUME NEW q \in Requests, NEW h \in StoredIds, Storage!On(q, h)', v6'[q].op = "upload",
                 NEW p \in Requests, Storage!On(p, h)', v6'[p].op = "upload"
          PROVE  p = q
      BY <3>1, <3>3 DEF Storage!UploadsApart
    <3> QED BY <3>2, <3>3 DEF Storage!UploadsApart
  <2>11. Storage!NumbersFit'
    <3>1. \A h \in StoredIds : Storage!Live(h)' =>
            /\ Storage!Live(h)
            /\ Storage!Known(h)' \subseteq Storage!Known(h) \cup Storage!Taken(h) \cup {1}
            /\ Storage!Taken(h) \subseteq Storage!Taken(h)'
            /\ Storage!Taken(h)' \subseteq Storage!Taken(h) \cup {1}
      BY <2>5
    <3> QED BY <1>1, <3>1, NumbersStay
  <2>12. Storage!NextIsLatest'
    <3>1. ASSUME NEW q \in Requests, Storage!Saving(q)'
          PROVE  Storage!Saving(q) /\ v6'[q] = v6[q]
      BY <1>4, <3>1 DEF Storage!Saving, Storage!At, Storage!Idle
    <3>2. \A h \in StoredIds :
            /\ Storage!Known(h)' \subseteq Storage!Known(h) \cup {1}
            /\ Storage!Taken(h) \subseteq Storage!Taken(h)'
            /\ Storage!Taken(h)' \subseteq Storage!Taken(h) \cup {1}
      BY <2>5
    <3> QED BY <1>1, <3>1, <3>2, NextStays
  <2>13. Storage!LatestIsComing'
    <3>1. v2[f].version \in Nat \ {0}
      BY <1>9 DEF Storage!TypeOK, Storage!Row
    <3>2. 1 <= v2[f].version
      BY <3>1
    <3>3. ASSUME NEW w \in v3', w.file \in Storage!Active' \ v11', v9' = 0,
                 ~(w.number <= v2'[w.file].version)
          PROVE  \E q \in Requests : Storage!Saving(q)' /\ v6'[q].file = w.file
      <4>1. w \in v3 /\ w.file \in Storage!Active \ v11 /\ ~(w.number <= v2[w.file].version)
        BY <1>1, <2>1, <2>2, <3>2, <3>3 DEF Storage!Active
      <4>2. PICK q \in Requests : Storage!Saving(q) /\ v6[q].file = w.file
        BY <1>1, <3>3, <4>1 DEF Storage!LatestIsComing
      <4> QED BY <1>1, <1>4, <4>2 DEF Storage!Saving, Storage!At
    <3> QED BY <3>3 DEF Storage!LatestIsComing
  <2>14. Storage!ActiveHasContent'
    BY <1>1 DEF Storage!ActiveHasContent, Storage!Active
  <2>15. Storage!InTurn'
    BY <1>1, <1>5, <1>6, StorageTurn
  <2> QED BY <2>6, <2>7, <2>8, <2>9, <2>10, <2>11, <2>12, <2>13, <2>14, <2>15
<1> QED BY <1>8, <1>9

LEMMA StorageDeleteRow ==
    ASSUME Storage!StorageInv, NEW r \in Requests, Storage!DeleteRow(r)
    PROVE  Storage!StorageInv'
<1> USE DEF Storage!StorageInv
<1>1. /\ v6[r].op = "delete" /\ v6[r].step = "read" /\ v6[r] # Storage!Idle /\ ~Storage!Saving(r)
      /\ UNCHANGED <<v1, v3, v4, v5, v7, v8, v9, v11>>
      /\ v10' = (v10 \/ v6[r].row.status = "deleted")
      /\ Storage!ReadQuota(r, v6[r], "quota")
  BY DEF Storage!DeleteRow, Storage!At, Storage!Idle, Storage!Saving
<1>2. /\ v6[r] \in Storage!Asking /\ Storage!DeleteFits(r) /\ v6[r].row \in Storage!Row
      /\ v6[r].content = 0
  BY <1>1, SlotOf DEF Storage!DeleteFits
<1>3. PICK f \in StoredIds : v6[r].file = f
  BY <1>2 DEF Storage!DeleteFits
<1> DEFINE row == [v6[r].row EXCEPT !.status = "deleted"]
<1>4. v2' = [v2 EXCEPT ![f] = row]
  BY <1>3 DEF Storage!DeleteRow
<1>5. /\ row \in Storage!Row /\ row.status = "deleted" /\ row.content = v6[r].row.content
      /\ row.version = v6[r].row.version /\ row # None
  BY <1>2, StorageMarks DEF Storage!Row
<1> HIDE DEF row
<1>6. PICK c \in Storage!Asking :
        /\ Storage!Goes(r, c) /\ c.op = v6[r].op /\ c.file = v6[r].file /\ c.row = v6[r].row
        /\ c.content = v6[r].content /\ c.size = v6[r].size
        /\ \/ v1 # None /\ c.step = "quota" /\ c.quota = v1
           \/ v1 = None /\ c.step = "make" /\ c.next = "quota"
  BY <1>1, <1>2, QuotaRead
<1>7. /\ DOMAIN v6' = Requests /\ v6'[r] = c /\ \A q \in Requests \ {r} : v6'[q] = v6[q]
      /\ c # Storage!Idle
  BY <1>1, <1>6, StorageGoes DEF Storage!Idle
<1>8. /\ DOMAIN v2' = StoredIds /\ v2'[f] = row
      /\ \A h \in StoredIds \ {f} : v2'[h] = v2[h]
  BY <1>4 DEF Storage!TypeOK
<1>9. Storage!Active' = Storage!Active \ {f}
  BY <1>5, <1>8 DEF Storage!Active
<1>10. ASSUME NEW h \in StoredIds, NEW q \in Requests
       PROVE  /\ Storage!On(q, h)' <=> Storage!On(q, h)
              /\ v6'[q].op = v6[q].op /\ v6'[q].row = v6[q].row /\ v6'[q].content = v6[q].content
  BY <1>1, <1>6, <1>7 DEF Storage!On
<1>11. ASSUME NEW h \in StoredIds
       PROVE  /\ Storage!Known(h)' \subseteq Storage!Known(h)
              /\ Storage!Taken(h)' = Storage!Taken(h)
              /\ Storage!Live(h)' => Storage!Live(h)
  <2>1. Storage!Known(h)' \subseteq Storage!Known(h)
    <3>1. Storage!On(r, f) /\ v6[r].row # None
      BY <1>1, <1>2, <1>3, StorageMarks DEF Storage!On
    <3>2. row.version \in Storage!Known(f)
      BY <1>5, <3>1 DEF Storage!Known
    <3> QED BY <1>8, <1>10, <3>2 DEF Storage!Known
  <2>2. Storage!Taken(h)' = Storage!Taken(h)
    BY <1>1 DEF Storage!Taken
  <2>3. Storage!Live(h)' => Storage!Live(h)
    BY <1>9, <1>10 DEF Storage!Live
  <2> QED BY <2>1, <2>2, <2>3
<1>12. v10' \in BOOLEAN /\ (v10 => v10')
  BY <1>1 DEF Storage!TypeOK
<1>13. Storage!TypeOK' /\ Storage!UsedWithinMax'
  <2>1. \A h \in StoredIds : v2'[h] # None => v2'[h] \in Storage!Row
    BY <1>5, <1>8 DEF Storage!TypeOK
  <2> QED BY <1>1, <1>7, <1>8, <1>12, <2>1 DEF Storage!TypeOK, Storage!UsedWithinMax,
          Storage!Quota, Storage!Row, Storage!Version
<1>14. Storage!CallsFit'
  <2>1. Storage!DeleteFits(r)'
    BY <1>1, <1>2, <1>6, <1>7, QuotaIs DEF Storage!DeleteFits, Storage!Room, Storage!Quota,
       Storage!Row
  <2>2. Storage!Fits(r)'
    BY <1>6, <1>7, <2>1 DEF Storage!Fits, Storage!Asking, Storage!Quota, Storage!Row
  <2> QED BY <1>1, <1>6, <2>2, SavingHas, SlotsKeep
<1>15. Storage!ContentsApart'
  <2>1. Storage!Mentions(f, row.content)
    BY <1>1, <1>2, <1>3, <1>5, StorageMarks DEF Storage!Mentions, Storage!On
  <2>2. ASSUME NEW h \in StoredIds, NEW j \in 1..MaxWrites, Storage!Mentions(h, j)'
        PROVE  Storage!Mentions(h, j)
    <3>1. CASE v2'[h] # None /\ v2'[h].content = j
      BY <1>8, <2>1, <3>1 DEF Storage!Mentions
    <3>2. CASE ~(v2'[h] # None /\ v2'[h].content = j)
      BY <1>1, <1>10, <2>2, <3>2 DEF Storage!Mentions
    <3> QED BY <3>1, <3>2
  <2> QED BY <1>1, <2>2, ContentsStay
<1>16. Storage!ListedFits'
  BY <1>1, <1>5, <1>8, <1>10 DEF Storage!ListedFits
<1>17. Storage!UploadsApart'
  BY <1>1, <1>10 DEF Storage!UploadsApart
<1>18. Storage!NumbersFit'
  <2>1. \A h \in StoredIds : Storage!Live(h)' =>
          /\ Storage!Live(h)
          /\ Storage!Known(h)' \subseteq Storage!Known(h) \cup Storage!Taken(h) \cup {1}
          /\ Storage!Taken(h) \subseteq Storage!Taken(h)'
          /\ Storage!Taken(h)' \subseteq Storage!Taken(h) \cup {1}
    BY <1>11
  <2> QED BY <1>1, <2>1, NumbersStay
<1>19. Storage!NextIsLatest'
  <2>1. ASSUME NEW q \in Requests, Storage!Saving(q)'
        PROVE  Storage!Saving(q) /\ v6'[q] = v6[q]
    BY <1>1, <1>6, <1>7, <2>1 DEF Storage!Saving, Storage!At
  <2> QED BY <1>1, <1>11, <2>1, NextStays
<1>20. Storage!LatestIsComing'
  <2>1. ASSUME v9 = 0, NEW v \in v3, v.file \in Storage!Active' \ v11,
               ~(v.number <= v2'[v.file].version)
        PROVE  \E q \in Requests : Storage!Saving(q)' /\ v6'[q].file = v.file
    <3>1. v.file \in Storage!Active /\ v2'[v.file] = v2[v.file]
      BY <1>8, <1>9, <2>1 DEF Storage!Active
    <3>2. PICK q \in Requests : Storage!Saving(q) /\ v6[q].file = v.file
      BY <2>1, <3>1 DEF Storage!LatestIsComing
    <3> QED BY <1>1, <1>7, <3>2 DEF Storage!Saving, Storage!At
  <2> QED BY <1>1, <2>1 DEF Storage!LatestIsComing
<1>21. Storage!ActiveHasContent'
  BY <1>1, <1>8, <1>9 DEF Storage!ActiveHasContent, Storage!Active
<1>22. Storage!InTurn'
  <2>1. ~v10' => ~v10 /\ v6[r].row.status = "active"
    BY <1>1, <1>2 DEF Storage!Row
  <2>2. ~v10' => /\ Storage!Counted /\ \A q \in Requests \ {r} : v6[q] = Storage!Idle
                 /\ v2[f] = v6[r].row
    BY <1>1, <1>3, <2>1, StorageAlone DEF Storage!Accounting, Storage!At
  <2>3. ~v10' => Storage!Accounting(r)'
    <3> SUFFICES ASSUME ~v10' PROVE Storage!Accounting(r)'
      OBVIOUS
    <3>1. f \in Storage!Active
      BY <1>2, <2>1, <2>2, StorageMarks DEF Storage!Active
    <3>2. v1 # None /\ c.step = "quota" /\ c.quota = v1
      BY <1>6, <2>2, <3>1 DEF Storage!Counted
    <3>3. /\ Storage!Cardinality(Storage!Active') = Storage!Cardinality(Storage!Active) - 1
          /\ Storage!Cardinality(Storage!Bytes')
               = Storage!Cardinality(Storage!Bytes) - v6[r].row.size
      BY <1>8, <1>9, <1>13, <2>2, <3>1, CountChanges
    <3>4. /\ v1.files \in Int /\ v1.used \in Int /\ v6[r].row.size \in Nat
          /\ Storage!Cardinality(Storage!Bytes) \in Nat
          /\ Storage!Cardinality(Storage!Active) \in Nat
      BY <1>2, <3>2, QuotaIs, ActiveCounts, StorageCount, StorageMarks DEF Storage!Row
    <3>5. v1.files + 0 = Storage!Cardinality(Storage!Active)
          /\ v1.used + 0 = Storage!Cardinality(Storage!Bytes)
      BY <2>2, <3>2 DEF Storage!Counted, Storage!Counts
    <3>6. v1.files + (-1) = Storage!Cardinality(Storage!Active')
          /\ v1.used + (-v6[r].row.size) = Storage!Cardinality(Storage!Bytes')
      BY <3>3, <3>4, <3>5
    <3> QED BY <1>1, <1>6, <1>7, <3>2, <3>6
            DEF Storage!Accounting, Storage!Behind, Storage!At, Storage!Counts
  <2> QED BY <1>1, <1>6, <1>7, <1>12, <2>1, <2>2, <2>3, StorageTurn
<1> QED BY <1>13, <1>14, <1>15, <1>16, <1>17, <1>18, <1>19, <1>20, <1>21, <1>22

LEMMA StorageUploadRow ==
    ASSUME Storage!StorageInv, NEW r \in Requests, Storage!UploadRow(r)
    PROVE  Storage!StorageInv'
<1> USE DEF Storage!StorageInv
<1>1. /\ v6[r].op = "upload" /\ v6[r].step = "check" /\ v6[r] # Storage!Idle /\ ~Storage!Saving(r)
      /\ UNCHANGED <<v1, v3, v5, v7, v9, v10, v11>>
  <2>1. Storage!At(r, "upload", "check") /\ UNCHANGED <<v1, v3, v5, v7, v9, v10, v11>>
    BY DEF Storage!UploadRow
  <2> QED BY <2>1 DEF Storage!At, Storage!Idle, Storage!Saving
<1>2. /\ v6[r] \in Storage!Asking /\ v6[r].row = None /\ v6[r].file = None
      /\ v6[r].size \in FileSizes /\ v6[r].size \in Nat \ {0}
      /\ v6[r].quota \in Storage!Quota
  BY <1>1, SlotOf, StorageMarks DEF Storage!UploadFits, Storage!Room
<1>3. \/ Storage!Goes(r, Storage!Idle) /\ UNCHANGED <<v8, v4, v2>>
      \/ Storage!UploadAccepted(v6[r]) /\ v8 < MaxWrites
  BY DEF Storage!UploadRow
<1>4. CASE Storage!Goes(r, Storage!Idle) /\ UNCHANGED <<v8, v4, v2>>
  <2>1. Storage!Fits(r)'
    BY <1>4, StorageGoes DEF Storage!Fits, Storage!Idle
  <2>2. ~v10 => Storage!Counted'
    BY <1>1, <1>4, StorageAlone, CountStays DEF Storage!Accounting, Storage!Counted, Storage!Counts
  <2>3. v1' # None => v1' \in Storage!Quota /\ v1'.used <= v1'.max
    BY <1>1 DEF Storage!TypeOK, Storage!UsedWithinMax
  <2>4. UNCHANGED <<v2, v3, v5, v7, v9, v10, v11>> /\ v4 \subseteq v4' /\ v4' \subseteq 1..MaxWrites
        /\ v8' \in {v8, v8 + 1} /\ v8' \in 0..MaxWrites
    BY <1>1, <1>4, SavingHas
  <2> QED BY <1>1, <1>4, <2>1, <2>2, <2>3, <2>4, StorageMoves
<1>5. CASE Storage!UploadAccepted(v6[r]) /\ v8 < MaxWrites
  <2>1. PICK f \in StoredIds :
          /\ Storage!Fresh(f) /\ v8' = v8 + 1 /\ v4' = v4 \cup {v8'}
          /\ v2' = [v2 EXCEPT ![f] = [status |-> "active", size |-> v6[r].size, version |-> 1,
                                      content |-> v8']]
          /\ Storage!Goes(r, [Storage!To(v6[r], "quota") EXCEPT !.file = f, !.content = v8'])
    BY <1>5 DEF Storage!UploadRow
  <2>2. PICK k : k = v8'
    OBVIOUS
  <2>3. k \in 1..MaxWrites /\ k \in 0..MaxWrites /\ k \in Nat /\ v8 <= k /\ k = v8 + 1
        /\ k \in 1..k
    BY <1>5, <2>1, <2>2, SavingHas, StorageMarks
  <2> DEFINE row == [status |-> "active", size |-> v6[r].size, version |-> 1, content |-> k]
             d == [Storage!To(v6[r], "quota") EXCEPT !.file = f]
             c == [d EXCEPT !.content = k]
  <2>4. v2' = [v2 EXCEPT ![f] = row]
    BY <2>1, <2>2
  <2>5. /\ row \in Storage!Row /\ row.status = "active" /\ row.size = v6[r].size
        /\ row.version = 1 /\ row.content = k /\ row # None
    BY <1>2, <2>3, StorageMarks DEF Storage!Row
  <2>6. Storage!Goes(r, c)
    BY <2>1, <2>2
  <2> HIDE DEF row
  <2>7. /\ d \in Storage!Asking /\ d.op = "upload" /\ d.step = "quota" /\ d.file = f
        /\ d.row = None /\ d.size = v6[r].size /\ d.quota = v6[r].quota
    BY <1>1, <1>2 DEF Storage!To, Storage!Asking
  <2> HIDE DEF d
  <2>8. /\ c \in Storage!Asking /\ c.op = "upload" /\ c.step = "quota" /\ c.file = f
        /\ c.row = None /\ c.size = v6[r].size /\ c.quota = v6[r].quota /\ c.content = k
        /\ c # Storage!Idle
    BY <2>3, <2>7 DEF Storage!Asking, Storage!Idle
  <2> HIDE DEF c
  <2>9. DOMAIN v6' = Requests /\ v6'[r] = c /\ \A q \in Requests \ {r} : v6'[q] = v6[q]
    BY <2>6, StorageGoes
  <2>10. /\ DOMAIN v2' = StoredIds /\ v2'[f] = row
         /\ \A h \in StoredIds \ {f} : v2'[h] = v2[h]
    BY <2>4 DEF Storage!TypeOK
  <2>11. /\ v2[f] = None /\ v5[f] = None /\ \A w \in v3 : w.file # f
         /\ \A q \in Requests : ~Storage!On(q, f)
    BY <2>1 DEF Storage!Fresh, Storage!On
  <2>12. Storage!Active' = Storage!Active \cup {f} /\ f \notin Storage!Active
    BY <2>5, <2>10, <2>11 DEF Storage!Active
  <2>13. ASSUME NEW h \in StoredIds, NEW q \in Requests, Storage!On(q, h)'
         PROVE  \/ h # f /\ q # r /\ Storage!On(q, h) /\ v6'[q] = v6[q]
                \/ h = f /\ q = r /\ v6'[q] = c
    BY <2>8, <2>9, <2>11, <2>13 DEF Storage!On
  <2>14. ASSUME NEW h \in StoredIds
         PROVE  /\ h # f => /\ Storage!Known(h)' \subseteq Storage!Known(h)
                            /\ Storage!Live(h)' => Storage!Live(h)
                /\ h = f => Storage!Known(h)' \subseteq {1} /\ Storage!Taken(h)' = {}
                /\ Storage!Taken(h)' = Storage!Taken(h)
    <3>1. h # f => Storage!Known(h)' \subseteq Storage!Known(h)
      BY <2>10, <2>13 DEF Storage!Known
    <3>2. h # f => (Storage!Live(h)' => Storage!Live(h))
      BY <2>12, <2>13 DEF Storage!Live
    <3>3. h = f => Storage!Known(h)' \subseteq {1}
      BY <2>5, <2>8, <2>10, <2>13 DEF Storage!Known
    <3>4. Storage!Taken(h)' = Storage!Taken(h)
      BY <1>1 DEF Storage!Taken
    <3>5. h = f => Storage!Taken(h)' = {}
      BY <1>1, <2>11 DEF Storage!Taken
    <3> QED BY <3>1, <3>2, <3>3, <3>4, <3>5
  <2>15. Storage!TypeOK' /\ Storage!UsedWithinMax'
    <3>1. \A h \in StoredIds : v2'[h] # None => v2'[h] \in Storage!Row
      BY <2>5, <2>10 DEF Storage!TypeOK
    <3>2. v4' \subseteq 1..MaxWrites /\ v8' \in 0..MaxWrites
      BY <2>1, <2>2, <2>3, SavingHas
    <3> QED BY <1>1, <2>9, <2>10, <3>1, <3>2 DEF Storage!TypeOK, Storage!UsedWithinMax,
            Storage!Quota, Storage!Row, Storage!Version
  <2>16. Storage!CallsFit'
    <3>1. v6[r].quota.used + v6[r].size <= v6[r].quota.max
      BY <1>5 DEF Storage!UploadAccepted
    <3>2. Storage!UploadFits(r)'
      BY <1>2, <2>2, <2>3, <2>8, <2>9, <3>1
      DEF Storage!UploadFits, Storage!Written, Storage!Room, Storage!Quota
    <3>3. Storage!Fits(r)'
      BY <2>8, <2>9, <3>2 DEF Storage!Fits, Storage!Asking, Storage!Quota, Storage!Row
    <3>4. v8' \in Nat /\ v8 <= v8'
      BY <2>2, <2>3
    <3>5. \A q \in Requests \ {r} :
            Storage!Saving(q) /\ v6[q].file \notin v11 => v6[q].content \in v4'
      BY <2>1, SavingHas
    <3> QED BY <1>1, <2>6, <3>3, <3>4, <3>5, SlotsKeep
  <2>17. Storage!ContentsApart'
    <3>1. ASSUME NEW h \in StoredIds, NEW j \in 1..MaxWrites, Storage!Mentions(h, j)',
                 ~(h = f /\ j = k)
          PROVE  Storage!Mentions(h, j)
      <4>1. CASE h = f
        BY <1>1, <2>5, <2>8, <2>10, <2>11, <2>13, <3>1, <4>1 DEF Storage!Mentions
      <4>2. CASE h # f
        BY <1>1, <2>10, <2>13, <3>1, <4>2 DEF Storage!Mentions
      <4> QED BY <4>1, <4>2
    <3>2. v8' \in {v8, v8 + 1} /\ v8' = v8 + 1 /\ k = v8'
      BY <2>1, <2>2
    <3> QED BY <3>1, <3>2, ContentsStay
  <2>18. Storage!ListedFits'
    <3>1. ASSUME NEW h \in StoredIds \ v11, v5[h] # None
          PROVE  /\ v2'[h] # None /\ v2'[h].status = "deleted"
                 /\ \A q \in Requests : Storage!On(q, h)' => v6'[q].op # "version"
      BY <2>10, <2>11, <2>13, <3>1 DEF Storage!ListedFits
    <3> QED BY <1>1, <3>1 DEF Storage!ListedFits
  <2>19. Storage!UploadsApart'
    <3>1. ASSUME NEW q \in Requests, NEW h \in StoredIds, Storage!On(q, h)', v6'[q].op = "upload"
          PROVE  \A w \in v3' : w.file = h => w.number # 1
      BY <1>1, <2>11, <2>13, <3>1 DEF Storage!UploadsApart
    <3>2. ASSUME NEW q \in Requests, NEW h \in StoredIds, Storage!On(q, h)', v6'[q].op = "upload",
                 NEW p \in Requests, Storage!On(p, h)', v6'[p].op = "upload"
          PROVE  p = q
      BY <2>13, <3>2 DEF Storage!UploadsApart
    <3> QED BY <3>1, <3>2 DEF Storage!UploadsApart
  <2>20. Storage!NumbersFit'
    <3>1. \A h \in StoredIds : Storage!Live(h)' =>
             \/ /\ Storage!Live(h)
                /\ Storage!Known(h)' \subseteq Storage!Known(h) \cup Storage!Taken(h) \cup {1}
                /\ Storage!Taken(h) \subseteq Storage!Taken(h)'
                /\ Storage!Taken(h)' \subseteq Storage!Taken(h) \cup {1}
             \/ Storage!Known(h)' \cup Storage!Taken(h)' \subseteq {1}
      BY <2>14
    <3> QED BY <1>1, <3>1, NumbersStay
  <2>21. Storage!NextIsLatest'
    <3>1. ASSUME NEW q \in Requests, Storage!Saving(q)'
          PROVE  Storage!Saving(q) /\ v6'[q] = v6[q] /\ v6[q].file # f
      <4>1. q # r
        BY <2>8, <2>9, <3>1 DEF Storage!Saving, Storage!At
      <4>2. Storage!Saving(q) /\ v6'[q] = v6[q]
        BY <2>9, <3>1, <4>1 DEF Storage!Saving, Storage!At
      <4> QED BY <2>11, <4>2 DEF Storage!Saving, Storage!At, Storage!On, Storage!Idle
    <3>2. \A h \in StoredIds : h # f =>
            /\ Storage!Known(h)' \subseteq Storage!Known(h) \cup {1}
            /\ Storage!Taken(h) \subseteq Storage!Taken(h)'
            /\ Storage!Taken(h)' \subseteq Storage!Taken(h) \cup {1}
      BY <2>14
    <3> QED BY <1>1, <3>1, <3>2, NextStays
  <2>22. Storage!LatestIsComing'
    <3>1. ASSUME NEW w \in v3, v9 = 0, w.file \in Storage!Active' \ v11,
                 ~(w.number <= v2'[w.file].version)
          PROVE  \E q \in Requests : Storage!Saving(q)' /\ v6'[q].file = w.file
      <4>1. w.file \in Storage!Active \ v11 /\ v2'[w.file] = v2[w.file]
        BY <2>10, <2>11, <2>12, <3>1 DEF Storage!Active
      <4>2. PICK q \in Requests : Storage!Saving(q) /\ v6[q].file = w.file
        BY <3>1, <4>1 DEF Storage!LatestIsComing
      <4> QED BY <1>1, <2>9, <4>2 DEF Storage!Saving, Storage!At
    <3> QED BY <1>1, <3>1 DEF Storage!LatestIsComing
  <2>23. Storage!ActiveHasContent'
    <3>1. ASSUME NEW h \in Storage!Active' \ v11 PROVE v2'[h].content \in v4'
      <4>1. CASE h = f
        BY <2>1, <2>2, <2>5, <2>10, <4>1
      <4>2. CASE h # f
        BY <2>1, <2>10, <2>12, <3>1, <4>2 DEF Storage!ActiveHasContent, Storage!Active
      <4> QED BY <4>1, <4>2
    <3> QED BY <1>1, <3>1 DEF Storage!ActiveHasContent
  <2>24. Storage!InTurn'
    <3>1. ~v10 => /\ Storage!Counted /\ \A q \in Requests \ {r} : v6[q] = Storage!Idle
                  /\ v1 # None /\ v6[r].quota = v1
      BY <1>1, StorageAlone DEF Storage!Accounting
    <3>2. /\ Storage!Cardinality(Storage!Active') = Storage!Cardinality(Storage!Active) + 1
          /\ Storage!Cardinality(Storage!Bytes')
               = Storage!Cardinality(Storage!Bytes) + v6[r].size
      BY <2>5, <2>10, <2>12, <2>15, CountChanges
    <3>3. ~v10 => Storage!Accounting(r)'
      <4> SUFFICES ASSUME ~v10 PROVE Storage!Accounting(r)'
        OBVIOUS
      <4>1. v1.files + 0 = Storage!Cardinality(Storage!Active)
            /\ v1.used + 0 = Storage!Cardinality(Storage!Bytes)
        BY <3>1 DEF Storage!Counted, Storage!Counts
      <4>2. v1.files \in Int /\ v1.used \in Int /\ v6[r].size \in Nat
        BY <1>2, <3>1, QuotaIs
      <4>3. v1.files + 1 = Storage!Cardinality(Storage!Active')
            /\ v1.used + v6[r].size = Storage!Cardinality(Storage!Bytes')
        BY <3>2, <4>1, <4>2
      <4> QED BY <1>1, <2>8, <2>9, <3>1, <4>3
              DEF Storage!Accounting, Storage!Behind, Storage!At, Storage!Counts
    <3> QED BY <1>1, <2>6, <2>8, <3>1, <3>3, StorageTurn
  <2> QED BY <2>15, <2>16, <2>17, <2>18, <2>19, <2>20, <2>21, <2>22, <2>23, <2>24
<1> QED BY <1>3, <1>4, <1>5

\* What the steps of the cleanup have in common: they take away what is there of a listed
\* file, its content only while the row and the versions are kept or go as well.
LEMMA StorageCleans ==
    ASSUME Storage!StorageInv, NEW f \in StoredIds, v5[f] # None,
           UNCHANGED <<v1, v6, v7, v8, v9, v10, v11>>,
           \A h \in StoredIds \ {f} : v5'[h] = v5[h],
           v5' \in [StoredIds -> Storage!Listed \cup {None}],
           \/ v5'[f] # None /\ v5'[f].content = v5[f].content /\ v2' = v2
           \/ v5'[f] = None /\ v2' = [v2 EXCEPT ![f] = None],
           v3' \in {v3, Storage!WithoutVersions(f)},
           v4' \in {v4, v4 \ ({v5[f].content} \cup {v.content : v \in {w \in v3 : w.file = f}})}
    PROVE  Storage!StorageInv'
<1> USE DEF Storage!StorageInv
<1>1. /\ DOMAIN v2' = StoredIds /\ v2'[f] \in {None, v2[f]}
      /\ \A h \in StoredIds \ {f} : v2'[h] = v2[h]
  BY DEF Storage!TypeOK
<1>2. f \notin v11 => /\ v2[f] # None /\ v2[f].status = "deleted"
                      /\ \A q \in Requests : Storage!On(q, f) => v6[q].op # "version"
  BY DEF Storage!ListedFits
<1>3. /\ v3' \subseteq v3 /\ \A v \in v3 : v.file # f => v \in v3'
  BY DEF Storage!WithoutVersions
<1>4. /\ \A h \in StoredIds \ {f} : h \in Storage!Active' <=> h \in Storage!Active
      /\ f \notin v11 => f \notin Storage!Active' /\ f \notin Storage!Active
  BY <1>1, <1>2 DEF Storage!Active
<1>5. ASSUME NEW q \in Requests, Storage!Saving(q), v6[q].file \notin v11
      PROVE  v6[q] # Storage!Idle /\ v6[q].file \in StoredIds /\ v6[q].file # f
  <2>1. v6[q] # Storage!Idle /\ v6[q].op = "version"
    BY <1>5 DEF Storage!Saving, Storage!At, Storage!Idle
  <2>2. v6[q].file \in StoredIds
    BY <2>1, SlotOf DEF Storage!VersionFits
  <2> QED BY <1>2, <1>5, <2>1, <2>2 DEF Storage!On
<1>6. ASSUME NEW h \in StoredIds, h # f, NEW k \in 1..MaxWrites, Storage!Mentions(h, k), k \in v4
      PROVE  k \in v4'
  <2>1. ~Storage!Mentions(f, k)
    BY <1>6 DEF Storage!ContentsApart
  <2> QED BY <1>6, <2>1 DEF Storage!Mentions
<1>7. ASSUME NEW h \in StoredIds
      PROVE  /\ Storage!Known(h)' \subseteq Storage!Known(h)
             /\ h # f => Storage!Taken(h)' = Storage!Taken(h)
             /\ h \notin v11 /\ Storage!Live(h)' => Storage!Live(h) /\ h # f
  <2>1. Storage!Known(h)' \subseteq Storage!Known(h)
    BY <1>1 DEF Storage!Known, Storage!On
  <2>2. h # f => Storage!Taken(h)' = Storage!Taken(h)
    BY <1>3 DEF Storage!Taken
  <2>3. h \notin v11 /\ Storage!Live(h)' => Storage!Live(h) /\ h # f
    BY <1>2, <1>4 DEF Storage!Live, Storage!On
  <2> QED BY <2>1, <2>2, <2>3
<1>8. Storage!TypeOK' /\ Storage!UsedWithinMax'
  <2>1. \A h \in StoredIds : v2'[h] # None => v2'[h] \in Storage!Row
    BY <1>1 DEF Storage!TypeOK
  <2>2. v3' \subseteq Storage!Version /\ v4' \subseteq 1..MaxWrites
    BY <1>3 DEF Storage!TypeOK
  <2> QED BY <1>1, <1>3, <2>1, <2>2 DEF Storage!TypeOK, Storage!UsedWithinMax,
          Storage!Quota, Storage!Row, Storage!Version, Storage!Listed
<1>9. Storage!CallsFit'
  <2>1. ASSUME NEW q \in Requests, Storage!Saving(q), v6[q].file \notin v11
        PROVE  v6[q].content \in v4'
    <3>1. v6[q].content \in v4 /\ v6[q].content \in 1..MaxWrites
      BY <2>1, SavingHas
    <3>2. Storage!Mentions(v6[q].file, v6[q].content)
      BY <1>5, <2>1 DEF Storage!Mentions, Storage!On
    <3> QED BY <1>5, <1>6, <2>1, <3>1, <3>2
  <2>2. v8' \in Nat /\ v8 <= v8' /\ (\A q \in Requests : v6'[q] = v6[q]) /\ v11' = v11
    BY SavingHas
  <2>3. ASSUME NEW q \in Requests PROVE Storage!Fits(q)'
    BY <2>1, <2>2, SlotKeeps
  <2> QED BY <2>3 DEF Storage!CallsFit
<1>10. Storage!ContentsApart'
  <2>1. ASSUME NEW h \in StoredIds, NEW j \in 1..MaxWrites, Storage!Mentions(h, j)'
        PROVE  Storage!Mentions(h, j)
    <3>1. v2'[h] # None /\ v2'[h].content = j => v2[h] # None /\ v2[h].content = j
      BY <1>1
    <3>2. v5'[h] # None /\ v5'[h].content = j => v5[h] # None /\ v5[h].content = j
      OBVIOUS
    <3>3. \A q \in Requests : Storage!On(q, h)' <=> Storage!On(q, h)
      BY DEF Storage!On
    <3> QED BY <1>3, <2>1, <3>1, <3>2, <3>3 DEF Storage!Mentions
  <2> QED BY <2>1, ContentsStay
<1>11. Storage!ListedFits'
  <2>1. ASSUME NEW h \in StoredIds \ v11, v5'[h] # None
        PROVE  v5[h] # None /\ v2'[h] = v2[h]
    BY <1>1, <2>1
  <2> QED BY <2>1 DEF Storage!ListedFits, Storage!On
<1>12. Storage!UploadsApart'
  BY <1>3 DEF Storage!UploadsApart, Storage!On
<1>13. Storage!NumbersFit'
  <2>1. \A h \in StoredIds \ v11' : Storage!Live(h)' =>
          /\ Storage!Live(h)
          /\ Storage!Known(h)' \subseteq Storage!Known(h) \cup Storage!Taken(h) \cup {1}
          /\ Storage!Taken(h) \subseteq Storage!Taken(h)'
          /\ Storage!Taken(h)' \subseteq Storage!Taken(h) \cup {1}
    BY <1>7
  <2> QED BY <2>1, NumbersStay
<1>14. Storage!NextIsLatest'
  <2>1. ASSUME NEW q \in Requests, Storage!Saving(q)', v6'[q].file \notin v11
        PROVE  Storage!Saving(q) /\ v6'[q] = v6[q] /\ v6[q].file # f
    <3>1. Storage!Saving(q) /\ v6'[q] = v6[q]
      BY <2>1 DEF Storage!Saving, Storage!At
    <3> QED BY <1>5, <2>1, <3>1
  <2> QED BY <1>7, <2>1, NextStays
<1>15. Storage!LatestIsComing'
  <2>1. ASSUME v9 = 0, NEW v \in v3', v.file \in Storage!Active' \ v11,
               ~(v.number <= v2'[v.file].version)
        PROVE  \E q \in Requests : Storage!Saving(q)' /\ v6'[q].file = v.file
    <3>1. v \in v3 /\ v.file \in Storage!Active \ v11 /\ v2'[v.file] = v2[v.file]
      BY <1>1, <1>3, <1>4, <2>1 DEF Storage!Active
    <3>2. PICK q \in Requests : Storage!Saving(q) /\ v6[q].file = v.file
      BY <2>1, <3>1 DEF Storage!LatestIsComing
    <3> QED BY <3>2 DEF Storage!Saving, Storage!At
  <2> QED BY <2>1 DEF Storage!LatestIsComing
<1>16. Storage!ActiveHasContent'
  <2>1. ASSUME NEW h \in Storage!Active' \ v11 PROVE v2'[h].content \in v4'
    <3>1. h \in StoredIds /\ h # f /\ v2'[h] = v2[h] /\ v2[h] # None /\ h \in Storage!Active
      BY <1>1, <1>4, <2>1 DEF Storage!Active
    <3>2. v2[h].content \in v4 /\ v2[h].content \in 1..MaxWrites
      BY <2>1, <3>1, SavingHas DEF Storage!ActiveHasContent
    <3>3. Storage!Mentions(h, v2[h].content)
      BY <3>1 DEF Storage!Mentions
    <3> QED BY <1>6, <3>1, <3>2, <3>3
  <2> QED BY <2>1 DEF Storage!ActiveHasContent
<1>17. Storage!InTurn'
  <2> SUFFICES ASSUME ~v10
               PROVE  /\ v11' = {}
                      /\ \A r, q \in Requests :
                           v6'[r] # Storage!Idle /\ v6'[q] # Storage!Idle => r = q
                      /\ \A r \in Requests : v6'[r] # Storage!Idle => Storage!Accounting(r)'
                      /\ Storage!Quiet' => Storage!Counted'
    BY DEF Storage!InTurn, Storage!Idle
  <2>1. f \notin v11 /\ v11 = {}
    BY DEF Storage!InTurn
  <2>2. Storage!Active' = Storage!Active
    BY <1>4, <2>1 DEF Storage!Active
  <2>3. /\ Storage!Cardinality(Storage!Active') = Storage!Cardinality(Storage!Active)
        /\ Storage!Cardinality(Storage!Bytes') = Storage!Cardinality(Storage!Bytes)
    BY <1>1, <1>4, <1>8, <2>1, CountChanges
  <2>4. Storage!Counted => Storage!Counted'
    BY <2>2, <2>3 DEF Storage!Counted, Storage!Counts
  <2>5. ASSUME NEW r \in Requests, v6[r] # Storage!Idle
        PROVE  Storage!Accounting(r)'
    <3>1. v6'[r] = v6[r] /\ v1' = v1 /\ Storage!Accounting(r)
      BY <2>5 DEF Storage!InTurn
    <3>2. v6[r].op = "version" /\ v6[r].step # "quota" => v2'[v6[r].file] = v6[r].row
      <4>1. v6[r].op = "version" => v6[r].file \in StoredIds /\ v6[r].file # f
        BY <1>2, <2>1, <2>5, SlotOf DEF Storage!On, Storage!VersionFits
      <4> QED BY <1>1, <3>1, <4>1 DEF Storage!Accounting
    <3>3. Storage!At(r, "delete", "read") /\ v6[r].row.status = "active"
            => v2'[v6[r].file] = v6[r].row
      <4>1. v6[r].op = "delete" => v6[r].file \in StoredIds
        BY <2>5, SlotOf DEF Storage!DeleteFits
      <4> QED BY <1>1, <1>2, <2>1, <3>1, <4>1 DEF Storage!Accounting, Storage!At
    <3>4. Storage!Behind(r, "version", 0, Storage!Grows(v6[r]))
            => Storage!Behind(r, "version", 0, Storage!Grows(v6[r]))'
      BY <2>3, <3>1 DEF Storage!Behind, Storage!At, Storage!Counts, Storage!Grows
    <3>5. Storage!Behind(r, "upload", 1, v6[r].size) => Storage!Behind(r, "upload", 1, v6[r].size)'
      BY <2>3, <3>1 DEF Storage!Behind, Storage!At, Storage!Counts
    <3>6. Storage!Behind(r, "delete", -1, -v6[r].row.size)
            => Storage!Behind(r, "delete", -1, -v6[r].row.size)'
      BY <2>3, <3>1 DEF Storage!Behind, Storage!At, Storage!Counts
    <3> QED BY <2>2, <2>4, <3>1, <3>2, <3>3, <3>4, <3>5, <3>6
            DEF Storage!Accounting, Storage!At
  <2> QED BY <2>1, <2>4, <2>5 DEF Storage!InTurn, Storage!Quiet
<1> QED BY <1>8, <1>9, <1>10, <1>11, <1>12, <1>13, <1>14, <1>15, <1>16, <1>17

\* How a step of the cleanup moves what is listed.
LEMMA StorageCleansUp ==
    ASSUME Storage!StorageInv, NEW f \in StoredIds, NEW step, NEW next,
           Storage!CleansUp(f, step, next), next \in Storage!Listed \cup {None}
    PROVE  /\ v5[f] # None /\ UNCHANGED <<v1, v6, v7, v8, v9, v10, v11>>
           /\ v5'[f] = next /\ \A h \in StoredIds \ {f} : v5'[h] = v5[h]
           /\ v5' \in [StoredIds -> Storage!Listed \cup {None}]
BY SavingHas DEF Storage!CleansUp

\* What is listed goes on to its next step.
LEMMA ListedGoes ==
    ASSUME Storage!StorageInv, NEW f \in StoredIds, v5[f] # None, NEW step \in {"forget", "remove"}
    PROVE  LET next == [v5[f] EXCEPT !.step = step] IN
           next \in Storage!Listed /\ next # None /\ next.content = v5[f].content
BY SavingHas, StorageMarks DEF Storage!Listed

LEMMA StorageUnlink ==
    ASSUME Storage!StorageInv, NEW f \in StoredIds, Storage!Unlink(f)
    PROVE  Storage!StorageInv'
<1> DEFINE next == [v5[f] EXCEPT !.step = "forget"]
<1>1. /\ Storage!CleansUp(f, "unlink", next) /\ UNCHANGED <<v2, v3>>
      /\ v4' = v4 \ ({v5[f].content} \cup {v.content : v \in {w \in v3 : w.file = f}})
  BY DEF Storage!Unlink
<1>2. v5[f] # None
  BY <1>1 DEF Storage!CleansUp
<1>3. next \in Storage!Listed /\ next # None /\ next.content = v5[f].content
  BY <1>2, ListedGoes
<1> HIDE DEF next
<1> QED BY <1>1, <1>3, StorageCleansUp, StorageCleans

LEMMA StorageForget ==
    ASSUME Storage!StorageInv, NEW f \in StoredIds, Storage!Forget(f)
    PROVE  Storage!StorageInv'
<1> DEFINE next == [v5[f] EXCEPT !.step = "remove"]
<1>1. /\ Storage!CleansUp(f, "forget", next) /\ UNCHANGED <<v2, v4>>
      /\ v3' = Storage!WithoutVersions(f)
  BY DEF Storage!Forget
<1>2. v5[f] # None
  BY <1>1 DEF Storage!CleansUp
<1>3. next \in Storage!Listed /\ next # None /\ next.content = v5[f].content
  BY <1>2, ListedGoes
<1> HIDE DEF next
<1> QED BY <1>1, <1>3, StorageCleansUp, StorageCleans

LEMMA StorageRemove ==
    ASSUME Storage!StorageInv, NEW f \in StoredIds, Storage!Remove(f)
    PROVE  Storage!StorageInv'
<1>1. /\ Storage!CleansUp(f, "remove", None) /\ v4' = v4
      /\ v2' = [v2 EXCEPT ![f] = None] /\ v3' = Storage!WithoutVersions(f)
  BY DEF Storage!Remove
<1> QED BY <1>1, StorageCleansUp, StorageCleans

LEMMA StorageStep ==
    ASSUME Storage!StorageInv, Storage!Next
    PROVE  Storage!StorageInv'
<1>1. ASSUME NEW r \in Requests, Storage!Upload(r) PROVE Storage!StorageInv'
  BY <1>1, StorageUploadStart, StorageUploadRow, StorageUploadQuota, StorageUploadVersion
  DEF Storage!Upload
<1>2. ASSUME NEW r \in Requests, Storage!Delete(r) PROVE Storage!StorageInv'
  BY <1>2, StorageDeleteStart, StorageDeleteRow, StorageDeleteQuota DEF Storage!Delete
<1>3. ASSUME NEW r \in Requests, Storage!NewVersion(r) PROVE Storage!StorageInv'
  BY <1>3, StorageVersionStart, StorageVersionReadQuota, StorageVersionRow, StorageVersionFile,
     StorageVersionQuota DEF Storage!NewVersion
<1>4. ASSUME NEW r \in Requests, Storage!MakeQuota(r) PROVE Storage!StorageInv'
  BY <1>4, StorageMakeQuota
<1>5. ASSUME NEW f \in StoredIds, Storage!Cleanup(f) PROVE Storage!StorageInv'
  BY <1>5, StorageList, StorageUnlink, StorageForget, StorageRemove DEF Storage!Cleanup
<1>6. Storage!InitializeQuota \/ Storage!Restart => Storage!StorageInv'
  BY StorageInitializeQuota, StorageRestart
<1> QED BY <1>1, <1>2, <1>3, <1>4, <1>5, <1>6 DEF Storage!Next

LEMMA StorageStutter ==
    ASSUME Storage!StorageInv, UNCHANGED <<v1, v2, v3, v4, v5, v6, v7, v8, v9, v10, v11>>
    PROVE  Storage!StorageInv'
<1> USE DEF Storage!StorageInv
<1>1. Storage!TypeOK' /\ Storage!UsedWithinMax'
  BY DEF Storage!TypeOK, Storage!UsedWithinMax, Storage!Quota, Storage!Row, Storage!Version
<1>2. Storage!CallsFit'
  BY SavingHas, SlotKeeps DEF Storage!CallsFit
<1>3. /\ Storage!ContentsApart' /\ Storage!ListedFits' /\ Storage!UploadsApart'
      /\ Storage!NumbersFit' /\ Storage!NextIsLatest' /\ Storage!LatestIsComing'
      /\ Storage!ActiveHasContent'
  BY StorageQuiet
<1>4. Storage!InTurn'
  BY CountStays DEF Storage!InTurn, Storage!Quiet, Storage!Idle, Storage!Accounting,
     Storage!Behind, Storage!At, Storage!Counted, Storage!Counts, Storage!Grows
<1> QED BY <1>1, <1>2, <1>3, <1>4

(***************************************************************************)
(* ProfileRow: v1 role, v2 detail, v3 items, v4 call, v5 verifying,         *)
(* v6 decided, v7 undisturbed                                              *)
(***************************************************************************)
\* The weights of either profile add up to a hundred.
LEMMA CompletenessInRange ==
    ASSUME NEW role \in {"student", "company"}, NEW texts, NEW its
    PROVE  Profile!calculateProfileCompleteness(role, texts, its) \in 0..100
<1> DEFINE points(f) ==
        IF f \in Profile!Filled(texts, its) THEN Profile!Weight(role)[f] ELSE 0
<1>1. CASE role = "student"
  <2>1. /\ points("program") \in 0..10 /\ points("semester") \in 0..10
        /\ points("bio") \in 0..10 /\ points("skills") \in 0..15
        /\ points("experiences") \in 0..15 /\ points("education") \in 0..15
        /\ points("cvUrl") \in 0..10 /\ points("languages") \in 0..10
        /\ points("interests") \in 0..5
    BY <1>1 DEF Profile!Weight, Profile!StudentWeight
  <2>2. Profile!calculateProfileCompleteness(role, texts, its)
          = points("program") + points("semester") + points("bio") + points("skills")
            + points("experiences") + points("education") + points("cvUrl")
            + points("languages") + points("interests")
    BY <1>1 DEF Profile!calculateProfileCompleteness
  <2> HIDE DEF points
  <2> QED BY <2>1, <2>2
<1>2. CASE role = "company"
  <2>1. /\ points("companyName") \in 0..10 /\ points("legalName") \in 0..5
        /\ points("nit") \in 0..5 /\ points("industry") \in 0..10
        /\ points("companySize") \in 0..5 /\ points("description") \in 0..15
        /\ points("website") \in 0..5 /\ points("logoUrl") \in 0..5
        /\ points("headquartersCity") \in 0..10 /\ points("locations") \in 0..10
        /\ points("contacts") \in 0..10 /\ points("businessAreas") \in 0..10
    BY <1>2 DEF Profile!Weight, Profile!CompanyWeight
  <2>2. Profile!calculateProfileCompleteness(role, texts, its)
          = points("companyName") + points("legalName") + points("nit")
            + points("industry") + points("companySize") + points("description")
            + points("website") + points("logoUrl") + points("headquartersCity")
            + points("locations") + points("contacts") + points("businessAreas")
    BY <1>2 DEF Profile!calculateProfileCompleteness
  <2> HIDE DEF points
  <2> QED BY <2>1, <2>2
<1> QED BY <1>1, <1>2

\* A certification counts nothing.
LEMMA CertificationsCountNothing ==
    ASSUME NEW role, NEW texts, NEW its, NEW more,
           \A f : f # "certifications"
               => (f \in Profile!Filled(texts, its) <=> f \in Profile!Filled(texts, more))
    PROVE  Profile!calculateProfileCompleteness(role, texts, its)
             = Profile!calculateProfileCompleteness(role, texts, more)
<1> DEFINE points(s, f) ==
        IF f \in Profile!Filled(texts, s) THEN Profile!Weight(role)[f] ELSE 0
<1>1. \A f : f # "certifications" => points(its, f) = points(more, f)
  OBVIOUS
<1>2. \A s : Profile!calculateProfileCompleteness(role, texts, s) =
        IF role = "student"
        THEN points(s, "program") + points(s, "semester") + points(s, "bio")
             + points(s, "skills") + points(s, "experiences") + points(s, "education")
             + points(s, "cvUrl") + points(s, "languages") + points(s, "interests")
        ELSE points(s, "companyName") + points(s, "legalName") + points(s, "nit")
             + points(s, "industry") + points(s, "companySize") + points(s, "description")
             + points(s, "website") + points(s, "logoUrl") + points(s, "headquartersCity")
             + points(s, "locations") + points(s, "contacts") + points(s, "businessAreas")
  BY DEF Profile!calculateProfileCompleteness
<1> HIDE DEF points
<1> QED BY <1>1, <1>2

LEMMA ProfileInit == Profile!Init => Profile!ProfileInv
<1> SUFFICES ASSUME Profile!Init PROVE Profile!ProfileInv
  OBVIOUS
<1>1. v1 \in {"student", "company"} /\ v3 = {} /\ v4 = [r \in Requests |-> Profile!Idle]
      /\ v5 = 0 /\ v6 = "none" /\ v7 = TRUE
  BY DEF Profile!Init
<1>2. PICK texts \in SUBSET Profile!Texts :
        v2 = [texts |-> texts, score |-> Profile!calculateProfileCompleteness(v1, texts, {}),
              status |-> "pending", rating |-> 0]
  <2>1. (IF v1 = "student" THEN {"semester"} ELSE {"companyName"}) \in SUBSET Profile!Texts
    BY DEF Profile!Texts, Profile!StudentWeight, Profile!CompanyWeight
  <2> QED BY <1>1, <2>1 DEF Profile!Init, Profile!NewDetail
<1>3. v2 \in Profile!Detail
  BY <1>1, <1>2, CompletenessInRange DEF Profile!Detail, Profile!VerificationStatus
<1>4. Profile!Current
  BY <1>1, <1>2 DEF Profile!Current
<1>5. Profile!Idle \in Profile!Call /\ Profile!Idle.pc = "idle"
  BY DEF Profile!Idle, Profile!Call, Profile!Steps
<1>6. v4 \in [Requests -> Profile!Call] /\ \A r \in Requests : v4[r] = Profile!Idle
  BY <1>1, <1>5
<1>7. Profile!TypeOK
  BY <1>1, <1>3, <1>6 DEF Profile!TypeOK, Profile!Idle, Profile!Steps
<1>8. Profile!CallsFit
  BY <1>5, <1>6 DEF Profile!CallsFit, Profile!Holding
<1>9. Profile!InTurn
  BY <1>4, <1>5, <1>6 DEF Profile!InTurn, Profile!Fresh
<1> QED BY <1>1, <1>7, <1>8, <1>9 DEF Profile!ProfileInv, Profile!Decided

\* What a step has to keep when it changes one slot.
LEMMA ProfileGoes ==
    ASSUME Profile!ProfileInv, NEW r \in Requests, NEW new \in Profile!Call,
           v4' = [v4 EXCEPT ![r] = new], v1' = v1,
           v2' \in Profile!Detail, v3' \subseteq RowItems[v1], v5' \in 0..1,
           v6' \in Profile!VerificationStatus \cup {"none"}, v7' \in BOOLEAN,
           new.pc \in Profile!Holding => new.row \in Profile!Detail,
           v7' => \A q \in Requests \ {r} : v4[q].pc = "idle",
           v7' => Profile!Fresh(new)',
           v7' /\ new.pc = "idle" => Profile!Current',
           v7' /\ v6' # "none" => IF new.pc = "idle" THEN v2'.status = v6'
                                  ELSE Profile!Keeps(new)'
    PROVE  Profile!ProfileInv'
<1>1. Profile!TypeOK /\ Profile!CallsFit
  BY DEF Profile!ProfileInv
<1>2. Profile!Call' = Profile!Call
  BY DEF Profile!Call, Profile!Steps, Profile!Detail
<1>3. /\ v4' \in [Requests -> Profile!Call] /\ v4'[r] = new
      /\ \A q \in Requests \ {r} : v4'[q] = v4[q]
  BY <1>1 DEF Profile!CallsFit
<1>4. Profile!TypeOK'
  <2>1. \A q \in Requests : v4'[q] \in Profile!Call
    BY <1>3
  <2>2. \A q \in Requests : /\ v4'[q].pc \in Profile!Steps
                            /\ v4'[q].row \in Profile!Detail \cup {None}
                            /\ v4'[q].items \subseteq RowItems[v1]
    BY <2>1 DEF Profile!Call
  <2> QED BY <1>1, <2>2 DEF Profile!TypeOK
<1>5. Profile!CallsFit'
  BY <1>1, <1>2, <1>3 DEF Profile!CallsFit
<1>6. Profile!InTurn'
  <2> SUFFICES ASSUME v7'
               PROVE  /\ \A p, q \in Requests :
                           v4'[p].pc # "idle" /\ v4'[q].pc # "idle" => p = q
                      /\ \A q \in Requests : Profile!Fresh(v4[q])'
                      /\ Profile!Quiet' => Profile!Current'
    BY DEF Profile!InTurn
  <2>1. \A q \in Requests \ {r} : v4'[q].pc = "idle"
    BY <1>3
  <2>2. \A q \in Requests \ {r} : Profile!Fresh(v4[q])'
    BY <2>1 DEF Profile!Fresh
  <2>3. Profile!Fresh(v4[r])'
    BY <1>3 DEF Profile!Fresh
  <2>4. Profile!Quiet' => Profile!Current'
    BY <1>3 DEF Profile!Quiet
  <2> QED BY <2>1, <2>2, <2>3, <2>4
<1>7. Profile!Decided'
  <2> SUFFICES ASSUME v7', v6' # "none"
               PROVE  /\ \A q \in Requests : v4'[q].pc # "idle" => Profile!Keeps(v4[q])'
                      /\ Profile!Quiet' => v2'.status = v6'
    BY DEF Profile!Decided
  <2>1. \A q \in Requests : v4'[q].pc # "idle" => q = r
    BY <1>3
  <2>2. v4'[r].pc # "idle" => Profile!Keeps(v4[r])'
    BY <1>3 DEF Profile!Keeps
  <2>3. Profile!Quiet' => v2'.status = v6'
    BY <1>3 DEF Profile!Quiet
  <2> QED BY <2>1, <2>2, <2>3
<1> QED BY <1>4, <1>5, <1>6, <1>7 DEF Profile!ProfileInv

\* Nothing changes but what admin-service has published.
LEMMA ProfileStands ==
    ASSUME Profile!ProfileInv, v1' = v1, v2' = v2, v3' = v3, v4' = v4, v6' = v6, v7' = v7,
           v5' \in 0..1
    PROVE  Profile!ProfileInv'
<1>1. Profile!TypeOK'
  BY DEF Profile!ProfileInv, Profile!TypeOK
<1>2. Profile!CallsFit'
  BY DEF Profile!ProfileInv, Profile!CallsFit, Profile!Call
<1>3. Profile!InTurn'
  BY DEF Profile!ProfileInv, Profile!InTurn, Profile!Fresh, Profile!Current, Profile!Quiet,
     Profile!Scored
<1>4. Profile!Decided'
  BY DEF Profile!ProfileInv, Profile!Decided, Profile!Keeps, Profile!Quiet
<1> QED BY <1>1, <1>2, <1>3, <1>4 DEF Profile!ProfileInv

LEMMA ProfileStutter ==
    Profile!ProfileInv /\ UNCHANGED <<v1, v2, v3, v4, v5, v6, v7>> => Profile!ProfileInv'
BY ProfileStands DEF Profile!ProfileInv, Profile!TypeOK

\* What a request finds that begins in turn.
LEMMA ProfileBegins ==
    ASSUME Profile!ProfileInv, NEW r \in Requests, NEW new, Profile!Begin(r, new)
    PROVE  /\ v4' = [v4 EXCEPT ![r] = new] /\ v7' \in BOOLEAN
           /\ v7' => /\ \A q \in Requests \ {r} : v4[q].pc = "idle"
                     /\ Profile!Current
                     /\ v6 # "none" => v2.status = v6
<1>1. v7' => v7 /\ Profile!Quiet
  BY DEF Profile!Begin, Profile!Quiet
<1>2. v7 /\ Profile!Quiet => Profile!Current
  BY DEF Profile!ProfileInv, Profile!InTurn
<1>3. v7 /\ Profile!Quiet /\ v6 # "none" => v2.status = v6
  BY DEF Profile!ProfileInv, Profile!Decided
<1>4. v7' \in BOOLEAN
  BY DEF Profile!Begin
<1> QED BY <1>1, <1>2, <1>3, <1>4 DEF Profile!Begin, Profile!Quiet

\* What a request knows that goes on.
LEMMA ProfileKnows ==
    ASSUME Profile!ProfileInv, NEW r \in Requests, v4[r].pc # "idle"
    PROVE  /\ v4[r] \in Profile!Call
           /\ v4[r].pc \in Profile!Holding => v4[r].row \in Profile!Detail
           /\ v7 \in BOOLEAN
           /\ v7 => /\ \A q \in Requests \ {r} : v4[q].pc = "idle"
                    /\ Profile!Fresh(v4[r])
                    /\ v6 # "none" => Profile!Keeps(v4[r])
<1>1. v4[r] \in Profile!Call /\ (v4[r].pc \in Profile!Holding => v4[r].row \in Profile!Detail)
  BY DEF Profile!ProfileInv, Profile!CallsFit
<1>2. v7 => (\A q \in Requests \ {r} : v4[q].pc = "idle") /\ Profile!Fresh(v4[r])
  BY DEF Profile!ProfileInv, Profile!InTurn
<1>3. v7 /\ v6 # "none" => Profile!Keeps(v4[r])
  BY DEF Profile!ProfileInv, Profile!Decided
<1>4. v7 \in BOOLEAN
  BY DEF Profile!ProfileInv, Profile!TypeOK
<1> QED BY <1>1, <1>2, <1>3, <1>4

LEMMA RowsOfProfile ==
    ASSUME Profile!ProfileInv
    PROVE  /\ v1 \in {"student", "company"} /\ v2 \in Profile!Detail
           /\ v3 \subseteq RowItems[v1] /\ v5 \in 0..1
           /\ v6 \in Profile!VerificationStatus \cup {"none"}
           /\ Profile!Idle \in Profile!Call /\ Profile!Idle.pc = "idle"
           /\ Profile!Idle.row = None /\ Profile!Idle.items = {}
BY DEF Profile!ProfileInv, Profile!TypeOK, Profile!Idle, Profile!Call, Profile!Steps

\* A row with its completeness is a row, and complete with the same children.
LEMMA ScoredIsRow ==
    ASSUME v1 \in {"student", "company"}, NEW row \in Profile!Detail, NEW its
    PROVE  /\ Profile!Scored(row, its) \in Profile!Detail
           /\ Profile!Scored(row, its).texts = row.texts
           /\ Profile!Scored(row, its).status = row.status
           /\ Profile!Scored(row, its).score
                = Profile!calculateProfileCompleteness(v1, row.texts, its)
<1>1. Profile!calculateProfileCompleteness(v1, row.texts, its) \in 0..100
  BY CompletenessInRange
<1> QED BY <1>1 DEF Profile!Scored, Profile!Detail

\* A request ends where nothing else goes on, and leaves what is complete.
LEMMA ProfileEnds ==
    ASSUME Profile!ProfileInv, NEW r \in Requests, v4[r].pc # "idle", Profile!Done(r),
           v1' = v1, v5' = v5, v6' = v6,
           v2' \in Profile!Detail, v3' \subseteq RowItems[v1],
           v7 => Profile!Current',
           v7 /\ v6 # "none" => v2'.status = v6
    PROVE  Profile!ProfileInv'
<1> DEFINE new == Profile!Idle
<1>1. new \in Profile!Call /\ new.pc = "idle"
  BY RowsOfProfile
<1>2. v4' = [v4 EXCEPT ![r] = new] /\ v7' = v7
  BY DEF Profile!Done
<1> HIDE DEF new
<1>3. Profile!Fresh(new)' /\ new.pc \notin Profile!Holding
  BY <1>1 DEF Profile!Fresh, Profile!Holding
<1> QED BY <1>1, <1>2, <1>3, ProfileKnows, RowsOfProfile, ProfileGoes

\* A request begins that changes nothing but the decision of an administrator.
LEMMA ProfileBeginsWith ==
    ASSUME Profile!ProfileInv, NEW r \in Requests, NEW new \in Profile!Call, new.pc # "idle",
           Profile!Begin(r, new), v1' = v1, v2' = v2, v3' = v3, v5' \in 0..1,
           v6' \in Profile!VerificationStatus \cup {"none"},
           new.pc \in Profile!Holding => new.row \in Profile!Detail,
           Profile!Current => Profile!Fresh(new),
           (v6 # "none" => v2.status = v6) /\ v6' # "none"
             => /\ new.pc # "review" => v2.status = v6'
                /\ new.pc \in Profile!Holding => new.row.status = v6'
    PROVE  Profile!ProfileInv'
<1>1. Profile!Fresh(new) => Profile!Fresh(new)'
  BY DEF Profile!Fresh, Profile!Scored, Profile!Counted, Profile!Current
<1>2. v7' => Profile!Fresh(new)'
  BY <1>1, ProfileBegins
<1>3. v7' /\ v6' # "none" => Profile!Keeps(new)'
  BY ProfileBegins DEF Profile!Keeps
<1> QED BY <1>2, <1>3, ProfileBegins, RowsOfProfile, ProfileGoes

LEMMA UpdateLoadKeeps ==
    ASSUME Profile!ProfileInv, NEW r \in Requests, NEW f \in RowForms[v1],
           Profile!UpdateLoad(r, f)
    PROVE  Profile!ProfileInv'
<1> DEFINE new == [pc |-> "save", row |-> Profile!Sends(v2, f), items |-> v3]
<1>1. v1 \in {"student", "company"} /\ v2 \in Profile!Detail /\ v3 \subseteq RowItems[v1]
  BY RowsOfProfile
<1>2. f.fill \subseteq Profile!Texts
  BY <1>1, ServicesAssumption DEF Profile!ProfileAssumption
<1>3. Profile!Sends(v2, f) \in Profile!Detail /\ Profile!Sends(v2, f).status = v2.status
  BY <1>1, <1>2 DEF Profile!Sends, Profile!Detail
<1>4. /\ new \in Profile!Call /\ new.pc = "save" /\ new.row \in Profile!Detail
      /\ new.row.status = v2.status /\ new.items = v3
  BY <1>1, <1>3 DEF Profile!Call, Profile!Steps
<1>5. Profile!Begin(r, new) /\ UNCHANGED <<v1, v2, v3, v5, v6>>
  BY DEF Profile!UpdateLoad, Profile!Admin
<1> HIDE DEF new
<1>6. Profile!Fresh(new)
  BY <1>4 DEF Profile!Fresh
<1> QED BY <1>4, <1>5, <1>6, RowsOfProfile, ProfileBeginsWith

LEMMA EditLoadKeeps ==
    ASSUME Profile!ProfileInv, NEW r \in Requests, NEW i \in RowItems[v1],
           Profile!EditLoad(r, i)
    PROVE  Profile!ProfileInv'
<1> DEFINE new == [Profile!Idle EXCEPT !.pc = "edit", !.items = {i}]
<1>1. new \in Profile!Call /\ new.pc = "edit" /\ new.items = {i}
  BY DEF Profile!Call, Profile!Steps, Profile!Idle
<1>2. Profile!Begin(r, new) /\ UNCHANGED <<v1, v2, v3, v5, v6>> /\ i \in v3
  BY DEF Profile!EditLoad, Profile!Admin
<1> HIDE DEF new
<1>3. Profile!Current => Profile!Fresh(new)
  BY <1>1, <1>2 DEF Profile!Fresh
<1>4. new.pc \notin Profile!Holding
  BY <1>1 DEF Profile!Holding
<1> QED BY <1>1, <1>2, <1>3, <1>4, RowsOfProfile, ProfileBeginsWith

\* updateRating, reviewCompany and the handler of the decision load the row alone, and
\* change nothing that counts.
LEMMA RowLoadKeeps ==
    ASSUME Profile!ProfileInv, NEW r \in Requests, NEW pc \in {"rate", "review", "verify"},
           NEW row \in Profile!Detail, row.texts = v2.texts, row.score = v2.score,
           Profile!Begin(r, [Profile!Idle EXCEPT !.pc = pc, !.row = row]),
           v1' = v1, v2' = v2, v3' = v3, v5' \in 0..1,
           v6' \in Profile!VerificationStatus \cup {"none"},
           IF pc = "review" THEN row.status = v6' ELSE v6' = v6 /\ row.status = v2.status
    PROVE  Profile!ProfileInv'
<1> DEFINE new == [Profile!Idle EXCEPT !.pc = pc, !.row = row]
<1>1. new \in Profile!Call /\ new.pc = pc /\ new.row = row
  BY DEF Profile!Call, Profile!Steps, Profile!Idle
<1>2. Profile!Begin(r, new)
  OBVIOUS
<1> HIDE DEF new
<1>3. Profile!Current => Profile!Fresh(new)
  BY <1>1 DEF Profile!Fresh
<1> QED BY <1>1, <1>2, <1>3, ProfileBeginsWith

LEMMA LoadingKeeps ==
    ASSUME Profile!ProfileInv, NEW r \in Requests,
           \/ Profile!RateLoad(r) \/ \E s \in Profile!Reviewed : Profile!ReviewLoad(r, s)
           \/ Profile!VerifyLoad(r)
    PROVE  Profile!ProfileInv'
<1>1. v2 \in Profile!Detail /\ v5 \in 0..1 /\ v6 \in Profile!VerificationStatus \cup {"none"}
  BY RowsOfProfile
<1>2. CASE Profile!RateLoad(r)
  <2> DEFINE row == [v2 EXCEPT !.rating = 1]
  <2>1. row \in Profile!Detail /\ row.texts = v2.texts /\ row.score = v2.score
        /\ row.status = v2.status
    BY <1>1 DEF Profile!Detail
  <2>2. Profile!Begin(r, [Profile!Idle EXCEPT !.pc = "rate", !.row = row])
        /\ UNCHANGED <<v1, v2, v3, v5, v6>>
    BY <1>2 DEF Profile!RateLoad, Profile!Admin
  <2> HIDE DEF row
  <2> QED BY <1>1, <2>1, <2>2, RowLoadKeeps
<1>3. CASE \E s \in Profile!Reviewed : Profile!ReviewLoad(r, s)
  <2>1. PICK s \in Profile!Reviewed : Profile!ReviewLoad(r, s)
    BY <1>3
  <2> DEFINE row == Profile!ReviewedRow(s)
  <2>2. row \in Profile!Detail /\ row.texts = v2.texts /\ row.score = v2.score
        /\ row.status = s /\ s \in Profile!VerificationStatus
    BY <1>1 DEF Profile!ReviewedRow, Profile!Reviewed, Profile!Detail,
       Profile!VerificationStatus
  <2>3. Profile!Begin(r, [Profile!Idle EXCEPT !.pc = "review", !.row = row])
        /\ UNCHANGED <<v1, v2, v3, v5>> /\ v6' = s
    BY <2>1 DEF Profile!ReviewLoad
  <2> HIDE DEF row
  <2> QED BY <1>1, <2>2, <2>3, RowLoadKeeps
<1>4. CASE Profile!VerifyLoad(r)
  <2>1. PICK row \in Profile!Detail : row = v2
    BY <1>1
  <2>2. Profile!Begin(r, [Profile!Idle EXCEPT !.pc = "verify", !.row = row])
        /\ UNCHANGED <<v1, v2, v3, v6>> /\ v5' \in 0..1
    BY <1>4, <2>1 DEF Profile!VerifyLoad
  <2>3. row.texts = v2.texts /\ row.score = v2.score /\ row.status = v2.status /\ v6' = v6
    BY <2>1, <2>2
  <2> QED BY <1>1, <2>2, <2>3, RowLoadKeeps
<1> QED BY <1>2, <1>3, <1>4

\* A child that counts comes or goes, and the completeness will be computed again.
LEMMA ChildKeeps ==
    ASSUME Profile!ProfileInv, NEW r \in Requests, NEW i \in RowItems[v1],
           Profile!AddChild(r, i) \/ Profile!DeleteChild(r, i)
    PROVE  Profile!ProfileInv'
<1> DEFINE new == [Profile!Idle EXCEPT !.pc = "recalc"]
<1>1. new \in Profile!Call /\ new.pc = "recalc"
  BY DEF Profile!Call, Profile!Steps, Profile!Idle
<1>2. Profile!Begin(r, new) /\ UNCHANGED <<v1, v2, v5, v6>> /\ v3' \subseteq RowItems[v1]
  BY RowsOfProfile DEF Profile!AddChild, Profile!DeleteChild, Profile!Admin
<1> HIDE DEF new
<1>3. Profile!Fresh(new)' /\ new.pc \notin Profile!Holding
  BY <1>1 DEF Profile!Fresh, Profile!Holding
<1>4. v7' /\ v6' # "none" => Profile!Keeps(new)'
  BY <1>2, <1>3, ProfileBegins DEF Profile!Keeps
<1> QED BY <1>1, <1>2, <1>3, <1>4, RowsOfProfile, ProfileBegins, ProfileGoes

\* addCertification and deleteCertification end at once.
LEMMA CertificationKeeps ==
    ASSUME Profile!ProfileInv, NEW r \in Requests, NEW i \in RowItems[v1],
           Profile!AddCertification(r, i) \/ Profile!DeleteCertification(r, i)
    PROVE  Profile!ProfileInv'
<1> DEFINE new == Profile!Idle
<1>1. new \in Profile!Call /\ new.pc = "idle"
  BY RowsOfProfile
<1>2. /\ Profile!Begin(r, new) /\ UNCHANGED <<v1, v2, v5, v6>>
      /\ v3' = v3 \cup {i} \/ v3' = v3 \ {i}
      /\ v3' \subseteq RowItems[v1] /\ i.kind = "certifications"
  BY RowsOfProfile DEF Profile!AddCertification, Profile!DeleteCertification, Profile!Admin
<1> HIDE DEF new
<1>3. \A f : f # "certifications" => (f \in Profile!Filled(v2.texts, v3)
                                        <=> f \in Profile!Filled(v2.texts, v3'))
  BY <1>2 DEF Profile!Filled
<1>4. Profile!Current => Profile!Current'
  BY <1>2, <1>3, CertificationsCountNothing DEF Profile!Current
<1>5. Profile!Fresh(new)' /\ new.pc \notin Profile!Holding
  BY <1>1 DEF Profile!Fresh, Profile!Holding
<1> QED BY <1>1, <1>2, <1>4, <1>5, RowsOfProfile, ProfileBegins, ProfileGoes

\* What SaveWith leaves when nothing was added meanwhile, and what it leaves alone.
LEMMA SaveWithLeaves ==
    ASSUME Profile!ProfileInv, NEW r \in Requests, v4[r].pc # "idle", NEW row, NEW seen,
           NEW new, Profile!SaveWith(r, row, seen, new)
    PROVE  \/ /\ seen \subseteq v4[r].items /\ v2' = row /\ Profile!Goes(r, new)
              /\ v3 \subseteq v3' /\ v3' \subseteq v3 \cup v4[r].items
              /\ v3' \subseteq RowItems[v1]
           \/ /\ ~(seen \subseteq v4[r].items) /\ v2' = v2 /\ v3' = v3
              /\ Profile!Done(r)
<1>1. v4[r].items \subseteq RowItems[v1] /\ v3 \subseteq RowItems[v1]
  BY ProfileKnows, RowsOfProfile DEF Profile!Call
<1> QED BY <1>1 DEF Profile!SaveWith

\* A save that is refused comes of an overlap.
LEMMA RefusedKeeps ==
    ASSUME Profile!ProfileInv, NEW r \in Requests, v4[r].pc # "idle", ~v7,
           v1' = v1, v2' = v2, v3' = v3, v5' = v5, v6' = v6, Profile!Done(r)
    PROVE  Profile!ProfileInv'
BY ProfileEnds, RowsOfProfile

LEMMA UpdateSaveKeeps ==
    ASSUME Profile!ProfileInv, NEW r \in Requests, Profile!UpdateSave(r)
    PROVE  Profile!ProfileInv'
<1>0. PICK new : new = [v4[r] EXCEPT !.pc = "score"]
  OBVIOUS
<1>1. /\ v4[r].pc = "save" /\ v1' = v1 /\ v5' = v5 /\ v6' = v6
      /\ Profile!SaveWith(r, v4[r].row, v3, new)
  BY <1>0 DEF Profile!UpdateSave, Profile!Admin
<1>2. v4[r] \in Profile!Call /\ v4[r].row \in Profile!Detail /\ v7 \in BOOLEAN
  BY <1>1, ProfileKnows DEF Profile!Holding
<1>3. v7 => v4[r].items = v3
  BY <1>1, ProfileKnows DEF Profile!Fresh
<1>4. v7 /\ v6 # "none" => v4[r].row.status = v6
  BY <1>1, ProfileKnows DEF Profile!Keeps, Profile!Holding
<1>5. /\ new \in Profile!Call /\ new.pc = "score" /\ new.row = v4[r].row
      /\ new.items = v4[r].items
  BY <1>0, <1>2 DEF Profile!Call, Profile!Steps
<1>6. CASE v2' = v4[r].row /\ Profile!Goes(r, new) /\ v3 \subseteq v3'
           /\ v3' \subseteq v3 \cup v4[r].items /\ v3' \subseteq RowItems[v1]
  <2>1. v4' = [v4 EXCEPT ![r] = new] /\ v7' = v7
    BY <1>6 DEF Profile!Goes
  <2>2. v7 => Profile!Fresh(new)'
    BY <1>3, <1>5, <1>6 DEF Profile!Fresh
  <2>3. v7 /\ v6 # "none" => Profile!Keeps(new)'
    BY <1>1, <1>4, <1>5, <1>6 DEF Profile!Keeps
  <2> QED BY <1>1, <1>2, <1>5, <1>6, <2>1, <2>2, <2>3, ProfileKnows, RowsOfProfile, ProfileGoes
<1>7. CASE ~(v3 \subseteq v4[r].items) /\ v2' = v2 /\ v3' = v3 /\ Profile!Done(r)
  BY <1>1, <1>3, <1>7, RefusedKeeps
<1> QED BY <1>1, <1>6, <1>7, SaveWithLeaves

LEMMA UpdateScoreKeeps ==
    ASSUME Profile!ProfileInv, NEW r \in Requests, Profile!UpdateScore(r)
    PROVE  Profile!ProfileInv'
<1> DEFINE row == Profile!Scored(v4[r].row, v4[r].items)
<1>1. /\ v4[r].pc = "score" /\ v1' = v1 /\ v5' = v5 /\ v6' = v6
      /\ Profile!SaveWith(r, row, v3, Profile!Idle)
  BY DEF Profile!UpdateScore, Profile!Admin
<1>2. v4[r] \in Profile!Call /\ v4[r].row \in Profile!Detail /\ v7 \in BOOLEAN
  BY <1>1, ProfileKnows DEF Profile!Holding
<1>3. v7 => v4[r].items = v3
  BY <1>1, ProfileKnows DEF Profile!Fresh
<1>4. v7 /\ v6 # "none" => v4[r].row.status = v6
  BY <1>1, ProfileKnows DEF Profile!Keeps, Profile!Holding
<1>5. /\ row \in Profile!Detail /\ row.status = v4[r].row.status
      /\ row.texts = v4[r].row.texts
      /\ row.score = Profile!calculateProfileCompleteness(v1, v4[r].row.texts, v4[r].items)
  BY <1>2, ScoredIsRow, RowsOfProfile
<1> HIDE DEF row
<1>6. CASE v2' = row /\ Profile!Goes(r, Profile!Idle) /\ v3 \subseteq v3'
           /\ v3' \subseteq v3 \cup v4[r].items /\ v3' \subseteq RowItems[v1]
  <2>1. Profile!Done(r)
    BY <1>6 DEF Profile!Goes, Profile!Done
  <2>2. v7 => Profile!Current'
    <3> SUFFICES ASSUME v7 PROVE Profile!Current'
      OBVIOUS
    <3>1. v3' = v3 /\ v4[r].items = v3
      BY <1>3, <1>6
    <3> QED BY <1>1, <1>5, <1>6, <3>1 DEF Profile!Current
  <2> QED BY <1>1, <1>4, <1>5, <1>6, <2>1, <2>2, ProfileEnds
<1>7. CASE ~(v3 \subseteq v4[r].items) /\ v2' = v2 /\ v3' = v3 /\ Profile!Done(r)
  BY <1>1, <1>3, <1>7, RefusedKeeps
<1> QED BY <1>1, <1>6, <1>7, SaveWithLeaves

LEMMA RecalcLoadKeeps ==
    ASSUME Profile!ProfileInv, NEW r \in Requests, Profile!RecalcLoad(r)
    PROVE  Profile!ProfileInv'
<1>0. PICK new : new = [pc |-> "rescore", row |-> Profile!Scored(v2, v3),
                        items |-> Profile!Counted(v3)]
  OBVIOUS
<1>1. /\ v4[r].pc = "recalc" /\ UNCHANGED <<v1, v2, v3, v5, v6>> /\ Profile!Goes(r, new)
  BY <1>0 DEF Profile!RecalcLoad, Profile!Admin
<1>2. Profile!Scored(v2, v3) \in Profile!Detail /\ Profile!Scored(v2, v3).status = v2.status
  BY ScoredIsRow, RowsOfProfile
<1>3. Profile!Counted(v3) \subseteq RowItems[v1]
  BY RowsOfProfile DEF Profile!Counted
<1>4. /\ new \in Profile!Call /\ new.pc = "rescore" /\ new.row = Profile!Scored(v2, v3)
      /\ new.items = Profile!Counted(v3)
  BY <1>0, <1>2, <1>3 DEF Profile!Call, Profile!Steps
<1>5. v4' = [v4 EXCEPT ![r] = new] /\ v7' = v7
  BY <1>1 DEF Profile!Goes
<1>6. Profile!Fresh(new)'
  BY <1>1, <1>4 DEF Profile!Fresh, Profile!Scored
<1>7. v7 /\ v6 # "none" => v2.status = v6
  BY <1>1, ProfileKnows DEF Profile!Keeps
<1>8. v7 /\ v6 # "none" => Profile!Keeps(new)'
  BY <1>1, <1>2, <1>4, <1>7 DEF Profile!Keeps
<1> QED BY <1>1, <1>2, <1>4, <1>5, <1>6, <1>8, ProfileKnows, RowsOfProfile, ProfileGoes

LEMMA RecalcSaveKeeps ==
    ASSUME Profile!ProfileInv, NEW r \in Requests, Profile!RecalcSave(r)
    PROVE  Profile!ProfileInv'
<1>1. /\ v4[r].pc = "rescore" /\ v1' = v1 /\ v5' = v5 /\ v6' = v6
      /\ Profile!SaveWith(r, v4[r].row, Profile!Counted(v3), Profile!Idle)
  BY DEF Profile!RecalcSave, Profile!Admin
<1>2. v4[r] \in Profile!Call /\ v4[r].row \in Profile!Detail /\ v7 \in BOOLEAN
  BY <1>1, ProfileKnows DEF Profile!Holding
<1>3. v7 => v4[r].items = Profile!Counted(v3) /\ v4[r].row = Profile!Scored(v2, v3)
  BY <1>1, ProfileKnows DEF Profile!Fresh
<1>4. v7 /\ v6 # "none" => v4[r].row.status = v6
  BY <1>1, ProfileKnows DEF Profile!Keeps, Profile!Holding
<1>5. CASE v2' = v4[r].row /\ Profile!Goes(r, Profile!Idle) /\ v3 \subseteq v3'
           /\ v3' \subseteq v3 \cup v4[r].items /\ v3' \subseteq RowItems[v1]
  <2>1. Profile!Done(r)
    BY <1>5 DEF Profile!Goes, Profile!Done
  <2>2. v7 => Profile!Current'
    <3> SUFFICES ASSUME v7 PROVE Profile!Current'
      OBVIOUS
    <3>1. v3' = v3
      BY <1>3, <1>5 DEF Profile!Counted
    <3>2. v2' = Profile!Scored(v2, v3)
      BY <1>3, <1>5
    <3> QED BY <1>1, <3>1, <3>2, ScoredIsRow, RowsOfProfile DEF Profile!Current
  <2> QED BY <1>1, <1>2, <1>4, <1>5, <2>1, <2>2, ProfileEnds
<1>6. CASE ~(Profile!Counted(v3) \subseteq v4[r].items) /\ v2' = v2 /\ v3' = v3
           /\ Profile!Done(r)
  BY <1>1, <1>3, <1>6, RefusedKeeps
<1> QED BY <1>1, <1>5, <1>6, SaveWithLeaves

LEMMA EditSaveKeeps ==
    ASSUME Profile!ProfileInv, NEW r \in Requests, Profile!EditSave(r)
    PROVE  Profile!ProfileInv'
<1>1. /\ v4[r].pc = "edit" /\ UNCHANGED <<v1, v2, v5, v6>> /\ Profile!Done(r)
      /\ v3' = v3 \cup v4[r].items
  BY DEF Profile!EditSave, Profile!Admin
<1>2. v4[r].items \subseteq RowItems[v1]
  BY <1>1, ProfileKnows DEF Profile!Call
<1>3. v7 => v4[r].items \subseteq v3 /\ Profile!Current
  BY <1>1, ProfileKnows DEF Profile!Fresh
<1>4. v7 => v3' = v3
  BY <1>1, <1>3
<1>5. v7 => Profile!Current'
  BY <1>1, <1>3, <1>4 DEF Profile!Current
<1>6. v7 /\ v6 # "none" => v2.status = v6
  BY <1>1, ProfileKnows DEF Profile!Keeps
<1> QED BY <1>1, <1>2, <1>5, <1>6, RowsOfProfile, ProfileEnds

\* The row alone is saved, with a rating, a status or nothing new.
LEMMA RowSaveKeeps ==
    ASSUME Profile!ProfileInv, NEW r \in Requests,
           Profile!RateSave(r) \/ Profile!ReviewSave(r) \/ Profile!VerifySave(r)
    PROVE  Profile!ProfileInv'
<1>1. /\ v4[r].pc \in {"rate", "review", "verify"} /\ UNCHANGED <<v1, v3, v5, v6>>
      /\ Profile!Done(r)
      /\ v2' = v4[r].row \/ (v4[r].pc # "review" /\ v2' = Profile!VerifiedRow(r))
  BY DEF Profile!RateSave, Profile!ReviewSave, Profile!VerifySave, Profile!Admin
<1>2. v4[r].row \in Profile!Detail /\ v2 \in Profile!Detail
  BY <1>1, ProfileKnows, RowsOfProfile DEF Profile!Holding
<1>3. /\ Profile!VerifiedRow(r) \in Profile!Detail
      /\ Profile!VerifiedRow(r).texts = v4[r].row.texts
      /\ Profile!VerifiedRow(r).score = v4[r].row.score
      /\ Profile!VerifiedRow(r).status = v2.status
  BY <1>2 DEF Profile!VerifiedRow, Profile!Detail
<1>4. v7 => v4[r].row.texts = v2.texts /\ v4[r].row.score = v2.score /\ Profile!Current
  BY <1>1, ProfileKnows DEF Profile!Fresh
<1>5. v7 => Profile!Current'
  BY <1>1, <1>3, <1>4 DEF Profile!Current
<1>6. v7 /\ v6 # "none" => /\ v4[r].row.status = v6
                           /\ v4[r].pc # "review" => v2.status = v6
  BY <1>1, ProfileKnows DEF Profile!Keeps, Profile!Holding
<1>7. v7 /\ v6 # "none" => v2'.status = v6
  BY <1>1, <1>3, <1>6
<1>8. v2' \in Profile!Detail
  BY <1>1, <1>2, <1>3
<1> QED BY <1>1, <1>5, <1>7, <1>8, RowsOfProfile, ProfileEnds

LEMMA ProfileStep == Profile!ProfileInv /\ Profile!Next => Profile!ProfileInv'
<1> SUFFICES ASSUME Profile!ProfileInv, Profile!Next PROVE Profile!ProfileInv'
  OBVIOUS
<1>1. CASE Profile!VerifyCompany
  BY <1>1, ProfileStands DEF Profile!VerifyCompany
<1>2. ASSUME NEW r \in Requests,
             \/ \E f \in RowForms[v1] : Profile!UpdateLoad(r, f)
             \/ Profile!UpdateSave(r) \/ Profile!UpdateScore(r)
             \/ Profile!EditSave(r) \/ Profile!RecalcLoad(r) \/ Profile!RecalcSave(r)
      PROVE  Profile!ProfileInv'
  BY <1>2, UpdateLoadKeeps, UpdateSaveKeeps, UpdateScoreKeeps, EditSaveKeeps, RecalcLoadKeeps,
     RecalcSaveKeeps
<1>3. ASSUME NEW r \in Requests, NEW i \in RowItems[v1],
             \/ Profile!AddChild(r, i) \/ Profile!DeleteChild(r, i) \/ Profile!EditLoad(r, i)
             \/ Profile!AddCertification(r, i) \/ Profile!DeleteCertification(r, i)
      PROVE  Profile!ProfileInv'
  BY <1>3, ChildKeeps, CertificationKeeps, EditLoadKeeps
<1>4. ASSUME NEW r \in Requests,
             \/ Profile!RateLoad(r) \/ Profile!RateSave(r)
             \/ \E s \in Profile!Reviewed : Profile!ReviewLoad(r, s)
             \/ Profile!ReviewSave(r) \/ Profile!VerifyLoad(r) \/ Profile!VerifySave(r)
      PROVE  Profile!ProfileInv'
  BY <1>4, LoadingKeeps, RowSaveKeeps
<1> QED BY <1>1, <1>2, <1>3, <1>4 DEF Profile!Next

LEMMA ProfileHolds ==
    Profile!ProfileInv => Profile!CompletenessIsCurrent /\ Profile!ReviewStands
BY DEF Profile!ProfileInv, Profile!InTurn, Profile!Decided, Profile!Current,
   Profile!CompletenessIsCurrent, Profile!ReviewStands

(***************************************************************************)
(* Services                                                                *)
(***************************************************************************)
\* Whichever component a behaviour is about, its invariant holds.
ServicesInv ==
    /\ focus = "profile" => Profile!ProfileInv
    /\ focus = "storage" => Storage!StorageInv
    /\ focus = "evaluation" => Evaluation!EvaluationInv
    /\ focus = "follow-up" => FollowUp!FollowUpInv
    /\ focus = "conversation" => Conversation!ConversationInv
    /\ focus = "sockets" => Sockets!GatewayInv
    /\ focus = "channels" => Channels!ChannelsInv
    /\ focus = "notifications" => Notify!NotifyInv

LEMMA ServicesInit == Init => ServicesInv
BY ProfileInit, StorageInit, EvaluationInit, FollowUpInit, ConversationInit, SocketsInit,
   ChannelsInit, NotifyInit
DEF Init, ServicesInv

LEMMA ServicesStep == ServicesInv /\ [Next]_all => ServicesInv'
<1> SUFFICES ASSUME ServicesInv, [Next]_all PROVE ServicesInv'
  OBVIOUS
<1>1. CASE Next
  <2>1. focus' = focus
    BY <1>1 DEF Next
  <2>2. focus = "conversation" => Conversation!ConversationInv'
    BY <1>1, ConversationStep DEF Next, ServicesInv
  <2>3. focus = "sockets" => Sockets!GatewayInv'
    BY <1>1, SocketsStep DEF Next, ServicesInv
  <2>4. focus = "channels" => Channels!ChannelsInv'
    BY <1>1, ChannelsStep DEF Next, ServicesInv
  <2>5. focus = "storage" => Storage!StorageInv'
    BY <1>1, StorageStep DEF Next, ServicesInv
  <2>6. focus = "evaluation" => Evaluation!EvaluationInv'
    BY <1>1, EvaluationStep DEF Next, ServicesInv
  <2>7. focus = "follow-up" => FollowUp!FollowUpInv'
    BY <1>1, FollowUpStep DEF Next, ServicesInv
  <2>8. focus = "profile" => Profile!ProfileInv'
    BY <1>1, ProfileStep DEF Next, ServicesInv
  <2>9. focus = "notifications" => Notify!NotifyInv'
    BY <1>1, NotifyStep DEF Next, ServicesInv
  <2> QED BY <2>1, <2>2, <2>3, <2>4, <2>5, <2>6, <2>7, <2>8, <2>9 DEF ServicesInv
<1>2. CASE UNCHANGED all
  <2>1. focus' = focus
    BY <1>2 DEF all
  <2>2. focus = "storage" => Storage!StorageInv'
    BY <1>2, StorageStutter DEF ServicesInv, all
  <2>3. focus = "evaluation" => Evaluation!EvaluationInv'
    BY <1>2, EvaluationStutter DEF ServicesInv, all
  <2>4. focus = "follow-up" => FollowUp!FollowUpInv'
    BY <1>2, FollowUpStutter DEF ServicesInv, all
  <2>5. focus = "profile" => Profile!ProfileInv'
    BY <1>2, ProfileStutter DEF ServicesInv, all
  <2>6. focus = "notifications" => Notify!NotifyInv'
    BY <1>2, NotifyStutter DEF ServicesInv, all, Notify!vars
  <2> QED BY <1>2, <2>1, <2>2, <2>3, <2>4, <2>5, <2>6, ConversationStutter, SocketsStutter, ChannelsStutter
          DEF ServicesInv
<1> QED BY <1>1, <1>2

\* What is sent to be told last is the status there is, so once nothing is to be sent the
\* other sockets were told it.
LEMMA PresenceFollows == Sockets!GatewayInv => Sockets!PresenceIsTold
BY DEF Sockets!GatewayInv, Sockets!PresenceIsTold, Sockets!StatusIsComing

\* The chat (chat.service.ts, chat.gateway.ts and the consumer of the desk's events) stays
\* consistent for any number of users, sockets, messages, applications and events: what is
\* counted unread was notified, a deleted message says nothing unless the save of an edition
\* had read it before its deletion, a user reacts at most once, no socket in a room misses a message, presence is told, and the jurado who was assigned
\* before its asesor accepted is in a private channel with it.
THEOREM ChatStaysConsistent == Spec => []ChatIsConsistent
<1>1. ServicesInv => ChatIsConsistent
  BY ConversationHolds, PresenceFollows
  DEF ServicesInv, ChatIsConsistent, Conversation!ConversationInv, Sockets!GatewayInv,
      Channels!ChannelsInv
<1> QED BY <1>1, ServicesInit, ServicesStep, PTL DEF Spec

\* The files of a user (storage.service.ts), for any number of files, requests, sizes and
\* restarts: however uploads, deletions, new versions and the cleanup overlap, the bytes
\* that are counted never pass the maximum, and an active file has its content and, without
\* a restart, is the latest of its versions unless the cleanup listed it while a new version
\* was under way; requests that come one after another count exactly the files there are.
THEOREM FilesStayAccounted == Spec => []FilesAreAccounted
<1>1. ServicesInv => FilesAreAccounted
  BY StorageHolds DEF ServicesInv, FilesAreAccounted
<1> QED BY <1>1, ServicesInit, ServicesStep, PTL DEF Spec

\* The evaluations of an application (evaluation.service.ts), for any requests, parties,
\* criteria, scores and restarts, and however often these have the event delivered again: a
\* party has one evaluation of each pair at most unless two creations of it overlapped, those
\* that wait for the completion come after it, once all is generated none is missing, and
\* the score of a completed evaluation is the mean of its ratings unless two submissions
\* of it overlapped.
THEOREM EvaluationsStayComplete == Spec => []EvaluationsAreComplete
<1>1. ServicesInv => EvaluationsAreComplete
  BY DEF ServicesInv, EvaluationsAreComplete, Evaluation!EvaluationInv
<1> QED BY <1>1, ServicesInit, ServicesStep, PTL DEF Spec

\* Interviews, deliverables and selections (application-service), for any number of rows,
\* uploads and requests: what stands approved is what its reviewer had read unless a save
\* slipped in between the statements of another; with requests in turn the revisions that
\* were asked for are counted and a rescheduled interview has its successor.
THEOREM ReviewsStayMatched == Spec => []ReviewsMatchFiles
<1>1. ServicesInv => ReviewsMatchFiles
  BY FollowUpHolds DEF ServicesInv, ReviewsMatchFiles
<1> QED BY <1>1, ServicesInit, ServicesStep, PTL DEF Spec

\* The profile of a student or a company (student.service.ts, company.service.ts), for any
\* children, forms and requests: where requests come one after another, the completeness is
\* that of the fields and children there are, and the status is the last one an
\* administrator gave.
THEOREM ProfileStaysCurrent == Spec => []ProfileIsCurrent
<1>1. ServicesInv => ProfileIsCurrent
  BY ProfileHolds DEF ServicesInv, ProfileIsCurrent, Profile!ProfileInv
<1> QED BY <1>1, ServicesInit, ServicesStep, PTL DEF Spec

\* notification-service (notification.subscriber.ts, createNotification) tells everybody, for
\* any publications that arrive together and any number of restarts, failures and requests:
\* whoever an acknowledged event names has his row, or a failure hit him or the try that
\* surrounds all recipients of his event, a mandatory mail is tried whatever its user prefers,
\* the other mails and the pushes follow his preferences, and the count his browser shows is
\* that of his unread rows, unless counts overlapped or an unread row was deleted.
THEOREM EverybodyStaysTold == Spec => []EverybodyIsTold
<1>1. ServicesInv => EverybodyIsTold
  BY NotifyHolds DEF ServicesInv, EverybodyIsTold
<1> QED BY <1>1, ServicesInit, ServicesStep, PTL DEF Spec

\* No save takes back what another request settled, but one whose request had read the row
\* when it was not yet settled: evaluations stay closed, deliverables approved and
\* interviews resolved, for every value of the constants.
THEOREM SettledStaysSettled == Spec => UndoneOnlyByEarlier
<1>1. ASSUME ServicesInv, Next
      PROVE  /\ focus = "evaluation" => Evaluation!SettledByEarlier
             /\ focus = "follow-up" => FollowUp!ReopenedByEarlier /\ FollowUp!UndoneByEarlier
  <2>1. focus = "evaluation" => Evaluation!SettledByEarlier
    BY <1>1, EvaluationSettled DEF ServicesInv, Next
  <2>2. focus = "follow-up" => FollowUp!ReopenedByEarlier /\ FollowUp!UndoneByEarlier
    BY <1>1, FollowUpUndone DEF ServicesInv, Next
  <2> QED BY <2>1, <2>2
<1>2. ServicesInv /\ [Next]_all =>
        [/\ focus = "evaluation" => Evaluation!SettledByEarlier
         /\ focus = "follow-up" => FollowUp!ReopenedByEarlier /\ FollowUp!UndoneByEarlier]_all
  BY <1>1
<1> QED BY <1>2, ServicesInit, ServicesStep, PTL DEF Spec, UndoneOnlyByEarlier
=============================================================================

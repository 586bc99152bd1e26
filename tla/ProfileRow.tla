------------------------------ MODULE ProfileRow ------------------------------
(***************************************************************************)
(* The profile of a student (student-service) or of a company              *)
(* (company-service): its row with the completeness, the status of the      *)
(* verification and the rating, and its children: skills, experiences,      *)
(* studies; contacts, areas and locations.                                  *)
(*                                                                          *)
(* A request loads the row, with its children or without, and saves the     *)
(* whole row afterwards: call keeps what each request has loaded. Texts are *)
(* the names of the fields that are filled. The events that follow a change *)
(* are in Onboarding. Profiles share no rows: one stands for all.           *)
(***************************************************************************)
EXTENDS Integers

CONSTANTS
    Requests,      \* slots for the requests that run at a time
    Items,         \* [role |-> the children a person may add]
    Forms,         \* [role |-> the updates a person may send: fields filled and emptied]
    None           \* no row

VARIABLES
    role,          \* student or company
    detail,        \* the row of the profile
    items,         \* its children
    call,          \* what runs in each slot
    verifying,     \* admin.company.verified events on their way
    decided,       \* history: the last status an administrator saved
    undisturbed    \* history: no two requests overlapped

vars == <<role, detail, items, call, verifying, decided, undisturbed>>
Admin == <<verifying, decided>>

(***************************************************************************)
(* What a profile counts                                                   *)
(***************************************************************************)
StudentWeight == [program |-> 10, semester |-> 10, bio |-> 10, skills |-> 15,
                  experiences |-> 15, education |-> 15, cvUrl |-> 10,
                  languages |-> 10, interests |-> 5]

CompanyWeight == [companyName |-> 10, legalName |-> 5, nit |-> 5, industry |-> 10,
                  companySize |-> 5, description |-> 15, website |-> 5,
                  logoUrl |-> 5, headquartersCity |-> 10, locations |-> 10,
                  contacts |-> 10, businessAreas |-> 10]

StudentNeeds == {"program", "semester", "studentCode", "bio", "skills"}
CompanyNeeds == {"companyName", "nit", "industry", "description",
                 "headquartersCity", "contacts", "businessAreas"}

Weight(r) == IF r = "student" THEN StudentWeight ELSE CompanyWeight

Filled(texts, its) == texts \cup {i.kind : i \in its}

isOnboardingReady(r, texts, its) ==
    (IF r = "student" THEN StudentNeeds ELSE CompanyNeeds) \subseteq Filled(texts, its)

calculateProfileCompleteness(r, texts, its) ==
    LET points(f) == IF f \in Filled(texts, its) THEN Weight(r)[f] ELSE 0
    IN IF r = "student"
       THEN points("program") + points("semester") + points("bio") + points("skills")
            + points("experiences") + points("education") + points("cvUrl")
            + points("languages") + points("interests")
       ELSE points("companyName") + points("legalName") + points("nit")
            + points("industry") + points("companySize") + points("description")
            + points("website") + points("logoUrl") + points("headquartersCity")
            + points("locations") + points("contacts") + points("businessAreas")

\* The changes of these children end in recalculateCompleteness, in both services;
\* that of a certification does not, for it counts nothing.
StudentChildren == {"skills", "experiences", "education", "languages", "interests"}
CompanyChildren == {"locations", "contacts", "businessAreas"}
Recalculated == StudentChildren \cup CompanyChildren

(***************************************************************************)
(* Rows                                                                    *)
(***************************************************************************)
VerificationStatus == {"pending", "verified", "rejected", "suspended"}

Texts == DOMAIN StudentWeight \cup DOMAIN CompanyWeight \cup {"studentCode"}

Detail == [texts : SUBSET Texts,
           score : 0..100,                \* profileCompleteness
           status : VerificationStatus,   \* verificationStatus, of a company
           rating : 0..1]

Steps == {"idle", "save", "score", "recalc", "rescore", "edit", "rate", "review",
          "verify"}

\* What a person sends fills fields that there are.
ProfileAssumption ==
    \A r \in {"student", "company"} : \A f \in Forms[r] : f.fill \subseteq Texts

Idle == [pc |-> "idle", row |-> None, items |-> {}]

TypeOK ==
    /\ role \in {"student", "company"}
    /\ detail \in Detail
    /\ items \subseteq Items[role]
    /\ \A r \in Requests : /\ call[r].pc \in Steps
                           /\ call[r].row \in Detail \cup {None}
                           /\ call[r].items \subseteq Items[role]
    /\ verifying \in 0..1
    /\ decided \in VerificationStatus \cup {"none"}
    /\ undisturbed \in BOOLEAN

\* createProfile by the event of the verification: a student with a first semester and
\* an empty program, a company with a name to be replaced; the row is saved twice, the
\* second time with its completeness, before its person can know of it.
NewDetail(r) ==
    LET texts == IF r = "student" THEN {"semester"} ELSE {"companyName"}
    IN [texts |-> texts, score |-> calculateProfileCompleteness(r, texts, {}),
        status |-> "pending", rating |-> 0]

Init ==
    /\ role \in {"student", "company"}
    /\ detail = NewDetail(role) /\ items = {}
    /\ call = [r \in Requests |-> Idle]
    /\ verifying = 0 /\ decided = "none"
    /\ undisturbed = TRUE

(***************************************************************************)
(* Updates and children                                                    *)
(***************************************************************************)
\* A request that starts disturbs, and is disturbed by, those that run.
Begin(r, new) ==
    /\ call[r].pc = "idle"
    /\ call' = [call EXCEPT ![r] = new]
    /\ undisturbed' = (undisturbed /\ \A q \in Requests : call[q].pc = "idle")

Done(r) == call' = [call EXCEPT ![r] = Idle] /\ UNCHANGED undisturbed
Goes(r, new) == call' = [call EXCEPT ![r] = new] /\ UNCHANGED undisturbed

Counted(its) == {i \in its : i.kind \in Recalculated}

\* save of a row that was loaded with its children, of which seen are there now, then
\* new. A child added meanwhile would lose its parent, which its column does not
\* allow, and the request fails; student-service cascades and inserts again those that
\* were deleted meanwhile.
SaveWith(r, row, seen, new) ==
    IF seen \subseteq call[r].items
    THEN /\ detail' = row
         /\ items' = IF role = "student" THEN items \cup call[r].items ELSE items
         /\ Goes(r, new)
    ELSE UNCHANGED <<detail, items>> /\ Done(r)

Sends(row, f) == [row EXCEPT !.texts = (@ \cup f.fill) \ f.empty]

\* updateProfile: the profile with its children and what was sent.
UpdateLoad(r, f) ==
    /\ Begin(r, [pc |-> "save", row |-> Sends(detail, f), items |-> items])
    /\ UNCHANGED <<role, detail, items, Admin>>

UpdateSave(r) ==
    /\ call[r].pc = "save"
    /\ SaveWith(r, call[r].row, items, [call[r] EXCEPT !.pc = "score"])
    /\ UNCHANGED <<role, Admin>>

\* Mutant of Scored: the completeness is computed without the children.
ScoredAlone(row, its) ==
    [row EXCEPT !.score = calculateProfileCompleteness(role, row.texts, {})]

Scored(row, its) ==
    [row EXCEPT !.score = calculateProfileCompleteness(role, row.texts, its)]

\* The second save of updateProfile, with the completeness; the profile is then read
\* again and announced.
UpdateScore(r) ==
    /\ call[r].pc = "score"
    /\ SaveWith(r, Scored(call[r].row, call[r].items), items, Idle)
    /\ UNCHANGED <<role, Admin>>

\* addSkill, addContact... and their batch: the child, then recalculateCompleteness.
AddChild(r, i) ==
    /\ i \notin items
    /\ items' = items \cup {i}
    /\ i.kind \in Recalculated /\ Begin(r, [Idle EXCEPT !.pc = "recalc"])
    /\ UNCHANGED <<role, detail, Admin>>

DeleteChild(r, i) ==
    /\ i \in items
    /\ items' = items \ {i}
    /\ i.kind \in Recalculated /\ Begin(r, [Idle EXCEPT !.pc = "recalc"])
    /\ UNCHANGED <<role, detail, Admin>>

\* addCertification and deleteCertification count nothing and end there.
AddCertification(r, i) ==
    /\ i.kind = "certifications" /\ i \notin items
    /\ items' = items \cup {i}
    /\ Begin(r, Idle)
    /\ UNCHANGED <<role, detail, Admin>>

DeleteCertification(r, i) ==
    /\ i.kind = "certifications" /\ i \in items
    /\ items' = items \ {i}
    /\ Begin(r, Idle)
    /\ UNCHANGED <<role, detail, Admin>>

\* updateSkill, updateLocation... save the child as it was loaded: one that was
\* deleted meanwhile is inserted again.
EditLoad(r, i) ==
    /\ i \in items
    /\ Begin(r, [Idle EXCEPT !.pc = "edit", !.items = {i}])
    /\ UNCHANGED <<role, detail, items, Admin>>

EditSave(r) ==
    /\ call[r].pc = "edit"
    /\ items' = items \cup call[r].items
    /\ Done(r)
    /\ UNCHANGED <<role, detail, Admin>>

RecalcLoad(r) ==
    /\ call[r].pc = "recalc"
    /\ Goes(r, [pc |-> "rescore", row |-> Scored(detail, items), items |-> Counted(items)])
    /\ UNCHANGED <<role, detail, items, Admin>>

RecalcSave(r) ==
    /\ call[r].pc = "rescore"
    /\ SaveWith(r, call[r].row, Counted(items), Idle)
    /\ UNCHANGED <<role, Admin>>

(***************************************************************************)
(* Ratings and the verification of a company                               *)
(***************************************************************************)
\* updateRating of either service: a row loaded without its children leaves them.
RateLoad(r) ==
    /\ Begin(r, [Idle EXCEPT !.pc = "rate", !.row = [detail EXCEPT !.rating = 1]])
    /\ UNCHANGED <<role, detail, items, Admin>>

RateSave(r) ==
    /\ call[r].pc = "rate"
    /\ detail' = call[r].row
    /\ Done(r)
    /\ UNCHANGED <<role, items, Admin>>

Reviewed == {"verified", "rejected", "suspended"}

ReviewedRow(s) == [detail EXCEPT !.status = s]

\* reviewCompany: approve, reject or suspend, whatever the status was.
ReviewLoad(r, s) ==
    /\ role = "company"
    /\ Begin(r, [Idle EXCEPT !.pc = "review", !.row = ReviewedRow(s)])
    /\ decided' = s
    /\ UNCHANGED <<role, detail, items, verifying>>

ReviewSave(r) ==
    /\ call[r].pc = "review"
    /\ detail' = call[r].row
    /\ Done(r)
    /\ UNCHANGED <<role, items, Admin>>

\* verifyCompany of admin-service records a decision and publishes it as an action on
\* a company, without the userId and the status that the handler reads.
VerifyCompany ==
    /\ role = "company" /\ verifying = 0
    /\ verifying' = 1
    /\ UNCHANGED <<role, detail, items, call, decided, undisturbed>>

\* The handler of admin.company.verified: a search by an undefined userId finds the
\* first company; the rest of its row is saved as it was.
VerifyLoad(r) ==
    /\ verifying = 1 /\ verifying' = 0
    /\ Begin(r, [Idle EXCEPT !.pc = "verify", !.row = detail])
    /\ UNCHANGED <<role, detail, items, decided>>

\* An undefined status is not saved.
VerifiedRow(r) == [call[r].row EXCEPT !.status = detail.status]

VerifySave(r) ==
    /\ call[r].pc = "verify"
    /\ detail' = VerifiedRow(r)
    /\ Done(r)
    /\ UNCHANGED <<role, items, Admin>>

Next ==
    \/ VerifyCompany
    \/ \E r \in Requests :
         \/ \E f \in Forms[role] : UpdateLoad(r, f)
         \/ UpdateSave(r) \/ UpdateScore(r)
         \/ \E i \in Items[role] :
              AddChild(r, i) \/ DeleteChild(r, i) \/ EditLoad(r, i)
              \/ AddCertification(r, i) \/ DeleteCertification(r, i)
         \/ EditSave(r) \/ RecalcLoad(r) \/ RecalcSave(r)
         \/ RateLoad(r) \/ RateSave(r)
         \/ \E s \in Reviewed : ReviewLoad(r, s)
         \/ ReviewSave(r) \/ VerifyLoad(r) \/ VerifySave(r)

Spec == Init /\ [][Next]_vars

(***************************************************************************)
(* Properties                                                              *)
(***************************************************************************)
Quiet == \A r \in Requests : call[r].pc = "idle"

\* Through any sequence of updates, children added, edited and deleted, ratings and
\* reviews, one at a time, the completeness is that of the fields and children.
CompletenessIsCurrent ==
    (undisturbed /\ Quiet) =>
        detail.score = calculateProfileCompleteness(role, detail.texts, items)

\* The status of a company is the last one an administrator reviewed it to, whatever
\* its own requests save and whatever admin-service publishes, one at a time.
ReviewStands ==
    (undisturbed /\ Quiet /\ decided # "none") => detail.status = decided

(***************************************************************************)
(* What every step keeps                                                   *)
(***************************************************************************)
\* What a request has in hand when it holds a row.
Holding == {"save", "score", "rescore", "rate", "review", "verify"}
Call == [pc : Steps, row : Detail \cup {None}, items : SUBSET Items[role]]
CallsFit ==
    /\ call \in [Requests -> Call]
    /\ \A r \in Requests : call[r].pc \in Holding => call[r].row \in Detail

Current == detail.score = calculateProfileCompleteness(role, detail.texts, items)

\* In turn there is one request at most, and what it has read is what there is.
Fresh(c) ==
    /\ c.pc = "save" => c.items = items
    /\ c.pc = "score" => c.row = detail /\ c.items = items
    /\ c.pc = "rescore" => c.row = Scored(detail, items) /\ c.items = Counted(items)
    /\ c.pc = "edit" => c.items \subseteq items
    /\ c.pc \in {"rate", "review", "verify"} => /\ c.row.texts = detail.texts
                                                 /\ c.row.score = detail.score
    /\ c.pc \in {"edit", "rate", "review", "verify"} => Current
InTurn ==
    undisturbed =>
        /\ \A r, q \in Requests : call[r].pc # "idle" /\ call[q].pc # "idle" => r = q
        /\ \A r \in Requests : Fresh(call[r])
        /\ Quiet => Current

\* In turn the last decision is stored, or is in the row of its request.
Keeps(c) ==
    /\ c.pc # "review" => detail.status = decided
    /\ c.pc \in Holding => c.row.status = decided
Decided ==
    undisturbed /\ decided # "none" =>
        /\ \A r \in Requests : call[r].pc # "idle" => Keeps(call[r])
        /\ Quiet => detail.status = decided

ProfileInv == TypeOK /\ CallsFit /\ InTurn /\ Decided
===============================================================================

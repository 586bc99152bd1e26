------------------------------ MODULE Onboarding ------------------------------
(***************************************************************************)
(* One person after the verification of the email: the base profile of      *)
(* user-service, the profile of the role (student-service, company-service, *)
(* or the supervisor of admin-service), and the flag of the base profile    *)
(* that says whether the onboarding is complete. The flag lives in          *)
(* user-service and what it says in another service, so it follows by       *)
(* events: every change of the profile publishes whether it is now ready.   *)
(*                                                                          *)
(* user-service handles up to Prefetch events of its queue at a time, each  *)
(* of which loads the base profile and saves it whole. Every handler        *)
(* catches its own errors, so what fails is acknowledged and gone.          *)
(*                                                                          *)
(* What makes a profile ready is in ProfileRow: here it is a value that a   *)
(* change sets. Two people share no rows: one stands for all.               *)
(***************************************************************************)
EXTENDS Integers, Sequences, FiniteSets, SequencesExt

CONSTANTS
    Requests,      \* slots for the requests that run at a time
    None,          \* no row
    Prefetch,      \* events user-service handles at a time
    MaxEvents,     \* bound on the queue of user-service
    MaxFaults,     \* bound on the handlers that fail
    MaxRestarts    \* bound on the restarts

\* The row of user_profiles.
Base == [onboarding : BOOLEAN,     \* isOnboardingComplete
         counted : BOOLEAN]        \* profileCompleteness is that of the fields

ASSUME OnboardingAssumption ==
    /\ None \notin Base /\ None \notin BOOLEAN
    /\ Prefetch \in Nat \ {0}
    /\ {MaxEvents, MaxFaults, MaxRestarts} \subseteq Nat

VARIABLES
    role,          \* student, company or faculty
    base,          \* the row of user_profiles
    settings,      \* whether its row of user_settings is there
    baseMsg,       \* auth.user.verified in the queue of user-service
    ready,         \* the profile of the role: whether it is ready, or None
    detailMsg,     \* auth.user.verified in the queue of its service
    call,          \* what runs in each slot
    queue,         \* profile.updated events of user-service, oldest first
    everReady,     \* history: the profile was ready once
    clean,         \* history: nothing overlapped, failed or was dropped
    faults, restarts

vars == <<role, base, settings, baseMsg, ready, detailMsg, call, queue, everReady,
          clean, faults, restarts>>
Messages == <<baseMsg, detailMsg>>
Counts == <<faults, restarts>>

(***************************************************************************)
(* Rows                                                                    *)
(***************************************************************************)
Roles == {"student", "company", "faculty"}

Steps == {"idle", "reload", "publish", "settings", "patch"}

Idle == [pc |-> "idle", ready |-> FALSE, row |-> None]

\* An event of the queue: whether the profile was ready and, once a handler has
\* loaded it, the base profile it will save.
Event(v) == [ready |-> v, row |-> None]

TypeOK ==
    /\ role \in Roles
    /\ base \in Base \cup {None}
    /\ settings \in BOOLEAN
    /\ baseMsg \in {"queued", "saved", "acked"}
    /\ ready \in BOOLEAN \cup {None}
    /\ detailMsg \in {"queued", "acked"}
    /\ call \in [Requests -> [pc : Steps, ready : BOOLEAN, row : Base \cup {None}]]
    /\ \A e \in Range(queue) : e.ready \in BOOLEAN /\ e.row \in Base \cup {None}
    /\ Len(queue) <= MaxEvents
    /\ everReady \in BOOLEAN /\ clean \in BOOLEAN
    /\ faults \in 0..MaxFaults /\ restarts \in 0..MaxRestarts

\* The event of the verification is in the queues of both services.
Init ==
    /\ role \in Roles
    /\ base = None /\ settings = FALSE /\ baseMsg = "queued"
    /\ ready = None /\ detailMsg = "queued"
    /\ call = [r \in Requests |-> Idle]
    /\ queue = <<>>
    /\ everReady = FALSE /\ clean = TRUE
    /\ faults = 0 /\ restarts = 0

(***************************************************************************)
(* The profiles of a verified user                                         *)
(***************************************************************************)
NewBase == [onboarding |-> FALSE, counted |-> TRUE]

\* createProfile of user-service on auth.user.verified: the profile, then its
\* settings. A redelivered event finds the profile and ends there.
CreateBase ==
    /\ baseMsg = "queued"
    /\ IF base = None
       THEN base' = NewBase /\ baseMsg' = "saved"
       ELSE base' = base /\ baseMsg' = "acked"
    /\ UNCHANGED <<role, settings, ready, detailMsg, call, queue, everReady, clean, Counts>>

CreateSettings ==
    /\ baseMsg = "saved"
    /\ settings' = TRUE /\ baseMsg' = "acked"
    /\ UNCHANGED <<role, base, ready, detailMsg, call, queue, everReady, clean, Counts>>

\* The handlers of auth.user.verified in student-service, company-service and
\* admin-service, each for its own role: nothing if the profile is there.
CreateStudent ==
    /\ role = "student" /\ detailMsg = "queued" /\ detailMsg' = "acked"
    /\ ready' = IF ready = None THEN FALSE ELSE ready
    /\ UNCHANGED <<role, base, settings, baseMsg, call, queue, everReady, clean, Counts>>

CreateCompany ==
    /\ role = "company" /\ detailMsg = "queued" /\ detailMsg' = "acked"
    /\ ready' = IF ready = None THEN FALSE ELSE ready
    /\ UNCHANGED <<role, base, settings, baseMsg, call, queue, everReady, clean, Counts>>

\* Mutant of CreateSupervisor: the event of a teacher is ignored.
CreateSupervisorNot ==
    /\ role = "faculty" /\ detailMsg = "queued" /\ detailMsg' = "acked"
    /\ UNCHANGED <<role, base, settings, baseMsg, ready, call, queue, everReady, clean, Counts>>

CreateSupervisor ==
    /\ role = "faculty" /\ detailMsg = "queued" /\ detailMsg' = "acked"
    /\ ready' = IF ready = None THEN FALSE ELSE ready
    /\ UNCHANGED <<role, base, settings, baseMsg, call, queue, everReady, clean, Counts>>

\* A handler of the event fails: it logs the error and the event is acknowledged.
CreateFails ==
    /\ faults < MaxFaults
    /\ \/ baseMsg \in {"queued", "saved"} /\ baseMsg' = "acked" /\ UNCHANGED detailMsg
       \/ detailMsg = "queued" /\ detailMsg' = "acked" /\ UNCHANGED baseMsg
    /\ faults' = faults + 1
    /\ clean' = FALSE
    /\ UNCHANGED <<role, base, settings, ready, call, queue, everReady, restarts>>

\* POST /users/profile by a person whose base profile is missing.
PostBase(r) ==
    /\ call[r].pc = "idle" /\ base = None
    /\ base' = NewBase
    /\ call' = [call EXCEPT ![r].pc = "settings"]
    /\ UNCHANGED <<role, settings, Messages, ready, queue, everReady, clean, Counts>>

PostSettings(r) ==
    /\ call[r].pc = "settings"
    /\ settings' = TRUE
    /\ call' = [call EXCEPT ![r] = Idle]
    /\ UNCHANGED <<role, base, Messages, ready, queue, everReady, clean, Counts>>

\* POST profile of student-service and company-service. A profile has no skill, no
\* contact and no area yet, so it is never ready, and created events set no flag.
PostDetail(r) ==
    /\ call[r].pc = "idle" /\ ready = None
    /\ role # "faculty"
    /\ ready' = FALSE
    /\ UNCHANGED <<role, base, settings, Messages, call, queue, everReady, clean, Counts>>

(***************************************************************************)
(* The profile of the role changes                                         *)
(***************************************************************************)
Elsewhere == UNCHANGED <<role, base, settings, Messages, queue, Counts>>
Telling == {"reload", "publish"}

\* The change is saved; the request then reads the profile again and publishes.
Change(r, v, next) ==
    /\ call[r].pc = "idle"
    /\ ready' = v
    /\ everReady' = (everReady \/ v)
    /\ clean' = (clean /\ \A q \in Requests : call[q].pc \notin Telling)
    /\ call' = [call EXCEPT ![r] = next]
    /\ Elsewhere

\* updateProfile, and the changes of skills, contacts and areas, which end in
\* recalculateCompleteness.
ChangeProfile(r, v) ==
    /\ role # "faculty" /\ ready # None
    /\ Change(r, v, [Idle EXCEPT !.pc = "reload"])

\* updateMyProfile of a supervisor, who may have no row yet, publishes what it saved.
ChangeSupervisor(r, v) ==
    /\ role = "faculty"
    /\ Change(r, v, [Idle EXCEPT !.pc = "publish", !.ready = v])

ReloadProfile(r) ==
    /\ call[r].pc = "reload"
    /\ call' = [call EXCEPT ![r] = [Idle EXCEPT !.pc = "publish", !.ready = ready]]
    /\ UNCHANGED <<ready, everReady, clean>> /\ Elsewhere

\* publishProfileUpdated.
Publish(r) ==
    /\ call[r].pc = "publish"
    /\ Len(queue) < MaxEvents
    /\ queue' = Append(queue, Event(call[r].ready))
    /\ call' = [call EXCEPT ![r] = Idle]
    /\ UNCHANGED <<role, base, settings, Messages, ready, everReady, clean, Counts>>

(***************************************************************************)
(* The base profile                                                        *)
(***************************************************************************)
Patching == \E q \in Requests : call[q].pc = "patch"
FlagLoaded == \E i \in DOMAIN queue : queue[i].row # None

\* updateProfile of user-service loads the base profile and saves the flag as it was.
\* The fields that were not sent are undefined: they hide those of the row from the
\* completeness, which may then count fewer.
PatchLoad(r) ==
    /\ call[r].pc = "idle" /\ base # None
    /\ \E c \in BOOLEAN :
         call' = [call EXCEPT ![r] = [Idle EXCEPT !.pc = "patch",
                                       !.row = [base EXCEPT !.counted = c]]]
    /\ clean' = (clean /\ ~FlagLoaded /\ ~Patching)
    /\ UNCHANGED <<ready, everReady>> /\ Elsewhere

PatchSave(r) ==
    /\ call[r].pc = "patch"
    /\ base' = call[r].row
    /\ call' = [call EXCEPT ![r] = Idle]
    /\ UNCHANGED <<role, settings, Messages, ready, queue, everReady, clean, Counts>>

Changes(v) == base.onboarding # v \/ ~base.counted

\* Mutant of FlagLoad: a flag that is set is not taken back.
FlagLoadSticky(i) ==
    /\ i <= Prefetch /\ queue[i].row = None
    /\ IF base # None /\ Changes(queue[i].ready)
       THEN queue' = [queue EXCEPT ![i].row =
               [onboarding |-> queue[i].ready \/ base.onboarding, counted |-> TRUE]]
       ELSE queue' = RemoveAt(queue, i)
    /\ clean' = (clean /\ base # None /\ i = 1 /\ ~FlagLoaded /\ ~Patching)
    /\ UNCHANGED <<role, base, settings, Messages, ready, call, everReady, Counts>>

\* setOnboardingStatus on one of the first Prefetch events of the queue: without a
\* base profile the event is dropped, without a change there is nothing to save.
FlagLoad(i) ==
    /\ i <= Prefetch /\ queue[i].row = None
    /\ IF base # None /\ Changes(queue[i].ready)
       THEN queue' = [queue EXCEPT ![i].row =
                        [onboarding |-> queue[i].ready, counted |-> TRUE]]
       ELSE queue' = RemoveAt(queue, i)
    /\ clean' = (clean /\ base # None /\ i = 1 /\ ~FlagLoaded /\ ~Patching)
    /\ UNCHANGED <<role, base, settings, Messages, ready, call, everReady, Counts>>

FlagSave(i) ==
    /\ queue[i].row # None
    /\ base' = queue[i].row
    /\ queue' = RemoveAt(queue, i)
    /\ UNCHANGED <<role, settings, Messages, ready, call, everReady, clean, Counts>>

\* The handler fails; its error is logged and the event acknowledged.
FlagFails(i) ==
    /\ faults < MaxFaults
    /\ faults' = faults + 1
    /\ queue' = RemoveAt(queue, i)
    /\ clean' = FALSE
    /\ UNCHANGED <<role, base, settings, Messages, ready, call, everReady, restarts>>

\* The services restart: their requests end where they are, and the events that
\* were not acknowledged are delivered again.
Restart ==
    /\ restarts < MaxRestarts
    /\ restarts' = restarts + 1
    /\ call' = [r \in Requests |-> Idle]
    /\ queue' = [i \in DOMAIN queue |-> Event(queue[i].ready)]
    /\ baseMsg' = IF baseMsg = "saved" THEN "queued" ELSE baseMsg
    /\ clean' = (clean /\ \A r \in Requests : call[r].pc = "idle")
    /\ UNCHANGED <<role, base, settings, ready, detailMsg, everReady, faults>>

(***************************************************************************)
(* Next                                                                    *)
(***************************************************************************)
Next ==
    \/ CreateBase \/ CreateSettings \/ CreateFails
    \/ CreateStudent \/ CreateCompany \/ CreateSupervisor
    \/ \E r \in Requests :
         \/ PostBase(r) \/ PostSettings(r) \/ PostDetail(r)
         \/ \E v \in BOOLEAN : ChangeProfile(r, v) \/ ChangeSupervisor(r, v)
         \/ ReloadProfile(r) \/ Publish(r) \/ PatchLoad(r) \/ PatchSave(r)
    \/ \E i \in DOMAIN queue : FlagLoad(i) \/ FlagSave(i) \/ FlagFails(i)
    \/ Restart

\* RabbitMQ delivers what it holds, a handler that has started goes on, and so does
\* a request.
Fairness ==
    /\ WF_vars(CreateBase) /\ WF_vars(CreateSettings)
    /\ WF_vars(CreateStudent \/ CreateCompany \/ CreateSupervisor)
    /\ \A r \in Requests : WF_vars(PostSettings(r))

Spec == Init /\ [][Next]_vars /\ Fairness

(***************************************************************************)
(* Properties                                                              *)
(***************************************************************************)
Quiet == queue = <<>> /\ \A r \in Requests : call[r].pc = "idle"

\* While changes and events are served one at a time and none is lost, the flag of
\* the base profile says, once everything is served, whether the profile is ready.
FlagFollowsProfile ==
    (clean /\ Quiet /\ base # None /\ ready # None) => base.onboarding = ready

\* However requests, events and restarts interleave, the flag is never set, nor about
\* to be, for a person whose profile has never been ready.
FlagWasEarned ==
    \/ everReady
    \/ /\ base # None => ~base.onboarding
       /\ \A i \in DOMAIN queue : ~queue[i].ready
       /\ \A r \in Requests : call[r].row # None => ~call[r].row.onboarding

\* A base profile has its settings once its creation has ended, unless a handler has
\* failed or a restart came between the two saves, which nothing repairs.
ProfileHasSettings ==
    (/\ base # None /\ baseMsg = "acked" /\ faults = 0 /\ restarts = 0
     /\ \A r \in Requests : call[r].pc # "settings") => settings

\* A verified user gets a base profile with its settings and the profile of the role,
\* whatever else goes on, unless a handler fails or a restart cuts the creation.
Served == (base # None /\ settings /\ ready # None) \/ faults > 0 \/ restarts > 0
VerifiedIsServed == <>Served
===============================================================================

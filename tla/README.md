# CollabU backend in TLA+

CollabU is a platform on which students apply to projects of companies, and on which a university
accompanies the projects that start: an advisor (*asesor*), a jury (*jurado*) for the proposal
(*anteproyecto*) and one for the defence, documents, a final grade. The backend is fourteen NestJS
services under `src/services`. Each has a PostgreSQL database of its own, reached through TypeORM; they
call each other over HTTP and publish events on one RabbitMQ topic exchange.

This directory holds the TLA+ modules that model the backend, the configurations with which TLC checks
them and the theorems that TLAPS proves about them. `PROJECT.json` says which lines of the source each
definition translates.

Contents: [1 The system](#1-the-system) · [2 Plan](#2-plan) · [3 Modules](#3-modules) ·
[4 Runs](#4-runs) · [5 Fairness](#5-fairness) · [6 Proofs](#6-proofs) ·
[7 Where the code and its words disagree](#7-where-the-code-and-its-words-disagree) ·
[8 Not modelled](#8-not-modelled)

## 1 The system

### 1.1 How a handler runs

Every property below comes down to a few habits of the code, which hold in all services.

* **No transactions.** A handler is a chain of `await`s: read a row, decide, save it, save another, call a
  service, publish an event. Between two of them any other request may run, in the same process or in
  another, and the process may restart. What was saved stays saved.
* **Whole-row saves.** `repository.save(entity)` is two statements: it reads the row again and then updates every
  column in which the entity in memory differs from it. A column that the handler never touched, but that
  somebody else changed before this second reading, is therefore written back as it was; what is changed between
  the reading and the update is kept beside it. `ChatConversation` (messages) and `FollowUp` model both statements,
  because two requests are enough there to break what one would expect. Elsewhere a save is one step that writes
  the whole row: with the checks those handlers make, it takes a third request inside the window of one save to
  tell the difference.
* **Calls that nobody waits for.** `MicroserviceHttpClient` gives a call five seconds; most callers log the
  error and go on, several do not even wait. A call that timed out may still be served.
* **Events.** A consumer acknowledges a message when its handler ends. A failing handler has the message
  published again on the exchange after a delay (so every queue bound to it gets another copy) and the first
  one acknowledged at once; after the last retry it is rejected. The rejected message is meant for a dead-letter
  queue, but only the exchange of the dead letters is declared, so the broker discards it. Many handlers swallow
  their errors, which counts as success.
* **Unique keys** are the only thing the databases add: a second insertion of the same key fails.

### 1.2 Components

| component | state it keeps | operations | talks to | hard part | correct when |
|---|---|---|---|---|---|
| assignment desk (`admin-service`) | rows of `supervisor_assignments` (asesor, two kinds of jurado), `currentStudents` | assign, accept, decline, replace, disconnect, own profile | calls application- and project-service; hears `academic.anteproyecto.approved` | two statements per decision; four saves and two calls per replacement | one asesor at a time, counters match the rows, an answer is final |
| application lifecycle (`application-service`) | `applications.status`, deliverables, academic record, submission | apply, transitions of the company, withdraw, interviews, the three internal calls of the desk, final grade, cancellation | called by the desk; calls project-, student-, company-service | the desk and the company write the same column; late, lost and repeated calls | an accepted asesor leads to a record and a start; finished is finished |
| anteproyecto (`application-service`) | submission row (status, version, votes, corrections, two deadlines), its history | submit, comment, correct, vote, extend, expire | asks admin-service for roles, active jurados and settings | votes saved over votes, reviews against deliveries and expiry, failures read as empty lists | unanimity on one version, limit of corrections, somebody always has a deadline |
| academic record and documents (`application-service`) | record status, documents, final documents | upload and review documents; agreement; finalization | asks admin-service for roles and the catalogue | checks of one row before the save of another, failures read as empty lists | no phase without its precondition |
| interviews, deliverables (`application-service`) | two small status machines | schedule, complete, cancel, reschedule; submit, review, bulk creation | – | a review of a version that was replaced | each review belongs to the version it saw |
| project access (`application-service`) | none | permission of a role in a project | asks admin-service | a failure of the call reads as "no role" | only an active assignment gives a permission |
| projects (`project-service`) | `projects.status`, counters of views and applications | create, review, update, start, close, delete | called by the desk and by applications; hears events | a view saves the whole row; calls and events both count | `VALID_TRANSITIONS`, counters count |
| event bus (`shared`) | queues, retries | publish, deliver, retry, reject | everybody | a retry reaches every queue; a restart loses the pending timer; the last failure discards the message | no queue loses an event before its own handler failed all its tries |
| HTTP client, circuit breaker, retry helper (`shared`) | breaker state | call | everybody | the breaker and the retry helper have no caller | – |
| sessions (`auth-service`) | users, refresh tokens, single-use tokens, failed logins | register, verify, login, refresh, logout, reset, deactivate | publishes `auth.*` | rotation and revocation of tokens race | a revoked session stays revoked |
| base profiles (`user-`, `student-`, `company-service`) | profile rows, onboarding and verification flags | created by `auth.user.verified`, edited by their owner | hear `auth.*`, `student.*`, `company.*`, `admin.*` | events of three publishers in any order, errors swallowed | the flag repeats the profile |
| evaluations (`evaluation-service`) | evaluations of both sides | create by event and by hand, submit, expire hourly | hears `academic.completed`; asks application-service | find-then-save per pair; submit against expiry | one evaluation per pair, a submitted one counts |
| channels and chat (`chat-service`) | channels, members, conversations | create, add, close, send | hears the events of the desk | events of one project on several queues; find-or-create | members follow the assignments |
| notifications (`notification-service`) | notifications, preferences, emails | one per event and recipient | hears everything | a retried event | one notification per event |
| matching (`matching-service`) | stored results and recommendations | compute, invalidate | hears profile and project events | results computed from old profiles | a stored result is no older than the profile |
| storage (`storage-service`) | files, used quota | upload, delete, new version, cleanup | – | quota read early and saved late | quota is the sum of the files |
| companies, periods, settings (`admin-service`) | verification, current period, catalogues | CRUD, verify | publishes `admin.company.*` | two current periods | one current period |
| gateway (`api-gateway`) | none | check the token, choose the service | asks auth-service, forwards to all | public prefixes, routes, guards and permissions are four lists | who may do something gets to its handler |
| analytics (`analytics-service`) | none that a decision reads | aggregate | asks everybody | – | – |

`PROJECT.json` lists the same components with their status, and under `hazards` every place where this code
can go wrong in a way a test would hardly reach, each with its line and the properties that watch it.

### 1.3 The core

The desk and the application lifecycle are the heart of the platform and the place where two services change
one thing together:

```
 admin-service                                   application-service
 assignSupervisor  --- PATCH pending-supervisor --> accepted -> pending_supervisor
 declineAssignment --- PATCH revert-accepted -----> pending_supervisor -> accepted
 acceptAssignment  --- PATCH start-progress ------> in_progress, deliverables, record, submission
                                                       ^ company, student, admin write the same row
```

None of the three calls is repeated, ordered or conditional on what came of an earlier one.

## 2 Plan

In the order of what matters most. A tick marks what this directory has.

1. ✔ **Core.** `AcademicCalls`, `SupervisorAssignment`, `ApplicationLifecycle`, composed in `AcademicProcess`;
   `AdvisorSeat` as the abstract specification of the desk. Theorems: types; the desk implements
   `AdvisorSeat` when requests do not overlap, its counter is right and there is one jurado of the defence;
   records are backed by an answer, keep their assignment and get their submission; copies are bounded.
2. ✔ **Anteproyecto** (`Anteproyecto`): versions, corrections, votes, deadlines and expiries, with requests
   that overlap. Theorems: all its invariants.
3. ✔ **Academic record** (`AcademicRecord`): documents, agreement, finalization. Theorems: all its properties.
4. ✔ **Projects** (`ProjectLifecycle`): status machine, reviews, whole-row saves of views, the counter that
   calls and events both move. Theorems: types, nothing public without review, what is over stays over.
5. ✔ **Sessions** (`AuthSessions`): login and lockout, rotation, revocation, mailed tokens. Theorems: all its
   properties.
6. ✔ **Delivery** (`EventBus`, `Onboarding`, `CircuitBreaker`, run together by `MCDelivery`): queues with
   retries by republication, and the profiles that events create and keep in step.
7. ✔ **The other services** (`ProfileRow`, `Routes` and `Requests`, `StoredFiles`, `Evaluations`, `FollowUp`,
   `ChatConversation`, `ChatGateway`, `ChatChannels`, `EventContracts` and `Notifications`, put side by side by
   `Services`): each with the properties of the table above.
8. ✔ **The theorems** of the core, of the projects and sessions, of `Delivery` and of eight of the nine components
   of `Services` (section 6).

Left: the requirements, deliverables and activities of a project, should a rule ever read them. `Requests` gets no
theorem: it has no constants, so the run of TLC visits every state that there is.

Bounds for all of them: one or two entities, two actors of each kind that can race, one request slot where a
property is about sequences and two where it is about overlaps.

## 3 Modules

`AcademicCalls` – the identifiers both services use and the set `calls` of HTTP requests between them. A call
is in the set from when it is sent until its handler ends; its field `pc` is the step of that handler. The
set has no order, so a call can be overtaken by a later one, as with a handler that outlives the five seconds
of its caller. The supervisor in a call stands for the assignment id in its body.

`SupervisorAssignment` – the desk. Rows of `supervisor_assignments` are found by project, student, role and
supervisor (the unique key), so each role is a function from applications and supervisors to a status: `asesor`,
`jurado`, `juradoFinal`. `currentStudents` is the counter column. `req` holds, for each slot in `Requests`, the
handler that runs there: the step it has reached and what it has read. One action per database write or call:
`AssignCheck` is what `assignSupervisor` reads and refuses, `AssignInsert`, `AssignCount`, `AssignCall`,
`AssignJurado`, `JuradoInsert` and `AssignDone` what it does next; the other handlers likewise. An insertion that
breaks the unique key ends the handler with an error and leaves what it had saved. A refused request changes
nothing and has no action. `acceptAssignment` also tells project-service that the project has started; that call is
`StartSave` of `ProjectLifecycle`.

`AdvisorSeat` – what the desk promises about the asesor, as a specification of its own: a seat with one
holder, who may confirm or refuse; nobody sits in it twice and a refusal closes it.
`SupervisorAssignment!ImplementsSeat` instantiates it with the rows of an application.

`ApplicationLifecycle` – application-service. `status` is `Application.status`; `record`, `recordStatus` and
`submission` say whose assignment the academic record was created for, whether it is open, completed or
cancelled, and whether its anteproyecto exists; `deliverables` counts how often the project's templates were
copied. `user` holds the requests of companies, students and admins: `CompanyCheck` (`updateStatus` with the
table `STATUS_TRANSITIONS`), `WithdrawCheck`, `DeactivateCheck`, `NotesCheck` (a whole-row save),
`ProgressCheck` (everything that saves the record as open) and `CloseCheck` (final grade, cancellation) read;
`UserSave`, `ProgressRecord`, `CloseRecord` and `CloseApplication` write. `Shift*` and `Start*` serve the
calls of the desk, step by step. `LoseCall` drops a call before it is served; `ApplicationCrash` ends
everything that runs in the process.

`AcademicProcess` – both, with the properties that need both.

`Anteproyecto` – the anteproyecto of one application (rows of different applications never meet).
`submission` is the row of `academic_submissions`, `panel` the jurados whose assignment is accepted (it only
shrinks: jurados are assigned before the asesor accepts, and disconnected one by one or by the approval),
`history` the votes of `submission_history`, `record` the status of the academic record as far as the
approval moves it. A slot of `req` holds the row as its handler loaded it; the save at the end writes that
row, changed by the handler, over whatever is stored then. So `SubmitCheck`/`SubmitSave`,
`CommentLoad`/`CommentSave`, `CorrectCheck`/`CorrectSave`, `ExtendCheck`/`ExtendSave` and
`ExpireCheck`/`ExpireSave` are the two ends of a handler, and a vote has four steps: `VoteCheck` loads and
refuses, `VotePoll` lists the active jurados (a failed call gives an empty list) and writes the history,
`VoteSave` decides and saves, `RecordSave` moves the record after an approval. A deadline is set or null; one
that is set may have passed, so `ExpireCheck` is possible whenever one is set for whose turn it is. `Limits`
is what reading `anteproyecto.max_corrections` may give: the setting, or the fallback.

`AcademicRecord` – the record of one application from the approval of its anteproyecto to its end. `record` is the
row of `project_academic_records`: its status, and whether it has the agreement, the alert of `getProgress` and the
grade. `approved` is the status of the submission as the checklist reads it, `selected` the rows of
`project_document_requirements`, `finals` those of `final_document_requirements`, `docs` the status of the document
of each, `application` the status of the application. A handler that saves the record checks and keeps the row it
made of the loaded one (`AgreementCheck`, `AlertCheck`, `FinalizationCheck`, `AdvanceCheck`, `GradeCheck`,
`CancelCheck`, `ApproveRecord`), and `RecordSave` writes it over whatever is stored then; `FinalsSave` comes before
it in `startFinalization`, `ApplicationSave` after it in `uploadFinalGrade` and `cancelFinalization`.
`SelectCheck`/`SelectionSave` and `UploadCheck`, `UploadFinalCheck`, `ReviewCheck`/`DocumentSave` are the requests
about documents. The handlers that change the application and look at no record save its status in `StatusSave`:
the company or an admin who ends it (`UpdateStatusCheck`; `byHand` remembers that it was completed so), the student
who withdraws, a later acceptance that starts it again, and `updateNotes`. The progress alert is possible at any
time, since time is left out; `CatalogueMayFail` lets the catalogue of admin-service fail to be read. No code sets
the status `waiting_agreement`.

`AuthSessions` – auth-service. `user` is the row of an account (verified, active, locked, failed logins, the
password), `refresh` the rows of `refresh_tokens` with the token each was traded for, `mail` the tokens of
verification and reset. `call` holds what a call has read; `LoginSave`/`LoginIssue`,
`Rotate` with its `Issue`, `ResetUser`/`ResetMark`/`ResetRevoke` and the others are the statements of a handler in
their order. A login saves the whole account as it read it; the others update columns, so the
distinction of `save` and `update` is kept. A session also carries what the properties need to know: whether it
began before a change of the password (`pre`) and whether a call that overlapped the change opened it (`late`).
`wrong` and `overlapped` are history of the same kind. Locks and tokens expire at any moment.

`ProjectLifecycle` – project-service, one project. `project` is its row (status, reviewed, document, skills,
`applicationsCount`), `req` the row that each request loaded, `application`, `calls` and `events` what
application-service does about it: its call when a student applies (`ApplySave`, `CallLost`), its event when one is
accepted (`Accept`), delivered again after a restart (`RestartUnacked`). Each of `UpdateSave`, `UpdateStatusSave`,
`ViewSave`, `StartSave` and `IncrementSave` writes the loaded row over the stored one. `VALID_TRANSITIONS`,
`PUBLIC_STATUSES` and `OwnerMayMove` are the tables of the source.

`Onboarding` – one verified person: `base` and `settings` of user-service, the profile of the role in its own
service, and the flag of `base` that follows it by the events in `queue`, of which user-service handles
`Prefetch` at a time (`FlagLoad`, `FlagSave`). `PostBase`, `PostDetail`, `ChangeProfile`, `ReloadProfile`, `Publish`,
`PatchLoad` and `PatchSave` are the requests that do the same by hand; `CreateFails` and `FlagFails` are handlers
that swallow an error.

`EventBus` – `event-subscriber.service.ts` and `event-publisher.service.ts`: per queue the bag of what is queued,
unacknowledged and waiting for a retry. `Failed` acknowledges and starts the timer; `Republish` sends to the
exchange, that is to every queue.

`CircuitBreaker` – `circuit-breaker.ts` and `retry.ts`. The failures, the total that is never reset, the three
states; results of calls arrive in any order.

`ProfileRow` – the row of a student's or a company's profile with its children, completeness, rating and
verification. `*Load` and `*Save` are the two ends of a request; `RecalcLoad`/`RecalcSave` the recomputation that
follows a change of a child; `VerifyCompany` is the decision in admin-service, whose event names no company user,
so that `VerifyLoad` finds the first one there is.

`Routes` – the routes of all controllers as data, in the order of their declaration. `Requests` – one request
through the gateway (`identity`, public prefixes, choice of a service), the match of a route, its guards, the
parsing of identifiers, and in application-service `resolveViewer` and `authorize` with the rows of the desk;
calls between services skip the gateway; `Download` asks `canAccessFile`, the check that storage-service delegates.

`StoredFiles` – files, versions, content on the disk and quota of one user. Upload, deletion, new version and
cleanup are split at every statement (`Upload*`, `Delete*`, `Version*`). The cleanup lists deleted files of any
age, since its route takes any number of days, and removes content, versions and row of each in turn (`List`,
`Unlink`, `Forget`, `Remove`); `swept` holds the files that were listed while a new version of them was under way.
`Bytes` names every byte of every active file, so that the sum of the sizes, which the quota must count, is a
cardinality.

`Evaluations` – the evaluations of one application: the subscriber works through `todo`, `LookUp` and
`Generate` being the two statements of a creation; a request by hand does the same; `SubmitStart` to `SubmitSave`
are those of a submission, and `Overdue` is what the hourly job expires. The event may be delivered again after a
restart, in the middle of its handler or after all of it. `doubled` holds the pairs of which two creations have
overlapped, `overlapped` the evaluations with two submissions at a time and `cut` those whose submission a restart
ended; `swallowed` says that the subscriber caught an error. The properties except these and nothing else. The
score is kept as the set of the ratings it is the mean of, the criteria being the ones of the pair; a new row takes
any free id.

`FollowUp` – interviews, deliverables and selection documents: `Read` reads a row, and what the handler made of it
(`Changed`, per operation) is saved in two statements: `SaveSelect` reads the row again and `SaveUpdate` writes the
columns that differed then (`Merged`). `slipped` holds the rows with files that changed between the two. `RescheduleInsert`
adds the successor of an interview after its old row is saved.

`ChatConversation`, `ChatGateway`, `ChatChannels` – chat-service: the rows of one conversation, the sockets that
show it, the channels that follow the desk. The first splits requests at each statement, the two of the save of a
message included (`SaveSelect`, `SaveUpdate`; `slipped` holds the messages that changed between them), and saves
the row of a participant in one: whatever comes between the two statements there has come between loading and
saving, which `raced` excepts already; the second keeps what every socket has been shown; the third takes the
events of `Scenarios` in any order and looks up the assignments as they are when a handler runs.
`JuradoMeetsAsesor` of the third speaks of every acceptance that was handled without a fault: if the jurado was
assigned and had accepted before the asesor did (`early`), the two share a private channel, however the handlers
have overlapped since.

`EventContracts` – the payloads the services publish and what the subscriptions read, as two sets of records.
`Notifications` – how one such event becomes rows, pushes, counts and mails, recipient after recipient, while
users read, delete and change their preferences.

`MCDelivery` and `Services` put components that share no state side by side: `focus`, chosen in the initial state
and never changed, says which component a behaviour is about, and the variables of the others stay 0. Each property
of such a module is a conjunction of properties of the components, each under its focus, and fails when any of them
does. Both are parameterised like any component, so that their theorems hold for every instance; `MCServices` gives
`Services` the small one that TLC checks, and `Foci` the components a run is about. The other MC modules give
constants, bounds and symmetry. `*Proofs` hold the theorems: those of a component in the module of its name, those
of the desk alone and of the desk with the lifecycle in `AcademicProcessProofs`, those of `MCDelivery` in
`DeliveryProofs`, those of all parts of `Services` in `ServicesProofs`, with the lemmas about the chat, the
notifications and the follow-up in `MessagingProofs`.

Abstractions, all of them: consecutive reads of a handler are one step; ids, texts, dates and files are left out;
the rows of histories and logs, which no handler reads back, are left out; an event is modelled where its
subscriber is (the one the desk hears, the approval of the anteproyecto, is `AutoDisconnect`, one round of its
loop, which may happen at any time); in `ApplicationLifecycle` the seven open statuses of a record are one, so each
action on an open record is possible whenever one of them allows it.

## 4 Runs

Two runs show a disagreement (section 7); the others pass.

| run | instance | shows |
|---|---|---|
| `Desk` (`CalmSpec`: no restarts, which lose the counter) | 2 applications, 2 active supervisors with room for one student each and an inactive one, every list of jurados, one request at a time | `ImplementsSeat`, `SingleLiveAsesor`, `AnsweredRowsFinal`, `SingleJuradoFinal`, `CounterMatchesRows` |
| `ProcessFaults` | 1 new application, 2 supervisors, one request at the desk and one of a user, lost calls, restarts of both services | types, `RecordOnce`, `CopiesPerAcceptance` |
| `ProcessTwice` | 1 application, 1 supervisor, two requests at the desk at a time, fair | `RecordBacked`, `RecordHasSubmission`, `AcceptanceStarts` |
| `ProcessServed` | 1 application, 2 supervisors, a user who interferes, no losses, fair | `AcceptanceOpensRecord` |
| `Anteproyecto` | 2 jurados, two requests at a time, 2 versions, a limit of one correction, restarts, failing lists | `CorrectionsBounded`, `VotesAreForVersion`, `ApprovedByPanel`, `TurnHasDeadline` |
| `Record` | 2 documents of the catalogue and 2 final ones, one of each mandatory, one request at a time, restarts, a catalogue that can be read | `PhaseBacked`, `PhaseOrder`, `DocumentGates`, `CompletedIsGraded` |
| `Projects` | 1 student, 2 documents, 1 skill, two requests at a time, 1 restart | `PublicWasReviewed`, `CounterFollows`, `OverUnlessStale` |
| `Sessions` | 1 account, 2 passwords, 2 sessions, 1 mailed token, two calls at a time, a lock after 2 failures, 1 restart | `PasswordChangeEndsSessions`, `OpenSessionHasNoSuccessor`, `CountIsExact`, `VerificationSticks` |
| `Delivery` (fair) | a person with two requests and two events at a time, 1 fault, 1 restart; the bus with 2 queues, 1 event, 2 retries, 1 restart; the breaker with two calls at a time | `ProfilesFollow`, `NothingForgotten`, `EveryoneIsServed`, `BusSettles`, `FailedProbeReopens` |
| `Services` | the nine components side by side, each on the instance that `MCServices` gives it | `ProfileIsCurrent`, `RequestsArrive`, `FilesAreAccounted`, `EvaluationsAreComplete`, `ReviewsMatchFiles`, `ChatIsConsistent`, `EverybodyIsTold`, `UndoneOnlyByEarlier` |
| `AnteproyectoVoteLost` | 2 jurados, two requests at a time, no restart, nobody leaves | two jurados vote and one vote is lost |
| `ChannelIsClosed` | the events of one or two applications, in order or two at a time | the channel of asesor and jurado stays open |

Why the bounds are enough.

*The core.* The rows of different applications meet only in `currentStudents` and `HasRoom`, so two applications
show every effect of one on another, and everything else is per application. Two active supervisors are an
asesor and the one who replaces him; the inactive third is there for the loops over jurados, which stop at one.
Two slots are what a race of two checks needs. A supervisor may be replaced, and the new one accept, while the
first one's call is still served, so two supervisors give every overlap of two `start-progress` handlers.
Constraints of the MC modules cut behaviour in three places: `OneJury` (`Desk`: only one of the two applications
has jurados; jurados of different applications do not meet), `NoProfile` (`Process*`: nobody saves a supervisor's
profile, which touches nothing but the counter that only `Desk` looks at), `FewVotes` and `OneClerk`
(`Anteproyecto`: two votes in the history, and one request at a time that is neither the student's nor a
jurado's), with `MaxVersions` in the guard of `SubmitCheck`. Two votes are what an approval by two jurados needs,
or a vote for each of two versions. In `Record` a mandatory document and one that is not, of each kind, are all a
checklist can tell apart, and one slot is what its properties speak of; that `PhaseBacked` holds of overlapping
requests too is proved.

*Projects and sessions.* Accounts share nothing but tokens, which are found by their value, and projects share
nothing: one of each is enough, and the theorems hold for any number. Two sessions are one that is traded and its
successor, or an old one and one opened during a change; two calls are one race, and every pair of handlers gets
to race. `MaxCount` bounds the wrong passwords in a row.

*Delivery.* A second queue is what shows that a retry reaches a handler that had succeeded, and a second retry
that copies multiply (`BusRetries`; the code has three). Two events at a time are what reorders the flag of a profile.
Two calls are what a result that comes late for the breaker needs; it opens at `ErrorThreshold`, the fifty percent
of the code, of a `VolumeThreshold` of two calls, and a call is tried again once (`BreakerRetries`). `MaxTotal`
bounds the total, which the code never resets, at six: enough to open, probe, and open again.

*Services.* `StoredFiles`: one file with two sizes, two or three bytes of quota, three writes: enough for an
upload, a version and a deletion to overlap in pairs, for a full quota and for the growth of a version.
Two constraints of `MCServices` go with it: `ThreeWritesInOneRun` allows a third write or a restart, not both, and
`SameInterview` lets two requests at a time be about the same interview, as only the application is shared besides.
`Evaluations`: one pair that waits for the completion and one that does not, two criteria. `FollowUp`: two
interviews, since one is the successor of the other, and one row of the other kinds with three or two uploads.
`ChatConversation`: two people, two messages, in three mixes of operations, each with every pair overlapping.
`ChatGateway`: two sockets, one message. `ChatChannels`: two handlers for one application, or more events one at a
time, as a comment of `MCServices` says. `Notifications`: every publication there is, alone and in four mixes
with another or with the requests of users. `Requests`: every route with every sender and every token, each with
all the seats one teacher can have. One or two restarts and one fault per behaviour, at any step.

The history of a person, a file or a channel is bounded in length, so `Delivery`, `Services`, `Sessions`,
`Projects` and `ChannelIsClosed` really stop (a removed project, all events handled, all
writes used) and do not check for deadlock. The other runs do: there is always a request that may arrive.

What TLC reports as distinct states: about 260 000 for `Desk`, 1 250 000 for `ProcessFaults`, 41 000 for
`ProcessTwice`, 370 000 for `ProcessServed`, 4 000 000 for `Anteproyecto`, 480 000 for `Record`, 1 000 000 for
`Delivery`, 4 500 000 for `Services`.

## 5 Fairness

`FairSpec` assumes two things. A handler at the desk that has started takes its next step (`Advance`): the
event loop of the process resumes an `await` that has an answer, and the database answers. A call that waits
is served (`Serve`, for each kind of call): the HTTP server of the other service runs a handler for each
request. Nobody has to send a request, no user has to act, and in runs with `MayLose` a loss counts as a way
for a call to end. `AcceptanceOpensRecord` holds under this fairness although the company, the student and
the admin do what they like meanwhile, and although project-service may fail; `AcceptanceStarts` holds too
while no call is lost, and fails with a single lost call.

`DeliverySpec` assumes that the broker delivers and that a handler which was started ends: weak fairness of the
handlers of `auth.user.verified` in the services of the base profile and of the role (`CreateBase`,
`CreateSettings`, `CreateStudent`, `CreateCompany`, `CreateSupervisor`), of the second statement of a profile made
by hand (`PostSettings`), and of what a queue of the bus does (`Working`: deliver, end a handler one way or the
other, fire a timer). Nothing assumes that a handler succeeds: `BusSettles` holds when all of them fail, since the
retries of a message are counted, and `EveryoneIsServed` excepts faults and restarts by name. Both hold because of
the order of guards and not because somebody is kind: the mutants of these runs drop a counter or swap an order
and the properties fail.

`FailedProbeReopens` and `UndoneOnlyByEarlier` are action properties and need no fairness.

## 6 Proofs

All theorems hold for every value of the constants that satisfies the named assumptions
(`CallsAssumption`, `AssignmentAssumption`, `LifecycleAssumption`, `AnteproyectoAssumption`,
`RecordAssumption`, `ProjectAssumption`, `AuthAssumption`, `NoRowAssumption`, `OnboardingAssumption`,
`TransportAssumption`, `ServicesAssumption`), which say that markers such as
`None` are not values, that limits are numbers and that the rows of a table and the slots for requests are
finitely many. `TransportAssumption` and `ServicesAssumption` are the conjunctions of the assumptions of the
components side by side (`BusAssumption`, `BreakerAssumption`; `StorageAssumption`, `EvaluationAssumption`,
`FollowUpAssumption`, `ConversationAssumption`, `ChannelsAssumption`, `ProfileAssumption`).

* `DeskTypeCorrect`, `TypeCorrect`: types. The bare type invariant is not inductive, since a write at
  `req[r].app` needs to know that the slot holds an application, so `TypeInv` adds `WellFormed`: which fields
  are set at which step. `LifecycleInv` does the same for the slots of the users.
* `SerialSeat`, `SerialSingleAsesor`, `SerialAnswers` (assuming `Serial`: at most one request slot): the check
  made at the beginning of a handler still holds when the handler writes. `SlotInv` says, for every step after
  a check, what is left of it: nobody live and no refusal before an insertion, still pending before an
  answer, still live before a replacement. `SeatStep` shows that every step of the desk is one of four writes
  or leaves the rows alone, `MoveKeepsRows` that the four keep the rows of an application a seat, and
  `MoveIsSeatStep` that each of them is a step of `AdvisorSeat`. Restarts are allowed. Without `Serial`
  it is false: two requests that overlap leave two live asesores (section 7).
* `RecordsAreBacked` (no assumption on overlap, with losses and restarts): no write makes an answered row
  pending again (`RowWrite`, `AnsweredStays`), so what `acceptAssignment` has just saved is still answered
  in its slot (`CallerAnswered`), in the call and in the record.
* `RecordsOpenOnce`: the only step that sets `record` asks that there is none (`RecordWrite`), which is the
  unique key of the table.
* `RecordsHaveSubmissions` (no assumption on overlap, with losses, assuming that nothing restarts): a record
  without its submission has a call at its last step (`SubmissionInv`). A restart between the two saves leaves
  a record without one, as its hazard says.
* `SerialJuradoFinal` (`Serial`, with restarts): at the insertion there is still no row (`FinalInv`), which one
  request alone reaches from the check (`ReachFinalInsert`).
* `SerialCounter` (`Serial`, no restart): a handler writes the row first and the counter
  in the next statement, so the counter and the number of live rows differ by what is `Due` at the step of the one
  request there is, and `SlotCount` says so for every supervisor. `RowCounts` is the lemma on cardinality: one
  write adds one application to one set, takes one from it, or changes none. It rests on `SlotInv`: that
  what is declined or replaced was live when it is written. A restart between the two statements loses the
  difference for good.
* `SerialCopies` (`Serial` at the desk, with losses, users and restarts): each copy is
  charged to an asesor who has accepted and whose call is over with copying (`Copied`). `OneCall` says that an
  acceptance makes one call in its life: none while the row is pending, then one request or one call, never both.
  Hence a copy takes an asesor from the calls and adds one to those charged, once (`CopyCharged`).

* `AnteproyectoTypeCorrect`, `CorrectionsAreBounded`, `VotesMatchVersion`, `PanelApproves`,
  `TurnsHaveDeadlines` (no assumption on overlap, with restarts, leaving jurados and failing lists; assuming
  `AnteproyectoAssumption`). The stored row may be replaced by one loaded long ago, so `Invariant` asks the
  same of both: `RowOK` of the row, of every loaded row, and `Checked` of what its handler has checked.
  `RowOK` speaks of nothing but the row, the history, which grows, and the panel, which shrinks (`RowStays`),
  and one lemma per handler (`DeliveredOK`, `CorrectedOK`, `VotedOK`, `CountedOK`, `ExtendedOK`,
  `ExpiredOK`) shows that what it saves is good again. Two things had to be added to the properties to make
  them inductive: a vote to reject in a row means that the limit was reached, and a row that has left
  `pending_submission` has a version.

* `RecordTypeCorrect`, `PhasesAreBacked` (no assumption on overlap, with restarts and a catalogue that fails):
  as for the anteproyecto, `RowOK` holds of the stored record and of every record a handler is going to save
  (`SlotOK`), and speaks besides only of the approval and the final requirements, which are never taken back.
  The row of `startFinalization` is the exception until `FinalsSave` has made it good.
* `PhasesInOrder`, `GatesHold`, `CompletedAreGraded` (assuming `Serial`, and `GatesHold` that the catalogue can
  be read): with one slot the row that will be saved is the stored row with the change of its handler (`Made`),
  what the handler has checked still holds, and before the approval the record is waiting or cancelled
  (`SerialInv`); an application that became completed otherwise than by `updateStatus` became so after its record.
  `SavedRow` lists what may become of the record; `SavedStep` goes through the list. None of the
  three survives overlaps: `advanceFinalization` may save over a cancellation, a document may be rejected
  between the checklist and the agreement, and `cancelFinalization` may save over the grade.

* `ProjectTypeCorrect`, `PublicProjectsReviewed`, `OverProjectsStay` (no assumption on overlap, with restarts).
  Types need `WellFormed`: what will be saved is a row, and a row that was submitted has its document (`Filed`).
  A view or an edition saves a row loaded long ago, so `ReviewInv` asks of every loaded row what it asks of the
  stored one: if it is public it was reviewed, and its document approved; documents that were approved stay so.
  `OverUnlessStale` holds step by step from `QuietInv`: where nothing has overlapped, at most one request is
  going to save, and what it will save over a project that is over is over too.
* `CounterKeepsToApplications` (no assumption on overlap, with restarts). `Room` is what there is to count less the
  calls and events that have not counted yet. The stored row never counts more, nor does any row that a
  request has loaded (`AheadInv`); where nothing overlapped, was lost or delivered again, both count exactly that,
  but for the stored row while an increment is about to be saved (`ExactInv`).

`DeliveryProofs` and `ServicesProofs` (over `MessagingProofs`) prove one invariant each, `DeliveryInv` and
`ServicesInv`: the focus is one of the components, and the invariant of the component in focus holds. A step of the
whole is a step of the component in focus, so there is one proof for each component. None of the theorems assumes
that requests do not overlap; where a property is about requests in turn, or excepts one row that an overlap may
spoil, it says so itself with a history variable (`disturbed`, `overlapped`, `clean`, `raced`, `doubled`,
`slipped`, `swept`, `cut`) that the overlap sets. The strengthenings of `Services` stand at the end of each
component's module, under "What every step keeps".

* `ProfilesAlwaysFollow`: `PersonInv` is `Shape` (what is set at which step), `Earned` (nobody tells of a profile
  that is ready before one was), `Settled` (a creation of the base profile that has begun goes on, or has ended
  with the settings) and `Follows`. The last one is about order: where nothing overlapped, the newest word on the
  profile is right, be it the one about to be published, else the last event of the queue, else the flag itself;
  and whoever holds the loaded base profile holds it alone.
* `NothingIsForgotten`: the property is its own induction, over bags: the message that an event is kept by has all
  earlier tries behind it (`FailedFirst`); a step that takes it from one place of a queue puts it, or the next try,
  into another, until the last one has failed too. Only a restart, which the property names, loses timers.
* `ProbeThatFailsReopens` needs more than its step: when the probe fails, the counts must still be past the
  threshold, although the total is never reset. `StillFailing` says that they are, unless a late result came in,
  and `OpensMore` that another failure keeps them so: with a threshold of at most a hundred percent, one more on
  both sides of the ratio does not lower it below.
* `ProfileStaysCurrent`: in turn, what the one request has loaded is what there is, changed by its handler only
  where it says so (`Fresh`), so that a save that succeeds makes the row complete again or leaves it so, and one
  that is refused comes of an overlap. The decision of an administrator is stored, or in the row of its request
  (`Keeps`). The lemma `CompletenessInRange` says that the weights of either profile stay within a hundred.
* `ChatStaysConsistent`, in three parts. `ConversationInv`: for a participant without a race, `unread` is what was
  notified plus the messages that are counted and not told yet, and whoever holds his row holds it alone and holds
  what is stored (`UnreadAddsUp`); the reactions that are there and those about to be inserted are at most one
  together, unless they overlapped (`ReactionsAddUp`); whoever edits or deletes a message had read it undeleted,
  and what he read the second time is what is stored unless the message is in `slipped`. `GatewayInv`: a join that
  has read the history has, with what it is shown meanwhile, every message sent (`JoinsCatchUp`), and what is about
  to be announced, else what was announced last, is the status a user has (`StatusIsComing`). `ChannelsInv`: the
  members a handler has still to add, with those who are in, are always all that its event asks for (`BothComeIn`),
  and with handlers in turn there is no other open channel for the purpose of the one being opened (`InTurn`).
* `FilesStayAccounted`: `UsedWithinMax` holds under any overlap because each handler carries a quota with room for
  what it adds (`CallsFit`), and saves that very row. `ActiveHasContent` needs to know that no two files share a
  content (`ContentsApart`), that a file the cleanup has listed stays deleted unless a version of it was under way
  then (`ListedFits`, `swept`) and that a file has one upload (`UploadsApart`). `CurrentIsLatest` needs that
  version numbers leave no gap (`NumbersFit`): then the number a request has inserted, which the unique key lets
  only one insert, is the highest (`NextIsLatest`), and the row with that number is saved or about to be
  (`LatestIsComing`). `QuotaCountsFiles` needs `InTurn`: at each statement of the one request, the quota is behind
  the files by exactly what that request is about to add or take. Used bytes are a sum over files; as the
  cardinality of `Bytes` it needs no induction, only the lemma `CountMoves`: replacing the row of one file changes
  it by the difference of two sizes.
* `EvaluationsStayComplete`: `OneOfEach` and `AllGenerated` rest on `EventFits` (a pair that the event asks for is
  there, or in the list, or in the hand of the subscriber) and `Alone` (what is about to be made is not there yet).
  A redelivered event starts over with what is not there, so neither restarts nor anything but two creations of one
  pair at a time (`doubled`) has to be excepted. `ScoreIsMean` rests on `RatingsFit`: an evaluation that is not
  completed and not being submitted has no ratings, unless a restart cut its submission off (`cut`), and those of
  one being submitted are the ones its request has written.
* `ReviewsStayMatched`: a request saves the row that it read with its own change, and that row was one its handler
  does not refuse (`CallsFit`, `Admits`): so a save that leaves a row approved is the approval itself, of the file
  that its request had read. That holds where the row is still what its save had read before updating it; where it
  is not, the two are merged and the row is in `slipped`. In turn that row is the stored one (`Alone`), which makes
  the revisions count. `RowsInTurn` numbers the rows as they come, and `InterviewsGoOn` follows the statements of a
  rescheduling and of an interview that moves the application on.
* `EverybodyStaysTold`: `NotifyInv`. Whoever an event names has his row, was hit, or is still in the list of its
  handler; where one `try` surrounds them all, somebody was hit (`NamedAreToCome`). That a publication reaches
  somebody then says of the tables that a publication with its fields always feeds a handler, which names at least
  one person (`PublicationsReach`, from `HandlersRead` and `EventsAreRead`, one case for each event). A row with a
  mandatory mail has it, or is the one its handler is working on (`ForcedMailIsComing`); a handler that will start
  a mail has read preferences that want it, and these stay unless their user changes them
  (`PreferencesAreFollowed`). For the badge, where no two counts overlapped at most one handler or one request is
  between a change of the rows and its count, and a count on its way is that of the rows (`CountsAreRight`). The
  assumptions are two: what arrives are publications of `EventContracts`, and `None` is no row and no request
  (`NotificationsAssumption`).
* `SettledStaysSettled`, an action property of evaluations and follow-up, from the same invariants: a save that
  takes something back belongs to a request whose loaded row is older than what it takes back, and `CallsFit` knows
  that row. An expired evaluation, say, is completed only by a submission that had loaded it as pending, which is
  the check at evaluation.service.ts:369.

Only checked by TLC: the liveness properties `AcceptanceStarts`, `AcceptanceOpensRecord`, `EveryoneIsServed` and
`BusSettles` (fairness and ENABLED are out of TLAPS's reach here), and `RequestsArrive`: the tables of routes,
guards and permissions are fixed data, `Requests` has no constants, and the run that visits all of its states is
itself complete.

## 7 Where the code and its words disagree

Each of these is a run that TLC finds violated; `findings` in `PROJECT.json` quotes the words.

* `AnteproyectoVoteLost`: of two votes at the same time the second overwrites the first, and everybody has
  voted on an anteproyecto that stays under review.
* `ChannelIsClosed`: `autoDisconnectJuradosAnteproyecto` publishes `admin.jurado.disconnected` without a project
  (admin.service.ts:955), the subscriber of chat-service returns without one (chat-events.subscriber.ts:165), and
  the channel that should close (comment at 159) stays open.

Met while modelling, each visible in a few lines of the code and without a run of its own. File names are those
of `PROJECT.json`.

The desk and the application:

* Two overlapping assignments leave two live asesores (admin.service.ts:606), and two of `assignJurado` two
  jurados of the defence: the unique key that a comment trusts (708) includes the supervisor.
* After a refusal no asesor can be assigned any more (606), and a declined row cannot be replaced; the entity says
  "admin debe reasignar" (supervisor-assignment.entity.ts:26).
* The call that starts the project is sent once and its failure only logged (778): an application whose asesor
  has accepted may never start.
* An acceptance that comes after the application was withdrawn or cancelled starts it (application.service.ts:1136,
  against the table at 70).
* The call that makes the application wait may be served after the one that reverts it, when the first outlived
  the five seconds of its caller: the application waits for an asesor who has declined (1105).
* `updateNotes` saves the status it read over a decision made meanwhile (1484), and a withdrawal and a decision of
  the company that are checked against one status are saved one after the other.
* A restart between a record and its submission (1144) leaves a record without one; a later acceptance finds the
  record and does not add it.
* `replaceAssignment` compares neither `maxStudents` nor the jurados of the project, both of which
  `assignSupervisor` refuses (admin.service.ts:603, 658, 866): a jurado may become the asesor, is then resolved as
  asesor and cannot vote any more.
* A replacement by a supervisor who already has a row saves the old row as replaced, gives its student back
  and then fails on the unique key: the application is left without an asesor (admin.service.ts:870–887).
* The company can take an application to `pending_supervisor` and to `in_progress` itself (1221); the list of
  statuses it may set (update-application-status.dto.ts:5) is only used for the API page.
* A student who withdrew cannot apply again, although the message speaks of an active application
  (application.service.ts:269–275).

The record:

* `updateStatus` lets the company or an admin complete or cancel an application in progress, whatever its record
  says (application.service.ts:96, 1213): completed by hand, it has no grade, and its record stays open and can be
  worked on. `CompletedIsGraded` therefore excepts what was completed by hand.
* A cancelled record is opened again: `cancelFinalization` says "el proyecto queda cerrado sin evaluación"
  (application.service.ts:3274), but the approval of the anteproyecto (2501) and `uploadInitiationAgreement`
  (2721) set the status without looking at it, and a request that overlaps the cancellation saves the record as
  it read it. `PhaseOrder` therefore says nothing about a cancelled record.
* A restart of the process after `startFinalization` has saved its requirements and before it saves the record
  leaves it active for good: every retry finds the requirements and is refused (application.service.ts:3057).
* When the catalogue cannot be read, `getProjectDocumentRequirements` returns an empty list and the agreement
  needs no document (application.service.ts:2040).

Access:

* project-access.service.ts:245 calls itself the only place that decides on access, but `reviewDocument`
  (application.service.ts:2055) refuses a jurado of the defence who was one of the anteproyecto, after `authorize`
  has let him in.
* auth.middleware.ts:25 makes reading prefixes public at the gateway whose routes the services guard.
* A former jurado with another seat is shown the history of the anteproyecto, and storage-service denies its
  files (application.service.ts:446: "conserva acceso de solo lectura"). `ShownFilesOpen` excepts this case.

Accounts and profiles:

* A login saves the account as it read it, and so undoes a deactivation, a new password or a deletion made
  meanwhile; a restart between a new password and the end of the sessions leaves them open (auth.service.ts:446);
  wrong passwords that overlap count as one. The properties of `AuthSessions` name these exceptions.
* `verifyCompany` publishes `companyId` and `action` (admin.service.ts:496–522), while the subscriber of
  company-service reads `userId` and `status` (company-events.subscriber.ts:54): it finds the first company there
  is, saves it as it was, and the decision reaches nobody.
* user-service counts the fields that a request sent, and not those of the row, for `profileCompleteness`.
* A handler of `auth.user.verified` that fails or is cut off after its first statement leaves a base profile
  without settings; all subscribers catch their errors, so the bus never retries or rejects anything today.
* What a queue rejects after the last try (event-subscriber.service.ts:70) is discarded, although the log says "Evento
  enviado a DLQ" (line 71): the queues name a dead-letter exchange (17–39), and no queue is declared for it or bound
  to it. `NothingForgotten` promises an event its tries and no more.
* project-events.subscriber.ts:36 speaks of taken positions and increments the counter of applications, which
  counts every accepted application twice. `CounterFollows` states what the counter does count.
* The total of the circuit breaker is never reset, and half open it lets any number of calls pass; no service
  uses it.

Files, evaluations, follow-up:

* A file deleted twice at a time gives its bytes back twice; parallel uploads overwrite each other's quota; an
  upload before `auth.user.created` leaves the default quota; a restart between a version and its file makes every
  later version fail; a version that is late revives a deleted file; the signed address is never verified. The
  cleanup may be asked for files older than 0 days (storage-internal.controller.ts:36) and then removes the content
  of a file that a version under way brings back.
* `createEvaluationsForCompletedProject` is called idempotent, but finds and then inserts without a unique key; a
  comment gives a scale of 1 to 5 where the DTO accepts 0 to 100; required criteria are not asked for; the status
  in progress and the endpoints of ratings in the profile services have no caller.
* `updateDeliverable` of a pending deliverable publishes no `deliverable.submitted`, and `bulkCreateDeliverable`
  checks no status and publishes nothing; `completeInterview` and `rescheduleInterview` check no status;
  `submitSelectionDocument` can open an approved document again; a review saves the row it read, over a file
  uploaded meanwhile, and a file uploaded between the two statements of that save is approved without being read.

Chat and notifications:

* The disconnection of one jurado by hand closes the channel for all; a jurado who is assigned after the asesor has
  accepted gets none, although a comment promises it (chat-events.subscriber.ts:129–134), and `JuradoMeetsAsesor`
  is about those who were there before; team and private channels are found by project and name, so two
  applications of one project share them.
* An edition and a deletion that meet between the two statements of a save (chat.service.ts:554, 565) leave a
  deleted message with its text.
* The text of a deleted message stays in the preview of its conversation; whoever archived a conversation stays in
  its room; a direct conversation that is opened again stays archived for the other side.
* `deliverable.submitted`, `matching.score.calculated`, `application.status.changed` of a withdrawal,
  `admin.company.verified` and `admin.jurado.disconnected` lack fields that their subscribers need, some of which
  then return (notification.subscriber.ts:512 says otherwise of the first). `Unfed` lists those that reach nobody.
* `company.profile.deactivated` and `auth.user.deactivated` are read and never published. A deletion of a
  notification sends no count. When two handlers create the preferences of a user at once, the second throws after
  its row is saved and its mail is lost, mandatory or not, as it is when `createNotification` fails while it reads
  the preferences or counts (notification.service.ts:146, 153). Mails are tried once.

## 8 Not modelled

* analytics-service: aggregates that no decision reads. matching-service: one row found and saved per request, and
  a score that is arithmetic over two profiles and that nothing decides on.
* Of admin-service the catalogues, periods, settings and audit logs; what the decisions here read of them is a
  constant or a choice (`Limits`, `Mandatory`, `CatalogueMayFail`).
* Of user-service the settings after their creation, the avatar and the log of activity. Of project-service the
  requirements, deliverables and activities of a project, which no rule reads, and the searches. Of application-
  service the second row that two overlapping first uploads of a document make, comments and attachments.
* Of notification-service the wording, the quiet hours and the endpoints of web push, which nothing sends to. Of
  chat-service attachments and searches. Of storage-service the signed addresses, which no download looks at.
* Of api-gateway the proxying of bytes and sockets. Everywhere: formats, texts, pagination, logging, metrics.
* Seed scripts, migrations, container files: no state of the running system.

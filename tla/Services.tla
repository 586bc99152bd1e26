------------------------------ MODULE Services ------------------------------
(***************************************************************************)
(* The components that stand alone, side by side: which one a behaviour is *)
(* about is chosen at its start (focus). The variables of the component in *)
(* focus are v1, v2, ... in the order of its module; the others stay 0.    *)
(***************************************************************************)
EXTENDS Integers, Sequences, FiniteSets

CONSTANTS
    Foci,                        \* the components that behaviours are about
    Requests,                    \* slots for the requests that run at a time
    None,                        \* no row, no request
    MaxRestarts,                 \* bound on the restarts of a service
    MaxFaults,                   \* bound on the calls and statements that fail
    RowItems, RowForms,          \* Items and Forms of ProfileRow
    StoredIds, FileSizes, RoleMax, DefaultMax, MaxFiles, MaxWrites,   \* of StoredFiles
    Evaluators,                  \* the Requests of Evaluations
    MaxIds, Pairs, Gated, FromEvent, Criteria, Scores,                \* its others
    FollowUpRows, FollowUpUploads,        \* MaxRows and MaxUploads of FollowUp
    Users, ConversationMessages, MaxReacted, ConversationMixes,  \* of ChatConversation
    UserSockets, SocketMessages,          \* of ChatGateway
    Applications, ChannelScenarios, MaxChannels,                 \* of ChatChannels
    Deliveries, NotificationMixes, MaxAsked                      \* of Notifications

VARIABLES focus, v1, v2, v3, v4, v5, v6, v7, v8, v9, v10, v11, v12, v13, v14

all == <<focus, v1, v2, v3, v4, v5, v6, v7, v8, v9, v10, v11, v12, v13, v14>>

(***************************************************************************)
(* The components                                                          *)
(***************************************************************************)
Profile == INSTANCE ProfileRow WITH
    role <- v1, detail <- v2, items <- v3, call <- v4, verifying <- v5, decided <- v6,
    undisturbed <- v7, Items <- RowItems, Forms <- RowForms

Gateway == INSTANCE Requests WITH
    at <- v1, request <- v2, party <- v3, seats <- v4, identity <- v5, handling <- v6,
    viewer <- v7, faulty <- v8

Storage == INSTANCE StoredFiles WITH
    quota <- v1, file <- v2, versions <- v3, disk <- v4, listed <- v5, call <- v6,
    created <- v7, writes <- v8, restarts <- v9, disturbed <- v10, swept <- v11,
    Files <- StoredIds, Sizes <- FileSizes

Evaluation == INSTANCE Evaluations WITH
    record <- v1, event <- v2, todo <- v3, found <- v4, evaluations <- v5,
    ratings <- v6, due <- v7, call <- v8, restarts <- v9, doubled <- v10,
    swallowed <- v11, overlapped <- v12, cut <- v13, Requests <- Evaluators

FollowUp == INSTANCE FollowUp WITH
    kind <- v1, application <- v2, rows <- v3, call <- v4, uploads <- v5,
    restarts <- v6, seen <- v7, answered <- v8, disturbed <- v9, slipped <- v10,
    MaxRows <- FollowUpRows, MaxUploads <- FollowUpUploads

Conversation == INSTANCE ChatConversation WITH
    mix <- v1, participant <- v2, message <- v3, reactions <- v4, lastMessage <- v5,
    call <- v6, restarts <- v7, notified <- v8, raced <- v9, doubled <- v10,
    slipped <- v11, MaxMessages <- ConversationMessages, Mixes <- ConversationMixes

Sockets == INSTANCE ChatGateway WITH
    activeUsers <- v1, announcing <- v2, told <- v3, member <- v4, room <- v5,
    joining <- v6, history <- v7, shown <- v8, caughtUp <- v9, message <- v10,
    faults <- v11, restarts <- v12, raced <- v13, Sockets <- UserSockets,
    MaxMessages <- SocketMessages

Channels == INSTANCE ChatChannels WITH
    scenario <- v1, jurado <- v2, happened <- v3, event <- v4, channel <- v5,
    faults <- v6, restarts <- v7, overlapped <- v8, early <- v9,
    Scenarios <- ChannelScenarios

Notify == INSTANCE Notifications WITH
    asks <- v1, delivery <- v2, notes <- v3, prefs <- v4, online <- v5, badge <- v6,
    call <- v7, requests <- v8, restarts <- v9, faults <- v10, told <- v11, hit <- v12,
    adjusted <- v13, blurred <- v14, Mixes <- NotificationMixes, MaxRequests <- MaxAsked

ASSUME ServicesAssumption ==
    /\ Profile!ProfileAssumption
    /\ Storage!StorageAssumption /\ Evaluation!EvaluationAssumption
    /\ FollowUp!FollowUpAssumption /\ Conversation!ConversationAssumption
    /\ Channels!ChannelsAssumption /\ Notify!NotificationsAssumption

\* The variables from the nth on are not used.
Off14 == v14 = 0
Kept14 == UNCHANGED v14
Off13 == v13 = 0 /\ Off14
Kept13 == UNCHANGED v13 /\ Kept14
Off12 == v12 = 0 /\ Off13
Kept12 == UNCHANGED v12 /\ Kept13
Off11 == v11 = 0 /\ Off12
Kept11 == UNCHANGED v11 /\ Kept12
Off10 == v10 = 0 /\ Off11
Kept10 == UNCHANGED v10 /\ Kept11
Off9 == v9 = 0 /\ Off10
Kept9 == UNCHANGED v9 /\ Kept10
Off8 == v8 = 0 /\ Off9
Kept8 == UNCHANGED v8 /\ Kept9

Init ==
    /\ focus \in Foci
    /\ \/ focus = "profile" /\ Profile!Init /\ Off8
       \/ focus = "gateway" /\ Gateway!Init /\ Off9
       \/ focus = "storage" /\ Storage!Init /\ Off12
       \/ focus = "evaluation" /\ Evaluation!Init /\ Off14
       \/ focus = "follow-up" /\ FollowUp!Init /\ Off11
       \/ focus = "conversation" /\ Conversation!Init /\ Off12
       \/ focus = "sockets" /\ Sockets!Init /\ Off14
       \/ focus = "channels" /\ Channels!Init /\ Off10
       \/ focus = "notifications" /\ Notify!Init

Next ==
    /\ UNCHANGED focus
    /\ \/ focus = "profile" /\ Profile!Next /\ Kept8
       \/ focus = "gateway" /\ Gateway!Next /\ Kept9
       \/ focus = "storage" /\ Storage!Next /\ Kept12
       \/ focus = "evaluation" /\ Evaluation!Next /\ Kept14
       \/ focus = "follow-up" /\ FollowUp!Next /\ Kept11
       \/ focus = "conversation" /\ Conversation!Next /\ Kept12
       \/ focus = "sockets" /\ Sockets!Next /\ Kept14
       \/ focus = "channels" /\ Channels!Next /\ Kept10
       \/ focus = "notifications" /\ Notify!Next

Spec == Init /\ [][Next]_all

(***************************************************************************)
(* Properties: those of the components, each where it is in focus          *)
(***************************************************************************)
\* ProfileRow: the completeness is that of the fields and children there are, and the
\* status is the last one an administrator gave.
ProfileIsCurrent ==
    focus = "profile" =>
        Profile!TypeOK /\ Profile!CompletenessIsCurrent /\ Profile!ReviewStands

\* Requests: gateway, routes, guards and permissions agree on every request, between
\* services too, and whoever is shown a file may open it, a former jurado excepted.
RequestsArrive ==
    focus = "gateway" =>
        /\ Gateway!TypeOK
        /\ Gateway!OwnRouteAnswers /\ Gateway!AdmittedGetThrough
        /\ Gateway!GuardsRespectPermissions
        /\ Gateway!InternalCallsLand /\ Gateway!ShownFilesOpen

\* StoredFiles: the quota is not exceeded and, with requests in turn, counts the files; an
\* active file has its content, the latest of its versions, unless the cleanup met a new
\* version of it.
FilesAreAccounted ==
    focus = "storage" =>
        /\ Storage!TypeOK
        /\ Storage!UsedWithinMax /\ Storage!QuotaCountsFiles
        /\ Storage!ActiveHasContent /\ Storage!CurrentIsLatest

\* Evaluations: after the completion every party gets its evaluations, however often a
\* restart has the event delivered again, each of them once unless two creations of it
\* overlapped, and a score is the mean of its ratings unless two submissions did.
EvaluationsAreComplete ==
    focus = "evaluation" =>
        /\ Evaluation!TypeOK
        /\ Evaluation!OneOfEach /\ Evaluation!GatedAfterCompletion
        /\ Evaluation!AllGenerated /\ Evaluation!ScoreIsMean

\* FollowUp: what stands approved is what its reviewer had read unless a save slipped in
\* between the statements of another; with requests in turn revisions are counted and a
\* rescheduled interview has its successor.
ReviewsMatchFiles ==
    focus = "follow-up" =>
        /\ FollowUp!TypeOK
        /\ FollowUp!ApprovedAsReviewed /\ FollowUp!RevisionsCounted
        /\ FollowUp!InterviewsFollowUp

\* Chat: counts, deletions and reactions of a conversation; what sockets show; who is
\* in the channels that follow the desk.
ChatIsConsistent ==
    /\ focus = "conversation" =>
        /\ Conversation!TypeOK
        /\ Conversation!UnreadWasNotified /\ Conversation!DeletedSaysNothing
        /\ Conversation!OneReactionEach
    /\ focus = "sockets" =>
        Sockets!TypeOK /\ Sockets!NothingMissed /\ Sockets!PresenceIsTold
    /\ focus = "channels" =>
        Channels!TypeOK /\ Channels!JuradoMeetsAsesor /\ Channels!OneChannelEach

\* Notifications: every publication reaches somebody, the known gaps excepted, a failure
\* for one recipient keeps no other from being told, mails and pushes are those that are
\* mandatory or wanted, and the count of the browser is that of the unread rows.
EverybodyIsTold ==
    focus = "notifications" =>
        /\ Notify!TypeOK
        /\ Notify!TheOthersAreTold /\ Notify!SomebodyIsTold
        /\ Notify!MandatoryMailIsTried /\ Notify!PreferencesAreKept
        /\ Notify!BadgeIsCurrent

\* A closed evaluation, an approved deliverable or a resolved interview is taken back only
\* by a request that had read it when it was not yet closed, approved or resolved.
UndoneOnlyByEarlier ==
    [][/\ focus = "evaluation" => Evaluation!SettledByEarlier
       /\ focus = "follow-up" => FollowUp!ReopenedByEarlier /\ FollowUp!UndoneByEarlier]_all
=============================================================================

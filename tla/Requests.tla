------------------------------- MODULE Requests -------------------------------
(***************************************************************************)
(* A request on its way: through the gateway, which asks auth-service who   *)
(* sends it and forwards it by the prefix of its path; into a service,      *)
(* which matches it with its routes, guards and parses it; and, in          *)
(* application-service, through the resolution of what its sender is in the  *)
(* application and may do there. Requests that one service makes of another *)
(* skip the gateway. A request changes nothing of what decides another: one *)
(* at a time is enough.                                                     *)
(*                                                                         *)
(* An identifier in a path is "uuid", any other value "text". An application *)
(* has a student, a company and the rows of the desk for one teacher, at    *)
(* most one for each role as its unique key wants.                          *)
(***************************************************************************)
EXTENDS Routes, Integers, FiniteSets, SequencesExt

VARIABLES
    at,            \* where the request is
    request,       \* the request: what it is aimed at, who sends it, with what token
    party,         \* its sender is the student or the company of the application
    seats,         \* [role at the desk |-> status of the row of the sender, or "none"]
    identity,      \* x-user-role, or "anonymous"
    handling,      \* the route that was matched
    viewer,        \* the role of the sender in the application
    faulty         \* history: some call to another service failed

vars == <<at, request, party, seats, identity, handling, viewer, faulty>>

(***************************************************************************)
(* The gateway                                                             *)
(***************************************************************************)
publicRoutes ==
    {<<"api", "v1", "auth", s>> : s \in {"login", "register", "verify-email",
        "resend-verification-email", "forgot-password", "reset-password", "refresh",
        "validate"}}

\* The expressions take hexadecimal digits and dashes for an identifier.
publicGetRoutes ==
    {<<"api", "v1", "projects">>, <<"api", "v1", "projects", "uuid">>,
     <<"api", "v1", "evaluations", "company", "uuid">>,
     <<"api", "v1", "evaluations", "student", "uuid">>,
     <<"api", "v1", "evaluations", "criteria">>,
     <<"api", "v1", "storage", "files", "uuid", "download">>}

isPublicRoute(method, path) ==
    \/ \E p \in publicRoutes : IsPrefix(p, path)
    \/ method = "GET" /\ path \in publicGetRoutes

\* The service behind each prefix; /ws goes to the sockets, outside of these routes.
GATEWAY_ROUTES ==
    [auth |-> "auth", users |-> "user", students |-> "student", companies |-> "company",
     projects |-> "project", applications |-> "application", matching |-> "matching",
     evaluations |-> "evaluation", notifications |-> "notification", chat |-> "chat",
     admin |-> "admin", analytics |-> "analytics", storage |-> "storage"]

(***************************************************************************)
(* The services                                                            *)
(***************************************************************************)
RoutesOf ==
    [admin |-> Health
        \o Under(<<"api", "v1", "admin">>, AdminPeriodsRoutes \o AdminSupervisorsRoutes
                     \o AdminSettingsRoutes \o AdminRequirementsRoutes)
        \o Under(<<"internal", "admin">>, AdminInternalRoutes),
     analytics |-> Health \o Under(<<"api", "v1", "analytics">>, AnalyticsRoutes),
     application |-> Health
        \o Under(<<"api", "v1", "applications">>, ApplicationsRoutes \o InterviewsRoutes
                     \o DeliverablesRoutes \o DocumentsRoutes \o AnteproyectosRoutes
                     \o CommentsRoutes \o FinalizationRoutes)
        \o Under(<<"internal", "applications">>, ApplicationInternalRoutes),
     auth |-> Health \o Under(<<"api", "v1", "auth">>, AuthRoutes \o AuthAdminRoutes)
        \o Under(<<"internal", "auth">>, AuthInternalRoutes),
     chat |-> Health
        \o Under(<<"api", "v1", "chat">>, ChatConversationsRoutes \o ChatMessagesRoutes)
        \o Under(<<"internal", "chat">>, ChatInternalRoutes),
     company |-> Health
        \o Under(<<"api", "v1", "companies">>, CompanyProfilesRoutes \o CompanyContactsRoutes)
        \o Under(<<"internal", "companies">>, CompanyInternalRoutes),
     evaluation |-> Health
        \o Under(<<"api", "v1", "evaluations">>, EvaluationsRoutes \o EvaluationTemplatesRoutes)
        \o Under(<<"internal", "evaluations">>, EvaluationInternalRoutes),
     matching |-> Health
        \o Under(<<"api", "v1", "matching">>, MatchResultsRoutes \o RecommendationsRoutes)
        \o Under(<<"internal", "matching">>, MatchingInternalRoutes),
     notification |-> Health \o Under(<<"api", "v1", "notifications">>, NotificationsRoutes)
        \o Under(<<"internal", "notifications">>, NotificationInternalRoutes),
     project |-> Health
        \o Under(<<"api", "v1", "projects">>, ProjectsRoutes \o ProjectDeliverablesRoutes
                     \o ProjectSkillsRoutes)
        \o Under(<<"internal", "projects">>, ProjectInternalRoutes),
     storage |-> Health \o Under(<<"api", "v1", "storage">>, StorageRoutes)
        \o Under(<<"internal", "storage">>, StorageInternalRoutes),
     student |-> Health
        \o Under(<<"api", "v1", "students">>, StudentProfilesRoutes \o StudentStudiesRoutes
                     \o StudentLanguagesRoutes)
        \o Under(<<"internal", "students">>, StudentInternalRoutes),
     user |-> Health \o Under(<<"api", "v1", "users">>, UsersRoutes)
        \o Under(<<"internal", "users">>, UserInternalRoutes)]

Services == DOMAIN RoutesOf

\* The framework tries the routes in their order; only the first match counts.
Matches(route, method, path) ==
    /\ route.method = method
    /\ Len(route.path) = Len(path)
    /\ \A i \in DOMAIN path : route.path[i] \in {Id, Text, path[i]}

Matching(service, method, path) ==
    SelectInSeq(RoutesOf[service], LAMBDA r : Matches(r, method, path))

\* ParseUUIDPipe.
Parses(route, path) == \A i \in DOMAIN path : route.path[i] = Id => path[i] = "uuid"

(***************************************************************************)
(* What services ask of each other                                         *)
(***************************************************************************)
Ask(method, service, path) == [method |-> method, service |-> service, path |-> path]

GatewayCalls ==
    {Ask("POST", "auth", <<"internal", "auth", "validate">>)}
        \cup {Ask("GET", s, <<"health">>) : s \in Services}

AdminCalls ==
    {Ask("POST", "user", <<"internal", "users", "batch-basic">>),
     Ask("POST", "project", <<"internal", "projects", "batch-basic">>),
     Ask("GET", "company", <<"internal", "companies", "uuid", "basic-info">>),
     Ask("GET", "student", <<"internal", "students", "uuid", "matching-data">>),
     Ask("PATCH", "application", <<"internal", "applications", "uuid", "pending-supervisor">>),
     Ask("PATCH", "application", <<"internal", "applications", "uuid", "start-progress">>),
     Ask("PATCH", "application", <<"internal", "applications", "uuid", "revert-accepted">>),
     Ask("PATCH", "project", <<"internal", "projects", "uuid", "start-progress">>)}

ApplicationCalls ==
    {Ask("GET", "project", <<"internal", "projects", "uuid", "exists">>),
     Ask("GET", "student", <<"internal", "students", "uuid", "matching-data">>),
     Ask("GET", "admin", <<"internal", "admin", "programs", "by-ids">>),
     Ask("POST", "matching", <<"internal", "matching", "calculate-for-application">>),
     Ask("PATCH", "project", <<"internal", "projects", "uuid", "increment-applications">>),
     Ask("GET", "user", <<"internal", "users", "profile", "uuid", "basic">>),
     Ask("GET", "project", <<"internal", "projects", "company", "uuid">>),
     Ask("GET", "project", <<"internal", "projects", "uuid", "deliverables">>),
     Ask("GET", "admin", <<"internal", "admin", "document-requirements">>),
     Ask("GET", "admin", <<"internal", "admin", "document-requirements", "uuid">>),
     Ask("GET", "admin", <<"internal", "admin", "settings", "text">>),
     Ask("GET", "admin", <<"internal", "admin", "assignments", "by-application", "uuid">>)}

EvaluationCalls ==
    {Ask("GET", "project", <<"internal", "projects", "uuid", "exists">>),
     Ask("GET", "application", <<"internal", "applications", "uuid", "academic-record-status">>)}

ProjectCalls ==
    {Ask("POST", "admin", <<"internal", "admin", "skills", "by-names">>),
     Ask("GET", "company", <<"internal", "companies", "uuid", "exists">>),
     Ask("GET", "application", <<"internal", "applications", "student", "uuid", "project-ids">>)}

MatchingCalls ==
    {Ask("GET", "admin", <<"internal", "admin", "programs", "by-ids">>),
     Ask("GET", "student", <<"internal", "students", "uuid", "matching-data">>),
     Ask("GET", "project", <<"internal", "projects", "uuid", "matching-data">>)}

StudentCalls ==
    {Ask("GET", "admin", <<"internal", "admin", "programs">>),
     Ask("POST", "admin", <<"internal", "admin", "skills", "by-names">>)}

NotificationCalls ==
    {Ask("GET", "auth", <<"internal", "auth", "users", "uuid">>),
     Ask("GET", "auth", <<"internal", "auth", "users", "by-role", "text">>)}

AnalyticsCalls ==
    {Ask("GET", "admin", <<"internal", "admin", "assignments", "stats">>),
     Ask("GET", "application", <<"internal", "applications", "academic-records", "stats">>)}

StorageCalls ==
    {Ask("POST", "application", <<"internal", "applications", "files", "can-access">>),
     Ask("POST", "project", <<"internal", "projects", "files", "can-access">>)}

InternalCalls ==
    UNION {GatewayCalls, AdminCalls, ApplicationCalls, EvaluationCalls, ProjectCalls,
           MatchingCalls, StudentCalls, NotificationCalls, AnalyticsCalls, StorageCalls}

(***************************************************************************)
(* Who a user is in an application, and what that allows                    *)
(***************************************************************************)
SeatRoles == {"asesor", "jurado_anteproyecto", "jurado_final"}

\* What the desk makes of the rows of each role.
SeatStatus ==
    [asesor |-> {"none", "pending_acceptance", "accepted", "declined", "replaced"},
     jurado_anteproyecto |-> {"none", "accepted", "disconnected"},
     jurado_final |-> {"none", "accepted", "disconnected"}]

Seatings == {s \in [SeatRoles -> UNION {SeatStatus[r] : r \in SeatRoles}] :
                \A r \in SeatRoles : s[r] \in SeatStatus[r]}

ContextRole == {"student", "company", "admin"} \cup SeatRoles

Reading == {"view_project", "view_progress", "view_academic_record", "view_activity",
            "view_anteproyecto", "view_documents", "view_deliverables",
            "comment_deliverable", "view_final_documents", "upload_final_document", "chat"}

\* Mutant of AsesorMay: an advisor may run the interviews too.
AsesorMayInterview ==
    Reading \cup {"view_candidate", "comment_anteproyecto", "create_deliverable",
                  "review_deliverable", "manage_interviews"}

AsesorMay ==
    Reading \cup {"view_candidate", "comment_anteproyecto", "create_deliverable",
                  "review_deliverable"}

PERMISSIONS_BY_ROLE ==
    [student |-> Reading \cup
        {"withdraw_application", "submit_interview_solution", "comment_interview",
         "view_selection_documents", "upload_selection_document", "submit_anteproyecto",
         "upload_document", "submit_deliverable"},
     company |-> Reading \cup
        {"view_candidate", "view_private_notes", "manage_private_notes",
         "change_application_status", "manage_interviews", "view_selection_documents",
         "request_selection_document", "review_selection_document", "upload_document",
         "create_deliverable", "review_deliverable"},
     asesor |-> AsesorMay,
     jurado_anteproyecto |-> {"view_project", "view_anteproyecto", "review_anteproyecto"},
     jurado_final |-> {"view_project", "view_documents", "review_document"},
     admin |-> Reading \cup
        {"view_candidate", "change_application_status", "manage_interviews",
         "extend_deadline", "review_document", "manage_document_requirements",
         "create_deliverable", "review_deliverable", "manage_initiation_agreement",
         "manage_finalization", "manage_participants", "review_final_document"}]

INACTIVE_ASSIGNMENT_STATUSES == {"declined", "disconnected", "replaced"}

Rows == {r \in SeatRoles : seats[r] # "none"}
ActiveSeats == {r \in Rows : seats[r] \notin INACTIVE_ASSIGNMENT_STATUSES}

\* pickPrimaryRole: ASSIGNMENT_ROLE_PRIORITY.
PrimaryRole(roles) ==
    CASE "asesor" \in roles -> "asesor"
      [] "asesor" \notin roles /\ "jurado_anteproyecto" \in roles -> "jurado_anteproyecto"
      [] roles = {"jurado_final"} -> "jurado_final"
      [] OTHER -> "nobody"

\* resolveViewer: an administrator always takes part; without project-service or the
\* desk nobody is the company or a teacher of the application.
resolveViewer(role, projectUp, deskUp) ==
    CASE role = "admin" -> "admin"
      [] role = "student" /\ party -> "student"
      [] role = "company" /\ party /\ projectUp -> "company"
      [] role = "faculty" /\ deskUp -> PrimaryRole(ActiveSeats)
      [] OTHER -> "nobody"

\* getFacultyRoleForApplication: some handlers look at one row of the sender, whichever
\* the desk names first, whatever its status is.
SeatAsked(route) ==
    CASE route.handler = "addAsesorComment" -> "asesor"
      [] route.handler \in {"reviewAnteproyecto", "getJuradoAnteproyectoHistory"}
            -> "jurado_anteproyecto"
      [] route.handler = "reviewDocument" -> "jurado_final"
      [] OTHER -> "any"

\* assertPermission.
Allowed(who, permission) ==
    who \in DOMAIN PERMISSIONS_BY_ROLE /\ permission \in PERMISSIONS_BY_ROLE[who]

(***************************************************************************)
(* Files                                                                   *)
(***************************************************************************)
\* The permission that the download of each kind of file takes.
locateFile ==
    [submission |-> "view_anteproyecto", history |-> "view_anteproyecto",
     document |-> "view_documents", selection |-> "view_selection_documents",
     record |-> "view_academic_record", deliverable |-> "view_deliverables",
     comment |-> "view_deliverables", interview |-> "view_project"]

\* The files that the answer of a handler names.
FilesShown(handler) ==
    CASE handler = "getAnteproyecto" -> {"submission"}
      [] handler = "getAnteproyectoHistory" -> {"history"}
      [] handler = "getDocuments" -> {"document"}
      [] handler = "getFinalDocuments" -> {"document"}
      [] handler = "getSelectionDocuments" -> {"selection"}
      [] handler = "getAcademicRecord" -> {"record"}
      [] handler = "getDeliverables" -> {"deliverable"}
      [] handler = "getDeliverableComments" -> {"comment"}
      [] handler = "getInterviews" -> {"interview"}
      [] handler = "getJuradoAnteproyectoHistory" -> {"submission", "history"}
      [] OTHER -> {}

\* The file a user may open who takes no part any more: that of the anteproyecto, when
\* the row the desk names first, in no fixed order, is of the asesor or of its jurados.
Former(kind, first) ==
    /\ locateFile[kind] = "view_anteproyecto"
    /\ first \in {"asesor", "jurado_anteproyecto"}

canAccessFile(kind, who, first) ==
    Allowed(who, locateFile[kind]) \/ (who = "nobody" /\ Former(kind, first))

(***************************************************************************)
(* The way of a request                                                    *)
(***************************************************************************)
NoRoute == On("GET", <<>>, {}, "none")

Refusals == {"not_found", "unauthorized", "forbidden", "bad_request"}

TypeOK ==
    /\ at \in {"gateway", "proxy", "service", "guards", "handler", "seat", "served",
               "denied", "given"} \cup Refusals
    /\ request.method \in {"GET", "POST", "PUT", "PATCH", "DELETE"}
    /\ request.service \in Services \cup {"unknown"} /\ request.sender \in Anyone
    /\ request.token \in {"none", "valid", "stale"}
    /\ party \in BOOLEAN /\ seats \in Seatings /\ faulty \in BOOLEAN
    /\ identity \in Anyone /\ viewer \in ContextRole \cup {"nobody"}

Sample(path) ==
    [i \in DOMAIN path |->
        IF path[i] = Id THEN "uuid" ELSE IF path[i] = Text THEN "text" ELSE path[i]]

\* A person sends a request for some route, or anonymously for a public path.
FromPerson(sender, token, method, path, aim) ==
    /\ at = "gateway"
    /\ (sender = "anonymous") <=> (token = "none")
    /\ request = [method |-> method, service |-> "unknown", path |-> path, aim |-> aim,
                  sender |-> sender, token |-> token]

FromService(c) ==
    /\ at = "service"
    /\ request = [method |-> c.method, service |-> c.service, path |-> c.path,
                  aim |-> NoRoute, sender |-> "anonymous", token |-> "none"]

NoSeats == [r \in SeatRoles |-> "none"]

\* Only a teacher has rows at the desk, and only their requests about an application
\* look at them.
Part(sender, aim) ==
    /\ party \in (IF sender \in Parties /\ aim.needs # "nothing" THEN BOOLEAN ELSE {FALSE})
    /\ seats \in (IF sender = "faculty" /\ (aim.needs # "nothing" \/ SeatAsked(aim) # "any")
                  THEN Seatings ELSE {NoSeats})

Init ==
    /\ identity = "anonymous" /\ handling = NoRoute /\ viewer = "nobody" /\ faulty = FALSE
    /\ \/ \E s \in Services : \E i \in DOMAIN RoutesOf[s] : \E sender \in Anyone :
             LET aim == RoutesOf[s][i] IN
             /\ aim.path[1] = "api"
             /\ \E token \in {"none", "valid", "stale"} :
                  FromPerson(sender, token, aim.method, Sample(aim.path), aim)
             /\ Part(sender, aim)
       \/ /\ \E p \in publicGetRoutes : FromPerson("anonymous", "none", "GET", p, NoRoute)
          /\ Part("anonymous", NoRoute)
       \/ /\ \E c \in InternalCalls : FromService(c)
          /\ Part("anonymous", NoRoute)

Goes(place) == at' = place

\* GatewayAuthMiddleware: a token that auth-service does not confirm, or cannot, leaves
\* the sender unknown, which only a public route accepts.
Authenticate ==
    /\ at = "gateway"
    /\ \E reached \in BOOLEAN :
         LET known == request.token = "valid" /\ reached
         IN /\ identity' = IF known THEN request.sender ELSE "anonymous"
            /\ Goes(IF known \/ isPublicRoute(request.method, request.path)
                    THEN "proxy" ELSE "unauthorized")
            /\ faulty' = ~reached
    /\ UNCHANGED <<request, party, seats, handling, viewer>>

\* ProxyMiddleware: the first prefix that fits.
Forward ==
    /\ at = "proxy"
    /\ request.path[3] \in DOMAIN GATEWAY_ROUTES
    /\ request' = [request EXCEPT !.service = GATEWAY_ROUTES[request.path[3]]]
    /\ Goes("service")
    /\ UNCHANGED <<party, seats, identity, handling, viewer, faulty>>

Match ==
    /\ at = "service"
    /\ LET i == Matching(request.service, request.method, request.path)
       IN IF i = 0 THEN Goes("not_found") /\ UNCHANGED handling
          ELSE handling' = RoutesOf[request.service][i] /\ Goes("guards")
    /\ UNCHANGED <<request, party, seats, identity, viewer, faulty>>

\* JwtAuthGuard and RolesGuard, then the pipes of the parameters.
Guard ==
    /\ at = "guards"
    /\ Goes(CASE identity \notin handling.who /\ identity = "anonymous" -> "unauthorized"
              [] identity \notin handling.who /\ identity # "anonymous" -> "forbidden"
              [] identity \in handling.who /\ ~Parses(handling, request.path) -> "bad_request"
              [] OTHER -> "handler")
    /\ UNCHANGED <<request, party, seats, identity, handling, viewer, faulty>>

\* The row that the desk names first, in no fixed order.
First(row) == row \in Rows \/ (Rows = {} /\ row = "none")

\* authorize; a call that fails leaves the sender without a part.
Authorize ==
    /\ at = "handler"
    /\ IF handling.needs = "nothing" THEN Goes("seat") /\ UNCHANGED <<viewer, faulty>>
       ELSE \E projectUp, deskUp \in BOOLEAN :
              LET who == resolveViewer(identity, projectUp, deskUp)
              IN /\ viewer' = who
                 /\ faulty' = (faulty \/ ~projectUp \/ ~deskUp)
                 /\ Goes(IF Allowed(who, handling.needs) THEN "seat" ELSE "forbidden")
    /\ UNCHANGED <<request, party, seats, identity, handling>>

\* What the handlers of teachers ask of their own.
SeatCheck ==
    /\ at = "seat"
    /\ IF SeatAsked(handling) = "any" \/ identity # "faculty" THEN Goes("served")
       ELSE \E first \in SeatRoles \cup {"none"} :
              /\ First(first)
              /\ Goes(IF first = SeatAsked(handling) THEN "served" ELSE "forbidden")
    /\ UNCHANGED <<request, party, seats, identity, handling, viewer, faulty>>

\* The sender opens a file that the answer named: storage-service asks canAccessFile,
\* and denies it when the call fails.
Download ==
    /\ at = "served" /\ request.service = "application" /\ request.aim # NoRoute
    /\ \E kind \in FilesShown(handling.handler) :
         \E first \in SeatRoles \cup {"none"} : \E reached \in BOOLEAN :
            /\ First(first)
            /\ faulty' = (faulty \/ ~reached)
            /\ LET who == resolveViewer(identity, TRUE, TRUE)
               IN Goes(IF reached /\ canAccessFile(kind, who, first) THEN "given" ELSE "denied")
    /\ UNCHANGED <<request, party, seats, identity, handling, viewer>>

Next == Authenticate \/ Forward \/ Match \/ Guard \/ Authorize \/ SeatCheck \/ Download

Spec == Init /\ [][Next]_vars

(***************************************************************************)
(* Properties                                                              *)
(***************************************************************************)
\* No route hides behind an earlier one: what was aimed at is what answers.
OwnRouteAnswers ==
    (handling # NoRoute /\ request.aim # NoRoute) => handling = request.aim

\* The gateway and the guards agree: a sender whom the controller lets in, with a token
\* that is none or good, gets to the handler while auth-service can be reached.
AdmittedGetThrough ==
    (at \in {"unauthorized", "not_found", "bad_request"} /\ request.aim # NoRoute
        /\ request.token # "stale" /\ ~faulty)
            => request.sender \notin request.aim.who

\* The roles of a route and the permissions of an application agree: a guard turns
\* nobody away who could have, in some application, a part that allows what the handler
\* does.
GuardsRespectPermissions ==
    (at = "forbidden" /\ viewer = "nobody" /\ identity \notin handling.who
        /\ handling.needs # "nothing")
            => \A who \in ContextRole :
                 (who = identity \/ (who \in SeatRoles /\ identity = "faculty"))
                    => handling.needs \notin PERMISSIONS_BY_ROLE[who]

\* Every call that a service makes of another has a route that takes it.
InternalCallsLand ==
    request.aim = NoRoute /\ request.service # "unknown" /\ request.path[1] # "api"
        => at \notin {"not_found", "unauthorized", "forbidden", "bad_request"}

\* Whoever is shown a file may open it, as long as the services answer. The history
\* that a former jurado still sees is the exception: storage-service denies its files,
\* depending on the row that is found first or once its jurado has another seat.
ShownFilesOpen ==
    (at = "denied" /\ ~faulty) =>
        /\ handling.handler = "getJuradoAnteproyectoHistory"
        /\ seats["jurado_anteproyecto"] \in {"accepted", "disconnected"}
        /\ \E r \in SeatRoles \ {"jurado_anteproyecto"} : seats[r] # "none"
===============================================================================

--------------------------- MODULE EventContracts ---------------------------
(***************************************************************************)
(* What the services publish for notification-service and what its         *)
(* subscriptions read (notification.subscriber.ts). A payload is the set   *)
(* of its fields that say whom to notify, or whether to: the fields every  *)
(* publication has (has) and those that may be empty at run time (may),    *)
(* because a call to another service failed. Two records of one event are  *)
(* two places that publish it.                                             *)
(*                                                                         *)
(* A subscription is a record: the fields without which it returns (needs) *)
(* and whom it tells, in order (to); whether the mail is mandatory         *)
(* (forced), whether one try surrounds all of its recipients (together),   *)
(* and the switch of the preferences its type belongs to (category).       *)
(***************************************************************************)
EXTENDS Sequences

\* A publication, a subscription.
P(event, has, may) == [event |-> event, has |-> has, may |-> may]
H(event, needs, to, forced, together, category) ==
    [event |-> event, needs |-> needs, to |-> to, forced |-> forced,
     together |-> together, category |-> category]
Mandatory(event, needs, to, category) == H(event, needs, to, TRUE, FALSE, category)
Optional(event, needs, to, category) == H(event, needs, to, FALSE, FALSE, category)
InOneTry(event, to, forced, category) == H(event, {}, to, forced, TRUE, category)
One(event, field, forced, category) == H(event, {field}, <<field>>, forced, FALSE, category)

(***************************************************************************)
(* The publishers                                                          *)
(***************************************************************************)
AccountEvents == {
    P("auth.email_verification.requested", {"userId", "verifyUrl"}, {}),
    P("auth.password_reset.requested", {"userId", "resetUrl"}, {})}

\* updateStatus; setFacultyStatus.
ProjectEvents == {
    P("project.submitted_for_review", {"projectId"}, {}),
    P("project.faculty_approved", {"companyId"}, {}),
    P("project.needs_changes", {"companyId"}, {}),
    P("project.faculty_rejected", {"companyId"}, {})}

AssignedEvents == {P("admin.supervisor.assigned", {"supervisorUserId"}, {})}
AcceptedEvents == {P("admin.supervisor.accepted", {"assignedBy", "studentId"}, {})}
DeclinedEvents == {P("admin.supervisor.declined", {"assignedBy", "studentId"}, {})}
ReplacedEvents == {P("admin.supervisor.replaced", {"newSupervisorUserId", "studentId"}, {})}

CreatedEvents == {P("application.created", {"studentId", "companyUserId"}, {})}

\* updateStatus names the student twice, as its readers expect him.
UpdateStatusEvents == {
    P("application.status.changed", {"studentId", "studentUserId"}, {"companyUserId"})}

\* withdraw publishes the same event with the fields of the application only.
WithdrawEvents == {P("application.status.changed", {"studentId"}, {})}

EvaluationEvents == {P("evaluation.created", {"evaluatorId", "evaluatedId"}, {})}
CompletedEvents == {P("evaluation.completed", {"evaluatedId"}, {})}
ScoreEvents == {P("matching.score.calculated", {"studentId"}, {"isRecommended"})}

\* Nobody is left to tell in a conversation everyone else archived.
MessageEvents == {P("chat.message.sent", {}, {"recipientIds"})}

DeliverableAssignedEvents == {P("deliverable.assigned", {"studentId"}, {})}
DeliverableSubmittedEvents == {P("deliverable.submitted", {"studentId"}, {})}
DeliverableReviewedEvents == {P("deliverable.reviewed", {"studentId"}, {})}

\* The context of the academic events is asked of project-service and admin-service.
SubmissionEvents == {
    P("academic.anteproyecto.submitted", {"studentId"}, {"asesorUserId", "juradoUserIds"}),
    P("academic.anteproyecto.revised", {"studentId"}, {"asesorUserId", "juradoUserIds"})}
CorrectionEvents == {
    P("academic.anteproyecto.correction_requested", {"studentId"}, {"asesorUserId"})}
DecisionEvents == {
    P("academic.anteproyecto.rejected", {"studentId"}, {"asesorUserId"}),
    P("academic.anteproyecto.approved", {"studentId"}, {"asesorUserId"})}
DeadlineEvents == {
    P("academic.anteproyecto.deadline_extended", {"studentId"},
      {"asesorUserId", "juradoUserIds"})}
AgreementEvents == {
    P("academic.agreement.uploaded", {"studentId"}, {"companyUserId", "asesorUserId"})}
ProgressEvents == {P("academic.progress.near_completion", {"studentId"}, {"asesorUserId"})}
FinalizationEvents == {
    P("academic.finalization.started", {"studentId"}, {"companyUserId", "asesorUserId"})}
CompletionEvents == {
    P("academic.completed", {"studentId"}, {"companyUserId", "asesorUserId"})}

Publications ==
    UNION {AccountEvents, ProjectEvents, AssignedEvents, AcceptedEvents, DeclinedEvents,
           ReplacedEvents, CreatedEvents, UpdateStatusEvents, WithdrawEvents,
           EvaluationEvents, CompletedEvents, ScoreEvents, MessageEvents,
           DeliverableAssignedEvents, DeliverableSubmittedEvents,
           DeliverableReviewedEvents, SubmissionEvents, CorrectionEvents, DecisionEvents,
           DeadlineEvents, AgreementEvents, ProgressEvents, FinalizationEvents,
           CompletionEvents}

(***************************************************************************)
(* The subscriptions of notification-service                               *)
(***************************************************************************)
AccountHandlers == {
    Mandatory("auth.email_verification.requested", {"userId", "verifyUrl"}, <<"userId">>,
              "always"),
    Mandatory("auth.password_reset.requested", {"userId", "resetUrl"}, <<"userId">>,
              "always")}

\* The administrators are asked of auth-service when the event arrives.
ProjectHandlers == {
    Mandatory("project.submitted_for_review", {}, <<"admins">>, "projectUpdates"),
    One("project.faculty_approved", "companyId", TRUE, "projectUpdates"),
    One("project.faculty_rejected", "companyId", TRUE, "projectUpdates"),
    One("project.needs_changes", "companyId", TRUE, "projectUpdates")}

DeskHandlers == {
    One("admin.supervisor.assigned", "supervisorUserId", TRUE, "projectUpdates"),
    InOneTry("admin.supervisor.accepted", <<"assignedBy", "studentId">>, TRUE,
             "projectUpdates"),
    One("admin.supervisor.declined", "assignedBy", TRUE, "projectUpdates"),
    InOneTry("admin.supervisor.replaced", <<"newSupervisorUserId", "studentId">>, TRUE,
             "projectUpdates")}

ApplicationHandlers == {
    One("application.created", "companyUserId", FALSE, "applicationUpdates"),
    One("application.status.changed", "studentUserId", FALSE, "applicationUpdates")}

EvaluationHandlers == {
    One("evaluation.created", "evaluatorId", FALSE, "evaluationAlerts"),
    One("evaluation.completed", "evaluatedId", FALSE, "evaluationAlerts")}

MatchHandlers == {
    Optional("matching.score.calculated", {"studentUserId", "isRecommended"},
             <<"studentUserId">>, "matchRecommendations")}

MessageHandlers == {One("chat.message.sent", "recipientIds", FALSE, "chatMessages")}

DeliverableHandlers == {
    One("deliverable.assigned", "studentId", FALSE, "always"),
    InOneTry("deliverable.submitted", <<"companyUserId", "supervisorUserId">>, FALSE,
             "always"),
    One("deliverable.reviewed", "studentId", FALSE, "evaluationAlerts")}

AnteproyectoHandlers == {
    Mandatory("academic.anteproyecto.submitted", {}, <<"asesorUserId", "juradoUserIds">>,
              "projectUpdates"),
    Mandatory("academic.anteproyecto.revised", {}, <<"asesorUserId", "juradoUserIds">>,
              "projectUpdates"),
    One("academic.anteproyecto.correction_requested", "studentId", TRUE, "projectUpdates"),
    Mandatory("academic.anteproyecto.approved", {}, <<"studentId", "asesorUserId">>,
              "projectUpdates"),
    One("academic.anteproyecto.rejected", "studentId", TRUE, "projectUpdates"),
    Optional("academic.anteproyecto.deadline_extended", {},
             <<"studentId", "asesorUserId", "juradoUserIds">>, "projectUpdates")}

Parties == <<"studentId", "companyUserId", "asesorUserId">>
ProcessHandlers == {
    Mandatory("academic.agreement.uploaded", {}, Parties, "projectUpdates"),
    Optional("academic.finalization.started", {}, Parties, "projectUpdates"),
    One("academic.progress.near_completion", "asesorUserId", FALSE, "projectUpdates"),
    Mandatory("academic.completed", {}, Parties, "projectUpdates")}

Handlers ==
    UNION {AccountHandlers, ProjectHandlers, DeskHandlers, ApplicationHandlers,
           EvaluationHandlers, MatchHandlers, MessageHandlers, DeliverableHandlers,
           AnteproyectoHandlers, ProcessHandlers}

\* notification-service subscribes to each of them with one queue.
HandlerOf(event) == CHOOSE h \in Handlers : h.event = event

\* The people a field stands for, in this order; a list has two.
Who(field) ==
    CASE field = "admins" -> <<"admin", "otherAdmin">>
      [] field = "juradoUserIds" -> <<"jurado", "otherJurado">>
      [] field = "recipientIds" -> <<"peer", "otherPeer">>
      [] field \in {"studentId", "studentUserId"} -> <<"student">>
      [] field \in {"companyId", "companyUserId"} -> <<"company">>
      [] field \in {"asesorUserId", "supervisorUserId", "newSupervisorUserId"} -> <<"asesor">>
      [] field = "assignedBy" -> <<"admin">>
      [] OTHER -> <<"user">>
=============================================================================

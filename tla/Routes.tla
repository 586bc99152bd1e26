-------------------------------- MODULE Routes --------------------------------
(***************************************************************************)
(* The routes of every controller, in the order in which its class declares *)
(* them, which is the order in which the framework tries them: the method,  *)
(* the path below the prefix of the controller, the callers its guards let  *)
(* in, its handler and, in application-service, the permission that its     *)
(* handler asks for before anything else.                                   *)
(***************************************************************************)
EXTENDS Sequences

\* Segments of a path that take any value: an identifier that ParseUUIDPipe checks, and
\* any text.
Id == ":id"
Text == ":text"

\* UserRole.
Students == {"student"}
Companies == {"company"}
Faculty == {"faculty"}
Admins == {"admin"}
Business == Companies \cup Admins
Academics == Faculty \cup Admins
Parties == Students \cup Companies
Reviewers == Business \cup Faculty
Selectors == Business \cup Students
Campus == Academics \cup Students

\* The guards: nobody has to be signed in without JwtAuthGuard, and without Roles any
\* role will do.
SignedIn == Business \cup Campus
Anyone == SignedIn \cup {"anonymous"}

On(method, path, who, handler) ==
    [method |-> method, path |-> path, who |-> who, handler |-> handler, needs |-> "nothing"]

Get(path, who, handler) == On("GET", path, who, handler)
Post(path, who, handler) == On("POST", path, who, handler)
Put(path, who, handler) == On("PUT", path, who, handler)
Patch(path, who, handler) == On("PATCH", path, who, handler)
Delete(path, who, handler) == On("DELETE", path, who, handler)

\* authorize(id, user, permission), the first thing a handler does.
May(permission, route) == [route EXCEPT !.needs = permission]

AdminInternalRoutes == <<
    Get(<<"document-requirements">>, Anyone, "getDocumentRequirements"),
    Get(<<"document-requirements", Text>>, Anyone, "getDocumentRequirementById"),
    Get(<<"settings", Text>>, Anyone, "getSettingByKey"),
    Get(<<"assignments", "stats">>, Anyone, "getAssignmentStats"),
    Get(<<"assignments", "by-application", Text>>, Anyone, "getAssignmentsByApplication"),
    Get(<<"skills">>, Anyone, "getInternalSkillCatalog"),
    Get(<<"programs", "by-ids">>, Anyone, "getProgramsByIds"),
    Get(<<"programs">>, Anyone, "getInternalPrograms"),
    Post(<<"skills", "by-names">>, Anyone, "resolveSkillsByNames")>>

AdminPeriodsRoutes == <<
    Get(<<"dashboard">>, Academics, "getDashboard"),
    Get(<<"periods">>, SignedIn, "getPeriods"),
    Post(<<"periods">>, Admins, "createPeriod"),
    Get(<<"periods", Id>>, SignedIn, "getPeriodById"),
    Put(<<"periods", Id>>, Admins, "updatePeriod"),
    Get(<<"programs">>, SignedIn, "getPrograms"),
    Post(<<"programs">>, Admins, "createProgram"),
    Get(<<"programs", Id>>, SignedIn, "getProgramById"),
    Put(<<"programs", Id>>, Admins, "updateProgram"),
    Get(<<"companies", "verifications">>, Academics, "getCompanyVerifications"),
    Put(<<"companies", Id, "verify">>, Academics, "verifyCompany")>>

AdminSupervisorsRoutes == <<
    Get(<<"supervisors">>, Academics, "getSupervisors"),
    Post(<<"supervisors">>, Admins, "createSupervisor"),
    Post(<<"supervisors", "assign">>, Academics, "assignSupervisor"),
    Post(<<"supervisors", "assign-jurado">>, Admins, "assignJurado"),
    Get(<<"supervisors", "my-students">>, Faculty, "getMySupervisedStudents"),
    Get(<<"supervisors", "assignments", Text>>, Faculty, "getAssignmentById"),
    Patch(<<"supervisors", "assignments", Text, "accept">>, Faculty, "acceptAssignment"),
    Patch(<<"supervisors", "assignments", Text, "decline">>, Faculty, "declineAssignment"),
    Patch(<<"supervisors", "assignments", Text, "replace">>, Admins, "replaceAssignment"),
    Patch(<<"supervisors", "assignments", Text, "disconnect">>, Admins, "disconnectAssignment"),
    Get(<<"supervisors", "assignments", Text, "history">>, Academics, "getAssignmentHistory"),
    Get(<<"supervisors", "me">>, Faculty, "getMyProfile"),
    Patch(<<"supervisors", "me">>, Faculty, "updateMyProfile")>>

AdminSettingsRoutes == <<
    Get(<<"settings">>, Admins, "getSettings"),
    Put(<<"settings">>, Admins, "upsertSetting"),
    Get(<<"settings", Text>>, Admins, "getSettingByKey"),
    Get(<<"rejection-categories">>, Reviewers, "getRejectionCategories"),
    Post(<<"rejection-categories">>, Admins, "createRejectionCategory"),
    Patch(<<"rejection-categories", Id>>, Admins, "updateRejectionCategory"),
    Get(<<"templates">>, SignedIn, "getTemplates"),
    Post(<<"templates">>, Admins, "createTemplate"),
    Get(<<"templates", Id>>, SignedIn, "getTemplateById"),
    Patch(<<"templates", Id>>, Admins, "updateTemplate")>>

AdminRequirementsRoutes == <<
    Get(<<"document-requirements">>, SignedIn, "getDocumentRequirements"),
    Post(<<"document-requirements">>, Admins, "createDocumentRequirement"),
    Get(<<"document-requirements", Id>>, SignedIn, "getDocumentRequirementById"),
    Patch(<<"document-requirements", Id>>, Admins, "updateDocumentRequirement"),
    Get(<<"skills">>, SignedIn, "getSkills"),
    Post(<<"skills">>, Admins, "createSkill"),
    Get(<<"skills", "by-program", Id>>, SignedIn, "getSkillsByProgram"),
    Get(<<"skills", Id>>, SignedIn, "getSkillById"),
    Patch(<<"skills", Id>>, Admins, "updateSkill"),
    Patch(<<"skills", Id, "deactivate">>, Admins, "deactivateSkill"),
    Post(<<"skills", Id, "programs">>, Admins, "associateSkillPrograms"),
    Delete(<<"skills", Id, "programs", Id>>, Admins, "disassociateSkillProgram")>>

AnalyticsRoutes == <<
    Get(<<"dashboard">>, Academics, "getDashboard"),
    Get(<<"academic-kpis">>, Academics, "getAcademicKpis"),
    Get(<<"platform">>, Academics, "getPlatformMetrics"),
    Get(<<"projects", Id>>, Reviewers, "getProjectMetrics"),
    Get(<<"projects", Id, "summary">>, Reviewers, "getProjectMetricsSummary"),
    Get(<<"students", Id>>, Campus, "getStudentMetrics"),
    Get(<<"students", Id, "summary">>, Campus, "getStudentMetricsSummary"),
    Get(<<"companies", Id>>, Reviewers, "getCompanyMetrics"),
    Get(<<"companies", Id, "summary">>, Reviewers, "getCompanyMetricsSummary"),
    Get(<<"skills", "trends">>, SignedIn, "getSkillTrends"),
    Get(<<"skills", "top">>, SignedIn, "getTopDemandedSkills"),
    Post(<<"reports">>, Academics, "generateReport"),
    Get(<<"reports">>, Academics, "getReports"),
    Get(<<"reports", Id>>, Academics, "getReport")>>

ApplicationInternalRoutes == <<
    Get(<<"project", Id, "count">>, Anyone, "countByProject"),
    Get(<<"student", Id, "active-count">>, Anyone, "countActiveByStudent"),
    Get(<<"student", Id, "project-ids">>, Anyone, "getAppliedProjectIds"),
    Get(<<"project", Id>>, Anyone, "getProjectApplications"),
    Post(<<"student", Id, "withdraw-all">>, Anyone, "withdrawAllByStudent"),
    Patch(<<Id, "pending-supervisor">>, Anyone, "markPendingSupervisor"),
    Patch(<<Id, "revert-accepted">>, Anyone, "revertToAccepted"),
    Patch(<<Id, "start-progress">>, Anyone, "startInProgress"),
    Get(<<"academic-records", "stats">>, Anyone, "getAcademicRecordStats"),
    Get(<<Id, "academic-record-status">>, Anyone, "getAcademicRecordStatus"),
    Get(<<Id, "enriched">>, Anyone, "getEnrichedApplication"),
    Post(<<"files", "can-access">>, Anyone, "canAccessFile")>>

ApplicationsRoutes == <<
    Post(<<>>, Students, "create"),
    Get(<<"admin", "pending">>, Admins, "getAdminPending"),
    Get(<<"admin", "academic-queue">>, Admins, "getAcademicQueue"),
    Get(<<"my">>, Students, "getMyApplications"),
    Get(<<"received">>, Business, "getReceivedApplications"),
    May("view_project", Get(<<Id>>, SignedIn, "findOne")),
    May("view_project", Get(<<Id, "context">>, SignedIn, "getContext")),
    May("manage_private_notes", Patch(<<Id, "notes">>, Business, "updateNotes")),
    May("view_activity", Get(<<Id, "timeline">>, SignedIn, "getTimeline")),
    Get(<<"project", Id>>, Business, "getByProject"),
    May("change_application_status", Patch(<<Id, "status">>, Business, "updateStatus")),
    May("withdraw_application", Patch(<<Id, "withdraw">>, Students, "withdraw"))>>

InterviewsRoutes == <<
    May("manage_interviews", Post(<<Id, "interviews">>, Business, "scheduleInterview")),
    May("view_project", Get(<<Id, "interviews">>, SignedIn, "getInterviews")),
    May("manage_interviews",
        Patch(<<Id, "interviews", Id, "brief">>, Business, "setInterviewBrief")),
    May("submit_interview_solution",
        Patch(<<Id, "interviews", Id, "solution">>, Students, "setInterviewSolution")),
    May("manage_interviews",
        Patch(<<Id, "interviews", Id, "complete">>, Business, "completeInterview")),
    May("manage_interviews",
        Patch(<<Id, "interviews", Id, "cancel">>, Business, "cancelInterview")),
    May("manage_interviews",
        Post(<<Id, "interviews", Id, "reschedule">>, Business, "rescheduleInterview")),
    May("comment_interview",
        Patch(<<Id, "interviews", Id, "student-feedback">>, Students, "setStudentInterviewFeedback"))>>

DeliverablesRoutes == <<
    May("submit_deliverable", Post(<<Id, "deliverables">>, Students, "submitDeliverable")),
    May("submit_deliverable",
        Patch(<<Id, "deliverables", Id>>, Students, "updateDeliverable")),
    May("view_deliverables", Get(<<Id, "deliverables">>, SignedIn, "getDeliverables")),
    May("review_deliverable",
        Patch(<<Id, "deliverables", Id, "approve">>, Reviewers, "approveDeliverable")),
    May("review_deliverable",
        Patch(<<Id, "deliverables", Id, "reject">>, Reviewers, "rejectDeliverable")),
    May("review_deliverable",
        Patch(<<Id, "deliverables", Id, "request-revision">>, Reviewers, "requestRevision")),
    May("create_deliverable",
        Post(<<Id, "deliverables", "create">>, Reviewers, "createDeliverable")),
    May("create_deliverable",
        Post(<<"deliverables", "bulk-create">>, Reviewers, "bulkCreateDeliverable"))>>

DocumentsRoutes == <<
    May("view_documents",
        Get(<<Id, "documents", "requirements">>, SignedIn, "getProjectDocumentRequirements")),
    May("manage_document_requirements",
        Post(<<Id, "documents", "requirements">>, Admins, "selectDocumentRequirements")),
    May("upload_document", Post(<<Id, "documents">>, Parties, "uploadDocument")),
    May("view_documents", Get(<<Id, "documents">>, SignedIn, "getDocuments")),
    May("review_document",
        Patch(<<Id, "documents", Id, "review">>, Academics, "reviewDocument")),
    May("request_selection_document",
        Post(<<Id, "selection-documents">>, Business, "requestSelectionDocument")),
    May("view_selection_documents",
        Get(<<Id, "selection-documents">>, Selectors, "getSelectionDocuments")),
    May("upload_selection_document",
        Post(<<Id, "selection-documents", Id, "submit">>, Students, "submitSelectionDocument")),
    May("review_selection_document",
        Patch(<<Id, "selection-documents", Id, "review">>, Business, "reviewSelectionDocument"))>>

AnteproyectosRoutes == <<
    May("submit_anteproyecto", Post(<<Id, "anteproyecto">>, Students, "submitAnteproyecto")),
    May("comment_anteproyecto",
        Patch(<<Id, "anteproyecto", "asesor-comment">>, Faculty, "addAsesorComment")),
    May("review_anteproyecto",
        Patch(<<Id, "anteproyecto", "review">>, Faculty, "reviewAnteproyecto")),
    May("view_anteproyecto", Get(<<Id, "anteproyecto">>, SignedIn, "getAnteproyecto")),
    May("view_anteproyecto",
        Get(<<Id, "anteproyecto", "history">>, SignedIn, "getAnteproyectoHistory")),
    Get(<<Id, "anteproyecto", "jurado-history">>, Academics, "getJuradoAnteproyectoHistory"),
    May("extend_deadline",
        Patch(<<Id, "anteproyecto", "extend-deadline">>, Admins, "extendAnteproyectoDeadline"))>>

CommentsRoutes == <<
    May("comment_deliverable",
        Post(<<Id, "deliverables", Id, "comments">>, SignedIn, "addDeliverableComment")),
    May("view_deliverables",
        Get(<<Id, "deliverables", Id, "comments">>, SignedIn, "getDeliverableComments")),
    May("view_academic_record",
        Get(<<Id, "academic-record">>, SignedIn, "getAcademicRecord")),
    May("view_academic_record",
        Get(<<Id, "academic-record", "checklist">>, SignedIn, "getInitiationChecklist")),
    May("manage_initiation_agreement",
        Patch(<<Id, "academic-record", "initiation-agreement">>, Admins, "uploadInitiationAgreement")),
    May("view_progress", Get(<<Id, "progress">>, SignedIn, "getProgress"))>>

FinalizationRoutes == <<
    May("manage_finalization",
        Patch(<<Id, "finalization", "start">>, Admins, "startFinalization")),
    May("view_final_documents",
        Get(<<Id, "finalization", "documents">>, SignedIn, "getFinalDocuments")),
    May("upload_final_document",
        Post(<<Id, "finalization", "documents">>, SignedIn, "uploadFinalDocument")),
    May("review_final_document",
        Patch(<<Id, "finalization", "documents", Id, "review">>, Admins, "reviewFinalDocument")),
    May("manage_finalization",
        Patch(<<Id, "finalization", "advance">>, Admins, "advanceFinalization")),
    May("manage_finalization",
        Patch(<<Id, "finalization", "final-grade">>, Admins, "uploadFinalGrade")),
    May("manage_finalization",
        Patch(<<Id, "finalization", "cancel">>, Admins, "cancelFinalization"))>>

AuthRoutes == <<
    Post(<<"register">>, Anyone, "register"),
    Post(<<"login">>, Anyone, "login"),
    Post(<<"refresh">>, Anyone, "refresh"),
    Post(<<"logout">>, SignedIn, "logout"),
    Post(<<"logout-all">>, SignedIn, "logoutAll"),
    Post(<<"verify-email">>, Anyone, "verifyEmail"),
    Post(<<"resend-verification-email">>, Anyone, "resendVerificationEmail"),
    Post(<<"forgot-password">>, Anyone, "forgotPassword"),
    Post(<<"reset-password">>, Anyone, "resetPassword"),
    Post(<<"change-password">>, SignedIn, "changePassword"),
    Post(<<"validate">>, Anyone, "validateToken")>>

AuthAdminRoutes == <<
    Post(<<"admin", "users">>, Admins, "createAdminUser"),
    Get(<<"admin", "users">>, Admins, "getAdminUsers"),
    Patch(<<"admin", "users", Id>>, Admins, "updateAdminUser"),
    Delete(<<"admin", "users", Id>>, Admins, "deleteAdminUser")>>

AuthInternalRoutes == <<
    Get(<<"users", "by-role", Text>>, Anyone, "getUsersByRole"),
    Post(<<"validate">>, Anyone, "validateToken"),
    Get(<<"users", Text>>, Anyone, "getUserById"),
    Get(<<"users", Text, "role">>, Anyone, "getUserRole")>>

ChatInternalRoutes == <<
    Get(<<"conversations", "project", Text>>, Anyone, "getConversationsByProject"),
    Get(<<"conversations", Text, "participants">>, Anyone, "getParticipants")>>

ChatConversationsRoutes == <<
    Get(<<"conversations">>, SignedIn, "getMyConversations"),
    Post(<<"conversations">>, SignedIn, "createConversation"),
    Get(<<"conversations", Id>>, SignedIn, "getConversation"),
    Put(<<"conversations", Id, "archive">>, SignedIn, "archiveConversation"),
    Get(<<"conversations", Id, "messages">>, SignedIn, "getMessages"),
    Post(<<"conversations", Id, "messages">>, SignedIn, "sendMessage"),
    Put(<<"conversations", Id, "read">>, SignedIn, "markAsRead")>>

ChatMessagesRoutes == <<
    Put(<<"messages", Id>>, SignedIn, "editMessage"),
    Delete(<<"messages", Id>>, SignedIn, "deleteMessage"),
    Post(<<"messages", Id, "reactions", Text>>, SignedIn, "addReaction"),
    Delete(<<"messages", Id, "reactions", Text>>, SignedIn, "removeReaction"),
    Get(<<"search">>, SignedIn, "searchMessages")>>

CompanyInternalRoutes == <<
    Get(<<Id, "basic-info">>, Anyone, "getBasicInfo"),
    Get(<<Id, "exists">>, Anyone, "exists"),
    Post(<<"update-rating">>, Anyone, "updateRating")>>

CompanyProfilesRoutes == <<
    Post(<<"profile">>, Companies, "createProfile"),
    Get(<<"profile">>, Companies, "getMyProfile"),
    Get(<<"profile", Id>>, SignedIn, "getProfileByUserId"),
    Patch(<<"profile">>, Companies, "updateProfile"),
    Get(<<"search">>, SignedIn, "searchCompanies"),
    Get(<<"locations">>, Companies, "getLocations"),
    Post(<<"locations">>, Companies, "addLocation"),
    Patch(<<"locations", Id>>, Companies, "updateLocation"),
    Delete(<<"locations", Id>>, Companies, "deleteLocation")>>

CompanyContactsRoutes == <<
    Get(<<"contacts">>, Companies, "getContacts"),
    Post(<<"contacts">>, Companies, "addContact"),
    Patch(<<"contacts", Id>>, Companies, "updateContact"),
    Delete(<<"contacts", Id>>, Companies, "deleteContact"),
    Get(<<"business-areas">>, Companies, "getBusinessAreas"),
    Post(<<"business-areas">>, Companies, "addBusinessArea"),
    Delete(<<"business-areas", Id>>, Companies, "deleteBusinessArea"),
    Get(<<"admin", "list">>, Admins, "getAdminCompanies"),
    Patch(<<"admin", Id, "review">>, Admins, "reviewCompany")>>

EvaluationInternalRoutes == <<
    Get(<<"application", Id>>, Anyone, "findByApplication"),
    Get(<<"aggregate", Id>>, Anyone, "getAggregateScores")>>

EvaluationsRoutes == <<
    Post(<<>>, SignedIn, "create"),
    Get(<<"my", "as-evaluator">>, SignedIn, "getMyEvaluations"),
    Get(<<"my", "as-evaluated">>, SignedIn, "getEvaluationsAboutMe"),
    Get(<<"criteria">>, SignedIn, "getCriteria"),
    Post(<<"criteria">>, Admins, "createCriterion"),
    Get(<<"templates">>, SignedIn, "getTemplates"),
    Get(<<"aggregate", Id>>, SignedIn, "getAggregateScores"),
    Get(<<"application", Id>>, SignedIn, "getByApplication"),
    Get(<<Id>>, SignedIn, "findOne"),
    Post(<<Id, "submit">>, SignedIn, "submit")>>

EvaluationTemplatesRoutes == <<
    Post(<<"templates">>, Admins, "createTemplate"),
    Patch(<<"templates", Id>>, Admins, "updateTemplate"),
    Delete(<<"templates", Id>>, Admins, "deleteTemplate"),
    Patch(<<"criteria", Id>>, Admins, "updateCriterion"),
    Delete(<<"criteria", Id>>, Admins, "deleteCriterion")>>

MatchingInternalRoutes == <<
    Post(<<"calculate-for-application">>, Anyone, "calculateForApplication"),
    Post(<<"batch-calculate">>, Anyone, "batchCalculate")>>

MatchResultsRoutes == <<
    Get(<<"results", "student", Id>>, Selectors, "getResultsForStudent"),
    Get(<<"results", "project", Id>>, Business, "getResultsForProject"),
    Get(<<"results", "student", Id, "project", Id>>, Selectors, "getSpecificResult"),
    Get(<<"projects", Id, "my-match">>, Students, "getMyMatch"),
    Post(<<"calculate">>, Selectors, "calculate"),
    Post(<<"batch-calculate">>, Business, "batchCalculate")>>

RecommendationsRoutes == <<
    Get(<<"weights">>, Admins, "getWeights"),
    Put(<<"weights">>, Admins, "updateWeights"),
    Get(<<"recommendations">>, Selectors, "getRecommendations"),
    Patch(<<"recommendations", Id, "seen">>, Selectors, "markSeen"),
    Patch(<<"recommendations", Id, "dismiss">>, Selectors, "dismiss"),
    Post(<<"results", Id, "feedback">>, Selectors, "submitFeedback")>>

NotificationInternalRoutes == <<
    Post(<<>>, Anyone, "createNotification"),
    Get(<<"user", Id>>, Anyone, "getUserNotifications"),
    Get(<<"user", Id, "unread-count">>, Anyone, "getUnreadCount")>>

NotificationsRoutes == <<
    Get(<<>>, SignedIn, "getMyNotifications"),
    Get(<<"unread-count">>, SignedIn, "getUnreadCount"),
    Get(<<"preferences">>, SignedIn, "getPreferences"),
    Patch(<<"preferences">>, SignedIn, "updatePreferences"),
    Patch(<<"read">>, SignedIn, "markAsRead"),
    Patch(<<Id, "read">>, SignedIn, "markOneAsRead"),
    Delete(<<Id>>, SignedIn, "deleteNotification"),
    Post(<<"push-subscriptions">>, SignedIn, "registerPushSubscription"),
    Delete(<<"push-subscriptions", Id>>, SignedIn, "removePushSubscription")>>

ProjectInternalRoutes == <<
    Get(<<Id, "matching-data">>, Anyone, "getMatchingData"),
    Get(<<Id, "exists">>, Anyone, "exists"),
    Patch(<<Id, "increment-applications">>, Anyone, "incrementApplications"),
    Get(<<"company", Id>>, Anyone, "getProjectIdsByCompany"),
    Post(<<"batch-basic">>, Anyone, "getProjectsBatch"),
    Patch(<<Id, "start-progress">>, Anyone, "startProject"),
    Get(<<Id, "deliverables">>, Anyone, "getProjectDeliverables"),
    Post(<<"files", "can-access">>, Anyone, "canAccessFile")>>

ProjectsRoutes == <<
    Post(<<>>, Companies, "createProject"),
    Get(<<>>, SignedIn, "searchProjects"),
    Get(<<"my-projects">>, Companies, "getMyProjects"),
    Get(<<"my-projects", "stats">>, Companies, "getMyProjectsStats"),
    Get(<<"slug", Text>>, SignedIn, "getProjectBySlug"),
    Get(<<Id>>, Anyone, "getProject"),
    Patch(<<Id>>, Companies, "updateProject"),
    Patch(<<Id, "status">>, Companies, "updateProjectStatus"),
    Delete(<<Id>>, Business, "deleteProject")>>

ProjectDeliverablesRoutes == <<
    Get(<<Id, "requirements">>, SignedIn, "getRequirements"),
    Post(<<Id, "requirements">>, Companies, "addRequirement"),
    Patch(<<Id, "requirements", Id>>, Companies, "updateRequirement"),
    Delete(<<Id, "requirements", Id>>, Companies, "deleteRequirement"),
    Get(<<Id, "deliverables">>, SignedIn, "getDeliverables"),
    Post(<<Id, "deliverables">>, Companies, "addDeliverable"),
    Patch(<<Id, "deliverables", Id>>, Companies, "updateDeliverable"),
    Delete(<<Id, "deliverables", Id>>, Companies, "deleteDeliverable")>>

ProjectSkillsRoutes == <<
    Get(<<Id, "skills">>, SignedIn, "getSkills"),
    Post(<<Id, "skills">>, Companies, "addSkill"),
    Patch(<<Id, "skills", Id>>, Companies, "updateSkill"),
    Delete(<<Id, "skills", Id>>, Companies, "deleteSkill"),
    Get(<<Id, "activities">>, SignedIn, "getActivities"),
    Post(<<Id, "activities">>, Companies, "createActivity"),
    Patch(<<Id, "activities", Id>>, SignedIn, "updateActivity"),
    Get(<<"admin", "pending">>, Admins, "getAdminPendingProjects"),
    Patch(<<"admin", Id, "review">>, Admins, "reviewProject")>>

StorageInternalRoutes == <<
    Get(<<"files", Id, "verify">>, Anyone, "verifyFile"),
    Post(<<"cleanup">>, Anyone, "cleanup")>>

StorageRoutes == <<
    Post(<<"upload">>, SignedIn, "uploadFile"),
    Get(<<"files">>, SignedIn, "getFiles"),
    Get(<<"files", Id>>, SignedIn, "getFileInfo"),
    Get(<<"files", Id, "download">>, Anyone, "downloadFile"),
    Delete(<<"files", Id>>, SignedIn, "deleteFile"),
    Post(<<"files", Id, "versions">>, SignedIn, "uploadNewVersion"),
    Get(<<"quota">>, SignedIn, "getQuota"),
    Post(<<"files", Id, "signed-url">>, SignedIn, "generateSignedUrl")>>

StudentInternalRoutes == <<
    Get(<<Id, "matching-data">>, Anyone, "getMatchingData"),
    Post(<<"update-rating">>, Anyone, "updateRating")>>

StudentProfilesRoutes == <<
    Post(<<"profile">>, Students, "createProfile"),
    Get(<<"profile">>, Students, "getMyProfile"),
    Get(<<"profile", Id>>, SignedIn, "getProfileByUserId"),
    Patch(<<"profile">>, Students, "updateProfile"),
    Get(<<"search">>, SignedIn, "searchStudents"),
    Get(<<"skills">>, Students, "getSkills"),
    Post(<<"skills">>, Students, "addSkill"),
    Post(<<"skills", "batch">>, Students, "addSkillsBatch"),
    Patch(<<"skills", Id>>, Students, "updateSkill"),
    Delete(<<"skills", Id>>, Students, "deleteSkill"),
    Get(<<"experiences">>, Students, "getExperiences"),
    Post(<<"experiences">>, Students, "addExperience")>>

StudentStudiesRoutes == <<
    Patch(<<"experiences", Id>>, Students, "updateExperience"),
    Delete(<<"experiences", Id>>, Students, "deleteExperience"),
    Get(<<"education">>, Students, "getEducation"),
    Post(<<"education">>, Students, "addEducation"),
    Patch(<<"education", Id>>, Students, "updateEducation"),
    Delete(<<"education", Id>>, Students, "deleteEducation"),
    Get(<<"certifications">>, Students, "getCertifications"),
    Post(<<"certifications">>, Students, "addCertification"),
    Patch(<<"certifications", Id>>, Students, "updateCertification"),
    Delete(<<"certifications", Id>>, Students, "deleteCertification")>>

StudentLanguagesRoutes == <<
    Get(<<"languages">>, Students, "getLanguages"),
    Post(<<"languages">>, Students, "addLanguage"),
    Patch(<<"languages", Id>>, Students, "updateLanguage"),
    Delete(<<"languages", Id>>, Students, "deleteLanguage"),
    Get(<<"interests">>, Students, "getInterests"),
    Post(<<"interests">>, Students, "addInterest"),
    Patch(<<"interests", Id>>, Students, "updateInterest"),
    Delete(<<"interests", Id>>, Students, "deleteInterest")>>

UserInternalRoutes == <<
    Get(<<"profile", Text, "basic">>, Anyone, "getBasicProfile"),
    Post(<<"batch-basic">>, Anyone, "getBatchBasicProfiles")>>

UsersRoutes == <<
    Post(<<"profile">>, SignedIn, "createProfile"),
    Get(<<"profile">>, SignedIn, "getMyProfile"),
    Get(<<"profile", Text>>, SignedIn, "getProfileById"),
    Patch(<<"profile">>, SignedIn, "updateProfile"),
    Post(<<"profile", "avatar">>, SignedIn, "uploadAvatar"),
    Delete(<<"profile", "avatar">>, SignedIn, "deleteAvatar"),
    Get(<<"settings">>, SignedIn, "getSettings"),
    Patch(<<"settings">>, SignedIn, "updateSettings"),
    Get(<<"activity">>, SignedIn, "getActivityLog")>>

\* The controllers of a service, in the order of its module.
Under(prefix, routes) == [i \in DOMAIN routes |-> [routes[i] EXCEPT !.path = prefix \o @]]

Health == <<Get(<<"health">>, Anyone, "check")>>
===============================================================================

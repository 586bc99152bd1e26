SPECIFICATION Spec
CONSTANTS
  Foci = {"profile", "gateway", "storage", "evaluation", "follow-up", "conversation", "sockets",
          "channels", "notifications"}
  Requests = {r1, r2}
  None = None
  MaxRestarts = 1
  MaxFaults = 1
  RowItems <- MCItems
  RowForms <- MCForms
  StoredIds = {1}
  FileSizes = {1, 2}
  RoleMax = 3
  DefaultMax = 2
  MaxFiles = 2
  MaxWrites = 3
  Evaluators = {1}
  MaxIds = 2
  Pairs = {"company", "asesor"}
  Gated = {"company"}
  FromEvent = {"company", "asesor"}
  Criteria = {1, 2}
  Scores = {1}
  FollowUpRows <- MCRows
  FollowUpUploads <- MCUploads
  Users = {"u1", "u2"}
  ConversationMessages = 2
  MaxReacted = 1
  ConversationMixes <- MCConversations
  UserSockets = {1, 2}
  SocketMessages = 1
  Applications = {"a1", "a2"}
  ChannelScenarios <- MCScenarios
  MaxChannels = 7
  Deliveries = {1, 2}
  NotificationMixes <- MCNotifications
  MaxAsked = 2
SYMMETRY Symmetry
INVARIANTS
  ProfileIsCurrent
  RequestsArrive
  FilesAreAccounted
  EvaluationsAreComplete
  ReviewsMatchFiles
  ChatIsConsistent
  EverybodyIsTold
PROPERTY UndoneOnlyByEarlier
CONSTRAINTS SameInterview ThreeWritesInOneRun
CHECK_DEADLOCK FALSE

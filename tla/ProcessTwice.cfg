SPECIFICATION FairSpec
CONSTANTS
    a1 = a1
    s1 = s1
    s2 = s2
    Applications = {a1}
    Supervisors = {s1}
    Inactive = {}
    MaxStudents <- MCLimitTwo
    JuradoLists <- MCNoList
    Requests = {r1, r2}
    InitialStatus = {"accepted"}
    Users = {}
    MayCrash = FALSE
    MayLose = FALSE
    None = None
INVARIANTS
    RecordBacked
    RecordHasSubmission
CONSTRAINT NoProfile
PROPERTIES
    AcceptanceStarts

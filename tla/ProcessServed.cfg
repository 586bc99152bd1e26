SPECIFICATION FairSpec
CONSTANTS
    a1 = a1
    s1 = s1
    s2 = s2
    Applications = {a1}
    Supervisors = {s1, s2}
    Inactive = {}
    MaxStudents <- MCLimitTwo
    JuradoLists <- MCNoList
    Requests = {r1}
    InitialStatus = {"accepted"}
    Users = {u1}
    MayCrash = FALSE
    MayLose = FALSE
    None = None
CONSTRAINT NoProfile
PROPERTIES
    AcceptanceOpensRecord

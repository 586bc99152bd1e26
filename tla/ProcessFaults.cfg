SPECIFICATION Spec
CONSTANTS
    a1 = a1
    s1 = s1
    s2 = s2
    Applications = {a1}
    Supervisors = {s1, s2}
    Inactive = {}
    MaxStudents <- MCLimitTwo
    JuradoLists <- MCNoList
    Requests = {r1}
    InitialStatus = {"pending"}
    Users = {u1}
    MayCrash = TRUE
    MayLose = TRUE
    None = None
SYMMETRY MCSymmetry
CONSTRAINT NoProfile
INVARIANTS
    TypeOK
    CopiesPerAcceptance
PROPERTIES
    RecordOnce

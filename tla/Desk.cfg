SPECIFICATION CalmSpec
CONSTANTS
    a1 = a1
    a2 = a2
    s1 = s1
    s2 = s2
    s3 = s3
    Applications = {a1, a2}
    Supervisors = {s1, s2, s3}
    Inactive = {s3}
    MaxStudents <- MCLimitOne
    JuradoLists <- MCAnyList
    Requests = {r1}
    MayCrash = FALSE
    None = None
SYMMETRY MCSymmetry
CONSTRAINT OneJury
INVARIANTS
    SingleLiveAsesor
    CounterMatchesRows
    SingleJuradoFinal
PROPERTIES
    AnsweredRowsFinal
    ImplementsSeat

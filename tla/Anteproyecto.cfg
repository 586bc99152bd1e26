CONSTANTS
    Jurados = {j1, j2}
    NoJurado = NoJurado
    Requests = {r1, r2}
    Limits <- MCLimits
    ListMayFail = TRUE
    MayCrash = TRUE
    MaxVersions = 2
SPECIFICATION Spec
CONSTRAINTS FewVotes OneClerk
SYMMETRY MCSymmetry
INVARIANTS
    CorrectionsBounded
    VotesAreForVersion
    ApprovedByPanel
    TurnHasDeadline

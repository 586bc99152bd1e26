CONSTANTS
    Jurados = {j1, j2}
    NoJurado = NoJurado
    Requests = {r1, r2}
    Limits <- MCLimits
    ListMayFail = FALSE
    MayCrash = FALSE
    MaxVersions = 1
SPECIFICATION StablePanelSpec
INVARIANT AllVotesDecide

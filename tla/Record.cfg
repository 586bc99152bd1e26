CONSTANTS
    d1 = d1
    d2 = d2
    f1 = f1
    f2 = f2
    InitialDocs = {d1, d2}
    FinalDocs = {f1, f2}
    Mandatory <- MCMandatory
    CatalogueMayFail = FALSE
    Requests = {r1}
    MayCrash = TRUE
SPECIFICATION Spec
INVARIANTS
    PhaseBacked
    CompletedIsGraded
PROPERTIES
    PhaseOrder
    DocumentGates

CONSTANTS
    Students = {s1}
    Documents = {d1, d2}
    NoDocument = NoDocument
    NoProject = NoProject
    Skills = {k1}
    Requests = {r1, r2}
    MaxRestarts = 1
SPECIFICATION Spec
CHECK_DEADLOCK FALSE
INVARIANTS PublicWasReviewed CounterFollows
PROPERTIES OverUnlessStale
SYMMETRY Sym

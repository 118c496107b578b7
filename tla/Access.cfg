SPECIFICATION Spec
CONSTANTS
    Device = {d1, d2}
    Approval = {a1, a2}
    Grant = {g1, g2}
    Read = {r1, r2}
    None = none
SYMMETRY Symmetry
INVARIANTS
    GrantOnce
    ReadAllowed
PROPERTIES
    DecisionFinal
    SharedOnlyByOverlap
CHECK_DEADLOCK FALSE

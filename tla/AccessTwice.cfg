SPECIFICATION Spec
CONSTANTS
    Device = {d1, d2}
    Approval = {a1}
    Grant = {g1}
    Read = {r1, r2}
    None = none
INVARIANT ApprovalOnce
CHECK_DEADLOCK FALSE

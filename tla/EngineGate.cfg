CONSTANTS
    w1 = w1
    w2 = w2
    Worker = {w1, w2}
    Jti = {j1, j2, j3}
    Approval = {a1}
    Scope = {read, send}
    Sensitive = {send}
    TTLs = {1, 2}
    MaxTTL = 2
    Depths = {1, 2}
    ApprovalTimeout = 1
    Horizon = 4
    Calls <- GateCalls
    None = None
SPECIFICATION Spec
ACTION_CONSTRAINT WithinOne
SYMMETRY Ids
INVARIANTS
    Narrowing
    ChainOfCustody
    SensitiveIsApproved
    OneChildPerApproval
PROPERTY
    DecisionIsFinal

CONSTANTS
    w1 = w1
    w2 = w2
    Worker = {w1, w2}
    Jti = {j1, j2, j3}
    Approval = {a1}
    Scope = {read, send}
    Sensitive = {send}
    TTLs = {1}
    MaxTTL = 1
    Depths = {2}
    ApprovalTimeout = 1
    Horizon = 0
    Calls <- AgentsAndRevoker
    None = None
SPECIFICATION Spec
SYMMETRY Ids
INVARIANTS
    TypeOK
    LiveWhenAsked
    RevokeReachesDescendants
    AuditFirst

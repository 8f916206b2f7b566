CONSTANTS
    w1 = w1
    w2 = w2
    Worker = {w1, w2}
    Jti = {j1, j2}
    Approval = {a1}
    Scope = {send}
    Sensitive = {send}
    TTLs = {1}
    MaxTTL = 1
    Depths = {1}
    ApprovalTimeout = 1
    Horizon = 0
    Calls <- TwoOperators
    None = None
SPECIFICATION Spec
INVARIANT
    DeniedMintsNothing

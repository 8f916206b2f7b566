CONSTANTS
    t1 = t1
    t2 = t2
    read = read
    send = send
    Thread = {t1, t2}
    Jti = {j1, j2, j3}
    Action = {x1, x2}
    Review = {r1, r2}
    Approval = {a1}
    Scope = {read, send}
    Sensitive = {send}
    TTLs = {2}
    MaxTTL = 1
    ApprovalTimeout = 1
    Scenarios <- AllScenarios
    None = None
    ScopeClass <- MCScopeClass
    ClassWeight <- MCClassWeight
    Recoverability <- MCRecoverability
SPECIFICATION Spec
SYMMETRY Ids
INVARIANTS
    Attenuation
    GatedScopes
    AdmittedIsLive
    RevokeReachesHeld
    InFlightReported
    RecordIsTrue
    OneReviewPerAction
    OneGrantPerApproval
    

CONSTANTS
    t1 = t1
    t2 = t2
    r1 = r1
    agent = agent
    bench = bench
    Thread = {t1, t2}
    Replica = {r1}
    Home <- OneProcess
    Subject = {agent, bench}
    Exempt = {bench}
    Calls <- Traffic
    Limit <- OneEach
    Window = 2
    MinSamples = 2
    Ceiling = 2
    ErrorsPer = 2
    CountDenials = TRUE
    Stall = 1
    Horizon = 3
    MaxCalls = 3
    MaxResets = 1
    MaxRestarts = 1
    None = None
SPECIFICATION Spec
SYMMETRY Threads
INVARIANTS
    
    RejectedHadCause
    OpenRefuses
    NoFalseCalm
    OneReportPerTrip

SPECIFICATION FairSpec
CONSTANTS
    read = read
    send = send
    Graph = {g1}
    Jti = {root, j1, j2}
    Root = root
    Approval = {a1}
    Agent = {mail}
    Human = human
    Scope = {read, send}
    Sensitive = {send}
    Asks <- MCAsks
    None = None
INVARIANTS
    BodyIsAuthorised
    StateIsWhole

    

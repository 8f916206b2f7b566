CONSTANTS
    Worker = {w1, w2}
    parent = parent
    child = child
    Jti = {parent, child}
    Subtree <- OneEdge
    MaxWipes = 2
    None = None
SPECIFICATION Spec
SYMMETRY Workers
INVARIANTS
    StoreTypeOK
    MirrorComplete
    LiveAnswerIsTrue

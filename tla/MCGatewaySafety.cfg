SPECIFICATION Spec
CONSTANTS
    Clients = {c1, c2}
    Workers = {w1, w2}
    Backends = {b1, b2, b3}
    None = None
SYMMETRY Symmetry
INVARIANTS
    NoLeak
    ClosedOnce
    SessionWatched
    OwnDatagrams

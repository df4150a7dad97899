CONSTANTS
    p1 = p1
    p2 = p2
    p3 = p3
    k1 = k1
    k2 = k2
    r1 = r1
    r2 = r2
    v1 = v1
    Procs = {p1, p2, p3}
    Observers = {p3}
    Keys = {k1, k2}
    Revisions = {r1, r2}
    Values = {v1}
    Ranks = {1, 2}
    Times = {1, 2}
    NoCommand = NoCommand
    NoProc = NoProc
    NoKey = NoKey
SPECIFICATION Spec
SYMMETRY Symmetry
INVARIANTS
    IInv
    LoadIsSnapshot
PROPERTIES
    OnlyOwnersRetire
    UrgencyKept
    AtomicSpec

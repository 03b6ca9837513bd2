CONSTANTS
    Call = {c1, c2, c3, c4}
    Path = {p}
    Item = {file, boundary}
    Guarded = {boundary}
    MaxAdded = 1
    NoCall = NoCall
    NoHash = NoHash
    Ops = {"append", "approve", "revoke", "expire", "refresh", "finish"}
    Crashable = {c1}
SPECIFICATION Spec
SYMMETRY Symmetry
INVARIANTS
    NoLostEvent
    PointerFollowsFinish
PROPERTIES
    AtomicSpec
    FinishIsFinal
    RevocationIsFinal
CHECK_DEADLOCK FALSE

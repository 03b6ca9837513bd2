CONSTANTS
    Call = {c1, c2}
    Path = {p}
    Item = {file, boundary}
    Guarded = {boundary}
    MaxAdded = 1
    NoCall = NoCall
    NoHash = NoHash
    Ops = {"append", "finish"}
    Crashable = {}
SPECIFICATION Spec
INVARIANTS
    FinishedReplays
CHECK_DEADLOCK FALSE

CONSTANTS
    Call = {c1, c2, c3}
    Path = {p}
    Item = {file, boundary}
    Guarded = {boundary}
    MaxAdded = 1
    NoCall = NoCall
    NoHash = NoHash
    Ops = {"capture"}
    Crashable = {}
SPECIFICATION Spec
INVARIANTS
    AgentExpansionReviewed
CHECK_DEADLOCK FALSE

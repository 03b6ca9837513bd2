CONSTANTS
    Call = {c1, c2, c3}
    Path = {p}
    Item = {file, boundary}
    Guarded = {boundary}
    MaxAdded = 1
    NoCall = NoCall
    NoHash = NoHash
    Ops = {"append", "approve", "revoke", "expire", "finish", "freeze", "unfreeze", "capture", "amend", "decide"}
    Crashable = {c1}
SPECIFICATION FairSpec
INVARIANTS
    TypeOK
    PlansSound
    ApprovalsSound
PROPERTIES
    FirstFinishReplays
    EveryCallReturns
CHECK_DEADLOCK FALSE

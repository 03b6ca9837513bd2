SPECIFICATION Spec
CONSTANTS
    Call = {r1, r2, m1}
    Approval = {r1, r2}
    Amendment = {m1}
    Path = {p}
    Item = {file}
    Guarded = {file}
    MaxAdded = 1
    PathOf <- MCPathOf
    AddedBy <- MCAddedBy
    NoCall = NoCall
    NoHash = NoHash
    Poll = {p1, p2}
    NoPoll = NoPoll
    MaxFetched = 2
    MaxRevision = 2
SYMMETRY Symmetry
INVARIANTS RevocationHolds AmendmentHolds
CHECK_DEADLOCK FALSE

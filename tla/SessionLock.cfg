CONSTANTS
    Proc = {p1, p2, p3}
    Crashable = {p1, p2, p3}
    NoOwner = NoOwner
SPECIFICATION FairSpec
INVARIANTS
    TypeOK
    ExclusionUnlessRaced
    OwnerStableUnlessRaced
PROPERTIES
    EveryCallReturns
    OrphanIsPermanent
CHECK_DEADLOCK FALSE

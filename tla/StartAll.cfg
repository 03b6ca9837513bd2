CONSTANTS
    Starter = {s1, s2, s3}
    Crashable = {s1, s2, s3}
    Bounded = {s1, s2, s3}
    NoSession = NoSession
    NoTxn = NoTxn
SPECIFICATION Spec
SYMMETRY Symmetry
INVARIANTS
    TypeOK
    OneStartUnlessRaced
    PointerHasRecord
    FailedStartLeavesNothing
PROPERTIES
    RollbackSparesCommitted
CHECK_DEADLOCK FALSE

CONSTANTS
    Starter = {s1, s2, s3}
    Crashable = {}
    Bounded = {s1}
    NoSession = NoSession
    NoTxn = NoTxn
SPECIFICATION Spec
PROPERTIES
    CommittedSurvives
CHECK_DEADLOCK FALSE

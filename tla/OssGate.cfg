SPECIFICATION FairSpec
CONSTANTS
    Path <- MCPath
    Content <- MCContent
    Absent = Absent
    StartTree <- MCStartTree
    StartIndex <- MCStartIndex
    Edit <- MCEdit
    Removable <- MCRemovable
    MaxEdits = 2
    Rank <- MCRank
    Profiles = {"cli", "action", "other"}
    AuditDumpStems <- MCStems
    CliEntry <- Entry
INVARIANTS
    TypeOK
    WalkMissesNothing
    TempRemoved
    PassedGateHolds
    NeurcodeListsAgree
PROPERTIES
    SafetyImplementsAudit
    BoundaryImplementsAudit
    GateEnds
CHECK_DEADLOCK FALSE

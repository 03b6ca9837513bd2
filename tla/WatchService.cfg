SPECIFICATION Spec
CONSTANTS
    File = {f}
    Content = {a, b}
    Absent = Absent
    Run = {r1, r2}
    Batch = {b1}
    Flush = Flush
    BatchSize = 1
    MaxEdits = 1
    Poll = {p1, p2}
    Target = f
    Wanted = a
SYMMETRY Symmetry
INVARIANTS TypeOK RecordedIsStored LatestIsRecorded QueueIsAttended
PROPERTIES CompletionHolds
CHECK_DEADLOCK FALSE

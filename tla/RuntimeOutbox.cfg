SPECIFICATION Spec
CONSTANTS
    Session = {s1, s2}
    Ack = {a1}
    Snapshot = Snapshot
    Flusher = {f1, f2}
    MaxEvents = 2
    MaxDeadLetters = 2
    MaxAttempts = 2
    MaxBatch = 2
    MaxGenerated = 3
    MaxDeaths = 2
SYMMETRY Symmetry
INVARIANTS TypeOK UnsafeNeverSent SequenceOrder
PROPERTIES AckKept LastSnapshotKept
CHECK_DEADLOCK FALSE

SPECIFICATION Spec
CONSTANT MaxSnapshots = 6

\* A run ends, and the process may stop.
CHECK_DEADLOCK FALSE
INVARIANTS
    LogHasNoHole
    RowsAreNotRepeated
    CleanSnapshotIsComplete

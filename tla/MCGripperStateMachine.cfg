SPECIFICATION SnapshotSpec
INVARIANT SnapshotOK
PROPERTY KeepsPosture

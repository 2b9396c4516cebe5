\* A cut of everything while the active segment is empty.
SPECIFICATION Spec
CONSTANTS
  SyncPolicy = "SyncImmediate"
  MaxSegmentSize = 2
  Batches <- GroupBatches
  Drops = {"cut"}
  FaultKinds = {"append"}
  RestartKinds = {}
  Inodes = {i1, i2, i3, i4, i5}
  Nil = Nil
  MaxLSN = 3
  MaxFaults = 1
  MaxRestarts = 0
SYMMETRY InodeSymmetry
INVARIANT ActiveIsLinked

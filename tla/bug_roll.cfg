\* A kill between the creation of a segment and its header.
SPECIFICATION Spec
CONSTANTS
  SyncPolicy = "SyncImmediate"
  MaxSegmentSize = 2
  Batches <- SmallBatches
  Drops = {}
  FaultKinds = {}
  RestartKinds = {"kill"}
  Inodes = {i1, i2, i3, i4, i5}
  Nil = Nil
  MaxLSN = 3
  MaxFaults = 0
  MaxRestarts = 1
SYMMETRY InodeSymmetry
INVARIANT InterruptedRollReclaimed

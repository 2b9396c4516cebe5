\* One failed system call, wherever it happens.
SPECIFICATION Spec
CONSTANTS
  SyncPolicy = "SyncBatched"
  MaxSegmentSize = 2
  Batches <- MixedGroup
  Drops = {"truncate", "cut"}
  FaultKinds = {"append", "sync", "create", "header", "temp", "rename", "remove", "dirsync",
                "close", "truncate"}
  RestartKinds = {"close", "kill", "power"}
  Inodes = {i1, i2, i3, i4, i5}
  Nil = Nil
  MaxLSN = 3
  MaxFaults = 1
  MaxRestarts = 1
SYMMETRY InodeSymmetry
INVARIANTS IInv FaultsContained

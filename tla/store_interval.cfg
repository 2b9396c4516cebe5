\* A stop of any kind at any step of a log that fsyncs at intervals.
SPECIFICATION Spec
CONSTANTS
  SyncPolicy = "SyncInterval"
  MaxSegmentSize = 2
  Batches <- GroupBatches
  Drops = {"truncate", "cut"}
  FaultKinds = {}
  RestartKinds = {"close", "kill", "power"}
  Inodes = {i1, i2, i3, i4, i5}
  Nil = Nil
  MaxLSN = 5
  MaxFaults = 0
  MaxRestarts = 1
SYMMETRY InodeSymmetry
INVARIANTS AckedReadable CutIsFinal CorruptOnlyInWindows

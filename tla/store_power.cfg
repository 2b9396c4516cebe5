\* Power losses at any step of a log that fsyncs every commit.
SPECIFICATION Spec
CONSTANTS
  SyncPolicy = "SyncImmediate"
  MaxSegmentSize = 2
  Batches <- GroupBatches
  Drops = {"truncate", "cut"}
  FaultKinds = {}
  RestartKinds = {"power"}
  Inodes = {i1, i2, i3, i4, i5}
  Nil = Nil
  MaxLSN = 5
  MaxFaults = 0
  MaxRestarts = 2
SYMMETRY InodeSymmetry
INVARIANTS TypeOK AckedReadable Gapless SealedDurable BoundsMatchRecords CutIsFinal PublishedDurable
PROPERTIES LSNsNeverReused NoRecordDestroyed BoundsMonotone ImplementsSharedLog

SPECIFICATION FairFollower
CONSTANT MaxLSN = 3
INVARIANTS
  FollowerTypeOK
  ReaderComplete
  YieldsAscend
  FollowerContiguous
  TruncatedMeansRemoved
  SnapshotComplete
PROPERTY FollowerDelivers
CHECK_DEADLOCK FALSE

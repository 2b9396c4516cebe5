\* The interval flusher, a Sync, a follower, and Close at any moment.
\* Callers may stop calling: nobody has to append, sync or close.
SPECIFICATION Spec
CONSTANTS
  Appenders = {a1}
  Syncers = {s1}
  Cutters = {}
  Followers = {f1}
  Closers = {k1}
  Flusher = Flusher
  Nobody = Nobody
  SyncPolicy = "SyncInterval"
  BatchSize = 1
  Cancelable = {}
  Failures = {}
  MaxAppends = 2
INVARIANTS SyncCovers CloseCovers
PROPERTIES CallsReturn CommitsDelivered FollowersEnd
CHECK_DEADLOCK FALSE

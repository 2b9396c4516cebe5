\* More appenders than the queue holds, a Truncate or CutOffset, and two calls of Close at
\* any moment.
\* Callers may stop calling: nobody has to append, sync or close.
SPECIFICATION Spec
CONSTANTS
  Appenders = {a1, a2, a3}
  Syncers = {}
  Cutters = {c1}
  Followers = {}
  Closers = {k1, k2}
  Flusher = Flusher
  Nobody = Nobody
  SyncPolicy = "SyncBatched"
  BatchSize = 1
  Cancelable = {}
  Failures = {}
  MaxAppends = 3
PROPERTIES AppendReturns CallsReturn
CHECK_DEADLOCK FALSE

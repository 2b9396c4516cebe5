\* Group commits of two with linger, cancellation, failures, and Close at any moment.
\* Callers may stop calling: nobody has to append, sync or close.
SPECIFICATION Spec
CONSTANTS
  Appenders = {a1, a2, a3}
  Syncers = {}
  Cutters = {}
  Followers = {f1}
  Closers = {k1, k2}
  Flusher = Flusher
  Nobody = Nobody
  SyncPolicy = "SyncBatched"
  BatchSize = 2
  Cancelable = {a1, a2, a3, f1}
  Failures = {"write", "sync"}
  MaxAppends = 3
INVARIANTS TypeOK RequestsConserved DrainIsComplete CanceledNotWritten AckedPublished NoLostWakeup
SYMMETRY AppenderSymmetry
CHECK_DEADLOCK FALSE

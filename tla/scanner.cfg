\* A segment file through appends, kills, power losses and recoveries.
SPECIFICATION Spec
CONSTANTS
  HeaderSize = 2
  Payloads = {0, 1, 3}
  Limits = {3, 5}
  MaxRecords = 3
INVARIANTS ScanFindsPrefix ReadyToAppend KilledIsTorn
PROPERTY SyncedKept

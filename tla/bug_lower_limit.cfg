\* The log is reopened with a smaller WithMaxRecordSize.
SPECIFICATION Spec
CONSTANTS
  HeaderSize = 2
  Payloads = {0, 1, 3}
  Limits = {2, 5}
  MaxRecords = 3
INVARIANT OnlyIncompleteChopped

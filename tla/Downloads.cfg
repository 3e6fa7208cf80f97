SPECIFICATION HistorySpec
CONSTANTS
  h1 = h1
  h2 = h2
  Versions = {1, 2}
  Handles = {h1, h2}
  Attempts = 2
  MAX_CONSECUTIVE_FAILURES = 2
  None = None
  NoRow = NoRow
  Counted = Counted
  Unread = Unread
  MaxFaults = 1
  MaxCrashes = 1
  MaxRequests = 2
  MaxCount = 2
SYMMETRY AnyHandle
INVARIANTS TypeOK RecordedFileExists QuietlyTracked OneFailureEach
PROPERTY ACopySurvives
CHECK_DEADLOCK FALSE

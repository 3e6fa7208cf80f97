SPECIFICATION FairSpec
CONSTANTS
  Versions = {1, 2}
  Handles = {h1}
  Attempts = 2
  MAX_CONSECUTIVE_FAILURES = 2
  None = None
  NoRow = NoRow
  Counted = Counted
  Unread = Unread
  MaxFaults = 0
  MaxCrashes = 2
  MaxRequests = 2
  MaxCount = 2
PROPERTY DownloadEnds
CHECK_DEADLOCK FALSE

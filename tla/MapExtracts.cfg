SPECIFICATION HistorySpec
CONSTANTS
  f1 = f1
  f2 = f2
  h1 = h1
  h2 = h2
  Extracts = {f1, f2}
  Handles = {h1, h2}
  Attempts = 2
  None = None
  MaxTroubles = 1
  MaxRequests = 4
INVARIANTS TypeOK NoPartLeft RecordedIsWhole OneFile
SYMMETRY Anything
CHECK_DEADLOCK FALSE

SPECIFICATION FairSpec
CONSTANTS
  u1 = u1
  Versions = {1, 2}
  MajorOf <- OneMajor
  Users = {u1}
  AutoUpdate = AutoUpdate
  Empty = Empty
  LatestTag = LatestTag
  NoVersion = NoVersion
  NoFile = NoFile
  Down = Down
  MAX_CONSECUTIVE_FAILURES = 1
  MaxTroubles = 1
  MaxCount = 1
INVARIANTS TypeOK StatusIsHonest VettedStaysNewer
PROPERTIES UpdateEnds AdminComesBack KeepsPromise
CHECK_DEADLOCK FALSE

SPECIFICATION FairSpec
CONSTANTS
  r1 = r1
  r2 = r2
  u1 = u1
  Apps = {1}
  Versions = {1, 2}
  MajorOf <- OneMajor
  Runs = {r1, r2}
  Users = {u1}
  NoVersion = NoVersion
  NoAge = NoAge
  Day = 2
  Window <- Night
  Cooloff = 1
  MAX_CONSECUTIVE_FAILURES = 3
  MaxActs = 1
INVARIANTS TypeOK CoolOffHonest NotDisabledEarly MarkIsTransient
PROPERTIES KeepsUpOrGivesUp

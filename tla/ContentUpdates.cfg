SPECIFICATION FairSpec
CONSTANTS
  map = map
  zim = zim
  Resources = {map, zim}
  Size <- Sizes
  Cap = 2
  Versions = {1, 2}
  NoVersion = NoVersion
  NoAge = NoAge
  Day = 3
  Start = 2
  End = 1
  Cooloff = 1
  MAX_CONSECUTIVE_FAILURES = 2
  MAX_FEATURE_FAILURES = 1
  MaxTroubles = 1
  MaxActs = 1
INVARIANTS TypeOK BudgetKept AnchorHonest
PROPERTIES GoodCheckKeepsAnchor NoneStarves

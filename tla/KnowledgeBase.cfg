SPECIFICATION SmallSpec
CONSTANTS
  z1 = z1
  z2 = z2
  u1 = u1
  d1 = d1
  i1 = i1
  i2 = i2
  i3 = i3
  i4 = i4
  i5 = i5
  i6 = i6
  h1 = h1
  h2 = h2
  t1 = t1
  t2 = t2
  Zims = {z1, z2}
  Uploads = {u1}
  Docs = {d1}
  Batches = 2
  Thin <- SecondIsThin
  Ids = {i1, i2, i3, i4, i5, i6}
  Handles = {h1}
  Tabs = {t1}
  Attempts = 2
  None = None
  NoRow = NoRow
  MaxTroubles = 1
  MaxRequests = 2
INVARIANTS TypeOK OneCopyEach IndexedIsAllThere NoLostChain GoneIsForgotten
PROPERTY QueueDrains
CHECK_DEADLOCK FALSE

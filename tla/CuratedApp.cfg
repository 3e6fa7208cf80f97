SPECIFICATION Spec
CONSTANTS
  app = app
  db = db
  mine = mine
  r1 = r1
  r2 = r2
  server = server
  worker = worker
  Services = {app, db}
  Custom = {}
  DependsOn <- AppOnDb
  Versions = {v1, v2}
  Ids = {1, 2, 3, 4, 5}
  Requests = {r1}
  Processes = {server, worker}
  HostOf <- OneServer
  Allowed <- OnApp
  NoService = NoService
  NoVersion = NoVersion
  NoId = NoId
  NoRow = NoRow
  NoContainer = NoContainer
  MaxFaults = 2
  MaxCrashes = 1
INVARIANTS TypeOK FailedUpdateLeavesItRunning QuietAgreement SyncReconciles
PROPERTY UpdateKeepsACopy

SPECIFICATION Spec
CONSTANTS
  app = app
  db = db
  mine = mine
  r1 = r1
  r2 = r2
  server = server
  worker = worker
  Services = {app}
  Custom = {}
  DependsOn <- NoDependency
  Versions = {v1}
  Ids = {1, 2, 3, 4}
  Requests = {r1, r2}
  Processes = {server, worker}
  HostOf <- OneServer
  Allowed <- OnlyUpdates
  NoService = NoService
  NoVersion = NoVersion
  NoId = NoId
  NoRow = NoRow
  NoContainer = NoContainer
  MaxFaults = 0
  MaxCrashes = 0
INVARIANT UpdateInProgressIsFlagged

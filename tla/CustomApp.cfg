SPECIFICATION Spec
CONSTANTS
  app = app
  db = db
  mine = mine
  r1 = r1
  r2 = r2
  server = server
  worker = worker
  Services = {mine}
  Custom = {mine}
  DependsOn <- NoDependency
  Versions = {v1, v2}
  Ids = {1, 2, 3, 4}
  Requests = {r1}
  Processes = {server, worker}
  HostOf <- OneServer
  Allowed <- AnyOperation
  NoService = NoService
  NoVersion = NoVersion
  NoId = NoId
  NoRow = NoRow
  NoContainer = NoContainer
  MaxFaults = 3
  MaxCrashes = 2
INVARIANT QuietAgreement

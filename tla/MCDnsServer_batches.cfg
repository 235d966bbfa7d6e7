\* A new client arrives while the ping thread is at work.
CONSTANTS
  c0 = c0
  c1 = c1
  rNear = rNear
  rFar = rFar
  NoRef = NoRef
  Clients = {c0, c1}
  InitialClients = {c0}
  Replicas = {rNear, rFar}
  ReplicaOrder <- FarFirst
  Threads = {ping, q1}
  PingThread = ping
  Queries = {q1}
  From <- MCFromNew
  Closest <- MCClosest
  Latency <- MCLatency
  Unlisted = {}
  Blocked = {c0}
  Loss = FALSE
  Faulty = {}
  MaxResults = 1
SPECIFICATION FairSpec
PROPERTIES
  QueriesEnd
  PingsForever
  TableConverges

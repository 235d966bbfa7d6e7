\* A replica fails while the ping thread waits for it.
CONSTANTS
  c0 = c0
  c1 = c1
  rNear = rNear
  rFar = rFar
  NoRef = NoRef
  Clients = {c0, c1}
  InitialClients = {c0}
  Replicas = {rNear}
  ReplicaOrder <- OneReplica
  Threads = {ping, q1}
  PingThread = ping
  Queries = {q1}
  From <- MCFromNew
  Closest <- MCClosest
  Latency <- MCLatency
  Unlisted = {}
  Blocked = {c0}
  Loss = FALSE
  Faulty = {rNear}
  MaxResults = 1
SPECIFICATION FairSpec
PROPERTY PingsForever
CHECK_DEADLOCK FALSE

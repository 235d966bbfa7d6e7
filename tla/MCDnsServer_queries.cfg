\* Two queries of a new client without a location; pings are lost, the second
\* replica fails.
CONSTANTS
  c0 = c0
  c1 = c1
  rNear = rNear
  rFar = rFar
  NoRef = NoRef
  Clients = {c0, c1}
  InitialClients = {c0}
  Replicas = {rNear, rFar}
  ReplicaOrder <- NearFirst
  Threads = {ping, q1, q2}
  PingThread = ping
  Queries = {q1, q2}
  From <- MCFromNew
  Closest <- MCClosest
  Latency <- MCLatency
  Unlisted = {c1}
  Blocked = {c0}
  Loss = TRUE
  Faulty = {rFar}
  MaxResults = 0
SPECIFICATION Spec
INVARIANTS
  TypeOK
  AnswersAreJustified
SYMMETRY Interchangeable
CHECK_DEADLOCK FALSE

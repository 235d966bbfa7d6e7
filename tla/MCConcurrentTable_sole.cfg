\* The ping thread updates, a query thread of a known client reads.
CONSTANTS
  c1 = c1
  rNear = rNear
  rFar = rFar
  NoRef = NoRef
  Clients = {c1}
  Replicas = {rNear, rFar}
  Threads = {ping, q1}
  Updaters = {ping}
  Readers = {q1}
  Latency <- MCLatency
  MaxCalls = 4
SPECIFICATION Spec
INVARIANTS
  TypeOK
  SoleUpdaterExact
  HalfRecordsAreTransient
  BestReplicaAssigned
PROPERTY StatsSpec

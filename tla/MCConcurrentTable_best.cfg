\* Two updaters overlap before a query thread reads.
CONSTANTS
  c1 = c1
  rNear = rNear
  rFar = rFar
  NoRef = NoRef
  Clients = {c1}
  Replicas = {rNear, rFar}
  Threads = {ping, q1, q2}
  Updaters = {ping, q1}
  Readers = {q2}
  Latency <- MCLatency
  MaxCalls = 1
SPECIFICATION Spec
SYMMETRY Interchangeable
INVARIANT BestReplicaAssigned

\* The ping thread and the query thread of a new client update, a query thread reads;
\* once it has updated, q1 stands for a query thread that comes later, and reads too.
CONSTANTS
  c1 = c1
  rNear = rNear
  rFar = rFar
  NoRef = NoRef
  Clients = {c1}
  Replicas = {rNear, rFar}
  Threads = {ping, q1, q2}
  Updaters = {ping, q1}
  Readers = {q1, q2}
  Latency <- MCLatency
  MaxCalls = 1
SPECIFICATION Spec
INVARIANTS
  NeverOvercounts
  UndisturbedIsSequential
CHECK_DEADLOCK FALSE

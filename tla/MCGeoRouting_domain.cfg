\* Two threads, three replicas and two clients at some of the places of a circle of
\* radius 5.  The cache holds fewer locations than there are hosts.
CONSTANTS
  r1 = r1
  r2 = r2
  r3 = r3
  c1 = c1
  c2 = c2
  t1 = t1
  t2 = t2
  Nowhere = Nowhere
  NoReplica = NoReplica
  NoAnswer = NoAnswer
  Raised = Raised
  Replicas = {r1, r2, r3}
  Default = r1
  Clients = {c1, c2}
  Threads = {t1, t2}
  Radius = 5
  Places <- MostPlaces
  MaxSize = 3
SPECIFICATION Spec
INVARIANTS
  TypeOK
  DistanceDefined
  AnswersNeedEveryLocation
  AnswersAreNearest

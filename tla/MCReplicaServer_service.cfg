\* Requests, a preload and a ping; the origin changes, fails and is out of reach.
\* Fairness for requests: a preload may stop, with one of the two workers.
CONSTANTS
  p1 = p1
  p2 = p2
  NoTask = NoTask
  NoPath = NoPath
  NoBody = NoBody
  Requests = {q1, q2}
  Preloads = {load}
  Pings = {ping}
  Tasks = {q1, q2, load, ping}
  Paths = {p1, p2}
  Jobs <- LoadBoth
  OnDisk = {p2}
  Damaged = {p2}
  Workers = 2
  Failing = "network"
  MaxVersion = 1
SPECIFICATION ServeFairSpec
INVARIANTS
  TypeOK
  PreloadedIsCached
  GuardsBelong
PROPERTIES
  ContentSpec
  CacheNeverRegresses
  RequestsEnd
  PreloadsEnd

\* Two threads share a reader of any of some hundred databases.
CONSTANTS
  t1 = t1
  t2 = t2
  NoNode = NoNode
  BitsV4 = 1
  BitsV6 = 3
  Threads = {t1, t2}
  InMemory = FALSE
  MostNetworks = 2
  FewNetworks = 1
  Databases <- MCDatabases
SPECIFICATION Spec
SYMMETRY Interchangeable
INVARIANTS
  TypeOK
  LookupCorrect
  ErrorsHaveCause
  StartNodeExact

\* Two callers of a reader over one of eight databases, or of either client.
CONSTANTS
  BitsV4 = 2
  BitsV6 = 4
  None = None
  NoDatabase = NoDatabase
  Malformed = Malformed
  Me = Me
  Yes = Yes
  t1 = t1
  t2 = t2
  Callers = {t1, t2}
  Addresses <- SomeAddresses
  Responses <- SomeResponses
  Locales <- FrenchFirst
  Files <- SomeFiles
  Answers <- SomeAnswers
SPECIFICATION FairSpec
INVARIANTS
  TypeOK
  ModelsReflectResponses
  ModelsKeepTheirAddress
  NotFoundNetworkIsLargest
  EqualUntilLooked
  
  SessionsDoNotLeak
PROPERTY CallsEnd

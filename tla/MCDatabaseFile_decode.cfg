\* Two threads decode in each of sixteen files, three of them sound.
CONSTANTS
  t1 = t1
  t2 = t2
  NoThread = NoThread
  Threads = {t1, t2}
  Opener = t1
  OtherFile = "other"
  Files <- SomeFiles
  MaxDepth = 4
  Modes = {"MODE_AUTO", "MODE_MMAP_EXT", "MODE_FILE", "MODE_MEMORY"}
  Platforms <- BothPlatforms
  NodeCount <- Nodes
  RecordSize <- Records
  OtherKeys <- Others
SPECIFICATION FairSpec
INVARIANTS
  TypeOK
  DecodeCorrect
  ErrorsHaveCause
PROPERTY DecodesEnd
CHECK_DEADLOCK FALSE

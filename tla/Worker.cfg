CONSTANTS
  w1 = w1
  w2 = w2
  t1 = t1
  t2 = t2
  t3 = t3
  page = page
  note = note
  index = index
  missing = missing
  None = None
  Dotted = Dotted
  Empty = Empty
  Garbage = Garbage
  NoLength = NoLength
  Workers <- TwoWorkers
  Tasks <- ThreeTasks
  Readers <- OneReader
  Requests <- AllRequests
  Files <- AllFiles
  OnDisk <- DiskFiles
  IndexFiles <- OneIndexFile
  Size <- Sizes
  MaxSize = 1
SPECIFICATION FairSpec
INVARIANT OwnStatus WholeFiles CacheHoldsFiles OutcomeIsTheRequests
PROPERTY TasksAreAnswered
CHECK_DEADLOCK FALSE

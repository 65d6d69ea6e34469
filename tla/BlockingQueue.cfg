CONSTANTS
  s1 = s1
  s2 = s2
  t1 = t1
  t2 = t2
  Threads <- AllThreads
  Senders <- TwoSenders
  Takers <- TwoTakers
  MaxSpins = 1
  MaxBulk = 2
  MaxSent = 3
SPECIFICATION FairSpec
INVARIANT WakeupsMatchSleepers PermitsHaveElements
PROPERTY ElementsAreTaken
CHECK_DEADLOCK FALSE

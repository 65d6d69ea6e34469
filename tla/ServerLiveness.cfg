CONSTANTS
  c1 = c1
  c2 = c2
  f1 = f1
  f2 = f2
  external = external
  w1 = w1
  NoClient = NoClient
  NoFd = NoFd
  Builder = Builder
  Loop = Loop
  NoThread = NoThread
  Clients <- TwoClients
  Fds <- OneFd
  Listeners <- OneListener
  Workers <- OneWorker
  Requests <- AbortingRequests
  Readers <- OneReader
  Chunk = 2
SPECIFICATION FairSpec
PROPERTY ClientsLeave
CHECK_DEADLOCK FALSE

CONSTANTS
  c1 = c1
  c2 = c2
  f1 = f1
  f2 = f2
  external = external
  w1 = w1
  NoClient = NoClient
  NoFd = NoFd
  Builder = Builder
  Loop = Loop
  NoThread = NoThread
  Clients <- TwoClients
  Fds <- TwoFds
  Listeners <- OneListener
  Workers <- OneWorker
  Requests <- LongRequests
  Readers <- TwoClients
  Chunk = 3
SPECIFICATION Spec
INVARIANT RecvNeverBlocks WorkersGetWholeRequests EventsHaveTheirTask EmplaceInserts ServedOnce
PROPERTY UsesEventSet
SYMMETRY Symmetry

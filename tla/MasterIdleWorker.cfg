CONSTANTS
  c1 = c1
  c2 = c2
  external = external
  w1 = w1
  NoClient = NoClient
  Builder = Builder
  Loop = Loop
  NoThread = NoThread
  Clients <- TwoClients
  Listeners <- OneListener
  Workers <- OneWorker
SPECIFICATION Spec
INVARIANT WorkersHaveATask
CHECK_DEADLOCK FALSE

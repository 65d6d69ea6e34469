CONSTANTS
  builder = builder
  e1 = e1
  e2 = e2
  Loop = Loop
  NoThread = NoThread
  NoEvent = NoEvent
  Adders <- OneAdder
  Events <- TwoEvents
SPECIFICATION FairSpec
INVARIANT WakeupNotLost AddOutsideDispatch LiveEvents
PROPERTY AddEventReturns ImplementsEventSet DueIsServed
CHECK_DEADLOCK FALSE

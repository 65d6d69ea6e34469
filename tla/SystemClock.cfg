CONSTANTS
  Ticks = 2
  FirstDay <- First
  FinalDay = 11322
  Spans <- Some
  Times <- SomeTimes
  StampDays = 370
SPECIFICATION Spec
INVARIANT RepresentationsAgree MonthsAreCounted StampsAreOrdered CommandsAgree
PROPERTY ImplementsGregorian

\* A thread without a timeout asks three times.
SPECIFICATION FairSpec
CONSTANTS
  Asker = Asker
  NoAnswer = NoAnswer
  Timeout = 0
  MaxCalls = 3
INVARIANTS
  OnlyNotifyOutlives
PROPERTIES
  IsFuture
  FinishedReturns
CHECK_DEADLOCK FALSE

\* A thread that gives up after two seconds asks three times: a late answer may
\* come when its frame is gone or is the frame of a later call.
SPECIFICATION FairSpec
CONSTANTS
  Asker = Asker
  NoAnswer = NoAnswer
  Timeout = 2
  MaxCalls = 3
INVARIANTS
  TypeOK
PROPERTIES
  TimedReturns
CHECK_DEADLOCK FALSE

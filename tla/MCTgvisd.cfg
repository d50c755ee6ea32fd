\* The whole program with a phone login that may be refused.
SPECIFICATION FairAppSpec
CONSTANTS
  Chat = Chat
  NoAnswer = NoAnswer
  Callers = {Chat}
  TimedCallers = {}
  Passes <- PhoneLogin
  MaxCalls = 1
  MaxRejects = 1
  MaxMoves = 0
  MaxInbox = 1
INVARIANTS
  AppTypeOK
  CloseRunsAlone
PROPERTIES
  StaleOnlyWhileJoining
  StopStuckOnlyInCall
  FailedConnectEndsProgram
CHECK_DEADLOCK FALSE

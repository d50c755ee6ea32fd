\* Does a stop end the program?
SPECIFICATION FairAppSpec
CONSTANTS
  Chat = Chat
  NoAnswer = NoAnswer
  Callers = {Chat}
  TimedCallers = {}
  Passes <- LoggedIn
  MaxCalls = 1
  MaxRejects = 0
  MaxMoves = 0
  MaxInbox = 1
PROPERTIES
  TerminatesAfterStop
CHECK_DEADLOCK FALSE

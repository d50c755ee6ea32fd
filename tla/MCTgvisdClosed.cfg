\* Does close wait for authorizationStateClosed?
SPECIFICATION AppSpec
CONSTANTS
  Chat = Chat
  NoAnswer = NoAnswer
  Callers = {Chat}
  TimedCallers = {}
  Passes <- LoggedIn
  MaxCalls = 1
  MaxRejects = 0
  MaxMoves = 0
  MaxInbox = 1
INVARIANTS
  ClosedBeforeExit
CHECK_DEADLOCK FALSE

\* One thread asks, perhaps twice, while the account logs in, out and closes.
SPECIFICATION FairSpec
CONSTANTS
  c1 = c1
  c2 = c2
  NoAnswer = NoAnswer
  Callers = {c1}
  TimedCallers = {}
  Passes <- LoggedIn
  MaxCalls = 2
  MaxRejects = 0
  MaxMoves = 0
  MaxInbox = 1
PROPERTIES
  CallReturns
  EndsByOwnResponse
  CallsAreFutures
CHECK_DEADLOCK FALSE

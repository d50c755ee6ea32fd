\* The whole login dialogue, with refusals and states TDLib announces unasked.
SPECIFICATION FairSpec
CONSTANTS
  c1 = c1
  c2 = c2
  NoAnswer = NoAnswer
  Callers = {}
  TimedCallers = {}
  Passes <- FullLogin
  MaxCalls = 0
  MaxRejects = 1
  MaxMoves = 1
  MaxInbox = 2
INVARIANTS
  LoginNotMultiplied
  LoginUnderWay
PROPERTIES
  LoginSettles
CHECK_DEADLOCK FALSE

\* Two threads ask at the same time, one of them with a timeout; the account
\* is logged in already.
SPECIFICATION Spec
CONSTANTS
  c1 = c1
  c2 = c2
  NoAnswer = NoAnswer
  Callers = {c1, c2}
  TimedCallers = {c2}
  Passes <- LoggedIn
  MaxCalls = 1
  MaxRejects = 0
  MaxMoves = 0
  MaxInbox = 1
INVARIANTS
  TypeOK
  NoLostCall
  OwnAnswer
  AuthorizedView
  CrashOnlyAfterClosed
CHECK_DEADLOCK FALSE

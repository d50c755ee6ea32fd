\* A statement that writes and one that reads, over a reconnect.
SPECIFICATION Spec
CONSTANTS
  NoStmt = NoStmt
  Stmts = {insert, select}
  Bound = {insert}
  Writers = {insert}
  Prefetch = 2
  MaxSessions = 2
  MaxRows = 3
  MaxBinds = 2
  MaxExecs = 2
INVARIANTS
  TypeOK
  SessExact
  FreedOnlyWithSession
  WorkIsWhole
  NoRowSkipped
  NullIsEnd
PROPERTIES
  CommitKeepsWork
CHECK_DEADLOCK FALSE

SPECIFICATION Spec
CONSTANTS
  user = user
  Channel = Channel
  Group = Group
  Users <- MCUsers
  Events <- MCEvents
  Shift = 2
  PageSize = 2
  MaxEvents = 3
  MaxCrashes = 2
INVARIANTS
  TypeOK
  EventsAtomic
  CachedIdsExist
  RunCovers
PROPERTIES
  RunEnds
CHECK_DEADLOCK FALSE

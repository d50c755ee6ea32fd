SPECIFICATION Spec
CONSTANTS
  Chats = {c1, c2}
  Users = {1, 2, 3}
  Texts = {a, b}
  Nothing = Nothing
  KeyRange = 2
  MaxUpdates = 4
INVARIANTS
  TypeOK
  CallbackInformed
PROPERTIES
  CachesAreReplicas
CHECK_DEADLOCK FALSE

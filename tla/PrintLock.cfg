\* Three threads print and panic for ever while three seconds pass.
SPECIFICATION FairSpec
CONSTANTS
  Threads = {t1, t2, t3}
  Nobody = Nobody
  MaxTime = 3
INVARIANTS
  LinesWhole
PROPERTIES
  TimesInOrder
  HolderFinishes
  PanicAborts
CHECK_DEADLOCK FALSE

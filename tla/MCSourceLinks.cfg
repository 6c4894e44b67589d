SPECIFICATION Spec
CONSTANT
  MaxPads = 3
CHECK_DEADLOCK FALSE
INVARIANTS
  TypeOK
  NewestOnAir
  SilentOnlyIfLate
PROPERTY
  ErrorMeansUnusable

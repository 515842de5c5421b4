CONSTANTS
  a1 = a1
  a2 = a2
  f1 = f1
  f2 = f2
  Agent = {a1, a2}
  File = {f1, f2}
  Owner <- MCOwner
  None = None
  Poll = poll
  Detached = {d1}
  MaxChange = 4
SPECIFICATION FairSpec
INVARIANTS TypeOK CountedOnce NoBorrowing
PROPERTIES CatchesUp
CHECK_DEADLOCK FALSE

CONSTANTS
  Agent = {1, 2}
  Primary = 1
  Shell = 0
  MaxTime = 1
  MaxPush = 1
SPECIFICATION Spec
INVARIANTS TypeOK DerivedShown  WaitEndsOnNews
PROPERTIES LegacyAdopted

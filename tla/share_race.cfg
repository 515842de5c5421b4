CONSTANTS
  Dashboard = {d1, d2}
  Workspace = {w1}
  w1 = w1
  Agent = {a1}
  Home <- MCHome
  MaxRequest = 1
  MaxCrash = 1
  Defer = 0
  ClaimWait = 1
  Stale = 2
  FinishWait = 3
  Purge = 4
  Prompt = FALSE
SPECIFICATION Spec
SYMMETRY Symmetry
INVARIANTS TypeOK ActedOnce
 

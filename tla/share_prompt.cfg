CONSTANTS
  Dashboard = {d1, d2}
  Workspace = {w1}
  w1 = w1
  Agent = {a1}
  Home <- MCHome
  MaxRequest = 1
  MaxCrash = 0
  Defer = 3
  ClaimWait = 5
  Stale = 6
  FinishWait = 7
  Purge = 8
  Prompt = TRUE
SPECIFICATION Spec
SYMMETRY Symmetry
INVARIANTS NoFalseRefusal
PROPERTIES OwnerClaims

CONSTANTS
  Dashboard = {d1}
  Workspace = {w1}
  w1 = w1
  Agent = {a1}
  Home <- MCHome
  MaxRequest = 1
  MaxCrash = 1
  Defer = 1
  ClaimWait = 2
  Stale = 3
  FinishWait = 4
  Purge = 5
  Prompt = FALSE
SPECIFICATION FairSpec
PROPERTIES ImplementsRequest CliEnds PendingEnds

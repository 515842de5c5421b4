CONSTANTS
  Dashboard = {d1}
  Cli = {c1}
  Workspace = {w1}
  MaxFault = 1
SPECIFICATION FairSpec
INVARIANTS TypeOK CreateNotGivenUp   CreatesSettle
PROPERTIES BadgesEnd 

SPECIFICATION Spec
CONSTANTS
  Dashboard = {d1}
  Agent = {a2}
  Nobody = nobody
  Primary = {}
  MaxMsg = 1
  MaxAttempts = 2
  MaxCrash = 0
PROPERTIES
  StartsAgentFirst

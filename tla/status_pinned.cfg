CONSTANTS
  Agent = {1, 2}
  Primary = 1
  Shell = 0
  MaxTime = 0
  MaxPush = 1
SPECIFICATION Spec
PROPERTIES PeerHookNotPinned

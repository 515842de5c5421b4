CONSTANTS
  Workspace = {w1}
  Peer = {p1, p2}
  Slug = {s1}
  None = none
  MaxOrdinal = 2
  MaxEvent = 0
SPECIFICATION Spec
PROPERTIES AttachesToOwn

CONSTANTS
  Workspace = {w1, w2}
  Peer = {p1}
  Slug = {s1, s2}
  None = none
  MaxOrdinal = 2
  MaxEvent = 1
SPECIFICATION Spec
SYMMETRY Symmetry
INVARIANTS TypeOK  RefFindsAgent RunsOnce
 

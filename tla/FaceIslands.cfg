SPECIFICATION IslandsSpec
CONSTANTS
  anchor = anchor
  n1 = n1
  n2 = n2
  n3 = n3
  n4 = n4
  n5 = n5
  Nodes <- AllNodes
  Anchors = {anchor}
  NumContexts = 2
  LocalSize = 2
  Blocks = {b1, b2}
  Nobody = Nobody
  MaxBlocks = 3
SYMMETRY NodeSymmetry
INVARIANTS
  IslandsOwned
  LocalWindow
CHECK_DEADLOCK FALSE

CONSTANTS
  a = a
  b = b
  health = health
  MatchAll = MatchAll
  Omitted = Omitted
  Paths <- MCPaths
  Unfaulted <- MCUnfaulted
  Posts <- MCPosts
  Requests = {r1, r2, r3}
  MaxFaults = 2
SPECIFICATION Spec
SYMMETRY Symmetry
INVARIANTS TypeOK QueueInv
PROPERTY Implements

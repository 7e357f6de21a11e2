SPECIFICATION Spec
CONSTANTS
  o = o
  b = b
  i = i
  u = u
  w = w
  Tags <- MCTags
  Inbounds <- MCInbounds
  Clients <- MCOneClient
  Home <- MCHomeOne
  MaxProfile = 1
  MaxEdits = 5
SYMMETRY MCSymmetry
INVARIANT ConfigGenerates

SPECIFICATION Spec
CONSTANTS
  Items = {a, b}
  Payments = {p}
  Grants = {g}
  Workers = {w1}
  MaxRollouts = 1
  MaxRevision = 2
  Shrinks = FALSE
INVARIANTS
  NoRevivedSource
PROPERTIES
  
  PanelsKeepContract
CHECK_DEADLOCK FALSE
SYMMETRY Symmetry

SPECIFICATION Spec
CONSTANTS
  Rows <- MCRows
  Requests = {q1, q2}
  Buyers = {q1}
  Poller = poller
  Trials = {t1, t2}
  NoTrial = none
  MaxEdits = 1
  Overlap = FALSE
INVARIANTS
  OneInvoice
  ShownIsBound
  OneOpenInvoice
  TrialOnce
CHECK_DEADLOCK FALSE
PROPERTIES
  CheckoutSettles

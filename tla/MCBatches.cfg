CONSTANTS
  b1 = b1  b2 = b2  w1 = w1  w2 = w2  None = None
  Batch = {b1, b2}
  Line = {1, 2, 3}
  Malformed = {3}
  Dedicated = {b2}
  Residents = {b1}
  Request = {w1, w2}
SPECIFICATION BatchSpec
INVARIANTS RowsMadeOnce FinalIsTrue
PROPERTIES ConfirmationEnds Delivered
CHECK_DEADLOCK FALSE

SPECIFICATION ThrottleSpec
CONSTANTS
  Callers = {c1, c2, c3}
  MaxRequests = 2
  Period = 3
  Early = 1
  LastMoment = 9
  MaxBegun = 5
INVARIANTS
  AtMostMaxPerPeriod
CHECK_DEADLOCK FALSE
SYMMETRY MCSymmetry

SPECIFICATION TableSpec
CONSTANTS
  None = None
  Intervals <- MCIntervals
  Width <- MCWidth
  Horizon = 4
  Clocks = {3}
  Start = 0
  End = 4
  MaxSpan = 2
  SessionLength = 3
  MaxAttempts = 1
  Versions = {v1, v2}
  Missing = Missing
  Forming = Forming
  MaxRuns = 2
  GivenAsOf = {4}
  Late = {0}
  Corrected = {1}
  Ticks = ticks
  SignalBars = "5m"
  PageSize = 1
  Actors = {"load", "live"}
  LiveBars <- MCLiveBars
INVARIANTS
  LoadedIsWhatIsStored
  NeverUncovered
PROPERTIES
  SourceIsPermanent
CHECK_DEADLOCK FALSE
SYMMETRY MCSymmetry

SPECIFICATION FairSpec
CONSTANTS
  None = None
  Intervals <- MCTwoIntervals
  Width <- MCTwoWidths
  Horizon = 4
  Clocks = {3}
  Start = 0
  End = 4
  MaxSpan = 2
  SessionLength = 3
  MaxAttempts = 2
  Versions = {v1, v2}
  Missing = Missing
  Forming = Forming
  MaxRuns = 2
  GivenAsOf = {2, 4}
  Late = {1}
  Corrected = {0}
INVARIANTS
  StoredBarsAreWhole
  ReportAccountsForEveryBar
  CompletedRunMissesNothing
PROPERTIES
  RunEnds
  HistoryIsFrozen
CHECK_DEADLOCK FALSE

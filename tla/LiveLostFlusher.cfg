SPECIFICATION Spec

CONSTANTS
  Widths <- TwoMinutes
  NoBar = NoBar
  NoVolume <- Untraded
  Volumes = {1, 2}
  PersistTicks = TRUE
  MaxTime = 2
  MaxTicks = 3
  MaxBatch = 2
  Environments <- FaultyRepository

INVARIANT EndedRunLeavesNothingOpen

CHECK_DEADLOCK FALSE

SPECIFICATION Spec

CONSTANTS
  Schedule <- MCSchedule
  TickSize = 1
  AdverseTicks = 1
  ThroughTicks = 1
  Interval = 2
  DayLength = 10
  HardExitTime = 6
  ClientIds = {o1, o2, o3}
  Signals <- MCSignals
  Quantities = {0, 2}
  Bars <- MCBars
  MinuteFeeds <- MCMinuteFeeds
  Instrument = "nifty"
  StartingCapital = 20
  None = None

INVARIANTS
  OneExposure
  NoStaleEntry
  EveryFillAccountedFor
  CashReconciles
  RoundTripsDoNotOverlap
  HeldPastCutoff

PROPERTY ImplementsExecutionPort

CHECK_DEADLOCK FALSE

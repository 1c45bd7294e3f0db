SPECIFICATION Spec

CONSTANTS
  Schedule <- MCSchedule
  TickSize = 1
  AdverseTicks = 1
  ThroughTicks = 1
  Interval = 2
  DayLength = 16
  HardExitTime = 12
  Whole = 10
  RiskPerTrade = 2
  MaxNotional = 10
  MinQuantity = 2
  LotSize = 1
  FixedNotional = 8
  Instrument = "nifty"
  SessionOpen = 4
  OpeningRangeMinutes = 2
  MinRangeTicks = 1
  MaxRangeAtr = 5
  MaxFriction = 20
  NoNewEntryAfter = 10
  TargetR = 2
  None = None
  BarStarts <- MCBarStarts
  StartingCapital = 60
  EngineCapital = 60
  Days = 4
  Calendar <- MCCalendar
  StartedAt <- MCStartedAt
  StoredSessions <- MCStoredSessions
  MinutesOf <- MCMinutesOf
  AtrPeriod = 2
  AtrInterval = 4
  Warmups <- MCWarmups
  Answers = {"take", "skip", "unavailable", "malformed", "other model"}

INVARIANTS
  SameTradesAsBacktest
  OneOrderPerDirection
  FlatBetweenSessions
  GapsAreReported
  ResultMeasuresTheRun

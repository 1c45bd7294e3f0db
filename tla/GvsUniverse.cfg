SPECIFICATION Spec

CONSTANTS
  Securities <- Four
  NewSymbols <- Extra
  Masters <- InstrumentMasters
  Files <- Shortlists
  Changes <- ChangeFiles
  Medians = {1, 2, 3}
  UniverseSize = 2
  MaxUnresolvedSlots = 1
  SelectionSessions = 2
  None = None

INVARIANT BestAreChosen

PROPERTIES
  NeverReplaced
  MoreTurnoverNeverHurts

CHECK_DEADLOCK FALSE

SPECIFICATION FairSpec

CONSTANTS
  Widths <- TwoMinutes
  NoBar = NoBar
  NoVolume <- Untraded
  Volumes <- MixedVolumes
  PersistTicks = TRUE
  MaxTime = 3
  MaxTicks = 3
  MaxBatch = 2
  Environments <- AllEnvironments

INVARIANTS
  EveryTickInOneBar
  VolumesAddUp
  StoredBarsAgree

PROPERTIES
  CompletedBarsAreFinal
  EveryTickIsStored

CHECK_DEADLOCK FALSE

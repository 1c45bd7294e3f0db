SPECIFICATION FairSpec

CONSTANTS
  Tokens = {t1, t2}
  Limits <- MCLimits
  AttemptCap <- MCBeyondLimits
  MaxTime = 2
  Calls = {"unsubscribe", "disconnect"}

INVARIANTS
  EverySubscriptionIsLive
  GivesUpInTime

PROPERTIES
  KeepsContract
  Recovers
  EndedStreamExplains

CHECK_DEADLOCK FALSE

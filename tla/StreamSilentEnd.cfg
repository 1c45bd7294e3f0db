SPECIFICATION Spec

CONSTANTS
  Tokens = {t1}
  Limits = {0}
  AttemptCap = 3
  MaxTime = 1
  Calls = {}

INVARIANT NeverEndsSilently

CHECK_DEADLOCK FALSE

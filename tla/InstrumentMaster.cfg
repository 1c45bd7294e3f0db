SPECIFICATION Spec

CONSTANTS
  r1 = r1
  r2 = r2
  old = old
  new = new
  idx = idx
  t1 = t1
  t2 = t2
  t3 = t3
  None = None
  Runners = {r1, r2}
  Symbols = {old, new, idx}
  Tokens = {t1, t2, t3}
  Universe = {old, new}
  Dumps <- MCDumps
  limit = 2
  MaxAge = 1
  MaxTime = 2

INVARIANTS
  FreshMeansRecent
  StoredMasterIsOneDump
  TicksCarryTheirSymbol

SPECIFICATION FairSpec
CONSTANTS
  a = a
  b = b
  c = c
  s = s
  None = None
  Addresses = {a, b, c, s}
  Config <- MCConfig
  Winner <- MCWinner
  Alias <- MCAlias
  Timeout <- MCTimeout
  Incompatible = {s}
  Strangers = {b, s}
  MaxTime = 1
INVARIANTS AtMostOnePrimary MembersOfPrimary OneSet
PROPERTIES NoStalePrimary Converges
CHECK_DEADLOCK FALSE

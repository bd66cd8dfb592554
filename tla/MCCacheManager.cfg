SPECIFICATION PrepareSpec
CONSTANTS
  a = a  b = b  c = c  big = big  s = s  t = t
  Calls = {x, y, z}
  Prompts = {a, b, c, big}
  Prefixes = {s, t}
  SizeOf <- MCSizeOf
  TokensOf <- MCTokensOf
  Inputs <- MCInputs
  Tokens = {1, 2}
  MinMatch = 2
  MaxPrefix = 3
  MaxEntries = 2
  MaxBytes = 4
  Ttl = 2
  MaxRenders = 2
  MaxTime = 2
SYMMETRY MCSymmetry
INVARIANTS
  WithinBounds
  MissesAccounted
  HitHasSource
  OrderedByUse
PROPERTIES
  RoutesLikeIndex
CHECK_DEADLOCK FALSE

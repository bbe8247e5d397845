CONSTANTS
  r1 = r1
  r2 = r2
  c1 = c1
  c2 = c2
  s1 = s1
  k1 = k1
  l1 = l1
  None = None
  Runs = {r1, r2}
  Configs = {c1, c2}
  Seeds = {s1}
  Keys = {k1}
  Loaders = {l1}
  MaxActive = 2
  Clis <- OverlapClis
  Handmade <- MCHandmade
SYMMETRY RunSymmetry
SPECIFICATION SidecarSpec
INVARIANTS
  SwapsExplainMismatch
  TruncatedNeverPairs
  PairsOnlyDescribedShapes
CHECK_DEADLOCK FALSE

CONSTANTS
  r1 = r1
  r2 = r2
  r3 = r3
  c1 = c1
  c2 = c2
  s1 = s1
  k1 = k1
  k2 = k2
  None = None
  Runs = {r1, r2, r3}
  Configs = {c1, c2}
  Seeds = {s1}
  Keys = {k1, k2}
  Loaders = {l1}
  l1 = l1
  MaxActive = 1
  Clis <- SerialClis
SYMMETRY RunSymmetry
SPECIFICATION Spec
INVARIANTS
  OneGeneration
  CompletedBundleLoads
  SeedDisclosed
  IntactBundleHasItsKey
CHECK_DEADLOCK FALSE

SPECIFICATION Spec
CONSTANTS
  w1 = w1  w2 = w2  w3 = w3  p1 = p1  p2 = p2
  Writers = {w1, w2, w3}
  Readers = {r1}
  Pids = {p1, p2}
  PidOf <- MCPidOf
  Threads = FALSE
  Target = Target
  Old = Old
  NoInode = NoInode
INVARIANTS TempsAccountedFor TargetWhole
PROPERTY ImplementsAtomicFile
CHECK_DEADLOCK FALSE

\* Two processes run nvram_init at once.
SPECIFICATION Spec
CONSTANTS
  p1 = p1  p2 = p2  k1 = k1  k2 = k2  va = va  vb = vb
  Proc = {p1, p2}
  Key = {k1}
  Val = {va}
  Absent = Absent  Bare = Bare  Part = Part  NoProc = NoProc
  Interval = 2
  Fault = {}
  MaxInits = 2
  MaxFaults = 0
  MaxWrites = 0
INVARIANTS LoserAttaches
SYMMETRY Processes
CHECK_DEADLOCK FALSE

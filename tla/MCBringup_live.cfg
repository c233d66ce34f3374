\* Every call returns, whatever becomes of the creator it waits for.
SPECIFICATION FairSpec
CONSTANTS
  p1 = p1  p2 = p2  k1 = k1  k2 = k2  va = va  vb = vb
  Proc = {p1, p2}
  Key = {k1}
  Val = {va}
  Absent = Absent  Bare = Bare  Part = Part  NoProc = NoProc
  Interval = 1
  Fault = {"kill", "mount", "sem", "stat", "restat", "read"}
  MaxInits = 2
  MaxFaults = 1
  MaxWrites = 0
PROPERTIES CallsReturn
CHECK_DEADLOCK FALSE

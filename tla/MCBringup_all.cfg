\* Two processes come up, build, attach, die and come back around a mount.
SPECIFICATION Spec
CONSTANTS
  p1 = p1  p2 = p2  k1 = k1  k2 = k2  va = va  vb = vb
  Proc = {p1, p2}
  Key = {k1}
  Val = {va}
  Absent = Absent  Bare = Bare  Part = Part  NoProc = NoProc
  Interval = 2
  Fault = {"kill", "mount", "sem", "truncate", "stat", "list", "full"}
  MaxInits = 2
  MaxFaults = 1
  MaxWrites = 1
INVARIANTS TypeOK OneSegment SegmentMatchesMount CatchesUp
PROPERTIES PublishesWhole
SYMMETRY Processes
CHECK_DEADLOCK FALSE

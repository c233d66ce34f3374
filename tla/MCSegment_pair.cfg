\* Lock-free reads of two keys on one counter, tombstones reclaimed.
SPECIFICATION Spec
CONSTANTS
  r1 = r1  k1 = k1  k2 = k2  k3 = k3  k4 = k4  va = va  vb = vb  vc = vc  s1 = s1  s2 = s2
  Reader = {r1}
  Key = {k1, k2}
  Val = {va}
  Absent = Absent  Empty = Empty  Mixed = Mixed  NoKey = NoKey
  N = 2
  MaxProbes = 2
  MaxTries = 1
  Home <- SameHome
  Slot = {s1}
  SlotOf <- OneSlot
  Length <- SameLen
  Calls = {"put", "remove", "compact", "clear"}
  DiesIn = {}
  MaxWrites = 2
  MaxDeaths = 0
SYMMETRY Keys
INVARIANTS ReadsLinearize HitsCurrent
CHECK_DEADLOCK FALSE

\* A tombstone reclaimed under a reader.
SPECIFICATION Spec
CONSTANTS
  r1 = r1  k1 = k1  k2 = k2  k3 = k3  k4 = k4  va = va  vb = vb  vc = vc  s1 = s1  s2 = s2
  Reader = {r1}
  Key = {k1, k2}
  Val = {va}
  Absent = Absent  Empty = Empty  Mixed = Mixed  NoKey = NoKey
  N = 2
  MaxProbes = 2
  MaxTries = 1
  Home <- SameHome
  Slot = {s1, s2}
  SlotOf <- TwoSlots
  Length <- SameLen
  Calls = {"put", "remove"}
  DiesIn = {}
  MaxWrites = 3
  MaxDeaths = 0
INVARIANTS ReadsLinearize
CHECK_DEADLOCK FALSE

\* Compactions of a cluster that does not wrap.
SPECIFICATION Spec
CONSTANTS
  r1 = r1  k1 = k1  k2 = k2  k3 = k3  k4 = k4  va = va  vb = vb  vc = vc  s1 = s1  s2 = s2
  Reader = {}
  Key = {k1, k2, k3}
  Val = {va}
  Absent = Absent  Empty = Empty  Mixed = Mixed  NoKey = NoKey
  N = 4
  MaxProbes = 2
  MaxTries = 1
  Home <- MidHome
  Slot = {s1}
  SlotOf <- OneSlot
  Length <- SameLen
  Calls = {"put", "remove", "compact"}
  DiesIn = {}
  MaxWrites = 5
  MaxDeaths = 0
INVARIANTS CompactionKeeps
PROPERTIES DeliversRegisters
CHECK_DEADLOCK FALSE

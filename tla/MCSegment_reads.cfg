\* Lock-free reads of one key against every writer, one of which is killed.
SPECIFICATION Spec
CONSTANTS
  r1 = r1  k1 = k1  k2 = k2  k3 = k3  k4 = k4  va = va  vb = vb  vc = vc  s1 = s1  s2 = s2
  Reader = {r1}
  Key = {k1}
  Val = {va, vb, vc}
  Absent = Absent  Empty = Empty  Mixed = Mixed  NoKey = NoKey
  N = 1
  MaxProbes = 1
  MaxTries = 2
  Home <- SameHome
  Slot = {s1}
  SlotOf <- OneSlot
  Length <- OneLong
  Calls = {"put", "remove", "compact", "clear"}
  DiesIn = {"put", "remove"}
  MaxWrites = 2
  MaxDeaths = 1
INVARIANTS TypeOK ReadsLinearize HitsCurrent NeverDegraded ChangesAreOwed
PROPERTIES DeathLeaves DeliversRegisters
SYMMETRY Twins
CHECK_DEADLOCK FALSE

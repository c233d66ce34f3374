\* Every failure but a failing unlink: power cuts, kills, semaphores, files.
SPECIFICATION Spec
CONSTANTS
  p1 = p1  p2 = p2  k1 = k1  k2 = k2  va = va  vb = vb  vc = vc  s1 = s1
  Proc = {p1, p2}
  Key = {k1}
  Val = {va, vc}
  Slot = {s1}
  SlotOf <- OneSlot
  Len <- Lengths
  Absent = Absent  Torn = Torn  NoProc = NoProc
  Fault = {"power", "kill", "sem", "stage", "sync", "publish", "list", "sweep"}
  MaxSeq = 4
  MaxEdits = 1
SYMMETRY Processes
INVARIANTS TypeOK CacheCoherent NoRollback NothingStranded HealsItself NoTempLeak ClearEmptiesDisk
PROPERTIES KeepsPromise

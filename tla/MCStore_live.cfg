\* Every call comes to an end.
SPECIFICATION FairSpec
CONSTANTS
  p1 = p1  p2 = p2  k1 = k1  k2 = k2  va = va  vb = vb  vc = vc  s1 = s1
  Proc = {p1, p2}
  Key = {k1}
  Val = {va}
  Slot = {s1}
  SlotOf <- OneSlot
  Len <- Lengths
  Absent = Absent  Torn = Torn  NoProc = NoProc
  Fault = {"kill", "sync", "unlink"}
  MaxSeq = 2
  MaxEdits = 1
PROPERTIES CallsReturn
CHECK_DEADLOCK FALSE

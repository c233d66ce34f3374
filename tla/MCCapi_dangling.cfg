\* A pointer got before the process has found the segment.
SPECIFICATION Spec
CONSTANTS
  k1 = k1  k2 = k2  s1 = s1
  Byte <- Bytes
  Key = {k1, k2}
  Settable = {k1}
  Val <- Values
  Absent = Absent
  Name <- Names
  Slot = {s1}
  SlotOf <- OneSlot
  Interval = 2
  Count = {1, 4, 8, 11, 12}
  Text <- Texts
  Fault = {}
  MaxInt = 127
  MaxChanges = 2
INVARIANTS PointersLast
CHECK_DEADLOCK FALSE

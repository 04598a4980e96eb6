CONSTANTS
  c1 = c1  c2 = c2
  Courses = {c1, c2}
  Times <- MCTimes
  Tracks <- MCTracks
  None = None
  Absent = Absent
  Zeros = Zeros
SPECIFICATION Spec
INVARIANTS TypeOK ShownIsSaved
PROPERTIES OtherSlotKept BetterSlotKept

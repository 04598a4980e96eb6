CONSTANTS
  Courses = {c1}
  Times <- MCTimes
  kMaxSamples = 3
  FirstFiles <- MCFirstFiles
  Absent = Absent
  Corrupt = Corrupt
  None = None
SPECIFICATION Spec
INVARIANTS ArchiveInv
PROPERTIES ArchiveStaysReadable DamagedArchiveKept BestKept BestNeverSlower

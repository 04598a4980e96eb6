CONSTANTS
  k1 = k1  k2 = k2  zero = zero  v = v
  kDirectoryEntryCount = 2
  kPageSize = 2
  kDataPageCount = 3
  Keys = {k1, k2}
  Values = {zero, v}
  Zeros = zero
  Sizes <- MCSizes
  FirstDisks <- MCFirstDisks
  Free = Free
  Absent = Absent
  Damaged = Damaged
  None = None
SPECIFICATION Spec
INVARIANTS PakInv
PROPERTIES ImplementsAtomicPak RefusedPakUntouched LastImagePreserved

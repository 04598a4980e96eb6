CONSTANTS
  b1 = b1  b2 = b2
  Names = {b1, b2}
  image_count_limit = 3
  ready_limit = 1
  None = None
SPECIFICATION FairSpec
INVARIANTS TypeOK EachFileOnce StoppedIsEmpty
PROPERTIES Served

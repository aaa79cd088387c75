CONSTANTS
  Ifs = {i1, i2}
  MaxTaken = 1
  MaxStarts = 2
  MaxChanges = 1
  Requests = {r1, r2}
  Ranges <- RangeSet
  Size = 8
  Seconds = 4
  Frames = 4
  Rate = 1
  FrameBytes = 2
  Chunk = 2
  Width = 16
  Nil = Nil
SPECIFICATION Spec
INVARIANTS TypeOK SongPort OwnBytes
PROPERTIES StartEnds
CHECK_DEADLOCK FALSE

\* The calls, the host memory, the sub buffers, the conversions, packing and the loading.
SPECIFICATION MCSpec
CONSTANTS
  Half = 3
  Areas = {a1, a2}
  Hostmems = {h1, h2}
  NoWindow = NoWindow
  MaxValues = 2
  PrimSizes = {1, 2}
  Careful = TRUE
  Buffers = {b1, b2}
  NoBuffer = NoBuffer
  UintSize = 2
  Base = 2
  FieldIntegers <- MCFieldIntegers
  PlatformHandles = {1, 2}
  PackedIntegers <- MCPackedIntegers
  MaxFields = 3
  MaxCounts = 2
  MaxFlags = 2
  States = {s1, s2}
  NoState = NoState
  Records <- MCRecords
INVARIANTS
  TypeOK
  BlocksFreedOnce
  BlocksReleased
  FactsEstablished
  MemoryInside
  OneOwner
  RefusedIfIllegal
  BuffersInside
  CellsInside
  ValuesRoundTrip
  PackRoundTrip
  LiteralsAnswered
  EnumsRoundTrip
  StaticsSound
CHECK_DEADLOCK FALSE

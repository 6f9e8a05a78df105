SPECIFICATION WritesSpec
CONSTANTS
  p1 = p1
  p2 = p2
  p3 = p3
  alone = alone
  j1 = j1
  j2 = j2
  Paths = {p1, p2, p3}
  Lost = {p3}
  Targets = {p1}
  Jobs = {alone, j1, j2}
  Readers = {r1}
  GenIds = {g1, g2, g3, g4}
  NoFile = NoFile
  NoGen = NoGen
  ChunkSize = 3
  MaxFileBytes = 7
  Seeds <- EveryLength
  Kinds = {"write", "write_at", "append", "truncate"}
  Offsets = {0, 1, 2, 3, 4, 5, 6, 7, 8, 9}
  Pieces <- SomePieces
  MaxStream = 4
  Preconditions = {"none", "seen"}
  Disruptions = {"touch", "remove", "move", "copy", "cancel"}
  MaxChanges = 2
  MaxRevision = 3
SYMMETRY AnyGeneration
INVARIANTS IInv StagedIsPrivate SizeIsStored QuotaHolds ReadsOneVersion
PROPERTIES OnlyTouchLeaks StreamsAreAtomic CompleteContentIsImmutable CheckedWriteReplacesWhatWasSeen
CHECK_DEADLOCK FALSE

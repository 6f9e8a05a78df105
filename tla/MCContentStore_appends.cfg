SPECIFICATION AppendsSpec
CONSTANTS
  p1 = p1
  p2 = p2
  p3 = p3
  alone = alone
  j1 = j1
  j2 = j2
  Paths = {p1}
  Lost = {}
  Targets = {p1}
  Jobs = {j1, j2}
  Readers = {}
  GenIds = {g1, g2, g3, g4}
  NoFile = NoFile
  NoGen = NoGen
  ChunkSize = 3
  MaxFileBytes = 7
  Seeds <- OneFullFile
  Kinds = {"append"}
  Offsets = {0}
  Pieces <- SomePieces
  MaxStream = 4
  Preconditions = {"none"}
  Disruptions = {}
  MaxChanges = 2
  MaxRevision = 3
SYMMETRY AnyGeneration
PROPERTIES StreamsAreAtomic
CHECK_DEADLOCK FALSE

SPECIFICATION BothSpec
CONSTANTS
  p1 = p1
  p2 = p2
  p3 = p3
  alone = alone
  j1 = j1
  j2 = j2
  Paths = {p1, p2}
  Lost = {}
  Targets = {p1}
  Jobs = {j1}
  Readers = {r1}
  GenIds = {g1, g2, g3}
  NoFile = NoFile
  NoGen = NoGen
  ChunkSize = 2
  MaxFileBytes = 4
  Seeds <- OneFullFile
  Kinds = {"write_at"}
  Offsets = {1}
  Pieces <- SomePieces
  MaxStream = 2
  Preconditions = {"none"}
  Disruptions = {"remove", "move", "copy", "reset"}
  MaxChanges = 2
  MaxRevision = 3
  Bounds = {0, 1, 3}
  WholeFile = WholeFile
  Segments = {"a", "link-target"}
  Cuts = {}
  Before <- NoMarks
  MaxSegments = 2
  Workspaces = {w1, w2}
  Payloads = {b1}
  Pages = {page}
  Revisions = {1}
  Batches <- SomeBatches
  Capabilities <- SomeRights
  Absent = Absent
INVARIANTS RemoteMeansLocal RevisionsAreOfTheirBytes RangesAreOfTheirBytes NothingLeaks
PROPERTIES RequestsEnd
CHECK_DEADLOCK FALSE

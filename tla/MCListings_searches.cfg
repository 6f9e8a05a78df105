SPECIFICATION ScanSpec
CONSTANTS
  Ids = {0, 1, 2, 3, 4, 5, 6, 7, 8}
  Root = 0
  NoNode = NoNode
  Gone = Gone
  None = None
  Names = {"x", "y", "xxy"}
  Targets = {}
  Keys = {}
  MaxHops = 0
  MaxDepth = 2
  MaxTarget = 0
  MaxAttributes = 0
  Operations = {"mkdir", "move", "trash", "restore", "remove", "purge", "reset"}
  Flags = {"recursive", "overwrite", "parents"}
  MaxRevision = 2
  Starts <- Cut
  Spell <- Spelling
  Text <- Texts
  Star = 8
  Single = 9
  ChunkSize = 2
  ByteBudget = 2
  WorkBudget = 2

INVARIANTS EveryMatchIsFound
CHECK_DEADLOCK FALSE

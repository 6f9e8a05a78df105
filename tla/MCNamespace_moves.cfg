SPECIFICATION Spec
CONSTANTS
  Ids = {0, 1, 2, 3}
  Root = 0
  NoNode = NoNode
  Gone = Gone
  Names = {a, b}
  Targets = {}
  Keys = {}
  MaxHops = 0
  MaxDepth = 2
  MaxTarget = 0
  MaxAttributes = 1
  Operations = {"mkdir", "move"}
  Flags = {"overwrite"}
  MaxRevision = 2
PROPERTIES EveryChangeIsStored
CHECK_DEADLOCK FALSE

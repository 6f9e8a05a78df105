SPECIFICATION BoundedSpec
CONSTANTS
  Ids = {0, 1, 2, 3, 4, 5}
  Root = 0
  NoNode = NoNode
  Gone = Gone
  Names = {a, b}
  Targets <- SomeTargets
  Keys = {k}
  MaxHops = 2
  MaxDepth = 2
  MaxTarget = 1
  MaxAttributes = 1
  Operations = {"mkdir", "create", "copy", "move", "remove", "trash", "restore", "restore_at", "purge", "reset", "symlink", "set_attribute", "remove_attribute"}
  Flags = {"parents", "recursive", "overwrite"}
  MaxRevision = 2
SYMMETRY AnyName
CHECK_DEADLOCK FALSE
INVARIANTS StoreIsSound Rooted ResolutionIsTrue
PROPERTIES ChangesAreLocal ChangesAreAnnounced HiddenIsUntouched CopiesAreFaithful

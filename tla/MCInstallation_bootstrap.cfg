SPECIFICATION Spec
CONSTANTS
  main = main
  other = other
  primary = primary
  work = work
  Paths = {main, other}
  DefaultPath = main
  None = None
  Servers = {s1, s2}
  Override = Override
  Clis = {c1, c2}
  Names = {primary, work}
  DefaultName = primary
  Creations <- SomeCreations
  Given = {other}
  Budget = 3
  MaxCrashes = 1
INVARIANTS NamesLeadHome DefaultIsMadeOnce NothingIsLeftBehind
PROPERTIES CredentialIsKept CommandsEnd
CHECK_DEADLOCK FALSE

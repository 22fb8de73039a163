CONSTANTS
  MAX_COURTS = 3
  MAX_CAPS = 4
  MAX_BINDINGS = 4
  Paths = {"app", "net"}
  Rights = {{"send"}, {"recv"}, {"observe"}}
SPECIFICATION RootSpec
INVARIANTS RootTypeOK SpawnIsAllOrNothing RevokedIsEmpty

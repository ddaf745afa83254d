SPECIFICATION Spec
CONSTANTS
  c1 = c1
  c2 = c2
  root = root
  alice = alice
  Names = {c1}
  Callers = {root, alice}
  Envs <- Keepers
  MaxActive = 2
PROPERTIES
  NothingDeleted

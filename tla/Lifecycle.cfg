SPECIFICATION Spec
CONSTANTS
  c1 = c1
  c2 = c2
  root = root
  alice = alice
  Names = {c1, c2}
  Callers = {root}
  Envs <- MCEnvs
  MaxActive = 1
INVARIANTS
  LifecycleInv
PROPERTIES
  NothingDeleted
  Disabled
  EndsAsPromised

SPECIFICATION Spec
CONSTANTS
  c1 = c1
  c2 = c2
  c3 = c3
  short1 = short1
  root = root
  alice = alice
  Names = {c1, c2, c3}
  Args <- WithShort
  Expand <- MCExpand
  Callers = {root, alice}
  Envs <- MCEnvs
INVARIANTS
  NumberingInv
PROPERTIES
  NumberKept
  UsersKept

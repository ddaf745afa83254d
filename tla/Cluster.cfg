SPECIFICATION Spec
CONSTANTS
  h1 = h1
  h2 = h2
  h3 = h3
  c1 = c1
  c2 = c2
  p1 = p1
  p2 = p2
  Hosts = {h1, h2, h3}
  Names = {c1, c2}
  Callers = {p1, p2}
  Envs <- MCEnvs
SYMMETRY Symmetry
INVARIANTS
  ClusterInv
PROPERTIES
  Converged
CHECK_DEADLOCK FALSE

SPECIFICATION Spec
CONSTANTS
  h1 = h1
  h2 = h2
  u1 = u1
  u2 = u2
  w1 = w1
  w2 = w2
  w3 = w3
  c2 = c2
  p1 = p1
  p2 = p2
  Hosts = {h1, h2}
  Root = h1
  Users = {u1, u2}
  Containers = {c2}
  On <- MCOn
  Passwords = {w1, w2, w3}
  None = None
  Callers = {p1}
  Envs <- MCEnvs
SYMMETRY Symmetry
INVARIANTS
  UsersInv
PROPERTIES
  Repaired
  AccessListed
CHECK_DEADLOCK FALSE

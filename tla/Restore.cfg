SPECIFICATION Spec
CONSTANTS
  d1 = d1
  d2 = d2
  w1 = w1
  w2 = w2
  p1 = p1
  p2 = p2
  None = None
  Dbs = {d1, d2}
  Passwords = {w1, w2}
  Callers = {p1, p2}
  MaxPoints = 3
  Envs <- RestoreEnvs
SYMMETRY Symmetry
PROPERTIES
  RestoreRestores

SPECIFICATION Spec
CONSTANTS
  h1 = h1
  h2 = h2
  c1 = c1
  c2 = c2
  d1 = d1
  p1 = p1
  p2 = p2
  q1 = q1
  Hosts = {h1, h2}
  Names = {c1, c2, d1}
  Home <- MCHome
  Callers = {p1, p2, q1}
  At <- MCAt
  Margin = 1
  Life = 2
  Envs <- MCEnvs
INVARIANTS
  ProxyInv
PROPERTIES
  Recovers

SPECIFICATION Spec
CONSTANTS
  home = home
  office = office
  k1 = k1
  k2 = k2
  a1 = a1
  a2 = a2
  six = six
  r1 = r1
  r2 = r2
  Primary = Primary
  NoFile = NoFile
  Empty = Empty
  Garbled = Garbled
  Width <- MCWidth
  Hosts = {home, office}
  Keys = {k1, k2}
  V4 = {a1, a2}
  V6 = {six}
  Reqs = {r1, r2}
  Envs <- MCEnvs
INVARIANTS
  DynDnsInv
PROPERTIES
  RequestsRight
  Published
  ImplementsDynRecord

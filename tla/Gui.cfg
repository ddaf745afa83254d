SPECIFICATION Spec
CONSTANTS
  alice = alice
  bob = bob
  eve = eve
  h1 = h1
  h2 = h2
  c1 = c1
  c2 = c2
  t1 = t1
  t2 = t2
  t3 = t3
  Users = {alice, bob}
  Strangers = {eve}
  Hosts = {h1, h2}
  HostsOf <- MCHostsOf
  Containers = {c1, c2}
  Lists <- MCLists
  Tabs = {t1, t2, t3}
  NameOf <- MCNameOf
  None = None
  Envs <- MCEnvs
  Menus = {"manage", "add"}
  Pieces <- MCPieces
  MaxOutput = 6
INVARIANTS
  GuiInv
  DialogSound
PROPERTIES
  PageKept
  Unlocked
CHECK_DEADLOCK FALSE

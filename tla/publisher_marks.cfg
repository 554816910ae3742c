SPECIFICATION Spec
CONSTANTS
  home = home
  work = work
  lost = lost
  addr = addr
  r1 = r1
  r2 = r2
  r3 = r3
  NoIP = NoIP
  NoId = NoId
  Unused = Unused
  Deleted = Deleted
  NoRequest = NoRequest
  Parts <- AllParts
  Texts <- Short
  Program <- Cfddns
  Keys <- AllKeys
  Addresses = {addr}
  Zones <- Nested
  Ids <- IdSet
  Instances = {home, work, lost}
  OneShot = {work}
  Config <- AllSettings
  ZonesOf <- ZonesEach
  IPs = {1, 2}
  Moves <- Appears
  Initial <- FromTheirs
  Faults = {"refuse", "lose", "late", "crash", "foreign"}
SYMMETRY Perms
INVARIANTS
  TypeOK
  HandleIsOurs
  FailuresDontStopOthers
  OneOwner
  InNamedZone
PROPERTIES
  NoInterference

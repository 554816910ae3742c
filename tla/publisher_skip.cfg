SPECIFICATION Spec
CONSTANTS
  home = home
  work = work
  home4 = home4
  homeMarked = homeMarked
  work4 = work4
  zone = zone
  addrA = addrA
  addrB = addrB
  r1 = r1
  r2 = r2
  r3 = r3
  NoIP = NoIP
  NoId = NoId
  Unused = Unused
  Deleted = Deleted
  NoRequest = NoRequest
  Keys <- AllKeys
  Addresses <- AB
  Zones = {zone}
  Ids <- IdSet
  Instances = {home}
  OneShot = {}
  Config <- OneInstance
  ZonesOf <- ZonesEach
  IPs = {1, 2}
  Moves <- Newer
  Initial <- FromEmpty
  Faults = {"refuse"}
PROPERTIES
  SkipMeansPublished

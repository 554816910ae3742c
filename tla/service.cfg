SPECIFICATION FairSpec
CONSTANTS
  a = a
  b = b
  ghost = ghost
  own = own
  slow = slow
  ip1 = ip1
  ip2 = ip2
  home = home
  work = work
  forA = forA
  forB = forB
  forGhost = forGhost
  zone = zone
  r1 = r1
  r2 = r2
  NoIP = NoIP
  Unset = Unset
  NoId = NoId
  Unused = Unused
  Deleted = Deleted
  NoRequest = NoRequest
  Names = {a, b}
  Refs = {a, b, ghost}
  Probes = {a, b, slow}
  Bounded = {a, b}
  IPs = {ip1, ip2}
  Configs <- Tables
  Worlds <- Answers
  Drifting <- Tables
  Instances = {home, work}
  OneShot = {work}
  Keys <- AllKeys
  Config <- Domains
  ZonesOf <- ZonesEach
  Zones = {zone}
  Ids = {r1, r2}
  Initial <- FromEmpty
  Faults = {"lose", "crash"}
INVARIANTS
  TypeOK
PROPERTIES
  ImplementsPublisher
  PassEnds
  TickIsServed
  Delivered

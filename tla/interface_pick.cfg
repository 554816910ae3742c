SPECIFICATION FairSpec
CONSTANTS
  eth0 = eth0
  eth1 = eth1
  global = global
  eui = eui
  private = private
  local = local
  public4 = public4
  peer4 = peer4
  wide = wide
  narrow = narrow
  NoIP = NoIP
  NoLink = NoLink
  Indexes = {1, 2}
  Links = {eth0, eth1}
  IPs <- AllIPs
  Traits <- IPTraits
  Nets = {wide, narrow}
  Tables <- AllTables
  Settings <- AllSettings
  NoNet = NoNet
  Room = 1
  Changes = 1
INVARIANTS
  TypeOK
  PicksAsDocumented
  AddressOfLink
PROPERTIES
  LookupReturns
CHECK_DEADLOCK FALSE

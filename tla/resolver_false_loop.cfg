SPECIFICATION Spec
CONSTANTS
  a = a
  b = b
  c = c
  d = d
  own = own
  ip1 = ip1
  ip2 = ip2
  NoIP = NoIP
  Unset = Unset
  IPs = {ip1, ip2}
  Names <- ABCD
  Refs <- ABCD
  Probes <- ABCD
  Bounded <- ABCD
  Configs <- DiamondConfigs
  Worlds <- SteadyWorlds
  Drifting = {}
PROPERTIES
  LoopsAreReal

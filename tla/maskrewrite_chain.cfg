SPECIFICATION Spec
CONSTANTS
  Len4 = 2
  MappedPrefix <- Prefix01
  Hosts <- AllHosts
  Forms = {"exact", "interface", "untyped"}
  Chains <- UpToTwo
INVARIANTS
  TypeOK
  InRange
  LastOverwriteWins
  FamilyGuard
CHECK_DEADLOCK FALSE

SPECIFICATION Spec
CONSTANTS
  Procs = {p1, p2, p3}
  NoFile = NoFile
INVARIANTS
  TypeOK
  NoStaleFile
PROPERTIES
  StaleStays

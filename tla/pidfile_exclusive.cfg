SPECIFICATION Spec
CONSTANTS
  Procs = {p1, p2}
  NoFile = NoFile
INVARIANTS
  AtMostOneRunning

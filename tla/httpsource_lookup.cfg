SPECIFICATION FairSpec
CONSTANTS
  a4 = a4
  b4 = b4
  a6 = a6
  b6 = b6
  NoIP = NoIP
  Own = Own
  Junk = Junk
  Empty = Empty
  Garbled = Garbled
  V4 = {a4, b4}
  V6 = {a6, b6}
  Pages <- AllPages
  Limit = 2
  Pieces <- AllPieces
  Configs <- Others
INVARIANTS
  TypeOK
PROPERTIES
  OwnAddress
  AskedFamily
  FoundIfThere
  LookupEnds

SPECIFICATION Spec
CONSTANTS
  block_size = 2
  scale = 2
  s_max_size = 9
  OFF_MAX = 10
  DiskZones <- MCDiskZones
  Others <- MCOthers
INVARIANTS
  TypeOK
  OthersUntouched
  NoneBehindEnd
  NeverWraps
PROPERTY ImplementsFile

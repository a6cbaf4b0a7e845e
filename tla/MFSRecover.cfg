SPECIFICATION Spec
CONSTANTS
  n0 = n0 n1 = n1 n2 = n2 n3 = n3
  s1 = s1 s2 = s2 s3 = s3
  f = f g = g dot1 = dot1 dot2 = dot2
  Slots = {s1, s2, s3}
  Inums = {n0, n1, n2, n3}
  NO_ENTRY = NO_ENTRY
  I_DIRECTORY = I_DIRECTORY
  I_REGULAR = I_REGULAR
  ROOT_INODE = n0
  RecoverName = f
  FileNames = {f}
  LINK_MAX = 2
  Room = 2
  MaxRefs = 2
  Writable = {n1, n2, n3}
  MaxRecovers = 1
SYMMETRY RecoverSymmetry
\* MFS answers no request after a panic.
CHECK_DEADLOCK FALSE
INVARIANTS
  TypeOK
  UnusedExact
  FreeSlotsFirst
  HashedExact
PROPERTIES
  KeepsItsInode

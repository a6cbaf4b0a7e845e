SPECIFICATION Spec
CONSTANTS
  n0 = n0 n1 = n1 n2 = n2 n3 = n3
  s1 = s1 s2 = s2 s3 = s3
  f = f g = g dot1 = dot1 dot2 = dot2
  Slots = {s1, s2, s3}
  Inums = {n0, n1, n2, n3}
  NO_ENTRY = NO_ENTRY
  I_DIRECTORY = I_DIRECTORY
  I_REGULAR = I_REGULAR
  ROOT_INODE = n0
  RecoverName = f
  FileNames = {f, g}
  LINK_MAX = 4
  Room = 4
  MaxRefs = 1
  Writable = {}
  MaxRecovers = 0
SYMMETRY Symmetry
INVARIANTS
  NamesUnique

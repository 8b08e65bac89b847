CONSTANTS
  p1 = p1
  p2 = p2
  p3 = p3
  p4 = p4
  a = a
  b = b
  c = c
  None = None
  Paths = {p1, p2, p3, p4}
  Before <- MCBefore
  DirOf <- MCDirOf
  Keep = {p2}
  Inodes = {i1, i2, i3}
  Contents = {a, b, c}
  SizeOf <- MCSizeOf
  MaxChanges = 2
SPECIFICATION Spec
SYMMETRY StoreSymmetry
CHECK_DEADLOCK FALSE
INVARIANTS
  TypeOK
PROPERTIES
  ContentKept
  PathKeepsContent

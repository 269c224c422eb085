SPECIFICATION Spec
CONSTANTS
  Openers = {h1, h2, h3}
  Inodes = {i1, i2, i3, i4}
  NoInode = none
  MaxClones = 2
INVARIANTS
  TypeOK
  OneOwner
  LogGuarded
  ServedWhileCloned
  TmpKept

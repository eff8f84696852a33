\* One connection saving and resetting one override file, failing and crashing anywhere.
SPECIFICATION Spec
CONSTANTS
  w1 = w1 w2 = w2 short = short long = long
  i1 = i1 i2 = i2 i3 = i3 i4 = i4
  None = None Empty = Empty Torn = Torn
  Writer <- OneWriter
  Body <- Bodies
  Default = short
  Size <- Lengths
  Inode <- ThreeInodes
INVARIANTS
  FileIsWhole
PROPERTIES
  ImplementsRegister

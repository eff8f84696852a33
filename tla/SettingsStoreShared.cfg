\* Two connections saving the same override file.
SPECIFICATION Spec
CONSTANTS
  w1 = w1 w2 = w2 short = short long = long
  i1 = i1 i2 = i2 i3 = i3 i4 = i4
  None = None Empty = Empty Torn = Torn
  Writer <- TwoWriters
  Body <- Bodies
  Default = short
  Size <- Lengths
  Inode <- FourInodes
INVARIANT FileIsWhole

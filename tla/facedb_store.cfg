\* Power loss anywhere, firmware changes, unreadable files.
CONSTANTS
  MaxFaces = 3
  CountMax = 65535
  Names = {n1, n2}
  Faces = {f1}
  Versions = {v1, v2}
  AutosaveVersions = {v1, v2}
  Faults = {"read"}
  Interrupts = {"firstBoot", "delete"}
  NoEntry = NoEntry
  NoMeta = NoMeta
  NoId = NoId
SPECIFICATION Spec
INVARIANT TypeOK
PROPERTY ImplementsStore

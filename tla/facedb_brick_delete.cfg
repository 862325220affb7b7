\* Power is lost during a removal.
CONSTANTS
  MaxFaces = 2
  CountMax = 65535
  Names = {n1, n2}
  Faces = {f1}
  Versions = {v1}
  AutosaveVersions = {v1}
  Faults = {}
  Interrupts = {"delete"}
  NoEntry = NoEntry
  NoMeta = NoMeta
  NoId = NoId
SPECIFICATION Spec
INVARIANT DatabaseOpens

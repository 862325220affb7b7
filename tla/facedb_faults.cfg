\* Every flash operation may fail.
CONSTANTS
  MaxFaces = 2
  CountMax = 5
  Names = {n1, n2}
  Faces = {f1}
  Versions = {v1}
  AutosaveVersions = {v1}
  Faults = {"write", "remove", "read"}
  Interrupts = {"firstBoot", "delete"}
  NoEntry = NoEntry
  NoMeta = NoMeta
  NoId = NoId
SPECIFICATION Spec
INVARIANTS UsedHasFace AddIsDurable

\* Files may be neither written nor read, only removed.
CONSTANTS
  MaxFaces = 2
  CountMax = 65535
  Names = {n1, n2}
  Faces = {f1}
  Versions = {v1, v2}
  AutosaveVersions = {v1, v2}
  Faults = {"write", "read"}
  Interrupts = {"firstBoot", "delete"}
  NoEntry = NoEntry
  NoMeta = NoMeta
  NoId = NoId
SPECIFICATION Spec
INVARIANTS CountCorrect DeleteIsDurable
PROPERTY StoredFaceKept

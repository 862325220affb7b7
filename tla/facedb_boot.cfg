\* A sound flash, no power loss in the windows that Interrupts names; v2 does not save at once.
CONSTANTS
  MaxFaces = 3
  CountMax = 65535
  Names = {n1, n2}
  Faces = {f1}
  Versions = {v1, v2}
  AutosaveVersions = {v1}
  Faults = {}
  Interrupts = {}
  NoEntry = NoEntry
  NoMeta = NoMeta
  NoId = NoId
SPECIFICATION FairSpec
INVARIANT SavedIsStored
 

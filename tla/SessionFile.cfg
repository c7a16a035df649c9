SPECIFICATION Spec
CONSTANTS
  Savers = {w1, w2}
  Size = 3
  Probe = 1
  MaxSaves = 4
INVARIANTS
  TypeOK
  LoadedIsSaved
  SavedIsLoaded

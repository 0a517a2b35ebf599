SPECIFICATION FairSpec
CONSTANTS
  a = a  b = b  c = c
  N = 6
  Meshes = {a, b, c}
  MeshOf <- SecondOfC
  Invalid = {3}
  Bare = {1}
  Sealed = {c}
  Batch = 4
  Flushes = {1, 2}
  MaxFails = 2
  MaxCrashes = 2
INVARIANTS InWriteOrder RepeatedOnlyByCrash
PROPERTY EveryRowPublishes

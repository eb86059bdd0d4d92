\* Two workers issue up to two bundles for one station, and one is restarted.
SPECIFICATION Spec
CONSTANTS
  None = None
  TestKey = TestKey
  Workers = {w1, w2}
  Stations = {geita}
  Keys = {k1, k2}
  Seeds <- TwoSeeds
  MaxBundles = 2
  MaxVersion = 2
  MaxRestarts = 1
SYMMETRY Symmetry
INVARIANTS
  OneProcessOneKey
  ImportedIfHashed
  SameIdSamePackage
  TypeOK

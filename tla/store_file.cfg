SPECIFICATION Spec
CONSTANTS
  Key = {k1, k2, k3}
  Value = {v1, v2}
  Age = {0, 1, 2}
  MaxTime = 3
INVARIANTS
  TypeOK
  UniqueKeys
  Ascending
PROPERTIES
  ImplementsKeyedStore

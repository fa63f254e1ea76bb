CONSTANTS
  Keys = {"k1", "k2", "k3", "k4"}
  Values = {"v1", "v2"}
  Capacities <- MCCapacities
  Addresses = {"a1", "a2", "a3", "a4"}
  NoValue = NoValue
SPECIFICATION Spec
INVARIANTS
  ListIsSymmetric
  MapMatchesList
  KeepsMostRecentlyUsed
PROPERTY ImplementsLRU

SPECIFICATION Spec
CONSTANT PoolSize = 9
INVARIANTS
  Partition
  RefusesExactly

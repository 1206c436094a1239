\* Two generations of one instance: what a row shows is its own, and every
\* container is removed or accounted for.
SPECIFICATION LifecycleFairSpec
CONSTANTS
  Instances = {i1}
  Workers = {w1}
  NoWorker = NoWorker
  ResourceIds = {c1}
  NoResource = NoResource
  TeamActiveLimit = 1
  MaxAttempts = 1
  Concurrency = 1
  BatchSize = 1
  LeaseTicks = 1
  MaxGeneration = 2
  OperatorGenerations = {}
  AttemptBound = 1
INVARIANTS
  ResourceIsOwn
  NoStaleEntrypoints
  StoppedOnlyWhenIntended
PROPERTIES
  ImplementsQueue
  ContainersSettle

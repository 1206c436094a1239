\* Three generations: started, destroyed, started anew before anything expires.
SPECIFICATION LifecycleSpec
CONSTANTS
  Instances = {i1}
  Workers = {w1}
  NoWorker = NoWorker
  ResourceIds = {c1}
  NoResource = NoResource
  TeamActiveLimit = 1
  MaxAttempts = 1
  Concurrency = 1
  BatchSize = 1
  LeaseTicks = 1
  MaxGeneration = 3
  OperatorGenerations = {}
  AttemptBound = 1
CONSTRAINT
  AlwaysFresh
INVARIANTS
  StoppedOnlyWhenIntended
PROPERTIES
  WantedIsNeverRemoved

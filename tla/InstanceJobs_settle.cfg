\* Operators queue reconcile jobs and replay dead letters of one generation;
\* leases last long enough to be renewed.
SPECIFICATION FairSpec
CONSTANTS
  Instances = {i1}
  Workers = {w1}
  NoWorker = NoWorker
  ResourceIds = {}
  NoResource = NoResource
  TeamActiveLimit = 1
  MaxAttempts = 1
  Concurrency = 1
  BatchSize = 1
  LeaseTicks = 2
  MaxGeneration = 1
  OperatorGenerations = {1}
  AttemptBound = 2
PROPERTIES
  JobsSettle

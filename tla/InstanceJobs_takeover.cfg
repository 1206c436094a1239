\* Two workers hand the jobs of two generations over to each other.
SPECIFICATION Spec
CONSTANTS
  Instances = {i1}
  Workers = {w1, w2}
  NoWorker = NoWorker
  ResourceIds = {}
  NoResource = NoResource
  TeamActiveLimit = 1
  MaxAttempts = 2
  Concurrency = 1
  BatchSize = 1
  LeaseTicks = 1
  MaxGeneration = 2
  OperatorGenerations = {}
  AttemptBound = 2
SYMMETRY WorkerSymmetry
INVARIANTS
  TypeOK
  OpenAttemptIsHeld
  HolderHasOpenAttempt
  SucceededMeansObserved
PROPERTIES
  ImplementsLedger
  SettledStaysSettled

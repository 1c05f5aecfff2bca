SPECIFICATION Spec
CONSTANTS
  w1 = w1
  w2 = w2
  NoWorker = NoWorker
  Runs <- TwoRuns
  Workers <- TwoWorkers
  Slots = 1
  QueueLimit = 1
  CanRun <- FirstPinned
  Posts <- Preset
  Tofu <- FirstRun
  LateLimit <- OneLate
INVARIANTS TypeOK AssignmentConsistent RunningIsCounted CapRespected OrphanVerdictSound
PROPERTY ImplementsLifecycle

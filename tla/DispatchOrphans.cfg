SPECIFICATION Spec
CONSTANTS
  w1 = w1
  w2 = w2
  NoWorker = NoWorker
  Runs <- TwoRuns
  Workers <- OneWorker
  Slots = 1
  QueueLimit = 1
  CanRun <- AnyWorker
  Posts <- Queued
  Tofu <- NoRuns
  LateLimit <- OneLate
INVARIANT ClaimingWorkerIsIdle

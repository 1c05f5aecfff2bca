SPECIFICATION Spec
CONSTANTS
  w1 = w1
  w2 = w2
  NoWorker = NoWorker
  create = create
  claim1 = claim1
  claim2 = claim2
  cancel = cancel
  stop = stop
  recover1 = recover1
  recover2 = recover2
  finish1 = finish1
  finish2 = finish2
  patch = patch
  heal = heal
  delete = delete
  Workers <- TwoWorkers
  Requests <- LockingRequests
  Kind <- KindOf
  Worker <- WorkerOf
  Bodies <- SomeBodies
  Crashes = FALSE
INVARIANTS TypeOK QuietReadable
PROPERTY ImplementsLifecycle

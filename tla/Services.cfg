SPECIFICATION Spec
CHECK_DEADLOCK FALSE
CONSTANTS
  t1 = t1
  t2 = t2
  repo = repo
  stacks = stacks
  admin = admin
  other = other
  p1 = p1
  p2 = p2
  g1 = g1
  g2 = g2
  h1 = h1
  main = main
  extra = extra
  WorkerIds <- TwoIds
  RequestThreads <- TwoThreads
  MaxAdmin = 1
  Schedulers <- TwoThreads
  CheckInterval = 60
  Period = 600
  Tick = 60
  Horizon = 1080
  MaxUpsets = 1
  Sources <- RepoAndStacks
  SyncThreads <- TwoThreads
  MaxRestarts = 1
  ConfigThreads <- TwoThreads
  MaxEdits = 3
  Chunks = 2
  Limit = 1
  MaxEmpty = 2
  Fetches <- TwoIds
  MaxMishaps = 1
  PipelineRuns <- TwoIds
  StepCount = 2
  MaxMeddling = 1
  Users <- TwoNames
  Roles <- TwoNames
  Permissions <- TwoPermissions
  Admin = admin
  AdminRole = admin
  BasicPermissions <- OnlyP1
  LegacyUsers <- OnlyOther
  LegacyRoles <- OnlyAdmin
  LegacyPermissions <- OnlyP1
  MaxDirEdits = 1
  MaxBoots = 2
  InventoryFiles <- TwoFiles
  Primary = main
  Hosts <- OneHost
  Groups <- TwoGroups
  Inventories <- NestedInventory
  InventoryThreads <- TwoThreads
  MaxRequests = 2
INVARIANTS
  ServicesTypeOK
  AdminHasTheLastWord RunOnce NoOccurrenceMissed
  OneSyncPerSource StatusConcluded WorkDirFollowsSync EditsLast
  ReaderHoldsPrefix ShowsNoGap CompleteStreamIsWhole
  RecordTellsRun DeletedStaysDeleted NumbersDistinct
  RenamedIsImported AdministratorSeeded HostWhereAsked
PROPERTIES
  WorkersRecover SyncsGoOn AutosyncsGoOn ReadersStop PipelinesEnd
  VariablesKept

----------------------------- MODULE MCServices -----------------------------
(***************************************************************************)
(* Instances of the services that share no state: a behaviour is one of    *)
(* the service it has chosen at first, while the others stand still.       *)
(***************************************************************************)
EXTENDS WorkerRegistry, PlaybookScheduler, SourceSync, ProjectConfig,
        LogStream, Pipelines, Directory, Inventory

CONSTANTS t1, t2, repo, stacks, admin, other, p1, p2, g1, g2, h1, main, extra

TwoIds == {1, 2}
TwoThreads == {t1, t2}
RepoAndStacks == {repo, stacks}

(* An older version left one user, who has the role of administrators.     *)
TwoNames == {admin, other}
TwoPermissions == {p1, p2}
OnlyOther == {other}
OnlyAdmin == {admin}
OnlyP1 == {p1}

(* A group within a group, whose host is also listed at the top.           *)
OneHost == {h1}
TwoGroups == {g1, g2}
TwoFiles == {main, extra}
NestedInventory ==
  {[places |-> {All, <<g1>>, <<g1, g2>>},
    hosts |-> {<<All, h1>>, <<<<g1, g2>>, h1>>},
    addressed |-> {<<<<g1, g2>>, h1>>}]}

VARIABLE service

serviceVars == <<service, registryVars, schedulerVars, syncVars, configVars,
                 logVars, pipelineVars, directoryVars, inventoryVars>>

Services == {"registry", "scheduler", "sync", "config", "log", "pipelines",
             "directory", "inventory"}

(* A service that stands still does so in one state.  Of two sources, of   *)
(* which one is local and one remote, either may be either: they are alike.*)
Standing ==
  /\ service = "sync" => mode[repo] = "git" \/ mode[stacks] = "local"
  /\ service # "scheduler" =>
       enabled /\ \A s \in Schedulers : process[s].at = 0
  /\ service # "sync" => \A k \in Sources : mode[k] = "local"
  /\ service # "log" => reader.kind = "stream"
  /\ service # "directory" => \A f \in Files : files[f] = "absent"

Init ==
  /\ service \in Services
  /\ RegistryInit /\ SchedulerInit /\ SyncInit /\ ConfigInit
  /\ LogInit /\ PipelineInit /\ DirectoryInit /\ InventoryInit
  /\ Standing

Next ==
  \/ /\ service = "registry" /\ RegistryNext
     /\ UNCHANGED <<service, schedulerVars, syncVars, configVars, logVars,
                    pipelineVars, directoryVars, inventoryVars>>
  \/ /\ service = "scheduler" /\ SchedulerNext
     /\ UNCHANGED <<service, registryVars, syncVars, configVars, logVars,
                    pipelineVars, directoryVars, inventoryVars>>
  \/ /\ service = "sync" /\ SyncNext
     /\ UNCHANGED <<service, registryVars, schedulerVars, configVars,
                    logVars, pipelineVars, directoryVars, inventoryVars>>
  \/ /\ service = "config" /\ ConfigNext
     /\ UNCHANGED <<service, registryVars, schedulerVars, syncVars, logVars,
                    pipelineVars, directoryVars, inventoryVars>>
  \/ /\ service = "log" /\ LogNext
     /\ UNCHANGED <<service, registryVars, schedulerVars, syncVars,
                    configVars, pipelineVars, directoryVars, inventoryVars>>
  \/ /\ service = "pipelines" /\ PipelineNext
     /\ UNCHANGED <<service, registryVars, schedulerVars, syncVars,
                    configVars, logVars, directoryVars, inventoryVars>>
  \/ /\ service = "directory" /\ DirectoryNext
     /\ UNCHANGED <<service, registryVars, schedulerVars, syncVars,
                    configVars, logVars, pipelineVars, inventoryVars>>
  \/ /\ service = "inventory" /\ InventoryNext
     /\ UNCHANGED <<service, registryVars, schedulerVars, syncVars,
                    configVars, logVars, pipelineVars, directoryVars>>

Spec == Init /\ [][Next]_serviceVars

(* Every service's state is well typed.                                    *)
ServicesTypeOK ==
  /\ RegistryTypeOK /\ SchedulerTypeOK /\ SyncTypeOK /\ ConfigTypeOK
  /\ LogTypeOK /\ PipelineTypeOK /\ DirectoryTypeOK /\ InventoryTypeOK

(* Each service's liveness, under its own fairness.                        *)
(* Workers whose token was refused come back (WorkerRegistry).             *)
WorkersRecover ==
  service = "registry" /\ RegistryFairness => SessionRecovers
(* Syncs end and new ones are started (SourceSync).                        *)
SyncsGoOn ==
  service = "sync" /\ SyncFairness => KeepsSyncing
(* Automatic syncs are started again and again (ProjectConfig).            *)
AutosyncsGoOn ==
  service = "config" /\ ConfigFairness => AutosyncGoesOn
(* Who follows the log of a run that is over stops (LogStream).            *)
ReadersStop ==
  service = "log" /\ LogFairness => ReaderStops
(* A pipeline run ends with a final status (Pipelines).                    *)
PipelinesEnd ==
  service = "pipelines" /\ PipelineFairness => RunEnds
=============================================================================

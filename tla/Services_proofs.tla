-------------------------- MODULE Services_proofs --------------------------
(***************************************************************************)
(* The services side by side: whichever a behaviour is of, and while the   *)
(* others stand still, each behaves as its own module says.  What has been *)
(* proved of a service from its own specification so holds in every        *)
(* behaviour that the runs of MCServices explore.                          *)
(***************************************************************************)
EXTENDS MCServices, Workers_proofs, Scheduling_proofs, Pipelines_proofs,
        Administration_proofs

(* A step of one service is a stutter of the others.                       *)
LEMMA ServicesStep ==
  ASSUME [Next]_serviceVars
  PROVE  /\ [RegistryNext]_registryVars /\ [SchedulerNext]_schedulerVars
         /\ [SyncNext]_syncVars /\ [ConfigNext]_configVars
         /\ [LogNext]_logVars /\ [PipelineNext]_pipelineVars
         /\ [DirectoryNext]_directoryVars /\ [InventoryNext]_inventoryVars
  BY DEF Next, serviceVars

(* A behaviour of the services is one of each service.                     *)
LEMMA ServicesApart ==
  Spec => /\ RegistrySpec /\ SchedulerSpec /\ SyncSpec /\ ConfigSpec
          /\ LogSpec /\ PipelineSpec /\ DirectorySpec /\ InventorySpec
<1>1. Init => /\ RegistryInit /\ SchedulerInit /\ SyncInit /\ ConfigInit
              /\ LogInit /\ PipelineInit /\ DirectoryInit /\ InventoryInit
  BY DEF Init
<1>2. [Next]_serviceVars =>
        /\ [RegistryNext]_registryVars /\ [SchedulerNext]_schedulerVars
        /\ [SyncNext]_syncVars /\ [ConfigNext]_configVars
        /\ [LogNext]_logVars /\ [PipelineNext]_pipelineVars
        /\ [DirectoryNext]_directoryVars /\ [InventoryNext]_inventoryVars
  BY ServicesStep
<1> QED
  BY <1>1, <1>2, PTL DEF Spec, RegistrySpec, SchedulerSpec, SyncSpec,
     ConfigSpec, LogSpec, PipelineSpec, DirectorySpec, InventorySpec

(* Every variable of every service has its type, whichever service runs,   *)
(* for any constants that satisfy the modules' assumptions.                *)
THEOREM ServicesTypeCorrect == Spec => []ServicesTypeOK
<1>1. EditsInv => ConfigTypeOK
  BY DEF EditsInv
<1> QED
  BY <1>1, ServicesApart, RegistryWellTyped, SchedulerTypeCorrect,
     SyncWellTyped, EditsInvariant, LogWellTyped, PipelineTypeCorrect,
     DirectoryLinksHold, InventoryTypeCorrect, PTL DEF ServicesTypeOK

(* And every invariant that the run of the services checks holds of them   *)
(* side by side, on schedules that fit the interval of the polls.          *)
ServicesHold ==
  /\ AdminHasTheLastWord /\ RunOnce /\ NoOccurrenceMissed
  /\ OneSyncPerSource /\ StatusConcluded /\ WorkDirFollowsSync /\ EditsLast
  /\ ReaderHoldsPrefix /\ ShowsNoGap /\ CompleteStreamIsWhole
  /\ RecordTellsRun /\ DeletedStaysDeleted /\ NumbersDistinct
  /\ RenamedIsImported /\ AdministratorSeeded /\ HostWhereAsked

(* No step of one service breaks what another promises: all of it holds    *)
(* together, each within the limits its own module states, and no step     *)
(* takes from a host's entry variables that a user gave it.                *)
THEOREM ServicesCorrect ==
  ASSUME Spaced, Timely
  PROVE  Spec => []ServicesHold /\ VariablesKept
<1>1. SchedulerSpec => []RunOnce
  BY SchedulerRunsOnce
<1>2. SchedulerSpec => []NoOccurrenceMissed
  BY SchedulerMissesNone
<1>3. RegistrySpec => []AdminHasTheLastWord
  BY RegistryLastWord
<1>4. SyncSpec =>
        []OneSyncPerSource /\ []StatusConcluded /\ []WorkDirFollowsSync
  BY SyncOnePerSource, SyncConcluded, SyncWorkDir
<1>5. ConfigSpec => []EditsLast
  BY ConfigEditsLast
<1>6. LogSpec =>
        []ReaderHoldsPrefix /\ []ShowsNoGap /\ []CompleteStreamIsWhole
  BY LogPrefixHeld, LogShowsNoGap, LogCompleteIsWhole
<1>7. PipelineSpec =>
        []RecordTellsRun /\ []DeletedStaysDeleted /\ []NumbersDistinct
  BY PipelineRecordTellsRun, PipelineDeletedStays, PipelineNumbersDistinct
<1>8. DirectorySpec => []RenamedIsImported /\ []AdministratorSeeded
  BY DirectoryImported, DirectoryAdministrator
<1>9. InventorySpec => []HostWhereAsked /\ VariablesKept
  BY InventoryHostWhereAsked, InventoryVariablesKept
<1> QED
  BY <1>1, <1>2, <1>3, <1>4, <1>5, <1>6, <1>7, <1>8, <1>9, ServicesApart, PTL
  DEF ServicesHold
=============================================================================

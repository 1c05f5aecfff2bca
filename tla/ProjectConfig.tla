--------------------------- MODULE ProjectConfig ---------------------------
(***************************************************************************)
(* A project's project.json: the configuration of its sources and of its   *)
(* automatic syncs in one file.  Every writer reads it whole, changes its  *)
(* part and writes it back whole, without a lock: the requests that edit   *)
(* the sources or the automatic syncs, an older request that pulls from    *)
(* git between the two, and the scheduler of automatic syncs, which keeps  *)
(* a copy of its part while it starts them.                                *)
(***************************************************************************)
EXTENDS Naturals

CONSTANTS
  ConfigThreads,  \* request threads of the server
  MaxEdits        \* bound on edits of the configuration and restarts

ASSUME MaxEditsAssumption == MaxEdits \in Nat

VARIABLES
  configFile,  \* project.json, or Torn while a writer has truncated it only
  autosyncer,  \* what the scheduler is doing, with its copies
  requests,    \* [ConfigThreads -> what a handler is doing, with its copy]
  told,        \* what the last edits said (history)
  edits,       \* how many edits and restarts there were
  overlapped   \* writers have come between each other (history)

configVars == <<configFile, autosyncer, requests, told, edits, overlapped>>
administration == <<told, edits>>

(* An edit of the sources is its number.  nextRunAt is a time: it is       *)
(* "future" until the interval has passed.                                 *)
Autosync == [enabled : BOOLEAN, keys : BOOLEAN,
             next : {"unset", "future", "due"},
             lastStatus : {"none", "running", "ok", "failed"}]
NoAutosync ==
  [enabled |-> FALSE, keys |-> FALSE, next |-> "unset", lastStatus |-> "none"]
Config == [autosync : Autosync, sources : 0..MaxEdits]
TornConfig == [torn |-> TRUE]

Quiet == [step |-> "none"]
Handler == [step : {"pull", "truncate", "write"}, copy : Config,
            what : {"sources", "autosync", "time"}]
Autosyncer ==
  [step : {"asleep", "begin", "truncate", "write", "starting", "end"},
   copy : Config, auto : Autosync, then : {"asleep", "starting"}]
Asleep ==
  [step |-> "asleep", copy |-> [autosync |-> NoAutosync, sources |-> 0],
   auto |-> NoAutosync, then |-> "asleep"]

ConfigTypeOK ==
  /\ configFile \in Config \cup {TornConfig}
  /\ autosyncer \in Autosyncer
  /\ requests \in [ConfigThreads -> Handler \cup {Quiet}]
  /\ told \in [enabled : BOOLEAN, sources : 0..MaxEdits]
  /\ edits \in 0..MaxEdits
  /\ overlapped \in BOOLEAN

ConfigInit ==
  /\ configFile = [autosync |-> NoAutosync, sources |-> 0]
  /\ autosyncer = Asleep
  /\ requests = [p \in ConfigThreads |-> Quiet]
  /\ told = [enabled |-> FALSE, sources |-> 0]
  /\ edits = 0
  /\ overlapped = FALSE

(* load_project_config: what cannot be parsed reads as {}.                 *)
Loaded ==
  IF configFile = TornConfig THEN [autosync |-> NoAutosync, sources |-> 0]
  ELSE configFile

-----------------------------------------------------------------------------
(* The scheduler, for this project.  A check waits, gives an enabled       *)
(* automatic sync its first time, or begins one that is due.               *)
Check ==
  LET read == Loaded.autosync IN
  /\ autosyncer.step = "asleep"
  /\ read.enabled
  /\ autosyncer' =
       CASE read.next = "unset" ->
              [Asleep EXCEPT !.step = "truncate",
                !.copy = [Loaded EXCEPT !.autosync.next = "future"]]
         [] read.next = "due" /\ read.keys ->
              [Asleep EXCEPT !.step = "begin", !.then = "starting",
                !.auto = [read EXCEPT !.next = "future",
                                      !.lastStatus = "running"]]
         [] OTHER -> Asleep
  /\ UNCHANGED <<configFile, requests, administration>>

(* _run_autosync puts its copy into the file before and after: each time   *)
(* the rest of the file is read again.                                     *)
(* Mutant: it is read again only before.                                   *)
PutBackOld ==
  /\ autosyncer.step \in {"begin", "end"}
  /\ autosyncer' = [autosyncer EXCEPT !.step = "truncate",
                      !.copy = [IF autosyncer.step = "end" THEN @ ELSE Loaded
                                EXCEPT !.autosync = autosyncer.auto]]
  /\ UNCHANGED <<configFile, requests, administration>>
PutBack ==
  /\ autosyncer.step \in {"begin", "end"}
  /\ autosyncer' = [autosyncer EXCEPT !.step = "truncate",
                      !.copy = [Loaded EXCEPT !.autosync = autosyncer.auto]]
  /\ UNCHANGED <<configFile, requests, administration>>

AutosyncTruncate ==
  /\ autosyncer.step = "truncate"
  /\ configFile' = TornConfig
  /\ autosyncer' = [autosyncer EXCEPT !.step = "write"]
  /\ UNCHANGED <<requests, administration>>

(* Mutant: nothing is started after the first write.                       *)
AutosyncWriteOnly ==
  /\ autosyncer.step = "write"
  /\ configFile' = autosyncer.copy
  /\ autosyncer' = Asleep
  /\ UNCHANGED <<requests, administration>>
AutosyncWrite ==
  /\ autosyncer.step = "write"
  /\ configFile' = autosyncer.copy
  /\ autosyncer' = IF autosyncer.then = "asleep" THEN Asleep
                   ELSE [autosyncer EXCEPT !.step = "starting"]
  /\ UNCHANGED <<requests, administration>>

(* The syncs are started, each in a thread of its own, or refused.         *)
StartSyncs ==
  /\ autosyncer.step = "starting"
  /\ \E status \in {"ok", "failed"} :
       autosyncer' = [autosyncer EXCEPT !.step = "end", !.then = "asleep",
                                        !.auto.lastStatus = status]
  /\ UNCHANGED <<configFile, requests, administration>>

-----------------------------------------------------------------------------
(* The requests.                                                           *)
Receive(p, step, copy, what) ==
  /\ requests[p] = Quiet
  /\ requests' = [requests EXCEPT ![p] =
                    [step |-> step, copy |-> copy, what |-> what]]
  /\ UNCHANGED <<configFile, autosyncer, told>>

EditSources(p) ==
  /\ edits < MaxEdits
  /\ edits' = edits + 1
  /\ Receive(p, "truncate", [Loaded EXCEPT !.sources = edits + 1], "sources")

(* A time in the future is kept, a time that has passed or is not set      *)
(* becomes one interval from now, and disabling forgets it.                *)
Rescheduled(enabled) == IF enabled THEN "future" ELSE "unset"
EditAutosync(p) ==
  /\ edits < MaxEdits
  /\ edits' = edits + 1
  /\ \E enabled, keys \in BOOLEAN :
       Receive(p, "truncate",
         [Loaded EXCEPT !.autosync.enabled = enabled, !.autosync.keys = keys,
                        !.autosync.next = Rescheduled(enabled)],
         "autosync")

(* POST sources/sync writes back, after its pull, what it read before.     *)
PullByRequest(p) == UNCHANGED edits /\ Receive(p, "pull", Loaded, "time")
Pulled(p) ==
  /\ requests[p].step = "pull"
  /\ requests' \in {[requests EXCEPT ![p] = Quiet],
                    [requests EXCEPT ![p].step = "truncate"]}
  /\ UNCHANGED <<configFile, autosyncer, administration>>

TruncateConfig(p) ==
  /\ requests[p].step = "truncate"
  /\ configFile' = TornConfig
  /\ requests' = [requests EXCEPT ![p].step = "write"]
  /\ UNCHANGED <<autosyncer, administration>>

WriteConfig(p) ==
  /\ requests[p].step = "write"
  /\ configFile' = requests[p].copy
  /\ told' = CASE requests[p].what = "sources" ->
                     [told EXCEPT !.sources = configFile'.sources]
               [] requests[p].what = "autosync" ->
                     [told EXCEPT !.enabled = configFile'.autosync.enabled]
               [] OTHER -> told
  /\ requests' = [requests EXCEPT ![p] = Quiet]
  /\ UNCHANGED <<autosyncer, edits>>

-----------------------------------------------------------------------------
(* The interval passes, for every copy alike.                              *)
Elapsed(auto) == [auto EXCEPT !.next = IF @ = "future" THEN "due" ELSE @]
IntervalPasses ==
  /\ configFile' = IF configFile = TornConfig THEN TornConfig
                   ELSE [configFile EXCEPT !.autosync = Elapsed(@)]
  /\ autosyncer' =
       [autosyncer EXCEPT !.auto = Elapsed(@), !.copy.autosync = Elapsed(@)]
  /\ requests' = [p \in ConfigThreads |->
       IF requests[p] = Quiet THEN Quiet
       ELSE [requests[p] EXCEPT !.copy.autosync = Elapsed(@)]]
  /\ UNCHANGED administration

(* A restart between the writes leaves a whole file.                       *)
ConfigRestart ==
  /\ edits < MaxEdits
  /\ edits' = edits + 1
  /\ configFile # TornConfig
  /\ autosyncer' = Asleep
  /\ requests' = [p \in ConfigThreads |-> Quiet]
  /\ UNCHANGED <<configFile, told>>

(* A copy of the whole file is about to be written; the scheduler holds a  *)
(* copy of its part from a check to its last write.  Two whole copies, or  *)
(* an edit of the automatic syncs during a check, may undo each other:     *)
(* the model ends there.                                                   *)
Holding == {p \in ConfigThreads : requests[p] # Quiet}
Undoing ==
  \/ \E p, q \in Holding : p # q
  \/ Holding # {} /\ autosyncer.step \in {"truncate", "write"}
  \/ /\ autosyncer.step # "asleep"
     /\ \E p \in Holding : requests[p].what # "sources"
NotingOverlaps(A) == ~overlapped /\ A /\ overlapped' = Undoing'

AutosyncStep ==
  Check \/ PutBack \/ AutosyncTruncate \/ AutosyncWrite \/ StartSyncs
RequestStep(p) == Pulled(p) \/ TruncateConfig(p) \/ WriteConfig(p)
ConfigNext ==
  NotingOverlaps(
    \/ AutosyncStep
    \/ \E p \in ConfigThreads :
         \/ EditSources(p) \/ EditAutosync(p)
         \/ PullByRequest(p) \/ RequestStep(p)
    \/ IntervalPasses
    \/ ConfigRestart)

ConfigSpec == ConfigInit /\ [][ConfigNext]_configVars

-----------------------------------------------------------------------------
(* What an administrator was told lasts, until writers overlap: the        *)
(* sources edited while automatic syncs are started are not undone by the  *)
(* scheduler's last write, nor are automatic syncs started, or the rest of *)
(* the file changed, by a check that read them enabled before they were    *)
(* disabled.                                                               *)
EditsLast ==
  ~overlapped =>
    /\ configFile # TornConfig /\ Holding = {} =>
         /\ configFile.sources = told.sources
         /\ configFile.autosync.enabled = told.enabled
    /\ autosyncer.step = "starting" => told.enabled

(* The scheduler's loop, the requests and the clock go on.                 *)
ConfigFairness ==
  /\ SF_configVars(NotingOverlaps(AutosyncStep))
  /\ \A p \in ConfigThreads : WF_configVars(NotingOverlaps(RequestStep(p)))
  /\ WF_configVars(NotingOverlaps(IntervalPasses))

(* Automatic syncs that stay enabled, with a source to sync, are started   *)
(* again and again.                                                        *)
AutosyncGoesOn ==
  <>[](~overlapped /\ (configFile # TornConfig => configFile.autosync.enabled
                                                /\ configFile.autosync.keys))
  => []<>(autosyncer.step = "starting") /\ []<>(autosyncer.step = "asleep")
=============================================================================

---------------------------- MODULE DeviceState ----------------------------
(***************************************************************************)
(* The claim side of the driver: DeviceState.Prepare and .Unprepare        *)
(* (internal/state/state.go) with the CDI handler they call                *)
(* (internal/handler/cdi.go, internal/handler/config), the start-up of     *)
(* NewDeviceState, and crashes of the plugin process between any two file  *)
(* operations.                                                             *)
(*                                                                         *)
(* Every file operation is one step, because each is atomic on disk        *)
(* (checkpoint and CDI spec are written to a temporary file and renamed)   *)
(* and the process can die between any two.  The callers are unrestricted: *)
(* any gRPC worker may ask for any claim at any time.  Module Kubelet      *)
(* restricts them to what kubelet and scheduler do.                        *)
(***************************************************************************)
EXTENDS FiniteSets

CONSTANTS
    Claims,     \* claim UIDs
    Devices,    \* names of this driver's devices
    Uuids,      \* config folder names; the bound on simultaneous folders
    Workers,    \* gRPC handler goroutines
    None,       \* no folder, no worker
    Faults      \* the steps whose file operation may fail

FallibleSteps == {"p_lock", "p_dir", "p_metrics", "p_spec", "p_save",
                  "u_lock", "u_config", "u_metrics", "u_save", "u_spec",
                  "scan", "clean"}

ASSUME NoneAssumption == None \notin Uuids \cup Workers
ASSUME FaultsAssumption == Faults \subseteq FallibleSteps

VARIABLES
    \* on disk
    ckptFile,    \* the checkpoint file exists
    ckpt,        \* PreparedClaims: the devices of each claim, {} for no entry
    spec,        \* the CDI spec file of each claim, or NoSpec
    cfgDirs,     \* folders below the config host path
    metDirs,     \* folders below the metrics host path
    \* in memory
    driver,      \* "down", "clean", "check" (start-up) or "serving"
    allocatable, \* DeviceState.Allocatable
    todo,        \* folders CleanZombieConfigFolders still has to remove
    cleaned,     \* folder whose metrics part is to be removed next, or None
    mu,          \* holder of DeviceState.mu, or None
    pc,          \* control state of each worker
    call,        \* claim and devices of each worker's call
    loaded,      \* the checkpoint each worker has read
    dir          \* config folder each worker works on

disk == <<ckptFile, ckpt, spec, cfgDirs, metDirs>>
boot == <<driver, allocatable, todo, cleaned>>
locals == <<mu, pc, call, loaded, dir>>
vars == <<ckptFile, ckpt, spec, cfgDirs, metDirs,
          driver, allocatable, todo, cleaned,
          mu, pc, call, loaded, dir>>

-----------------------------------------------------------------------------
DeviceSets == (SUBSET Devices) \ {{}}
NoSpec == [devs |-> {}, dir |-> None]
Specs == [devs : DeviceSets, dir : Uuids]
NoEntries == [c \in Claims |-> {}]
NoCall == [claim |-> None, devs |-> {}]
Calls == [claim : Claims, devs : SUBSET Devices]

\* The control states of Prepare, of Unprepare, and of a finished call.
PrepareSteps == {"p_dir", "p_metrics", "p_spec", "p_save"}
UnprepareSteps == {"u_config", "u_metrics", "u_save", "u_spec"}
Locked == PrepareSteps \cup UnprepareSteps
Finished == {"ok", "err"}
Steps == {"idle", "p_lock", "u_lock"} \cup Locked \cup Finished

Claim(w) == call[w].claim
Referenced == {spec[c].dir : c \in Claims} \ {None}
Fresh == Uuids \ (cfgDirs \cup metDirs \cup Referenced)

TypeOK ==
    /\ ckptFile \in BOOLEAN
    /\ ckpt \in [Claims -> SUBSET Devices]
    /\ spec \in [Claims -> Specs \cup {NoSpec}]
    /\ cfgDirs \subseteq Uuids
    /\ metDirs \subseteq Uuids
    /\ driver \in {"down", "clean", "check", "serving"}
    /\ allocatable \subseteq Devices
    /\ todo \subseteq Uuids
    /\ cleaned \in Uuids \cup {None}
    /\ mu \in Workers \cup {None}
    /\ pc \in [Workers -> Steps]
    /\ call \in [Workers -> Calls \cup {NoCall}]
    /\ loaded \in [Workers -> [Claims -> SUBSET Devices]]
    /\ dir \in [Workers -> Uuids \cup {None}]

Init ==
    /\ ckptFile = FALSE /\ ckpt = NoEntries /\ spec = [c \in Claims |-> NoSpec]
    /\ cfgDirs = {} /\ metDirs = {}
    /\ driver = "down" /\ allocatable = {} /\ todo = {} /\ cleaned = None
    /\ mu = None
    /\ pc = [w \in Workers |-> "idle"]
    /\ call = [w \in Workers |-> NoCall]
    /\ loaded = [w \in Workers |-> NoEntries]
    /\ dir = [w \in Workers |-> None]

-----------------------------------------------------------------------------
(* Control flow shared by the handlers.                                    *)

\* Go on to step s, still holding the mutex.
Goto(w, s) == /\ pc' = [pc EXCEPT ![w] = s]
              /\ UNCHANGED <<mu, call, loaded, dir>>

\* Acquire the mutex, read the checkpoint and go on to step s with folder u.
Enter(w, s, u) == /\ mu' = w
                  /\ pc' = [pc EXCEPT ![w] = s]
                  /\ loaded' = [loaded EXCEPT ![w] = ckpt]
                  /\ dir' = [dir EXCEPT ![w] = u]
                  /\ UNCHANGED call

\* Mutant: an error path without Unlock.
ReturnKeepsLock(w, r, D) == /\ mu' = IF r = "err" THEN mu ELSE None
                            /\ pc' = [pc EXCEPT ![w] = r]
                            /\ call' = [call EXCEPT ![w].devs = D]
                            /\ loaded' = [loaded EXCEPT ![w] = NoEntries]
                            /\ dir' = [dir EXCEPT ![w] = None]

\* Return result r with devices D: the deferred Unlock runs on every path.
Return(w, r, D) == /\ mu' = None
                   /\ pc' = [pc EXCEPT ![w] = r]
                   /\ call' = [call EXCEPT ![w].devs = D]
                   /\ loaded' = [loaded EXCEPT ![w] = NoEntries]
                   /\ dir' = [dir EXCEPT ![w] = None]

\* A gRPC call reaches the driver.  Kubelet calls it only for claims that hold
\* devices of this driver, so the devices D to prepare are never empty; an
\* Unprepare call names none.
Call(w, s, c, D) ==
    /\ driver = "serving" /\ pc[w] = "idle"
    /\ s = "p_lock" <=> D # {}
    /\ pc' = [pc EXCEPT ![w] = s]
    /\ call' = [call EXCEPT ![w] = [claim |-> c, devs |-> D]]
    /\ UNCHANGED <<disk, boot, mu, loaded, dir>>

\* The answer leaves the driver.
Reply(w) ==
    /\ pc[w] \in Finished
    /\ pc' = [pc EXCEPT ![w] = "idle"]
    /\ call' = [call EXCEPT ![w] = NoCall]
    /\ UNCHANGED <<disk, boot, mu, loaded, dir>>

\* The file operation of the current step fails and the handler returns the
\* error.  Only these steps test the error; a failed removal is just logged.
\* Running out of Uuids shows as a failed creation of the config folder.
Checked == {"p_lock", "p_dir", "p_metrics", "p_spec", "p_save",
            "u_lock", "u_save", "u_spec"}
IOFails(w) ==
    /\ pc[w] \in Checked
    /\ pc[w] \in Faults \/ (pc[w] = "p_dir" /\ Fresh = {})
    /\ pc[w] \in {"p_lock", "u_lock"} => mu = None
    /\ Return(w, "err", call[w].devs)
    /\ UNCHANGED <<disk, boot>>

-----------------------------------------------------------------------------
(* Prepare.                                                                *)

\* Mutants: no Lock; no answer from the checkpoint.
PrepareWithoutLock(w) ==
    /\ pc[w] = "p_lock"
    /\ \/ ckpt[Claim(w)] # {} /\ Return(w, "ok", ckpt[Claim(w)])
       \/ ckpt[Claim(w)] = {} /\ Enter(w, "p_dir", None)
    /\ UNCHANGED <<disk, boot>>
PreparesAgain(w) ==
    /\ pc[w] = "p_lock" /\ mu = None
    /\ Enter(w, "p_dir", None)
    /\ UNCHANGED <<disk, boot>>

\* An entry of the checkpoint answers the call (Prepare is idempotent);
\* otherwise every device has to be allocatable.
PrepareBegin(w) ==
    /\ pc[w] = "p_lock" /\ mu = None
    /\ \/ /\ ckpt[Claim(w)] # {}
          /\ Return(w, "ok", ckpt[Claim(w)])
       \/ /\ ckpt[Claim(w)] = {} /\ ~ call[w].devs \subseteq allocatable
          /\ Return(w, "err", call[w].devs)
       \/ /\ ckpt[Claim(w)] = {} /\ call[w].devs \subseteq allocatable
          /\ Enter(w, "p_dir", None)
    /\ UNCHANGED <<disk, boot>>

\* Mutant: a folder of an earlier request is taken again.
ReusesFolder(w) ==
    /\ pc[w] = "p_dir"
    /\ \E u \in Uuids : cfgDirs' = cfgDirs \cup {u} /\ dir' = [dir EXCEPT ![w] = u]
    /\ pc' = [pc EXCEPT ![w] = "p_metrics"]
    /\ UNCHANGED <<ckptFile, ckpt, spec, metDirs, boot, mu, call, loaded>>

\* A config folder with a new name, for every container request.
PrepareDir(w) ==
    /\ pc[w] = "p_dir"
    /\ \E u \in Fresh :
          /\ cfgDirs' = cfgDirs \cup {u}
          /\ dir' = [dir EXCEPT ![w] = u]
    /\ pc' = [pc EXCEPT ![w] = "p_metrics"]
    /\ UNCHANGED <<ckptFile, ckpt, spec, metDirs, boot, mu, call, loaded>>

\* The senlib config is generated and the metrics folder of that name created.
PrepareMetrics(w) ==
    /\ pc[w] = "p_metrics"
    /\ metDirs' = metDirs \cup {dir[w]}
    /\ Goto(w, "p_spec")
    /\ UNCHANGED <<ckptFile, ckpt, spec, cfgDirs, boot>>

\* Mutant: the spec is written without its mounts.
SpecWithoutMounts(w) ==
    /\ pc[w] = "p_spec"
    /\ spec' = [spec EXCEPT ![Claim(w)] = [devs |-> call[w].devs, dir |-> None]]
    /\ Goto(w, "p_save")
    /\ UNCHANGED <<ckptFile, ckpt, cfgDirs, metDirs, boot>>

\* The CDI spec, written over whatever spec the claim had.
PrepareSpec(w) ==
    /\ pc[w] = "p_spec"
    /\ spec' = [spec EXCEPT ![Claim(w)] = [devs |-> call[w].devs, dir |-> dir[w]]]
    /\ Goto(w, "p_save")
    /\ UNCHANGED <<ckptFile, ckpt, cfgDirs, metDirs, boot>>

\* Mutant: the error of the checkpoint write is ignored.
SaveErrorIgnored(w) ==
    /\ pc[w] = "p_save"
    /\ ckpt' \in {ckpt, [loaded[w] EXCEPT ![Claim(w)] = call[w].devs]}
    /\ ckptFile' = TRUE
    /\ Return(w, "ok", call[w].devs)
    /\ UNCHANGED <<spec, cfgDirs, metDirs, boot>>

\* The claim enters the checkpoint; only now is it prepared.
PrepareSave(w) ==
    /\ pc[w] = "p_save"
    /\ ckpt' = [loaded[w] EXCEPT ![Claim(w)] = call[w].devs]
    /\ ckptFile' = TRUE
    /\ Return(w, "ok", call[w].devs)
    /\ UNCHANGED <<spec, cfgDirs, metDirs, boot>>

-----------------------------------------------------------------------------
(* Unprepare.                                                              *)

\* Mutant: a claim without entry is an error.
AbsentIsError(w) ==
    /\ pc[w] = "u_lock" /\ mu = None
    /\ \/ ckpt[Claim(w)] = {} /\ Return(w, "err", call[w].devs)
       \/ ckpt[Claim(w)] # {} /\ Enter(w, "u_config", spec[Claim(w)].dir)
    /\ UNCHANGED <<disk, boot>>

\* Without an entry there is nothing to do.  An unreadable spec is only logged
\* and leaves the folders behind.
UnprepareBegin(w) ==
    /\ pc[w] = "u_lock" /\ mu = None
    /\ \/ /\ ckpt[Claim(w)] = {}
          /\ Return(w, "ok", call[w].devs)
       \/ /\ ckpt[Claim(w)] # {} /\ spec[Claim(w)] # NoSpec
          /\ Enter(w, "u_config", spec[Claim(w)].dir)
       \/ /\ ckpt[Claim(w)] # {} /\ (spec[Claim(w)] = NoSpec \/ "u_config" \in Faults)
          /\ Enter(w, "u_save", None)
    /\ UNCHANGED <<disk, boot>>

\* DeleteConfigFile removes the mounted folders; a failure is only logged.
UnprepareConfig(w) ==
    /\ pc[w] = "u_config"
    /\ \/ cfgDirs' = cfgDirs \ {dir[w]}
       \/ "u_config" \in Faults /\ cfgDirs' = cfgDirs
    /\ Goto(w, "u_metrics")
    /\ UNCHANGED <<ckptFile, ckpt, spec, metDirs, boot>>

\* Mutant: the spec file is deleted before the checkpoint entry.
DeletesSpecFirst(w) ==
    /\ pc[w] = "u_metrics"
    /\ metDirs' = metDirs \ {dir[w]}
    /\ spec' = [spec EXCEPT ![Claim(w)] = NoSpec]
    /\ Goto(w, "u_save")
    /\ UNCHANGED <<ckptFile, ckpt, cfgDirs, boot>>

UnprepareMetrics(w) ==
    /\ pc[w] = "u_metrics"
    /\ \/ metDirs' = metDirs \ {dir[w]}
       \/ "u_metrics" \in Faults /\ metDirs' = metDirs
    /\ Goto(w, "u_save")
    /\ UNCHANGED <<ckptFile, ckpt, spec, cfgDirs, boot>>

\* Mutant: the entry is deleted in memory only.
NotSaved(w) ==
    /\ pc[w] = "u_save"
    /\ Goto(w, "u_spec")
    /\ UNCHANGED <<disk, boot>>

UnprepareSave(w) ==
    /\ pc[w] = "u_save"
    /\ ckpt' = [loaded[w] EXCEPT ![Claim(w)] = {}]
    /\ ckptFile' = TRUE
    /\ Goto(w, "u_spec")
    /\ UNCHANGED <<spec, cfgDirs, metDirs, boot>>

\* RemoveSpec; a spec file that is missing is no error.
UnprepareSpec(w) ==
    /\ pc[w] = "u_spec"
    /\ spec' = [spec EXCEPT ![Claim(w)] = NoSpec]
    /\ Return(w, "ok", call[w].devs)
    /\ UNCHANGED <<ckptFile, ckpt, cfgDirs, metDirs, boot>>

-----------------------------------------------------------------------------
(* The process: crash, and NewDeviceState on restart.                      *)

\* The process dies; only the files stay.
Crash ==
    /\ driver # "down"
    /\ driver' = "down" /\ allocatable' = {} /\ todo' = {} /\ cleaned' = None
    /\ mu' = None
    /\ pc' = [w \in Workers |-> "idle"]
    /\ call' = [w \in Workers |-> NoCall]
    /\ loaded' = [w \in Workers |-> NoEntries]
    /\ dir' = [w \in Workers |-> None]
    /\ UNCHANGED disk

\* Mutant: the mounts of the CDI specs are not collected.
ScanIgnoresSpecs ==
    /\ driver = "down" /\ driver' = "clean"
    /\ allocatable' = Devices /\ todo' = cfgDirs
    /\ UNCHANGED <<disk, cleaned, locals>>

\* Discovery finds some of the devices; CleanZombieConfigFolders then reads the
\* CDI specs (R: the claims whose spec file it can read) and lists the config
\* folders that none of them mounts.  An error of the walk skips the cleaning.
BootScan ==
    /\ driver = "down"
    /\ allocatable' \in SUBSET Devices
    /\ \/ /\ driver' = "clean"
          /\ \E R \in SUBSET Claims :
                /\ R = Claims \/ "scan" \in Faults
                /\ todo' = cfgDirs \ {spec[c].dir : c \in R}
       \/ "scan" \in Faults /\ driver' = "check" /\ todo' = {}
    /\ UNCHANGED <<disk, cleaned, locals>>

\* A folder without mount goes, then the metrics folder of the same name.
CleanConfig ==
    /\ driver = "clean" /\ cleaned = None
    /\ \E u \in todo :
          /\ \/ cfgDirs' = cfgDirs \ {u}
             \/ "clean" \in Faults /\ cfgDirs' = cfgDirs
          /\ todo' = todo \ {u}
          /\ cleaned' = u
    /\ UNCHANGED <<ckptFile, ckpt, spec, metDirs, driver, allocatable, locals>>

CleanMetrics ==
    /\ driver = "clean" /\ cleaned # None
    /\ \/ metDirs' = metDirs \ {cleaned}
       \/ "clean" \in Faults /\ metDirs' = metDirs
    /\ cleaned' = None
    /\ UNCHANGED <<ckptFile, ckpt, spec, cfgDirs, driver, allocatable, todo, locals>>

\* Mutant: the loop over the folders ends early.
CleanStopsEarly ==
    /\ driver = "clean" /\ cleaned = None
    /\ driver' = "check" /\ todo' = {}
    /\ UNCHANGED <<disk, allocatable, cleaned, locals>>

CleanDone ==
    /\ driver = "clean" /\ todo = {} /\ cleaned = None
    /\ driver' = "check"
    /\ UNCHANGED <<disk, allocatable, todo, cleaned, locals>>

\* Mutant: the checkpoint file is always created anew.
AlwaysNewCheckpoint ==
    /\ driver = "check" /\ driver' = "serving"
    /\ ckptFile' = TRUE /\ ckpt' = NoEntries
    /\ UNCHANGED <<spec, cfgDirs, metDirs, allocatable, todo, cleaned, locals>>

\* ListCheckpoints: an existing checkpoint file is kept, a missing one created.
BootCheckpoint ==
    /\ driver = "check"
    /\ driver' = "serving"
    /\ \/ ckptFile /\ UNCHANGED <<ckptFile, ckpt>>
       \/ ~ ckptFile /\ ckptFile' = TRUE /\ ckpt' = NoEntries
    /\ UNCHANGED <<spec, cfgDirs, metDirs, allocatable, todo, cleaned, locals>>

-----------------------------------------------------------------------------
Prepare(w) == PrepareBegin(w) \/ PrepareDir(w) \/ PrepareMetrics(w)
                 \/ PrepareSpec(w) \/ PrepareSave(w)
Unprepare(w) == UnprepareBegin(w) \/ UnprepareConfig(w) \/ UnprepareMetrics(w)
                 \/ UnprepareSave(w) \/ UnprepareSpec(w)
Handler(w) == Prepare(w) \/ Unprepare(w) \/ IOFails(w) \/ Reply(w)
Boot == BootScan \/ CleanConfig \/ CleanMetrics \/ CleanDone \/ BootCheckpoint

Request(w) == \E s \in {"p_lock", "u_lock"}, c \in Claims, D \in SUBSET Devices :
                 Call(w, s, c, D)

Next == Boot \/ Crash \/ \E w \in Workers : Request(w) \/ Handler(w)

Spec == Init /\ [][Next]_vars

\* Every step of a handler is eventually taken.  A worker waiting for the mutex
\* gets it although others compete: sync.Mutex hands it over in FIFO order once
\* a waiter has starved for a millisecond.
Begin(w) == PrepareBegin(w) \/ UnprepareBegin(w)
Fairness == \A w \in Workers : WF_vars(Handler(w)) /\ SF_vars(Begin(w))
FairSpec == Spec /\ Fairness

-----------------------------------------------------------------------------
(* Properties.                                                             *)

\* A checkpoint entry always has a CDI spec file listing exactly the devices of
\* the entry, whatever crashes or fails: the reason for the order of the two
\* writes in Prepare and in Unprepare.
CheckpointHasSpec == \A c \in Claims : ckpt[c] # {} => spec[c].devs = ckpt[c]

\* A checkpoint entry once written is changed by nothing but the Unprepare of
\* that claim, which removes it: not by a concurrent call that writes back the
\* checkpoint it has read, not by a second Prepare, not by a restart.
EntryKept == \A c \in Claims : ckpt[c] \notin {{}, ckpt'[c]} =>
                ckpt'[c] = {} /\ \E w \in Workers : pc[w] = "u_save" /\ Claim(w) = c
EntryRemovedOnlyByUnprepare == [][EntryKept]_vars

\* While a claim stays prepared its spec file stays as it is: a pod started
\* again from that spec sees the same devices and folders.
SpecKept == \A c \in Claims : ckpt[c] # {} /\ ckpt'[c] # {} => spec'[c] = spec[c]
PreparedSpecStable == [][SpecKept]_vars

\* The config folder mounted by a prepared claim disappears only through the
\* Unprepare of that claim: neither the cleaning at start-up nor a call for
\* another claim removes it.  (All spec files are readable at start-up.)
FolderKept == \A c \in Claims :
    ckpt[c] # {} /\ spec[c].dir \in cfgDirs \ cfgDirs' =>
        \E w \in Workers : pc[w] = "u_config" /\ Claim(w) = c
FolderRemovedOnlyByUnprepare == [][FolderKept]_vars

\* A start-up without faults leaves no config folder that no CDI spec mounts,
\* although failed and interrupted calls leave such folders (cdi.go:263).
StartupLeavesNoZombie ==
    [][driver = "check" /\ driver' = "serving" => cfgDirs \subseteq Referenced]_vars

\* Every call is answered (or lost in a crash): no path keeps the mutex.
CallsAnswered == \A w \in Workers : pc[w] # "idle" ~> pc[w] = "idle"

-----------------------------------------------------------------------------
(* Refinement: Prepare and Unprepare are linearizable and durable.  They   *)
(* take effect when the checkpoint file is replaced.                       *)

AbsStage(s) ==
    CASE s \in {"p_lock"} \cup PrepareSteps -> "prepare"
      [] s \in {"u_lock", "u_config", "u_metrics", "u_save"} -> "unprepare"
      [] s = "u_spec" -> "unprepared"
      [] s = "ok" -> "done"
      [] s = "err" -> "failed"
      [] OTHER -> "idle"

AbsReq == [w \in Workers |->
              [stage |-> AbsStage(pc[w]), claim |-> call[w].claim, devs |-> call[w].devs]]

Service == INSTANCE ClaimService WITH prepared <- ckpt, req <- AbsReq

ImplementsClaimService == Service!Spec
=============================================================================

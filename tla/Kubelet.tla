------------------------------ MODULE Kubelet ------------------------------
(***************************************************************************)
(* DeviceState composed with its callers.  The scheduler allocates         *)
(* disjoint sets of devices to claims; kubelet asks the driver to prepare  *)
(* an allocated claim, retries a call that failed or was lost in a crash,  *)
(* and releases the allocation only after Unprepare succeeded.  Kubelet    *)
(* and scheduler are not part of the repository: they are modelled from    *)
(* how the driver is called (internal/driver/driver.go:145-192).  The host  *)
(* may start again, which empties /var/run, where the CDI specs are.        *)
(***************************************************************************)
EXTENDS DeviceState

VARIABLES
    alloc,    \* the devices the scheduler allocated to each claim
    phase,    \* what kubelet is about with each claim
    granted,  \* the devices the last successful Prepare returned
    waiting,  \* the worker executing the call kubelet waits for, or None
    stale     \* claims whose mounts may be gone: prepared again before their
              \* Unprepare succeeded, or prepared before the host started again

kubelet == <<alloc, phase, granted, waiting, stale>>
kvars == <<vars, kubelet>>

Phases == {"idle", "trying", "ready", "releasing"}

KTypeOK ==
    /\ TypeOK
    /\ alloc \in [Claims -> SUBSET Devices]
    /\ phase \in [Claims -> Phases]
    /\ granted \in [Claims -> SUBSET Devices]
    /\ waiting \in [Claims -> Workers \cup {None}]
    /\ stale \subseteq Claims

KInit ==
    /\ Init
    /\ alloc = NoEntries /\ granted = NoEntries
    /\ phase = [c \in Claims |-> "idle"]
    /\ waiting = [c \in Claims |-> None]
    /\ stale = {}

Free == Devices \ UNION {alloc[c] : c \in Claims}

-----------------------------------------------------------------------------
\* A pod with claim c starts, or kubelet repeats the call.  A claim that is
\* ready stays ready: its containers run on what was granted.  A shared claim may
\* be prepared for another pod although its Unprepare has not succeeded.
AskPrepare(w, c) ==
    /\ waiting[c] = None
    /\ \E D \in DeviceSets :
          /\ \/ phase[c] = "idle" /\ D \subseteq Free
             \/ phase[c] # "idle" /\ D = alloc[c]
          /\ Call(w, "p_lock", c, D)
          /\ alloc' = [alloc EXCEPT ![c] = D]
    /\ phase' = [phase EXCEPT ![c] = IF @ = "ready" THEN @ ELSE "trying"]
    /\ waiting' = [waiting EXCEPT ![c] = w]
    /\ stale' = IF phase[c] = "releasing" THEN stale \cup {c} ELSE stale
    /\ UNCHANGED granted

\* The pod is gone, or its start was given up.
AskUnprepare(w, c) ==
    /\ waiting[c] = None
    /\ phase[c] \in {"trying", "ready", "releasing"}
    /\ Call(w, "u_lock", c, {})
    /\ phase' = [phase EXCEPT ![c] = "releasing"]
    /\ waiting' = [waiting EXCEPT ![c] = w]
    /\ UNCHANGED <<alloc, granted, stale>>

\* The answer of the driver: devices for Prepare, none for Unprepare.
Granted(c, D) ==
    /\ D # {}
    /\ phase' = [phase EXCEPT ![c] = "ready"]
    /\ granted' = [granted EXCEPT ![c] = D]
    /\ UNCHANGED <<alloc, stale>>

Released(c) ==
    /\ phase' = [phase EXCEPT ![c] = "idle"]
    /\ granted' = [granted EXCEPT ![c] = {}]
    /\ alloc' = [alloc EXCEPT ![c] = {}]
    /\ stale' = stale \ {c}

Answer(w) ==
    /\ Reply(w)
    /\ waiting' = [waiting EXCEPT ![Claim(w)] = None]
    /\ \/ pc[w] = "ok" /\ Granted(Claim(w), call[w].devs)
       \/ pc[w] = "ok" /\ call[w].devs = {} /\ Released(Claim(w))
       \/ pc[w] = "err" /\ UNCHANGED <<alloc, phase, granted, stale>>

\* The connection breaks with the process.
DriverCrash ==
    /\ Crash
    /\ waiting' = [c \in Claims |-> None]
    /\ UNCHANGED <<alloc, phase, granted, stale>>

\* The host starts again: /var/run/cdi is empty, checkpoint and folders are kept
\* (the host paths of kubeletplugin.yaml), and kubelet calls for its pods again.
HostReboot ==
    /\ driver = "down"
    /\ spec' = [c \in Claims |-> NoSpec]
    /\ phase' = [c \in Claims |-> IF phase[c] = "ready" THEN "trying" ELSE phase[c]]
    /\ stale' = stale \cup {c \in Claims : ckpt[c] # {}}
    /\ UNCHANGED <<ckptFile, ckpt, cfgDirs, metDirs, boot, locals, alloc, granted, waiting>>

Inside(w) == Prepare(w) \/ Unprepare(w) \/ IOFails(w)

KNext ==
    \/ DriverCrash \/ HostReboot
    \/ Boot /\ UNCHANGED kubelet
    \/ \E w \in Workers :
          \/ \E c \in Claims : AskPrepare(w, c) \/ AskUnprepare(w, c)
          \/ Inside(w) /\ UNCHANGED kubelet
          \/ Answer(w)

KSpec == KInit /\ [][KNext]_kvars

\* The daemon set restarts a dead driver; kubelet retries a pending release
\* whenever it is not waiting.
KFairness ==
    /\ WF_kvars(Boot /\ UNCHANGED kubelet)
    /\ \A w \in Workers : WF_kvars((Inside(w) /\ UNCHANGED kubelet) \/ Answer(w))
    /\ \A w \in Workers : SF_kvars(Begin(w) /\ UNCHANGED kubelet)
    /\ \A c \in Claims :
          SF_kvars(phase[c] = "releasing" /\ \E w \in Workers : AskUnprepare(w, c))

KFairSpec == KSpec /\ KFairness

-----------------------------------------------------------------------------
(* Properties.                                                             *)

\* The checkpoint and kubelet's view agree, through failures, crashes and
\* retries: a claim kubelet has released has no entry, an entry is for the
\* devices allocated now (never for an earlier allocation of the claim), and
\* what a ready claim was granted is on disk.
EntryMatchesPhase ==
    \A c \in Claims :
        /\ phase[c] = "idle" => ckpt[c] = {}
        /\ ckpt[c] \in {{}, alloc[c]}
        /\ phase[c] = "ready" => ckpt[c] = alloc[c] /\ granted[c] = alloc[c]

\* No device is prepared for two claims at once, although an allocation is
\* given away as soon as Unprepare has answered.
PreparedExclusively ==
    \A c, d \in Claims : c # d => ckpt[c] \cap ckpt[d] = {}

\* The folders that the CDI spec of a ready claim mounts exist, so that its
\* containers can start (README, "Investigate senlib_config inside pod").  A
\* stale claim is excepted: a failed Unprepare has removed its folders, or a
\* reboot its spec file, and Prepare answers from the checkpoint all the same.
GrantIsMounted ==
    \A c \in Claims \ stale :
        phase[c] = "ready" => spec[c].dir \in cfgDirs \cap metDirs

\* The comment in Unprepare (state.go:211-212): the CDI spec file that a crash of
\* Unprepare leaves behind, its folders already removed, is harmless.  All spec
\* files are in one directory and name a device alike whatever the claim
\* (cdi.go:144-151), and a container runtime resolves no CDI device that two files
\* of a directory define: the spec of a ready claim must not share a device with
\* the orphan of a claim whose release has been answered.
OrphanHarmless ==
    \A c, d \in Claims :
        phase[c] = "ready" /\ phase[d] = "idle" /\ spec[d].dir \notin cfgDirs =>
            spec[c].devs \cap spec[d].devs = {}

\* When the driver stops crashing, its file operations stop failing and no claim
\* being released is asked for again, every release gets through, wherever crashes
\* and errors left the earlier attempts.
Setback == \/ DriverCrash
           \/ \E w \in Workers : IOFails(w)
           \/ \E c \in Claims : phase[c] = "releasing" /\ phase'[c] = "trying"
ReleasesComplete ==
    (<>[][~ Setback]_kvars) =>
        \A c \in Claims : phase[c] = "releasing" ~> phase[c] # "releasing"
=============================================================================

--------------------------- MODULE KubeletProofs ---------------------------
(***************************************************************************)
(* Proofs about Kubelet: the driver and its callers agree, for any claims, *)
(* devices, folders and workers, any set of failing steps, any number of   *)
(* crashes of the driver and reboots of the host.                          *)
(***************************************************************************)
EXTENDS Kubelet, DeviceStateProofs

\* Kubelet's variables are well typed.
KubeletOK == /\ alloc \in [Claims -> SUBSET Devices]
             /\ phase \in [Claims -> Phases]
             /\ granted \in [Claims -> SUBSET Devices]
             /\ waiting \in [Claims -> Workers \cup {None}]
             /\ stale \subseteq Claims

\* Kubelet waits for exactly the calls that are in progress, one per claim.
WaitInv == /\ \A c \in Claims : waiting[c] # None =>
                 pc[waiting[c]] # "idle" /\ Claim(waiting[c]) = c
           /\ \A w \in Workers : pc[w] # "idle" => waiting[Claim(w)] = w

\* The call in progress is what kubelet is about with the claim, and a finished
\* one has done it.
PreparePhase == {"trying", "ready"}
PhaseInv == \A w \in Workers :
    /\ pc[w] \in {"p_lock"} \cup PrepareSteps =>
         phase[Claim(w)] \in PreparePhase /\ call[w].devs = alloc[Claim(w)]
    /\ pc[w] \in {"u_lock"} \cup UnprepareSteps =>
         phase[Claim(w)] = "releasing" /\ call[w].devs = {}
    /\ pc[w] = "ok" =>
         IF call[w].devs = {}
         THEN phase[Claim(w)] = "releasing" /\ ckpt[Claim(w)] = {}
         ELSE /\ phase[Claim(w)] \in PreparePhase
              /\ call[w].devs = alloc[Claim(w)] /\ ckpt[Claim(w)] = alloc[Claim(w)]

\* The scheduler gives no device to two claims.
AllocInv == \A c, d \in Claims : c # d => alloc[c] \cap alloc[d] = {}

KInv == Base /\ KubeletOK /\ WaitInv /\ PhaseInv /\ AllocInv /\ EntryMatchesPhase

-----------------------------------------------------------------------------
LEMMA InitKInv == KInit => KInv
<1> SUFFICES ASSUME KInit PROVE KInv
  OBVIOUS
<1>1. Base
  BY InitIInv DEF KInit, IInv, Base
<1>2. KubeletOK /\ AllocInv /\ EntryMatchesPhase
  BY DEF KInit, Init, KubeletOK, AllocInv, EntryMatchesPhase, NoEntries, Phases
<1>3. WaitInv /\ PhaseInv
  BY DEF KInit, Init, WaitInv, PhaseInv, PrepareSteps, UnprepareSteps
<1> QED BY <1>1, <1>2, <1>3 DEF KInv

\* What a step inside Prepare or Unprepare does, seen from its claim.
LEMMA InsideEffect ==
    ASSUME Base, NEW w \in Workers, Inside(w)
    PROVE  /\ pc[w] \notin {"idle"} \cup Finished /\ pc'[w] # "idle"
           /\ Claim(w) \in Claims /\ call'[w].claim = call[w].claim
           /\ \A v \in Workers \ {w} : pc'[v] = pc[v] /\ call'[v] = call[v]
           /\ \A c \in Claims \ {Claim(w)} : ckpt'[c] = ckpt[c]
           /\ pc'[w] \in Locked \cup Finished
           /\ pc[w] \in {"p_lock"} \cup PrepareSteps =>
                \/ pc'[w] \in PrepareSteps \cup {"err"} /\ call'[w] = call[w] /\ ckpt' = ckpt
                \/ pc'[w] = "err" /\ ckpt' = ckpt
                \/ /\ pc'[w] = "ok" /\ ckpt' = ckpt
                   /\ ckpt[Claim(w)] # {} /\ call'[w].devs = ckpt[Claim(w)]
                \/ /\ pc'[w] = "ok" /\ call'[w].devs = call[w].devs
                   /\ ckpt[Claim(w)] = {} /\ ckpt'[Claim(w)] = call[w].devs
           /\ pc[w] \in {"u_lock"} \cup UnprepareSteps =>
                /\ pc'[w] \in UnprepareSteps \cup Finished
                /\ call'[w].devs = call[w].devs
                /\ ckpt'[Claim(w)] \in {{}, ckpt[Claim(w)]}
                /\ pc'[w] = "ok" => ckpt'[Claim(w)] = {}
<1> USE DEF Base, TypeOK, Claim, Locked, PrepareSteps, UnprepareSteps, Finished, disk, boot
<1>0. call[w] \in Calls
  BY DEF CallInv, Inside, Prepare, Unprepare, IOFails, PrepareBegin, PrepareDir,
         PrepareMetrics, PrepareSpec, PrepareSave, UnprepareBegin,
         UnprepareConfig, UnprepareMetrics, UnprepareSave, UnprepareSpec, Checked
<1>1. CASE IOFails(w)
  BY <1>0, <1>1 DEF IOFails, Return, Checked, Calls
<1>2. CASE PrepareBegin(w)
  BY <1>0, <1>2 DEF PrepareBegin, Return, Enter, Calls
<1>3. CASE PrepareDir(w) \/ PrepareMetrics(w) \/ PrepareSpec(w)
  BY <1>0, <1>3 DEF PrepareDir, PrepareMetrics, PrepareSpec, Goto, Calls
<1>4. CASE PrepareSave(w)
  BY <1>0, <1>4 DEF PrepareSave, Return, Calls, LoadedInv, StepInv
<1>5. CASE UnprepareBegin(w)
  BY <1>0, <1>5 DEF UnprepareBegin, Return, Enter, Calls
<1>6. CASE UnprepareConfig(w) \/ UnprepareMetrics(w)
  BY <1>0, <1>6 DEF UnprepareConfig, UnprepareMetrics, Goto, Calls
<1>7. CASE UnprepareSave(w)
  BY <1>0, <1>7 DEF UnprepareSave, Goto, Calls, LoadedInv
<1>8. CASE UnprepareSpec(w)
  BY <1>0, <1>8 DEF UnprepareSpec, Return, Calls, StepInv
<1> QED BY <1>1, <1>2, <1>3, <1>4, <1>5, <1>6, <1>7, <1>8 DEF Inside, Prepare, Unprepare

\* Every step but a reboot is a step of the driver.
LEMMA KNextHasNext == ASSUME KNext PROVE Next \/ HostReboot
<1>1. ASSUME NEW w \in Workers, NEW c \in Claims, AskPrepare(w, c) \/ AskUnprepare(w, c)
      PROVE  Next
  <2>1. \E s \in {"p_lock", "u_lock"}, D \in SUBSET Devices : Call(w, s, c, D)
    BY <1>1 DEF AskPrepare, AskUnprepare, DeviceSets
  <2> QED BY <2>1 DEF Next, Request
<1> QED BY <1>1 DEF KNext, DriverCrash, Inside, Answer, Next, Handler

\* What holds of the driver's own state does so whoever calls it; a reboot takes
\* away spec files only, of which Base knows nothing while no handler runs.
LEMMA KNextBase == ASSUME KInv, KNext PROVE Base'
<1> USE DEF KInv
<1>1. CASE HostReboot
  <2>1. driver = "down" /\ UNCHANGED <<ckptFile, ckpt, cfgDirs, metDirs, boot, locals>>
    BY <1>1 DEF HostReboot
  <2>2. TypeOK'
    BY <1>1, <2>1 DEF HostReboot, Base, TypeOK, boot, locals
  <2>3. \A w \in Workers : pc[w] = "idle" /\ pc' = pc
    BY <2>1 DEF Base, LockInv, locals
  <2>4. LockInv' /\ LoadedInv' /\ CallInv' /\ FileInv'
    BY <2>1 DEF Base, LockInv, LoadedInv, CallInv, FileInv, boot, locals
  <2>5. StepInv'
    BY <2>3 DEF StepInv, PrepareSteps
  <2> QED BY <2>2, <2>4, <2>5 DEF Base
<1>2. CASE Next
  BY <1>2, NextBase
<1> QED BY <1>1, <1>2, KNextHasNext

\* Kubelet asks: a claim without a call in progress gets one.
LEMMA AskKeeps ==
    ASSUME KInv, NEW w \in Workers, NEW c \in Claims,
           AskPrepare(w, c) \/ AskUnprepare(w, c)
    PROVE  (KubeletOK /\ WaitInv /\ PhaseInv /\ AllocInv /\ EntryMatchesPhase)'
<1> USE NoneAssumption DEF KInv, Base
<1>1. /\ waiting[c] = None /\ pc[w] = "idle" /\ ckpt' = ckpt
      /\ waiting' = [waiting EXCEPT ![c] = w]
      /\ \A v \in Workers \ {w} : pc'[v] = pc[v] /\ call'[v] = call[v]
      /\ call'[w].claim = c
      /\ pc'[w] \in {"p_lock", "u_lock"}
  BY DEF AskPrepare, AskUnprepare, Call, disk, TypeOK
<1>2. \A v \in Workers \ {w} : pc[v] # "idle" => Claim(v) \in Claims \ {c}
  BY <1>1 DEF WaitInv, CallInv, Calls, Claim
<1>3. /\ \A d \in Claims \ {c} : alloc'[d] = alloc[d] /\ phase'[d] = phase[d]
      /\ granted' = granted
  BY DEF AskPrepare, AskUnprepare, KubeletOK
<1>4. KubeletOK'
  BY DEF KubeletOK, Phases, DeviceSets, AskPrepare, AskUnprepare
<1>5. WaitInv'
  BY <1>1, <1>2 DEF WaitInv, Claim, KubeletOK
<1>6. PhaseInv'
  <2>1. ASSUME NEW v \in Workers \ {w}, pc[v] # "idle"
        PROVE  alloc'[Claim(v)] = alloc[Claim(v)] /\ phase'[Claim(v)] = phase[Claim(v)]
    BY <1>2, <1>3, <2>1
  <2>2. pc'[w] = "p_lock" => phase'[c] \in PreparePhase /\ call'[w].devs = alloc'[c]
    BY <1>1 DEF AskPrepare, AskUnprepare, Call, TypeOK, KubeletOK, Phases, PreparePhase
  <2>3. pc'[w] = "u_lock" => phase'[c] = "releasing" /\ call'[w].devs = {}
    BY <1>1 DEF AskPrepare, AskUnprepare, Call, TypeOK, KubeletOK
  <2> QED BY <1>1, <2>1, <2>2, <2>3 DEF PhaseInv, Claim, PrepareSteps, UnprepareSteps
<1>7. AllocInv' /\ EntryMatchesPhase'
  <2>1. CASE phase[c] = "idle" /\ AskPrepare(w, c)
    <3>1. alloc'[c] \subseteq Free /\ ckpt[c] = {} /\ phase'[c] = "trying"
      BY <2>1 DEF AskPrepare, EntryMatchesPhase, KubeletOK
    <3> QED BY <1>1, <1>3, <3>1 DEF AllocInv, EntryMatchesPhase, Free
  <2>2. CASE ~ (phase[c] = "idle" /\ AskPrepare(w, c))
    <3>1. alloc' = alloc /\ phase'[c] # "idle" /\ (phase'[c] = "ready" => phase[c] = "ready")
      BY <2>2 DEF AskPrepare, AskUnprepare, KubeletOK
    <3> QED BY <1>1, <1>3, <3>1 DEF AllocInv, EntryMatchesPhase
  <2> QED BY <2>1, <2>2
<1> QED BY <1>4, <1>5, <1>6, <1>7

\* A handler works: only the entry of its claim changes, as its phase allows.
LEMMA InsideKeeps ==
    ASSUME KInv, NEW w \in Workers, Inside(w), UNCHANGED kubelet
    PROVE  (KubeletOK /\ WaitInv /\ PhaseInv /\ AllocInv /\ EntryMatchesPhase)'
<1> USE DEF KInv
<1> DEFINE c == Claim(w)
<1>1. KubeletOK' /\ AllocInv'
  BY DEF kubelet, KubeletOK, AllocInv
<1>2. /\ pc[w] \notin {"idle"} \cup Finished /\ pc'[w] # "idle"
      /\ c \in Claims /\ call'[w].claim = call[w].claim
      /\ \A v \in Workers \ {w} : pc'[v] = pc[v] /\ call'[v] = call[v]
      /\ \A d \in Claims \ {c} : ckpt'[d] = ckpt[d]
      /\ pc'[w] \in Locked \cup Finished
  BY InsideEffect
<1>3. Base
  OBVIOUS
<1>4. WaitInv'
  <2>1. \A v \in Workers : (pc'[v] = "idle" <=> pc[v] = "idle") /\ call'[v].claim = call[v].claim
    BY <1>2
  <2>2. waiting \in [Claims -> Workers \cup {None}] /\ waiting' = waiting
    BY DEF KubeletOK, kubelet
  <2> QED BY <2>1, <2>2 DEF WaitInv, Claim
<1>5. \A v \in Workers \ {w} : pc[v] # "idle" => Claim(v) \in Claims \ {c}
  BY <1>2, <1>3 DEF WaitInv, Base, CallInv, Calls, Claim
<1>6. pc[w] \in {"p_lock"} \cup PrepareSteps \/ pc[w] \in {"u_lock"} \cup UnprepareSteps
  BY <1>2, <1>3 DEF Base, TypeOK, Steps, Locked
<1>7. CASE pc[w] \in {"p_lock"} \cup PrepareSteps
  <2>1. phase[c] \in PreparePhase /\ call[w].devs = alloc[c] /\ call[w].devs # {}
    BY <1>3, <1>7 DEF PhaseInv, Base, CallInv
  <2>2. ckpt'[c] \in {ckpt[c], alloc[c]} /\ (ckpt[c] # {} => ckpt'[c] = ckpt[c])
    BY <1>3, <1>7, <2>1, InsideEffect
  <2>3. pc'[w] \in PrepareSteps \cup {"ok", "err"}
    BY <1>3, <1>7, InsideEffect
  <2>4. pc'[w] \in PrepareSteps => call'[w] = call[w]
    BY <1>3, <1>7, InsideEffect DEF PrepareSteps
  <2>5. pc'[w] = "ok" => call'[w].devs = ckpt'[c] /\ ckpt'[c] # {}
    BY <1>3, <1>7, <2>1, InsideEffect DEF PrepareSteps
  <2>6. EntryMatchesPhase'
    BY <1>2, <2>1, <2>2 DEF EntryMatchesPhase, kubelet, PreparePhase
  <2>7. PhaseInv'
    BY <1>2, <1>5, <2>1, <2>3, <2>4, <2>5, <2>6
       DEF PhaseInv, EntryMatchesPhase, kubelet, Claim, PrepareSteps, UnprepareSteps
  <2> QED BY <1>1, <1>4, <2>6, <2>7
<1>8. CASE pc[w] \in {"u_lock"} \cup UnprepareSteps
  <2>1. phase[c] = "releasing" /\ call[w].devs = {}
    BY <1>3, <1>8 DEF PhaseInv
  <2>2. /\ pc'[w] \in UnprepareSteps \cup Finished /\ call'[w].devs = {}
        /\ ckpt'[c] \in {{}, ckpt[c]} /\ (pc'[w] = "ok" => ckpt'[c] = {})
    BY <1>3, <1>8, <2>1, InsideEffect
  <2>3. EntryMatchesPhase'
    BY <1>2, <2>1, <2>2 DEF EntryMatchesPhase, kubelet
  <2>4. PhaseInv'
    BY <1>2, <1>5, <2>1, <2>2
       DEF PhaseInv, kubelet, Claim, PrepareSteps, UnprepareSteps, Finished
  <2> QED BY <1>1, <1>4, <2>3, <2>4
<1> QED BY <1>6, <1>7, <1>8

\* The driver answers: the claim is ready, or released, or kubelet asks again.
LEMMA AnswerKeeps ==
    ASSUME KInv, NEW w \in Workers, Answer(w)
    PROVE  (KubeletOK /\ WaitInv /\ PhaseInv /\ AllocInv /\ EntryMatchesPhase)'
<1> USE NoneAssumption DEF KInv
<1> DEFINE c == Claim(w)
<1>1. /\ pc[w] \in Finished /\ pc' = [pc EXCEPT ![w] = "idle"]
      /\ call' = [call EXCEPT ![w] = NoCall]
      /\ waiting' = [waiting EXCEPT ![c] = None] /\ ckpt' = ckpt
  BY DEF Answer, Reply, disk
<1>2. c \in Claims /\ call[w].devs \in SUBSET Devices
  BY <1>1 DEF Base, CallInv, Calls, Claim, Finished
<1>3. \A v \in Workers \ {w} : pc[v] # "idle" => Claim(v) \in Claims \ {c}
  BY <1>1, <1>2 DEF Finished, WaitInv, Base, CallInv, Calls, Claim
<1>4. /\ \A d \in Claims \ {c} : /\ alloc'[d] = alloc[d] /\ phase'[d] = phase[d]
                                  /\ granted'[d] = granted[d]
      /\ alloc'[c] \in {{}, alloc[c]}
  BY <1>2 DEF Answer, Granted, Released, KubeletOK
<1>5. KubeletOK'
  BY <1>1, <1>2 DEF Answer, Granted, Released, KubeletOK, Phases
<1>6. WaitInv'
  BY <1>1, <1>2, <1>3 DEF WaitInv, KubeletOK, Claim, Base, TypeOK, NoCall
<1>7. AllocInv'
  BY <1>4 DEF AllocInv
<1>8. PhaseInv'
  <2>1. \A v \in Workers : pc'[v] # "idle" => v # w /\ pc'[v] = pc[v] /\ call'[v] = call[v]
    BY <1>1 DEF Base, TypeOK
  <2> QED BY <1>1, <1>3, <1>4, <2>1 DEF PhaseInv, Claim, PrepareSteps, UnprepareSteps
<1>9. EntryMatchesPhase'
  <2>1. CASE pc[w] = "ok" /\ Granted(c, call[w].devs)
    <3>1. call[w].devs = alloc[c] /\ ckpt[c] = alloc[c]
      BY <2>1 DEF PhaseInv, Granted
    <3> QED BY <1>1, <1>4, <2>1, <3>1 DEF EntryMatchesPhase, Granted, KubeletOK
  <2>2. CASE pc[w] = "ok" /\ call[w].devs = {} /\ Released(c)
    <3>1. ckpt[c] = {}
      BY <2>2 DEF PhaseInv
    <3> QED BY <1>1, <1>4, <2>2, <3>1 DEF EntryMatchesPhase, Released, KubeletOK
  <2>3. CASE UNCHANGED <<alloc, phase, granted>>
    BY <1>1, <2>3 DEF EntryMatchesPhase
  <2> QED BY <2>1, <2>2, <2>3 DEF Answer
<1> QED BY <1>5, <1>6, <1>7, <1>8, <1>9

\* The process dies or starts, or the host starts again: no call is in progress,
\* and no entry changes.
LEMMA ProcessKeeps ==
    ASSUME KInv, DriverCrash \/ HostReboot \/ (Boot /\ UNCHANGED kubelet)
    PROVE  (KubeletOK /\ WaitInv /\ PhaseInv /\ AllocInv /\ EntryMatchesPhase)'
<1> USE DEF KInv
<1>1. \A w \in Workers : pc'[w] = "idle"
  BY DEF DriverCrash, Crash, HostReboot, Boot, BootScan, CleanConfig, CleanMetrics,
         CleanDone, BootCheckpoint, locals, Base, LockInv
<1>2. ckpt' = ckpt
  BY DEF DriverCrash, Crash, HostReboot, Boot, BootScan, CleanConfig, CleanMetrics,
         CleanDone, BootCheckpoint, disk, Base, FileInv
<1>3. /\ alloc' = alloc /\ granted' = granted
      /\ \A c \in Claims : phase'[c] \in {phase[c], "trying"}
      /\ \A c \in Claims : phase[c] # "ready" => phase'[c] = phase[c]
  BY DEF DriverCrash, HostReboot, kubelet, KubeletOK
<1>4. KubeletOK'
  BY DEF DriverCrash, HostReboot, KubeletOK, kubelet, Phases
<1>5. WaitInv'
  <2>1. \A c \in Claims : waiting'[c] = None
    BY DEF DriverCrash, HostReboot, Boot, BootScan, CleanConfig, CleanMetrics, CleanDone,
           BootCheckpoint, kubelet, Base, LockInv, WaitInv, KubeletOK
  <2> QED BY <1>1, <2>1 DEF WaitInv
<1>6. PhaseInv' /\ AllocInv' /\ EntryMatchesPhase'
  BY <1>1, <1>2, <1>3 DEF PhaseInv, AllocInv, EntryMatchesPhase, PrepareSteps, UnprepareSteps
<1> QED BY <1>4, <1>5, <1>6

-----------------------------------------------------------------------------
\* The invariant holds in every state of the driver with its callers.
THEOREM KubeletInvariance == KSpec => []KInv
<1>1. ASSUME KInv, KNext PROVE KInv'
  <2>1. Base'
    BY <1>1, KNextBase
  <2> QED BY <1>1, <2>1, AskKeeps, InsideKeeps, AnswerKeeps, ProcessKeeps DEF KNext, KInv
<1>2. ASSUME KInv, UNCHANGED kvars PROVE KInv'
  BY <1>2 DEF KInv, Base, TypeOK, LockInv, LoadedInv, CallInv, StepInv, FileInv, Claim,
              KubeletOK, WaitInv, PhaseInv, AllocInv, EntryMatchesPhase, kvars, vars, kubelet
<1> QED BY <1>1, <1>2, InitKInv, PTL DEF KSpec

\* Kubelet, scheduler and driver stay well typed.
THEOREM KubeletTypeCorrect == KSpec => []KTypeOK
<1>1. KInv => KTypeOK
  BY DEF KInv, Base, KubeletOK, KTypeOK
<1> QED BY <1>1, KubeletInvariance, PTL

\* Kubelet and the checkpoint agree however calls, failures, crashes of the
\* driver and reboots of the host interleave.
THEOREM CheckpointMatchesKubelet == KSpec => []EntryMatchesPhase
<1>1. KInv => EntryMatchesPhase
  BY DEF KInv
<1> QED BY <1>1, KubeletInvariance, PTL

\* No device is prepared for two claims: an entry is within the allocation of its
\* claim, and allocations are disjoint.
THEOREM DevicesPreparedExclusively == KSpec => []PreparedExclusively
<1>1. KInv => PreparedExclusively
  BY DEF KInv, AllocInv, EntryMatchesPhase, PreparedExclusively
<1> QED BY <1>1, KubeletInvariance, PTL

-----------------------------------------------------------------------------
(* The mounts of a ready claim, when the spec files can be read at start-up. *)

\* A prepared claim that kubelet is not releasing has the folders of its spec.
MountedInv == \A c \in Claims \ stale :
    ckpt[c] # {} /\ phase[c] \in PreparePhase => spec[c].dir \in cfgDirs \cap metDirs

\* Prepare has made the folders its next step relies on.
MadeInv == \A w \in Workers :
    /\ pc[w] \in {"p_metrics", "p_spec"} => dir[w] \in cfgDirs
    /\ pc[w] = "p_spec" => dir[w] \in metDirs
    /\ pc[w] = "p_save" => spec[Claim(w)].dir \in cfgDirs \cap metDirs

\* The metrics folder that the cleaning removes next is mounted by no spec.
CleanedInv == cleaned # None => driver = "clean" /\ \A c \in Claims : spec[c].dir # cleaned

\* What kubelet prepares or releases has devices.
AllocatedInv == \A c \in Claims : phase[c] # "idle" => alloc[c] # {}

MountInv == MountedInv /\ MadeInv /\ CleanedInv /\ AllocatedInv

LEMMA InitMountInv == KInit => MountInv
BY DEF KInit, Init, MountInv, MountedInv, MadeInv, CleanedInv, AllocatedInv,
       NoEntries, PreparePhase

\* The folders of FolderInv are not touched by a reboot, and no spec file is left.
LEMMA KNextFolderInv ==
    ASSUME "scan" \notin Faults, KInv, FolderInv, KNext PROVE FolderInv'
<1>1. CASE HostReboot
  <2>1. /\ \A w \in Workers : pc'[w] = "idle"
        /\ \A c \in Claims : spec'[c].dir = None
        /\ driver' # "clean"
    BY <1>1 DEF HostReboot, KInv, Base, LockInv, locals, boot, NoSpec
  <2> QED BY <2>1 DEF FolderInv, OwnFolderInv, FreshFolderInv, DistinctInv, CleanInv
<1> QED BY <1>1, NextFolderInv, KNextHasNext DEF KInv

\* Kubelet's own steps: a claim asked for while it is being released is stale.
LEMMA CallMountInv ==
    ASSUME KInv, MountInv, NEW w \in Workers,
           Answer(w) \/ \E c \in Claims : AskPrepare(w, c) \/ AskUnprepare(w, c)
    PROVE  MountInv'
<1> USE DEF KInv, MountInv
<1>1. /\ UNCHANGED <<disk, boot, dir>>
      /\ pc'[w] \in {"idle", "p_lock", "u_lock"}
      /\ \A v \in Workers \ {w} : pc'[v] = pc[v] /\ call'[v] = call[v]
  BY DEF Answer, Reply, AskPrepare, AskUnprepare, Call, Base, TypeOK
<1>2. MadeInv' /\ CleanedInv'
  BY <1>1 DEF MadeInv, CleanedInv, Claim, disk, boot
<1>3. MountedInv' /\ AllocatedInv'
  <2>1. CASE Answer(w)
    <3>1. Claim(w) \in Claims
      BY <2>1 DEF Answer, Reply, Base, CallInv, Calls, Claim, Finished
    <3>2. pc[w] = "ok" /\ call[w].devs # {} => phase[Claim(w)] \in PreparePhase
      BY DEF PhaseInv
    <3>3. pc[w] = "ok" /\ call[w].devs = {} => ckpt[Claim(w)] = {}
      BY DEF PhaseInv
    <3> QED BY <1>1, <2>1, <3>1, <3>2, <3>3
            DEF Answer, Granted, Released, MountedInv, AllocatedInv, KubeletOK, disk, PreparePhase
  <2>2. ASSUME NEW c \in Claims, AskPrepare(w, c) PROVE MountedInv' /\ AllocatedInv'
    <3>1. phase[c] = "idle" => ckpt[c] = {}
      BY DEF EntryMatchesPhase
    <3>2. phase[c] \in PreparePhase \cup {"idle", "releasing"}
      BY DEF KubeletOK, Phases, PreparePhase
    <3> QED BY <1>1, <2>2, <3>1, <3>2
            DEF AskPrepare, MountedInv, AllocatedInv, KubeletOK, DeviceSets, disk, PreparePhase
  <2>3. ASSUME NEW c \in Claims, AskUnprepare(w, c) PROVE MountedInv' /\ AllocatedInv'
    BY <1>1, <2>3 DEF AskUnprepare, MountedInv, AllocatedInv, KubeletOK, disk, PreparePhase
  <2> QED BY <2>1, <2>2, <2>3
<1> QED BY <1>2, <1>3

\* A handler: folders are only added, or removed for the claim being released.
LEMMA InsideMountInv ==
    ASSUME KInv, FolderInv, MountInv, NEW w \in Workers, Inside(w), UNCHANGED kubelet
    PROVE  MountInv'
<1> USE NoneAssumption DEF KInv, Base, TypeOK, Locked, PrepareSteps, UnprepareSteps, Finished, kubelet
<1>1. AllocatedInv' /\ CleanedInv'
  <2>1. driver = "serving" /\ UNCHANGED boot
    BY DEF Inside, Prepare, Unprepare, IOFails, PrepareBegin, PrepareDir, PrepareMetrics,
           PrepareSpec, PrepareSave, UnprepareBegin, UnprepareConfig, UnprepareMetrics,
           UnprepareSave, UnprepareSpec, Checked, LockInv, boot
  <2> QED BY <2>1 DEF MountInv, AllocatedInv, CleanedInv, boot
<1>2. Claim(w) \in Claims /\ call'[w].claim = call[w].claim
  BY InsideEffect
<1>3. \A v \in Workers \ {w} : pc'[v] = pc[v] /\ call'[v] = call[v]
  BY InsideEffect
<1>4. \A v \in Workers \ {w} : dir'[v] = dir[v]
  BY DEF Inside, Prepare, Unprepare, IOFails, PrepareBegin, PrepareDir, PrepareMetrics,
         PrepareSpec, PrepareSave, UnprepareBegin, UnprepareConfig, UnprepareMetrics,
         UnprepareSave, UnprepareSpec, Return, Enter, Goto
<1>5. pc[w] \in Locked => \A v \in Workers \ {w} : pc[v] \notin Locked
  BY DEF LockInv
<1> SUFFICES MountedInv' /\ MadeInv'
  BY <1>1 DEF MountInv
<1>6. CASE IOFails(w) \/ PrepareBegin(w) \/ UnprepareBegin(w)
  <2>1. UNCHANGED disk /\ pc'[w] \notin {"p_metrics", "p_spec", "p_save"}
    BY <1>6 DEF IOFails, PrepareBegin, UnprepareBegin, Return, Enter
  <2> QED BY <1>3, <1>4, <2>1 DEF MountInv, MountedInv, MadeInv, Claim, disk
<1>7. CASE PrepareDir(w) \/ PrepareMetrics(w)
  <2>1. cfgDirs \subseteq cfgDirs' /\ metDirs \subseteq metDirs' /\ UNCHANGED <<ckpt, spec>>
    BY <1>7 DEF PrepareDir, PrepareMetrics
  <2>2. MountedInv'
    BY <2>1 DEF MountInv, MountedInv
  <2>3. dir'[w] \in cfgDirs' /\ (pc'[w] = "p_spec" => dir'[w] \in metDirs') /\ pc'[w] # "p_save"
    BY <1>7 DEF PrepareDir, PrepareMetrics, Goto, MountInv, MadeInv
  <2>4. MadeInv'
    BY <1>3, <1>4, <2>1, <2>3 DEF MountInv, MadeInv, Claim
  <2> QED BY <2>2, <2>4
<1>8. CASE PrepareSpec(w)
  <2>1. pc[w] = "p_spec" /\ ckpt[Claim(w)] = {} /\ dir[w] \in cfgDirs \cap metDirs
    BY <1>8 DEF PrepareSpec, StepInv, MountInv, MadeInv
  <2>2. MountedInv'
    BY <1>8, <2>1 DEF PrepareSpec, MountInv, MountedInv
  <2>3. pc'[w] = "p_save" /\ spec'[Claim(w)].dir = dir[w] /\ UNCHANGED <<cfgDirs, metDirs>>
    BY <1>2, <1>8 DEF PrepareSpec, Goto
  <2>4. MadeInv'
    BY <1>2, <1>3, <1>5, <2>1, <2>3 DEF MadeInv, Claim
  <2> QED BY <2>2, <2>4
<1>9. CASE PrepareSave(w)
  <2>1. pc[w] = "p_save" /\ spec[Claim(w)].dir \in cfgDirs \cap metDirs
    BY <1>9 DEF PrepareSave, MountInv, MadeInv
  <2>2. pc'[w] = "ok" /\ UNCHANGED <<spec, cfgDirs, metDirs>>
    BY <1>9 DEF PrepareSave, Return
  <2>3. \A c \in Claims \ {Claim(w)} : ckpt'[c] = ckpt[c]
    BY InsideEffect
  <2>4. MountedInv'
    BY <2>1, <2>2, <2>3 DEF MountInv, MountedInv
  <2>5. MadeInv'
    BY <1>3, <1>5, <2>1, <2>2 DEF MadeInv
  <2> QED BY <2>4, <2>5
<1>10. CASE UnprepareConfig(w) \/ UnprepareMetrics(w)
  <2>1. phase[Claim(w)] = "releasing" /\ dir[w] = spec[Claim(w)].dir /\ pc[w] \in Locked
    BY <1>10 DEF UnprepareConfig, UnprepareMetrics, PhaseInv, FolderInv, OwnFolderInv
  <2>2. /\ UNCHANGED <<ckpt, spec>> /\ pc'[w] \in {"u_metrics", "u_save"}
        /\ cfgDirs \ {dir[w]} \subseteq cfgDirs' /\ metDirs \ {dir[w]} \subseteq metDirs'
    BY <1>10 DEF UnprepareConfig, UnprepareMetrics, Goto
  <2>3. \A c \in Claims \ {Claim(w)} : spec[c].dir \in cfgDirs => spec[c].dir # dir[w]
    BY <1>2, <2>1 DEF FolderInv, DistinctInv
  <2>4. MountedInv'
    BY <2>1, <2>2, <2>3 DEF MountInv, MountedInv, PreparePhase
  <2>5. MadeInv'
    BY <1>3, <1>5, <2>1, <2>2 DEF MadeInv
  <2> QED BY <2>4, <2>5
<1>11. CASE UnprepareSave(w) \/ UnprepareSpec(w)
  <2>1. pc[w] \in Locked /\ pc'[w] \in {"u_spec", "ok"} /\ UNCHANGED <<cfgDirs, metDirs>>
    BY <1>11 DEF UnprepareSave, UnprepareSpec, Goto, Return
  <2>2. /\ \A c \in Claims \ {Claim(w)} : ckpt'[c] = ckpt[c] /\ spec'[c] = spec[c]
        /\ ckpt'[Claim(w)] = {}
    <3>1. CASE UnprepareSave(w)
      BY <1>2, <3>1, InsideEffect DEF UnprepareSave, LoadedInv
    <3>2. CASE UnprepareSpec(w)
      BY <1>2, <3>2 DEF UnprepareSpec, StepInv
    <3> QED BY <1>11, <3>1, <3>2
  <2>3. MountedInv'
    BY <2>1, <2>2 DEF MountInv, MountedInv
  <2>4. MadeInv'
    BY <1>3, <1>5, <2>1 DEF MadeInv
  <2> QED BY <2>3, <2>4
<1> QED BY <1>6, <1>7, <1>8, <1>9, <1>10, <1>11 DEF Inside, Prepare, Unprepare

\* Start-up removes what no spec mounts; a reboot makes every prepared claim stale.
LEMMA ProcessMountInv ==
    ASSUME KInv, FolderInv, MountInv, DriverCrash \/ HostReboot \/ (Boot /\ UNCHANGED kubelet)
    PROVE  MountInv'
<1> USE DEF KInv, MountInv
<1>1. \A w \in Workers : pc'[w] = "idle"
  BY DEF DriverCrash, Crash, HostReboot, Boot, BootScan, CleanConfig, CleanMetrics,
         CleanDone, BootCheckpoint, locals, Base, LockInv
<1>2. MadeInv'
  BY <1>1 DEF MadeInv
<1>3. AllocatedInv'
  BY DEF DriverCrash, HostReboot, kubelet, AllocatedInv, KubeletOK
<1>4. CleanedInv'
  BY NoneAssumption
     DEF DriverCrash, Crash, HostReboot, Boot, BootScan, CleanConfig, CleanMetrics,
         CleanDone, BootCheckpoint, boot, CleanedInv, FolderInv, CleanInv, Base, TypeOK, disk
<1>5. MountedInv'
  <2>1. CASE HostReboot
    BY <2>1 DEF HostReboot, MountedInv
  <2>2. CASE DriverCrash
    BY <2>2 DEF DriverCrash, Crash, disk, MountedInv
  <2>3. CASE Boot /\ UNCHANGED kubelet
    <3>1. UNCHANGED <<ckpt, spec, stale, phase>>
      BY <2>3 DEF Boot, BootScan, CleanConfig, CleanMetrics, CleanDone, BootCheckpoint,
                  disk, kubelet, Base, FileInv
    <3>2. \A c \in Claims : spec[c].dir \in cfgDirs \cap metDirs => spec[c].dir \in cfgDirs' \cap metDirs'
      BY <2>3 DEF Boot, BootScan, CleanConfig, CleanMetrics, CleanDone, BootCheckpoint,
                  disk, FolderInv, CleanInv, CleanedInv
    <3> QED BY <3>1, <3>2 DEF MountedInv
  <2> QED BY <2>1, <2>2, <2>3
<1> QED BY <1>2, <1>3, <1>4, <1>5

\* The containers of a ready claim find their folders, whatever fails, crashes or
\* restarts, unless a spec file cannot be read at start-up or the claim is stale.
THEOREM GrantsAreMounted ==
    ASSUME "scan" \notin Faults PROVE KSpec => []GrantIsMounted
<1>1. KInv /\ FolderInv /\ MountInv /\ [KNext]_kvars => FolderInv' /\ MountInv'
  <2>1. FolderInv /\ MountInv /\ UNCHANGED kvars => FolderInv' /\ MountInv'
    BY DEF FolderInv, OwnFolderInv, FreshFolderInv, DistinctInv, CleanInv, Claim, kvars, vars,
           kubelet, MountInv, MountedInv, MadeInv, CleanedInv, AllocatedInv
  <2>2. ASSUME KInv, FolderInv, MountInv, KNext PROVE FolderInv' /\ MountInv'
    BY <2>2, KNextFolderInv, CallMountInv, InsideMountInv, ProcessMountInv DEF KNext
  <2> QED BY <2>1, <2>2
<1>2. KInv /\ MountInv => GrantIsMounted
  BY DEF KInv, EntryMatchesPhase, MountInv, MountedInv, AllocatedInv, PreparePhase, GrantIsMounted
<1>3. KInit => FolderInv /\ MountInv
  BY InitFolderInv, InitMountInv DEF KInit
<1> QED BY <1>1, <1>2, <1>3, KubeletInvariance, PTL DEF KSpec

\* Called by kubelet, too, the driver takes no prepared claim's folder away except
\* in its Unprepare, host reboots included.
THEOREM FoldersSafeFromCallers ==
    ASSUME "scan" \notin Faults PROVE KSpec => FolderRemovedOnlyByUnprepare
<1>1. KInv /\ FolderInv /\ [KNext]_kvars => FolderInv'
  <2>1. FolderInv /\ UNCHANGED kvars => FolderInv'
    BY DEF FolderInv, OwnFolderInv, FreshFolderInv, DistinctInv, CleanInv, Claim, kvars, vars
  <2> QED BY <2>1, KNextFolderInv
<1>2. KInv /\ FolderInv /\ [KNext]_kvars => [FolderKept]_vars
  <2>1. HostReboot => FolderKept
    BY DEF HostReboot, FolderKept
  <2>2. UNCHANGED kvars => UNCHANGED vars
    BY DEF kvars, vars
  <2> QED BY <2>1, <2>2, NextFolderKept, KNextHasNext DEF KInv
<1>3. KInit => FolderInv
  BY InitFolderInv DEF KInit
<1> QED BY <1>1, <1>2, <1>3, KubeletInvariance, PTL DEF KSpec, FolderRemovedOnlyByUnprepare
=============================================================================

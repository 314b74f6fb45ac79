------------------------- MODULE DeviceStateProofs -------------------------
(***************************************************************************)
(* Proofs about DeviceState for any sets of claims, devices, folders and   *)
(* workers, and any set of failing steps.                                  *)
(***************************************************************************)
EXTENDS DeviceState, TLAPS

\* The mutex is held by exactly the worker inside Prepare or Unprepare, and no
\* worker is anywhere unless the driver serves.
LockInv == /\ \A w \in Workers : pc[w] \in Locked <=> mu = w
           /\ driver # "serving" => \A w \in Workers : pc[w] = "idle"

\* Under the mutex the checkpoint read is the one on disk, until it is replaced.
LoadedInv == \A w \in Workers : pc[w] \in Locked \ {"u_spec"} => loaded[w] = ckpt

\* The call of a worker names a claim, and the devices to prepare.
CallInv == \A w \in Workers :
    /\ pc[w] # "idle" => call[w] \in Calls
    /\ pc[w] \in {"p_lock"} \cup PrepareSteps => call[w].devs # {}

\* How far the claim's files have got at each step.
StepInv == \A w \in Workers :
    /\ pc[w] \in PrepareSteps \cup {"u_spec"} => ckpt[Claim(w)] = {}
    /\ pc[w] \in {"p_metrics", "p_spec", "p_save"} => dir[w] \in Uuids
    /\ pc[w] = "p_save" => spec[Claim(w)].devs = call[w].devs

\* Without a checkpoint file there are no entries.
FileInv == ~ ckptFile => ckpt = NoEntries

IInv == /\ TypeOK
        /\ LockInv
        /\ LoadedInv
        /\ CallInv
        /\ StepInv
        /\ FileInv
        /\ CheckpointHasSpec

-----------------------------------------------------------------------------
\* What holds even when the host starts again and loses the spec files.
Base == TypeOK /\ LockInv /\ LoadedInv /\ CallInv /\ StepInv /\ FileInv

\* The part of TypeOK about the workers, and what leaving and entering the
\* critical section make of it.
LocalsOK == /\ mu \in Workers \cup {None}
            /\ pc \in [Workers -> Steps]
            /\ call \in [Workers -> Calls \cup {NoCall}]
            /\ loaded \in [Workers -> [Claims -> SUBSET Devices]]
            /\ dir \in [Workers -> Uuids \cup {None}]

\* A handler that returns (with the deferred Unlock) leaves well-typed locals.
LEMMA ReturnLocals ==
    ASSUME TypeOK, NEW w \in Workers, call[w] \in Calls,
           NEW r \in Finished, NEW D \in SUBSET Devices, Return(w, r, D)
    PROVE  LocalsOK'
<1>1. call' \in [Workers -> Calls \cup {NoCall}]
  <2>1. [call[w] EXCEPT !.devs = D] \in Calls
    BY DEF Calls
  <2>2. call' = [call EXCEPT ![w] = [call[w] EXCEPT !.devs = D]]
    BY DEF Return
  <2> QED BY <2>1, <2>2 DEF TypeOK
<1> QED BY <1>1 DEF TypeOK, LocalsOK, Return, Steps, NoEntries

\* A handler that locks the mutex and reads the checkpoint does so too.
LEMMA EnterLocals ==
    ASSUME TypeOK, NEW w \in Workers, NEW s \in Locked,
           NEW u \in Uuids \cup {None}, Enter(w, s, u)
    PROVE  LocalsOK'
BY DEF TypeOK, LocalsOK, Enter, Steps

-----------------------------------------------------------------------------
\* The empty node of the first start satisfies the invariant.
LEMMA InitIInv == Init => IInv
<1> SUFFICES ASSUME Init PROVE IInv
  OBVIOUS
<1> USE NoneAssumption DEF Init, Steps, Locked, PrepareSteps, UnprepareSteps,
        NoEntries, NoSpec, NoCall
<1>1. TypeOK
  BY DEF TypeOK
<1>2. LockInv /\ LoadedInv /\ CallInv /\ StepInv
  BY DEF LockInv, LoadedInv, CallInv, StepInv
<1>3. FileInv /\ CheckpointHasSpec
  BY DEF FileInv, CheckpointHasSpec
<1> QED BY <1>1, <1>2, <1>3 DEF IInv

\* Every step of a handler, of the start-up, and a crash preserve it.
LEMMA NextBase == ASSUME Base, Next PROVE Base'
<1> USE NoneAssumption DEF Base, TypeOK, Steps, Locked, PrepareSteps,
        UnprepareSteps, Finished, Claim, disk, boot, locals
<1>1. ASSUME BootScan PROVE Base'
  <2>1. TypeOK'
    BY <1>1 DEF BootScan, Specs, DeviceSets, NoSpec, NoEntries, NoCall, Calls
  <2>2. LockInv'
    BY <1>1 DEF BootScan, LockInv
  <2>3. LoadedInv' /\ CallInv' /\ StepInv' /\ FileInv'
    BY <1>1 DEF BootScan, LoadedInv, CallInv, StepInv, FileInv, LockInv
  <2> QED BY <2>1, <2>2, <2>3
<1>2. ASSUME CleanConfig PROVE Base'
  <2>1. TypeOK'
    BY <1>2 DEF CleanConfig, Specs, DeviceSets, NoSpec, NoEntries, NoCall,
           Calls
  <2>2. LockInv' /\ LoadedInv' /\ CallInv' /\ StepInv' /\ FileInv'
    BY <1>2 DEF CleanConfig, LockInv, LoadedInv, CallInv, StepInv, FileInv
  <2> QED BY <2>1, <2>2
<1>3. ASSUME CleanMetrics PROVE Base'
  <2>1. TypeOK'
    BY <1>3 DEF CleanMetrics, Specs, DeviceSets, NoSpec, NoEntries, NoCall,
           Calls
  <2>2. LockInv' /\ LoadedInv' /\ CallInv' /\ StepInv' /\ FileInv'
    BY <1>3 DEF CleanMetrics, LockInv, LoadedInv, CallInv, StepInv, FileInv
  <2> QED BY <2>1, <2>2
<1>4. ASSUME CleanDone PROVE Base'
  <2>1. LockInv'
    BY <1>4 DEF CleanDone, LockInv
  <2>2. TypeOK' /\ LoadedInv' /\ CallInv' /\ StepInv' /\ FileInv'
    BY <1>4 DEF CleanDone, TypeOK, LoadedInv, CallInv, StepInv, FileInv, LockInv
  <2> QED BY <2>1, <2>2
<1>5. ASSUME BootCheckpoint PROVE Base'
  <2>1. TypeOK'
    BY <1>5 DEF BootCheckpoint, Specs, DeviceSets, NoSpec, NoEntries, NoCall,
           Calls
  <2>2. LockInv'
    BY <1>5 DEF BootCheckpoint, LockInv
  <2>3. LoadedInv'
    BY <1>5 DEF BootCheckpoint, LoadedInv, LockInv
  <2>4. StepInv'
    BY <1>5 DEF BootCheckpoint, StepInv, LockInv, LoadedInv, CallInv, Calls,
           NoSpec, NoEntries
  <2>5. FileInv'
    BY <1>5 DEF BootCheckpoint, FileInv, NoEntries
  <2>6. CallInv'
    BY <1>5 DEF BootCheckpoint, CallInv, LockInv
  <2> QED BY <2>1, <2>2, <2>3, <2>4, <2>5, <2>6
<1>6. ASSUME Crash PROVE Base'
  <2>1. TypeOK'
    BY <1>6 DEF Crash, Specs, DeviceSets, NoSpec, NoEntries, NoCall, Calls
  <2>2. LockInv'
    BY <1>6 DEF Crash, LockInv
  <2>3. LoadedInv'
    BY <1>6 DEF Crash, LoadedInv, LockInv
  <2>4. CallInv'
    BY <1>6 DEF Crash, CallInv, Calls, LockInv
  <2>5. StepInv'
    BY <1>6 DEF Crash, StepInv, LockInv, LoadedInv, CallInv, Calls, NoSpec,
           NoEntries
  <2>6. FileInv'
    BY <1>6 DEF Crash, FileInv, LockInv
  <2> QED BY <2>1, <2>2, <2>3, <2>4, <2>5, <2>6
<1>7. ASSUME NEW w \in Workers, Request(w) PROVE Base'
  <2>1. TypeOK'
    BY <1>7 DEF Request, Call, Specs, DeviceSets, NoSpec, NoEntries, NoCall,
           Calls
  <2>2. LockInv'
    BY <1>7 DEF Request, Call, LockInv
  <2>3. LoadedInv'
    BY <1>7 DEF Request, Call, LoadedInv, LockInv
  <2>4. CallInv'
    BY <1>7 DEF Request, Call, CallInv, Calls, LockInv
  <2>5. StepInv'
    BY <1>7 DEF Request, Call, StepInv, LockInv, LoadedInv, CallInv, Calls,
           NoSpec, NoEntries
  <2>6. FileInv'
    BY <1>7 DEF Request, Call, FileInv, LockInv
  <2> QED BY <2>1, <2>2, <2>3, <2>4, <2>5, <2>6
<1>8. ASSUME NEW w \in Workers, Reply(w) PROVE Base'
  <2>1. TypeOK'
    <3>1. UNCHANGED <<disk, boot, mu, loaded, dir>>
      BY <1>8 DEF Reply
    <3>2. pc' \in [Workers -> Steps] /\ call' \in [Workers -> Calls \cup {NoCall}]
      BY <1>8 DEF Reply, Steps
    <3> QED BY <3>1, <3>2 DEF disk, boot
  <2>2. LockInv'
    BY <1>8 DEF Reply, LockInv
  <2>3. CallInv'
    BY <1>8 DEF Reply, CallInv, Calls, LockInv
  <2>4. LoadedInv' /\ StepInv' /\ FileInv'
    BY <1>8 DEF Reply, LoadedInv, StepInv, FileInv, LockInv
  <2> QED BY <2>1, <2>2, <2>3, <2>4
<1>9. ASSUME NEW w \in Workers, IOFails(w) PROVE Base'
  <2>1. TypeOK'
    <3>1. call[w] \in Calls /\ call[w].devs \in SUBSET Devices
      BY <1>9 DEF IOFails, Checked, CallInv, Calls
    <3>2. LocalsOK'
      BY <1>9, <3>1, ReturnLocals DEF IOFails, Finished
    <3> QED BY <1>9, <3>2 DEF IOFails, LocalsOK, disk, boot
  <2>2. LockInv'
    BY <1>9 DEF IOFails, Return, Checked, LockInv
  <2>3. LoadedInv'
    BY <1>9 DEF IOFails, Return, Checked, LoadedInv, LockInv
  <2>4. CallInv'
    BY <1>9 DEF IOFails, Return, Checked, CallInv, Calls, LockInv
  <2>5. StepInv'
    BY <1>9 DEF IOFails, Return, Checked, StepInv, LockInv, LoadedInv,
           CallInv, Calls, NoSpec, NoEntries
  <2>6. FileInv'
    BY <1>9 DEF IOFails, Return, Checked, FileInv, LockInv
  <2> QED BY <2>1, <2>2, <2>3, <2>4, <2>5, <2>6
<1>10. ASSUME NEW w \in Workers, PrepareBegin(w) PROVE Base'
  <2>1. TypeOK'
    <3>1. call[w] \in Calls /\ ckpt[Claim(w)] \in SUBSET Devices
      BY <1>10 DEF PrepareBegin, CallInv, Calls
    <3>2. LocalsOK'
      <4>1. CASE \E r \in Finished, D \in SUBSET Devices : Return(w, r, D)
        BY <3>1, <4>1, ReturnLocals
      <4>2. CASE Enter(w, "p_dir", None)
        BY <4>2, EnterLocals
      <4> QED BY <1>10, <3>1, <4>1, <4>2 DEF PrepareBegin, Calls
    <3> QED BY <1>10, <3>2 DEF PrepareBegin, LocalsOK
  <2>2. LockInv'
    BY <1>10 DEF PrepareBegin, Return, Enter, LockInv
  <2>3. LoadedInv'
    BY <1>10 DEF PrepareBegin, Return, Enter, LoadedInv, LockInv
  <2>4. CallInv'
    BY <1>10 DEF PrepareBegin, Return, Enter, CallInv, Calls, LockInv
  <2>5. StepInv'
    BY <1>10 DEF PrepareBegin, Return, Enter, StepInv, LockInv, LoadedInv,
           CallInv, Calls, NoSpec, NoEntries
  <2>6. FileInv'
    BY <1>10 DEF PrepareBegin, Return, Enter, FileInv,
           LockInv
  <2> QED BY <2>1, <2>2, <2>3, <2>4, <2>5, <2>6
<1>11. ASSUME NEW w \in Workers, PrepareDir(w) PROVE Base'
  <2>1. TypeOK'
    BY <1>11 DEF PrepareDir, Fresh, Specs, DeviceSets, NoSpec, NoEntries,
           NoCall, Calls, CallInv, StepInv
  <2>2. LockInv'
    BY <1>11 DEF PrepareDir, Fresh, LockInv
  <2>3. StepInv'
    BY <1>11 DEF PrepareDir, Fresh, StepInv, LockInv, LoadedInv, CallInv,
           Calls, NoSpec, NoEntries
  <2>4. LoadedInv' /\ CallInv' /\ FileInv'
    BY <1>11 DEF PrepareDir, Fresh, LoadedInv, CallInv, FileInv, LockInv
  <2> QED BY <2>1, <2>2, <2>3, <2>4
<1>12. ASSUME NEW w \in Workers, PrepareMetrics(w) PROVE Base'
  <2>1. TypeOK'
    BY <1>12 DEF PrepareMetrics, Goto, Specs, DeviceSets, NoSpec, NoEntries,
           NoCall, Calls, CallInv, StepInv
  <2>2. LockInv'
    BY <1>12 DEF PrepareMetrics, Goto, LockInv
  <2>3. StepInv'
    BY <1>12 DEF PrepareMetrics, Goto, StepInv, LockInv, LoadedInv, CallInv,
           Calls, NoSpec, NoEntries
  <2>4. LoadedInv' /\ CallInv' /\ FileInv'
    BY <1>12 DEF PrepareMetrics, Goto, LoadedInv, CallInv, FileInv, LockInv
  <2> QED BY <2>1, <2>2, <2>3, <2>4
<1>13. ASSUME NEW w \in Workers, PrepareSpec(w) PROVE Base'
  <2>1. TypeOK'
    BY <1>13 DEF PrepareSpec, Goto, Specs, DeviceSets, NoSpec, NoEntries,
           NoCall, Calls, CallInv, StepInv
  <2>2. LockInv'
    BY <1>13 DEF PrepareSpec, Goto, LockInv
  <2>3. StepInv'
    BY <1>13 DEF PrepareSpec, Goto, StepInv, LockInv, LoadedInv, CallInv,
           Calls, NoSpec, NoEntries
  <2>4. LoadedInv' /\ CallInv' /\ FileInv'
    BY <1>13 DEF PrepareSpec, Goto, LoadedInv, CallInv, FileInv, LockInv
  <2> QED BY <2>1, <2>2, <2>3, <2>4
<1>14. ASSUME NEW w \in Workers, PrepareSave(w) PROVE Base'
  <2>1. TypeOK'
    BY <1>14 DEF PrepareSave, Return, Specs, DeviceSets, NoSpec, NoEntries,
           NoCall, Calls, CallInv, StepInv
  <2>2. LockInv'
    BY <1>14 DEF PrepareSave, Return, LockInv
  <2>3. LoadedInv'
    BY <1>14 DEF PrepareSave, Return, LoadedInv, LockInv
  <2>4. CallInv'
    BY <1>14 DEF PrepareSave, Return, CallInv, Calls, LockInv
  <2>5. StepInv'
    BY <1>14 DEF PrepareSave, Return, StepInv, LockInv, LoadedInv, CallInv,
           Calls, NoSpec, NoEntries
  <2>6. FileInv'
    BY <1>14 DEF PrepareSave, Return, FileInv, NoEntries
  <2> QED BY <2>1, <2>2, <2>3, <2>4, <2>5, <2>6
<1>15. ASSUME NEW w \in Workers, UnprepareBegin(w) PROVE Base'
  <2>1. TypeOK'
    <3>1. call[w] \in Calls /\ spec[Claim(w)].dir \in Uuids \cup {None}
      BY <1>15 DEF UnprepareBegin, CallInv, Calls, Specs, NoSpec
    <3>2. LocalsOK'
      <4>1. CASE Return(w, "ok", call[w].devs)
        BY <3>1, <4>1, ReturnLocals DEF Calls
      <4>2. CASE \E s \in Locked, u \in Uuids \cup {None} : Enter(w, s, u)
        BY <4>2, EnterLocals
      <4> QED BY <1>15, <3>1, <4>1, <4>2 DEF UnprepareBegin
    <3> QED BY <1>15, <3>2 DEF UnprepareBegin, LocalsOK
  <2>2. LockInv'
    BY <1>15 DEF UnprepareBegin, Enter, Return, LockInv
  <2>3. LoadedInv'
    BY <1>15 DEF UnprepareBegin, Enter, Return, LoadedInv, LockInv
  <2>4. CallInv'
    BY <1>15 DEF UnprepareBegin, Enter, Return, CallInv, Calls, LockInv
  <2>5. StepInv'
    BY <1>15 DEF UnprepareBegin, Enter, Return, StepInv, LockInv, LoadedInv,
           CallInv, Calls, NoSpec, NoEntries
  <2>6. FileInv'
    BY <1>15 DEF UnprepareBegin, Enter, Return, FileInv,
           LockInv
  <2> QED BY <2>1, <2>2, <2>3, <2>4, <2>5, <2>6
<1>16. ASSUME NEW w \in Workers, UnprepareConfig(w) PROVE Base'
  <2>1. TypeOK'
    BY <1>16 DEF UnprepareConfig, Goto, Specs, DeviceSets, NoSpec, NoEntries,
           NoCall, Calls
  <2>2. LockInv'
    BY <1>16 DEF UnprepareConfig, Goto, LockInv
  <2>3. LoadedInv' /\ CallInv' /\ StepInv' /\ FileInv'
    BY <1>16 DEF UnprepareConfig, Goto, LoadedInv, CallInv, StepInv, FileInv, LockInv
  <2> QED BY <2>1, <2>2, <2>3
<1>17. ASSUME NEW w \in Workers, UnprepareMetrics(w) PROVE Base'
  <2>1. TypeOK'
    BY <1>17 DEF UnprepareMetrics, Goto, Specs, DeviceSets, NoSpec, NoEntries,
           NoCall, Calls
  <2>2. LockInv'
    BY <1>17 DEF UnprepareMetrics, Goto, LockInv
  <2>3. LoadedInv' /\ CallInv' /\ StepInv' /\ FileInv'
    BY <1>17 DEF UnprepareMetrics, Goto, LoadedInv, CallInv, StepInv, FileInv, LockInv
  <2> QED BY <2>1, <2>2, <2>3
<1>18. ASSUME NEW w \in Workers, UnprepareSave(w) PROVE Base'
  <2>1. TypeOK'
    BY <1>18 DEF UnprepareSave, Goto, Specs, DeviceSets, NoSpec, NoEntries,
           NoCall, Calls
  <2>2. LockInv'
    BY <1>18 DEF UnprepareSave, Goto, LockInv
  <2>3. LoadedInv'
    BY <1>18 DEF UnprepareSave, Goto, LoadedInv, LockInv
  <2>4. StepInv'
    BY <1>18 DEF UnprepareSave, Goto, StepInv, LockInv, LoadedInv, CallInv,
           Calls, NoSpec, NoEntries
  <2>5. FileInv'
    BY <1>18 DEF UnprepareSave, Goto, FileInv, NoEntries
  <2>6. CallInv'
    BY <1>18 DEF UnprepareSave, Goto, CallInv, LockInv
  <2> QED BY <2>1, <2>2, <2>3, <2>4, <2>5, <2>6
<1>19. ASSUME NEW w \in Workers, UnprepareSpec(w) PROVE Base'
  <2>1. TypeOK'
    <3>1. call[w] \in Calls /\ call[w].devs \in SUBSET Devices
      BY <1>19 DEF UnprepareSpec, CallInv, Calls
    <3>2. LocalsOK'
      BY <1>19, <3>1, ReturnLocals DEF UnprepareSpec, Finished
    <3>3. spec' \in [Claims -> Specs \cup {NoSpec}]
      BY <1>19 DEF UnprepareSpec
    <3> QED BY <1>19, <3>2, <3>3 DEF UnprepareSpec, LocalsOK, boot
  <2>2. LockInv'
    BY <1>19 DEF UnprepareSpec, Return, LockInv
  <2>3. CallInv'
    BY <1>19 DEF UnprepareSpec, Return, CallInv, Calls, LockInv
  <2>4. StepInv'
    BY <1>19 DEF UnprepareSpec, Return, StepInv, LockInv, LoadedInv, CallInv,
           Calls, NoSpec, NoEntries
  <2>5. LoadedInv' /\ FileInv'
    BY <1>19 DEF UnprepareSpec, Return, LoadedInv, FileInv, LockInv
  <2> QED BY <2>1, <2>2, <2>3, <2>4, <2>5
<1> QED BY <1>1, <1>2, <1>3, <1>4, <1>5, <1>6, <1>7, <1>8, <1>9, <1>10, <1>11, <1>12, <1>13, <1>14, <1>15, <1>16, <1>17, <1>18, <1>19
     DEF Next, Boot, Handler, Prepare, Unprepare

\* An entry keeps its spec file: only four steps of a handler write either, and at
\* each the spec names what the entry names or is about to.
LEMMA NextHasSpec == ASSUME IInv, Next PROVE CheckpointHasSpec'
<1> USE DEF IInv, TypeOK, CheckpointHasSpec
<1>1. CASE UNCHANGED <<ckpt, spec>>
  BY <1>1
<1>2. CASE BootCheckpoint
  BY <1>2 DEF BootCheckpoint, FileInv
<1>3. ASSUME NEW w \in Workers, PrepareSpec(w) \/ UnprepareSpec(w) PROVE CheckpointHasSpec'
  <2>1. ckpt[Claim(w)] = {} /\ ckpt' = ckpt
    BY <1>3 DEF PrepareSpec, UnprepareSpec, StepInv, PrepareSteps
  <2>2. \A c \in Claims \ {Claim(w)} : spec'[c] = spec[c]
    BY <1>3 DEF PrepareSpec, UnprepareSpec
  <2> QED BY <2>1, <2>2
<1>4. ASSUME NEW w \in Workers, PrepareSave(w) PROVE CheckpointHasSpec'
  <2>1. ckpt' = [ckpt EXCEPT ![Claim(w)] = call[w].devs] /\ spec' = spec
    BY <1>4 DEF PrepareSave, LoadedInv, Locked, PrepareSteps
  <2>2. spec[Claim(w)].devs = call[w].devs
    BY <1>4 DEF PrepareSave, StepInv
  <2> QED BY <2>1, <2>2
<1>5. ASSUME NEW w \in Workers, UnprepareSave(w) PROVE CheckpointHasSpec'
  <2>1. ckpt' = [ckpt EXCEPT ![Claim(w)] = {}] /\ spec' = spec
    BY <1>5 DEF UnprepareSave, LoadedInv, Locked, UnprepareSteps
  <2> QED BY <2>1
<1>6. \/ UNCHANGED <<ckpt, spec>> \/ BootCheckpoint
      \/ \E w \in Workers : PrepareSpec(w) \/ UnprepareSpec(w) \/ PrepareSave(w) \/ UnprepareSave(w)
  BY DEF Next, Boot, BootScan, CleanConfig, CleanMetrics, CleanDone, Crash,
         Request, Call, Handler, Prepare, Unprepare, IOFails, Reply,
         PrepareBegin, PrepareDir, PrepareMetrics, UnprepareBegin,
         UnprepareConfig, UnprepareMetrics, disk
<1> QED BY <1>1, <1>2, <1>3, <1>4, <1>5, <1>6

LEMMA NextIInv == ASSUME IInv, Next PROVE IInv'
BY NextBase, NextHasSpec DEF IInv, Base

-----------------------------------------------------------------------------
\* The inductive invariant holds in every state of every behaviour.
THEOREM Invariance == Spec => []IInv
<1>1. IInv /\ UNCHANGED vars => IInv'
  BY DEF IInv, TypeOK, LockInv, LoadedInv, CallInv, StepInv, FileInv,
         CheckpointHasSpec, Claim, vars
<1> QED BY <1>1, InitIInv, NextIInv, PTL DEF Spec

\* The state stays well typed: every spec file mounts a folder, every call
\* names a claim.
THEOREM TypeCorrect == Spec => []TypeOK
<1>1. IInv => TypeOK
  BY DEF IInv
<1> QED BY <1>1, Invariance, PTL

\* However calls, failures and crashes interleave, a checkpoint entry has its
\* CDI spec file: no Prepare answered from the checkpoint names a missing spec.
THEOREM CheckpointAlwaysHasSpec == Spec => []CheckpointHasSpec
<1>1. IInv => CheckpointHasSpec
  BY DEF IInv
<1> QED BY <1>1, Invariance, PTL

\* At most one worker is between the Lock and the Unlock of Prepare or
\* Unprepare, and what it read from the checkpoint file is still there when it
\* writes the file back: no update of another call is lost.
THEOREM EntriesSafe == Spec => EntryRemovedOnlyByUnprepare
<1>1. ASSUME IInv, [Next]_vars PROVE EntryKept
  <2> USE DEF EntryKept
  <2>1. CASE UNCHANGED ckpt
    BY <2>1
  <2>2. ASSUME NEW w \in Workers, PrepareSave(w) PROVE EntryKept
    <3>1. ckpt' = [ckpt EXCEPT ![Claim(w)] = call[w].devs] /\ ckpt[Claim(w)] = {}
      BY <1>1, <2>2 DEF PrepareSave, IInv, LoadedInv, StepInv, Locked, PrepareSteps
    <3> QED BY <1>1, <3>1 DEF IInv, TypeOK
  <2>3. ASSUME NEW w \in Workers, UnprepareSave(w) PROVE EntryKept
    <3>1. ckpt' = [ckpt EXCEPT ![Claim(w)] = {}] /\ pc[w] = "u_save"
      BY <1>1, <2>3 DEF UnprepareSave, IInv, LoadedInv, Locked, UnprepareSteps
    <3> QED BY <1>1, <3>1 DEF IInv, TypeOK
  <2>4. CASE BootCheckpoint
    BY <1>1, <2>4 DEF BootCheckpoint, IInv, FileInv
  <2>5. UNCHANGED ckpt \/ BootCheckpoint
           \/ \E w \in Workers : PrepareSave(w) \/ UnprepareSave(w)
    BY <1>1 DEF Next, Boot, BootScan, CleanConfig, CleanMetrics, CleanDone,
                Crash, Request, Call, Handler, Prepare, Unprepare, IOFails,
                Reply, PrepareBegin, PrepareDir, PrepareMetrics, PrepareSpec,
                UnprepareBegin, UnprepareConfig, UnprepareMetrics,
                UnprepareSpec, disk, vars
  <2> QED BY <2>1, <2>2, <2>3, <2>4, <2>5
<1> QED BY <1>1, Invariance, PTL DEF Spec, EntryRemovedOnlyByUnprepare

\* The spec file of a claim that is and stays prepared is never rewritten.
THEOREM PreparedSpecsSafe == Spec => PreparedSpecStable
<1>1. ASSUME IInv, [Next]_vars PROVE SpecKept
  <2> USE DEF SpecKept
  <2>1. CASE UNCHANGED spec
    BY <2>1
  <2>2. ASSUME NEW w \in Workers, PrepareSpec(w) \/ UnprepareSpec(w) PROVE SpecKept
    <3>1. ckpt[Claim(w)] = {}
      BY <1>1, <2>2 DEF PrepareSpec, UnprepareSpec, IInv, StepInv, PrepareSteps
    <3>2. \A c \in Claims \ {Claim(w)} : spec'[c] = spec[c]
      BY <1>1, <2>2 DEF PrepareSpec, UnprepareSpec, IInv, TypeOK
    <3> QED BY <3>1, <3>2
  <2>3. UNCHANGED spec \/ \E w \in Workers : PrepareSpec(w) \/ UnprepareSpec(w)
    BY <1>1 DEF Next, Boot, BootScan, CleanConfig, CleanMetrics, CleanDone,
                BootCheckpoint, Crash, Request, Call, Handler, Prepare,
                Unprepare, IOFails, Reply, PrepareBegin, PrepareDir,
                PrepareMetrics, PrepareSave, UnprepareBegin, UnprepareConfig,
                UnprepareMetrics, UnprepareSave, disk, vars
  <2> QED BY <2>1, <2>2, <2>3
<1> QED BY <1>1, Invariance, PTL DEF Spec, PreparedSpecStable

-----------------------------------------------------------------------------
(***************************************************************************)
(* The driver implements ClaimService: every step of DeviceState is a step *)
(* of the abstract service or changes nothing that kubelet can observe.    *)
(***************************************************************************)

\* What the mapping needs beyond IInv: an idle worker has no call, and Unprepare
\* works on a claim that has an entry until it has removed it.
MapInv == \A w \in Workers :
    /\ pc[w] = "idle" => call[w] = NoCall
    /\ pc[w] \in {"u_config", "u_metrics", "u_save"} => ckpt[Claim(w)] # {}

-----------------------------------------------------------------------------
\* The checkpoint is replaced by one that differs in one entry.
LEMMA SaveEffect ==
    ASSUME IInv, NEW w \in Workers, NEW D, pc[w] \in {"p_save", "u_save"},
           ckpt' = [loaded[w] EXCEPT ![Claim(w)] = D]
    PROVE  ckpt' = [ckpt EXCEPT ![Claim(w)] = D]
BY DEF IInv, LoadedInv, Locked, PrepareSteps, UnprepareSteps

\* While a worker is between Lock and Unlock, no other is.
LEMMA Alone ==
    ASSUME IInv, NEW w \in Workers, NEW v \in Workers,
           pc[w] \in Locked, pc[v] \in Locked
    PROVE  v = w
BY DEF IInv, LockInv

\* Every action preserves MapInv.  Steps <1>5 and <1>6 cover the handler steps
\* that return and that go on without writing the checkpoint.
LEMMA MapInvStep == ASSUME IInv, MapInv, Next PROVE MapInv'
<1> USE DEF MapInv, Claim
<1>1. CASE Boot
  <2>1. UNCHANGED <<pc, call>> /\ \A w \in Workers : pc[w] = "idle"
    BY <1>1 DEF Boot, BootScan, CleanConfig, CleanMetrics, CleanDone,
                BootCheckpoint, locals, IInv, LockInv
  <2> QED BY <2>1
<1>2. CASE Crash
  BY <1>2 DEF Crash
<1>3. ASSUME NEW w \in Workers, NEW s \in {"p_lock", "u_lock"}, NEW c \in Claims,
             NEW D \in SUBSET Devices, Call(w, s, c, D)
      PROVE  MapInv'
  BY <1>3 DEF Call, disk, IInv, TypeOK
<1>4. ASSUME NEW w \in Workers, Reply(w) PROVE MapInv'
  BY <1>4 DEF Reply, disk, IInv, TypeOK
<1>5. ASSUME NEW w \in Workers, NEW r \in Finished, NEW D, Return(w, r, D),
             UNCHANGED ckpt
      PROVE  MapInv'
  BY <1>5 DEF Return, Finished, IInv, TypeOK
<1>6. ASSUME NEW w \in Workers, UNCHANGED <<ckpt, call>>,
             NEW s \in Locked, pc' = [pc EXCEPT ![w] = s],
             s \in {"u_config", "u_metrics", "u_save"} => ckpt[Claim(w)] # {}
      PROVE  MapInv'
  BY <1>6 DEF Locked, PrepareSteps, UnprepareSteps, IInv, TypeOK
<1>7. ASSUME NEW w \in Workers, PrepareSave(w) PROVE MapInv'
  <2>1. pc[w] \in Locked /\ \A v \in Workers \ {w} : pc[v] \notin Locked
    BY <1>7, Alone DEF PrepareSave, Locked, PrepareSteps
  <2>2. pc' = [pc EXCEPT ![w] = "ok"]
    BY <1>7 DEF PrepareSave, Return
  <2>3. \A v \in Workers \ {w} : pc'[v] = pc[v] /\ call'[v] = call[v]
    BY <1>7 DEF PrepareSave, Return, IInv, TypeOK
  <2> QED BY <2>1, <2>2, <2>3 DEF Locked, UnprepareSteps, IInv, TypeOK
<1>8. ASSUME NEW w \in Workers, UnprepareSave(w) PROVE MapInv'
  <2>1. pc[w] \in Locked /\ \A v \in Workers \ {w} : pc[v] \notin Locked
    BY <1>8, Alone DEF UnprepareSave, Locked, UnprepareSteps
  <2>2. pc' = [pc EXCEPT ![w] = "u_spec"] /\ call' = call
    BY <1>8 DEF UnprepareSave, Goto
  <2> QED BY <2>1, <2>2 DEF Locked, UnprepareSteps, IInv, TypeOK
<1>9. ASSUME NEW w \in Workers, Prepare(w) \/ Unprepare(w) \/ IOFails(w) PROVE MapInv'
  <2>1. CASE PrepareBegin(w) \/ UnprepareBegin(w)
    <3>1. CASE \E r \in Finished, D \in SUBSET Devices : Return(w, r, D)
      BY <2>1, <3>1, <1>5 DEF PrepareBegin, UnprepareBegin, disk
    <3>2. CASE pc' = [pc EXCEPT ![w] = "p_dir"] /\ call' = call
      BY <2>1, <3>2, <1>6 DEF PrepareBegin, UnprepareBegin, disk, Locked, PrepareSteps
    <3>3. ASSUME NEW s \in {"u_config", "u_save"}, ckpt[Claim(w)] # {},
                 pc' = [pc EXCEPT ![w] = s], call' = call
          PROVE  MapInv'
      BY <2>1, <3>3, <1>6 DEF PrepareBegin, UnprepareBegin, disk, Locked, UnprepareSteps
    <3>4. call[w] \in Calls /\ ckpt[Claim(w)] \in SUBSET Devices
      BY <2>1 DEF PrepareBegin, UnprepareBegin, IInv, CallInv, TypeOK, Calls
    <3> QED BY <2>1, <3>1, <3>2, <3>3, <3>4
            DEF PrepareBegin, UnprepareBegin, Enter, Finished, Calls
  <2>2. CASE PrepareDir(w) \/ PrepareMetrics(w) \/ PrepareSpec(w)
    <3>1. \E s \in PrepareSteps : pc' = [pc EXCEPT ![w] = s]
      BY <2>2 DEF PrepareDir, PrepareMetrics, PrepareSpec, Goto, PrepareSteps
    <3> QED BY <2>2, <3>1, <1>6 DEF PrepareDir, PrepareMetrics, PrepareSpec,
                                     Goto, PrepareSteps, Locked
  <2>3. CASE UnprepareConfig(w)
    BY <2>3, <1>6 DEF UnprepareConfig, Goto, Locked, UnprepareSteps
  <2>4. CASE UnprepareMetrics(w)
    BY <2>4, <1>6 DEF UnprepareMetrics, Goto, Locked, UnprepareSteps
  <2>5. CASE UnprepareSpec(w) \/ IOFails(w)
    BY <2>5, <1>5 DEF UnprepareSpec, IOFails, disk, Finished
  <2> QED BY <1>7, <1>8, <1>9, <2>1, <2>2, <2>3, <2>4, <2>5 DEF Prepare, Unprepare
<1> QED BY <1>1, <1>2, <1>3, <1>4, <1>9 DEF Next, Request, Handler

LEMMA MapInvariance == Spec => []MapInv
<1>1. Init => MapInv
  BY DEF Init, MapInv
<1>2. IInv /\ MapInv /\ [Next]_vars => MapInv'
  <2>1. MapInv /\ UNCHANGED vars => MapInv'
    BY DEF MapInv, Claim, vars
  <2> QED BY <2>1, MapInvStep
<1> QED BY <1>1, <1>2, Invariance, PTL DEF Spec

-----------------------------------------------------------------------------
\* How the control states map to the stages of the abstract service.
LEMMA Stages ==
    /\ \A s \in {"p_lock"} \cup PrepareSteps : AbsStage(s) = "prepare"
    /\ \A s \in {"u_lock", "u_config", "u_metrics", "u_save"} : AbsStage(s) = "unprepare"
    /\ AbsStage("u_spec") = "unprepared"
    /\ AbsStage("ok") = "done" /\ AbsStage("err") = "failed" /\ AbsStage("idle") = "idle"
BY DEF AbsStage, PrepareSteps

\* A worker that goes on to step s changes at most its stage.
LEMMA StepMaps ==
    ASSUME TypeOK, NEW w \in Workers, NEW s,
           pc' = [pc EXCEPT ![w] = s], call' = call
    PROVE  AbsReq' = [AbsReq EXCEPT ![w].stage = AbsStage(s)]
BY DEF AbsReq, TypeOK

\* A step within a stage is a stutter of the abstract service.
LEMMA StepStutters ==
    ASSUME TypeOK, NEW w \in Workers, NEW s, AbsStage(pc[w]) = AbsStage(s),
           pc' = [pc EXCEPT ![w] = s], call' = call
    PROVE  AbsReq' = AbsReq
BY DEF AbsReq, TypeOK

\* A worker that returns changes its stage and the devices it answers with.
LEMMA ReturnMaps ==
    ASSUME TypeOK, NEW w \in Workers, call[w] \in Calls, NEW r, NEW D, Return(w, r, D)
    PROVE  AbsReq' = [AbsReq EXCEPT ![w].stage = AbsStage(r), ![w].devs = D]
BY DEF AbsReq, TypeOK, Return, Calls

\* Returning the devices of the call itself changes only the stage.
LEMMA ReturnSameMaps ==
    ASSUME TypeOK, NEW w \in Workers, call[w] \in Calls, NEW r, Return(w, r, call[w].devs)
    PROVE  AbsReq' = [AbsReq EXCEPT ![w].stage = AbsStage(r)]
BY DEF AbsReq, TypeOK, Return, Calls

\* The driver at its start is the service without claims and calls.
LEMMA InitMaps == Init => Service!Init
<1> SUFFICES ASSUME Init PROVE Service!Init
  OBVIOUS
<1>1. ckpt = [c \in Claims |-> {}]
  BY DEF Init, NoEntries
<1>2. \A w \in Workers : pc[w] = "idle" /\ call[w] = NoCall
  BY DEF Init
<1>3. AbsReq = [w \in Workers |-> Service!NoReq]
  BY <1>2, Stages DEF AbsReq, Service!NoReq, NoCall
<1> QED BY <1>1, <1>3 DEF Service!Init

\* Start-up and crash: the checkpoint survives, the calls do not.
LEMMA ProcessMaps ==
    ASSUME IInv, Boot \/ Crash
    PROVE  Service!Crash \/ UNCHANGED Service!vars
<1>1. CASE Crash
  <2>1. AbsReq' = [w \in Workers |-> Service!NoReq]
    BY <1>1, Stages DEF Crash, AbsReq, Service!NoReq, NoCall
  <2> QED BY <1>1, <2>1 DEF Crash, disk, Service!Crash
<1>2. CASE Boot
  <2>1. UNCHANGED <<pc, call>>
    BY <1>2 DEF Boot, BootScan, CleanConfig, CleanMetrics, CleanDone,
                BootCheckpoint, locals
  <2>2. UNCHANGED ckpt
    BY <1>2 DEF Boot, BootScan, CleanConfig, CleanMetrics, CleanDone,
                BootCheckpoint, disk, IInv, FileInv
  <2> QED BY <2>1, <2>2 DEF AbsReq, Service!vars
<1> QED BY <1>1, <1>2

\* A call arrives, an answer leaves.
LEMMA CallMaps ==
    ASSUME IInv, MapInv, NEW w \in Workers, Request(w)
    PROVE  Service!Call(w)
<1>1. PICK s \in {"p_lock", "u_lock"}, c \in Claims, D \in SUBSET Devices : Call(w, s, c, D)
  BY DEF Request
<1>2. AbsReq[w] = Service!NoReq
  <2>1. pc[w] = "idle" /\ call[w] = NoCall
    BY <1>1 DEF Call, MapInv
  <2> QED BY <2>1, Stages DEF AbsReq, Service!NoReq, NoCall
<1>3. AbsReq' = [AbsReq EXCEPT ![w] = [stage |-> AbsStage(s), claim |-> c, devs |-> D]]
  BY <1>1 DEF Call, AbsReq, IInv, TypeOK
<1>4. /\ AbsStage(s) \in {"prepare", "unprepare"}
      /\ AbsStage(s) = "prepare" <=> D # {}
      /\ UNCHANGED ckpt
  BY <1>1, Stages DEF Call, disk
<1> QED BY <1>2, <1>3, <1>4 DEF Service!Call

LEMMA ReplyMaps ==
    ASSUME IInv, NEW w \in Workers, Reply(w)
    PROVE  Service!Reply(w)
<1>1. AbsReq[w].stage \in {"done", "failed"}
  BY Stages DEF Reply, Finished, AbsReq
<1>2. AbsReq' = [AbsReq EXCEPT ![w] = Service!NoReq]
  BY Stages DEF Reply, AbsReq, IInv, TypeOK, Service!NoReq, NoCall
<1> QED BY <1>1, <1>2 DEF Reply, disk, Service!Reply

\* An error returned at any step of a handler is a failure of the call.
LEMMA FailMaps ==
    ASSUME IInv, NEW w \in Workers, pc[w] \in Checked,
           Return(w, "err", call[w].devs), UNCHANGED ckpt
    PROVE  Service!Fail(w)
<1>1. call[w] \in Calls
  BY DEF IInv, CallInv, Checked
<1>2. AbsReq' = [AbsReq EXCEPT ![w].stage = "failed"]
  BY <1>1, ReturnSameMaps, Stages DEF IInv
<1>3. AbsReq[w].stage \in {"prepare", "unprepare", "unprepared"}
  BY Stages DEF AbsReq, Checked, PrepareSteps
<1> QED BY <1>2, <1>3 DEF Service!Fail, Service!Stage

\* Prepare takes effect when its entry is on disk, or finds an entry there.
LEMMA PrepareMaps ==
    ASSUME IInv, NEW w \in Workers, Prepare(w)
    PROVE  Service!Again(w) \/ Service!Prepare(w) \/ Service!Fail(w) \/ UNCHANGED Service!vars
<1>0. /\ call[w] \in Calls /\ AbsReq[w].stage = "prepare"
      /\ AbsReq[w].claim = Claim(w) /\ AbsReq[w].devs = call[w].devs
  BY Stages DEF Prepare, PrepareBegin, PrepareDir, PrepareMetrics, PrepareSpec,
                PrepareSave, IInv, CallInv, AbsReq, Claim, PrepareSteps
<1>1. CASE PrepareBegin(w)
  <2>1. CASE ckpt[Claim(w)] # {} /\ Return(w, "ok", ckpt[Claim(w)])
    <3>1. AbsReq' = [AbsReq EXCEPT ![w].stage = "done", ![w].devs = ckpt[Claim(w)]]
      BY <1>0, <2>1, ReturnMaps, Stages DEF IInv
    <3> QED BY <1>0, <1>1, <2>1, <3>1 DEF PrepareBegin, disk, Service!Again
  <2>2. CASE Return(w, "err", call[w].devs)
    BY <1>1, <2>2, FailMaps DEF PrepareBegin, disk, Checked
  <2>3. CASE Enter(w, "p_dir", None)
    <3>1. pc[w] = "p_lock" /\ pc' = [pc EXCEPT ![w] = "p_dir"] /\ call' = call
      BY <1>1, <2>3 DEF PrepareBegin, Enter
    <3>2. AbsStage(pc[w]) = AbsStage("p_dir") /\ TypeOK
      BY <3>1, Stages DEF IInv, PrepareSteps
    <3>3. AbsReq' = AbsReq
      BY <3>1, <3>2, StepStutters
    <3> QED BY <1>1, <3>3 DEF PrepareBegin, disk, Service!vars
  <2> QED BY <1>1, <2>1, <2>2, <2>3 DEF PrepareBegin
<1>2. CASE PrepareDir(w) \/ PrepareMetrics(w) \/ PrepareSpec(w)
  <2>1. PICK s \in PrepareSteps : pc' = [pc EXCEPT ![w] = s]
    BY <1>2 DEF PrepareDir, PrepareMetrics, PrepareSpec, Goto, PrepareSteps
  <2>2. call' = call /\ ckpt' = ckpt /\ pc[w] \in PrepareSteps
    BY <1>2 DEF PrepareDir, PrepareMetrics, PrepareSpec, Goto, PrepareSteps
  <2>3. AbsReq' = AbsReq
    BY <2>1, <2>2, StepStutters, Stages DEF IInv
  <2> QED BY <2>2, <2>3 DEF Service!vars
<1>3. CASE PrepareSave(w)
  <2>1. ckpt' = [ckpt EXCEPT ![Claim(w)] = call[w].devs]
    BY <1>3, SaveEffect DEF PrepareSave
  <2>2. ckpt[Claim(w)] = {}
    BY <1>3 DEF PrepareSave, IInv, StepInv, PrepareSteps
  <2>3. AbsReq' = [AbsReq EXCEPT ![w].stage = "done"]
    BY <1>0, <1>3, ReturnSameMaps, Stages DEF PrepareSave, IInv
  <2> QED BY <1>0, <2>1, <2>2, <2>3 DEF Service!Prepare, Service!Stage
<1> QED BY <1>1, <1>2, <1>3 DEF Prepare

\* Unprepare takes effect when its entry is gone, or finds none.
LEMMA UnprepareMaps ==
    ASSUME IInv, MapInv, NEW w \in Workers, Unprepare(w)
    PROVE  Service!Absent(w) \/ Service!Unprepare(w) \/ Service!Finish(w)
             \/ UNCHANGED Service!vars
<1>0. call[w] \in Calls /\ AbsReq[w].claim = Claim(w)
  BY DEF Unprepare, UnprepareBegin, UnprepareConfig, UnprepareMetrics,
         UnprepareSave, UnprepareSpec, IInv, CallInv, AbsReq, Claim
<1>1. CASE UnprepareBegin(w)
  <2>0. AbsReq[w].stage = "unprepare" /\ UNCHANGED ckpt
    BY <1>1, Stages DEF UnprepareBegin, AbsReq, disk
  <2>1. CASE ckpt[Claim(w)] = {} /\ Return(w, "ok", call[w].devs)
    <3>1. AbsReq' = [AbsReq EXCEPT ![w].stage = "done"]
      BY <1>0, <2>1, ReturnSameMaps, Stages DEF IInv
    <3> QED BY <1>0, <2>0, <2>1, <3>1 DEF Service!Absent, Service!Stage
  <2>2. ASSUME NEW s \in {"u_config", "u_save"}, NEW u, Enter(w, s, u)
        PROVE  UNCHANGED Service!vars
    <3>1. pc[w] = "u_lock" /\ pc' = [pc EXCEPT ![w] = s] /\ call' = call
      BY <1>1, <2>2 DEF UnprepareBegin, Enter
    <3>2. AbsStage(pc[w]) = AbsStage(s) /\ TypeOK
      BY <3>1, <2>2, Stages DEF IInv
    <3>3. AbsReq' = AbsReq
      BY <3>1, <3>2, StepStutters
    <3> QED BY <2>0, <3>3 DEF Service!vars
  <2> QED BY <1>1, <2>1, <2>2 DEF UnprepareBegin
<1>2. CASE UnprepareConfig(w) \/ UnprepareMetrics(w)
  <2>1. PICK s \in {"u_metrics", "u_save"} : pc' = [pc EXCEPT ![w] = s]
    BY <1>2 DEF UnprepareConfig, UnprepareMetrics, Goto
  <2>2. call' = call /\ ckpt' = ckpt /\ pc[w] \in {"u_config", "u_metrics"}
    BY <1>2 DEF UnprepareConfig, UnprepareMetrics, Goto
  <2>3. AbsReq' = AbsReq
    BY <2>1, <2>2, StepStutters, Stages DEF IInv
  <2> QED BY <2>2, <2>3 DEF Service!vars
<1>3. CASE UnprepareSave(w)
  <2>1. ckpt' = [ckpt EXCEPT ![Claim(w)] = {}]
    BY <1>3, SaveEffect DEF UnprepareSave
  <2>2. ckpt[Claim(w)] # {}
    BY <1>3 DEF UnprepareSave, MapInv
  <2>3. AbsReq' = [AbsReq EXCEPT ![w].stage = "unprepared"]
    <3>1. pc' = [pc EXCEPT ![w] = "u_spec"] /\ call' = call /\ TypeOK
      BY <1>3 DEF UnprepareSave, Goto, IInv
    <3>2. AbsReq' = [AbsReq EXCEPT ![w].stage = AbsStage("u_spec")]
      BY <3>1, StepMaps
    <3> QED BY <3>2, Stages
  <2>4. AbsReq[w].stage = "unprepare"
    BY <1>3, Stages DEF UnprepareSave, AbsReq
  <2> QED BY <1>0, <2>1, <2>2, <2>3, <2>4 DEF Service!Unprepare, Service!Stage
<1>4. CASE UnprepareSpec(w)
  <2>1. AbsReq[w].stage = "unprepared" /\ UNCHANGED ckpt
    BY <1>4, Stages DEF UnprepareSpec, AbsReq
  <2>2. AbsReq' = [AbsReq EXCEPT ![w].stage = "done"]
    BY <1>0, <1>4, ReturnSameMaps, Stages DEF UnprepareSpec, IInv
  <2> QED BY <2>1, <2>2 DEF Service!Finish, Service!Stage
<1> QED BY <1>1, <1>2, <1>3, <1>4 DEF Unprepare

-----------------------------------------------------------------------------
\* Prepare and Unprepare are atomic and durable whatever fails, crashes and
\* interleaves: kubelet cannot tell the driver from a map that is changed at
\* one instant of each call and survives every crash.
THEOREM Refinement == Spec => ImplementsClaimService
<1>1. IInv /\ MapInv /\ [Next]_vars => [Service!Next]_(Service!vars)
  <2> SUFFICES ASSUME IInv, MapInv, [Next]_vars
               PROVE  [Service!Next]_(Service!vars)
    OBVIOUS
  <2>1. CASE UNCHANGED vars
    BY <2>1 DEF vars, Service!vars, AbsReq
  <2>2. CASE Boot \/ Crash
    BY <2>2, ProcessMaps DEF Service!Next
  <2>3. ASSUME NEW w \in Workers, Request(w) \/ Handler(w)
        PROVE  [Service!Next]_(Service!vars)
    <3>1. CASE Request(w)
      BY <3>1, CallMaps DEF Service!Next
    <3>2. CASE Reply(w)
      BY <3>2, ReplyMaps DEF Service!Next
    <3>3. CASE IOFails(w)
      BY <3>3, FailMaps DEF IOFails, disk, Service!Next
    <3>4. CASE Prepare(w)
      BY <3>4, PrepareMaps DEF Service!Next
    <3>5. CASE Unprepare(w)
      BY <3>5, UnprepareMaps DEF Service!Next
    <3> QED BY <2>3, <3>1, <3>2, <3>3, <3>4, <3>5 DEF Handler
  <2> QED BY <2>1, <2>2, <2>3 DEF Next
<1> QED BY <1>1, InitMaps, Invariance, MapInvariance, PTL
        DEF Spec, ImplementsClaimService, Service!Spec

-----------------------------------------------------------------------------
(***************************************************************************)
(* The config folder of a prepared claim is removed by nobody else, when   *)
(* the spec files can be read at start-up.                                 *)
(***************************************************************************)

\* Unprepare removes the folder that the claim's own spec mounts.
OwnFolderInv == \A w \in Workers :
    pc[w] \in {"u_config", "u_metrics"} => dir[w] = spec[Claim(w)].dir

\* A folder is new until the spec that mounts it is written.
FreshFolderInv == \A w \in Workers :
    pc[w] \in {"p_metrics", "p_spec"} => \A c \in Claims : spec[c].dir # dir[w]

\* No two specs mount the same folder.
DistinctInv == \A c, d \in Claims :
    spec[c].dir = spec[d].dir /\ spec[c].dir # None => c = d

\* The cleaning at start-up works on folders that no spec mounts.
CleanInv == driver = "clean" => \A c \in Claims : spec[c].dir \notin todo

FolderInv == OwnFolderInv /\ FreshFolderInv /\ DistinctInv /\ CleanInv

-----------------------------------------------------------------------------
LEMMA InitFolderInv == Init => FolderInv
BY DEF Init, FolderInv, OwnFolderInv, FreshFolderInv, DistinctInv, CleanInv, NoSpec

\* Start-up and crash: nobody works on a folder, and the list of folders to
\* remove is made from all specs.
LEMMA ProcessFolderInv ==
    ASSUME "scan" \notin Faults, Base, FolderInv, Boot \/ Crash
    PROVE  FolderInv'
<1>1. UNCHANGED spec /\ \A w \in Workers : pc'[w] = "idle"
  BY DEF Boot, Crash, BootScan, CleanConfig, CleanMetrics, CleanDone,
         BootCheckpoint, disk, locals, Base, LockInv
<1>2. OwnFolderInv' /\ FreshFolderInv' /\ DistinctInv'
  BY <1>1 DEF OwnFolderInv, FreshFolderInv, FolderInv, DistinctInv
<1>3. CleanInv'
  <2>1. CASE BootScan
    BY <1>1, <2>1 DEF BootScan, CleanInv
  <2>2. CASE ~ BootScan
    <3>1. driver' = "clean" => driver = "clean" /\ todo' \subseteq todo
      BY <2>2 DEF Boot, Crash, CleanConfig, CleanMetrics, CleanDone, BootCheckpoint
    <3> QED BY <1>1, <3>1 DEF CleanInv, FolderInv
  <2> QED BY <2>1, <2>2
<1> QED BY <1>2, <1>3 DEF FolderInv

\* While a worker serves a call the driver is not cleaning.
LEMMA ServingFolderInv ==
    ASSUME Base, NEW w \in Workers, Request(w) \/ Handler(w)
    PROVE  driver' = "serving"
BY DEF Request, Call, Handler, Prepare, Unprepare, IOFails, Reply, PrepareBegin,
       PrepareDir, PrepareMetrics, PrepareSpec, PrepareSave, UnprepareBegin,
       UnprepareConfig, UnprepareMetrics, UnprepareSave, UnprepareSpec, boot,
       Base, LockInv, Checked, Finished

\* A step by which a worker enters no step that FolderInv speaks of.
LEMMA LeaveFolderInv ==
    ASSUME Base, FolderInv, NEW w \in Workers, UNCHANGED <<spec>>,
           pc'[w] \notin {"p_metrics", "p_spec", "u_config", "u_metrics"},
           \A v \in Workers \ {w} : pc'[v] = pc[v] /\ dir'[v] = dir[v] /\ call'[v] = call[v]
    PROVE  OwnFolderInv' /\ FreshFolderInv' /\ DistinctInv'
BY DEF FolderInv, OwnFolderInv, FreshFolderInv, DistinctInv, Claim

LEMMA HandlerFolderInv ==
    ASSUME Base, FolderInv, NEW w \in Workers, Request(w) \/ Handler(w)
    PROVE  FolderInv'
<1>0. CleanInv'
  BY ServingFolderInv DEF CleanInv
<1> SUFFICES OwnFolderInv' /\ FreshFolderInv' /\ DistinctInv'
  BY <1>0 DEF FolderInv
<1> USE DEF Base, TypeOK
<1>1. CASE Request(w) \/ Reply(w)
  BY <1>1, LeaveFolderInv DEF Request, Call, Reply, disk
<1>2. ASSUME NEW r \in Finished, NEW D, Return(w, r, D), UNCHANGED spec
      PROVE  OwnFolderInv' /\ FreshFolderInv' /\ DistinctInv'
  BY <1>2, LeaveFolderInv DEF Return, Finished
<1>3. CASE IOFails(w) \/ PrepareSave(w)
  BY <1>3, <1>2 DEF IOFails, PrepareSave, disk, Finished
<1>4. CASE PrepareBegin(w)
  <2>1. CASE Enter(w, "p_dir", None)
    BY <1>4, <2>1, LeaveFolderInv DEF PrepareBegin, Enter, disk
  <2> QED BY <1>2, <1>4, <2>1 DEF PrepareBegin, disk, Finished
<1>5. CASE PrepareDir(w)
  <2>1. \A c \in Claims : spec[c].dir # dir'[w]
    BY <1>5, NoneAssumption DEF PrepareDir, Fresh, Referenced
  <2> QED BY <1>5, <2>1 DEF PrepareDir, FolderInv, OwnFolderInv, FreshFolderInv, DistinctInv, Claim
<1>6. CASE PrepareMetrics(w)
  BY <1>6 DEF PrepareMetrics, Goto, FolderInv, OwnFolderInv, FreshFolderInv, DistinctInv, Claim
<1>7. CASE PrepareSpec(w)
  <2>1. \A v \in Workers \ {w} : pc[v] \notin Locked /\ pc'[v] = pc[v]
    BY <1>7 DEF PrepareSpec, Goto, LockInv, Locked, PrepareSteps
  <2>2. OwnFolderInv' /\ FreshFolderInv'
    BY <1>7, <2>1 DEF PrepareSpec, Goto, OwnFolderInv, FreshFolderInv, Locked, PrepareSteps, UnprepareSteps
  <2>3. DistinctInv'
    BY <1>7 DEF PrepareSpec, FolderInv, FreshFolderInv, DistinctInv
  <2> QED BY <2>2, <2>3
<1>8. CASE UnprepareBegin(w)
  <2>1. CASE Enter(w, "u_config", spec[Claim(w)].dir)
    BY <1>8, <2>1 DEF UnprepareBegin, Enter, disk, FolderInv, OwnFolderInv, FreshFolderInv, DistinctInv, Claim
  <2>2. CASE Enter(w, "u_save", None)
    BY <1>8, <2>2, LeaveFolderInv DEF UnprepareBegin, Enter, disk
  <2> QED BY <1>2, <1>8, <2>1, <2>2 DEF UnprepareBegin, disk, Finished
<1>9. CASE UnprepareConfig(w)
  BY <1>9 DEF UnprepareConfig, Goto, FolderInv, OwnFolderInv, FreshFolderInv, DistinctInv, Claim
<1>10. CASE UnprepareMetrics(w) \/ UnprepareSave(w)
  BY <1>10, LeaveFolderInv DEF UnprepareMetrics, UnprepareSave, Goto
<1>11. CASE UnprepareSpec(w)
  <2>1. \A v \in Workers \ {w} : pc[v] \notin Locked /\ pc'[v] = pc[v]
    BY <1>11 DEF UnprepareSpec, Return, LockInv, Locked, UnprepareSteps
  <2>2. OwnFolderInv' /\ FreshFolderInv'
    BY <1>11, <2>1 DEF UnprepareSpec, Return, OwnFolderInv, FreshFolderInv, Locked, PrepareSteps, UnprepareSteps
  <2>3. DistinctInv'
    BY <1>11 DEF UnprepareSpec, FolderInv, DistinctInv, NoSpec
  <2> QED BY <2>2, <2>3
<1> QED BY <1>1, <1>3, <1>4, <1>5, <1>6, <1>7, <1>8, <1>9, <1>10, <1>11
        DEF Handler, Prepare, Unprepare

\* No step of the driver breaks the invariant ...
LEMMA NextFolderInv ==
    ASSUME "scan" \notin Faults, Base, FolderInv, Next PROVE FolderInv'
BY ProcessFolderInv, HandlerFolderInv DEF Next

\* ... and so none takes a folder that a prepared claim mounts, except its Unprepare.
LEMMA NextFolderKept ==
    ASSUME Base, FolderInv, Next PROVE FolderKept
<1> SUFFICES ASSUME NEW c \in Claims, ckpt[c] # {}, spec[c].dir \in cfgDirs \ cfgDirs'
             PROVE  \E w \in Workers : pc[w] = "u_config" /\ Claim(w) = c
  BY DEF FolderKept
<1>1. CleanConfig \/ \E w \in Workers : UnprepareConfig(w)
  BY DEF Next, Boot, BootScan, CleanMetrics, CleanDone, BootCheckpoint,
         Crash, Request, Call, Handler, Prepare, Unprepare, IOFails,
         Reply, PrepareBegin, PrepareDir, PrepareMetrics, PrepareSpec,
         PrepareSave, UnprepareBegin, UnprepareMetrics, UnprepareSave,
         UnprepareSpec, disk
<1>2. ~ CleanConfig
  BY DEF CleanConfig, FolderInv, CleanInv
<1>3. PICK w \in Workers : UnprepareConfig(w)
  BY <1>1, <1>2
<1>4. Claim(w) \in Claims /\ spec[c].dir = spec[Claim(w)].dir
  BY <1>3 DEF UnprepareConfig, Base, CallInv, Calls, Claim, FolderInv, OwnFolderInv
<1>5. spec[c].dir # None
  BY NoneAssumption DEF Base, TypeOK
<1> QED BY <1>3, <1>4, <1>5 DEF FolderInv, DistinctInv, UnprepareConfig

-----------------------------------------------------------------------------
\* The folder that a prepared claim mounts disappears only in its Unprepare, if
\* every spec file can be read at start-up: neither another call nor
\* CleanZombieConfigFolders takes it from a running pod.
THEOREM FoldersSafe ==
    ASSUME "scan" \notin Faults PROVE Spec => FolderRemovedOnlyByUnprepare
<1>1. Base /\ FolderInv /\ [Next]_vars => FolderInv'
  <2>1. FolderInv /\ UNCHANGED vars => FolderInv'
    BY DEF FolderInv, OwnFolderInv, FreshFolderInv, DistinctInv, CleanInv, Claim, vars
  <2> QED BY <2>1, NextFolderInv
<1>2. Base /\ FolderInv /\ [Next]_vars => FolderKept
  <2>1. UNCHANGED vars => FolderKept
    BY DEF FolderKept, vars
  <2> QED BY <2>1, NextFolderKept
<1>3. IInv => Base
  BY DEF IInv, Base
<1> QED BY <1>1, <1>2, <1>3, InitFolderInv, Invariance, PTL DEF Spec, FolderRemovedOnlyByUnprepare

-----------------------------------------------------------------------------
\* Of the folders that no spec mounts, only those still to be removed exist.
ZombieInv == /\ driver = "clean" => cfgDirs \ todo \subseteq Referenced
             /\ driver = "check" => cfgDirs \subseteq Referenced

LEMMA NextZombieInv ==
    ASSUME "scan" \notin Faults, "clean" \notin Faults, Base, ZombieInv, Next
    PROVE  ZombieInv'
<1>1. CASE Boot
  <2>1. Referenced' = Referenced
    BY <1>1 DEF Boot, BootScan, CleanConfig, CleanMetrics, CleanDone, BootCheckpoint,
                disk, Referenced
  <2>2. CASE BootScan
    <3>1. todo' = cfgDirs \ {spec[c].dir : c \in Claims} /\ driver' = "clean" /\ cfgDirs' = cfgDirs
      BY <2>2 DEF BootScan, disk
    <3>2. cfgDirs \ todo' \subseteq Referenced
      BY <3>1, NoneAssumption DEF Referenced, Base, TypeOK
    <3> QED BY <2>1, <3>1, <3>2 DEF ZombieInv
  <2>3. CASE CleanConfig \/ CleanMetrics \/ CleanDone \/ BootCheckpoint
    BY <2>1, <2>3 DEF CleanConfig, CleanMetrics, CleanDone, BootCheckpoint, disk, ZombieInv
  <2> QED BY <1>1, <2>2, <2>3 DEF Boot
<1>2. CASE Crash
  BY <1>2 DEF Crash, ZombieInv
<1>3. ASSUME NEW w \in Workers, Request(w) \/ Handler(w) PROVE ZombieInv'
  BY <1>3, ServingFolderInv DEF ZombieInv
<1> QED BY <1>1, <1>2, <1>3 DEF Next

\* A start-up whose reads and removals succeed leaves no config folder that no CDI
\* spec mounts, whatever calls and crashes came before it.
THEOREM StartupRemovesZombies ==
    ASSUME "scan" \notin Faults, "clean" \notin Faults
    PROVE  Spec => StartupLeavesNoZombie
<1>1. Init => ZombieInv
  BY DEF Init, ZombieInv
<1>2. Base /\ ZombieInv /\ [Next]_vars => ZombieInv'
  <2>1. ZombieInv /\ UNCHANGED vars => ZombieInv'
    BY DEF ZombieInv, Referenced, vars
  <2> QED BY <2>1, NextZombieInv
<1>3. Base /\ ZombieInv /\ [Next]_vars =>
        [driver = "check" /\ driver' = "serving" => cfgDirs \subseteq Referenced]_vars
  BY DEF ZombieInv
<1>4. IInv => Base
  BY DEF IInv, Base
<1> QED BY <1>1, <1>2, <1>3, <1>4, Invariance, PTL DEF Spec, StartupLeavesNoZombie
=============================================================================

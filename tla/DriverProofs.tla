---------------------------- MODULE DriverProofs ----------------------------
(* Proofs about Driver, for any number of changes of the device attributes. *)
EXTENDS Driver, TLAPS

\* Which goroutines may exist at which step of the main one.
StepInv ==
    /\ main \in Starting => loop = "none"
    /\ main \in {"dirs", "state", "helper", "check"} => server = "none"
    /\ main \in {"stopCheck", "drain", "stopHelper", "exited"} => loop \in {"none", "done"}
    /\ main \in {"stopHelper", "exited"} => server \in {"none", "stopped"}
    /\ check # "none" => server \in {"serving", "draining"}

\* The helper runs from its start to StopHelper.
HelperInv ==
    /\ helper = "none" =>
         main \in {"dirs", "state", "helper"} \cup Ended /\ loop = "none" /\ server = "none"
    /\ helper = "stopped" <=> main = "exited"

\* Nobody holds attributes older than the published ones.
VersionInv ==
    /\ slice <= version
    /\ main = "publish" => slice <= read["main"]
    /\ loop = "publish" => slice <= read["loop"]
    /\ \A x \in {"main", "loop"} : read[x] <= version

IInv == TypeOK /\ StepInv /\ HelperInv /\ VersionInv

LEMMA InitInv == Init => IInv
<1> SUFFICES ASSUME Init PROVE IInv OBVIOUS
<1>1. TypeOK
  <2>1. cancelled \in BOOLEAN /\ default \in BOOLEAN /\ fatal \in BOOLEAN /\ stopping \in BOOLEAN
    BY DEF Init
  <2>2. /\ main \in Starting
        /\ version \in 0..MaxVersion /\ slice \in 0..MaxVersion
        /\ read \in [{"main", "loop"} -> 0..MaxVersion]
    BY MaxVersionAssumption DEF Init, Starting
  <2>3. /\ helper \in {"none", "running", "stopped"}
        /\ server \in {"none", "serving", "draining", "stopped"}
        /\ check \in {"none", "getInfo", "prepare"}
        /\ loop \in {"none", "wait", "read", "publish", "done"}
        /\ main # "joinLoop" /\ main # "drain"
    BY DEF Init
  <2> QED BY <2>1, <2>2, <2>3 DEF TypeOK
<1>2. StepInv BY DEF Init, StepInv
<1>3. HelperInv BY DEF Init, HelperInv
<1>4. VersionInv BY DEF Init, VersionInv
<1> QED BY <1>1, <1>2, <1>3, <1>4 DEF IInv

\* A step of RunPlugin that leaves the published attributes alone.
LEMMA MainStep ==
    ASSUME IInv,
           MakeDirs \/ MakeState \/ StartHelper \/ StartHealthcheck \/ StartMonitor
             \/ ContextDone \/ StopMonitor \/ JoinLoop \/ StopHealthcheck \/ Drained
             \/ StopHelper \/ StartFails
    PROVE  IInv'
<1> USE DEF Goto
<1>1. TypeOK'
  <2>1. /\ cancelled' \in BOOLEAN /\ default' \in BOOLEAN
        /\ fatal' \in BOOLEAN /\ stopping' \in BOOLEAN
    BY DEF IInv, TypeOK, MakeDirs, MakeState, StartHelper, StartHealthcheck, StartMonitor,
         ContextDone, StopMonitor, JoinLoop, StopHealthcheck, Drained, StopHelper, StartFails
  <2>2. main' \in Starting \cup {"wait"} \cup Stopping \cup Ended
    BY DEF Starting, Stopping, Ended, MakeDirs, MakeState, StartHelper, StartHealthcheck, StartMonitor,
         ContextDone, StopMonitor, JoinLoop, StopHealthcheck, Drained, StopHelper, StartFails
  <2>3. /\ helper' \in {"none", "running", "stopped"}
        /\ server' \in {"none", "serving", "draining", "stopped"}
        /\ loop' \in {"none", "wait", "read", "publish", "done"}
    BY DEF IInv, TypeOK, MakeDirs, MakeState, StartHelper, StartHealthcheck, StartMonitor,
         ContextDone, StopMonitor, JoinLoop, StopHealthcheck, Drained, StopHelper, StartFails
  <2>4. UNCHANGED <<check, version, read, slice>>
    BY DEF MakeDirs, MakeState, StartHelper, StartHealthcheck, StartMonitor,
         ContextDone, StopMonitor, JoinLoop, StopHealthcheck, Drained, StopHelper, StartFails
  <2>5. (main' = "joinLoop" => loop' # "none") /\ (main' = "drain" => server' = "draining")
    BY DEF MakeDirs, MakeState, StartHelper, StartHealthcheck, StartMonitor,
         ContextDone, StopMonitor, JoinLoop, StopHealthcheck, Drained, StopHelper, StartFails
  <2> QED BY <2>1, <2>2, <2>3, <2>4, <2>5 DEF IInv, TypeOK
<1>2. StepInv'
  BY DEF IInv, TypeOK, StepInv, Starting, Stopping, Ended, MakeDirs, MakeState, StartHelper,
     StartHealthcheck, StartMonitor, ContextDone, StopMonitor, JoinLoop, StopHealthcheck,
     Drained, StopHelper, StartFails
<1>3. HelperInv'
  BY DEF IInv, TypeOK, StepInv, HelperInv, Starting, Stopping, Ended, MakeDirs, MakeState,
     StartHelper, StartHealthcheck, StartMonitor, ContextDone, StopMonitor, JoinLoop,
     StopHealthcheck, Drained, StopHelper, StartFails
<1>4. VersionInv'
  BY DEF IInv, VersionInv, MakeDirs, MakeState, StartHelper, StartHealthcheck, StartMonitor,
     ContextDone, StopMonitor, JoinLoop, StopHealthcheck, Drained, StopHelper, StartFails
<1> QED BY <1>1, <1>2, <1>3, <1>4 DEF IInv

\* The first publish comes before the update loop exists.
LEMMA PublishStep ==
    ASSUME IInv, ReadDevices \/ PublishFirst PROVE IInv' /\ slice' >= slice
<1> USE DEF Goto
<1>1. TypeOK'
  BY DEF IInv, TypeOK, Starting, Stopping, Ended, ReadDevices, PublishFirst
<1>2. StepInv' /\ HelperInv'
  BY DEF IInv, TypeOK, StepInv, HelperInv, Starting, Stopping, Ended, ReadDevices, PublishFirst
<1>3. VersionInv' /\ slice' >= slice
  <2>1. CASE ReadDevices
    BY <2>1 DEF IInv, TypeOK, VersionInv, ReadDevices, StepInv, Starting
  <2>2. CASE PublishFirst
    <3>1. loop = "none" /\ loop' = "none" /\ main' = "monitor"
      BY <2>2 DEF IInv, StepInv, Starting, PublishFirst
    <3>2. slice' = read["main"] /\ read' = read /\ version' = version
      BY <2>2 DEF PublishFirst
    <3>3. slice <= read["main"] /\ read["main"] <= version
      BY <2>2 DEF IInv, VersionInv, PublishFirst
    <3> QED BY <3>1, <3>2, <3>3 DEF IInv, TypeOK, VersionInv
  <2> QED BY <2>1, <2>2
<1> QED BY <1>1, <1>2, <1>3 DEF IInv

\* Signals, errors of the helper and liveness probes.
LEMMA OtherStep ==
    ASSUME IInv, Signal \/ HandleError \/ CheckStarts \/ CheckSteps PROVE IInv'
<1> USE DEF Goto
<1>1. TypeOK'
  <2>1. UNCHANGED <<helper, server, loop, version, read, slice>>
    BY DEF Signal, HandleError, CheckStarts, CheckSteps
  <2>2. main' \in Starting \cup {"wait"} \cup Stopping \cup Ended
    BY DEF IInv, TypeOK, Ended, Signal, HandleError, CheckStarts, CheckSteps
  <2>3. check' \in {"none", "getInfo", "prepare"}
    BY DEF IInv, TypeOK, Signal, HandleError, CheckStarts, CheckSteps
  <2>4. cancelled' \in BOOLEAN /\ default' \in BOOLEAN
    BY Zenon DEF IInv, TypeOK, Signal, HandleError, CheckStarts, CheckSteps
  <2>5. fatal' \in BOOLEAN /\ stopping' \in BOOLEAN
    BY Zenon DEF IInv, TypeOK, Signal, HandleError, CheckStarts, CheckSteps
  <2>6. main' = main \/ main' = "killed"
    BY DEF Signal, HandleError, CheckStarts, CheckSteps
  <2> QED BY <2>1, <2>2, <2>3, <2>4, <2>5, <2>6 DEF IInv, TypeOK
<1>2. StepInv' /\ HelperInv'
  BY DEF IInv, TypeOK, StepInv, HelperInv, Starting, Stopping, Ended, Alive, Signal,
     HandleError, CheckStarts, CheckSteps
<1>3. VersionInv'
  BY DEF IInv, VersionInv, Signal, HandleError, CheckStarts, CheckSteps
<1> QED BY <1>1, <1>2, <1>3 DEF IInv

\* The update loop works only between StartMonitor and JoinLoop.
LEMMA LoopStep ==
    ASSUME IInv, Loop PROVE IInv' /\ slice' >= slice
<1>1. TypeOK'
  BY MaxVersionAssumption
  DEF IInv, TypeOK, Loop, LoopUpdates, LoopReads, LoopPublishes, LoopStops
<1>2. StepInv' /\ HelperInv'
  BY DEF IInv, TypeOK, StepInv, HelperInv, Starting, Stopping, Ended, Alive, Loop,
     LoopUpdates, LoopReads, LoopPublishes, LoopStops
<1>3. main \notin Starting
  BY DEF IInv, StepInv, Loop, LoopUpdates, LoopReads, LoopPublishes, LoopStops
<1>4. main # "publish" /\ main' = main
  BY <1>3 DEF Starting, Loop, LoopUpdates, LoopReads, LoopPublishes, LoopStops
<1>5. VersionInv' /\ slice' >= slice
  <2> USE MaxVersionAssumption DEF IInv, TypeOK, VersionInv
  <2>1. CASE LoopUpdates BY <1>4, <2>1 DEF LoopUpdates
  <2>2. CASE LoopReads BY <1>4, <2>2 DEF LoopReads
  <2>3. CASE LoopPublishes BY <1>4, <2>3 DEF LoopPublishes
  <2>4. CASE LoopStops BY <1>4, <2>4 DEF LoopStops
  <2> QED BY <2>1, <2>2, <2>3, <2>4 DEF Loop
<1> QED BY <1>1, <1>2, <1>5 DEF IInv

\* Every step keeps the invariant and moves the slice forward.
LEMMA StepForward ==
    ASSUME IInv, [Next]_vars PROVE IInv' /\ (slice' >= slice \/ UNCHANGED vars)
<1>1. CASE UNCHANGED vars
  BY <1>1 DEF vars, IInv, TypeOK, StepInv, HelperInv, VersionInv
<1>2. CASE MakeDirs \/ MakeState \/ StartHelper \/ StartHealthcheck \/ StartMonitor
             \/ ContextDone \/ StopMonitor \/ JoinLoop \/ StopHealthcheck \/ Drained
             \/ StopHelper \/ StartFails
  <2>1. slice' = slice
    BY <1>2 DEF MakeDirs, MakeState, StartHelper, StartHealthcheck, StartMonitor, ContextDone,
       StopMonitor, JoinLoop, StopHealthcheck, Drained, StopHelper, StartFails
  <2> QED BY <1>2, <2>1, MainStep, MaxVersionAssumption DEF IInv, TypeOK
<1>3. CASE ReadDevices \/ PublishFirst BY <1>3, PublishStep
<1>4. CASE Signal \/ HandleError \/ CheckStarts \/ CheckSteps
  <2>1. slice' = slice BY <1>4 DEF Signal, HandleError, CheckStarts, CheckSteps
  <2> QED BY <1>4, <2>1, OtherStep, MaxVersionAssumption DEF IInv, TypeOK
<1>5. CASE Loop BY <1>5, LoopStep
<1> QED BY <1>1, <1>2, <1>3, <1>4, <1>5 DEF Next, Main

LEMMA Invariance == Spec => []IInv
<1>1. IInv /\ [Next]_vars => IInv' BY StepForward
<1> QED BY InitInv, <1>1, PTL DEF Spec

\* The state of the process stays well typed.
THEOREM DriverTypeCorrect == Spec => []TypeOK
<1>1. IInv => TypeOK BY DEF IInv
<1> QED BY <1>1, Invariance, PTL

\* No publish and no liveness probe meets a helper that is not running.
THEOREM HelperOutlives == Spec => []HelperOutlivesUsers
<1>1. IInv => HelperOutlivesUsers
  BY DEF IInv, TypeOK, StepInv, HelperInv, HelperOutlivesUsers, Starting, Stopping, Ended
<1> QED BY <1>1, Invariance, PTL

\* The published attributes never go back, whoever publishes.
THEOREM SliceForward == Spec => SliceMovesForward
<1>1. IInv /\ [Next]_vars => [slice' >= slice]_vars BY StepForward
<1> QED BY <1>1, Invariance, PTL DEF Spec, SliceMovesForward
=============================================================================

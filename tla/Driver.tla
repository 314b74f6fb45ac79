------------------------------- MODULE Driver -------------------------------
(***************************************************************************)
(* The life of the plugin process: RunPlugin (cmd/spyre-dra-plugin),       *)
(* NewDriver and Shutdown (internal/driver), with the goroutines started   *)
(* on the way: the kubelet plugin helper, the gRPC liveness service, and   *)
(* the update loop of the health monitor, which publishes devices too.     *)
(* A signal or a fatal error of the helper may come at any time.  Module   *)
(* HealthMonitor opens up the loop; here a health change is a version of   *)
(* the device attributes.                                                  *)
(***************************************************************************)
EXTENDS Naturals

CONSTANT MaxVersion  \* bound: changes of the device attributes

ASSUME MaxVersionAssumption == MaxVersion \in Nat

VARIABLES
    main,      \* the next step of RunPlugin
    cancelled, \* the main context is done
    default,   \* the next signal kills the process: the handler is not
               \* installed yet, or stop() has run
    fatal,     \* the helper has reported an error that is not recoverable
    helper,    \* kubeletplugin.Helper: "none", "running", "stopped"
    server,    \* liveness service: "none", "serving", "draining", "stopped"
    check,     \* the step of a Check in progress, or "none"
    loop,      \* processUpdate
    stopping,  \* stopChan is closed
    version,   \* the device attributes in Allocatable
    read,      \* the versions main and the loop have read to publish
    slice      \* the version given to the helper last

vars == <<main, cancelled, default, fatal, helper, server, check, loop, stopping,
          version, read, slice>>

Starting == {"dirs", "state", "helper", "check", "read", "publish", "monitor"}
Stopping == {"stopMonitor", "joinLoop", "stopCheck", "drain", "stopHelper"}
Ended == {"exited", "failed", "killed"}

\* The types of the state, with what a step of Shutdown works on: a monitor that is
\* nil (no health service is configured) is not stopped.
TypeOK ==
    /\ main \in Starting \cup {"wait"} \cup Stopping \cup Ended
    /\ cancelled \in BOOLEAN /\ default \in BOOLEAN /\ fatal \in BOOLEAN
    /\ helper \in {"none", "running", "stopped"}
    /\ server \in {"none", "serving", "draining", "stopped"}
    /\ check \in {"none", "getInfo", "prepare"}
    /\ loop \in {"none", "wait", "read", "publish", "done"}
    /\ stopping \in BOOLEAN
    /\ version \in 0..MaxVersion
    /\ read \in [{"main", "loop"} -> 0..MaxVersion]
    /\ slice \in 0..MaxVersion
    /\ main = "joinLoop" => loop # "none"
    /\ main = "drain" => server = "draining"

Init ==
    /\ main = "dirs" /\ cancelled = FALSE /\ default = TRUE /\ fatal = FALSE
    /\ helper = "none" /\ server = "none" /\ check = "none"
    /\ loop = "none" /\ stopping = FALSE
    /\ version = 0 /\ read = [x \in {"main", "loop"} |-> 0] /\ slice = 0

Alive == main \notin Ended
Goto(s) == main' = s

-----------------------------------------------------------------------------
(* RunPlugin and NewDriver.                                                *)

\* These steps may fail; RunPlugin then returns the error and the process ends.
StartFails ==
    /\ main \in Starting \ {"read", "monitor"}
    /\ Goto("failed")
    /\ UNCHANGED <<cancelled, default, fatal, helper, server, check, loop, stopping,
                   version, read, slice>>

\* Directories, then signal.NotifyContext.
MakeDirs ==
    /\ main = "dirs" /\ Goto("state") /\ default' = FALSE
    /\ UNCHANGED <<cancelled, fatal, helper, server, check, loop, stopping, version, read, slice>>

MakeState ==
    /\ main = "state" /\ Goto("helper")
    /\ UNCHANGED <<cancelled, default, fatal, helper, server, check, loop, stopping,
                   version, read, slice>>

StartHelper ==
    /\ main = "helper" /\ Goto("check") /\ helper' = "running"
    /\ UNCHANGED <<cancelled, default, fatal, server, check, loop, stopping, version, read, slice>>

\* A negative port leaves the liveness service out.
StartHealthcheck ==
    /\ main = "check" /\ Goto("read") /\ server' \in {"none", "serving"}
    /\ UNCHANGED <<cancelled, default, fatal, helper, check, loop, stopping, version, read, slice>>

\* Mutant: the monitor is started before the first publish.
MonitorBeforePublish ==
    /\ main = "read" /\ Goto("publish")
    /\ read' = [read EXCEPT !["main"] = version]
    /\ loop' \in {"none", "wait"}
    /\ UNCHANGED <<cancelled, default, fatal, helper, server, check, stopping, version, slice>>

\* publishResources: the devices are read under the mutex of DeviceState, then
\* given to the helper.
ReadDevices ==
    /\ main = "read" /\ Goto("publish")
    /\ read' = [read EXCEPT !["main"] = version]
    /\ UNCHANGED <<cancelled, default, fatal, helper, server, check, loop, stopping, version, slice>>

PublishFirst ==
    /\ main = "publish" /\ Goto("monitor")
    /\ slice' = read["main"]
    /\ UNCHANGED <<cancelled, default, fatal, helper, server, check, loop, stopping, version, read>>

\* Without a configured health service the driver runs without monitoring.
StartMonitor ==
    /\ main = "monitor" /\ Goto("wait")
    /\ loop' \in {"none", "wait"}
    /\ UNCHANGED <<cancelled, default, fatal, helper, server, check, stopping,
                   version, read, slice>>

-----------------------------------------------------------------------------
(* Shutdown.                                                               *)

\* <-ctx.Done(), then the default signal behaviour is restored.
ContextDone ==
    /\ main = "wait" /\ cancelled
    /\ default' = TRUE
    /\ Goto("stopMonitor")
    /\ UNCHANGED <<cancelled, fatal, helper, server, check, loop, stopping, version, read, slice>>

\* Mutant: no check for a monitor that was never made.
StopsNilMonitor ==
    /\ main = "stopMonitor" /\ Goto("joinLoop") /\ stopping' = TRUE
    /\ UNCHANGED <<cancelled, default, fatal, helper, server, check, loop, version, read, slice>>

\* A monitor, if there is one, is stopped: DeviceHealthMonitor.Stop closes stopChan,
\* then waits for the loop.
StopMonitor ==
    /\ main = "stopMonitor"
    /\ \/ loop = "none" /\ Goto("stopCheck") /\ UNCHANGED stopping
       \/ loop # "none" /\ Goto("joinLoop") /\ stopping' = TRUE
    /\ UNCHANGED <<cancelled, default, fatal, helper, server, check, loop, version, read, slice>>

\* Mutant: no wait for the loop.
DoesNotJoin ==
    /\ main = "joinLoop" /\ Goto("stopCheck")
    /\ UNCHANGED <<cancelled, default, fatal, helper, server, check, loop, stopping,
                   version, read, slice>>

JoinLoop ==
    /\ main = "joinLoop" /\ loop = "done" /\ Goto("stopCheck")
    /\ UNCHANGED <<cancelled, default, fatal, helper, server, check, loop, stopping,
                   version, read, slice>>

\* HealthCheck.Stop: GracefulStop takes no new call and waits for those in progress.
StopHealthcheck ==
    /\ main = "stopCheck"
    /\ \/ server = "none" /\ Goto("stopHelper") /\ UNCHANGED server
       \/ server = "serving" /\ Goto("drain") /\ server' = "draining"
    /\ UNCHANGED <<cancelled, default, fatal, helper, check, loop, stopping, version, read, slice>>

Drained ==
    /\ main = "drain" /\ check = "none" /\ Goto("stopHelper") /\ server' = "stopped"
    /\ UNCHANGED <<cancelled, default, fatal, helper, check, loop, stopping, version, read, slice>>

StopHelper ==
    /\ main = "stopHelper" /\ Goto("exited") /\ helper' = "stopped"
    /\ UNCHANGED <<cancelled, default, fatal, server, check, loop, stopping, version, read, slice>>

-----------------------------------------------------------------------------
(* What happens meanwhile.                                                 *)

Signal ==
    /\ Alive
    /\ IF default THEN Goto("killed") /\ UNCHANGED cancelled
                  ELSE cancelled' = TRUE /\ UNCHANGED main
    /\ UNCHANGED <<default, fatal, helper, server, check, loop, stopping, version, read, slice>>

\* Mutant: the error is only logged.
ErrorOnlyLogged ==
    /\ Alive /\ helper = "running"
    /\ fatal' = TRUE
    /\ UNCHANGED <<main, cancelled, default, helper, server, check, loop, stopping,
                   version, read, slice>>

\* HandleError cancels the main context unless the error is recoverable.
HandleError ==
    /\ Alive /\ helper = "running"
    /\ fatal' = TRUE /\ cancelled' = TRUE
    /\ UNCHANGED <<main, default, helper, server, check, loop, stopping, version, read, slice>>

\* A liveness probe calls the registration socket, then the DRA socket; either
\* call may fail, and Check then answers at once.
CheckStarts ==
    /\ Alive /\ server = "serving" /\ check = "none" /\ check' = "getInfo"
    /\ UNCHANGED <<main, cancelled, default, fatal, helper, server, loop, stopping,
                   version, read, slice>>
CheckSteps ==
    /\ Alive
    /\ \/ check = "getInfo" /\ check' \in {"prepare", "none"}
       \/ check = "prepare" /\ check' = "none"
    /\ UNCHANGED <<main, cancelled, default, fatal, helper, server, loop, stopping,
                   version, read, slice>>

\* The loop takes a notification, sets the attributes and publishes them.  It may
\* prefer a pending notification to a closed channel.
LoopUpdates ==
    /\ Alive /\ loop = "wait" /\ loop' = "read"
    /\ version < MaxVersion /\ version' = version + 1
    /\ UNCHANGED <<main, cancelled, default, fatal, helper, server, check, stopping, read, slice>>
LoopReads ==
    /\ Alive /\ loop = "read" /\ loop' = "publish"
    /\ read' = [read EXCEPT !["loop"] = version]
    /\ UNCHANGED <<main, cancelled, default, fatal, helper, server, check, stopping, version, slice>>
\* An error of the helper is logged.
LoopPublishes ==
    /\ Alive /\ loop = "publish" /\ loop' = "wait"
    /\ slice' \in {slice, read["loop"]}
    /\ UNCHANGED <<main, cancelled, default, fatal, helper, server, check, stopping, version, read>>
LoopStops ==
    /\ Alive /\ loop = "wait" /\ (stopping \/ cancelled) /\ loop' = "done"
    /\ UNCHANGED <<main, cancelled, default, fatal, helper, server, check, stopping,
                   version, read, slice>>

-----------------------------------------------------------------------------
Main == MakeDirs \/ MakeState \/ StartHelper \/ StartHealthcheck \/ ReadDevices
          \/ PublishFirst \/ StartMonitor \/ ContextDone \/ StopMonitor \/ JoinLoop
          \/ StopHealthcheck \/ Drained \/ StopHelper
Loop == LoopUpdates \/ LoopReads \/ LoopPublishes \/ LoopStops

Next == Main \/ StartFails \/ Signal \/ HandleError \/ CheckStarts \/ CheckSteps \/ Loop

Spec == Init /\ [][Next]_vars

\* Every goroutine runs; probes and signals need not come.
Fairness == WF_vars(Main) /\ WF_vars(Loop) /\ WF_vars(CheckSteps)
FairSpec == Spec /\ Fairness

-----------------------------------------------------------------------------
(* Properties.                                                             *)

\* The ResourceSlice never goes back to older attributes: the monitor "starts
\* after the first publish so that health updates always republish on top of it"
\* (driver.go:96), so that no two publishers overlap.
SliceMovesForward == [][slice' >= slice]_vars

\* Nobody uses the helper, to publish or through a liveness probe, before it runs
\* or after it was stopped: Shutdown stops its users first.
HelperOutlivesUsers == loop = "publish" \/ check # "none" => helper = "running"

\* A fatal error of the helper ends the process (so that it is restarted) even if
\* it comes during NewDriver, in a publish, or during a liveness probe.
FatalErrorEnds == fatal ~> main \in Ended
=============================================================================

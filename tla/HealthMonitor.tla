--------------------------- MODULE HealthMonitor ---------------------------
(***************************************************************************)
(* How a health report of the spyre health service reaches the published   *)
(* ResourceSlice: SpyreHealthClient.listen and setAndNotify, the update    *)
(* channel of capacity one, DeviceHealthMonitor.processUpdate, and the     *)
(* driver's onDeviceHealthChanged (UpdateDeviceStates, then publish).      *)
(* The listener and the update loop are two goroutines; the loop is slow,  *)
(* reports arrive at any time.  Connections come and go as a whole here;   *)
(* module HealthClient opens up the reconnection.                          *)
(***************************************************************************)
EXTENDS Sequences, Naturals

CONSTANTS
    Addrs,        \* PCI addresses the service may report
    Allocatable,  \* those of the driver's own devices
    States,       \* device states of the health service
    Online,       \* the healthy one
    Absent,       \* not reported
    MaxInFlight   \* bound: reports sent but not received

ASSUME AllocatableAssumption == Allocatable \subseteq Addrs
ASSUME StatesAssumption == Online \in States /\ Absent \notin States
ASSUME MaxInFlightAssumption == MaxInFlight \in Nat \ {0}

Reports == [Addrs -> States \cup {Absent}]
Health == [Allocatable -> States]

VARIABLES
    service,    \* what the health service knows now
    connected,  \* a stream is open
    stream,     \* reports in flight on it, in order
    infoMap,    \* healthInfoMap: the report received last
    token,      \* updateChan holds a notification
    loop,       \* control state of processUpdate
    healths,    \* DeviceHealthMonitor.healths, which the loop hands on
    attrs,      \* device state attributes in DeviceState.Allocatable
    snapshot,   \* the devices the loop is publishing
    slice,      \* device states of the published ResourceSlice
    failed,     \* the last attempt to publish failed
    stopped     \* DeviceHealthMonitor.Stop was called

feed == <<service, connected, stream>>
vars == <<service, connected, stream, infoMap, token, loop, healths, attrs,
          snapshot, slice, failed, stopped>>

LoopSteps == {"wait", "read", "update", "snapshot", "publish", "done"}

AllOnline == [a \in Allocatable |-> Online]

TypeOK ==
    /\ service \in Reports /\ connected \in BOOLEAN
    /\ stream \in Seq(Reports) /\ infoMap \in Reports
    /\ token \in BOOLEAN /\ loop \in LoopSteps
    /\ healths \in Health /\ attrs \in Health
    /\ snapshot \in Health /\ slice \in Health
    /\ failed \in BOOLEAN /\ stopped \in BOOLEAN

\* The monitor starts after the first publish, with every device online.
Init ==
    /\ service \in Reports /\ connected = FALSE /\ stream = <<>>
    /\ infoMap = [a \in Addrs |-> Absent]
    /\ token = FALSE /\ loop = "wait"
    /\ healths = AllOnline /\ attrs = AllOnline
    /\ snapshot = AllOnline /\ slice = AllOnline
    /\ failed = FALSE /\ stopped = FALSE

-----------------------------------------------------------------------------
(* The health service (external).                                          *)

\* The health of some device changes; the service tells an open stream.
Report(r) ==
    /\ r # service /\ Len(stream) < MaxInFlight
    /\ service' = r
    /\ stream' = IF connected THEN Append(stream, r) ELSE stream
    /\ UNCHANGED <<connected, infoMap, token, loop, healths, attrs, snapshot, slice, failed, stopped>>

\* Registration: the service sends what it knows at once.
Connect ==
    /\ ~ connected /\ ~ stopped
    /\ connected' = TRUE /\ stream' = <<service>>
    /\ UNCHANGED <<service, infoMap, token, loop, healths, attrs, snapshot, slice, failed, stopped>>

\* The stream breaks and loses what is in flight.
Disconnect ==
    /\ connected
    /\ connected' = FALSE /\ stream' = <<>>
    /\ UNCHANGED <<service, infoMap, token, loop, healths, attrs, snapshot, slice, failed, stopped>>

-----------------------------------------------------------------------------
(* The listener goroutine.                                                 *)

\* Mutant: updateChan has no buffer, so only a waiting loop is notified.
NotifiesOnlyWaiting(r) ==
    IF r = infoMap THEN UNCHANGED <<infoMap, token>>
                   ELSE infoMap' = r /\ token' = (token \/ loop = "wait")

\* setAndNotify stores a report that differs, and notifies, under the client's
\* mutex; the notification is dropped when one is pending.
SetAndNotify(r) ==
    IF r = infoMap THEN UNCHANGED <<infoMap, token>>
                   ELSE infoMap' = r /\ token' = TRUE

\* Mutant: each report is applied by a goroutine of its own.
ReceivesUnordered ==
    /\ connected /\ ~ stopped
    /\ \E i \in DOMAIN stream :
          /\ SetAndNotify(stream[i])
          /\ stream' = SubSeq(stream, 1, i - 1) \o SubSeq(stream, i + 1, Len(stream))
    /\ UNCHANGED <<service, connected, loop, healths, attrs, snapshot, slice, failed, stopped>>

\* listen applies the reports in the order of the stream.
Receive ==
    /\ connected /\ stream # <<>> /\ ~ stopped
    /\ SetAndNotify(Head(stream))
    /\ stream' = Tail(stream)
    /\ UNCHANGED <<service, connected, loop, healths, attrs, snapshot, slice, failed, stopped>>

-----------------------------------------------------------------------------
(* The update loop.                                                        *)

\* Mutant: a device missing from the report stays as it is in the map.
OverlayKeepsAbsent(r) == [a \in Allocatable |-> r[a]]

\* The reported state of every own device; a device that is not reported
\* counts as online, a reported one that is not allocatable is ignored.
Overlay(r) == [a \in Allocatable |-> IF r[a] = Absent THEN Online ELSE r[a]]

TakeToken ==
    /\ loop = "wait" /\ token
    /\ token' = FALSE /\ loop' = "read"
    /\ UNCHANGED <<feed, infoMap, healths, attrs, snapshot, slice, failed, stopped>>

\* Copy the base map and lay the client's map over it, under its read lock.
UpdateHealths ==
    /\ loop = "read"
    /\ healths' = Overlay(infoMap) /\ loop' = "update"
    /\ UNCHANGED <<feed, infoMap, token, attrs, snapshot, slice, failed, stopped>>

\* Mutant: the change is not reported to the caller.
ChangeNotReported ==
    /\ loop = "update"
    /\ attrs' = healths /\ loop' = "wait"
    /\ UNCHANGED <<feed, infoMap, token, healths, snapshot, slice, failed, stopped>>

\* UpdateDeviceStates, under DeviceState.mu: publish only if a value changed.
UpdateDeviceStates ==
    /\ loop = "update"
    /\ attrs' = healths
    /\ loop' = IF healths = attrs THEN "wait" ELSE "snapshot"
    /\ UNCHANGED <<feed, infoMap, token, healths, snapshot, slice, failed, stopped>>

\* Devices(), a copy under DeviceState.mu.
Snapshot ==
    /\ loop = "snapshot"
    /\ snapshot' = attrs /\ loop' = "publish"
    /\ UNCHANGED <<feed, infoMap, token, healths, attrs, slice, failed, stopped>>

\* PublishResources; its error is only logged.
Publish ==
    /\ loop = "publish"
    /\ \/ slice' = snapshot /\ failed' = FALSE
       \/ slice' = slice /\ failed' = TRUE
    /\ loop' = "wait"
    /\ UNCHANGED <<feed, infoMap, token, healths, attrs, snapshot, stopped>>

\* Stop closes the channels; the loop sees it when it selects again, and its
\* select may still prefer a pending notification.
Stop ==
    /\ ~ stopped /\ stopped' = TRUE
    /\ UNCHANGED <<feed, infoMap, token, loop, healths, attrs, snapshot, slice, failed>>

\* Mutant: the stop signal is looked at only after a notification.
StopsOnToken ==
    /\ loop = "wait" /\ stopped /\ token
    /\ loop' = "done"
    /\ UNCHANGED <<feed, infoMap, token, healths, attrs, snapshot, slice, failed, stopped>>

\* The stopChan case of the select.
LoopStops ==
    /\ loop = "wait" /\ stopped
    /\ loop' = "done"
    /\ UNCHANGED <<feed, infoMap, token, healths, attrs, snapshot, slice, failed, stopped>>

Loop == TakeToken \/ UpdateHealths \/ UpdateDeviceStates \/ Snapshot \/ Publish

Next == \/ \E r \in Reports : Report(r)
        \/ Connect \/ Disconnect \/ Receive \/ Loop \/ Stop \/ LoopStops

Spec == Init /\ [][Next]_vars

\* The goroutines run, and a broken connection is made again (see HealthClient
\* for when it is not).
Fairness == WF_vars(Loop) /\ WF_vars(LoopStops) /\ WF_vars(Receive) /\ WF_vars(Connect)
FairSpec == Spec /\ Fairness

-----------------------------------------------------------------------------
(* Properties.                                                             *)

\* No report is lost between the two goroutines: unless a notification is
\* pending or the loop is about to read, what the loop hands on is the report
\* received last, although notifications are merged and dropped.
NoLostUpdate == token \/ loop = "read" \/ healths = Overlay(infoMap)

\* At rest the published slice shows what the service knows, unless the last
\* attempt to publish has failed (a later one repairs it).
Converged ==
    (connected /\ ~ stopped /\ ~ failed /\ stream = <<>> /\ ~ token /\ loop = "wait") =>
        slice = Overlay(service)

\* Once the service is quiet, the connection holds and the last publish has not
\* failed, the slice comes to show the state of every device and keeps doing so.
Disturbance == Disconnect \/ Stop \/ \E r \in Reports : Report(r)
EventuallyPublished ==
    <>[][~ Disturbance]_vars /\ []~ stopped /\ <>[]~ failed => <>[](slice = Overlay(service))

\* Stop returns: the update loop ends, whatever notifications keep coming.
StopEnds == stopped ~> loop = "done"
=============================================================================

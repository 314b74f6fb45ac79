------------------------ MODULE HealthMonitorProofs ------------------------
(***************************************************************************)
(* Proofs about HealthMonitor for any sets of devices and states and any   *)
(* number of reports in flight.                                            *)
(***************************************************************************)
EXTENDS HealthMonitor, SequenceTheorems, TLAPS

\* What the service knows is the last report in flight or, when none is, the
\* report stored last.
FeedInv == connected => service = IF stream = <<>> THEN infoMap ELSE stream[Len(stream)]

\* The attributes follow the loop's healths; the slice follows the attributes
\* unless a publish is under way or the last one failed.
LoopInv == /\ loop # "update" => attrs = healths
           /\ loop = "publish" => snapshot = attrs
           /\ loop \in {"snapshot", "publish"} \/ failed \/ slice = attrs

HInv == TypeOK /\ FeedInv /\ LoopInv /\ NoLostUpdate

-----------------------------------------------------------------------------
\* Overlay gives every own device a state.
LEMMA OverlayType == ASSUME NEW r \in Reports PROVE Overlay(r) \in Health
BY StatesAssumption, AllocatableAssumption DEF Overlay, Health, Reports

LEMMA InitHInv == Init => HInv
<1> SUFFICES ASSUME Init PROVE HInv
  OBVIOUS
<1>1. AllOnline \in Health
  BY StatesAssumption DEF AllOnline, Health
<1>2. infoMap \in Reports
  BY DEF Init, Reports
<1>3. Overlay(infoMap) = AllOnline
  BY AllocatableAssumption DEF Init, Overlay, AllOnline
<1>4. TypeOK
  <2>1. stream \in Seq(Reports) /\ loop \in LoopSteps
    BY DEF Init, LoopSteps
  <2>2. {connected, token, failed, stopped} \subseteq BOOLEAN
    BY DEF Init
  <2> QED BY <1>1, <1>2, <2>1, <2>2 DEF Init, TypeOK
<1>5. FeedInv /\ LoopInv /\ NoLostUpdate
  BY <1>3 DEF Init, FeedInv, LoopInv, NoLostUpdate
<1> QED BY <1>4, <1>5 DEF HInv

\* The service side and the connection touch none of the driver's state.
LEMMA ServiceHInv ==
    ASSUME HInv, Connect \/ Disconnect \/ \E r \in Reports : Report(r)
    PROVE  HInv'
<1>1. CASE Connect
  <2>1. TypeOK'
    BY <1>1 DEF Connect, HInv, TypeOK
  <2>2. FeedInv' /\ LoopInv' /\ NoLostUpdate'
    BY <1>1 DEF Connect, HInv, FeedInv, LoopInv, NoLostUpdate
  <2> QED BY <2>1, <2>2 DEF HInv
<1>2. CASE Disconnect
  <2>1. TypeOK'
    <3>1. stream' \in Seq(Reports)
      BY <1>2 DEF Disconnect
    <3>2. connected' \in BOOLEAN
      BY <1>2 DEF Disconnect
    <3> QED BY <1>2, <3>1, <3>2 DEF Disconnect, HInv, TypeOK
  <2>2. FeedInv' /\ LoopInv' /\ NoLostUpdate'
    BY <1>2 DEF Disconnect, HInv, FeedInv, LoopInv, NoLostUpdate
  <2> QED BY <2>1, <2>2 DEF HInv
<1>3. ASSUME NEW r \in Reports, Report(r) PROVE HInv'
  <2>1. TypeOK'
    BY <1>3 DEF Report, HInv, TypeOK
  <2>2. FeedInv'
    BY <1>3 DEF Report, HInv, TypeOK, FeedInv
  <2> QED BY <1>3, <2>1, <2>2 DEF Report, HInv, LoopInv, NoLostUpdate
<1> QED BY <1>1, <1>2, <1>3

\* Taking the head of a sequence leaves its last element last.
LEMMA TailLast ==
    ASSUME NEW S, NEW s \in Seq(S), s # <<>>
    PROVE  /\ Tail(s) = <<>> => Head(s) = s[Len(s)]
           /\ Tail(s) # <<>> => Tail(s)[Len(Tail(s))] = s[Len(s)]
<1> DEFINE n == Len(s)
           m == Len(Tail(s))
<1>1. n \in Nat \ {0} /\ (Tail(s) = <<>> => m = 0)
  BY EmptySeq, Zenon
<1>2. m = n - 1 /\ \A i \in 1 .. m : Tail(s)[i] = s[i + 1]
  BY HeadTailProperties, Zenon
<1>3. Tail(s) # <<>> => m \in Nat \ {0}
  BY HeadTailProperties, EmptySeq, Zenon
<1>4. Head(s) = s[1]
  OBVIOUS
<1> HIDE DEF n, m
<1>5. m = 0 => n = 1
  BY <1>1, <1>2
<1>6. m \in Nat \ {0} => m \in 1 .. m /\ m + 1 = n
  BY <1>1, <1>2
<1>7. Tail(s) # <<>> => Tail(s)[m] = s[n]
  BY <1>2, <1>3, <1>6
<1> QED BY <1>1, <1>4, <1>5, <1>7 DEF n, m

\* The listener stores the next report; the report it leaves at the head of the
\* stream is as recent as before.
LEMMA ReceiveHInv == ASSUME HInv, Receive PROVE HInv'
<1>1. /\ stream \in Seq(Reports) /\ stream # <<>>
      /\ Head(stream) \in Reports /\ Head(stream) = stream[1]
  BY DEF Receive, HInv, TypeOK
<1>2. /\ infoMap' = Head(stream)
      /\ token' \in BOOLEAN
      /\ token' \/ UNCHANGED <<infoMap, token>>
  <2>1. CASE Head(stream) = infoMap
    BY <2>1 DEF Receive, SetAndNotify, HInv, TypeOK
  <2>2. CASE Head(stream) # infoMap
    BY <2>2 DEF Receive, SetAndNotify
  <2> QED BY <2>1, <2>2
<1>3. TypeOK'
  BY <1>1, <1>2 DEF Receive, HInv, TypeOK
<1>4. FeedInv'
  <2>1. UNCHANGED <<connected, service>> /\ stream' = Tail(stream)
    BY DEF Receive
  <2>2. connected => service = stream[Len(stream)]
    BY <1>1 DEF HInv, FeedInv
  <2>3. CASE Tail(stream) = <<>>
    BY <1>1, <1>2, <2>1, <2>2, <2>3, TailLast DEF FeedInv
  <2>4. CASE Tail(stream) # <<>>
    BY <1>1, <2>1, <2>2, <2>4, TailLast DEF FeedInv
  <2> QED BY <2>3, <2>4
<1>5. LoopInv'
  BY DEF Receive, HInv, LoopInv
<1>6. NoLostUpdate'
  <2>1. UNCHANGED <<loop, healths>>
    BY DEF Receive
  <2> QED BY <1>2, <2>1 DEF HInv, NoLostUpdate
<1> QED BY <1>3, <1>4, <1>5, <1>6 DEF HInv

\* The update loop and Stop.
LEMMA LoopHInv == ASSUME HInv, Loop \/ Stop \/ LoopStops PROVE HInv'
<1> USE DEF HInv, LoopInv, NoLostUpdate, FeedInv, feed, LoopSteps
<1>1. CASE TakeToken
  BY <1>1 DEF TakeToken, TypeOK
<1>2. CASE UpdateHealths
  <2>1. Overlay(infoMap) \in Health
    BY OverlayType DEF TypeOK
  <2> QED BY <1>2, <2>1 DEF UpdateHealths, TypeOK
<1>3. CASE UpdateDeviceStates
  BY <1>3 DEF UpdateDeviceStates, TypeOK
<1>4. CASE Snapshot
  BY <1>4 DEF Snapshot, TypeOK
<1>5. CASE Publish
  <2>1. TypeOK'
    BY <1>5 DEF Publish, TypeOK
  <2>2. FeedInv' /\ NoLostUpdate'
    BY <1>5 DEF Publish
  <2>3. LoopInv'
    BY <1>5 DEF Publish
  <2> QED BY <2>1, <2>2, <2>3
<1>6. CASE Stop
  BY <1>6 DEF Stop, TypeOK
<1>7. CASE LoopStops
  BY <1>7 DEF LoopStops, TypeOK
<1> QED BY <1>1, <1>2, <1>3, <1>4, <1>5, <1>6, <1>7 DEF Loop

-----------------------------------------------------------------------------
\* The inductive invariant holds in every state of every behaviour.
THEOREM HealthInvariance == Spec => []HInv
<1>1. ASSUME HInv, [Next]_vars PROVE HInv'
  <2>1. CASE UNCHANGED vars
    BY <1>1, <2>1 DEF HInv, TypeOK, FeedInv, LoopInv, NoLostUpdate, vars
  <2> QED BY <1>1, <2>1, ServiceHInv, ReceiveHInv, LoopHInv DEF Next
<1> QED BY <1>1, InitHInv, PTL DEF Spec

\* The state of listener and update loop stays well typed: every own device
\* always has a state to publish.
THEOREM HealthTypeCorrect == Spec => []TypeOK
<1>1. HInv => TypeOK
  BY DEF HInv
<1> QED BY <1>1, HealthInvariance, PTL

\* The update channel of capacity one loses no report, whatever the listener
\* stores between two steps of the loop and whether or not publishing fails.
THEOREM NoUpdateLost == Spec => []NoLostUpdate
<1>1. HInv => NoLostUpdate
  BY DEF HInv
<1> QED BY <1>1, HealthInvariance, PTL

\* At rest the slice shows what the service knows, unless the last attempt to
\* publish failed: no interleaving of listener and loop leaves it behind.
THEOREM SliceConverges == Spec => []Converged
<1>1. HInv => Converged
  BY DEF HInv, FeedInv, LoopInv, NoLostUpdate, Converged
<1> QED BY <1>1, HealthInvariance, PTL
=============================================================================

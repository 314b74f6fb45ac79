------------------------- MODULE HealthClientProofs -------------------------
(***************************************************************************)
(* Proofs about HealthClient for any number of goroutines, connections and *)
(* attempts.                                                               *)
(***************************************************************************)
EXTENDS HealthClient, TLAPS

Reconnecting(p) == pc[p] \in {"try", "r_check", "r_dial", "r_stream", "r_store", "done"}

\* The flag reconnecting admits one goroutine to the loop of attemptReconnect.
FlagInv == /\ \A p \in Procs : Reconnecting(p) => reconnecting
           /\ \A p, q \in Procs : Reconnecting(p) /\ Reconnecting(q) => p = q

\* While Start is at work there is no other goroutine.
StartInv == \A p \in Procs : Starting(p) => \A q \in Procs \ {p} : pc[q] = "dead"

\* Whoever has passed the check of running is the one to start the listener.
DialInv == \A p \in Procs :
    pc[p] \in {"s_dial", "s_stream", "s_store", "r_dial", "r_stream", "r_store"}
        => \A q \in Procs : ~ Listening(q)

\* An attempt is counted once it has failed.
TriesInv == \A p \in Procs :
    /\ pc[p] = "dead" \/ pc[p] = "cas" \/ Starting(p) => tries[p] = 0
    /\ pc[p] \in {"try", "r_check", "r_dial", "r_stream", "r_store"} => tries[p] < MaxAttempts

\* The part of RegisterAlone that says which connection a failed attempt closes.
OwnInv == \A p \in Procs : pc[p] \in {"s_stream", "r_stream"} => own[p] = conn

CInv == TypeOK /\ FlagInv /\ StartInv /\ DialInv /\ TriesInv /\ OwnInv /\ RunningTracksListener

-----------------------------------------------------------------------------
\* At most one goroutine is inside Register.
LEMMA OneRegisters ==
    ASSUME FlagInv, StartInv, NEW p \in Procs, NEW q \in Procs,
           pc[p] \in RegisterSteps, pc[q] \in RegisterSteps
    PROVE  p = q
BY DEF FlagInv, StartInv, Reconnecting, Starting, RegisterSteps

LEMMA InitCInv == Init => CInv
<1> SUFFICES ASSUME Init PROVE CInv
  OBVIOUS
<1>1. PICK s \in Procs : pc = [q \in Procs |-> IF q = s THEN "s_check" ELSE "dead"]
  BY DEF Init
<1>2. TypeOK
  <2>1. pc \in [Procs -> Steps]
    BY <1>1 DEF Steps, RegisterSteps
  <2>2. tries \in [Procs -> 0 .. MaxAttempts]
    BY MaxAttemptsAssumption DEF Init
  <2>3. {server, quit, ctxDone, running, reconnecting} \subseteq BOOLEAN
    BY DEF Init
  <2> QED BY <2>1, <2>2, <2>3 DEF Init, TypeOK
<1>3. FlagInv /\ StartInv /\ DialInv /\ OwnInv
  BY <1>1 DEF FlagInv, StartInv, DialInv, OwnInv, Reconnecting, Starting
<1>4. TriesInv
  BY <1>1 DEF Init, TriesInv
<1>5. RunningTracksListener
  BY <1>1 DEF Init, RunningTracksListener, Listening
<1> QED BY <1>2, <1>3, <1>4, <1>5 DEF CInv

\* A step of the service or of the client's owner moves no goroutine.
LEMMA EnvCInv == ASSUME CInv, ServerStop \/ ServerStart \/ Stop \/ Cancel PROVE CInv'
<1>1. UNCHANGED <<running, reconnecting, conn, open, pc, own, tries>>
  BY DEF ServerStop, ServerStart, Stop, Cancel
<1>2. /\ {server', quit', ctxDone', running', reconnecting'} \subseteq BOOLEAN
      /\ live' = live \/ live' = {}
  BY DEF ServerStop, ServerStart, Stop, Cancel, CInv, TypeOK
<1>3. TypeOK'
  BY <1>1, <1>2 DEF CInv, TypeOK
<1> QED BY <1>1, <1>3 DEF CInv, FlagInv, StartInv, DialInv, TriesInv, OwnInv,
           RunningTracksListener, Reconnecting, Starting, Listening

\* Every step of a goroutine keeps the state well typed; an attempt is counted at
\* most MaxAttempts times.
LEMMA StepTyped ==
    ASSUME CInv, NEW p \in Procs, Run(p) \/ QuitSeen(p) \/ Recovers(p)
    PROVE  TypeOK'
<1> USE MaxAttemptsAssumption DEF CInv, TypeOK, TriesInv
<1>1. CASE CheckRunning(p)
  BY <1>1 DEF CheckRunning, env, At, Starting, AfterSuccess, Move, Steps, RegisterSteps
<1>2. CASE Dial(p)
  BY <1>2 DEF Dial, env, At, Starting, Steps, RegisterSteps
<1>3. CASE NoCredentials(p)
  BY <1>3 DEF NoCredentials, env, At, Starting, Failed, Steps, RegisterSteps
<1>4. CASE OpenStream(p)
  BY <1>4 DEF OpenStream, env, At, Starting, Failed, Move, CloseConn, Steps, RegisterSteps
<1>5. CASE StoreRunning(p)
  BY <1>5 DEF StoreRunning, env, At, Starting, AfterSuccess, Spawn, Steps, RegisterSteps
<1>6. CASE StreamBreaks(p)
  BY <1>6 DEF StreamBreaks, env, Move, Spawn, Stopping, Steps, RegisterSteps
<1>7. CASE QuitSeen(p)
  BY <1>7 DEF QuitSeen, env, Move, Steps, RegisterSteps
<1>8. CASE Recovers(p)
  BY <1>8 DEF Recovers, env, Move, Steps, RegisterSteps
<1>9. CASE ClearRunning(p)
  BY <1>9 DEF ClearRunning, env, Move, Steps, RegisterSteps
<1>10. CASE CloseOnReturn(p)
  BY <1>10 DEF CloseOnReturn, env, Move, CloseConn, Steps, RegisterSteps
<1>11. CASE CompareAndSwap(p)
  BY <1>11 DEF CompareAndSwap, env, Move, Steps, RegisterSteps
<1>12. CASE Try(p)
  BY <1>12 DEF Try, env, Move, Steps, RegisterSteps
<1>13. CASE EndReconnect(p)
  <2>1. pc' \in [Procs -> Steps] /\ tries' \in [Procs -> 0 .. MaxAttempts]
    BY <1>13 DEF EndReconnect, Move, Steps
  <2>2. {server', quit', ctxDone', running', reconnecting'} \subseteq BOOLEAN
    BY <1>13 DEF EndReconnect, env
  <2> QED BY <1>13, <2>1, <2>2 DEF EndReconnect, Move
<1> QED BY <1>1, <1>2, <1>3, <1>4, <1>5, <1>6, <1>7, <1>8, <1>9, <1>10, <1>11, <1>12, <1>13
     DEF Run, Register, Listen, Reconnect

\* The compare-and-swap lets a goroutine into the loop only when nobody is there;
\* no goroutine is started while Start is at work.
LEMMA StepFlag ==
    ASSUME CInv, NEW p \in Procs, Run(p) \/ QuitSeen(p) \/ Recovers(p)
    PROVE  FlagInv' /\ StartInv'
<1> USE DEF CInv, TypeOK, FlagInv, StartInv, Reconnecting, Starting
<1>1. CASE CheckRunning(p)
  BY <1>1 DEF CheckRunning, env, At, Starting, AfterSuccess, Move
<1>2. CASE Dial(p)
  BY <1>2 DEF Dial, env, At, Starting
<1>3. CASE NoCredentials(p)
  BY <1>3 DEF NoCredentials, env, At, Starting, Failed
<1>4. CASE OpenStream(p)
  BY <1>4 DEF OpenStream, env, At, Starting, Failed, Move, CloseConn
<1>5. CASE StoreRunning(p)
  BY <1>5 DEF StoreRunning, env, At, Starting, AfterSuccess, Spawn
<1>6. CASE StreamBreaks(p)
  BY <1>6 DEF StreamBreaks, env, Move, Spawn, Stopping
<1>7. CASE QuitSeen(p)
  BY <1>7 DEF QuitSeen, env, Move
<1>8. CASE Recovers(p)
  BY <1>8 DEF Recovers, env, Move
<1>9. CASE ClearRunning(p)
  BY <1>9 DEF ClearRunning, env, Move
<1>10. CASE CloseOnReturn(p)
  BY <1>10 DEF CloseOnReturn, env, Move, CloseConn
<1>11. CASE CompareAndSwap(p)
  BY <1>11 DEF CompareAndSwap, env, Move
<1>12. CASE Try(p)
  BY <1>12 DEF Try, env, Move
<1>13. CASE EndReconnect(p)
  BY <1>13 DEF EndReconnect, env, Move
<1> QED BY <1>1, <1>2, <1>3, <1>4, <1>5, <1>6, <1>7, <1>8, <1>9, <1>10, <1>11, <1>12, <1>13
     DEF Run, Register, Listen, Reconnect

\* A listener is started by the one goroutine that found running cleared, and
\* running is cleared by the listener that is leaving.
LEMMA StepListen ==
    ASSUME CInv, NEW p \in Procs, Run(p) \/ QuitSeen(p) \/ Recovers(p)
    PROVE  DialInv' /\ RunningTracksListener'
<1> USE DEF CInv, TypeOK, FlagInv, StartInv, DialInv, RunningTracksListener, Reconnecting, Starting, Listening
<1>1. CASE CheckRunning(p)
  BY <1>1 DEF CheckRunning, env, At, Starting, AfterSuccess, Move
<1>2. CASE Dial(p)
  BY <1>2 DEF Dial, env, At, Starting
<1>3. CASE NoCredentials(p)
  BY <1>3 DEF NoCredentials, env, At, Starting, Failed
<1>4. CASE OpenStream(p)
  BY <1>4 DEF OpenStream, env, At, Starting, Failed, Move, CloseConn
<1>5. CASE StoreRunning(p)
  BY <1>5 DEF StoreRunning, env, At, Starting, AfterSuccess, Spawn
<1>6. CASE StreamBreaks(p)
  BY <1>6 DEF StreamBreaks, env, Move, Spawn, Stopping
<1>7. CASE QuitSeen(p)
  BY <1>7 DEF QuitSeen, env, Move
<1>8. CASE Recovers(p)
  BY <1>8 DEF Recovers, env, Move
<1>9. CASE ClearRunning(p)
  BY <1>9 DEF ClearRunning, env, Move
<1>10. CASE CloseOnReturn(p)
  BY <1>10 DEF CloseOnReturn, env, Move, CloseConn
<1>11. CASE CompareAndSwap(p)
  BY <1>11 DEF CompareAndSwap, env, Move
<1>12. CASE Try(p)
  BY <1>12 DEF Try, env, Move
<1>13. CASE EndReconnect(p)
  BY <1>13 DEF EndReconnect, env, Move
<1> QED BY <1>1, <1>2, <1>3, <1>4, <1>5, <1>6, <1>7, <1>8, <1>9, <1>10, <1>11, <1>12, <1>13
     DEF Run, Register, Listen, Reconnect

\* Attempts are counted from zero, and the last one ends the loop.
LEMMA StepTries ==
    ASSUME CInv, NEW p \in Procs, Run(p) \/ QuitSeen(p) \/ Recovers(p)
    PROVE  TriesInv'
<1> USE MaxAttemptsAssumption DEF CInv, TypeOK, TriesInv, Starting
<1>1. CASE CheckRunning(p)
  BY <1>1 DEF CheckRunning, env, At, Starting, AfterSuccess, Move
<1>2. CASE Dial(p)
  BY <1>2 DEF Dial, env, At, Starting
<1>3. CASE NoCredentials(p)
  BY <1>3 DEF NoCredentials, env, At, Starting, Failed
<1>4. CASE OpenStream(p)
  BY <1>4 DEF OpenStream, env, At, Starting, Failed, Move, CloseConn
<1>5. CASE StoreRunning(p)
  BY <1>5 DEF StoreRunning, env, At, Starting, AfterSuccess, Spawn
<1>6. CASE StreamBreaks(p)
  BY <1>6 DEF StreamBreaks, env, Move, Spawn, Stopping
<1>7. CASE QuitSeen(p)
  BY <1>7 DEF QuitSeen, env, Move
<1>8. CASE Recovers(p)
  BY <1>8 DEF Recovers, env, Move
<1>9. CASE ClearRunning(p)
  BY <1>9 DEF ClearRunning, env, Move
<1>10. CASE CloseOnReturn(p)
  BY <1>10 DEF CloseOnReturn, env, Move, CloseConn
<1>11. CASE CompareAndSwap(p)
  BY <1>11 DEF CompareAndSwap, env, Move
<1>12. CASE Try(p)
  BY <1>12 DEF Try, env, Move
<1>13. CASE EndReconnect(p)
  BY <1>13 DEF EndReconnect, env, Move
<1> QED BY <1>1, <1>2, <1>3, <1>4, <1>5, <1>6, <1>7, <1>8, <1>9, <1>10, <1>11, <1>12, <1>13
     DEF Run, Register, Listen, Reconnect

\* t.conn is replaced only by the goroutine inside Register.
LEMMA StepOwn ==
    ASSUME CInv, NEW p \in Procs, Run(p) \/ QuitSeen(p) \/ Recovers(p)
    PROVE  OwnInv'
<1> USE DEF CInv, TypeOK, OwnInv, FlagInv, StartInv, Reconnecting, Starting
<1>1. CASE CheckRunning(p)
  BY <1>1 DEF CheckRunning, env, At, Starting, AfterSuccess, Move
<1>2. CASE Dial(p)
  BY <1>2 DEF Dial, env, At, Starting
<1>3. CASE NoCredentials(p)
  BY <1>3 DEF NoCredentials, env, At, Starting, Failed
<1>4. CASE OpenStream(p)
  BY <1>4 DEF OpenStream, env, At, Starting, Failed, Move, CloseConn
<1>5. CASE StoreRunning(p)
  BY <1>5 DEF StoreRunning, env, At, Starting, AfterSuccess, Spawn
<1>6. CASE StreamBreaks(p)
  BY <1>6 DEF StreamBreaks, env, Move, Spawn, Stopping
<1>7. CASE QuitSeen(p)
  BY <1>7 DEF QuitSeen, env, Move
<1>8. CASE Recovers(p)
  BY <1>8 DEF Recovers, env, Move
<1>9. CASE ClearRunning(p)
  BY <1>9 DEF ClearRunning, env, Move
<1>10. CASE CloseOnReturn(p)
  BY <1>10 DEF CloseOnReturn, env, Move, CloseConn
<1>11. CASE CompareAndSwap(p)
  BY <1>11 DEF CompareAndSwap, env, Move
<1>12. CASE Try(p)
  BY <1>12 DEF Try, env, Move
<1>13. CASE EndReconnect(p)
  BY <1>13 DEF EndReconnect, env, Move
<1> QED BY <1>1, <1>2, <1>3, <1>4, <1>5, <1>6, <1>7, <1>8, <1>9, <1>10, <1>11, <1>12, <1>13
     DEF Run, Register, Listen, Reconnect

-----------------------------------------------------------------------------
\* The inductive invariant holds in every state of every behaviour.
THEOREM ClientInvariance == Spec => []CInv
<1>1. ASSUME CInv, [Next]_vars PROVE CInv'
  <2>1. CASE UNCHANGED vars
    BY <1>1, <2>1 DEF vars, CInv, TypeOK, FlagInv, StartInv, DialInv, TriesInv,
          OwnInv, RunningTracksListener, Reconnecting, Starting, Listening
  <2>2. CASE ServerStop \/ ServerStart \/ Stop \/ Cancel
    BY <1>1, <2>2, EnvCInv
  <2>3. ASSUME NEW p \in Procs, Run(p) \/ QuitSeen(p) \/ Recovers(p) PROVE CInv'
    BY <1>1, <2>3, StepTyped, StepFlag, StepListen, StepTries, StepOwn DEF CInv
  <2> QED BY <1>1, <2>1, <2>2, <2>3 DEF Next
<1> QED BY <1>1, InitCInv, PTL DEF Spec

\* The flags, connections and goroutines stay well typed; in particular no
\* reconnection makes more than maxReconnectAttempts attempts.
THEOREM ClientTypeCorrect == Spec => []TypeOK
<1>1. CInv => TypeOK
  BY DEF CInv
<1> QED BY <1>1, ClientInvariance, PTL

\* running tells the truth, and two listeners never apply reports side by side,
\* although an old listener cleans up while its successor registers.
THEOREM OneListener == Spec => []RunningTracksListener
<1>1. CInv => RunningTracksListener
  BY DEF CInv
<1> QED BY <1>1, ClientInvariance, PTL

\* Registrations never overlap, so a failed one closes its own connection.
THEOREM OneRegistration == Spec => []RegisterAlone
<1>1. CInv => RegisterAlone
  BY OneRegisters DEF CInv, OwnInv, RegisterAlone
<1> QED BY <1>1, ClientInvariance, PTL
=============================================================================

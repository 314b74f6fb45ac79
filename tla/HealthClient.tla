---------------------------- MODULE HealthClient ----------------------------
(***************************************************************************)
(* SpyreHealthClient (internal/health/health_client.go): the goroutines of *)
(* Start, listen and attemptReconnect, which share the flags running and   *)
(* reconnecting and the connection t.conn, against a health service that   *)
(* goes away and comes back.  What the reports say is in HealthMonitor.    *)
(***************************************************************************)
EXTENDS Naturals, FiniteSets

CONSTANTS
    Procs,       \* bound on goroutines alive at a time
    Conns,       \* gRPC connections; one that nobody can reach is forgotten
    None,        \* no connection
    MaxAttempts, \* maxReconnectAttempts
    Malformed    \* the service may send a report that listen cannot read

ASSUME ConnsAssumption == None \notin Conns
ASSUME MaxAttemptsAssumption == MaxAttempts \in Nat \ {0}
ASSUME MalformedAssumption == Malformed \in BOOLEAN

VARIABLES
    server,        \* the health service accepts calls
    quit,          \* the quit channel is closed
    ctxDone,       \* the context is cancelled
    running,       \* t.running
    reconnecting,  \* t.reconnecting
    conn,          \* t.conn
    open,          \* connections that are not closed
    live,          \* connections whose event stream is intact
    pc,            \* control state of each goroutine, "dead" for a free slot
    own,           \* the connection its client or stream was made from
    tries          \* failed attempts of attemptReconnect, or of Start's Register

env == <<server, quit, ctxDone>>
vars == <<server, quit, ctxDone, running, reconnecting, conn, open, live,
          pc, own, tries>>

\* Register is called by Start ("s_...") and by attemptReconnect ("r_...").
RegisterSteps == {"s_check", "s_dial", "s_stream", "s_store",
                  "r_check", "r_dial", "r_stream", "r_store"}
Steps == RegisterSteps \cup {"dead", "cas", "try", "done", "recv", "clear", "close"}

\* The types of the state; no goroutine makes more than MaxAttempts attempts.
TypeOK ==
    /\ {server, quit, ctxDone, running, reconnecting} \subseteq BOOLEAN
    /\ conn \in Conns \cup {None}
    /\ live \subseteq open /\ open \subseteq Conns
    /\ pc \in [Procs -> Steps]
    /\ own \in [Procs -> Conns \cup {None}]
    /\ tries \in [Procs -> 0 .. MaxAttempts]

\* Start is about to call Register.
Init ==
    /\ server \in BOOLEAN /\ quit = FALSE /\ ctxDone = FALSE
    /\ running = FALSE /\ reconnecting = FALSE
    /\ conn = None /\ open = {} /\ live = {}
    /\ \E p \in Procs : pc = [q \in Procs |-> IF q = p THEN "s_check" ELSE "dead"]
    /\ own = [p \in Procs |-> None]
    /\ tries = [p \in Procs |-> 0]

Stopping == quit \/ ctxDone
Starting(p) == pc[p] \in {"s_check", "s_dial", "s_stream", "s_store"}
At(p, s, r) == pc[p] = s \/ pc[p] = r

\* p goes on to step s.  A goroutine q, if there is one, starts with step t.
Move(p, s) == /\ pc' = [pc EXCEPT ![p] = s]
              /\ own' = [own EXCEPT ![p] = IF s = "dead" THEN None ELSE @]
              /\ tries' = [tries EXCEPT ![p] = IF s = "dead" THEN 0 ELSE @]
Spawn(p, s, q, t) == /\ pc[q] = "dead"
                     /\ pc' = [pc EXCEPT ![p] = s, ![q] = t]
                     /\ own' = [own EXCEPT ![p] = IF s = "dead" THEN None ELSE @,
                                           ![q] = IF t = "recv" THEN own[p] ELSE None]
                     /\ tries' = [tries EXCEPT ![p] = IF s = "dead" THEN 0 ELSE @]

\* Close whatever t.conn is now.
CloseConn == open' = open \ {conn} /\ live' = live \ {conn}

-----------------------------------------------------------------------------
(* Register.                                                               *)

\* Mutant: attemptReconnect returns without its deferred reset.
ReturnsAtOnce(p) == "dead"

\* Start returns on success; attemptReconnect ends.
AfterSuccess(p) == IF Starting(p) THEN "dead" ELSE "done"

\* Mutant: the last attempt is not told from the others.
RetriesForever(p) ==
    IF Starting(p)
      THEN pc' = [pc EXCEPT ![p] = "cas"] /\ UNCHANGED tries
      ELSE /\ tries' = [tries EXCEPT ![p] = @ + 1]
           /\ pc' = [pc EXCEPT ![p] = "try"]

\* Start starts attemptReconnect in the background; attemptReconnect counts the
\* attempt and gives up after the last.
Failed(p) ==
    IF Starting(p)
      THEN pc' = [pc EXCEPT ![p] = "cas"] /\ UNCHANGED tries
      ELSE /\ tries' = [tries EXCEPT ![p] = @ + 1]
           /\ pc' = [pc EXCEPT ![p] = IF tries[p] + 1 < MaxAttempts THEN "try" ELSE "done"]

\* Mutant: Register does not look at running.
SkipsRunningCheck(p) ==
    /\ At(p, "s_check", "r_check")
    /\ Move(p, IF Starting(p) THEN "s_dial" ELSE "r_dial")
    /\ UNCHANGED <<env, running, reconnecting, conn, open, live>>

\* A running client is not registered again.
CheckRunning(p) ==
    /\ At(p, "s_check", "r_check")
    /\ Move(p, IF running THEN AfterSuccess(p)
               ELSE IF Starting(p) THEN "s_dial" ELSE "r_dial")
    /\ UNCHANGED <<env, running, reconnecting, conn, open, live>>

\* Mutant: the connection of an earlier registration is kept.
DialKeepsConn(p) ==
    /\ At(p, "s_dial", "r_dial")
    /\ \E c \in Conns \ ({conn} \cup {own[q] : q \in Procs}) :
          /\ conn' = IF conn = None THEN c ELSE conn
          /\ open' = open \cup {c}
          /\ live' = live \ {c}
          /\ own' = [own EXCEPT ![p] = c]
    /\ pc' = [pc EXCEPT ![p] = IF Starting(p) THEN "s_stream" ELSE "r_stream"]
    /\ UNCHANGED <<env, running, reconnecting, tries>>

\* NewClient does not connect yet; t.conn is replaced, not closed.
Dial(p) ==
    /\ At(p, "s_dial", "r_dial")
    /\ \E c \in Conns \ ({conn} \cup {own[q] : q \in Procs}) :
          /\ conn' = c
          /\ open' = open \cup {c}
          /\ live' = live \ {c}
          /\ own' = [own EXCEPT ![p] = c]
    /\ pc' = [pc EXCEPT ![p] = IF Starting(p) THEN "s_stream" ELSE "r_stream"]
    /\ UNCHANGED <<env, running, reconnecting, tries>>

\* The TLS files are missing or unreadable.  A socket name that grpc.NewClient refuses
\* (then at every attempt, so that there never is a connection) is the same here.
NoCredentials(p) ==
    /\ At(p, "s_dial", "r_dial")
    /\ Failed(p)
    /\ UNCHANGED <<env, running, reconnecting, conn, open, live, own>>

OpenStream(p) ==
    /\ At(p, "s_stream", "r_stream")
    /\ \/ /\ server /\ ~ ctxDone /\ own[p] \in open
          /\ live' = live \cup {own[p]}
          /\ Move(p, IF Starting(p) THEN "s_store" ELSE "r_store")
          /\ UNCHANGED open
       \/ /\ ~ server \/ ctxDone \/ own[p] \notin open
          /\ CloseConn
          /\ Failed(p) /\ UNCHANGED own
    /\ UNCHANGED <<env, running, reconnecting, conn>>

\* running is set and the listener started.
StoreRunning(p) ==
    /\ At(p, "s_store", "r_store")
    /\ running' = TRUE
    /\ \E q \in Procs : Spawn(p, AfterSuccess(p), q, "recv")
    /\ UNCHANGED <<env, reconnecting, conn, open, live>>

-----------------------------------------------------------------------------
(* listen.                                                                 *)

\* Recv fails: on EOF the reconnection is started at once, on another error
\* only when the client is not stopping.  Then the deferred function runs.
StreamBreaks(p) ==
    /\ pc[p] = "recv" /\ own[p] \notin live
    /\ \/ /\ own[p] \in open \/ ~ Stopping
          /\ \E q \in Procs : Spawn(p, "clear", q, "cas")
       \/ Stopping /\ Move(p, "clear")
    /\ UNCHANGED <<env, running, reconnecting, conn, open, live>>

\* A report arrives after Stop: the listener returns.
QuitSeen(p) ==
    /\ pc[p] = "recv" /\ own[p] \in live /\ Stopping
    /\ Move(p, "clear")
    /\ UNCHANGED <<env, running, reconnecting, conn, open, live>>

\* Reading a report panics (a device without DeviceID): the deferred function
\* recovers, and nothing starts a reconnection.
Recovers(p) ==
    /\ Malformed /\ pc[p] = "recv" /\ own[p] \in live /\ ~ Stopping
    /\ Move(p, "clear")
    /\ UNCHANGED <<env, running, reconnecting, conn, open, live>>

ClearRunning(p) ==
    /\ pc[p] = "clear"
    /\ running' = FALSE
    /\ Move(p, "close")
    /\ UNCHANGED <<env, reconnecting, conn, open, live>>

CloseOnReturn(p) ==
    /\ pc[p] = "close"
    /\ CloseConn
    /\ Move(p, "dead")
    /\ UNCHANGED <<env, running, reconnecting, conn>>

-----------------------------------------------------------------------------
(* attemptReconnect.                                                       *)

\* Only one reconnection at a time.
CompareAndSwap(p) ==
    /\ pc[p] = "cas"
    /\ Move(p, IF reconnecting THEN "dead" ELSE "try")
    /\ reconnecting' = TRUE
    /\ UNCHANGED <<env, running, conn, open, live>>

\* Mutant: the quit case breaks out of the select, not out of the loop.
TryBreaksSelect(p) ==
    /\ pc[p] = "try"
    /\ Move(p, IF Stopping THEN "try" ELSE "r_check")
    /\ UNCHANGED <<env, running, reconnecting, conn, open, live>>

\* Check for Stop, wait for the backoff (not before the first attempt), and
\* call Register.
Try(p) ==
    /\ pc[p] = "try"
    /\ Move(p, IF Stopping THEN "done" ELSE "r_check")
    /\ UNCHANGED <<env, running, reconnecting, conn, open, live>>

EndReconnect(p) ==
    /\ pc[p] = "done"
    /\ reconnecting' = FALSE
    /\ Move(p, "dead")
    /\ UNCHANGED <<env, running, conn, open, live>>

-----------------------------------------------------------------------------
(* The health service (external) and the owner of the client.              *)

ServerStop ==
    /\ server
    /\ server' = FALSE /\ live' = {}
    /\ UNCHANGED <<quit, ctxDone, running, reconnecting, conn, open, pc, own, tries>>

ServerStart ==
    /\ ~ server /\ server' = TRUE
    /\ UNCHANGED <<quit, ctxDone, running, reconnecting, conn, open, live, pc, own, tries>>

Stop ==
    /\ ~ quit /\ quit' = TRUE
    /\ UNCHANGED <<server, ctxDone, running, reconnecting, conn, open, live, pc, own, tries>>

\* Cancelling the context ends every stream.
Cancel ==
    /\ ~ ctxDone
    /\ ctxDone' = TRUE /\ live' = {}
    /\ UNCHANGED <<server, quit, running, reconnecting, conn, open, pc, own, tries>>

Register(p) == CheckRunning(p) \/ Dial(p) \/ NoCredentials(p) \/ OpenStream(p) \/ StoreRunning(p)
Listen(p) == StreamBreaks(p) \/ ClearRunning(p) \/ CloseOnReturn(p)
Reconnect(p) == CompareAndSwap(p) \/ Try(p) \/ EndReconnect(p)
Run(p) == Register(p) \/ Listen(p) \/ Reconnect(p)

Next == \/ ServerStop \/ ServerStart \/ Stop \/ Cancel
        \/ \E p \in Procs : Run(p) \/ QuitSeen(p) \/ Recovers(p)

Spec == Init /\ [][Next]_vars

\* The Go scheduler runs every goroutine; a report may never come.
Fairness == \A p \in Procs : WF_vars(Run(p))
FairSpec == Spec /\ Fairness

-----------------------------------------------------------------------------
(* Properties.                                                             *)

Listening(p) == pc[p] \in {"recv", "clear"}

\* running says whether there is a listener, and there is at most one: an old
\* listener that still has to clear the flag never clears it for a new one, and
\* reports are never applied by two goroutines in an order of their own.
RunningTracksListener ==
    /\ running <=> \E p \in Procs : Listening(p)
    /\ \A p, q \in Procs : Listening(p) /\ Listening(q) => p = q

\* Only one goroutine at a time is inside Register, and it replaces t.conn, so
\* a failed attempt closes its own connection and no other.
RegisterAlone ==
    /\ \A p, q \in Procs : pc[p] \in RegisterSteps /\ pc[q] \in RegisterSteps => p = q
    /\ \A p \in Procs : pc[p] \in {"s_stream", "r_stream"} => own[p] = conn

\* Cancelling the context ends every goroutine, listeners and attempts alike.
CancelEndsAll == ctxDone ~> \A p \in Procs : pc[p] = "dead"

\* The flag that keeps a second attempt out is always released.
ReconnectingReleased == reconnecting ~> ~ reconnecting

\* The test "should reconnect after server restart": a client that is not
\* stopped, and has not used up its attempts, is connected again once the
\* service is up to stay.
GaveUp == \E p \in Procs : tries[p] = MaxAttempts
Reconnects ==
    []~ GaveUp /\ []~ Stopping /\ <>[]server =>
        <>[](\E p \in Procs : pc[p] = "recv" /\ own[p] \in live)

\* The test "should stop reconnection attempts when quit signal is received":
\* a client that is stopped while it reconnects does not run again.
StaysStopped == [][quit /\ reconnecting /\ ~ running => ~ running']_vars
=============================================================================

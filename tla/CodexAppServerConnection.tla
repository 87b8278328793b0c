---------------------- MODULE CodexAppServerConnection ----------------------
(***************************************************************************)
(* The recoverable connection to the Codex app-server                      *)
(* (codex_app_server_connection.py): generations, the single recovery      *)
(* task, invalidation and close, and of codex_app_server.py and            *)
(* codex_app_server_transport.py the life of the server process.           *)
(*                                                                         *)
(* The lifecycle lock is never held across a suspension, so a section      *)
(* under it is part of the step that runs it.  What remains are the points *)
(* where the recovery task, the callers of start() and close() really wait.*)
(*                                                                         *)
(* The client that _recover makes for generation g is named by g; 0 stands *)
(* for None.  An error is named by the generation that it was raised by.   *)
(***************************************************************************)
EXTENDS Naturals

CONSTANTS
    Starters,        \* the callers of start()
    MaxGeneration    \* bound on the clients that are made

ASSUME MaxGenerationAssumption == MaxGeneration \in Nat \ {0}

VARIABLES
    conn,      \* the fields of CodexAppServerConnection
    recovery,  \* _recovery_task and where it is suspended
    server,    \* the process behind each client
    starter,   \* the callers suspended in start()
    closer     \* where close() is suspended

connectionVars == <<conn, recovery, server, starter, closer>>

Generations == 1..MaxGeneration

Connection == [generation : 0..(MaxGeneration + 1), stale : BOOLEAN, closed : BOOLEAN,
               failure : 0..(MaxGeneration + 1), client : 0..MaxGeneration]

\* "created": not yet run; "closing_old", "starting", "closing_new": suspended in
\* old_client.close(), client.start() and the client.close() of the except clause.
Recovery == [at : {"none", "created", "closing_old", "starting", "closing_new", "done"},
             generation : 0..MaxGeneration, old : 0..MaxGeneration,
             error : 0..(MaxGeneration + 1), cancelled : BOOLEAN]

\* "closing": its stdin was closed and its end is awaited; "cut": that wait was
\* cancelled, so it is never terminated; "exited": it ended by itself.
Server == {"absent", "running", "exited", "closing", "cut", "closed"}

\* "resumed": the recovery is done and the caller's wake-up is queued.
Starter == [at : {"none", "waiting", "resumed"}, client : 0..MaxGeneration,
            error : 0..(MaxGeneration + 1)]

Closer == [at : {"none", "recovery", "client", "done"}, client : 0..MaxGeneration]

ConnectionTypeOK ==
    /\ conn \in Connection
    /\ recovery \in Recovery
    /\ server \in [Generations -> Server]
    /\ starter \in [Starters -> Starter]
    /\ closer \in Closer

-----------------------------------------------------------------------------
NotStarting == [at |-> "none", client |-> 0, error |-> 0]

ConnectionInit ==
    /\ conn = [generation |-> 0, stale |-> TRUE, closed |-> FALSE, failure |-> 0, client |-> 0]
    /\ recovery = [at |-> "none", generation |-> 0, old |-> 0, error |-> 0, cancelled |-> FALSE]
    /\ server = [g \in Generations |-> "absent"]
    /\ starter = [s \in Starters |-> NotStarting]
    /\ closer = [at |-> "none", client |-> 0]

Recovering == recovery.at \notin {"none", "done"}

Current(g) == g = conn.generation /\ ~conn.stale

client_for(g) == IF Current(g) THEN conn.client ELSE 0

\* Mutant of Invalidated: the generation is not compared.
InvalidatedAny(g, error) == [conn EXCEPT !.stale = TRUE, !.failure = error]

\* The effect of invalidate(g, error) on the fields.
Invalidated(g, error) ==
    IF g = conn.generation THEN [conn EXCEPT !.stale = TRUE, !.failure = error] ELSE conn

\* client.close() of generation g: a running process is asked to end.
Closing(g) ==
    IF g # 0 /\ server[g] = "running" THEN [server EXCEPT ![g] = "closing"] ELSE server

\* client.close() was cancelled: nobody waits for the process any more.
Cut(g) ==
    IF server[g] = "closing" THEN [server EXCEPT ![g] = "cut"] ELSE server

-----------------------------------------------------------------------------
\* start(): there is a client, or a recovery to wait for, or one is created.
StartReturns(s) ==
    /\ starter[s].at = "none"
    /\ ~conn.closed /\ conn.client # 0 /\ ~conn.stale
    /\ UNCHANGED connectionVars

StartWaits(s) ==
    /\ starter[s].at = "none"
    /\ ~conn.closed /\ (conn.client = 0 \/ conn.stale)
    /\ Recovering \/ conn.generation < MaxGeneration
    /\ starter' = [starter EXCEPT ![s].at = "waiting"]
    /\ recovery' = IF Recovering THEN recovery
                   ELSE [at |-> "created", generation |-> 0, old |-> 0, error |-> 0,
                         cancelled |-> FALSE]
    /\ UNCHANGED <<conn, server, closer>>

\* The caller of start() is resumed with the recovery's client, or it is cancelled; the
\* recovery is shielded from that.
StartResumes(s) ==
    /\ starter[s].at = "resumed" /\ starter[s].client # 0
    /\ starter' = [starter EXCEPT ![s] = NotStarting]
    /\ UNCHANGED <<conn, recovery, server, closer>>

\* It is resumed with an error.  Its caller, _start_client() of the runtime, then reports
\* the generation that is current by now, if the error is one of the connection's.
StartRaises(s) ==
    /\ starter[s].at = "resumed" /\ starter[s].client = 0
    /\ starter' = [starter EXCEPT ![s] = NotStarting]
    /\ conn' \in {conn, Invalidated(conn.generation, starter[s].error)}
    /\ UNCHANGED <<recovery, server, closer>>

StartAbandoned(s) ==
    /\ starter[s].at # "none"
    /\ starter' = [starter EXCEPT ![s] = NotStarting]
    /\ UNCHANGED <<conn, recovery, server, closer>>

\* invalidate(): somebody reports that generation g failed.
Invalidate(g, error) ==
    /\ conn' = Invalidated(g, error)
    /\ UNCHANGED <<recovery, server, starter, closer>>

-----------------------------------------------------------------------------
\* The recovery task ends, and everybody who waits for it will be resumed.
RecoveryDone(client, error) ==
    /\ recovery' = [recovery EXCEPT !.at = "done", !.error = error]
    /\ starter' = [s \in Starters |->
          IF starter[s].at = "waiting"
          THEN [at |-> "resumed", client |-> client, error |-> error] ELSE starter[s]]

\* Mutant of RecoverBegins: the new client is made while the old one is closing.
RecoverInParallel ==
    /\ recovery.at = "created" /\ ~recovery.cancelled
    /\ \A s \in Starters : starter[s].at = "resumed" => starter[s].client = 0
    /\ LET g == conn.generation + 1 IN
       /\ conn' = [conn EXCEPT !.generation = g, !.client = 0, !.stale = FALSE, !.failure = 0]
       /\ recovery' = [recovery EXCEPT !.at = "starting", !.generation = g]
       /\ server' = [Closing(conn.client) EXCEPT ![g] = "running"]
    /\ UNCHANGED <<starter, closer>>

\* _recover takes the old client out and opens a generation.  Callbacks run in the
\* order in which they were queued: those whom the last recovery gave a client are
\* resumed before anybody can find that client failed and start a new recovery.
\* Those whom it gave an error need not be.
RecoverBegins ==
    /\ recovery.at = "created" /\ ~recovery.cancelled
    /\ \A s \in Starters : starter[s].at = "resumed" => starter[s].client = 0
    /\ conn' = [generation |-> conn.generation + 1, stale |-> FALSE, closed |-> conn.closed,
                failure |-> 0, client |-> 0]
    /\ recovery' = [at |-> IF conn.client # 0 THEN "closing_old" ELSE "starting",
                    generation |-> conn.generation + 1, old |-> conn.client, error |-> 0,
                    cancelled |-> FALSE]
    /\ server' = IF conn.client # 0 THEN Closing(conn.client)
                 ELSE [server EXCEPT ![conn.generation + 1] = "running"]
    /\ UNCHANGED <<starter, closer>>

\* The old client is closed; only then the factory makes a new one.
OldClientClosed ==
    /\ recovery.at = "closing_old" /\ ~recovery.cancelled
    /\ recovery' = [recovery EXCEPT !.at = "starting"]
    /\ server' = [server EXCEPT ![recovery.old] = "closed", ![recovery.generation] = "running"]
    /\ UNCHANGED <<conn, starter, closer>>

\* client.start() returned: the client is published, unless its generation was
\* invalidated meanwhile.
ClientStarted ==
    /\ recovery.at = "starting" /\ ~recovery.cancelled
    /\ server[recovery.generation] = "running"
    /\ IF Current(recovery.generation)
       THEN /\ conn' = [conn EXCEPT !.client = recovery.generation]
            /\ RecoveryDone(recovery.generation, 0)
            /\ UNCHANGED server
       ELSE /\ recovery' = [recovery EXCEPT !.at = "closing_new", !.error = conn.failure]
            /\ server' = Closing(recovery.generation)
            /\ UNCHANGED <<conn, starter>>
    /\ UNCHANGED closer

\* client.start() raised: no process, no answer, or a protocol that does not fit.
ClientStartFails ==
    /\ recovery.at = "starting" /\ ~recovery.cancelled
    /\ recovery' = [recovery EXCEPT !.at = "closing_new", !.error = recovery.generation]
    /\ server' = Closing(recovery.generation)
    /\ UNCHANGED <<conn, starter, closer>>

\* The client that failed to start is closed, and the failure is recorded.
NewClientClosed ==
    /\ recovery.at = "closing_new" /\ ~recovery.cancelled
    /\ server' = [server EXCEPT ![recovery.generation] = "closed"]
    /\ conn' = Invalidated(recovery.generation, recovery.error)
    /\ RecoveryDone(0, recovery.error)
    /\ UNCHANGED closer

\* close() cancelled the recovery: the task is resumed with CancelledError where it
\* is suspended.  A close of a client that it was in is not finished.
RecoverCancelled ==
    /\ Recovering /\ recovery.cancelled
    /\ \/ /\ recovery.at = "created"
          /\ RecoveryDone(0, conn.generation)
          /\ UNCHANGED server
       \/ /\ recovery.at = "closing_old"
          /\ RecoveryDone(0, conn.generation)
          /\ server' = Cut(recovery.old)
       \/ /\ recovery.at = "starting"
          /\ recovery' = [recovery EXCEPT !.at = "closing_new", !.error = conn.generation,
                                          !.cancelled = FALSE]
          /\ server' = Closing(recovery.generation)
          /\ UNCHANGED starter
       \/ /\ recovery.at = "closing_new"
          /\ RecoveryDone(0, conn.generation)
          /\ server' = Cut(recovery.generation)
    /\ UNCHANGED <<conn, closer>>

-----------------------------------------------------------------------------
\* Mutant of Close: it forgets the recovery.
CloseForgettingRecovery ==
    /\ ~conn.closed
    /\ conn' = [conn EXCEPT !.closed = TRUE, !.generation = @ + 1, !.stale = TRUE,
                            !.client = 0, !.failure = 0]
    /\ closer' = [at |-> IF conn.client # 0 THEN "client" ELSE "done", client |-> conn.client]
    /\ server' = Closing(conn.client)
    /\ UNCHANGED <<recovery, starter>>

\* close(): the connection is closed for good and a recovery is cancelled; then it
\* waits for the recovery and closes the client.
Close ==
    /\ ~conn.closed
    /\ conn' = [generation |-> conn.generation + 1, stale |-> TRUE, closed |-> TRUE,
                failure |-> 0, client |-> 0]
    /\ recovery' = IF Recovering THEN [recovery EXCEPT !.cancelled = TRUE] ELSE recovery
    /\ closer' = [at |-> IF Recovering THEN "recovery"
                         ELSE IF conn.client # 0 THEN "client" ELSE "done",
                  client |-> conn.client]
    /\ server' = IF Recovering THEN server ELSE Closing(conn.client)
    /\ UNCHANGED starter

CloseGoesOn ==
    /\ closer.at = "recovery" /\ ~Recovering
    /\ closer' = [closer EXCEPT !.at = IF closer.client # 0 THEN "client" ELSE "done"]
    /\ server' = Closing(closer.client)
    /\ UNCHANGED <<conn, recovery, starter>>

CloseEnds ==
    /\ closer.at = "client"
    /\ closer' = [closer EXCEPT !.at = "done"]
    /\ server' = [server EXCEPT ![closer.client] = "closed"]
    /\ UNCHANGED <<conn, recovery, starter>>

\* The process ends by itself.
ServerExits(g) ==
    /\ server[g] = "running"
    /\ server' = [server EXCEPT ![g] = "exited"]
    /\ UNCHANGED <<conn, recovery, starter, closer>>

-----------------------------------------------------------------------------
RecoveryStep ==
    \/ RecoverBegins \/ OldClientClosed \/ ClientStarted \/ ClientStartFails
    \/ NewClientClosed \/ RecoverCancelled

ConnectionNext ==
    \/ \E s \in Starters : StartWaits(s) \/ StartResumes(s) \/ StartRaises(s) \/ StartAbandoned(s)
    \/ \E g \in 0..(MaxGeneration + 1), e \in 0..(MaxGeneration + 1) : Invalidate(g, e)
    \/ RecoveryStep
    \/ Close \/ CloseGoesOn \/ CloseEnds
    \/ \E g \in Generations : ServerExits(g)

ConnectionSpec == ConnectionInit /\ [][ConnectionNext]_connectionVars

-----------------------------------------------------------------------------
Alive == {g \in Generations : server[g] \in {"running", "closing", "cut"}}

\* "One persistent codex app-server process" (README.md): a recovery waits for the old
\* process to be closed before it makes another, so two never run at the same time.
OneServer == \A g, h \in Alive : g = h

\* A caller of start() is never resumed with a client whose process the connection has
\* itself been asked to end, unless the whole connection is closed.
ClientIsOpen ==
    \A s \in Starters :
       starter[s].at = "resumed" /\ starter[s].client # 0 /\ ~conn.closed
          => /\ starter[s].client = conn.generation
             /\ server[starter[s].client] \in {"running", "exited"}

\* After close() returned there is no recovery task, no client and no process that has
\* not at least been told to end, and none comes back.
ClosedForGood ==
    closer.at = "done" =>
       /\ conn.closed /\ conn.client = 0 /\ ~Recovering
       /\ \A g \in Generations : server[g] # "running"
=============================================================================

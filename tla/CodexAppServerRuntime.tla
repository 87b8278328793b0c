----------------------- MODULE CodexAppServerRuntime -----------------------
(***************************************************************************)
(* Turns over the recoverable connection (codex_app_server_runtime.py,     *)
(* codex_app_server_turn_updates.py, codex_app_server_runtime_failures.py, *)
(* codex_app_server_timeout.py): run, steer, interrupt and close, the      *)
(* dispatch of notifications and their buffering while a turn starts.      *)
(*                                                                         *)
(* The runtime's lock too is only held where nothing suspends, so what     *)
(* runs between two awaits is one action.  A request to the server is an   *)
(* await that ends with its answer or with an error: an error answer, a    *)
(* time limit, the end of the process or the close of the client.  Every   *)
(* channel has one Codex thread, so a thread is named by its channel.      *)
(***************************************************************************)
EXTENDS CodexAppServerConnection, Sequences

CONSTANTS
    Channels,
    Callers,       \* concurrent calls of steer() and interrupt()
    None,
    MaxTurns,      \* bound on the turns that the server accepts
    TurnsTimeOut   \* whether runs reach the turn's time limit or are cancelled

ASSUME NoneAssumption == None \notin Channels \cup Starters
ASSUME MaxTurnsAssumption == MaxTurns \in Nat

VARIABLES
    run,          \* each call of run(), with its ActiveTurn
    active,       \* _active: the run whose turn is active in a channel
    ready,        \* _ready: the run that has claimed a channel
    starting,     \* _starting_threads, by channel
    early,        \* _early_notifications, by thread
    queue,        \* the transport's notification queue of each client
    progressing,  \* clients whose dispatcher is suspended in a progress sink
    turns,        \* the server's turns, by number
    call          \* the calls of steer() and interrupt()

runtimeVars == <<run, active, ready, starting, early, queue, progressing, turns, call>>
vars == <<connectionVars, runtimeVars>>

Turns == 1..MaxTurns

\* "progress" stands for every notification that reaches the progress sink, "answer" for
\* the completed final message, "completed" and "stopped" for turn/completed with status
\* completed, and with status interrupted or failed.
Notification == [kind : {"progress", "answer", "completed", "stopped"}, turn : Turns]
Exited == [kind |-> "exited", turn |-> 0]

Outcome == {"pending", "answer", "no_response", "stopped", "disconnected"}

Run == [at : {"idle", "starting", "loading", "turn_start", "replaying", "waiting",
              "interrupting", "grace", "cancelling", "self_wait"},
        channel : Channels \cup {None}, client : 0..MaxGeneration,
        generation : 0..(MaxGeneration + 1), turn : 0..MaxTurns,
        answered : BOOLEAN, done : Outcome, by : 0..MaxTurns]

Call == [at : {"idle", "ready", "rpc"}, channel : Channels \cup {None},
         generation : 0..(MaxGeneration + 1), woken : BOOLEAN]

\* The types of the variables.
RuntimeTypeOK ==
    /\ ConnectionTypeOK
    /\ run \in [Starters -> Run]
    /\ active \in [Channels -> Starters \cup {None}]
    /\ ready \in [Channels -> Starters \cup {None}]
    /\ starting \in [Channels -> BOOLEAN]
    /\ early \in [Channels -> Seq(Notification)]
    /\ queue \in [Generations -> Seq(Notification \cup {Exited})]
    /\ progressing \subseteq Generations
    /\ turns \in Seq([channel : Channels, client : Generations,
                      state : {"fresh", "working", "answered", "ended"}])
    /\ call \in [Callers -> Call]

-----------------------------------------------------------------------------
IdleRun == [at |-> "idle", channel |-> None, client |-> 0, generation |-> 0, turn |-> 0,
            answered |-> FALSE, done |-> "pending", by |-> 0]
IdleCall == [at |-> "idle", channel |-> None, generation |-> 0, woken |-> FALSE]

Init ==
    /\ ConnectionInit
    /\ run = [r \in Starters |-> IdleRun]
    /\ active = [c \in Channels |-> None]
    /\ ready = [c \in Channels |-> None]
    /\ starting = [c \in Channels |-> FALSE]
    /\ early = [c \in Channels |-> <<>>]
    /\ queue = [g \in Generations |-> <<>>]
    /\ progressing = {}
    /\ turns = <<>>
    /\ call = [u \in Callers |-> IdleCall]

\* The event of a channel is set: calls that wait for it are woken.
Woken(channels) ==
    [u \in Callers |-> IF call[u].at = "ready" /\ call[u].channel \in channels
                       THEN [call[u] EXCEPT !.woken = TRUE] ELSE call[u]]

Ends(n) == n.kind \in {"completed", "stopped"}

\* process_notification() for one notification, and for several in a row: the answer is
\* remembered, and the first end of a turn decides unless the turn is decided.
Hear(t, notes) ==
    LET ends == {i \in DOMAIN notes : Ends(notes[i])}
        end == CHOOSE i \in ends : \A j \in ends : i <= j
        answered(k) == t.answered \/ \E i \in DOMAIN notes : i <= k /\ notes[i].kind = "answer"
        outcome == IF notes[end].kind = "stopped" THEN "stopped"
                   ELSE IF answered(end) THEN "answer" ELSE "no_response"
    IN [t EXCEPT !.answered = answered(Len(notes)),
                 !.done = IF @ = "pending" /\ ends # {} THEN outcome ELSE @,
                 !.by = IF t.done = "pending" /\ ends # {} THEN notes[end].turn ELSE @]

Disconnect(t) == [t EXCEPT !.done = IF @ = "pending" THEN "disconnected" ELSE @]

\* The finally clause of run().
Finished(r) ==
    LET c == run[r].channel IN
    /\ run' = [run EXCEPT ![r] = IdleRun]
    /\ active' = [active EXCEPT ![c] = None]
    /\ ready' = [ready EXCEPT ![c] = None]
    /\ starting' = [starting EXCEPT ![c] = FALSE]
    /\ early' = IF starting[c] THEN [early EXCEPT ![c] = <<>>] ELSE early
    /\ call' = Woken({c})
    /\ UNCHANGED <<queue, progressing, turns>>

\* raise_runtime_failure(): an error of the connection or the protocol invalidates the
\* generation; any other, such as a plain error answer, does not.
Fails(generation, error) ==
    \/ Invalidate(generation, error)
    \/ UNCHANGED connectionVars

-----------------------------------------------------------------------------
\* run() once start() returned a client: claim the channel and load the thread.  With no
\* channel this is the runtime's own start(), which is over.
Entered(r, c, client) ==
    IF c = None \/ active[c] # None \/ ready[c] # None
    THEN run' = [run EXCEPT ![r] = IdleRun] /\ UNCHANGED ready
    ELSE /\ ready' = [ready EXCEPT ![c] = r]
         /\ run' = [run EXCEPT ![r] = [IdleRun EXCEPT !.at = "loading", !.channel = c,
                       !.client = client, !.generation = conn.generation]]

enteredUnchanged == <<active, starting, early, queue, progressing, turns, call>>

StartRun(r, c) ==
    /\ run[r].at = "idle"
    /\ \/ StartReturns(r) /\ Entered(r, c, conn.client)
       \/ /\ StartWaits(r)
          /\ run' = [run EXCEPT ![r] = [IdleRun EXCEPT !.at = "starting", !.channel = c]]
          /\ UNCHANGED ready
       \/ /\ conn.closed /\ starter[r].at = "none"
          /\ Invalidate(conn.generation, conn.generation)
          /\ UNCHANGED <<run, ready>>
    /\ UNCHANGED enteredUnchanged

\* start() returned the recovery's client, and the connection's generation is read.
RunStarts(r) ==
    /\ StartResumes(r)
    /\ Entered(r, run[r].channel, starter[r].client)
    /\ UNCHANGED enteredUnchanged

\* start() raised the recovery's error: the generation to invalidate is the one that is
\* current when the caller is resumed.
RunCannotStart(r) ==
    /\ StartRaises(r)
    /\ run' = [run EXCEPT ![r] = IdleRun]
    /\ UNCHANGED ready
    /\ UNCHANGED enteredUnchanged

\* _ensure_current_generation() finds that the generation is gone.
GenerationGone(r) ==
    /\ client_for(run[r].generation) = 0
    /\ Invalidate(run[r].generation,
                  IF conn.failure # 0 THEN conn.failure ELSE run[r].generation)
    /\ Finished(r)

\* The thread is loaded: its notifications are buffered from now on, and turn/start is sent.
ThreadLoaded(r) ==
    /\ run[r].at = "loading"
    /\ server[run[r].client] = "running"
    /\ \/ GenerationGone(r)
       \/ /\ client_for(run[r].generation) # 0
          /\ starting' = [starting EXCEPT ![run[r].channel] = TRUE]
          /\ run' = [run EXCEPT ![r].at = "turn_start"]
          /\ UNCHANGED connectionVars
          /\ UNCHANGED <<active, ready, early, queue, progressing, turns, call>>

\* Mutant of Replayed: the buffering stops when the replay begins.
ReplayedUnbuffered(r, c) ==
    LET sinks == {i \in DOMAIN early[c] : early[c][i].kind = "progress"}
        k == IF sinks = {} THEN Len(early[c]) ELSE CHOOSE i \in sinks : \A j \in sinks : i <= j
    IN /\ early' = [early EXCEPT ![c] = SubSeq(@, k + 1, Len(@))]
       /\ starting' = [starting EXCEPT ![c] = FALSE]
       /\ run' = [run EXCEPT ![r] =
             [Hear(@, SubSeq(early[c], 1, k)) EXCEPT
                !.at = IF sinks = {} THEN "waiting" ELSE "replaying"]]

\* One pass over the early notifications: they are processed up to the first that
\* suspends in the progress sink.  When there are none left the buffering stops.
Replayed(r, c) ==
    LET sinks == {i \in DOMAIN early[c] : early[c][i].kind = "progress"}
        k == IF sinks = {} THEN Len(early[c]) ELSE CHOOSE i \in sinks : \A j \in sinks : i <= j
    IN /\ early' = [early EXCEPT ![c] = SubSeq(@, k + 1, Len(@))]
       /\ starting' = [starting EXCEPT ![c] = (sinks # {})]
       /\ run' = [run EXCEPT ![r] =
             [Hear(@, SubSeq(early[c], 1, k)) EXCEPT
                !.at = IF sinks = {} THEN "waiting" ELSE "replaying"]]

\* The answer to turn/start: the turn becomes active and early notifications are replayed.
TurnStarted(r) ==
    /\ run[r].at = "turn_start" /\ run[r].turn # 0
    /\ \/ GenerationGone(r)
       \/ /\ client_for(run[r].generation) # 0
          /\ active' = [active EXCEPT ![run[r].channel] = r]
          /\ call' = Woken({run[r].channel})
          /\ Replayed(r, run[r].channel)
          /\ UNCHANGED connectionVars
          /\ UNCHANGED <<ready, queue, progressing, turns>>

\* The progress sink returned.
Replay(r) ==
    /\ run[r].at = "replaying"
    /\ Replayed(r, run[r].channel)
    /\ UNCHANGED connectionVars
    /\ UNCHANGED <<active, ready, queue, progressing, turns, call>>

\* A request of run() ends with an error: thread/resume or thread/start, turn/start, or
\* the turn/interrupt that run() sends itself.  A turn that the server accepted is not
\* answered by a plain error, but the answer may be lost.
RequestFails(r) ==
    /\ run[r].at \in {"loading", "turn_start", "interrupting", "cancelling"}
    /\ IF run[r].at = "turn_start" /\ run[r].turn # 0
       THEN Invalidate(run[r].generation, run[r].client)
       ELSE Fails(run[r].generation, run[r].client)
    /\ Finished(r)

\* The turn is decided, or its interruption was given its time.
RunEnds(r) ==
    /\ \/ run[r].at = "waiting" /\ run[r].done # "pending"
       \/ run[r].at \in {"grace", "self_wait"}
    /\ UNCHANGED connectionVars
    /\ Finished(r)

\* interrupt() by run() itself: it finds its own turn, if that is still active, undecided
\* and of a current generation; otherwise there is nothing to interrupt.
InterruptsOwn(r, request, otherwise) ==
    LET found == active[run[r].channel] = r /\ run[r].done = "pending" IN
    run' = [run EXCEPT ![r] =
       IF ~found THEN [@ EXCEPT !.at = otherwise]
       ELSE IF client_for(run[r].generation) = 0
            THEN [Disconnect(@) EXCEPT !.at = otherwise]
       ELSE [@ EXCEPT !.at = request]]

TurnTimesOut(r) ==
    /\ TurnsTimeOut
    /\ run[r].at = "waiting" /\ run[r].done = "pending"
    /\ InterruptsOwn(r, "interrupting", "grace")
    /\ UNCHANGED connectionVars
    /\ UNCHANGED <<active, ready, starting, early, queue, progressing, turns, call>>

\* The task that runs run() is cancelled.  Before its turn is active, interrupt() waits for
\* the channel's event, which only this run would set: it waits for its time limit.
Cancel(r) ==
    /\ TurnsTimeOut
    /\ \/ /\ run[r].at = "starting"
          /\ StartAbandoned(r)
          /\ run' = [run EXCEPT ![r] = IdleRun]
       \/ /\ run[r].at \in {"loading", "turn_start"}
          /\ run' = [run EXCEPT ![r].at = "self_wait"]
          /\ UNCHANGED connectionVars
       \/ /\ run[r].at \in {"replaying", "waiting"}
          /\ InterruptsOwn(r, "cancelling", "self_wait")
          /\ UNCHANGED connectionVars
    /\ UNCHANGED <<active, ready, starting, early, queue, progressing, turns, call>>

\* Mutant of Interrupted: the wait for the interrupted turn has no time limit of its own.
InterruptedWaits(r) ==
    /\ run[r].at \in {"interrupting", "cancelling"}
    /\ server[run[r].client] = "running"
    /\ UNCHANGED connectionVars
    /\ run' = [run EXCEPT ![r].at = "waiting"]
    /\ UNCHANGED <<active, ready, starting, early, queue, progressing, turns, call>>

\* The server answered turn/interrupt.
Interrupted(r) ==
    /\ run[r].at \in {"interrupting", "cancelling"}
    /\ server[run[r].client] = "running"
    /\ UNCHANGED connectionVars
    /\ \/ /\ run[r].at = "interrupting"
          /\ run' = [run EXCEPT ![r].at = "grace"]
          /\ UNCHANGED <<active, ready, starting, early, queue, progressing, turns, call>>
       \/ run[r].at = "cancelling" /\ Finished(r)

-----------------------------------------------------------------------------
\* steer() and interrupt(), once they found an active turn: they address its generation's
\* client, and disconnect the turn when that is gone.
Addressed(u, c) ==
    LET r == active[c] IN
    IF run[r].done # "pending" THEN
       call' = [call EXCEPT ![u] = IdleCall] /\ UNCHANGED run
    ELSE IF client_for(run[r].generation) = 0 THEN
       /\ run' = [run EXCEPT ![r] = Disconnect(@)]
       /\ call' = [call EXCEPT ![u] = IdleCall]
    ELSE
       /\ call' = [call EXCEPT ![u] = [at |-> "rpc", channel |-> c, woken |-> FALSE,
                                       generation |-> run[r].generation]]
       /\ UNCHANGED run

CallBegins(u, c) ==
    /\ call[u].at = "idle"
    /\ \/ active[c] # None /\ Addressed(u, c)
       \/ /\ active[c] = None /\ ready[c] # None
          /\ call' = [call EXCEPT ![u] = [IdleCall EXCEPT !.at = "ready", !.channel = c]]
          /\ UNCHANGED run
    /\ UNCHANGED connectionVars
    /\ UNCHANGED <<active, ready, starting, early, queue, progressing, turns>>

\* The wait for the channel's event ends: by the event, or by its time limit.
CallWaited(u) ==
    LET c == call[u].channel IN
    /\ call[u].at = "ready"
    /\ IF call[u].woken /\ active[c] # None THEN Addressed(u, c)
       ELSE call' = [call EXCEPT ![u] = IdleCall] /\ UNCHANGED run
    /\ UNCHANGED connectionVars
    /\ UNCHANGED <<active, ready, starting, early, queue, progressing, turns>>

\* turn/steer or turn/interrupt ends, possibly long after the turn.
CallEnds(u) ==
    /\ call[u].at = "rpc"
    /\ Fails(call[u].generation, call[u].generation)
    /\ call' = [call EXCEPT ![u] = IdleCall]
    /\ UNCHANGED <<run, active, ready, starting, early, queue, progressing, turns>>

-----------------------------------------------------------------------------
\* The dispatcher of a client takes the next notification.  It is lost when the handler is
\* unsubscribed or the generation is not current; an exit fails every active turn; a
\* notification of a starting thread is buffered; any other needs its own active turn.
Dispatch(g) ==
    LET n == Head(queue[g])
        heard == Current(g) /\ conn.client = g
        thread == turns[n.turn].channel
        owner == active[thread]
        own == owner # None /\ run[owner].turn = n.turn
    IN
    /\ queue[g] # <<>> /\ g \notin progressing
    /\ queue' = [queue EXCEPT ![g] = Tail(@)]
    /\ IF ~heard THEN
          UNCHANGED connectionVars /\ UNCHANGED <<run, early, progressing>>
       ELSE IF n = Exited THEN
          /\ Invalidate(g, g)
          /\ run' = [r \in Starters |->
                IF \E c \in Channels : active[c] = r THEN Disconnect(run[r]) ELSE run[r]]
          /\ UNCHANGED <<early, progressing>>
       ELSE
          /\ UNCHANGED connectionVars
          /\ early' = IF starting[thread]
                      THEN [early EXCEPT ![thread] = Append(@, n)] ELSE early
          /\ progressing' = IF ~starting[thread] /\ own /\ n.kind = "progress"
                            THEN progressing \cup {g} ELSE progressing
          /\ run' = IF ~starting[thread] /\ own
                    THEN [run EXCEPT ![owner] = Hear(@, <<n>>)] ELSE run
    /\ UNCHANGED <<active, ready, starting, turns, call>>

ProgressSent(g) ==
    /\ g \in progressing
    /\ progressing' = progressing \ {g}
    /\ UNCHANGED connectionVars
    /\ UNCHANGED <<run, active, ready, starting, early, queue, turns, call>>

-----------------------------------------------------------------------------
\* The app-server accepts a turn, reports on it, and ends it.
TurnAccepted(r) ==
    /\ run[r].at = "turn_start" /\ run[r].turn = 0
    /\ server[run[r].client] = "running"
    /\ Len(turns) < MaxTurns
    /\ turns' = Append(turns, [channel |-> run[r].channel, client |-> run[r].client,
                               state |-> "fresh"])
    /\ run' = [run EXCEPT ![r].turn = Len(turns')]
    /\ UNCHANGED connectionVars
    /\ UNCHANGED <<active, ready, starting, early, queue, progressing, call>>

Reports(t, kind, state) ==
    /\ server[turns[t].client] = "running"
    /\ turns' = [turns EXCEPT ![t].state = state]
    /\ queue' = [queue EXCEPT ![turns[t].client] = Append(@, [kind |-> kind, turn |-> t])]
    /\ UNCHANGED connectionVars
    /\ UNCHANGED <<run, active, ready, starting, early, progressing, call>>

TurnReports(t) ==
    /\ t \in DOMAIN turns
    /\ \/ turns[t].state = "fresh" /\ Reports(t, "progress", "working")
       \/ turns[t].state \in {"fresh", "working"} /\ Reports(t, "answer", "answered")
       \/ turns[t].state = "answered" /\ Reports(t, "completed", "ended")
       \/ turns[t].state # "ended" /\ Reports(t, "stopped", "ended")

ServerFails(g) ==
    /\ ServerExits(g)
    /\ queue' = [queue EXCEPT ![g] = Append(@, Exited)]
    /\ UNCHANGED <<run, active, ready, starting, early, progressing, turns, call>>

\* A client that is closed loses its dispatcher and its queue.
Retired ==
    /\ queue' = [g \in Generations |-> IF server'[g] = "closed" THEN <<>> ELSE queue[g]]
    /\ progressing' = {g \in progressing : server'[g] # "closed"}

Recover ==
    /\ RecoveryStep
    /\ Retired
    /\ UNCHANGED <<run, active, ready, starting, early, turns, call>>

\* close(): once the connection is closed every active turn is disconnected and the
\* runtime's tables are emptied.
CloseRuntime ==
    /\ Close \/ CloseGoesOn \/ CloseEnds
    /\ Retired
    /\ IF closer'.at = "done"
       THEN /\ run' = [r \in Starters |->
                 IF \E c \in Channels : active[c] = r THEN Disconnect(run[r]) ELSE run[r]]
            /\ active' = [c \in Channels |-> None]
            /\ ready' = [c \in Channels |-> None]
            /\ starting' = [c \in Channels |-> FALSE]
            /\ early' = [c \in Channels |-> <<>>]
            /\ call' = Woken(Channels)
       ELSE UNCHANGED <<run, active, ready, starting, early, call>>
    /\ UNCHANGED turns

-----------------------------------------------------------------------------
Next ==
    \/ \E r \in Starters, c \in Channels \cup {None} : StartRun(r, c)
    \/ \E r \in Starters :
          \/ RunStarts(r) \/ RunCannotStart(r) \/ ThreadLoaded(r) \/ TurnStarted(r)
          \/ Replay(r) \/ RequestFails(r) \/ RunEnds(r) \/ TurnTimesOut(r) \/ Cancel(r)
          \/ Interrupted(r) \/ TurnAccepted(r)
    \/ \E u \in Callers : CallWaited(u) \/ CallEnds(u) \/ \E c \in Channels : CallBegins(u, c)
    \/ \E g \in Generations : Dispatch(g) \/ ProgressSent(g) \/ ServerFails(g)
    \/ \E t \in Turns : TurnReports(t)
    \/ Recover \/ CloseRuntime

Spec == Init /\ [][Next]_vars

\* Every await of the runtime ends: requests, turns and their interruption have time limits,
\* a client's start and close end, and what may run is run.
Fairness ==
    /\ \A r \in Starters :
          /\ WF_vars(RunStarts(r)) /\ WF_vars(RunCannotStart(r))
          /\ WF_vars(ThreadLoaded(r) \/ TurnStarted(r) \/ RequestFails(r) \/ Interrupted(r))
          /\ WF_vars(Replay(r)) /\ WF_vars(RunEnds(r)) /\ WF_vars(TurnTimesOut(r))
    /\ WF_vars(Recover)

FairSpec == Spec /\ Fairness

-----------------------------------------------------------------------------
\* Notifications that arrive before the turn is registered are replayed in order and those
\* that arrive during the replay come after them: a run that its own turn ended, whose
\* server sent an answer and then completed, is never taken for one without a response.
\* (The late end of an abandoned turn on the same thread is buffered too and may end it.)
AnswerKept == \A r \in Starters : run[r].done = "no_response" => run[r].by # run[r].turn

\* "Runtime exit fails all active turns" (docs/superpowers/plans): once the dispatcher has
\* taken the exit of a process from its queue, no active turn of that process is left
\* undecided.
ExitFailsTurns ==
    ~conn.closed => \A c \in Channels : active[c] # None =>
       LET t == run[active[c]] IN
       t.done = "pending" /\ server[t.client] = "exited"
          => \E i \in DOMAIN queue[t.client] : queue[t.client][i] = Exited

\* A generation is marked failed only by an error that it raised itself: the delayed failure
\* of a request, or of a recovery, of an old client does not invalidate its replacement.  A
\* caller whose start() raised is the exception: it reports the generation it finds.
ReplacementNotBlamed ==
    [][conn'.stale /\ ~conn.stale /\ ~conn'.closed /\ conn'.failure # 0 =>
         \/ conn'.failure = conn.generation
         \/ \E s \in Starters : /\ starter[s].at = "resumed" /\ starter[s].client = 0
                               /\ starter'[s].at = "none"]_vars

\* Every run ends, whatever the server does.
RunsEnd == \A r \in Starters : run[r].at # "idle" ~> run[r].at = "idle"
=============================================================================

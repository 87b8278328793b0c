----------------------------- MODULE AgentGateway -----------------------------
(***************************************************************************)
(* How a Discord task becomes a turn of the agent: its execution context   *)
(* (github_task_execution.py, github_task_context.py), its workspace       *)
(* (agent.py over DiscordWorktrees), its Codex thread                      *)
(* (codex_app_server_thread_loader.py), the channel's session binding      *)
(* (session_store.py), the requests that open the thread and start the     *)
(* turn, and the time limit of the turn (codex_app_server_runtime.py and   *)
(* codex_app_server_timeout.py over AppServerTransport).                   *)
(*                                                                         *)
(* The task service runs one task of a channel at a time; that is proved   *)
(* of it elsewhere and taken as a guard here.  Of the recoverable          *)
(* connection only what decides which client a run is given is here.       *)
(***************************************************************************)
EXTENDS AppServerTransport, DiscordWorktrees, Sequences

CONSTANTS
    Task,           \* what each task asks
    Earlier,        \* which tasks may have run before the gateway was last started
    Overdue,        \* bound on the tasks whose turn may reach its time limit
    WriteOutcomes,  \* how a write of the session store may end
    MaxGenerations, \* bound on the clients that are made
    MaxThreads,     \* bound on the threads that the server opens
    MaxCrashes      \* bound on crashes of the gateway

VARIABLES
    run,         \* the run of each task
    before,      \* the tasks that ran before the gateway was started: they are retried now
    begun,       \* the tasks that were run since; each is run once
    generation,  \* the connection's generation
    stale,       \* whether that generation was invalidated
    recovery,    \* where the connection's recovery task is suspended
    sessions,    \* the document of the session store: the binding of each channel
    saved,       \* what a crash may leave of it
    threads,     \* the server's threads
    turns,       \* the server's turns that have not ended
    crashes,
    overrun      \* for the properties: the tasks whose run ended at the time limit of its
                 \* turn, with a client that is used on

gatewayVars == <<run, before, begun, generation, stale, recovery, sessions, saved, threads, turns,
                 crashes, overrun>>
vars == <<transportVars, worktreeVars, gatewayVars>>

Tasks == Callers
Channel(k) == Task[k].channel
ASSUME TasksAssumption == Callers = Preparers
ASSUME TaskAssumption ==
    /\ Task \in [Tasks -> Arguments]
    /\ \A earlier \in Earlier :
          /\ earlier \subseteq Tasks /\ IsFiniteSet(earlier) /\ Cardinality(earlier) <= MaxThreads
          /\ \A k, l \in earlier : Task[k].channel = Task[l].channel => k = l
    /\ \A k \in Tasks : Task[k].policy # "general" => Task[k].repo # None /\ Task[k].commit # None
ASSUME NoneAssumption == None \notin [policy : Policies, repo : Repos, commit : Commits]
ASSUME BoundsAssumption == {MaxGenerations, MaxThreads, MaxCrashes} \subseteq Nat

\* What a restricted turn is bound to; its workspace follows from the policy, the
\* repository and the channel.  None stands for a general turn.
Context(k) == IF Task[k].policy = "general" THEN None
              ELSE [policy |-> Task[k].policy, repo |-> Task[k].repo, commit |-> Task[k].commit]
Contexts == {Context(k) : k \in Tasks} \cup {None}

\* Where a run has its turn: it waits for the turn's end, for the answer to its interruption
\* at the time limit, or for the end that the interruption brings about.
InTurn == {"turn", "interrupting", "grace"}

Run == [at : {"idle", "context", "preparing", "loading", "turn_start"} \cup InTurn,
        generation : 0..MaxGenerations, thread : 0..MaxThreads]
Binding == [thread : 1..MaxThreads, context : Contexts] \cup {None}
Turn == [thread : 1..MaxThreads, context : Contexts, by : Tasks]

\* The types of the variables.
TypeOK ==
    /\ TransportTypeOK /\ WorktreesTypeOK
    /\ run \in [Tasks -> Run]
    /\ before \subseteq Tasks /\ begun \subseteq Tasks
    /\ generation \in 0..MaxGenerations /\ stale \in BOOLEAN
    /\ recovery \in {"none", "closing_old", "starting", "closing_new"}
    /\ sessions \in [Channels -> Binding] /\ saved \in [Channels -> Binding]
    /\ threads \in Seq([channel : Channels, log : SUBSET Contexts])
    /\ turns \subseteq Turn
    /\ crashes \in 0..MaxCrashes
    /\ overrun \subseteq Tasks

IdleRun == [at |-> "idle", generation |-> 0, thread |-> 0]

\* The gateway starts, and the tasks that ran before left their threads, their bindings and
\* the worktrees that they were given.
Init ==
    /\ TransportInit /\ prep = [k \in Tasks |-> NotPreparing]
    /\ before \in Earlier /\ begun = {}
    /\ canonical \in [Repos -> IF before = {} THEN {"absent", "whole"} ELSE {"whole"}]
    /\ tree = [c \in Channels |-> [r \in Repos |->
          LET mine == {k \in before : Channel(k) = c /\ Task[k].repo = r
                                       /\ Task[k].policy # "review"}
          IN IF mine = {} THEN NoTree ELSE Added(Task[CHOOSE k \in mine : TRUE])]]
    /\ LET order == CHOOSE o \in [1..Cardinality(before) -> before] : \A k \in before :
                       \E i \in DOMAIN o : o[i] = k
           of(c) == {i \in DOMAIN order : Channel(order[i]) = c}
       IN /\ threads = [i \in DOMAIN order |->
                [channel |-> Channel(order[i]), log |-> {Context(order[i])}]]
          /\ sessions = [c \in Channels |->
                IF of(c) = {} THEN None
                ELSE LET i == CHOOSE i \in of(c) : TRUE
                     IN [thread |-> i, context |-> Context(order[i])]]
    /\ saved = sessions
    /\ run = [k \in Tasks |-> IdleRun]
    /\ generation = 0 /\ stale = FALSE /\ recovery = "none"
    /\ turns = {} /\ crashes = 0 /\ overrun = {}

-----------------------------------------------------------------------------
Live(k) == run[k].at # "idle"
Restricted(k) == Task[k].policy # "general"

\* A retry requires the session that its task had, and its prompt is the generic one,
\* which names no repository.
Retried(k) == k \in before

\* The arguments of prepare().
Ask(k) == [Task[k] EXCEPT !.repo = IF Retried(k) /\ ~Restricted(k) THEN None ELSE @]

Over(k) ==
    /\ run' = [run EXCEPT ![k] = IdleRun]
    /\ prep' = [prep EXCEPT ![k] = NotPreparing]
    /\ UNCHANGED <<canonical, tree>>

At(k, at) == run' = [run EXCEPT ![k].at = at]

connUnchanged == UNCHANGED <<generation, recovery>>
serverUnchanged == UNCHANGED <<threads, turns>>
restUnchanged == UNCHANGED <<before, begun, crashes, overrun>>
storeUnchanged == UNCHANGED <<sessions, saved>>

\* ask() of a task that the service started: a general task has its context at once, a
\* repository task resolves it from the mirrored source.
Begin(k) ==
    /\ k \notin begun /\ begun' = begun \cup {k}
    /\ \A l \in Tasks : Live(l) => Channel(l) # Channel(k)
    /\ IF Restricted(k)
       THEN At(k, "context") /\ UNCHANGED worktreeVars
       ELSE At(k, "preparing") /\ Prepare(k, Ask(k))
    /\ connUnchanged /\ serverUnchanged /\ storeUnchanged
    /\ UNCHANGED <<transportVars, stale, before, crashes, overrun>>

\* resolve_github_task_context(): the pinned commit has to be in the local clone.
ContextResolved(k) ==
    /\ run[k].at = "context"
    /\ \/ /\ TRUE \in HasCommits(canonical[Task[k].repo])
          /\ At(k, "preparing") /\ Prepare(k, Ask(k))
       \/ FALSE \in HasCommits(canonical[Task[k].repo]) /\ Over(k)
    /\ connUnchanged /\ serverUnchanged /\ storeUnchanged /\ restUnchanged
    /\ UNCHANGED <<transportVars, stale>>

Git(k) ==
    /\ GitStep(k)
    /\ UNCHANGED <<transportVars, gatewayVars>>

\* prepare() raised: the task fails before there was a request.
PrepareFailed(k) ==
    /\ prep[k].at = "failed"
    /\ Over(k)
    /\ connUnchanged /\ serverUnchanged /\ storeUnchanged /\ restUnchanged
    /\ UNCHANGED <<transportVars, stale>>

-----------------------------------------------------------------------------
\* The runs that called start() of the connection.
Waiting == {k \in Tasks : run[k].at = "preparing" /\ prep[k].at = "done"}

\* start() returns the client.
Ready == initialized /\ ~stale /\ recovery = "none"

\* A recovery begins: an old client is closed before a new one is started.
RecoverBegins ==
    /\ recovery = "none" /\ Waiting # {} /\ (stale \/ ~initialized)
    /\ generation < MaxGenerations
    /\ generation' = generation + 1
    /\ stale' = FALSE
    /\ IF process # "none"
       THEN Close /\ recovery' = "closing_old"
       ELSE ClientStart([kind |-> "initialize"]) /\ recovery' = "starting"
    /\ UNCHANGED <<run, worktreeVars>>
    /\ serverUnchanged /\ storeUnchanged /\ restUnchanged

OldClientClosed ==
    /\ recovery = "closing_old"
    /\ ClientStart([kind |-> "initialize"]) /\ recovery' = "starting"
    /\ UNCHANGED <<run, worktreeVars, generation, stale>>
    /\ serverUnchanged /\ storeUnchanged /\ restUnchanged

\* The client is published.
Recovered ==
    /\ recovery = "starting"
    /\ ClientInitialized /\ recovery' = "none"
    /\ UNCHANGED <<run, worktreeVars, generation, stale>>
    /\ serverUnchanged /\ storeUnchanged /\ restUnchanged

RecoverFails ==
    /\ recovery = "starting"
    /\ ClientStartFailed /\ Close /\ recovery' = "closing_new"
    /\ UNCHANGED <<run, worktreeVars, generation, stale>>
    /\ serverUnchanged /\ storeUnchanged /\ restUnchanged

\* Everybody who waits for the client is given the error.
RecoverEnds ==
    /\ recovery = "closing_new" /\ closer = "idle"
    /\ recovery' = "none" /\ stale' = TRUE
    /\ run' = [k \in Tasks |-> IF k \in Waiting THEN IdleRun ELSE run[k]]
    /\ prep' = [k \in Tasks |-> IF k \in Waiting THEN NotPreparing ELSE prep[k]]
    /\ UNCHANGED <<canonical, tree, transportVars, generation>>
    /\ serverUnchanged /\ storeUnchanged /\ restUnchanged

\* The dispatcher delivers app-server/exited: the generation is invalidated.
ExitTold ==
    /\ told /\ initialized
    /\ told' = FALSE /\ stale' = TRUE
    /\ UNCHANGED <<process, reader, failure, closer, initialized, nextId, call, sent, stdout,
                   run, worktreeVars>>
    /\ connUnchanged /\ serverUnchanged /\ storeUnchanged /\ restUnchanged

TransportStep ==
    /\ (\E line \in stdout : ReadAnswer(line)) \/ ReadFails \/ ReadEnds \/ CloseEnds
    /\ UNCHANGED <<worktreeVars, gatewayVars>>

-----------------------------------------------------------------------------
\* _matches(): a restricted run only resumes a thread that is bound to its own context.
Matches(binding, context) == binding.context = context

\* The binding whose thread the run resumes, if any.
Existing(k) ==
    LET binding == sessions[Channel(k)] IN
    IF binding # None /\ (Restricted(k) => Matches(binding, Context(k))) THEN binding ELSE None

OpenThread(k) ==
    [kind |-> IF Existing(k) = None THEN "start" ELSE "resume", channel |-> Channel(k),
     thread |-> IF Existing(k) = None THEN 0 ELSE Existing(k).thread]

StartTurn(k, thread) ==
    [kind |-> "turn", thread |-> thread, context |-> Context(k), by |-> k]

\* The generation of the run is the connection's, and was not given up.
Current(k) == ~stale /\ run[k].generation = generation

\* invalidate(): the generation of the run is reported as failed.
Blamed(k) == stale' = (stale \/ run[k].generation = generation)

\* run() of the runtime once start() returned a client: the thread is opened.
Load(k) ==
    /\ k \in Waiting /\ Ready
    /\ IF (Retried(k) /\ Existing(k) = None) \/ RequestRefused
       THEN /\ Over(k)
            /\ stale' = (stale \/ ~(Retried(k) /\ Existing(k) = None))
            /\ UNCHANGED transportVars
       ELSE /\ Request(k, OpenThread(k))
            /\ run' = [run EXCEPT ![k].at = "loading", ![k].generation = generation]
            /\ UNCHANGED <<worktreeVars, stale>>
    /\ connUnchanged /\ serverUnchanged /\ storeUnchanged /\ restUnchanged

\* Mutant of Bind: the binding is left alone when its thread was resumed.
BindNewOnly(k, thread, outcome) ==
    LET bound == [sessions EXCEPT ![Channel(k)] =
                     IF sessions[Channel(k)] # None /\ sessions[Channel(k)].thread = thread
                     THEN @ ELSE [thread |-> thread, context |-> Context(k)]]
    IN /\ sessions' = IF outcome = "failed" THEN sessions ELSE bound
       /\ saved' = IF outcome = "ok" THEN bound ELSE saved

\* set_binding() or set(): the document is replaced.  A write may fail before it is seen,
\* or after that but before it is sure to survive a crash; both raise.
Bind(k, thread, outcome) ==
    LET bound == [sessions EXCEPT ![Channel(k)] = [thread |-> thread, context |-> Context(k)]]
    IN /\ sessions' = IF outcome = "failed" THEN sessions ELSE bound
       /\ saved' = IF outcome = "ok" THEN bound ELSE saved

\* load_thread() has its answer: it is bound to the channel, and only then does its turn
\* start, if the generation is still current.
Loaded(k) ==
    /\ run[k].at = "loading"
    /\ call[k].at = "waiting" /\ call[k].future = "answer" /\ call[k].answer # 0
    /\ \E outcome \in WriteOutcomes :
          /\ Bind(k, call[k].answer, outcome)
          /\ IF outcome = "ok" /\ Current(k) /\ ~RequestRefused
             THEN /\ Request(k, StartTurn(k, call[k].answer))
                  /\ run' = [run EXCEPT ![k].at = "turn_start", ![k].thread = call[k].answer]
                  /\ UNCHANGED <<worktreeVars, stale>>
             ELSE /\ Popped(k) /\ Over(k)
                  /\ IF outcome = "ok" THEN Blamed(k) ELSE UNCHANGED stale
    /\ connUnchanged /\ serverUnchanged /\ restUnchanged

\* The thread does not have the restricted policy: it is neither bound nor used.
Incompatible(k) ==
    /\ run[k].at = "loading" /\ Restricted(k)
    /\ Answered(k) /\ call[k].answer # 0
    /\ Over(k)
    /\ connUnchanged /\ serverUnchanged /\ storeUnchanged /\ restUnchanged
    /\ UNCHANGED stale

\* turn/start has its answer: the run has a turn if its generation is still current.
TurnStarted(k) ==
    /\ run[k].at = "turn_start"
    /\ Answered(k) /\ call[k].answer # 0
    /\ IF Current(k)
       THEN At(k, "turn") /\ UNCHANGED worktreeVars
       ELSE Over(k)
    /\ connUnchanged /\ serverUnchanged /\ storeUnchanged /\ restUnchanged
    /\ UNCHANGED stale

\* Mutant of RequestFailed: a time limit is taken for an error answer.
RequestFailedUnblamed(k) ==
    /\ run[k].at \in {"loading", "turn_start"}
    /\ (Answered(k) /\ call[k].answer = 0) \/ Raised(k)
    /\ Over(k)
    /\ connUnchanged /\ serverUnchanged /\ storeUnchanged /\ restUnchanged
    /\ UNCHANGED stale

\* Either request has an error answer, which invalidates the generation when it says that
\* the protocol does not fit, or it raised, which always does.
RequestFailed(k) ==
    /\ run[k].at \in {"loading", "turn_start"}
    /\ \/ Answered(k) /\ call[k].answer = 0 /\ (UNCHANGED stale \/ Blamed(k))
       \/ Raised(k) /\ Blamed(k)
    /\ Over(k)
    /\ connUnchanged /\ serverUnchanged /\ storeUnchanged /\ restUnchanged

\* run() returns or raises: the turn ended, or its generation is given up, which the run is
\* told with the exit of the server or finds out at its time limit.
TurnOver(k) ==
    /\ run[k].at = "turn"
    /\ Current(k) => \A t \in turns : t.by # k
    /\ Over(k)
    /\ connUnchanged /\ serverUnchanged /\ storeUnchanged /\ restUnchanged
    /\ UNCHANGED <<transportVars, stale>>

\* The turn reached its time limit: the run interrupts it.
TurnTimesOut(k) ==
    /\ k \in Overdue /\ run[k].at = "turn" /\ Current(k)
    /\ IF RequestRefused
       THEN Over(k) /\ Blamed(k) /\ UNCHANGED transportVars
       ELSE /\ Request(k, [kind |-> "interrupt", by |-> k])
            /\ At(k, "interrupting")
            /\ UNCHANGED <<worktreeVars, stale>>
    /\ connUnchanged /\ serverUnchanged /\ storeUnchanged /\ restUnchanged

\* The interruption is answered: the turn is given a grace to end.
Interrupted(k) ==
    /\ run[k].at = "interrupting"
    /\ Answered(k) /\ call[k].answer # 0
    /\ At(k, "grace")
    /\ connUnchanged /\ serverUnchanged /\ storeUnchanged /\ restUnchanged
    /\ UNCHANGED <<worktreeVars, stale>>

\* The run ends whatever became of its turn.
GivesUp(k) ==
    /\ Over(k)
    /\ overrun' = IF ~stale' /\ run[k].generation = generation THEN overrun \cup {k}
                  ELSE overrun

\* The interruption has an error answer, or raised: no grace.
InterruptFailed(k) ==
    /\ run[k].at = "interrupting"
    /\ \/ Answered(k) /\ call[k].answer = 0 /\ (UNCHANGED stale \/ Blamed(k))
       \/ Raised(k) /\ Blamed(k)
    /\ GivesUp(k)
    /\ connUnchanged /\ serverUnchanged /\ storeUnchanged
    /\ UNCHANGED <<before, begun, crashes>>

\* wait_for_turn_shutdown() returned: the turn ended, or the grace did.  The client is kept.
GraceEnds(k) ==
    /\ run[k].at = "grace"
    /\ UNCHANGED stale /\ GivesUp(k)
    /\ connUnchanged /\ serverUnchanged /\ storeUnchanged
    /\ UNCHANGED <<transportVars, before, begun, crashes>>

-----------------------------------------------------------------------------
\* External: the server takes a request.  A thread outlives its process; a turn does not.
ServerTakes(m) ==
    \/ m.what.kind # "initialize" /\ ServerAnswers(m, 0) /\ serverUnchanged
    \/ m.what.kind \in {"initialize", "interrupt"} /\ ServerAnswers(m, 1) /\ serverUnchanged
    \/ /\ m.what.kind = "start" /\ Len(threads) < MaxThreads
       /\ threads' = Append(threads, [channel |-> m.what.channel, log |-> {}])
       /\ ServerAnswers(m, Len(threads) + 1)
       /\ UNCHANGED turns
    \/ m.what.kind = "resume" /\ ServerAnswers(m, m.what.thread) /\ serverUnchanged
    \/ /\ m.what.kind = "turn"
       /\ threads' = [threads EXCEPT ![m.what.thread].log = @ \cup {m.what.context}]
       /\ turns' = turns \cup {[thread |-> m.what.thread, context |-> m.what.context,
                                by |-> m.what.by]}
       /\ ServerAnswers(m, 1)

ServerTurnEnds(t) == turns' = turns \ {t} /\ UNCHANGED <<transportVars, threads>>
ServerExits == ProcessExits /\ turns' = {} /\ UNCHANGED threads

ServerStep ==
    /\ (\E m \in sent : ServerTakes(m)) \/ (\E t \in turns : ServerTurnEnds(t)) \/ ServerExits
    /\ UNCHANGED <<worktreeVars, run, stale>>
    /\ connUnchanged /\ storeUnchanged /\ restUnchanged

\* A turn that no run waits for, and will not be given by an answer.
Abandoned(t) == ~Live(t.by)

\* External: the agent of a general turn works in the worktrees of its channel.
AgentStep ==
    /\ \E t \in turns, r \in Repos, commit \in Commits :
          /\ t.context = None
          /\ AgentMoves(Channel(t.by), r, commit, Abandoned(t))
    /\ UNCHANGED <<transportVars, gatewayVars>>

\* The gateway is killed, and the server and the git commands with it.
Crash ==
    /\ crashes < MaxCrashes /\ crashes' = crashes + 1
    /\ CutShort
    /\ run' = [k \in Tasks |-> IdleRun]
    /\ process' = "none" /\ reader' = "none" /\ failure' = FALSE /\ closer' = "idle"
    /\ initialized' = FALSE /\ told' = FALSE /\ nextId' = 0
    /\ call' = [c \in Everybody |-> NoCall] /\ sent' = {} /\ stdout' = {}
    /\ stale' = FALSE /\ recovery' = "none"
    /\ turns' = {}
    /\ sessions' \in {sessions, saved} /\ saved' = sessions'
    /\ overrun' = {}
    /\ UNCHANGED <<before, begun, generation, threads>>

Next ==
    \/ \E k \in Tasks :
          \/ Begin(k) \/ ContextResolved(k) \/ Git(k) \/ PrepareFailed(k)
          \/ Load(k) \/ Loaded(k) \/ Incompatible(k) \/ TurnStarted(k) \/ RequestFailed(k)
          \/ TurnOver(k) \/ TurnTimesOut(k) \/ Interrupted(k) \/ InterruptFailed(k)
          \/ GraceEnds(k)
    \/ RecoverBegins \/ OldClientClosed \/ Recovered \/ RecoverFails \/ RecoverEnds \/ ExitTold
    \/ TransportStep \/ ServerStep \/ AgentStep
    \/ Crash

Spec == Init /\ [][Next]_vars

-----------------------------------------------------------------------------
\* A channel's session, and the thread of its running turn, are threads that were opened
\* for that channel, whatever answers came late, were lost or were never written down.
ThreadsBelongToChannels ==
    /\ \A c \in Channels : sessions[c] # None => threads[sessions[c].thread].channel = c
    /\ \A k \in Tasks : run[k].at \in {"turn_start"} \cup InTurn
          => threads[run[k].thread].channel = Channel(k)

\* While a restricted turn runs, its thread has only ever had turns of the same policy,
\* repository and commit: what a general turn was told is not in it.
RestrictedThreads ==
    \A k \in Tasks : run[k].at \in {"turn_start"} \cup InTurn /\ Restricted(k)
       => threads[run[k].thread].log \subseteq {Context(k)}

\* The server never works on two turns of one channel, whatever requests were given up, what
\* they may have begun and which client came next, but for one case: a turn that reached its
\* time limit and outlived its interruption and the grace, while its client was kept.
OneServerTurn ==
    \A s, t \in turns :
       Channel(s.by) = Channel(t.by) => s = t \/ s.by \in overrun \/ t.by \in overrun

\* A restricted implementation works at the commit that it was pinned to, unless a turn
\* that was given up still moved the worktree.
PinnedTurn ==
    \A k \in Tasks :
       Task[k].policy = "implementation" /\ run[k].at \in {"loading", "turn_start"} \cup InTurn
          => LET t == tree[Channel(k)][Task[k].repo] IN
             t.state # "absent" /\ (t.head = Task[k].commit \/ t.stray)
=============================================================================

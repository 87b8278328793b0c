-------------------------- MODULE AgentGatewayProofs --------------------------
(***************************************************************************)
(* For any number of channels, repositories and tasks: no request waits    *)
(* for an answer that nobody reads, a session and a turn keep to a thread  *)
(* of their channel and context, the server works on one turn of a channel *)
(* at a time, and a pinned turn works at its commit.                       *)
(***************************************************************************)
EXTENDS AgentGateway, FiniteSetTheorems, SequenceTheorems, TLAPS

USE DEF InTurn

----------------------------------------------------------------------------
(* The inductive invariant.                                                *)

\* The ask of a call of prepare() is that of its task; where it looks at a repository or a
\* tree there is one.
Preparing ==
  \A k \in Tasks :
    /\ prep[k].at = "idle" <=> run[k].at \in {"idle", "context"}
    /\ run[k].at \in {"loading", "turn_start"} \cup InTurn => prep[k].at = "done"
    /\ prep[k].at # "idle" =>
         /\ prep[k].ask \in Arguments
         /\ prep[k].ask.channel = Channel(k) /\ prep[k].ask.policy = Task[k].policy
         /\ prep[k].ask.commit = Task[k].commit
         /\ Restricted(k) => prep[k].ask.repo = Task[k].repo
         /\ prep[k].at \notin {"scan", "done", "failed"} => prep[k].ask.repo \in Repos
         /\ prep[k].at \in {"tree", "head"} => TreeOf(prep[k].ask).state # "absent"
    /\ prep[k].at = "scan" => ~Restricted(k)
    /\ run[k].at = "context" => Restricted(k)

\* The service runs one task of a channel at a time.
OneLive == \A k, l \in Tasks : Live(k) /\ Live(l) /\ Channel(k) = Channel(l) => k = l

\* A task is run once: none is live whose run ended at the time limit of its turn.
Begun ==
  /\ overrun \subseteq begun
  /\ \A k \in Tasks : Live(k) => k \in begun /\ k \notin overrun

\* From the end of prepare() on the worktree of an implementation is the pinned one.
PinnedTree ==
  \A k \in Tasks : prep[k].at = "done" /\ Task[k].policy = "implementation" =>
    LET t == tree[Channel(k)][Task[k].repo]
    IN  t.state # "absent" /\ (t.head = Task[k].commit \/ t.stray)

\* The process, its reader and the client agree.
Client ==
  /\ process = "none" <=> reader = "none"
  /\ process = "none" => sent = {} /\ stdout = {}
  /\ initialized => closer = "idle" /\ reader # "none" /\ recovery = "none"
  /\ reader = "ended" /\ closer = "idle" => failure
  /\ closer = "closing" => recovery \in {"closing_old", "closing_new"}
  /\ recovery = "starting" => reader # "none"

\* The calls of request() that wait for an answer.
Open == {c \in Everybody : call[c].at = "waiting" /\ call[c].future = "open"}

\* An id names one request: its message, its answer or the call that waits for it.
Ids ==
  /\ \A m \in sent : m.id < nextId
  /\ \A line \in stdout : line.id < nextId
  /\ \A c \in Open : call[c].id < nextId
  /\ \A m, n \in sent : m.id = n.id => m = n
  /\ \A m \in sent, line \in stdout : m.id # line.id
  /\ \A c, d \in Open : call[c].id = call[d].id => c = d
  /\ \A k \in Tasks :
       call[k].at = "waiting" <=> run[k].at \in {"loading", "turn_start", "interrupting"}

\* The turns that were asked for.
TurnMessages == {m \in sent : m.what.kind = "turn"}

\* What is asked of the server names threads that there are.
Messages ==
  /\ Len(threads) <= MaxThreads
  /\ \A m \in sent :
       /\ m.what.kind \in {"initialize", "start", "resume", "turn", "interrupt"}
       /\ m.what.kind = "start" => m.what.channel \in Channels
       /\ m.what.kind \in {"resume", "turn"} => m.what.thread \in DOMAIN threads
       /\ m.what.kind = "turn" =>
            /\ m.what.by \in Tasks /\ m.what.context = Context(m.what.by)
            /\ threads[m.what.thread].channel = Channel(m.what.by)
  /\ \A t \in turns : t.by \in Tasks /\ t.context = Context(t.by)

\* A thread of the task's channel that a restricted task has to itself.
Fits(k, i) ==
  /\ i \in DOMAIN threads
  /\ threads[i].channel = Channel(k)
  /\ Restricted(k) => threads[i].log \subseteq {Context(k)}

\* What an open call asked, and what it may be answered.
Converses(k) ==
  /\ run[k].at = "loading" =>
       /\ k \in Open =>
            /\ \A m \in sent : m.id = call[k].id =>
                 \/ m.what.kind = "start" /\ m.what.channel = Channel(k)
                 \/ m.what.kind = "resume" /\ Fits(k, m.what.thread)
            /\ \A line \in stdout : line.id = call[k].id =>
                 line.answer = 0 \/ Fits(k, line.answer)
       /\ call[k].future = "answer" => call[k].answer = 0 \/ Fits(k, call[k].answer)
  /\ run[k].at = "turn_start" =>
       /\ k \in Open =>
            /\ \A m \in sent : m.id = call[k].id <=> m.what.kind = "turn" /\ m.what.by = k
            /\ \A line \in stdout : line.id = call[k].id /\ line.answer = 0 =>
                 \A t \in turns : t.by # k
       /\ call[k].future = "answer" =>
            /\ \A m \in TurnMessages : m.what.by # k
            /\ call[k].answer = 0 => \A t \in turns : t.by # k
  /\ run[k].at \in {"turn_start"} \cup InTurn => Fits(k, run[k].thread)

Conversation == \A k \in Tasks : Converses(k)

\* A turn that was asked for or that runs is that of a live run, until the generation is
\* invalidated or its client is closed, or the run was given up at the turn's time limit.
Owned ==
  /\ \A m \in TurnMessages :
       LET k == m.what.by
       IN  /\ initialized \/ closer = "closing"
           /\ \/ stale \/ ~initialized
              \/ run[k].at = "turn_start" /\ run[k].generation = generation
  /\ \A t \in turns :
       LET k == t.by
       IN  /\ process = "running"
           /\ initialized \/ closer = "closing"
           /\ \/ stale \/ ~initialized \/ k \in overrun
              \/ run[k].at \in {"turn_start"} \cup InTurn /\ run[k].generation = generation

\* A channel has one turn at a time, asked for or running, and none while its thread is
\* opened, beside those that were given up at their time limit.
OneTurn ==
  /\ \A m \in TurnMessages, t \in turns :
       Channel(m.what.by) = Channel(t.by) => t.by \in overrun
  /\ \A m, n \in TurnMessages : Channel(m.what.by) = Channel(n.what.by) => m = n
  /\ OneServerTurn
  /\ \A k \in Tasks : run[k].at \in {"loading", "turn_start"} \cup InTurn =>
       /\ \A m \in TurnMessages : Channel(m.what.by) = Channel(k) =>
            m.what.by = k /\ run[k].at = "turn_start"
       /\ \A t \in turns : Channel(t.by) = Channel(k) =>
            (t.by = k /\ run[k].at # "loading") \/ t.by \in overrun

\* A binding names a thread of its channel, and a context only if the thread has never been
\* told anything else, nor is about to.
Bound(c, b) ==
  b # None =>
    /\ b.thread \in DOMAIN threads
    /\ threads[b.thread].channel = c
    /\ b.context # None =>
         /\ threads[b.thread].log \subseteq {b.context}
         /\ \A m \in TurnMessages : m.what.thread = b.thread => m.what.context = b.context

Bindings == \A c \in Channels : Bound(c, sessions[c]) /\ Bound(c, saved[c])

WorktreesInv == Preparing /\ OneLive /\ Begun /\ PinnedTree
ClientInv == Client /\ NobodyWaits
SessionsInv == Ids /\ Messages /\ Conversation /\ Owned /\ OneTurn /\ Bindings

GatewayInv == TypeOK /\ WorktreesInv /\ ClientInv /\ SessionsInv

----------------------------------------------------------------------------
(* What the operations change.                                             *)

\* The runs are those of the calls of prepare() and of request().
LEMMA TasksAre ==
  Preparers = Tasks /\ Everybody = Tasks \cup {Starter} /\ Starter \notin Tasks
BY TasksAssumption, StarterAssumption DEF Tasks, Everybody

\* The ask of a task is its own, but for the repository that a retry does not name.
LEMMA AskFacts ==
  ASSUME NEW k \in Tasks
  PROVE  /\ Ask(k) \in Arguments /\ Task[k] \in Arguments
         /\ Ask(k).channel = Channel(k) /\ Ask(k).policy = Task[k].policy
         /\ Ask(k).commit = Task[k].commit
         /\ Restricted(k) => Ask(k).repo = Task[k].repo /\ Task[k].repo \in Repos
                             /\ Task[k].commit \in Commits
         /\ Channel(k) \in Channels
         /\ Context(k) \in Contexts
         /\ Context(k) = None <=> ~Restricted(k)
<1>1. Task[k] \in Arguments
  BY TaskAssumption
<1>2. /\ Ask(k) \in Arguments
      /\ Ask(k).channel = Channel(k) /\ Ask(k).policy = Task[k].policy
      /\ Ask(k).commit = Task[k].commit
      /\ Restricted(k) => Ask(k).repo = Task[k].repo
  BY <1>1 DEF Ask, Arguments, Channel
<1>3. Restricted(k) => Task[k].repo \in Repos /\ Task[k].commit \in Commits
  BY <1>1, TaskAssumption DEF Restricted, Arguments
<1>4. Channel(k) \in Channels
  BY <1>1 DEF Arguments, Channel
<1>5. Context(k) = None <=> ~Restricted(k)
  BY <1>1, <1>3, NoneAssumption DEF Context, Restricted, Arguments
<1>6. Context(k) \in Contexts
  BY DEF Contexts
<1> QED
  BY <1>1, <1>2, <1>3, <1>4, <1>5, <1>6

\* The run of a task is over: it prepares nothing any more.
LEMMA OverFacts ==
  ASSUME TypeOK, NEW k \in Tasks, Over(k)
  PROVE  /\ run' \in [Tasks -> Run]
         /\ run'[k].at = "idle" /\ \A l \in Tasks \ {k} : run'[l] = run[l]
         /\ WorktreesTypeOK'
         /\ prep'[k].at = "idle" /\ \A l \in Tasks \ {k} : prep'[l] = prep[l]
         /\ UNCHANGED <<canonical, tree>>
<1>1. IdleRun \in Run /\ IdleRun.at = "idle"
  BY BoundsAssumption DEF IdleRun, Run
<1>2. NotPreparing \in Prep /\ NotPreparing.at = "idle"
  BY DEF NotPreparing, Prep
<1> QED
  BY <1>1, <1>2, TasksAre DEF Over, TypeOK, WorktreesTypeOK

\* A run goes on.
LEMMA AtFacts ==
  ASSUME TypeOK, NEW k \in Tasks,
         NEW at \in {"context", "preparing", "loading", "turn_start"} \cup InTurn, At(k, at)
  PROVE  /\ run' \in [Tasks -> Run]
         /\ run'[k].at = at /\ run'[k].generation = run[k].generation
         /\ run'[k].thread = run[k].thread
         /\ \A l \in Tasks \ {k} : run'[l] = run[l]
<1> DEFINE w == [run[k] EXCEPT !.at = at]
<1>1. run[k] \in Run
  BY DEF TypeOK
<1>2. /\ w \in Run /\ w.at = at /\ w.generation = run[k].generation /\ w.thread = run[k].thread
  BY <1>1 DEF Run
<1>3. run' = [run EXCEPT ![k] = w]
  BY DEF At
<1> HIDE DEF w
<1> QED
  BY <1>2, <1>3 DEF TypeOK

\* prepare() goes on to its next command, or returns.
LEMMA GoesFacts ==
  ASSUME TypeOK, NEW k \in Tasks,
         NEW at \in {"canonical", "clone", "cloning", "commit", "scan", "tree", "head", "add",
                     "done", "failed"},
         \/ Goes(k, at)
         \/ at = "done" /\ \E path \in {"root", "tree", "canonical"} : Returns(k, path)
  PROVE  /\ prep' \in [Preparers -> Prep]
         /\ prep'[k].at = at /\ prep'[k].ask = prep[k].ask
         /\ \A l \in Tasks \ {k} : prep'[l] = prep[l]
<1>1. prep[k] \in Prep /\ prep \in [Preparers -> Prep] /\ k \in Preparers
  BY TasksAre DEF TypeOK, WorktreesTypeOK
<1>2. \E w \in Prep : w.at = at /\ w.ask = prep[k].ask /\ prep' = [prep EXCEPT ![k] = w]
  <2>1. CASE Goes(k, at)
    <3> DEFINE w == [prep[k] EXCEPT !.at = at]
    <3>1. w \in Prep /\ w.at = at /\ w.ask = prep[k].ask
      BY <1>1 DEF Prep
    <3>2. prep' = [prep EXCEPT ![k] = w]
      BY <2>1 DEF Goes
    <3> QED
      BY <3>1, <3>2
  <2>2. CASE at = "done" /\ \E path \in {"root", "tree", "canonical"} : Returns(k, path)
    <3> PICK path \in {"root", "tree", "canonical"} : Returns(k, path)
      BY <2>2
    <3> DEFINE w == [[prep[k] EXCEPT !.at = "done"] EXCEPT !.path = path]
    <3>1. w \in Prep /\ w.at = at /\ w.ask = prep[k].ask
      BY <1>1, <2>2 DEF Prep
    <3>2. prep' = [prep EXCEPT ![k] = w]
      BY <1>1 DEF Returns
    <3> QED
      BY <3>1, <3>2
  <2> QED
    BY <2>1, <2>2
<1> QED
  BY <1>1, <1>2, TasksAre

----------------------------------------------------------------------------
(* The worktrees.                                                          *)

\* A run that is over needs no worktree.
LEMMA OverWorktrees ==
  ASSUME GatewayInv, NEW k \in Tasks, Over(k), Live(k), begun' = begun,
         overrun' \in {overrun, overrun \cup {k}}
  PROVE  WorktreesInv'
<1>1. /\ prep'[k].at = "idle" /\ run'[k].at = "idle" /\ UNCHANGED <<canonical, tree>>
      /\ \A l \in Tasks \ {k} : prep'[l] = prep[l] /\ run'[l] = run[l]
  BY OverFacts DEF GatewayInv
<1>2. Preparing'
  BY <1>1 DEF GatewayInv, WorktreesInv, Preparing, TreeOf
<1>3. OneLive'
  BY <1>1 DEF GatewayInv, WorktreesInv, OneLive, Live
<1>4. PinnedTree'
  BY <1>1 DEF GatewayInv, WorktreesInv, PinnedTree
<1>5. Begun'
  BY <1>1 DEF GatewayInv, WorktreesInv, Begun, Live
<1> QED
  BY <1>2, <1>3, <1>4, <1>5 DEF WorktreesInv

\* Once a run has its worktree, what it does next has nothing to do with the others.
LEMMA SameWorktrees ==
  ASSUME GatewayInv, UNCHANGED <<worktreeVars, begun, overrun>>,
         \A l \in Tasks :
           \/ run'[l].at = run[l].at
           \/ /\ run[l].at \in {"preparing", "loading", "turn_start"} \cup InTurn
              /\ prep[l].at = "done" /\ run'[l].at \in {"loading", "turn_start"} \cup InTurn
  PROVE  WorktreesInv'
<1>1. Preparing'
  BY DEF GatewayInv, WorktreesInv, Preparing, TreeOf, worktreeVars
<1>2. OneLive'
  BY DEF GatewayInv, WorktreesInv, OneLive, Live
<1>3. PinnedTree'
  BY DEF GatewayInv, WorktreesInv, PinnedTree, worktreeVars
<1>4. Begun'
  BY DEF GatewayInv, WorktreesInv, Begun, Live
<1> QED
  BY <1>1, <1>2, <1>3, <1>4 DEF WorktreesInv

\* prepare() of a task that runs alone in its channel.
LEMMA PrepareWorktrees ==
  ASSUME GatewayInv, NEW k \in Tasks, run[k].at \in {"idle", "context"},
         \A l \in Tasks \ {k} : Live(l) => Channel(l) # Channel(k),
         At(k, "preparing"), Prepare(k, Ask(k)),
         k \notin overrun, begun' = begun \cup {k}, overrun' = overrun
  PROVE  WorktreesTypeOK' /\ WorktreesInv'
<1>1. /\ TypeOK /\ run'[k].at = "preparing"
      /\ \A l \in Tasks \ {k} : run'[l] = run[l]
  BY AtFacts DEF GatewayInv
<1>2. /\ Ask(k) \in Arguments /\ Ask(k).channel = Channel(k)
      /\ Ask(k).policy = Task[k].policy /\ Ask(k).commit = Task[k].commit
      /\ Restricted(k) => Ask(k).repo = Task[k].repo /\ Task[k].repo \in Repos
  BY AskFacts
<1> DEFINE at == FirstCommand(Ask(k))
           w == [at |-> at, ask |-> Ask(k), path |-> "root"]
<1>3. /\ at \in {"done", "scan", "canonical", "clone", "failed"}
      /\ at \in {"canonical", "clone"} => Ask(k).repo \in Repos
      /\ Restricted(k) => at \notin {"done", "scan"}
  BY <1>2, NoneAssumption, TaskAssumption DEF FirstCommand, Arguments, Restricted
<1>4. w \in Prep /\ w.at = at /\ w.ask = Ask(k)
  BY <1>2, <1>3 DEF Prep
<1>5. prep' = [prep EXCEPT ![k] = w] /\ UNCHANGED <<canonical, tree>>
  BY DEF Prepare
<1> HIDE DEF w, at
<1>6. /\ prep' \in [Preparers -> Prep]
      /\ prep'[k].at = at /\ prep'[k].ask = Ask(k)
      /\ \A l \in Tasks \ {k} : prep'[l] = prep[l]
  BY <1>1, <1>4, <1>5, TasksAre DEF TypeOK, WorktreesTypeOK
<1>7. WorktreesTypeOK'
  BY <1>1, <1>5, <1>6 DEF TypeOK, WorktreesTypeOK
<1>8. Preparing'
  BY <1>1, <1>2, <1>3, <1>5, <1>6 DEF GatewayInv, WorktreesInv, Preparing, TreeOf
<1>9. OneLive'
  BY <1>1 DEF GatewayInv, WorktreesInv, OneLive, Live
<1>10. PinnedTree'
  BY <1>1, <1>3, <1>5, <1>6 DEF GatewayInv, WorktreesInv, PinnedTree, Restricted
<1>11. Begun'
  BY <1>1 DEF GatewayInv, WorktreesInv, Begun, Live
<1> QED
  BY <1>7, <1>8, <1>9, <1>10, <1>11 DEF WorktreesInv

\* A git command that leaves the worktrees alone.
LEMMA MovesWorktrees ==
  ASSUME GatewayInv, NEW k \in Tasks, run[k].at = "preparing",
         NEW at \in {"canonical", "clone", "cloning", "commit", "tree", "head", "add",
                     "done", "failed"},
         \/ Goes(k, at)
         \/ at = "done" /\ \E path \in {"root", "tree", "canonical"} : Returns(k, path),
         UNCHANGED <<run, begun, overrun, tree>>,
         at \notin {"done", "failed"} => prep[k].ask.repo \in Repos,
         at \in {"tree", "head"} => TreeOf(prep[k].ask).state # "absent",
         at = "done" /\ Task[k].policy = "implementation" =>
           LET t == tree[Channel(k)][Task[k].repo]
           IN  t.state # "absent" /\ (t.head = Task[k].commit \/ t.stray)
  PROVE  prep' \in [Preparers -> Prep] /\ WorktreesInv'
<1>1. /\ prep' \in [Preparers -> Prep]
      /\ prep'[k].at = at /\ prep'[k].ask = prep[k].ask
      /\ \A l \in Tasks \ {k} : prep'[l] = prep[l]
  BY GoesFacts DEF GatewayInv
<1>2. Preparing'
  BY SMTT(30), <1>1 DEF GatewayInv, WorktreesInv, Preparing, TreeOf
<1>3. OneLive'
  BY DEF GatewayInv, WorktreesInv, OneLive, Live
<1>4. PinnedTree'
  BY <1>1 DEF GatewayInv, WorktreesInv, PinnedTree
<1>5. Begun'
  BY DEF GatewayInv, WorktreesInv, Begun, Live
<1> QED
  BY <1>1, <1>2, <1>3, <1>4, <1>5 DEF WorktreesInv

\* A worktree is changed: it exists afterwards, and no live run of its channel is misled.
LEMMA TreeFacts ==
  ASSUME TypeOK, NEW c \in Channels, NEW r \in Repos, NEW new \in Tree,
         tree' = [tree EXCEPT ![c][r] = new]
  PROVE  /\ tree' \in [Channels -> [Repos -> Tree]]
         /\ tree'[c][r] = new
         /\ \A d \in Channels, s \in Repos : d # c \/ s # r => tree'[d][s] = tree[d][s]
<1> DEFINE row == [tree[c] EXCEPT ![r] = new]
<1>1. tree \in [Channels -> [Repos -> Tree]] /\ tree[c] \in [Repos -> Tree]
  BY DEF TypeOK, WorktreesTypeOK
<1>2. /\ row \in [Repos -> Tree] /\ row[r] = new
      /\ \A s \in Repos \ {r} : row[s] = tree[c][s]
  BY <1>1
<1>3. tree' = [tree EXCEPT ![c] = row]
  BY <1>1
<1> HIDE DEF row
<1> QED
  BY <1>1, <1>2, <1>3

\* Each git command: one that fails leaves a failed call, one that succeeds a pinned tree.
LEMMA GitWorktrees ==
  ASSUME GatewayInv, NEW k \in Tasks, GitStep(k), UNCHANGED <<run, begun, overrun>>
  PROVE  WorktreesTypeOK' /\ WorktreesInv'
<1> DEFINE a == prep[k].ask
<1>1. /\ TypeOK /\ prep[k] \in Prep /\ prep \in [Preparers -> Prep]
      /\ canonical \in [Repos -> {"absent", "cloning", "half", "whole"}]
      /\ tree \in [Channels -> [Repos -> Tree]]
  BY TasksAre DEF GatewayInv, TypeOK, WorktreesTypeOK
<1>2. prep[k].at \notin {"idle", "done", "failed"}
  BY DEF GitStep, CanonicalChecked, CloneBegins, CloneEnds, CommitResolved, TreeChecked,
         HeadChecked, TreeAdded, ScanEnds
<1>3. /\ run[k].at = "preparing"
      /\ a \in Arguments /\ a.channel = Channel(k) /\ a.policy = Task[k].policy
      /\ a.commit = Task[k].commit
      /\ Restricted(k) => a.repo = Task[k].repo
      /\ prep[k].at # "scan" => a.repo \in Repos
      /\ prep[k].at \in {"tree", "head"} => TreeOf(a).state # "absent"
      /\ prep[k].at = "scan" => ~Restricted(k)
  <2>1. run[k] \in Run
    BY <1>1 DEF TypeOK
  <2> QED
    BY <1>2, <2>1 DEF GatewayInv, WorktreesInv, Preparing, Run
<1>4. /\ Channel(k) \in Channels /\ Task[k] \in Arguments
      /\ Restricted(k) => Task[k].repo \in Repos /\ Task[k].commit \in Commits
      /\ Task[k].policy = "implementation" => Restricted(k)
  BY AskFacts DEF Restricted
<1> HIDE DEF a
<1>5. ASSUME EnsureWorktree(k), UNCHANGED <<run, tree>>, prep[k].at # "scan"
      PROVE  prep' \in [Preparers -> Prep] /\ WorktreesInv'
  BY <1>3, <1>5, MovesWorktrees DEF EnsureWorktree, a
<1>6. ASSUME Goes(k, "failed"), UNCHANGED <<run, tree>>
      PROVE  prep' \in [Preparers -> Prep] /\ WorktreesInv'
  BY <1>3, <1>6, MovesWorktrees
<1>7. CASE CanonicalChecked(k)
  <2>1. \/ Goes(k, "failed")
        \/ EnsureWorktree(k)
        \/ Goes(k, "commit")
    BY <1>7 DEF CanonicalChecked
  <2>2. UNCHANGED <<run, tree, canonical>> /\ prep[k].at # "scan"
    BY <1>7 DEF CanonicalChecked
  <2>3. Goes(k, "commit") => prep' \in [Preparers -> Prep] /\ WorktreesInv'
    BY <1>3, <2>2, MovesWorktrees DEF a
  <2> QED
    BY <1>1, <1>5, <1>6, <2>1, <2>2, <2>3 DEF WorktreesTypeOK
<1>8. CASE CloneBegins(k)
  <2>1. Goes(k, "cloning") \/ Goes(k, "failed")
    BY <1>8 DEF CloneBegins
  <2>2. UNCHANGED <<run, tree>> /\ prep[k].at # "scan"
    BY <1>8 DEF CloneBegins
  <2>3. Goes(k, "cloning") => prep' \in [Preparers -> Prep] /\ WorktreesInv'
    BY <1>3, <2>2, MovesWorktrees DEF a
  <2>4. canonical' \in [Repos -> {"absent", "cloning", "half", "whole"}]
    BY <1>1, <1>8 DEF CloneBegins
  <2> QED
    BY <1>1, <1>6, <2>1, <2>2, <2>3, <2>4 DEF WorktreesTypeOK
<1>9. CASE CloneEnds(k)
  <2>1. EnsureWorktree(k) \/ Goes(k, "failed")
    BY <1>9 DEF CloneEnds
  <2>2. UNCHANGED <<run, tree>> /\ prep[k].at # "scan"
    BY <1>9 DEF CloneEnds
  <2>3. canonical' \in [Repos -> {"absent", "cloning", "half", "whole"}]
    BY <1>1, <1>9 DEF CloneEnds
  <2> QED
    BY <1>1, <1>5, <1>6, <2>1, <2>2, <2>3 DEF WorktreesTypeOK
<1>10. CASE CommitResolved(k)
  <2>1. \/ Goes(k, "failed")
        \/ prep[k].ask.policy = "review" /\ Returns(k, "canonical")
        \/ EnsureWorktree(k)
    BY <1>10 DEF CommitResolved
  <2>2. UNCHANGED <<run, tree, canonical>> /\ prep[k].at # "scan"
    BY <1>10 DEF CommitResolved
  <2>3. ASSUME prep[k].ask.policy = "review", Returns(k, "canonical")
        PROVE  prep' \in [Preparers -> Prep] /\ WorktreesInv'
    <3>1. Task[k].policy # "implementation"
      BY <1>3, <2>3 DEF a
    <3> QED
      BY <1>3, <2>2, <2>3, <3>1, MovesWorktrees
  <2> QED
    BY <1>1, <1>5, <1>6, <2>1, <2>2, <2>3 DEF WorktreesTypeOK
<1>11. CASE TreeChecked(k)
  <2>1. \/ prep[k].ask.commit = None /\ Returns(k, "tree")
        \/ Goes(k, "head") \/ Goes(k, "add") \/ Goes(k, "failed")
    BY <1>11 DEF TreeChecked
  <2>2. UNCHANGED <<run, tree, canonical>> /\ prep[k].at = "tree"
    BY <1>11 DEF TreeChecked
  <2>3. ASSUME prep[k].ask.commit = None, Returns(k, "tree")
        PROVE  prep' \in [Preparers -> Prep] /\ WorktreesInv'
    <3>1. Task[k].policy # "implementation"
      BY <1>3, <2>3, TaskAssumption DEF a
    <3> QED
      BY <1>3, <2>2, <2>3, <3>1, MovesWorktrees
  <2>4. Goes(k, "head") \/ Goes(k, "add") => prep' \in [Preparers -> Prep] /\ WorktreesInv'
    BY <1>3, <2>2, MovesWorktrees DEF a
  <2> QED
    BY <1>1, <1>6, <2>1, <2>2, <2>3, <2>4 DEF WorktreesTypeOK
<1>12. CASE HeadChecked(k)
  <2>1. \/ TreeOf(prep[k].ask).head = prep[k].ask.commit /\ Returns(k, "tree")
        \/ Goes(k, "failed")
    BY <1>12 DEF HeadChecked
  <2>2. UNCHANGED <<run, tree, canonical>> /\ prep[k].at = "head"
    BY <1>12 DEF HeadChecked
  <2>3. ASSUME TreeOf(prep[k].ask).head = prep[k].ask.commit, Returns(k, "tree")
        PROVE  prep' \in [Preparers -> Prep] /\ WorktreesInv'
    <3>1. Task[k].policy = "implementation" =>
             LET t == tree[Channel(k)][Task[k].repo]
             IN  t.state # "absent" /\ t.head = Task[k].commit
      BY <1>3, <1>4, <2>2, <2>3 DEF a, TreeOf
    <3> QED
      BY <1>3, <2>2, <2>3, <3>1, MovesWorktrees
  <2> QED
    BY <1>1, <1>6, <2>1, <2>2, <2>3 DEF WorktreesTypeOK
<1>13. CASE TreeAdded(k)
  <2>1. CASE UNCHANGED tree /\ Goes(k, "failed")
    BY <1>1, <1>6, <1>13, <2>1 DEF WorktreesTypeOK, TreeAdded
  <2>2. CASE tree' = [tree EXCEPT ![a.channel][a.repo] = Added(a)] /\ Returns(k, "tree")
    <3>1. a.repo \in Repos /\ prep[k].at = "add" /\ canonical' = canonical
      BY <1>3, <1>13 DEF TreeAdded
    <3>2. /\ Added(a) \in Tree /\ Added(a).state = "whole"
          /\ Restricted(k) => Added(a).head = Task[k].commit
      BY <1>3, <1>4, UpstreamAssumption, TaskAssumption DEF Added, Tree, Arguments, Restricted
    <3>3. /\ tree' \in [Channels -> [Repos -> Tree]]
          /\ tree'[Channel(k)][a.repo] = Added(a)
          /\ \A d \in Channels, s \in Repos :
               d # Channel(k) \/ s # a.repo => tree'[d][s] = tree[d][s]
      BY <1>1, <1>3, <1>4, <2>2, <3>1, <3>2, TreeFacts
    <3>4. /\ prep' \in [Preparers -> Prep]
          /\ prep'[k].at = "done" /\ prep'[k].ask = prep[k].ask
          /\ \A l \in Tasks \ {k} : prep'[l] = prep[l]
      BY <1>1, <2>2, GoesFacts
    <3>5. \A l \in Tasks \ {k} : prep[l].at # "idle" =>
             Channel(l) \in Channels /\ Channel(l) # Channel(k)
      BY <1>3, AskFacts DEF GatewayInv, WorktreesInv, Preparing, OneLive, Live
    <3>6. Preparing'
      <4>1. \A l \in Tasks \ {k} : prep[l].at \in {"tree", "head"} =>
              TreeOf(prep[l].ask)' = TreeOf(prep[l].ask)
        BY <3>3, <3>4, <3>5 DEF GatewayInv, WorktreesInv, Preparing, TreeOf
      <4> QED
        BY <1>3, <3>4, <4>1 DEF GatewayInv, WorktreesInv, Preparing, a
    <3>7. OneLive' /\ Begun'
      BY DEF GatewayInv, WorktreesInv, OneLive, Begun, Live
    <3>8. PinnedTree'
      <4>1. \A l \in Tasks \ {k} : prep[l].at = "done" /\ Task[l].policy = "implementation" =>
              tree'[Channel(l)][Task[l].repo] = tree[Channel(l)][Task[l].repo]
        BY <3>3, <3>5, AskFacts DEF Restricted
      <4> QED
        BY <1>3, <1>4, <3>2, <3>3, <3>4, <4>1 DEF GatewayInv, WorktreesInv, PinnedTree
    <3> QED
      BY <1>1, <3>1, <3>3, <3>4, <3>6, <3>7, <3>8 DEF WorktreesTypeOK, WorktreesInv
  <2> QED
    BY <1>13, <2>1, <2>2 DEF TreeAdded, a
<1>14. CASE ScanEnds(k)
  <2>1. UNCHANGED <<run, tree, canonical>> /\ ~Restricted(k)
    BY <1>3, <1>14 DEF ScanEnds
  <2>2. CASE Returns(k, "root")
    BY <1>1, <1>3, <1>4, <2>1, <2>2, MovesWorktrees DEF WorktreesTypeOK
  <2>3. ASSUME NEW r \in Repos,
               prep' = [prep EXCEPT ![k].at = "done", ![k].path = "tree", ![k].ask.repo = r]
        PROVE  prep' \in [Preparers -> Prep] /\ WorktreesInv'
    <3> DEFINE b == [a EXCEPT !.repo = r]
               w == [at |-> "done", ask |-> b, path |-> "tree"]
    <3>1. /\ b \in Arguments /\ b.channel = a.channel /\ b.policy = a.policy
          /\ b.commit = a.commit
      BY <1>3 DEF Arguments
    <3>2. w \in Prep /\ w.at = "done" /\ w.ask = b
      BY <3>1 DEF Prep
    <3>3. prep' = [prep EXCEPT ![k] = w]
      <4> DEFINE u == [prep[k] EXCEPT !.at = "done"]
                 v == [u EXCEPT !.path = "tree"]
                 x == [v EXCEPT !.ask = b]
      <4>1. u \in Prep /\ u.at = "done" /\ u.ask = a
        BY <1>1 DEF Prep, a
      <4>2. v \in Prep /\ v.at = "done" /\ v.ask = a /\ v.path = "tree"
        BY <4>1 DEF Prep
      <4>3. prep' = [prep EXCEPT ![k] = [v EXCEPT !.ask.repo = r]]
        BY ZenonT(60), <1>1, <2>3, TasksAre
      <4>4. [v EXCEPT !.ask.repo = r] = x
        BY <4>2
      <4> HIDE DEF u, v
      <4>5. x \in Prep /\ x.at = "done" /\ x.ask = b /\ x.path = "tree"
        BY <3>1, <4>2 DEF Prep
      <4> HIDE DEF x, b
      <4>6. x = w
        BY <3>2, <4>5 DEF Prep
      <4> QED
        BY <4>3, <4>4, <4>6
    <3> HIDE DEF b, w
    <3>4. /\ prep' \in [Preparers -> Prep] /\ prep'[k] = w
          /\ \A l \in Tasks \ {k} : prep'[l] = prep[l]
      BY <1>1, <3>2, <3>3, TasksAre
    <3>5. Preparing'
      BY <1>3, <2>1, <3>1, <3>2, <3>4 DEF GatewayInv, WorktreesInv, Preparing, TreeOf
    <3>6. OneLive' /\ Begun'
      BY <2>1 DEF GatewayInv, WorktreesInv, OneLive, Begun, Live
    <3>7. PinnedTree'
      BY <1>4, <2>1, <3>2, <3>4 DEF GatewayInv, WorktreesInv, PinnedTree
    <3> QED
      BY <3>4, <3>5, <3>6, <3>7 DEF WorktreesInv
  <2> QED
    BY <1>1, <1>14, <2>1, <2>2, <2>3 DEF ScanEnds, WorktreesTypeOK
<1> QED
  BY <1>7, <1>8, <1>9, <1>10, <1>11, <1>12, <1>13, <1>14 DEF GitStep

\* The agent of a general turn moves a worktree: no pinned turn runs in its channel, and if
\* one is prepared there the tree is known to have been moved by an abandoned turn.
LEMMA AgentWorktrees ==
  ASSUME GatewayInv, AgentStep
  PROVE  WorktreesTypeOK' /\ WorktreesInv'
<1>1. PICK t \in turns, r \in Repos, commit \in Commits :
        /\ t.context = None
        /\ AgentMoves(Channel(t.by), r, commit, Abandoned(t))
  BY DEF AgentStep
<1> DEFINE c == Channel(t.by)
           new == [state |-> "whole", head |-> commit, stray |-> Abandoned(t)]
<1>2. t.by \in Tasks /\ ~Restricted(t.by) /\ c \in Channels
  BY <1>1, AskFacts DEF GatewayInv, SessionsInv, Messages
<1>3. /\ new \in Tree /\ new.state = "whole" /\ new.stray = ~Live(t.by)
      /\ tree' = [tree EXCEPT ![c][r] = new]
      /\ UNCHANGED <<run, begun, overrun, canonical, prep>>
  BY <1>1 DEF AgentStep, AgentMoves, Abandoned, Tree, gatewayVars
<1> HIDE DEF c, new
<1>4. /\ tree' \in [Channels -> [Repos -> Tree]]
      /\ tree'[c][r] = new
      /\ \A d \in Channels, s \in Repos : d # c \/ s # r => tree'[d][s] = tree[d][s]
  <2>1. TypeOK /\ c \in Channels /\ new \in Tree
    BY <1>2, <1>3 DEF GatewayInv
  <2>2. tree' = [tree EXCEPT ![c][r] = new]
    BY <1>3
  <2> QED
    BY ZenonT(60), <2>1, <2>2, TreeFacts
<1>5. WorktreesTypeOK'
  BY <1>3, <1>4 DEF GatewayInv, TypeOK, WorktreesTypeOK
<1>6. Preparing'
  <2>1. \A k \in Tasks : prep[k].at \in {"tree", "head"} =>
          prep[k].ask \in Arguments /\ prep[k].ask.repo \in Repos
    BY DEF GatewayInv, WorktreesInv, Preparing
  <2>2. \A k \in Tasks : prep[k].at \in {"tree", "head"} /\ TreeOf(prep[k].ask).state # "absent"
          => TreeOf(prep[k].ask)'.state # "absent"
    BY <1>3, <1>4, <2>1 DEF TreeOf, Arguments
  <2> QED
    BY <1>3, <2>2 DEF GatewayInv, WorktreesInv, Preparing
<1>7. OneLive' /\ Begun'
  BY <1>3 DEF GatewayInv, WorktreesInv, OneLive, Begun, Live
<1>8. PinnedTree'
  <2> SUFFICES ASSUME NEW k \in Tasks, prep[k].at = "done", Task[k].policy = "implementation"
               PROVE  LET u == tree'[Channel(k)][Task[k].repo]
                      IN  u.state # "absent" /\ (u.head = Task[k].commit \/ u.stray)
    BY <1>3 DEF PinnedTree
  <2>1. Restricted(k) /\ Live(k) /\ k # t.by /\ Channel(k) \in Channels /\ Task[k].repo \in Repos
    BY <1>2, AskFacts DEF GatewayInv, WorktreesInv, Preparing, Restricted, Live
  <2>2. c = Channel(k) => ~Live(t.by)
    BY <1>2, <2>1 DEF GatewayInv, WorktreesInv, OneLive, c
  <2> QED
    BY ZenonT(60), <1>3, <1>4, <2>1, <2>2 DEF GatewayInv, WorktreesInv, PinnedTree
<1> QED
  BY <1>5, <1>6, <1>7, <1>8 DEF WorktreesInv

\* A crash leaves no run, and of a worktree that was being added at most half.
LEMMA CrashWorktrees ==
  ASSUME GatewayInv, Crash
  PROVE  WorktreesTypeOK' /\ WorktreesInv'
<1>1. /\ run' = [k \in Tasks |-> IdleRun] /\ prep' = [p \in Preparers |-> NotPreparing]
      /\ canonical' \in [Repos -> {"absent", "cloning", "half", "whole"}]
      /\ overrun' = {}
  BY DEF Crash, CutShort
<1>2. tree' \in [Channels -> [Repos -> Tree]]
  <2>1. PICK cut \in SUBSET {p \in Preparers : prep[p].at = "add"} :
          tree' = [c \in Channels |-> [r \in Repos |->
             IF \E p \in cut : prep[p].ask.channel = c /\ prep[p].ask.repo = r
             THEN LET p == CHOOSE p \in cut : prep[p].ask.channel = c /\ prep[p].ask.repo = r
                  IN [Added(prep[p].ask) EXCEPT !.state = "half"]
             ELSE tree[c][r]]]
    BY DEF Crash, CutShort
  <2>2. \A p \in cut : [Added(prep[p].ask) EXCEPT !.state = "half"] \in Tree
    <3> SUFFICES ASSUME NEW p \in cut PROVE [Added(prep[p].ask) EXCEPT !.state = "half"] \in Tree
      OBVIOUS
    <3>1. prep[p].ask \in Arguments
      BY TasksAre DEF GatewayInv, WorktreesInv, Preparing
    <3>2. Added(prep[p].ask) \in Tree
      BY <3>1, UpstreamAssumption DEF Added, Arguments, Tree
    <3> QED
      BY <3>2 DEF Tree
  <2>3. tree \in [Channels -> [Repos -> Tree]]
    BY DEF GatewayInv, TypeOK, WorktreesTypeOK
  <2>4. \A c \in Channels, r \in Repos :
          (\E p \in cut : prep[p].ask.channel = c /\ prep[p].ask.repo = r) =>
            (CHOOSE p \in cut : prep[p].ask.channel = c /\ prep[p].ask.repo = r) \in cut
    OBVIOUS
  <2> QED
    BY <2>1, <2>2, <2>3, <2>4
<1>3. NotPreparing \in Prep /\ NotPreparing.at = "idle" /\ IdleRun.at = "idle"
  BY DEF NotPreparing, Prep, IdleRun
<1>4. WorktreesTypeOK'
  BY <1>1, <1>2, <1>3 DEF WorktreesTypeOK
<1>5. WorktreesInv'
  BY <1>1, <1>3, TasksAre DEF WorktreesInv, Preparing, OneLive, Begun, PinnedTree, Live
<1> QED
  BY <1>4, <1>5

----------------------------------------------------------------------------
(* The calls of request().                                                 *)

\* A call that waits for its future.
LEMMA OpenFacts ==
  ASSUME TypeOK
  PROVE  /\ Open \subseteq Registered
         /\ \A c \in Everybody : call[c] \in Call
         /\ \A c \in Registered : call[c].at = "waiting"
         /\ \A c \in Registered : call[c].future = "open" => c \in Open
BY DEF TypeOK, TransportTypeOK, Open, Registered, Call

\* A request is sent with an id of its own.
LEMMA RequestFacts ==
  ASSUME TypeOK, NEW k \in Tasks, NEW what, Request(k, what)
  PROVE  /\ TransportTypeOK'
         /\ initialized /\ CanWrite
         /\ nextId \in Nat /\ nextId' = nextId + 1
         /\ sent' = sent \cup {[id |-> nextId, what |-> what]}
         /\ call'[k].at = "waiting" /\ call'[k].future = "open" /\ call'[k].id = nextId
         /\ \A c \in Everybody \ {k} : call'[c] = call[c]
         /\ Open' = Open \cup {k}
         /\ UNCHANGED <<process, reader, failure, closer, initialized, told, stdout>>
<1> DEFINE w == [NoCall EXCEPT !.at = "waiting", !.id = nextId]
<1>1. nextId \in Nat /\ k \in Everybody
  BY TasksAre DEF TypeOK, TransportTypeOK
<1>2. w \in Call /\ w.at = "waiting" /\ w.future = "open" /\ w.id = nextId
  BY <1>1 DEF NoCall, Call
<1>3. call' = [call EXCEPT ![k] = w]
  BY DEF Request, FreshId
<1> HIDE DEF w
<1>4. /\ call' \in [Everybody -> Call] /\ call'[k] = w
      /\ \A c \in Everybody \ {k} : call'[c] = call[c]
  BY <1>1, <1>2, <1>3 DEF TypeOK, TransportTypeOK
<1>5. Open' = Open \cup {k}
  BY <1>1, <1>2, <1>4 DEF Open
<1>6. /\ initialized /\ CanWrite /\ nextId' = nextId + 1
      /\ sent' = sent \cup {[id |-> nextId, what |-> what]}
      /\ UNCHANGED <<process, reader, failure, closer, initialized, told, stdout>>
  BY DEF Request, FreshId
<1>7. sent' \subseteq [id : Nat, what : {m.what : m \in sent'}]
  BY <1>1, <1>6 DEF TypeOK, TransportTypeOK
<1>8. TransportTypeOK'
  <2>1. /\ process' \in {"none", "running", "exited"} /\ reader' \in {"none", "reading", "ended"}
        /\ failure' \in BOOLEAN /\ initialized' \in BOOLEAN /\ told' \in BOOLEAN
        /\ closer' \in {"idle", "closing"} /\ nextId' \in Nat
        /\ stdout' \subseteq [id : Nat, answer : Nat]
    BY <1>1, <1>6 DEF TypeOK, TransportTypeOK
  <2> QED
    BY <1>4, <1>7, <2>1 DEF TransportTypeOK
<1> QED
  BY <1>1, <1>2, <1>4, <1>5, <1>6, <1>8

\* A request is over.
LEMMA PoppedFacts ==
  ASSUME TypeOK, NEW k \in Tasks, Popped(k)
  PROVE  /\ TransportTypeOK'
         /\ call'[k].at = "idle" /\ \A c \in Everybody \ {k} : call'[c] = call[c]
         /\ Open' = Open \ {k}
         /\ UNCHANGED <<process, reader, failure, closer, initialized, told, nextId, sent, stdout>>
<1>1. NoCall \in Call /\ NoCall.at = "idle" /\ k \in Everybody
  BY TasksAre DEF NoCall, Call
<1>2. /\ call' = [call EXCEPT ![k] = NoCall]
      /\ UNCHANGED <<process, reader, failure, closer, initialized, told, nextId, sent, stdout>>
  BY DEF Popped
<1>3. /\ call' \in [Everybody -> Call] /\ call'[k].at = "idle"
      /\ \A c \in Everybody \ {k} : call'[c] = call[c]
  BY <1>1, <1>2 DEF TypeOK, TransportTypeOK
<1>4. Open' = Open \ {k}
  BY <1>1, <1>3 DEF Open
<1>5. TransportTypeOK'
  BY <1>2, <1>3 DEF TypeOK, TransportTypeOK
<1> QED
  BY <1>2, <1>3, <1>4, <1>5

\* What is pending fails: nobody waits for a future any more.
LEMMA FailFacts ==
  ASSUME TypeOK, call' = FailPending
  PROVE  /\ call' \in [Everybody -> Call]
         /\ Open' = {}
         /\ \A c \in Everybody : call'[c].at = call[c].at
         /\ \A c \in Everybody : call'[c] = call[c] \/ call'[c].future = "error"
<1>1. /\ [NoCall EXCEPT !.at = "waiting", !.future = "error"] \in Call
      /\ [NoCall EXCEPT !.at = "waiting", !.future = "error"].at = "waiting"
      /\ [NoCall EXCEPT !.at = "waiting", !.future = "error"].future = "error"
  BY DEF NoCall, Call
<1>2. \A c \in Everybody : call[c] \in Call
  BY DEF TypeOK, TransportTypeOK
<1>3. \A c \in Registered : call[c].at = "waiting"
  BY <1>2 DEF Registered, Call
<1>4. \A c \in Everybody :
        call'[c] = IF c \in Registered /\ call[c].future = "open"
                   THEN [NoCall EXCEPT !.at = "waiting", !.future = "error"] ELSE call[c]
  BY DEF FailPending
<1>5. call' \in [Everybody -> Call]
  BY <1>1, <1>2 DEF FailPending
<1>6. Open' = {}
  BY <1>1, <1>3, <1>4 DEF Open, Registered
<1> QED
  BY <1>1, <1>3, <1>4, <1>5, <1>6

\* An answer is read: it ends the wait of the call with its id, if there is one.
LEMMA ResolvedFacts ==
  ASSUME TypeOK, NEW line \in stdout, call' = Resolved(line)
  PROVE  /\ call' \in [Everybody -> Call]
         /\ Open' \subseteq Open
         /\ \A c \in Everybody : call'[c].at = call[c].at
         /\ \A c \in Everybody :
              \/ call'[c] = call[c] /\ (c \in Open => call[c].id # line.id)
              \/ /\ c \in Open /\ call[c].id = line.id
                 /\ call'[c].future = "answer" /\ call'[c].answer = line.answer
<1> DEFINE w == [NoCall EXCEPT !.at = "waiting", !.future = "answer", !.answer = line.answer]
<1>1. line.answer \in Nat
  BY DEF TypeOK, TransportTypeOK
<1>2. w \in Call /\ w.at = "waiting" /\ w.future = "answer" /\ w.answer = line.answer
  BY <1>1 DEF NoCall, Call
<1>3. \A c \in Everybody : call[c] \in Call
  BY DEF TypeOK, TransportTypeOK
<1>4. \A c \in Everybody :
        call'[c] = IF c \in Open /\ call[c].id = line.id THEN w ELSE call[c]
  BY <1>3 DEF Resolved, Open, Registered, Call
<1>5. call' \in [Everybody -> Call]
  BY <1>2, <1>3 DEF Resolved
<1> HIDE DEF w
<1>6. Open' \subseteq Open
  BY <1>2, <1>4 DEF Open
<1>7. \A c \in Everybody : call'[c].at = call[c].at
  BY <1>2, <1>4 DEF Open
<1> QED
  BY <1>2, <1>4, <1>5, <1>6, <1>7

----------------------------------------------------------------------------
(* The threads and the turns.                                              *)

\* Whether a thread fits a run does not change while the threads do not.
LEMMA SameThreads ==
  ASSUME UNCHANGED threads
  PROVE  /\ \A k, i : Fits(k, i)' <=> Fits(k, i)
BY DEF Fits

\* Steps that only take away: messages, answers, turns and waiting calls, and runs that end.
\* A run that had a turn may only end with it, once the generation is invalidated, or as one
\* that was given up at the turn's time limit.
LEMMA Shrinks ==
  ASSUME GatewayInv,
         UNCHANGED <<threads, nextId>>,
         \A c \in Channels : Bound(c, sessions'[c]) /\ Bound(c, saved'[c]),
         sent' \subseteq sent, stdout' \subseteq stdout, turns' \subseteq turns,
         Open' \subseteq Open,
         \A c \in Open' : call'[c] = call[c],
         \A k \in Tasks :
           \/ /\ run'[k] = run[k]
              /\ \/ call'[k] = call[k]
                 \/ call'[k].at = call[k].at /\ call'[k].future = "error"
           \/ run'[k].at \notin {"loading", "turn_start"} \cup InTurn /\ call'[k].at # "waiting"
           \/ /\ run[k].at \in InTurn /\ run'[k].at \in {"turn", "grace"}
              /\ run'[k].generation = run[k].generation /\ run'[k].thread = run[k].thread
              /\ call'[k].at # "waiting",
         overrun \subseteq overrun',
         turns' # {} => process' = "running",
         \/ initialized' \/ closer' = "closing"
         \/ ~initialized /\ closer = "idle"
         \/ sent' = {} /\ turns' = {},
         \/ stale' \/ ~initialized'
         \/ /\ initialized /\ ~stale /\ generation' = generation
            /\ \A k \in Tasks : run[k].at \in {"turn_start"} \cup InTurn =>
                 \/ run'[k] = run[k]
                 \/ run[k].at \in InTurn /\ run'[k].at \in InTurn
                 \/ run[k].generation # generation
                 \/ /\ \A m \in TurnMessages' : m.what.by # k
                    /\ k \in overrun' \/ \A t \in turns' : t.by # k
  PROVE  SessionsInv'
<1>1. Ids'
  BY DEF GatewayInv, SessionsInv, Ids
<1>2. TurnMessages' \subseteq TurnMessages
  BY DEF TurnMessages
<1>3. Messages'
  BY DEF GatewayInv, SessionsInv, Messages
<1>4. Conversation'
  <2> SUFFICES ASSUME NEW k \in Tasks, run'[k].at \in {"loading", "turn_start"} \cup InTurn
               PROVE  Converses(k)'
    BY DEF Conversation, Converses
  <2>1. CASE /\ run'[k] = run[k]
             /\ \/ call'[k] = call[k]
                \/ call'[k].at = call[k].at /\ call'[k].future = "error"
    BY <1>2, <2>1, SameThreads DEF GatewayInv, SessionsInv, Conversation, Converses, Open
  <2>2. CASE /\ run[k].at \in InTurn /\ run'[k].at \in {"turn", "grace"}
             /\ run'[k].thread = run[k].thread
    BY <2>2, SameThreads DEF GatewayInv, SessionsInv, Conversation, Converses
  <2> QED
    BY <2>1, <2>2
<1>5. Owned'
  <2>1. Owned
    BY DEF GatewayInv, SessionsInv
  <2>2. ASSUME ~stale', initialized'
        PROVE  /\ initialized /\ ~stale /\ generation' = generation
               /\ \A k \in Tasks : run[k].at \in {"turn_start"} \cup InTurn =>
                    \/ run'[k] = run[k]
                    \/ /\ run[k].at \in InTurn /\ run'[k].at \in InTurn
                       /\ run'[k].generation = run[k].generation
                    \/ run[k].generation # generation
                    \/ /\ \A m \in TurnMessages' : m.what.by # k
                       /\ k \in overrun' \/ \A t \in turns' : t.by # k
    BY <2>2
  <2>3. ASSUME NEW m \in TurnMessages'
        PROVE  LET k == m.what.by
               IN  /\ initialized' \/ closer' = "closing"
                   /\ \/ stale' \/ ~initialized'
                      \/ run'[k].at = "turn_start" /\ run'[k].generation = generation'
    <3>1. m \in TurnMessages /\ m \in sent' /\ m.what.by \in Tasks
      BY <1>2, <2>3 DEF GatewayInv, SessionsInv, Messages, TurnMessages
    <3> QED
      BY <2>1, <2>2, <3>1 DEF Owned
  <2>4. ASSUME NEW t \in turns'
        PROVE  LET k == t.by
               IN  /\ process' = "running"
                   /\ initialized' \/ closer' = "closing"
                   /\ \/ stale' \/ ~initialized' \/ k \in overrun'
                      \/ /\ run'[k].at \in {"turn_start"} \cup InTurn
                         /\ run'[k].generation = generation'
    <3>1. t \in turns /\ t.by \in Tasks
      BY <2>4 DEF GatewayInv, SessionsInv, Messages
    <3> QED
      BY <2>1, <2>2, <3>1 DEF Owned
  <2> QED
    BY <2>3, <2>4 DEF Owned
<1>6. OneTurn'
  <2>1. \A k \in Tasks : run'[k].at \in {"loading", "turn_start"} \cup InTurn =>
          \/ run'[k].at = run[k].at
          \/ run[k].at \in InTurn /\ run'[k].at \in InTurn
    OBVIOUS
  <2> QED
    BY <1>2, <2>1 DEF GatewayInv, SessionsInv, OneTurn, OneServerTurn
<1>7. Bindings'
  BY <1>2 DEF GatewayInv, SessionsInv, Bindings, Bound
<1> QED
  BY <1>1, <1>3, <1>4, <1>5, <1>6, <1>7 DEF SessionsInv

\* A client is started: the pipes of its process are empty and no call of an earlier one is
\* left waiting.
LEMMA ClientStartSessions ==
  ASSUME GatewayInv, NEW what, what.kind = "initialize", ClientStart(what),
         UNCHANGED <<run, sessions, saved, threads, turns, overrun>>
  PROVE  TransportTypeOK' /\ SessionsInv'
<1> DEFINE w == [NoCall EXCEPT !.at = "waiting"]
           m0 == [id |-> 0, what |-> what]
<1>1. /\ process = "none" /\ closer = "idle" /\ ~initialized
      /\ process' = "running" /\ reader' = "reading"
      /\ call' = [call EXCEPT ![Starter] = w]
      /\ sent' = {m0} /\ nextId' = 1
      /\ UNCHANGED <<failure, closer, initialized, told, stdout>>
  BY DEF ClientStart
<1>2. w \in Call /\ w.id = 0 /\ w.future = "open"
  BY DEF NoCall, Call
<1>3. stdout = {} /\ turns = {} /\ Open = {}
  <2>1. stdout = {} /\ reader = "none"
    BY <1>1 DEF GatewayInv, ClientInv, Client
  <2>2. turns = {}
    BY <1>1 DEF GatewayInv, SessionsInv, Owned
  <2>3. Open = {}
    BY <2>1, OpenFacts DEF GatewayInv, ClientInv, NobodyWaits, Open
  <2> QED
    BY <2>1, <2>2, <2>3
<1> HIDE DEF w
<1>4. /\ call' \in [Everybody -> Call] /\ call'[Starter] = w
      /\ \A k \in Tasks : call'[k] = call[k]
  BY <1>1, <1>2, TasksAre DEF GatewayInv, TypeOK, TransportTypeOK
<1>5. Open' \subseteq {Starter}
  BY <1>3, <1>4, TasksAre DEF Open
<1>6. sent' \subseteq [id : Nat, what : {m.what : m \in sent'}]
  BY <1>1
<1>7. TransportTypeOK'
  BY <1>1, <1>4, <1>6 DEF GatewayInv, TypeOK, TransportTypeOK
<1>8. m0.id = 0 /\ m0.what.kind = "initialize" /\ TurnMessages' = {}
  BY <1>1 DEF TurnMessages
<1>9. Ids'
  BY <1>1, <1>2, <1>3, <1>4, <1>5, <1>8 DEF GatewayInv, SessionsInv, Ids
<1>10. Messages'
  BY <1>1, <1>3, <1>8 DEF GatewayInv, SessionsInv, Messages
<1>11. Conversation'
  BY <1>1, <1>3, <1>4, <1>5, <1>8, TasksAre, SameThreads
     DEF GatewayInv, SessionsInv, Conversation, Converses
<1>12. Owned' /\ OneTurn'
  BY <1>3, <1>8 DEF Owned, OneTurn, OneServerTurn
<1>13. Bindings'
  BY <1>8 DEF GatewayInv, SessionsInv, Bindings, Bound
<1> QED
  BY <1>7, <1>9, <1>10, <1>11, <1>12, <1>13 DEF SessionsInv

\* The reader resolves a future: what it is given is an answer to what was asked.
LEMMA ReadAnswerSessions ==
  ASSUME GatewayInv, NEW line \in stdout, ReadAnswer(line), UNCHANGED gatewayVars
  PROVE  TransportTypeOK' /\ SessionsInv'
<1>1. /\ stdout' = stdout \ {line} /\ call' = Resolved(line)
      /\ UNCHANGED <<process, reader, failure, closer, initialized, told, nextId, sent>>
      /\ UNCHANGED <<run, sessions, saved, threads, turns, stale, generation, overrun>>
  BY DEF ReadAnswer, gatewayVars
<1>2. /\ call' \in [Everybody -> Call]
      /\ Open' \subseteq Open
      /\ \A c \in Everybody : call'[c].at = call[c].at
      /\ \A c \in Everybody :
           \/ call'[c] = call[c] /\ (c \in Open => call[c].id # line.id)
           \/ /\ c \in Open /\ call[c].id = line.id
              /\ call'[c].future = "answer" /\ call'[c].answer = line.answer
  BY <1>1, ResolvedFacts DEF GatewayInv
<1>3. \A c \in Open' : call'[c] = call[c]
  BY <1>2 DEF Open
<1>4. TransportTypeOK'
  BY <1>1, <1>2 DEF GatewayInv, TypeOK, TransportTypeOK
<1>5. TurnMessages' = TurnMessages
  BY <1>1 DEF TurnMessages
<1>6. Ids'
  BY <1>1, <1>2, <1>3, TasksAre DEF GatewayInv, SessionsInv, Ids
<1>7. Messages'
  BY <1>1 DEF GatewayInv, SessionsInv, Messages
<1>8. Conversation'
  <2> SUFFICES ASSUME NEW k \in Tasks PROVE Converses(k)'
    BY DEF Conversation
  <2>1. Converses(k)
    BY DEF GatewayInv, SessionsInv, Conversation
  <2>2. CASE call'[k] = call[k]
    BY <1>1, <1>3, <1>5, <2>1, <2>2, SameThreads DEF Converses, Open
  <2>3. CASE /\ k \in Open /\ call[k].id = line.id
             /\ call'[k].future = "answer" /\ call'[k].answer = line.answer
    <3>1. k \notin Open'
      BY <2>3 DEF Open
    <3>2. \A m \in sent : m.id # call[k].id
      BY <2>3 DEF GatewayInv, SessionsInv, Ids
    <3> QED
      BY <1>1, <1>5, <2>1, <2>3, <3>1, <3>2, SameThreads DEF Converses, TurnMessages
  <2> QED
    BY <1>2, <2>2, <2>3, TasksAre
<1>9. Owned'
  BY <1>1, <1>5 DEF GatewayInv, SessionsInv, Owned
<1>10. OneTurn'
  BY <1>1, <1>5 DEF GatewayInv, SessionsInv, OneTurn, OneServerTurn
<1>11. Bindings'
  BY <1>1, <1>5 DEF GatewayInv, SessionsInv, Bindings, Bound
<1> QED
  BY <1>4, <1>6, <1>7, <1>8, <1>9, <1>10, <1>11 DEF SessionsInv

\* While the client is ready nothing is asked of the server, and nothing runs there but what
\* was given up at its time limit, for a channel whose task has no turn yet.
LEMMA NothingLeft ==
  ASSUME GatewayInv, initialized, ~stale, NEW k \in Tasks, run[k].at \in {"preparing", "loading"}
  PROVE  /\ \A m \in TurnMessages : Channel(m.what.by) # Channel(k)
         /\ \A t \in turns : Channel(t.by) = Channel(k) => t.by \in overrun /\ t.by # k
<1>1. k \notin overrun /\ \A l \in Tasks : Channel(l) = Channel(k) /\ l # k => run[l].at = "idle"
  BY DEF GatewayInv, WorktreesInv, OneLive, Begun, Live
<1> QED
  BY <1>1 DEF GatewayInv, SessionsInv, Owned, Messages, TurnMessages

\* The id of a new request is that of no message, answer or waiting call.
LEMMA RequestIds ==
  ASSUME GatewayInv, NEW k \in Tasks, NEW what, Request(k, what), k \notin Open,
         run'[k].at \in {"loading", "turn_start", "interrupting"},
         \A l \in Tasks \ {k} : run'[l] = run[l]
  PROVE  Ids'
<1> DEFINE m0 == [id |-> nextId, what |-> what]
<1>1. /\ nextId \in Nat /\ nextId' = nextId + 1 /\ sent' = sent \cup {m0}
      /\ call'[k].at = "waiting" /\ call'[k].future = "open" /\ call'[k].id = nextId
      /\ \A c \in Everybody \ {k} : call'[c] = call[c]
      /\ Open' = Open \cup {k} /\ stdout' = stdout
  BY RequestFacts DEF GatewayInv
<1>2. /\ \A m \in sent : m.id \in Nat
      /\ \A line \in stdout : line.id \in Nat
      /\ \A c \in Everybody : call[c].id \in Nat
  BY DEF GatewayInv, TypeOK, TransportTypeOK, Call
<1>3. Open \subseteq Everybody /\ k \in Everybody
  BY TasksAre DEF Open
<1>4. Ids
  BY DEF GatewayInv, SessionsInv
<1>5. \A l \in Tasks :
        call'[l].at = "waiting" <=> run'[l].at \in {"loading", "turn_start", "interrupting"}
  BY <1>1, <1>4, TasksAre DEF Ids
<1>6. m0.id = nextId
  OBVIOUS
<1> HIDE DEF m0
<1>7. /\ \A m \in sent' : m.id < nextId'
      /\ \A line \in stdout' : line.id < nextId'
      /\ \A c \in Open' : call'[c].id < nextId'
  BY <1>1, <1>2, <1>3, <1>4, <1>6 DEF Ids
<1>8. /\ \A m, n \in sent' : m.id = n.id => m = n
      /\ \A m \in sent', line \in stdout' : m.id # line.id
  BY <1>1, <1>2, <1>4, <1>6 DEF Ids
<1>9. \A c, d \in Open' : call'[c].id = call'[d].id => c = d
  BY <1>1, <1>2, <1>3, <1>4 DEF Ids
<1> QED
  BY <1>5, <1>7, <1>8, <1>9 DEF Ids

\* The thread of a run is opened.
LEMMA LoadSessions ==
  ASSUME GatewayInv, NEW k \in Tasks, run[k].at = "preparing", ~stale,
         Request(k, OpenThread(k)),
         run' = [run EXCEPT ![k].at = "loading", ![k].generation = generation],
         UNCHANGED <<sessions, saved, threads, turns, stale, generation, overrun>>
  PROVE  TransportTypeOK' /\ run' \in [Tasks -> Run] /\ run'[k].at = "loading"
         /\ (\A l \in Tasks \ {k} : run'[l] = run[l]) /\ SessionsInv'
<1> DEFINE m0 == [id |-> nextId, what |-> OpenThread(k)]
<1>1. /\ TransportTypeOK'
      /\ initialized /\ CanWrite
      /\ nextId \in Nat /\ nextId' = nextId + 1
      /\ sent' = sent \cup {m0}
      /\ call'[k].at = "waiting" /\ call'[k].future = "open" /\ call'[k].id = nextId
      /\ \A c \in Everybody \ {k} : call'[c] = call[c]
      /\ Open' = Open \cup {k}
      /\ UNCHANGED <<process, reader, failure, closer, initialized, told, stdout>>
  BY RequestFacts DEF GatewayInv
<1>2. /\ run' \in [Tasks -> Run] /\ run'[k].at = "loading"
      /\ \A l \in Tasks \ {k} : run'[l] = run[l]
  <2> DEFINE u == [run[k] EXCEPT !.at = "loading"]
             v == [u EXCEPT !.generation = generation]
  <2>1. run[k] \in Run /\ generation \in 0..MaxGenerations /\ run \in [Tasks -> Run]
    BY DEF GatewayInv, TypeOK
  <2>2. u \in Run /\ u.at = "loading"
    BY <2>1 DEF Run
  <2> HIDE DEF u
  <2>3. v \in Run /\ v.at = "loading"
    BY <2>1, <2>2 DEF Run
  <2>4. run' = [run EXCEPT ![k] = v]
    BY <2>1 DEF u
  <2> HIDE DEF v
  <2> QED
    BY <2>1, <2>3, <2>4
<1>3. /\ m0.id = nextId /\ m0.what.kind \in {"start", "resume"}
      /\ m0.what.channel = Channel(k)
      /\ m0.what.kind = "resume" => Fits(k, m0.what.thread)
  <2>1. CASE Existing(k) = None
    BY <2>1 DEF OpenThread
  <2>2. CASE Existing(k) # None
    <3>1. /\ Existing(k) = sessions[Channel(k)] /\ sessions[Channel(k)] # None
          /\ Restricted(k) => sessions[Channel(k)].context = Context(k)
      BY <2>2 DEF Existing, Matches
    <3>2. Bound(Channel(k), sessions[Channel(k)])
      BY AskFacts DEF GatewayInv, SessionsInv, Bindings
    <3>3. Fits(k, Existing(k).thread)
      BY <3>1, <3>2, AskFacts DEF Bound, Fits
    <3> QED
      BY <2>2, <3>3 DEF OpenThread
  <2> QED
    BY <2>1, <2>2
<1> HIDE DEF m0
<1>4. TurnMessages' = TurnMessages
  BY <1>1, <1>3 DEF TurnMessages
<1>5. Ids'
  <2>1. k \notin Open
    BY DEF GatewayInv, SessionsInv, Ids, Open
  <2> QED
    BY <1>2, <2>1, RequestIds
<1>6. Messages'
  BY <1>1, <1>3, AskFacts DEF GatewayInv, SessionsInv, Messages, Fits
<1>7. Conversation'
  <2> SUFFICES ASSUME NEW l \in Tasks PROVE Converses(l)'
    BY DEF Conversation
  <2>1. Converses(l) /\ Ids
    BY DEF GatewayInv, SessionsInv, Conversation
  <2>2. CASE l = k
    <3>1. \A m \in sent : m.id # nextId
      BY <1>1, <2>1 DEF Ids, GatewayInv, TypeOK, TransportTypeOK
    <3>2. \A line \in stdout : line.id # nextId
      BY <1>1, <2>1 DEF Ids, GatewayInv, TypeOK, TransportTypeOK
    <3> QED
      BY <1>1, <1>2, <1>3, <2>2, <3>1, <3>2, SameThreads DEF Converses
  <2>3. CASE l # k
    <3>1. call'[l] = call[l] /\ run'[l] = run[l] /\ (l \in Open' <=> l \in Open)
      BY <1>1, <1>2, <2>3, TasksAre
    <3>2. l \in Open => call[l].id # m0.id /\ call[l].id \in Nat
      BY <1>1, <1>3, <2>1, TasksAre DEF Ids, GatewayInv, TypeOK, TransportTypeOK, Call
    <3> QED
      BY <1>1, <1>3, <1>4, <2>1, <3>1, <3>2, SameThreads DEF Converses
  <2> QED
    BY <2>2, <2>3
<1>8. Owned'
  BY <1>1, <1>2, <1>4 DEF GatewayInv, SessionsInv, Owned, Messages, TurnMessages
<1>9. OneTurn'
  <2>1. /\ \A m \in TurnMessages : Channel(m.what.by) # Channel(k)
        /\ \A t \in turns : Channel(t.by) = Channel(k) => t.by \in overrun
    BY <1>1, NothingLeft
  <2> QED
    BY <1>2, <1>4, <2>1 DEF GatewayInv, SessionsInv, OneTurn, OneServerTurn
<1>10. Bindings'
  BY <1>4 DEF GatewayInv, SessionsInv, Bindings, Bound
<1> QED
  BY <1>1, <1>2, <1>5, <1>6, <1>7, <1>8, <1>9, <1>10 DEF SessionsInv

\* The thread that a run was given is bound to its channel: whether the write is seen, and
\* whether it survives a crash, the binding is right.
LEMMA BindFacts ==
  ASSUME GatewayInv, NEW k \in Tasks, run[k].at = "loading", NEW i \in Nat, Fits(k, i),
         NEW outcome, Bind(k, i, outcome)
  PROVE  /\ sessions' \in [Channels -> Binding] /\ saved' \in [Channels -> Binding]
         /\ \A c \in Channels : Bound(c, sessions'[c]) /\ Bound(c, saved'[c])
         /\ outcome = "ok" => saved' = sessions' /\ sessions' =
              [sessions EXCEPT ![Channel(k)] = [thread |-> i, context |-> Context(k)]]
<1> DEFINE b == [thread |-> i, context |-> Context(k)]
           bound == [sessions EXCEPT ![Channel(k)] = b]
<1>1. /\ sessions' = IF outcome = "failed" THEN sessions ELSE bound
      /\ saved' = IF outcome = "ok" THEN bound ELSE saved
  BY DEF Bind
<1>2. /\ Channel(k) \in Channels /\ Context(k) \in Contexts
      /\ Context(k) = None <=> ~Restricted(k)
  BY AskFacts
<1>3. /\ sessions \in [Channels -> Binding] /\ saved \in [Channels -> Binding]
      /\ threads \in Seq([channel : Channels, log : SUBSET Contexts])
      /\ Len(threads) <= MaxThreads /\ Len(threads) \in Nat
  BY DEF GatewayInv, TypeOK, SessionsInv, Messages
<1>4. i \in 1..MaxThreads
  BY <1>3, BoundsAssumption DEF Fits
<1>5. b \in Binding
  BY <1>2, <1>4 DEF Binding
<1>6. Bound(Channel(k), b)
  <2>1. \A m \in TurnMessages : m.what.thread # i
    BY DEF GatewayInv, SessionsInv, OneTurn, Messages, TurnMessages, Fits
  <2> QED
    BY <1>2, <2>1 DEF Bound, Fits
<1>7. \A c \in Channels : Bound(c, sessions[c]) /\ Bound(c, saved[c])
  BY DEF GatewayInv, SessionsInv, Bindings
<1> HIDE DEF b
<1>8. bound \in [Channels -> Binding] /\ \A c \in Channels : Bound(c, bound[c])
  BY <1>2, <1>3, <1>5, <1>6, <1>7
<1> QED
  BY <1>1, <1>3, <1>7, <1>8 DEF b

\* The turn of a run is asked for on the thread that was just bound.
LEMMA StartTurnSessions ==
  ASSUME GatewayInv, NEW k \in Tasks, run[k].at = "loading", call[k].future = "answer",
         ~stale, run[k].generation = generation,
         NEW i \in Nat, Fits(k, i), Bind(k, i, "ok"), Request(k, StartTurn(k, i)),
         run' = [run EXCEPT ![k].at = "turn_start", ![k].thread = i],
         UNCHANGED <<threads, turns, stale, generation, overrun>>
  PROVE  TransportTypeOK' /\ run' \in [Tasks -> Run] /\ run'[k].at = "turn_start"
         /\ (\A l \in Tasks \ {k} : run'[l] = run[l]) /\ SessionsInv'
<1> DEFINE m0 == [id |-> nextId, what |-> StartTurn(k, i)]
<1>1. /\ TransportTypeOK'
      /\ initialized /\ CanWrite
      /\ nextId \in Nat /\ nextId' = nextId + 1
      /\ sent' = sent \cup {m0}
      /\ call'[k].at = "waiting" /\ call'[k].future = "open" /\ call'[k].id = nextId
      /\ \A c \in Everybody \ {k} : call'[c] = call[c]
      /\ Open' = Open \cup {k}
      /\ UNCHANGED <<process, reader, failure, closer, initialized, told, stdout>>
  BY RequestFacts DEF GatewayInv
<1>2. /\ run' \in [Tasks -> Run] /\ run'[k].at = "turn_start" /\ run'[k].thread = i
      /\ run'[k].generation = generation
      /\ \A l \in Tasks \ {k} : run'[l] = run[l]
  <2> DEFINE u == [run[k] EXCEPT !.at = "turn_start"]
             v == [u EXCEPT !.thread = i]
  <2>1. run[k] \in Run /\ i \in 0..MaxThreads /\ run \in [Tasks -> Run]
    <3>1. /\ threads \in Seq([channel : Channels, log : SUBSET Contexts])
          /\ Len(threads) <= MaxThreads
      BY DEF GatewayInv, TypeOK, SessionsInv, Messages
    <3> QED
      BY <3>1, BoundsAssumption DEF GatewayInv, TypeOK, Fits
  <2>2. u \in Run /\ u.at = "turn_start" /\ u.generation = run[k].generation
    BY <2>1 DEF Run
  <2> HIDE DEF u
  <2>3. v \in Run /\ v.at = "turn_start" /\ v.thread = i /\ v.generation = run[k].generation
    BY <2>1, <2>2 DEF Run
  <2>4. run' = [run EXCEPT ![k] = v]
    BY <2>1 DEF u
  <2> HIDE DEF v
  <2> QED
    BY <2>1, <2>3, <2>4
<1>3. /\ m0.id = nextId /\ m0.what.kind = "turn" /\ m0.what.thread = i
      /\ m0.what.by = k /\ m0.what.context = Context(k)
  BY DEF StartTurn
<1> HIDE DEF m0
<1>4. TurnMessages' = TurnMessages \cup {m0}
  BY <1>1, <1>3 DEF TurnMessages
<1>5. k \notin Open
  BY DEF Open
<1>6. Ids'
  BY <1>2, <1>5, RequestIds
<1>7. Messages'
  BY <1>1, <1>3 DEF GatewayInv, SessionsInv, Messages, Fits
<1>8. /\ \A m \in TurnMessages : Channel(m.what.by) # Channel(k)
      /\ \A t \in turns : Channel(t.by) = Channel(k) => t.by \in overrun /\ t.by # k
  BY <1>1, NothingLeft
<1>9. Conversation'
  <2> SUFFICES ASSUME NEW l \in Tasks PROVE Converses(l)'
    BY DEF Conversation
  <2>1. Converses(l) /\ Ids
    BY DEF GatewayInv, SessionsInv, Conversation
  <2>2. CASE l = k
    <3>1. \A m \in sent : m.id # nextId
      BY <1>1, <2>1 DEF Ids, GatewayInv, TypeOK, TransportTypeOK
    <3>2. \A line \in stdout : line.id # nextId
      BY <1>1, <2>1 DEF Ids, GatewayInv, TypeOK, TransportTypeOK
    <3> QED
      BY <1>1, <1>2, <1>3, <1>4, <1>8, <2>2, <3>1, <3>2, SameThreads DEF Converses, TurnMessages
  <2>3. CASE l # k
    <3>1. call'[l] = call[l] /\ run'[l] = run[l] /\ (l \in Open' <=> l \in Open)
      BY <1>1, <1>2, <2>3, TasksAre
    <3>2. l \in Open => call[l].id # m0.id /\ call[l].id \in Nat
      BY SMTT(30), <1>1, <1>3, <2>1, TasksAre DEF Ids, GatewayInv, TypeOK, TransportTypeOK, Call
    <3> QED
      BY <1>1, <1>3, <1>4, <2>1, <2>3, <3>1, <3>2, SameThreads DEF Converses
  <2> QED
    BY <2>2, <2>3
<1>10. Owned'
  BY <1>1, <1>2, <1>3, <1>4, <1>8 DEF GatewayInv, SessionsInv, Owned, Messages, TurnMessages
<1>11. OneTurn'
  <2>1. \A l \in Tasks \ {k} : run[l].at \in {"loading", "turn_start"} \cup InTurn =>
          Channel(l) # Channel(k)
    BY DEF GatewayInv, WorktreesInv, OneLive, Live
  <2> QED
    BY <1>2, <1>3, <1>4, <1>8, <2>1 DEF GatewayInv, SessionsInv, OneTurn, OneServerTurn
<1>12. Bindings'
  <2> DEFINE b == [thread |-> i, context |-> Context(k)]
  <2>1. /\ \A c \in Channels : Bound(c, sessions'[c])
        /\ saved' = sessions' /\ sessions' = [sessions EXCEPT ![Channel(k)] = b]
    BY BindFacts
  <2>2. /\ Channel(k) \in Channels /\ sessions \in [Channels -> Binding]
        /\ b.context = Context(k)
    BY AskFacts DEF GatewayInv, TypeOK
  <2> HIDE DEF b
  <2>3. sessions'[Channel(k)] = b
    BY <2>1, <2>2
  <2> SUFFICES ASSUME NEW c \in Channels PROVE Bound(c, sessions[c])'
    BY <2>1 DEF Bindings
  <2>4. CASE c = Channel(k)
    BY <1>3, <1>4, <2>1, <2>2, <2>3, <2>4 DEF Bound
  <2>5. CASE c # Channel(k)
    BY <1>3, <1>4, <2>1, <2>5 DEF Bound, Fits
  <2> QED
    BY <2>4, <2>5
<1> QED
  BY <1>1, <1>2, <1>6, <1>7, <1>9, <1>10, <1>11, <1>12 DEF SessionsInv

\* turn/start was answered: its message is gone, so that what the run has is the turn itself.
LEMMA TurnStartedSessions ==
  ASSUME GatewayInv, NEW k \in Tasks, run[k].at = "turn_start", call[k].future = "answer",
         Popped(k), At(k, "turn"),
         UNCHANGED <<sessions, saved, threads, turns, stale, generation, overrun>>
  PROVE  SessionsInv'
<1>1. /\ call'[k].at = "idle" /\ \A c \in Everybody \ {k} : call'[c] = call[c]
      /\ Open' = Open \ {k}
      /\ UNCHANGED <<process, reader, failure, closer, initialized, told, nextId, sent, stdout>>
  BY PoppedFacts DEF GatewayInv
<1>2. /\ run'[k].at = "turn" /\ run'[k].generation = run[k].generation
      /\ run'[k].thread = run[k].thread
      /\ \A l \in Tasks \ {k} : run'[l] = run[l]
  BY AtFacts DEF GatewayInv
<1>3. TurnMessages' = TurnMessages /\ \A m \in TurnMessages : m.what.by # k
  BY <1>1 DEF TurnMessages, GatewayInv, SessionsInv, Conversation, Converses
<1>4. Ids'
  <2>1. \A l \in Tasks :
          call'[l].at = "waiting" <=> run'[l].at \in {"loading", "turn_start", "interrupting"}
    BY <1>1, <1>2, TasksAre DEF GatewayInv, SessionsInv, Ids
  <2>2. \A c \in Open' : call'[c] = call[c]
    BY <1>1 DEF Open
  <2> QED
    BY <1>1, <2>1, <2>2 DEF GatewayInv, SessionsInv, Ids
<1>5. Messages'
  BY <1>1 DEF GatewayInv, SessionsInv, Messages
<1>6. Conversation'
  BY <1>1, <1>2, <1>3, SameThreads, TasksAre DEF GatewayInv, SessionsInv, Conversation, Converses
<1>7. Owned'
  BY <1>1, <1>2, <1>3 DEF GatewayInv, SessionsInv, Owned, Messages, TurnMessages
<1>8. OneTurn'
  BY <1>1, <1>2, <1>3 DEF GatewayInv, SessionsInv, OneTurn, OneServerTurn
<1>9. Bindings'
  BY <1>3 DEF GatewayInv, SessionsInv, Bindings, Bound
<1> QED
  BY <1>4, <1>5, <1>6, <1>7, <1>8, <1>9 DEF SessionsInv

\* The server answers a request without opening a thread or beginning a turn.
LEMMA PlainAnswerSessions ==
  ASSUME GatewayInv, NEW m0 \in sent, NEW answer \in Nat, ServerAnswers(m0, answer),
         \/ m0.what.kind # "initialize" /\ answer = 0
         \/ m0.what.kind \in {"initialize", "interrupt"} /\ answer = 1
         \/ m0.what.kind = "resume" /\ answer = m0.what.thread,
         UNCHANGED <<run, stale, generation, sessions, saved, threads, turns, overrun>>
  PROVE  TransportTypeOK' /\ SessionsInv'
<1> DEFINE line0 == [id |-> m0.id, answer |-> answer]
<1>1. /\ sent' = sent \ {m0} /\ stdout' = stdout \cup {line0}
      /\ UNCHANGED <<process, reader, failure, closer, initialized, told, nextId, call>>
  BY DEF ServerAnswers
<1>2. line0.id = m0.id /\ line0.answer = answer /\ line0 \in [id : Nat, answer : Nat]
  BY DEF GatewayInv, TypeOK, TransportTypeOK
<1> HIDE DEF line0
<1>3. TransportTypeOK'
  <2>1. sent' \subseteq [id : Nat, what : {m.what : m \in sent'}]
    BY <1>1 DEF GatewayInv, TypeOK, TransportTypeOK
  <2>2. stdout' \subseteq [id : Nat, answer : Nat]
    BY <1>1, <1>2 DEF GatewayInv, TypeOK, TransportTypeOK
  <2> QED
    BY <1>1, <2>1, <2>2 DEF GatewayInv, TypeOK, TransportTypeOK
<1>4. TurnMessages' \subseteq TurnMessages /\ Open' = Open
  BY <1>1 DEF TurnMessages, Open
<1>5. Ids'
  BY <1>1, <1>2, <1>4 DEF GatewayInv, SessionsInv, Ids
<1>6. Messages'
  BY <1>1 DEF GatewayInv, SessionsInv, Messages
<1>7. Conversation'
  <2> SUFFICES ASSUME NEW k \in Tasks PROVE Converses(k)'
    BY DEF Conversation
  <2>1. Converses(k) /\ Ids /\ OneTurn
    BY DEF GatewayInv, SessionsInv, Conversation
  <2>2. ASSUME run[k].at = "loading", k \in Open, m0.id = call[k].id
        PROVE  answer = 0 \/ Fits(k, answer)
    BY <2>1, <2>2 DEF Converses
  <2>3. ASSUME run[k].at = "turn_start", k \in Open, m0.id = call[k].id
        PROVE  \A t \in turns : t.by # k
    <3>1. k \notin overrun
      BY <2>3 DEF GatewayInv, WorktreesInv, Begun, Live
    <3>2. m0 \in TurnMessages /\ m0.what.by = k
      BY <2>1, <2>3 DEF Converses, TurnMessages
    <3> QED
      BY <2>1, <3>1, <3>2 DEF OneTurn
  <2>4. ASSUME run[k].at = "turn_start", k \in Open
        PROVE  \A m \in sent' : m.id = call[k].id <=> m.what.kind = "turn" /\ m.what.by = k
    BY <1>1, <2>1, <2>4 DEF Converses
  <2> QED
    BY <1>1, <1>2, <1>4, <2>1, <2>2, <2>3, <2>4, SameThreads DEF Converses
<1>8. Owned'
  BY <1>1, <1>4 DEF GatewayInv, SessionsInv, Owned
<1>9. OneTurn'
  BY <1>1, <1>4 DEF GatewayInv, SessionsInv, OneTurn, OneServerTurn
<1>10. Bindings'
  BY <1>1, <1>4 DEF GatewayInv, SessionsInv, Bindings, Bound
<1> QED
  BY <1>3, <1>5, <1>6, <1>7, <1>8, <1>9, <1>10 DEF SessionsInv

\* The server opens a thread for the channel that asked.
LEMMA ThreadOpenedSessions ==
  ASSUME GatewayInv, NEW m0 \in sent, m0.what.kind = "start", Len(threads) < MaxThreads,
         threads' = Append(threads, [channel |-> m0.what.channel, log |-> {}]),
         ServerAnswers(m0, Len(threads) + 1),
         UNCHANGED <<run, stale, generation, sessions, saved, turns, overrun>>
  PROVE  /\ TransportTypeOK' /\ SessionsInv'
         /\ threads' \in Seq([channel : Channels, log : SUBSET Contexts])
<1> DEFINE new == [channel |-> m0.what.channel, log |-> {}]
           answer == Len(threads) + 1
           line0 == [id |-> m0.id, answer |-> answer]
           Thread == [channel : Channels, log : SUBSET Contexts]
<1>1. /\ sent' = sent \ {m0} /\ stdout' = stdout \cup {line0}
      /\ UNCHANGED <<process, reader, failure, closer, initialized, told, nextId, call>>
  BY DEF ServerAnswers
<1>2. threads \in Seq(Thread) /\ m0.what.channel \in Channels
  BY DEF GatewayInv, TypeOK, SessionsInv, Messages
<1>3. new \in Thread /\ new.channel = m0.what.channel /\ new.log = {}
  BY <1>2
<1>4. answer \in Nat /\ answer = Len(threads) + 1
  BY <1>2
<1> HIDE DEF new, answer, Thread
<1>5. /\ threads' \in Seq(Thread) /\ Len(threads') = answer
      /\ DOMAIN threads = 1..Len(threads) /\ DOMAIN threads' = 1..answer
      /\ \A i \in DOMAIN threads : i \in DOMAIN threads' /\ threads'[i] = threads[i]
      /\ threads'[answer] = new
  BY <1>2, <1>3, <1>4, AppendProperties DEF new
<1>6. line0.id = m0.id /\ line0.answer = answer /\ line0 \in [id : Nat, answer : Nat]
  BY <1>4 DEF GatewayInv, TypeOK, TransportTypeOK
<1> HIDE DEF line0
<1>7. TransportTypeOK'
  <2>1. sent' \subseteq [id : Nat, what : {m.what : m \in sent'}]
    BY <1>1 DEF GatewayInv, TypeOK, TransportTypeOK
  <2>2. stdout' \subseteq [id : Nat, answer : Nat]
    BY <1>1, <1>6 DEF GatewayInv, TypeOK, TransportTypeOK
  <2> QED
    BY <1>1, <2>1, <2>2 DEF GatewayInv, TypeOK, TransportTypeOK
<1>8. TurnMessages' = TurnMessages /\ Open' = Open
  BY <1>1 DEF TurnMessages, Open
<1>9. /\ \A k \in Tasks : \A i : Fits(k, i) => Fits(k, i)'
      /\ \A k \in Tasks : \A i :
           i = answer /\ m0.what.channel = Channel(k) => Fits(k, i)'
  <2>1. Len(threads) \in Nat
    BY <1>2
  <2> QED
    BY <1>3, <1>4, <1>5, <2>1 DEF Fits
<1>10. Ids'
  BY <1>1, <1>6, <1>8 DEF GatewayInv, SessionsInv, Ids
<1>11. Messages'
  <2>1. Len(threads') <= MaxThreads
    BY <1>2, <1>4, <1>5, BoundsAssumption
  <2> QED
    BY <1>1, <1>5, <2>1 DEF GatewayInv, SessionsInv, Messages
<1>12. Conversation'
  <2> SUFFICES ASSUME NEW k \in Tasks PROVE Converses(k)'
    BY DEF Conversation
  <2>1. Converses(k)
    BY DEF GatewayInv, SessionsInv, Conversation
  <2>2. ASSUME run[k].at = "loading", k \in Open, m0.id = call[k].id
        PROVE  \A i : i = answer => Fits(k, i)'
    BY <1>9, <2>1, <2>2 DEF Converses
  <2>3. ASSUME run[k].at = "turn_start", k \in Open
        PROVE  m0.id # call[k].id
    BY <2>1, <2>3 DEF Converses
  <2> QED
    BY <1>1, <1>6, <1>8, <1>9, <2>1, <2>2, <2>3 DEF Converses
<1>13. Owned'
  BY <1>1, <1>8 DEF GatewayInv, SessionsInv, Owned
<1>14. OneTurn'
  BY <1>1, <1>8 DEF GatewayInv, SessionsInv, OneTurn, OneServerTurn
<1>15. Bindings'
  BY <1>1, <1>5, <1>8 DEF GatewayInv, SessionsInv, Bindings, Bound
<1> QED
  BY <1>5, <1>7, <1>10, <1>11, <1>12, <1>13, <1>14, <1>15 DEF SessionsInv, Thread

\* The server begins a turn: what the thread is told is of the one context that its runs and
\* its bindings have.
LEMMA TurnBegunSessions ==
  ASSUME GatewayInv, NEW m0 \in sent, m0.what.kind = "turn",
         threads' = [threads EXCEPT ![m0.what.thread].log = @ \cup {m0.what.context}],
         turns' = turns \cup {[thread |-> m0.what.thread, context |-> m0.what.context,
                               by |-> m0.what.by]},
         ServerAnswers(m0, 1),
         UNCHANGED <<run, stale, generation, sessions, saved, overrun>>
  PROVE  /\ TransportTypeOK' /\ SessionsInv' /\ turns' \subseteq Turn
         /\ threads' \in Seq([channel : Channels, log : SUBSET Contexts])
<1> DEFINE i == m0.what.thread
           by == m0.what.by
           context == m0.what.context
           t0 == [thread |-> i, context |-> context, by |-> by]
           line0 == [id |-> m0.id, answer |-> 1]
           Thread == [channel : Channels, log : SUBSET Contexts]
           new == [threads[i] EXCEPT !.log = @ \cup {context}]
<1>1. /\ process = "running" /\ sent' = sent \ {m0} /\ stdout' = stdout \cup {line0}
      /\ UNCHANGED <<process, reader, failure, closer, initialized, told, nextId, call>>
  BY DEF ServerAnswers
<1>2. /\ threads \in Seq(Thread) /\ i \in DOMAIN threads /\ Len(threads) <= MaxThreads
      /\ by \in Tasks /\ context = Context(by) /\ threads[i].channel = Channel(by)
      /\ context \in Contexts
  BY AskFacts DEF GatewayInv, TypeOK, SessionsInv, Messages
<1>3. threads[i] \in Thread /\ i \in 1..Len(threads) /\ DOMAIN threads = 1..Len(threads)
  <2> HIDE DEF Thread, i
  <2> QED
    BY <1>2, ElementOfSeq
<1>4. new \in Thread /\ new.channel = threads[i].channel /\ new.log = threads[i].log \cup {context}
  BY <1>2, <1>3
<1>5. t0 \in Turn /\ t0.by = by /\ t0.context = context
  BY <1>2, BoundsAssumption DEF Turn
<1>6. threads' = [threads EXCEPT ![i] = new]
  BY <1>2
<1> HIDE DEF i, by, context, new, t0, Thread
<1>7. /\ threads' \in Seq(Thread) /\ Len(threads') = Len(threads)
      /\ DOMAIN threads' = DOMAIN threads /\ threads'[i] = new
      /\ \A j \in DOMAIN threads \ {i} : threads'[j] = threads[j]
  <2>1. /\ [threads EXCEPT ![i] = new] \in Seq(Thread)
        /\ Len([threads EXCEPT ![i] = new]) = Len(threads)
        /\ \A j \in 1..Len(threads) :
             [threads EXCEPT ![i] = new][j] = IF j = i THEN new ELSE threads[j]
    BY <1>2, <1>3, <1>4, ExceptSeq
  <2>2. DOMAIN [threads EXCEPT ![i] = new] = DOMAIN threads
    OBVIOUS
  <2> QED
    BY <1>3, <1>6, <2>1, <2>2
<1>8. line0.id = m0.id /\ line0.answer = 1 /\ line0 \in [id : Nat, answer : Nat]
  BY DEF GatewayInv, TypeOK, TransportTypeOK
<1> HIDE DEF line0
<1>9. TransportTypeOK'
  <2>1. sent' \subseteq [id : Nat, what : {m.what : m \in sent'}]
    BY <1>1 DEF GatewayInv, TypeOK, TransportTypeOK
  <2>2. stdout' \subseteq [id : Nat, answer : Nat]
    BY <1>1, <1>8 DEF GatewayInv, TypeOK, TransportTypeOK
  <2> QED
    BY <1>1, <2>1, <2>2 DEF GatewayInv, TypeOK, TransportTypeOK
<1>10. turns' = turns \cup {t0}
  BY DEF t0, i, by, context
<1>11. /\ m0 \in TurnMessages /\ m0.what.by = by /\ m0.what.context = context
       /\ m0.what.thread = i
       /\ TurnMessages' = TurnMessages \ {m0} /\ Open' = Open
  BY <1>1 DEF TurnMessages, Open, by, context, i
<1>12. OneTurn /\ Ids /\ Owned /\ Messages /\ Conversation /\ Bindings
  BY DEF GatewayInv, SessionsInv
<1>13. \A k \in Tasks : \A j : run[k].at \in {"loading", "turn_start"} \cup InTurn /\ Fits(k, j)
                           => Fits(k, j)'
  <2> SUFFICES ASSUME NEW k \in Tasks, NEW j, Fits(k, j),
                      run[k].at \in {"loading", "turn_start"} \cup InTurn
               PROVE  Fits(k, j)'
    OBVIOUS
  <2>1. CASE j # i
    BY <1>7, <2>1 DEF Fits
  <2>2. CASE j = i
    <3>1. by = k
      BY <1>2, <1>11, <1>12, <2>2 DEF OneTurn, Fits
    <3> QED
      BY <1>2, <1>4, <1>7, <2>2, <3>1 DEF Fits
  <2> QED
    BY <2>1, <2>2
<1>14. Ids'
  BY <1>1, <1>8, <1>11, <1>12 DEF Ids
<1>15. Messages'
  BY <1>1, <1>2, <1>4, <1>5, <1>7, <1>10, <1>12 DEF Messages
<1>16. Conversation'
  <2> SUFFICES ASSUME NEW k \in Tasks PROVE Converses(k)'
    BY DEF Conversation
  <2>1. Converses(k)
    BY <1>12 DEF Conversation
  <2>2. run[k].at = "loading" /\ k \in Open => m0.id # call[k].id
    BY <2>1 DEF Converses
  <2>3. ASSUME run[k].at = "turn_start", k \in Open
        PROVE  /\ \A m \in sent' : m.id = call[k].id <=> m.what.kind = "turn" /\ m.what.by = k
               /\ \A line \in stdout' : line.id = call[k].id /\ line.answer = 0 =>
                    \A t \in turns' : t.by # k
    <3>1. \A line \in stdout : line.id = call[k].id => by # k
      BY <1>11, <1>12, <2>1, <2>3 DEF Converses, Ids
    <3> QED
      BY <1>1, <1>5, <1>8, <1>10, <2>1, <2>3, <3>1 DEF Converses
  <2>4. run[k].at = "turn_start" /\ call[k].future = "answer" => by # k
    BY <1>11, <2>1 DEF Converses
  <2> QED
    BY <1>1, <1>5, <1>8, <1>10, <1>11, <1>13, <2>1, <2>2, <2>3, <2>4 DEF Converses
<1>17. Owned'
  BY <1>1, <1>2, <1>5, <1>10, <1>11, <1>12 DEF Owned
<1>18. OneTurn'
  BY <1>1, <1>5, <1>10, <1>11, <1>12 DEF OneTurn, OneServerTurn
<1>19. Bindings'
  <2> SUFFICES ASSUME NEW c \in Channels, NEW b, Bound(c, b) PROVE Bound(c, b)'
    BY <1>1, <1>12 DEF Bindings
  <2> QED
    BY <1>2, <1>4, <1>7, <1>11 DEF Bound
<1> QED
  BY <1>5, <1>7, <1>9, <1>10, <1>14, <1>15, <1>16, <1>17, <1>18, <1>19
     DEF SessionsInv, Thread, GatewayInv, TypeOK

----------------------------------------------------------------------------
(* Each action preserves the invariant.                                    *)

\* Nobody waits when no call is open, or the reader reads.
LEMMA Waits ==
  ASSUME TransportTypeOK', Open' # {} => reader' = "reading" /\ closer' = "idle"
  PROVE  NobodyWaits'
BY DEF TransportTypeOK, NobodyWaits, Open, Registered, Call

\* The process, the reader and the client stay as they are, and no call is opened.
LEMMA SameClient ==
  ASSUME GatewayInv, TransportTypeOK', Open' \subseteq Open,
         UNCHANGED <<process, reader, failure, closer, initialized, recovery>>,
         sent' \subseteq sent, stdout' \subseteq stdout
  PROVE  ClientInv'
<1>1. Open # {} => reader = "reading" /\ closer = "idle"
  BY OpenFacts DEF GatewayInv, ClientInv, NobodyWaits, Open
<1>2. NobodyWaits'
  BY <1>1, Waits
<1>3. Client'
  BY DEF GatewayInv, ClientInv, Client
<1> QED
  BY <1>2, <1>3 DEF ClientInv

\* Only an initialized client whose reader has not failed takes a request: its answer will
\* be read.
LEMMA RequestClient ==
  ASSUME GatewayInv, NEW k \in Tasks, NEW what, Request(k, what), recovery' = recovery
  PROVE  ClientInv'
<1>1. /\ TransportTypeOK' /\ initialized /\ CanWrite
      /\ UNCHANGED <<process, reader, failure, closer, initialized, told, stdout>>
  BY RequestFacts DEF GatewayInv
<1>2. reader = "reading" /\ closer = "idle" /\ process # "none"
  BY <1>1 DEF GatewayInv, ClientInv, Client, CanWrite, TypeOK, TransportTypeOK
<1>3. NobodyWaits'
  BY <1>1, <1>2, Waits
<1>4. Client'
  BY <1>1, <1>2 DEF GatewayInv, ClientInv, Client
<1> QED
  BY <1>3, <1>4 DEF ClientInv

\* Nothing but the worktrees changes.
LEMMA ServerSame ==
  ASSUME GatewayInv, UNCHANGED <<transportVars, gatewayVars>>, WorktreesTypeOK', WorktreesInv'
  PROVE  GatewayInv'
<1>1. /\ UNCHANGED <<process, reader, failure, closer, initialized, told, nextId, call, sent,
                     stdout>>
      /\ UNCHANGED <<run, before, begun, generation, stale, recovery, sessions, saved, threads,
                     turns, crashes, overrun>>
      /\ Open' = Open /\ TurnMessages' = TurnMessages
  BY DEF transportVars, gatewayVars, Open, TurnMessages
<1>2. TransportTypeOK'
  BY <1>1 DEF GatewayInv, TypeOK, TransportTypeOK
<1>3. TypeOK'
  BY <1>1, <1>2 DEF GatewayInv, TypeOK
<1>4. ClientInv'
  BY <1>1, <1>2, SameClient
<1>5. turns # {} => process = "running" /\ (initialized \/ closer = "closing")
  BY DEF GatewayInv, SessionsInv, Owned
<1>6. SessionsInv'
  BY <1>1, <1>5, Shrinks DEF GatewayInv, SessionsInv, Bindings, TypeOK, TransportTypeOK
<1> QED
  BY <1>3, <1>4, <1>6 DEF GatewayInv

\* A run that has no request under way goes on, or ends, outside the server: one that had a
\* turn with it, once its generation is given up, or as one that is given up itself.
LEMMA Quiet ==
  ASSUME GatewayInv, NEW k \in Tasks,
         UNCHANGED <<transportVars, before, generation, recovery, sessions, saved, threads,
                     turns, crashes>>,
         begun' \subseteq Tasks, overrun' \subseteq Tasks, overrun \subseteq overrun',
         stale' \in BOOLEAN, stale => stale',
         run' \in [Tasks -> Run], \A l \in Tasks \ {k} : run'[l] = run[l],
         run[k].at \notin {"loading", "turn_start", "interrupting"},
         run'[k].at \notin {"loading", "turn_start"} \cup InTurn,
         run[k].at \in InTurn =>
           \/ stale' \/ run[k].generation # generation
           \/ k \in overrun' \/ \A t \in turns : t.by # k,
         WorktreesTypeOK', WorktreesInv'
  PROVE  GatewayInv'
<1>1. /\ UNCHANGED <<process, reader, failure, closer, initialized, told, nextId, call, sent,
                     stdout>>
      /\ Open' = Open /\ TurnMessages' = TurnMessages
  BY DEF transportVars, Open, TurnMessages
<1>2. TransportTypeOK'
  BY <1>1 DEF GatewayInv, TypeOK, TransportTypeOK
<1>3. TypeOK'
  BY <1>2 DEF GatewayInv, TypeOK
<1>4. ClientInv'
  BY <1>1, <1>2, SameClient
<1>5. call[k].at # "waiting"
  BY DEF GatewayInv, SessionsInv, Ids
<1>6. run[k].at \in InTurn => \A m \in TurnMessages : m.what.by # k
  BY DEF GatewayInv, SessionsInv, OneTurn
<1>7. turns # {} => process = "running" /\ (initialized \/ closer = "closing")
  BY DEF GatewayInv, SessionsInv, Owned
<1>8. SessionsInv'
  BY <1>1, <1>3, <1>5, <1>6, <1>7, Shrinks
     DEF GatewayInv, SessionsInv, Bindings, TypeOK, TransportTypeOK
<1> QED
  BY <1>3, <1>4, <1>8 DEF GatewayInv

\* A run ends with its request.  If it may have left a turn behind, the generation is not
\* used any more.
LEMMA Ends ==
  ASSUME GatewayInv, NEW k \in Tasks, run[k].at \in {"loading", "turn_start", "interrupting"},
         Popped(k), Over(k), overrun' \in {overrun, overrun \cup {k}},
         UNCHANGED <<before, begun, generation, recovery, threads, turns, crashes>>,
         sessions' \in [Channels -> Binding], saved' \in [Channels -> Binding],
         \A c \in Channels : Bound(c, sessions'[c]) /\ Bound(c, saved'[c]),
         stale' \in BOOLEAN, stale => stale',
         run[k].at \in {"turn_start", "interrupting"} =>
           \/ stale' \/ run[k].generation # generation
           \/ /\ \A m \in TurnMessages : m.what.by # k
              /\ k \in overrun' \/ \A t \in turns : t.by # k
  PROVE  GatewayInv'
<1>1. /\ TransportTypeOK'
      /\ call'[k].at = "idle" /\ \A c \in Everybody \ {k} : call'[c] = call[c]
      /\ Open' = Open \ {k}
      /\ UNCHANGED <<process, reader, failure, closer, initialized, told, nextId, sent, stdout>>
  BY PoppedFacts DEF GatewayInv
<1>2. /\ run' \in [Tasks -> Run] /\ WorktreesTypeOK'
      /\ run'[k].at = "idle" /\ \A l \in Tasks \ {k} : run'[l] = run[l]
  BY OverFacts DEF GatewayInv
<1>3. TypeOK'
  BY <1>1, <1>2 DEF GatewayInv, TypeOK
<1>4. WorktreesInv'
  BY OverWorktrees DEF Live
<1>5. ClientInv'
  BY <1>1, SameClient
<1>6. /\ turns # {} => process = "running" /\ (initialized \/ closer = "closing")
      /\ TurnMessages' = TurnMessages
      /\ \A c \in Open' : call'[c] = call[c]
      /\ \A l \in Tasks \ {k} : call'[l] = call[l]
  BY <1>1, TasksAre DEF GatewayInv, SessionsInv, Owned, TurnMessages, Open
<1>7. SessionsInv'
  BY <1>1, <1>2, <1>3, <1>6, Shrinks DEF GatewayInv, TypeOK, TransportTypeOK
<1> QED
  BY <1>3, <1>4, <1>5, <1>7 DEF GatewayInv

\* The service starts a task where no other one of the channel runs.
LEMMA BeginStep ==
  ASSUME GatewayInv, NEW k \in Tasks, Begin(k)
  PROVE  GatewayInv'
<1>1. /\ TypeOK /\ run[k].at = "idle" /\ begun' \subseteq Tasks
      /\ begun' = begun \cup {k} /\ k \notin overrun
      /\ \A l \in Tasks : Live(l) => Channel(l) # Channel(k)
      /\ UNCHANGED <<transportVars, before, generation, recovery, stale, sessions, saved,
                     threads, turns, crashes, overrun>>
  BY DEF Begin, GatewayInv, WorktreesInv, Begun, TypeOK, Live, connUnchanged,
         serverUnchanged, storeUnchanged
<1>2. CASE Restricted(k)
  <2>1. At(k, "context") /\ UNCHANGED worktreeVars
    BY <1>2 DEF Begin
  <2>2. /\ run' \in [Tasks -> Run] /\ run'[k].at = "context"
        /\ \A l \in Tasks \ {k} : run'[l] = run[l]
    BY <1>1, <2>1, AtFacts
  <2>3. WorktreesTypeOK'
    BY <2>1 DEF GatewayInv, TypeOK, WorktreesTypeOK, worktreeVars
  <2>4. WorktreesInv'
    BY <1>1, <1>2, <2>1, <2>2
       DEF GatewayInv, WorktreesInv, Preparing, OneLive, Begun, PinnedTree, Live, TreeOf,
           worktreeVars
  <2> QED
    BY <1>1, <2>2, <2>3, <2>4, Quiet DEF TypeOK
<1>3. CASE ~Restricted(k)
  <2>1. At(k, "preparing") /\ Prepare(k, Ask(k))
    BY <1>3 DEF Begin
  <2>2. /\ run' \in [Tasks -> Run] /\ run'[k].at = "preparing"
        /\ \A l \in Tasks \ {k} : run'[l] = run[l]
    BY <1>1, <2>1, AtFacts
  <2>3. WorktreesTypeOK' /\ WorktreesInv'
    BY <1>1, <2>1, PrepareWorktrees
  <2> QED
    BY <1>1, <2>2, <2>3, Quiet DEF TypeOK
<1> QED
  BY <1>2, <1>3

\* The pinned commit is in the clone, or the task fails.
LEMMA ContextResolvedStep ==
  ASSUME GatewayInv, NEW k \in Tasks, ContextResolved(k)
  PROVE  GatewayInv'
<1>1. /\ TypeOK /\ run[k].at = "context"
      /\ UNCHANGED <<transportVars, before, begun, generation, recovery, stale, sessions, saved,
                     threads, turns, crashes, overrun>>
  BY DEF ContextResolved, GatewayInv, connUnchanged, serverUnchanged, storeUnchanged,
         restUnchanged
<1>2. /\ Live(k) /\ k \notin overrun /\ begun' = begun \cup {k}
      /\ \A l \in Tasks \ {k} : Live(l) => Channel(l) # Channel(k)
  BY <1>1 DEF GatewayInv, WorktreesInv, OneLive, Begun, Live
<1>3. CASE At(k, "preparing") /\ Prepare(k, Ask(k))
  <2>1. /\ run' \in [Tasks -> Run] /\ run'[k].at = "preparing"
        /\ \A l \in Tasks \ {k} : run'[l] = run[l]
    BY <1>1, <1>3, AtFacts
  <2>2. WorktreesTypeOK' /\ WorktreesInv'
    BY <1>1, <1>2, <1>3, PrepareWorktrees
  <2> QED
    BY <1>1, <2>1, <2>2, Quiet DEF TypeOK
<1>4. CASE Over(k)
  BY <1>1, <1>2, <1>4, OverFacts, OverWorktrees, Quiet DEF TypeOK
<1> QED
  BY <1>3, <1>4 DEF ContextResolved

\* A git command concerns neither the server nor the sessions.
LEMMA GitStepStep ==
  ASSUME GatewayInv, NEW k \in Tasks, Git(k)
  PROVE  GatewayInv'
<1>1. GitStep(k) /\ UNCHANGED <<transportVars, gatewayVars>>
  BY DEF Git
<1>2. WorktreesTypeOK' /\ WorktreesInv'
  BY <1>1, GitWorktrees DEF gatewayVars
<1> QED
  BY <1>1, <1>2, ServerSame

\* prepare() raised: the run ends before there was a request.
LEMMA PrepareFailedStep ==
  ASSUME GatewayInv, NEW k \in Tasks, PrepareFailed(k)
  PROVE  GatewayInv'
<1>1. /\ TypeOK /\ Over(k)
      /\ UNCHANGED <<transportVars, before, begun, generation, recovery, stale, sessions, saved,
                     threads, turns, crashes, overrun>>
  BY DEF PrepareFailed, GatewayInv, connUnchanged, serverUnchanged, storeUnchanged,
         restUnchanged
<1>2. run[k].at \notin {"loading", "turn_start"} \cup InTurn /\ Live(k)
  BY DEF PrepareFailed, GatewayInv, WorktreesInv, Preparing, Live
<1> QED
  BY <1>1, <1>2, OverFacts, OverWorktrees, Quiet DEF TypeOK

\* The turn of a run ended, or its generation was given up, and with it the run.
LEMMA TurnOverStep ==
  ASSUME GatewayInv, NEW k \in Tasks, TurnOver(k)
  PROVE  GatewayInv'
<1>1. /\ TypeOK /\ Over(k) /\ run[k].at = "turn" /\ Live(k)
      /\ stale \/ run[k].generation # generation \/ \A t \in turns : t.by # k
      /\ UNCHANGED <<transportVars, before, begun, generation, recovery, stale, sessions, saved,
                     threads, turns, crashes, overrun>>
  BY DEF TurnOver, Current, Live, GatewayInv, connUnchanged, serverUnchanged, storeUnchanged,
         restUnchanged
<1> QED
  BY <1>1, OverFacts, OverWorktrees, Quiet DEF TypeOK

\* The interruption of a turn is asked for: the turn stays what the run has.
LEMMA InterruptSessions ==
  ASSUME GatewayInv, NEW k \in Tasks, run[k].at = "turn",
         Request(k, [kind |-> "interrupt", by |-> k]), At(k, "interrupting"),
         UNCHANGED <<sessions, saved, threads, turns, stale, generation, overrun>>
  PROVE  TransportTypeOK' /\ SessionsInv'
<1> DEFINE m0 == [id |-> nextId, what |-> [kind |-> "interrupt", by |-> k]]
<1>1. /\ TransportTypeOK'
      /\ nextId \in Nat /\ sent' = sent \cup {m0}
      /\ \A c \in Everybody \ {k} : call'[c] = call[c]
      /\ Open' = Open \cup {k}
      /\ UNCHANGED <<process, reader, failure, closer, initialized, told, stdout>>
  BY RequestFacts DEF GatewayInv
<1>2. /\ run'[k].at = "interrupting" /\ run'[k].generation = run[k].generation
      /\ run'[k].thread = run[k].thread
      /\ \A l \in Tasks \ {k} : run'[l] = run[l]
  BY AtFacts DEF GatewayInv
<1>3. m0.id = nextId /\ m0.what.kind = "interrupt"
  OBVIOUS
<1> HIDE DEF m0
<1>4. TurnMessages' = TurnMessages
  BY <1>1, <1>3 DEF TurnMessages
<1>5. Ids'
  <2>1. k \notin Open
    BY DEF GatewayInv, SessionsInv, Ids, Open
  <2> QED
    BY <1>2, <2>1, RequestIds
<1>6. Messages'
  BY <1>1, <1>3 DEF GatewayInv, SessionsInv, Messages
<1>7. Conversation'
  <2> SUFFICES ASSUME NEW l \in Tasks PROVE Converses(l)'
    BY DEF Conversation
  <2>1. Converses(l) /\ Ids
    BY DEF GatewayInv, SessionsInv, Conversation
  <2>2. CASE l = k
    BY <1>2, <2>1, <2>2, SameThreads DEF Converses
  <2>3. CASE l # k
    <3>1. call'[l] = call[l] /\ run'[l] = run[l] /\ (l \in Open' <=> l \in Open)
      BY <1>1, <1>2, <2>3, TasksAre
    <3>2. l \in Open => call[l].id # m0.id /\ call[l].id \in Nat
      BY SMTT(30), <1>1, <1>3, <2>1, TasksAre DEF Ids, GatewayInv, TypeOK, TransportTypeOK, Call
    <3> QED
      BY <1>1, <1>3, <1>4, <2>1, <3>1, <3>2, SameThreads DEF Converses
  <2> QED
    BY <2>2, <2>3
<1>8. Owned'
  BY <1>1, <1>2, <1>4 DEF GatewayInv, SessionsInv, Owned, Messages, TurnMessages
<1>9. OneTurn'
  BY <1>1, <1>2, <1>4 DEF GatewayInv, SessionsInv, OneTurn, OneServerTurn
<1>10. Bindings'
  BY <1>4 DEF GatewayInv, SessionsInv, Bindings, Bound
<1> QED
  BY <1>1, <1>5, <1>6, <1>7, <1>8, <1>9, <1>10 DEF SessionsInv

\* The turn reached its time limit: the run asks for its interruption, or ends with the client
\* that does not take the request.
LEMMA TurnTimesOutStep ==
  ASSUME GatewayInv, NEW k \in Tasks, TurnTimesOut(k)
  PROVE  GatewayInv'
<1>1. /\ TypeOK /\ run[k].at = "turn" /\ Live(k)
      /\ UNCHANGED <<before, begun, generation, recovery, sessions, saved, threads, turns,
                     crashes, overrun>>
  BY DEF TurnTimesOut, Live, GatewayInv, connUnchanged, serverUnchanged, storeUnchanged,
         restUnchanged
<1>2. CASE Over(k) /\ Blamed(k) /\ UNCHANGED transportVars
  <2>1. /\ stale' \in BOOLEAN /\ (stale => stale')
        /\ stale' \/ run[k].generation # generation
    BY <1>1, <1>2 DEF Blamed, TypeOK
  <2> QED
    BY <1>1, <1>2, <2>1, OverFacts, OverWorktrees, Quiet DEF TypeOK
<1>3. CASE /\ Request(k, [kind |-> "interrupt", by |-> k])
           /\ At(k, "interrupting") /\ UNCHANGED <<worktreeVars, stale>>
  <2>1. TransportTypeOK' /\ SessionsInv'
    BY <1>1, <1>3, InterruptSessions
  <2>2. /\ run' \in [Tasks -> Run] /\ run'[k].at = "interrupting"
        /\ \A l \in Tasks \ {k} : run'[l] = run[l]
    BY <1>1, <1>3, AtFacts
  <2>3. TypeOK'
    BY <1>1, <1>3, <2>1, <2>2 DEF TypeOK, WorktreesTypeOK, worktreeVars
  <2>4. prep[k].at = "done"
    BY <1>1 DEF GatewayInv, WorktreesInv, Preparing
  <2>5. WorktreesInv'
    BY <1>1, <1>3, <2>2, <2>4, SameWorktrees
  <2>6. ClientInv'
    BY <1>1, <1>3, RequestClient
  <2> QED
    BY <2>1, <2>3, <2>5, <2>6 DEF GatewayInv
<1> QED
  BY <1>2, <1>3 DEF TurnTimesOut

\* The interruption was answered: the run still has its turn.
LEMMA InterruptedStep ==
  ASSUME GatewayInv, NEW k \in Tasks, Interrupted(k)
  PROVE  GatewayInv'
<1>1. /\ TypeOK /\ run[k].at = "interrupting" /\ Popped(k) /\ At(k, "grace")
      /\ UNCHANGED <<worktreeVars, before, begun, generation, recovery, sessions, saved, threads,
                     turns, crashes, overrun, stale>>
  BY DEF Interrupted, Answered, GatewayInv, connUnchanged, serverUnchanged, restUnchanged,
         storeUnchanged
<1>2. /\ run' \in [Tasks -> Run] /\ run'[k].at = "grace"
      /\ run'[k].generation = run[k].generation /\ run'[k].thread = run[k].thread
      /\ \A l \in Tasks \ {k} : run'[l] = run[l]
  BY <1>1, AtFacts
<1>3. /\ TransportTypeOK'
      /\ call'[k].at = "idle" /\ \A c \in Everybody \ {k} : call'[c] = call[c]
      /\ Open' = Open \ {k}
      /\ UNCHANGED <<process, reader, failure, closer, initialized, told, nextId, sent, stdout>>
  BY <1>1, PoppedFacts
<1>4. TypeOK'
  BY <1>1, <1>2, <1>3 DEF TypeOK, WorktreesTypeOK, worktreeVars
<1>5. WorktreesInv'
  <2>1. prep[k].at = "done"
    BY <1>1 DEF GatewayInv, WorktreesInv, Preparing
  <2> QED
    BY <1>1, <1>2, <2>1, SameWorktrees
<1>6. ClientInv'
  BY <1>1, <1>3, SameClient
<1>7. SessionsInv'
  <2>1. /\ turns # {} => process = "running" /\ (initialized \/ closer = "closing")
        /\ \A c \in Open' : call'[c] = call[c]
        /\ \A l \in Tasks \ {k} : call'[l] = call[l]
        /\ \A c \in Channels : Bound(c, sessions'[c]) /\ Bound(c, saved'[c])
        /\ stale \in BOOLEAN /\ initialized \in BOOLEAN /\ closer \in {"idle", "closing"}
    BY <1>1, <1>3, TasksAre
       DEF GatewayInv, SessionsInv, Bindings, Owned, Open, TypeOK, TransportTypeOK
  <2> QED
    BY <1>1, <1>2, <1>3, <2>1, Shrinks
<1> QED
  BY <1>4, <1>5, <1>6, <1>7 DEF GatewayInv

\* The interruption failed: the turn may go on with a client that is used on, and its run is
\* counted as given up.
LEMMA InterruptFailedStep ==
  ASSUME GatewayInv, NEW k \in Tasks, InterruptFailed(k)
  PROVE  GatewayInv'
<1>1. /\ TypeOK /\ run[k].at = "interrupting" /\ Over(k) /\ Popped(k)
      /\ UNCHANGED <<before, begun, generation, recovery, sessions, saved, threads, turns,
                     crashes>>
      /\ UNCHANGED stale \/ Blamed(k)
      /\ overrun' \in {overrun, overrun \cup {k}}
      /\ k \in overrun' \/ stale' \/ run[k].generation # generation
  BY DEF InterruptFailed, GivesUp, Answered, Raised, GatewayInv, connUnchanged,
         serverUnchanged, storeUnchanged
<1>2. stale' \in BOOLEAN /\ (stale => stale')
  BY <1>1 DEF Blamed, TypeOK
<1>3. \A m \in TurnMessages : m.what.by # k
  BY <1>1 DEF GatewayInv, SessionsInv, OneTurn
<1> QED
  BY <1>1, <1>2, <1>3, Ends DEF GatewayInv, TypeOK, SessionsInv, Bindings

\* The grace is over, and the client is kept.
LEMMA GraceEndsStep ==
  ASSUME GatewayInv, NEW k \in Tasks, GraceEnds(k)
  PROVE  GatewayInv'
<1>1. /\ TypeOK /\ run[k].at = "grace" /\ Over(k) /\ Live(k)
      /\ UNCHANGED <<transportVars, before, begun, generation, recovery, stale, sessions, saved,
                     threads, turns, crashes>>
      /\ overrun' \in {overrun, overrun \cup {k}}
      /\ k \in overrun' \/ stale \/ run[k].generation # generation
  BY DEF GraceEnds, GivesUp, Live, GatewayInv, connUnchanged, serverUnchanged, storeUnchanged
<1> QED
  BY <1>1, OverFacts, OverWorktrees, Quiet DEF TypeOK

\* start() returned the client: the run asks for its thread, or ends with the error.
LEMMA LoadStep ==
  ASSUME GatewayInv, NEW k \in Tasks, Load(k)
  PROVE  GatewayInv'
<1>1. /\ TypeOK /\ run[k].at = "preparing" /\ prep[k].at = "done" /\ ~stale
      /\ UNCHANGED <<before, begun, generation, recovery, sessions, saved, threads, turns,
                     crashes, overrun>>
  BY DEF Load, Waiting, Ready, GatewayInv, connUnchanged, serverUnchanged, storeUnchanged,
         restUnchanged
<1>2. CASE /\ Over(k) /\ UNCHANGED transportVars
           /\ stale' = (stale \/ ~(Retried(k) /\ Existing(k) = None))
  BY <1>1, <1>2, OverFacts, OverWorktrees, Quiet DEF TypeOK, Live
<1>3. CASE /\ Request(k, OpenThread(k))
           /\ run' = [run EXCEPT ![k].at = "loading", ![k].generation = generation]
           /\ UNCHANGED <<worktreeVars, stale>>
  <2>1. /\ TransportTypeOK' /\ run' \in [Tasks -> Run] /\ run'[k].at = "loading"
        /\ (\A l \in Tasks \ {k} : run'[l] = run[l]) /\ SessionsInv'
    BY <1>1, <1>3, LoadSessions
  <2>2. TypeOK'
    BY <1>1, <1>3, <2>1 DEF TypeOK, WorktreesTypeOK, worktreeVars
  <2>3. WorktreesInv'
    BY <1>1, <1>3, <2>1, SameWorktrees
  <2>4. ClientInv'
    BY <1>1, <1>3, RequestClient
  <2> QED
    BY <2>1, <2>2, <2>3, <2>4 DEF GatewayInv
<1> QED
  BY <1>2, <1>3 DEF Load

\* The answer to load_thread() is bound before its turn is asked for; where the write or the
\* check of the generation fails the run ends without a turn.
LEMMA LoadedStep ==
  ASSUME GatewayInv, NEW k \in Tasks, Loaded(k)
  PROVE  GatewayInv'
<1> DEFINE i == call[k].answer
<1>1. PICK outcome \in WriteOutcomes :
        /\ Bind(k, i, outcome)
        /\ \/ /\ outcome = "ok" /\ ~stale /\ run[k].generation = generation
              /\ Request(k, StartTurn(k, i))
              /\ run' = [run EXCEPT ![k].at = "turn_start", ![k].thread = i]
              /\ UNCHANGED <<worktreeVars, stale>>
           \/ /\ Popped(k) /\ Over(k)
              /\ IF outcome = "ok" THEN Blamed(k) ELSE UNCHANGED stale
  BY DEF Loaded, Current
<1>2. /\ TypeOK /\ run[k].at = "loading" /\ call[k].future = "answer" /\ i # 0
      /\ UNCHANGED <<before, begun, generation, recovery, threads, turns, crashes, overrun>>
  BY DEF Loaded, GatewayInv, connUnchanged, serverUnchanged, restUnchanged
<1>3. i \in Nat
  BY TasksAre DEF GatewayInv, TypeOK, TransportTypeOK, Call
<1>4. Fits(k, i)
  BY <1>2 DEF GatewayInv, SessionsInv, Conversation, Converses
<1> HIDE DEF i
<1>5. /\ sessions' \in [Channels -> Binding] /\ saved' \in [Channels -> Binding]
      /\ \A c \in Channels : Bound(c, sessions'[c]) /\ Bound(c, saved'[c])
  BY <1>1, <1>2, <1>3, <1>4, BindFacts
<1>6. CASE /\ outcome = "ok" /\ ~stale /\ run[k].generation = generation
           /\ Request(k, StartTurn(k, i))
           /\ run' = [run EXCEPT ![k].at = "turn_start", ![k].thread = i]
           /\ UNCHANGED <<worktreeVars, stale>>
  <2>1. /\ TransportTypeOK' /\ run' \in [Tasks -> Run] /\ run'[k].at = "turn_start"
        /\ (\A l \in Tasks \ {k} : run'[l] = run[l]) /\ SessionsInv'
    BY <1>1, <1>2, <1>3, <1>4, <1>6, StartTurnSessions
  <2>2. TypeOK'
    BY <1>2, <1>5, <1>6, <2>1 DEF TypeOK, WorktreesTypeOK, worktreeVars
  <2>3. prep[k].at = "done"
    BY <1>2 DEF GatewayInv, WorktreesInv, Preparing
  <2>4. WorktreesInv'
    BY <1>2, <1>6, <2>1, <2>3, SameWorktrees
  <2>5. ClientInv'
    BY <1>2, <1>6, RequestClient
  <2> QED
    BY <2>1, <2>2, <2>4, <2>5 DEF GatewayInv
<1>7. CASE /\ Popped(k) /\ Over(k)
           /\ IF outcome = "ok" THEN Blamed(k) ELSE UNCHANGED stale
  <2>1. stale' \in BOOLEAN /\ (stale => stale')
    BY <1>2, <1>7 DEF Blamed, TypeOK
  <2> QED
    BY <1>2, <1>5, <1>7, <2>1, Ends
<1> QED
  BY <1>1, <1>6, <1>7

\* A thread of another policy is neither bound nor used.
LEMMA IncompatibleStep ==
  ASSUME GatewayInv, NEW k \in Tasks, Incompatible(k)
  PROVE  GatewayInv'
<1>1. /\ run[k].at = "loading" /\ Popped(k) /\ Over(k)
      /\ UNCHANGED <<before, begun, generation, recovery, sessions, saved, threads, turns,
                     crashes, overrun, stale>>
  BY DEF Incompatible, Answered, connUnchanged, serverUnchanged, restUnchanged, storeUnchanged
<1> QED
  BY <1>1, Ends DEF GatewayInv, TypeOK, SessionsInv, Bindings

\* turn/start was answered: a run whose generation is gone gives its turn up.
LEMMA TurnStartedStep ==
  ASSUME GatewayInv, NEW k \in Tasks, TurnStarted(k)
  PROVE  GatewayInv'
<1>1. /\ TypeOK /\ run[k].at = "turn_start" /\ call[k].future = "answer" /\ Popped(k)
      /\ UNCHANGED <<before, begun, generation, recovery, sessions, saved, threads, turns,
                     crashes, overrun, stale>>
  BY DEF TurnStarted, Answered, GatewayInv, connUnchanged, serverUnchanged, restUnchanged,
         storeUnchanged
<1>2. CASE At(k, "turn") /\ UNCHANGED worktreeVars
  <2>1. SessionsInv'
    BY <1>1, <1>2, TurnStartedSessions
  <2>2. /\ run' \in [Tasks -> Run] /\ run'[k].at = "turn"
        /\ \A l \in Tasks \ {k} : run'[l] = run[l]
    BY <1>1, <1>2, AtFacts
  <2>3. /\ TransportTypeOK' /\ Open' \subseteq Open
        /\ UNCHANGED <<process, reader, failure, closer, initialized, sent, stdout>>
    BY <1>1, PoppedFacts
  <2>4. TypeOK'
    BY <1>1, <1>2, <2>2, <2>3 DEF TypeOK, WorktreesTypeOK, worktreeVars
  <2>5. prep[k].at = "done"
    BY <1>1 DEF GatewayInv, WorktreesInv, Preparing
  <2>6. WorktreesInv'
    BY <1>1, <1>2, <2>2, <2>5, SameWorktrees
  <2>7. ClientInv'
    BY <1>1, <2>3, SameClient
  <2> QED
    BY <2>1, <2>4, <2>6, <2>7 DEF GatewayInv
<1>3. CASE (stale \/ run[k].generation # generation) /\ Over(k)
  BY <1>1, <1>3, Ends DEF GatewayInv, TypeOK, SessionsInv, Bindings
<1> QED
  BY <1>2, <1>3 DEF TurnStarted, Current

\* A request failed: the error answer of turn/start means that no turn was begun; without an
\* answer there may be one, and the generation is invalidated.
LEMMA RequestFailedStep ==
  ASSUME GatewayInv, NEW k \in Tasks, RequestFailed(k)
  PROVE  GatewayInv'
<1>1. /\ TypeOK /\ run[k].at \in {"loading", "turn_start"} /\ Over(k) /\ Popped(k)
      /\ UNCHANGED <<before, begun, generation, recovery, sessions, saved, threads, turns,
                     crashes, overrun>>
      /\ \/ call[k].future = "answer" /\ call[k].answer = 0 /\ (UNCHANGED stale \/ Blamed(k))
         \/ Blamed(k)
  BY DEF RequestFailed, Answered, Raised, GatewayInv, connUnchanged, serverUnchanged,
         restUnchanged, storeUnchanged
<1>2. stale' \in BOOLEAN /\ (stale => stale')
  BY <1>1 DEF Blamed, TypeOK
<1>3. Blamed(k) => stale' \/ run[k].generation # generation
  BY DEF Blamed
<1>4. run[k].at = "turn_start" /\ call[k].future = "answer" /\ call[k].answer = 0 =>
        (\A m \in TurnMessages : m.what.by # k) /\ \A t \in turns : t.by # k
  BY DEF GatewayInv, SessionsInv, Conversation, Converses
<1> QED
  BY <1>1, <1>2, <1>3, <1>4, Ends DEF GatewayInv, TypeOK, SessionsInv, Bindings

\* Calls fail, messages are lost, turns end: nothing new is asked for.
LEMMA Fades ==
  ASSUME GatewayInv,
         UNCHANGED <<worktreeVars, run, before, begun, sessions, saved, threads, nextId, crashes,
                     overrun>>,
         TransportTypeOK', ClientInv', generation' \in 0..MaxGenerations, stale' \in BOOLEAN,
         recovery' \in {"none", "closing_old", "starting", "closing_new"},
         sent' \subseteq sent, stdout' \subseteq stdout, turns' \subseteq turns,
         call' = call \/ call' = FailPending,
         turns' # {} => process' = "running",
         \/ initialized' \/ closer' = "closing"
         \/ ~initialized /\ closer = "idle"
         \/ sent' = {} /\ turns' = {},
         \/ stale' \/ ~initialized'
         \/ UNCHANGED <<stale, initialized, generation>>
  PROVE  GatewayInv'
<1>1. TypeOK'
  BY DEF GatewayInv, TypeOK, WorktreesTypeOK, worktreeVars
<1>2. WorktreesInv'
  BY SameWorktrees
<1>3. /\ Open' \subseteq Open /\ \A c \in Open' : call'[c] = call[c]
      /\ \A c \in Everybody :
           \/ call'[c] = call[c]
           \/ call'[c].at = call[c].at /\ call'[c].future = "error"
  <2>1. CASE call' = call
    BY <2>1 DEF Open
  <2>2. CASE call' = FailPending
    BY <2>2, FailFacts DEF GatewayInv
  <2> QED
    BY <2>1, <2>2
<1>4. /\ stale \in BOOLEAN /\ initialized \in BOOLEAN /\ initialized' \in BOOLEAN
      /\ \A c \in Channels : Bound(c, sessions'[c]) /\ Bound(c, saved'[c])
  BY DEF GatewayInv, TypeOK, TransportTypeOK, SessionsInv, Bindings
<1>5. \/ stale' \/ ~initialized'
      \/ initialized /\ ~stale /\ generation' = generation
  BY <1>4
<1>6. SessionsInv'
  BY <1>3, <1>4, <1>5, TasksAre, Shrinks
<1> QED
  BY <1>1, <1>2, <1>6 DEF GatewayInv

\* The close of a client: what is pending fails.
LEMMA CloseFacts ==
  ASSUME GatewayInv, Close
  PROVE  /\ TransportTypeOK' /\ NobodyWaits'
         /\ ~initialized' /\ closer' = "closing" /\ call' = FailPending
         /\ UNCHANGED <<process, reader, failure, told, nextId, sent, stdout>>
<1>1. /\ ~initialized' /\ closer' = "closing" /\ call' = FailPending
      /\ initialized' = FALSE
      /\ UNCHANGED <<process, reader, failure, told, nextId, sent, stdout>>
  BY DEF Close
<1>2. call' \in [Everybody -> Call] /\ Open' = {}
  BY <1>1, FailFacts DEF GatewayInv
<1>3. TransportTypeOK'
  BY <1>1, <1>2 DEF GatewayInv, TypeOK, TransportTypeOK
<1> QED
  BY <1>1, <1>2, <1>3, Waits

\* A new client after none, or after the old one was closed.
LEMMA ClientStartStep ==
  ASSUME GatewayInv, ClientStart([kind |-> "initialize"]), recovery' = "starting",
         generation' \in 0..MaxGenerations, stale' \in BOOLEAN,
         UNCHANGED <<run, worktreeVars, threads, turns, sessions, saved, before, begun, crashes,
                     overrun>>
  PROVE  GatewayInv'
<1>1. TransportTypeOK' /\ SessionsInv'
  BY ClientStartSessions
<1>2. /\ process' = "running" /\ reader' = "reading" /\ closer' = "idle" /\ ~initialized'
  BY DEF ClientStart
<1>3. TypeOK'
  BY <1>1 DEF GatewayInv, TypeOK, WorktreesTypeOK, worktreeVars
<1>4. WorktreesInv'
  BY SameWorktrees
<1>5. Client' /\ NobodyWaits'
  BY <1>1, <1>2, Waits DEF Client
<1> QED
  BY <1>1, <1>3, <1>4, <1>5 DEF GatewayInv, ClientInv

\* A recovery begins with the end of the old client or the start of the new one.
LEMMA RecoverBeginsStep ==
  ASSUME GatewayInv, RecoverBegins
  PROVE  GatewayInv'
<1>1. /\ recovery = "none" /\ generation' = generation + 1 /\ generation < MaxGenerations
      /\ stale' = FALSE
      /\ UNCHANGED <<run, worktreeVars, threads, turns, sessions, saved, before, begun, crashes,
                     overrun>>
  BY DEF RecoverBegins, serverUnchanged, storeUnchanged, restUnchanged
<1>2. generation' \in 0..MaxGenerations
  BY <1>1, BoundsAssumption DEF GatewayInv, TypeOK
<1>3. CASE Close /\ recovery' = "closing_old"
  <2>1. /\ TransportTypeOK' /\ NobodyWaits'
        /\ ~initialized' /\ closer' = "closing" /\ call' = FailPending
        /\ UNCHANGED <<process, reader, failure, told, nextId, sent, stdout>>
    BY <1>3, CloseFacts
  <2>2. ClientInv'
    BY <1>3, <2>1 DEF GatewayInv, ClientInv, Client
  <2>3. turns # {} => process = "running"
    BY DEF GatewayInv, SessionsInv, Owned
  <2> QED
    BY <1>1, <1>2, <1>3, <2>1, <2>2, <2>3, Fades
<1>4. CASE ClientStart([kind |-> "initialize"]) /\ recovery' = "starting"
  BY <1>1, <1>2, <1>4, ClientStartStep
<1> QED
  BY <1>3, <1>4 DEF RecoverBegins

\* The old process is gone.
LEMMA OldClientClosedStep ==
  ASSUME GatewayInv, OldClientClosed
  PROVE  GatewayInv'
<1>1. /\ ClientStart([kind |-> "initialize"]) /\ recovery' = "starting"
      /\ UNCHANGED <<run, worktreeVars, generation, stale, threads, turns, sessions, saved,
                     before, begun, crashes, overrun>>
  BY DEF OldClientClosed, serverUnchanged, storeUnchanged, restUnchanged
<1> QED
  BY <1>1, ClientStartStep DEF GatewayInv, TypeOK

\* The client is published, without anything of an earlier one.
LEMMA RecoveredStep ==
  ASSUME GatewayInv, Recovered
  PROVE  GatewayInv'
<1>1. /\ recovery = "starting" /\ recovery' = "none" /\ initialized' = TRUE /\ CanWrite
      /\ call' = [call EXCEPT ![Starter] = NoCall]
      /\ UNCHANGED <<process, reader, failure, closer, told, nextId, sent, stdout>>
      /\ UNCHANGED <<run, worktreeVars, generation, stale, threads, turns, sessions, saved,
                     before, begun, crashes, overrun>>
  BY DEF Recovered, ClientInitialized, serverUnchanged, storeUnchanged, restUnchanged
<1>2. NoCall \in Call /\ NoCall.at = "idle" /\ Starter \in Everybody
  BY TasksAre DEF NoCall, Call
<1>3. /\ call' \in [Everybody -> Call] /\ call'[Starter].at = "idle"
      /\ \A c \in Everybody \ {Starter} : call'[c] = call[c]
  BY <1>1, <1>2 DEF GatewayInv, TypeOK, TransportTypeOK
<1>4. Open' \subseteq Open /\ \A c \in Open' : call'[c] = call[c]
  BY <1>3 DEF Open
<1>5. TransportTypeOK'
  BY <1>1, <1>3 DEF GatewayInv, TypeOK, TransportTypeOK
<1>6. TypeOK'
  BY <1>1, <1>5 DEF GatewayInv, TypeOK, WorktreesTypeOK, worktreeVars
<1>7. WorktreesInv'
  BY <1>1, SameWorktrees
<1>8. /\ ~initialized /\ closer = "idle" /\ reader # "none"
  BY <1>1 DEF GatewayInv, ClientInv, Client, TypeOK, TransportTypeOK
<1>9. Client'
  BY <1>1, <1>8 DEF GatewayInv, ClientInv, Client
<1>10. NobodyWaits'
  <2>1. Open # {} => reader = "reading" /\ closer = "idle"
    BY OpenFacts DEF GatewayInv, ClientInv, NobodyWaits, Open
  <2> QED
    BY <1>1, <1>4, <1>5, <2>1, Waits
<1>11. TurnMessages = {} /\ turns = {} /\ TurnMessages' = {} /\ turns' = {}
  BY <1>1, <1>8 DEF GatewayInv, SessionsInv, Owned, TurnMessages
<1>12. \A k \in Tasks : call'[k] = call[k] /\ (k \in Open' => k \in Open)
  BY <1>3, <1>4, TasksAre
<1>13. Ids' /\ Messages'
  BY <1>1, <1>4, <1>12 DEF GatewayInv, SessionsInv, Ids, Messages
<1>14. Conversation'
  BY <1>1, <1>11, <1>12, SameThreads DEF GatewayInv, SessionsInv, Conversation, Converses
<1>15. Owned' /\ OneTurn' /\ Bindings'
  BY <1>1, <1>11 DEF GatewayInv, SessionsInv, Owned, OneTurn, OneServerTurn, Bindings, Bound
<1> QED
  BY <1>6, <1>7, <1>9, <1>10, <1>13, <1>14, <1>15 DEF GatewayInv, ClientInv, SessionsInv

\* The new client did not answer: it is closed again.
LEMMA RecoverFailsStep ==
  ASSUME GatewayInv, RecoverFails
  PROVE  GatewayInv'
<1>1. /\ Close /\ recovery' = "closing_new"
      /\ UNCHANGED <<run, worktreeVars, generation, stale, threads, turns, sessions, saved,
                     before, begun, crashes, overrun>>
  BY DEF RecoverFails, serverUnchanged, storeUnchanged, restUnchanged
<1>2. /\ TransportTypeOK' /\ NobodyWaits'
      /\ ~initialized' /\ closer' = "closing" /\ call' = FailPending
      /\ UNCHANGED <<process, reader, failure, told, nextId, sent, stdout>>
  BY <1>1, CloseFacts
<1>3. ClientInv'
  BY <1>1, <1>2 DEF GatewayInv, ClientInv, Client
<1>4. /\ turns # {} => process = "running"
      /\ generation \in 0..MaxGenerations /\ stale \in BOOLEAN
  BY DEF GatewayInv, TypeOK, SessionsInv, Owned
<1> QED
  BY <1>1, <1>2, <1>3, <1>4, Fades

\* The runs that waited for the client are given the error; none of them has a request.
LEMMA RecoverEndsStep ==
  ASSUME GatewayInv, RecoverEnds
  PROVE  GatewayInv'
<1>1. /\ recovery = "closing_new" /\ closer = "idle" /\ recovery' = "none" /\ stale' = TRUE
      /\ run' = [k \in Tasks |-> IF k \in Waiting THEN IdleRun ELSE run[k]]
      /\ prep' = [k \in Tasks |-> IF k \in Waiting THEN NotPreparing ELSE prep[k]]
      /\ UNCHANGED <<process, reader, failure, closer, initialized, told, nextId, call, sent,
                     stdout>>
      /\ UNCHANGED <<canonical, tree, generation, threads, turns, sessions, saved, before,
                     begun, crashes, overrun>>
  BY DEF RecoverEnds, transportVars, serverUnchanged, storeUnchanged, restUnchanged
<1>2. /\ IdleRun \in Run /\ IdleRun.at = "idle"
      /\ NotPreparing \in Prep /\ NotPreparing.at = "idle"
  BY BoundsAssumption DEF IdleRun, Run, NotPreparing, Prep
<1>3. \A k \in Waiting : run[k].at = "preparing"
  BY DEF Waiting
<1>4. \A k \in Tasks :
        \/ run'[k] = run[k] /\ prep'[k] = prep[k]
        \/ k \in Waiting /\ run'[k].at = "idle" /\ prep'[k].at = "idle"
  BY <1>1, <1>2
<1>5. TransportTypeOK'
  BY <1>1 DEF GatewayInv, TypeOK, TransportTypeOK
<1>6. TypeOK'
  <2>1. run' \in [Tasks -> Run] /\ prep' \in [Preparers -> Prep]
    BY <1>1, <1>2, TasksAre DEF GatewayInv, TypeOK, WorktreesTypeOK
  <2> QED
    BY <1>1, <1>5, <2>1 DEF GatewayInv, TypeOK, WorktreesTypeOK
<1>7. WorktreesInv'
  <2>1. Preparing'
    BY <1>1, <1>4 DEF GatewayInv, WorktreesInv, Preparing, TreeOf
  <2>2. OneLive' /\ Begun' /\ PinnedTree'
    BY <1>1, <1>4 DEF GatewayInv, WorktreesInv, OneLive, Begun, PinnedTree, Live
  <2> QED
    BY <2>1, <2>2 DEF WorktreesInv
<1>8. Open' = Open /\ ~initialized
  BY <1>1 DEF Open, GatewayInv, ClientInv, Client
<1>9. ClientInv'
  <2>1. Open # {} => reader = "reading"
    BY OpenFacts DEF GatewayInv, ClientInv, NobodyWaits, Open
  <2>2. Client' /\ NobodyWaits'
    BY <1>1, <1>5, <1>8, <2>1, Waits DEF GatewayInv, ClientInv, Client
  <2> QED
    BY <2>2 DEF ClientInv
<1>10. \A k \in Waiting : call[k].at # "waiting"
  BY <1>3 DEF GatewayInv, SessionsInv, Ids, Waiting
<1>11. /\ \A c \in Channels : Bound(c, sessions[c]) /\ Bound(c, saved[c])
       /\ turns # {} => process = "running"
  BY DEF GatewayInv, SessionsInv, Bindings, Owned
<1>12. SessionsInv'
  BY <1>1, <1>4, <1>8, <1>10, <1>11, Shrinks
<1> QED
  BY <1>6, <1>7, <1>9, <1>12 DEF GatewayInv

\* The exit of the process is told: the generation is not used any more.
LEMMA ExitToldStep ==
  ASSUME GatewayInv, ExitTold
  PROVE  GatewayInv'
<1>1. /\ initialized /\ told' = FALSE /\ stale' = TRUE
      /\ UNCHANGED <<process, reader, failure, closer, initialized, nextId, call, sent, stdout>>
      /\ UNCHANGED <<run, worktreeVars, generation, recovery, threads, turns, sessions, saved,
                     before, begun, crashes, overrun>>
  BY DEF ExitTold, connUnchanged, serverUnchanged, storeUnchanged, restUnchanged
<1>2. TransportTypeOK' /\ Open' = Open
  BY <1>1 DEF GatewayInv, TypeOK, TransportTypeOK, Open
<1>3. ClientInv'
  BY <1>1, <1>2, SameClient
<1>4. /\ turns # {} => process = "running"
      /\ generation \in 0..MaxGenerations
      /\ recovery \in {"none", "closing_old", "starting", "closing_new"}
  BY DEF GatewayInv, TypeOK, SessionsInv, Owned
<1> QED
  BY <1>1, <1>2, <1>3, <1>4, Fades

\* The reader reads an answer, or ends and fails what is pending; the close of a client ends
\* with its pipes empty.
LEMMA TransportStepStep ==
  ASSUME GatewayInv, TransportStep
  PROVE  GatewayInv'
<1>1. UNCHANGED worktreeVars /\ UNCHANGED gatewayVars
  BY DEF TransportStep
<1>2. UNCHANGED <<run, before, begun, generation, stale, recovery, sessions, saved, threads,
                  turns, crashes, overrun>>
  BY <1>1 DEF gatewayVars
<1>3. /\ turns # {} => process = "running"
      /\ generation \in 0..MaxGenerations /\ stale \in BOOLEAN
      /\ recovery \in {"none", "closing_old", "starting", "closing_new"}
      /\ initialized \in BOOLEAN /\ closer \in {"idle", "closing"}
      /\ process \in {"none", "running", "exited"} /\ told \in BOOLEAN /\ Client
  BY DEF GatewayInv, TypeOK, TransportTypeOK, SessionsInv, Owned, ClientInv
<1>4. Open # {} => reader = "reading" /\ closer = "idle"
  BY OpenFacts DEF GatewayInv, ClientInv, NobodyWaits, Open
<1>5. ASSUME NEW line \in stdout, ReadAnswer(line) PROVE GatewayInv'
  <2>1. TransportTypeOK' /\ SessionsInv'
    BY <1>1, <1>5, ReadAnswerSessions
  <2>2. /\ stdout' = stdout \ {line} /\ call' = Resolved(line)
        /\ UNCHANGED <<process, reader, failure, closer, initialized, told, nextId, sent>>
    BY <1>5 DEF ReadAnswer
  <2>3. Open' \subseteq Open
    BY <2>2, ResolvedFacts DEF GatewayInv
  <2>4. TypeOK'
    BY <1>1, <1>2, <2>1 DEF GatewayInv, TypeOK, WorktreesTypeOK, worktreeVars
  <2>5. WorktreesInv'
    BY <1>1, <1>2, SameWorktrees
  <2>6. ClientInv'
    BY <1>2, <2>1, <2>2, <2>3, SameClient
  <2> QED
    BY <2>1, <2>4, <2>5, <2>6 DEF GatewayInv
<1>6. ASSUME reader = "reading", reader' = "ended", failure' = TRUE, call' = FailPending,
             told' \in BOOLEAN,
             UNCHANGED <<process, closer, initialized, nextId, sent, stdout>>
      PROVE  GatewayInv'
  <2>1. call' \in [Everybody -> Call] /\ Open' = {}
    BY <1>6, FailFacts DEF GatewayInv
  <2>2. TransportTypeOK'
    BY <1>6, <2>1 DEF GatewayInv, TypeOK, TransportTypeOK
  <2>3. ClientInv'
    BY <1>2, <1>3, <1>6, <2>1, <2>2, Waits DEF ClientInv, Client
  <2> QED
    BY <1>1, <1>2, <1>3, <1>6, <2>2, <2>3, Fades
<1>7. CASE ReadFails
  <2>1. told' \in BOOLEAN
    BY <1>3, <1>7 DEF ReadFails
  <2> QED
    BY <1>6, <1>7, <2>1 DEF ReadFails
<1>8. CASE ReadEnds
  <2>1. CASE closer = "idle"
    BY <1>6, <1>8, <2>1 DEF ReadEnds
  <2>2. CASE closer # "idle"
    <3>1. /\ reader = "reading" /\ reader' = "ended"
          /\ UNCHANGED <<process, failure, closer, initialized, told, nextId, call, sent, stdout>>
      BY <1>8, <2>2 DEF ReadEnds
    <3>2. TransportTypeOK' /\ Open' = {}
      BY <1>4, <2>2, <3>1 DEF GatewayInv, TypeOK, TransportTypeOK, Open
    <3>3. ClientInv'
      BY <1>2, <1>3, <2>2, <3>1, <3>2, Waits DEF ClientInv, Client
    <3> QED
      BY <1>1, <1>2, <1>3, <3>1, <3>2, <3>3, Fades
  <2> QED
    BY <2>1, <2>2
<1>9. CASE CloseEnds
  <2>1. /\ closer = "closing" /\ process # "running"
        /\ closer' = "idle" /\ process' = "none" /\ reader' = "none"
        /\ failure' = FALSE /\ told' = FALSE /\ sent' = {} /\ stdout' = {}
        /\ UNCHANGED <<initialized, nextId, call>>
    BY <1>9 DEF CloseEnds
  <2>2. TransportTypeOK' /\ Open' = {}
    BY <1>4, <2>1 DEF GatewayInv, TypeOK, TransportTypeOK, Open
  <2>3. ClientInv'
    BY <1>2, <1>3, <2>1, <2>2, Waits DEF ClientInv, Client
  <2>4. turns = {} /\ sent' \subseteq sent /\ stdout' \subseteq stdout
    BY <1>3, <2>1
  <2> QED
    BY <1>1, <1>2, <1>3, <2>1, <2>2, <2>3, <2>4, Fades
<1> QED
  BY <1>5, <1>7, <1>8, <1>9 DEF TransportStep

\* The server answers, with an error or after it did what it was asked.
LEMMA ServerTakesStep ==
  ASSUME GatewayInv, NEW m \in sent, ServerTakes(m),
         UNCHANGED <<worktreeVars, run, stale, generation, recovery, sessions, saved, before,
                     begun, crashes, overrun>>
  PROVE  GatewayInv'
<1>1. PICK answer \in Nat : ServerAnswers(m, answer)
  <2>1. threads \in Seq([channel : Channels, log : SUBSET Contexts])
    BY DEF GatewayInv, TypeOK
  <2>2. Len(threads) + 1 \in Nat
    BY <2>1
  <2>3. m.what.kind = "resume" => m.what.thread \in Nat
    BY <2>1 DEF GatewayInv, SessionsInv, Messages
  <2> QED
    BY <2>2, <2>3 DEF ServerTakes
<1>2. /\ process = "running" /\ sent' \subseteq sent
      /\ UNCHANGED <<process, reader, failure, closer, initialized, told, nextId, call>>
  BY <1>1 DEF ServerAnswers
<1>3. /\ TransportTypeOK' /\ SessionsInv' /\ turns' \subseteq Turn
      /\ threads' \in Seq([channel : Channels, log : SUBSET Contexts])
  <2>1. /\ turns \subseteq Turn
        /\ threads \in Seq([channel : Channels, log : SUBSET Contexts])
    BY DEF GatewayInv, TypeOK
  <2>2. CASE m.what.kind # "initialize" /\ ServerAnswers(m, 0) /\ serverUnchanged
    BY <2>1, <2>2, PlainAnswerSessions DEF serverUnchanged
  <2>3. CASE /\ m.what.kind \in {"initialize", "interrupt"}
             /\ ServerAnswers(m, 1) /\ serverUnchanged
    BY <2>1, <2>3, PlainAnswerSessions DEF serverUnchanged
  <2>4. CASE /\ m.what.kind = "start" /\ Len(threads) < MaxThreads
             /\ threads' = Append(threads, [channel |-> m.what.channel, log |-> {}])
             /\ ServerAnswers(m, Len(threads) + 1)
             /\ UNCHANGED turns
    BY <2>1, <2>4, ThreadOpenedSessions
  <2>5. CASE m.what.kind = "resume" /\ ServerAnswers(m, m.what.thread) /\ serverUnchanged
    <3>1. m.what.thread \in Nat
      BY <2>1, <2>5 DEF GatewayInv, SessionsInv, Messages
    <3> QED
      BY <2>1, <2>5, <3>1, PlainAnswerSessions DEF serverUnchanged
  <2>6. CASE /\ m.what.kind = "turn"
             /\ threads' = [threads EXCEPT ![m.what.thread].log = @ \cup {m.what.context}]
             /\ turns' = turns \cup {[thread |-> m.what.thread, context |-> m.what.context,
                                      by |-> m.what.by]}
             /\ ServerAnswers(m, 1)
    BY <2>6, TurnBegunSessions
  <2> QED
    BY <2>2, <2>3, <2>4, <2>5, <2>6 DEF ServerTakes
<1>4. TypeOK'
  BY <1>3 DEF GatewayInv, TypeOK, WorktreesTypeOK, worktreeVars
<1>5. WorktreesInv'
  BY SameWorktrees
<1>6. ClientInv'
  <2>1. Open # {} => reader = "reading" /\ closer = "idle"
    BY OpenFacts DEF GatewayInv, ClientInv, NobodyWaits, Open
  <2>2. Open' = Open
    BY <1>2 DEF Open
  <2> QED
    BY <1>2, <1>3, <2>1, <2>2, Waits DEF GatewayInv, ClientInv, Client
<1> QED
  BY <1>3, <1>4, <1>5, <1>6 DEF GatewayInv

\* The server takes a request, ends a turn or exits, and its turns with it.
LEMMA ServerStepStep ==
  ASSUME GatewayInv, ServerStep
  PROVE  GatewayInv'
<1>1. UNCHANGED <<worktreeVars, run, stale, generation, recovery, sessions, saved, before,
                  begun, crashes, overrun>>
  BY DEF ServerStep, connUnchanged, storeUnchanged, restUnchanged
<1>2. ASSUME NEW m \in sent, ServerTakes(m) PROVE GatewayInv'
  BY <1>1, <1>2, ServerTakesStep
<1>3. /\ turns # {} => process = "running"
      /\ generation \in 0..MaxGenerations /\ stale \in BOOLEAN
      /\ recovery \in {"none", "closing_old", "starting", "closing_new"}
      /\ initialized \in BOOLEAN /\ closer \in {"idle", "closing"}
  BY DEF GatewayInv, TypeOK, TransportTypeOK, SessionsInv, Owned
<1>4. ASSUME UNCHANGED <<reader, failure, closer, initialized, told, nextId, call, stdout,
                         threads>>,
             sent' \subseteq sent, turns' \subseteq turns, turns' # {} => process' = "running",
             process # "none", process' \in {"running", "exited"},
             turns # {} => initialized \/ closer = "closing"
      PROVE  GatewayInv'
  <2>1. TransportTypeOK' /\ Open' = Open
    <3>1. sent' \subseteq [id : Nat, what : {m.what : m \in sent'}]
      BY <1>4 DEF GatewayInv, TypeOK, TransportTypeOK
    <3> QED
      BY <1>4, <3>1 DEF GatewayInv, TypeOK, TransportTypeOK, Open
  <2>2. Open # {} => reader = "reading" /\ closer = "idle"
    BY OpenFacts DEF GatewayInv, ClientInv, NobodyWaits, Open
  <2>3. ClientInv'
    BY <1>1, <1>4, <2>1, <2>2, Waits DEF GatewayInv, ClientInv, Client
  <2> QED
    BY <1>1, <1>3, <1>4, <2>1, <2>3, Fades
<1>5. turns # {} => initialized \/ closer = "closing"
  BY DEF GatewayInv, SessionsInv, Owned
<1>6. ASSUME NEW t \in turns, ServerTurnEnds(t) PROVE GatewayInv'
  <2>1. /\ turns' = turns \ {t} /\ process = "running" /\ process' = process
        /\ UNCHANGED <<reader, failure, closer, initialized, told, nextId, call, sent, stdout,
                       threads>>
    BY <1>3, <1>6 DEF ServerTurnEnds, transportVars
  <2> QED
    BY <1>4, <1>5, <2>1
<1>7. CASE ServerExits
  BY <1>4, <1>5, <1>7 DEF ServerExits, ProcessExits
<1> QED
  BY <1>2, <1>6, <1>7 DEF ServerStep

\* What an agent does to the worktrees of its channel concerns no pinned turn.
LEMMA AgentStepStep ==
  ASSUME GatewayInv, AgentStep
  PROVE  GatewayInv'
<1>1. WorktreesTypeOK' /\ WorktreesInv'
  BY AgentWorktrees
<1> QED
  BY <1>1, ServerSame DEF AgentStep

\* A crash leaves the threads of the server and a document of the session store that was
\* seen or was sure to survive.
LEMMA CrashStep ==
  ASSUME GatewayInv, Crash
  PROVE  GatewayInv'
<1>1. /\ crashes < MaxCrashes /\ crashes' = crashes + 1
      /\ run' = [k \in Tasks |-> IdleRun]
      /\ process' = "none" /\ reader' = "none" /\ failure' = FALSE /\ closer' = "idle"
      /\ initialized' = FALSE /\ told' = FALSE /\ nextId' = 0
      /\ call' = [c \in Everybody |-> NoCall] /\ sent' = {} /\ stdout' = {}
      /\ stale' = FALSE /\ recovery' = "none" /\ turns' = {}
      /\ sessions' \in {sessions, saved} /\ saved' = sessions' /\ overrun' = {}
      /\ UNCHANGED <<before, begun, generation, threads>>
  BY DEF Crash
<1>2. /\ IdleRun \in Run /\ IdleRun.at = "idle" /\ NoCall \in Call /\ NoCall.at = "idle"
  BY BoundsAssumption DEF IdleRun, Run, NoCall, Call
<1>3. WorktreesTypeOK' /\ WorktreesInv'
  BY CrashWorktrees
<1>4. TransportTypeOK'
  BY <1>1, <1>2 DEF TransportTypeOK
<1>5. TypeOK'
  <2>1. crashes' \in 0..MaxCrashes
    BY <1>1, BoundsAssumption DEF GatewayInv, TypeOK
  <2> QED
    BY <1>1, <1>2, <1>3, <1>4, <2>1 DEF GatewayInv, TypeOK
<1>6. Open' = {} /\ TurnMessages' = {}
  BY <1>1, <1>2 DEF Open, TurnMessages
<1>7. ClientInv'
  BY <1>1, <1>4, <1>6, Waits DEF ClientInv, Client
<1>8. Ids' /\ Messages'
  BY <1>1, <1>2, <1>6, TasksAre DEF GatewayInv, SessionsInv, Ids, Messages
<1>9. Conversation' /\ Owned' /\ OneTurn'
  BY <1>1, <1>2, <1>6 DEF Conversation, Converses, Owned, OneTurn, OneServerTurn
<1>10. Bindings'
  BY <1>1, <1>6 DEF GatewayInv, SessionsInv, Bindings, Bound
<1> QED
  BY <1>3, <1>5, <1>7, <1>8, <1>9, <1>10 DEF GatewayInv, SessionsInv

\* Every step preserves the invariant.
LEMMA NextInv ==
  ASSUME GatewayInv, [Next]_vars
  PROVE  GatewayInv'
<1>1. CASE Next
  <2>1. ASSUME NEW k \in Tasks,
               \/ Begin(k) \/ ContextResolved(k) \/ Git(k) \/ PrepareFailed(k)
               \/ Load(k) \/ Loaded(k) \/ Incompatible(k) \/ TurnStarted(k)
               \/ RequestFailed(k) \/ TurnOver(k) \/ TurnTimesOut(k) \/ Interrupted(k)
               \/ InterruptFailed(k) \/ GraceEnds(k)
        PROVE  GatewayInv'
    BY <2>1, BeginStep, ContextResolvedStep, GitStepStep, PrepareFailedStep, LoadStep,
       LoadedStep, IncompatibleStep, TurnStartedStep, RequestFailedStep, TurnOverStep,
       TurnTimesOutStep, InterruptedStep, InterruptFailedStep, GraceEndsStep
  <2>2. ASSUME \/ RecoverBegins \/ OldClientClosed \/ Recovered \/ RecoverFails
               \/ RecoverEnds \/ ExitTold
        PROVE  GatewayInv'
    BY <2>2, RecoverBeginsStep, OldClientClosedStep, RecoveredStep, RecoverFailsStep,
       RecoverEndsStep, ExitToldStep
  <2>3. ASSUME TransportStep \/ ServerStep \/ AgentStep \/ Crash
        PROVE  GatewayInv'
    BY <2>3, TransportStepStep, ServerStepStep, AgentStepStep, CrashStep
  <2> QED
    BY <1>1, <2>1, <2>2, <2>3 DEF Next
<1>2. CASE UNCHANGED vars
  <2>1. UNCHANGED <<transportVars, worktreeVars, gatewayVars>>
    BY <1>2 DEF vars
  <2>2. WorktreesTypeOK' /\ WorktreesInv'
    BY <2>1, SameWorktrees
       DEF GatewayInv, TypeOK, WorktreesTypeOK, worktreeVars, gatewayVars
  <2> QED
    BY <2>1, <2>2, ServerSame
<1> QED
  BY <1>1, <1>2

\* The gateway starts over the threads, the bindings and the worktrees of the tasks that ran
\* before it, one for each of their channels.
LEMMA InitInv ==
  ASSUME Init
  PROVE  GatewayInv
<1> DEFINE All(o) == \A k \in before : \E i \in DOMAIN o : o[i] = k
           order == CHOOSE o \in [1..Cardinality(before) -> before] : All(o)
           of(c) == {i \in DOMAIN order : Channel(order[i]) = c}
           Thread == [channel : Channels, log : SUBSET Contexts]
<1>1. /\ before \in Earlier /\ begun = {} /\ stale = FALSE /\ recovery = "none"
      /\ turns = {} /\ generation = 0 /\ crashes = 0 /\ saved = sessions /\ overrun = {}
      /\ run = [k \in Tasks |-> IdleRun] /\ prep = [k \in Tasks |-> NotPreparing]
      /\ process = "none" /\ reader = "none" /\ failure = FALSE /\ closer = "idle"
      /\ initialized = FALSE /\ told = FALSE /\ nextId = 0
      /\ call = [c \in Everybody |-> NoCall] /\ sent = {} /\ stdout = {}
  BY DEF Init, TransportInit
<1>2. /\ before \subseteq Tasks /\ Cardinality(before) \in Nat
      /\ Cardinality(before) <= MaxThreads
      /\ order \in [1..Cardinality(before) -> before]
  <2>1. /\ before \subseteq Tasks /\ IsFiniteSet(before)
        /\ Cardinality(before) <= MaxThreads
    BY <1>1, TaskAssumption
  <2>2. Cardinality(before) \in Nat /\ ExistsBijection(1..Cardinality(before), before)
    BY <2>1, FS_CardinalityType
  <2>3. PICK o \in [1..Cardinality(before) -> before] :
          \A k \in before : \E i \in 1..Cardinality(before) : o[i] = k
    BY <2>2 DEF ExistsBijection, Bijection, Injection, Surjection
  <2>4. All(o)
    BY <2>3
  <2> HIDE DEF All
  <2> QED
    BY <2>1, <2>2, <2>4
<1>3. /\ threads = [i \in DOMAIN order |->
            [channel |-> Channel(order[i]), log |-> {Context(order[i])}]]
      /\ sessions = [c \in Channels |->
            IF of(c) = {} THEN None
            ELSE LET i == CHOOSE i \in of(c) : TRUE
                 IN [thread |-> i, context |-> Context(order[i])]]
  BY DEF Init
<1> HIDE DEF order, All
<1>4. \A i \in DOMAIN order :
        i \in 1..MaxThreads /\ order[i] \in Tasks /\ Channel(order[i]) \in Channels
        /\ Context(order[i]) \in Contexts
  BY <1>2, AskFacts, BoundsAssumption
<1>5. threads \in Seq(Thread) /\ Len(threads) <= MaxThreads /\ DOMAIN threads = DOMAIN order
  <2>1. \A i \in DOMAIN order :
          [channel |-> Channel(order[i]), log |-> {Context(order[i])}] \in Thread
    BY <1>4
  <2>2. threads \in [1..Cardinality(before) -> Thread]
    BY <1>2, <1>3, <2>1
  <2> HIDE DEF Thread
  <2>3. threads \in Seq(Thread) /\ Len(threads) = Cardinality(before)
    BY <1>2, <2>2, SeqDef
  <2> QED
    BY <1>2, <1>3, <2>3
<1>6. \A c \in Channels : sessions[c] \in Binding /\ Bound(c, sessions[c])
  <2> SUFFICES ASSUME NEW c \in Channels, of(c) # {}
               PROVE  sessions[c] \in Binding /\ Bound(c, sessions[c])
    BY <1>3 DEF Binding, Bound
  <2>1. PICK i \in of(c) : sessions[c] = [thread |-> i, context |-> Context(order[i])]
    BY <1>3
  <2>2. i \in DOMAIN order /\ Channel(order[i]) = c
    OBVIOUS
  <2>3. threads[i].channel = c /\ threads[i].log = {Context(order[i])}
    BY <1>3, <2>2
  <2> QED
    BY <1>1, <1>4, <1>5, <2>1, <2>2, <2>3 DEF Binding, Bound, TurnMessages
<1>7. /\ IdleRun \in Run /\ IdleRun.at = "idle" /\ NoCall \in Call /\ NoCall.at = "idle"
      /\ NotPreparing \in Prep /\ NotPreparing.at = "idle"
  BY BoundsAssumption DEF IdleRun, Run, NoCall, Call, NotPreparing, Prep
<1>8. TransportTypeOK
  BY <1>1, <1>7 DEF TransportTypeOK
<1>9. WorktreesTypeOK
  <2>1. canonical \in [Repos -> {"absent", "cloning", "half", "whole"}]
    <3>1. canonical \in [Repos -> IF before = {} THEN {"absent", "whole"} ELSE {"whole"}]
      BY DEF Init
    <3> QED
      BY <3>1
  <2>2. tree \in [Channels -> [Repos -> Tree]]
    <3> DEFINE mine(c, r) == {k \in before : Channel(k) = c /\ Task[k].repo = r
                                              /\ Task[k].policy # "review"}
    <3>1. tree = [c \in Channels |-> [r \in Repos |->
            IF mine(c, r) = {} THEN NoTree ELSE Added(Task[CHOOSE k \in mine(c, r) : TRUE])]]
      BY DEF Init
    <3>2. NoTree \in Tree
      BY DEF NoTree, Tree
    <3>3. \A k \in Tasks : Added(Task[k]) \in Tree
      BY TaskAssumption, UpstreamAssumption DEF Added, Tree, Arguments
    <3>4. ASSUME NEW c \in Channels, NEW r \in Repos, mine(c, r) # {}
          PROVE  (CHOOSE k \in mine(c, r) : TRUE) \in Tasks
      BY <1>2, <3>4
    <3> HIDE DEF mine
    <3> QED
      BY <3>1, <3>2, <3>3, <3>4
  <2> QED
    BY <1>1, <1>7, <2>1, <2>2, TasksAre DEF WorktreesTypeOK
<1>10. TypeOK
  <2>1. sessions \in [Channels -> Binding] /\ saved \in [Channels -> Binding]
    <3>1. sessions \in [Channels -> Binding]
      BY <1>3, <1>6
    <3> QED
      BY <1>1, <3>1
  <2>2. generation \in 0..MaxGenerations /\ crashes \in 0..MaxCrashes
    <3>1. MaxGenerations \in Nat /\ MaxCrashes \in Nat
      BY BoundsAssumption
    <3> QED
      BY <1>1, <3>1
  <2>3. run \in [Tasks -> Run]
    BY <1>1, <1>7
  <2> QED
    BY <1>1, <1>2, <1>5, <1>8, <1>9, <2>1, <2>2, <2>3 DEF TypeOK
<1>11. WorktreesInv
  BY <1>1, <1>7 DEF WorktreesInv, Preparing, OneLive, Begun, PinnedTree, Live
<1>12. ClientInv
  BY <1>1, <1>7 DEF ClientInv, Client, NobodyWaits, Registered
<1>13. Open = {} /\ TurnMessages = {}
  BY <1>1, <1>7 DEF Open, TurnMessages
<1>14. Ids /\ Messages
  BY <1>1, <1>5, <1>7, <1>13, TasksAre DEF Ids, Messages
<1>15. Conversation /\ Owned /\ OneTurn
  BY <1>1, <1>7, <1>13 DEF Conversation, Converses, Owned, OneTurn, OneServerTurn
<1>16. Bindings
  BY <1>1, <1>6 DEF Bindings
<1> QED
  BY <1>10, <1>11, <1>12, <1>14, <1>15, <1>16 DEF GatewayInv, SessionsInv

----------------------------------------------------------------------------
(* The theorems.                                                           *)

\* The invariant holds in every state, for any tasks, channels, repositories and bounds: the
\* one that the theorems below are read off.
THEOREM GatewayInvariant == Spec => []GatewayInv
<1>1. Init => GatewayInv
  BY InitInv
<1>2. GatewayInv /\ [Next]_vars => GatewayInv'
  BY NextInv
<1> QED
  BY <1>1, <1>2, PTL DEF Spec

\* The variables keep their types.
THEOREM GatewayTypes == Spec => []TypeOK
<1>1. GatewayInv => TypeOK
  BY DEF GatewayInv
<1> QED
  BY <1>1, GatewayInvariant, PTL

\* No request is left waiting for an answer that nobody reads, while tasks begin and end,
\* clients are recovered and the gateway crashes (AppServerTransport).
THEOREM NobodyEverWaits == Spec => []NobodyWaits
<1>1. GatewayInv => NobodyWaits
  BY DEF GatewayInv, ClientInv
<1> QED
  BY <1>1, GatewayInvariant, PTL

\* A channel's session and the thread of its turn were opened for that channel, whatever
\* became of the writes of the session store (_remember_thread, load_thread).
THEOREM ThreadsStayInChannels == Spec => []ThreadsBelongToChannels
<1>1. GatewayInv => ThreadsBelongToChannels
  BY DEF GatewayInv, SessionsInv, Bindings, Bound, Conversation, Converses, Fits,
         ThreadsBelongToChannels
<1> QED
  BY <1>1, GatewayInvariant, PTL

\* A restricted turn runs in a thread that was only ever told of its own policy, repository
\* and commit (_matches, set_binding).
THEOREM RestrictedThreadsAreTheirs == Spec => []RestrictedThreads
<1>1. GatewayInv => RestrictedThreads
  BY DEF GatewayInv, SessionsInv, Conversation, Converses, Fits, RestrictedThreads
<1> QED
  BY <1>1, GatewayInvariant, PTL

\* The server works on one turn of a channel at a time: a turn whose request was given up
\* invalidates the generation of its client.  The exception is part of the statement: a turn
\* that reached its time limit may go on after its run, since the client is kept.
THEOREM OneTurnOfChannel == Spec => []OneServerTurn
<1>1. GatewayInv => OneServerTurn
  BY DEF GatewayInv, SessionsInv, OneTurn
<1> QED
  BY <1>1, GatewayInvariant, PTL

\* A pinned turn works at its commit, unless an abandoned turn moved its worktree.
THEOREM PinnedTurnsStay == Spec => []PinnedTurn
<1>1. GatewayInv => PinnedTurn
  BY DEF GatewayInv, WorktreesInv, Preparing, PinnedTree, PinnedTurn
<1> QED
  BY <1>1, GatewayInvariant, PTL

=============================================================================

-------------------------- MODULE DiscordTaskStore --------------------------
(***************************************************************************)
(* The durable task store of discord_task_store.py and                     *)
(* discord_task_persistence.py.                                            *)
(*                                                                         *)
(* The store keeps the records in memory and in one JSON document that it  *)
(* replaces atomically (temporary file, fsync, rename, fsync of the        *)
(* directory).  Every operation runs under the store's lock and is one     *)
(* action.  A write ends in one of three ways:                             *)
(*   "ok"        renamed, and the directory is synced (at once or by the   *)
(*               second call of confirm_document_durability);              *)
(*   "failed"    OSError before the rename: memory and file keep the old   *)
(*               document and the caller sees the exception;               *)
(*   "unsynced"  renamed, but the directory could not be synced twice: the *)
(*               new document is in memory and in the file, the caller     *)
(*               sees TaskStoreDurabilityError, and a power loss may bring *)
(*               an older document back.                                   *)
(* A call that the store refuses (unknown id, stale revision, busy channel,*)
(* illegal update) raises and changes nothing, so it is not an action.     *)
(***************************************************************************)
EXTENDS DiscordTaskStorePolicy, DiscordTaskUpdates

CONSTANTS
  WriteOutcomes,   \* the outcomes a write may have
  Revisions,       \* bound: the revisions explored, or Nat
  MaxClock,        \* bound: the last day explored
  MaxUncertain     \* bound: the documents a power loss may choose between

ASSUME StoreAssumption ==
  /\ WriteOutcomes \subseteq {"ok", "failed", "unsynced"}
  /\ MaxClock \in Nat
  /\ MaxUncertain \in Nat

VARIABLES
  tasks,     \* DiscordTaskStore._tasks
  disk,      \* the document a read of the file returns
  durable,   \* the documents a power loss may leave in the file
  clock,     \* the day
  outcome    \* how the last operation ended

storeVars == <<tasks, disk, durable, clock, outcome>>

Outcomes == {"ok", "failed", "unsynced", "loaded", "unchanged", "raised"}

StoreInit ==
  /\ tasks = EmptyDocument
  /\ disk = EmptyDocument
  /\ durable = {EmptyDocument}
  /\ clock = 0
  /\ outcome = "loaded"

----------------------------------------------------------------------------
(* Operations.                                                             *)

\* A defect for comparison: memory changes before the write is known to succeed.
commit_memory_first(candidate) ==
  \E doc \in apply_retention(candidate, clock), o \in WriteOutcomes :
    /\ o = "unsynced" => Cardinality(durable) < MaxUncertain
    /\ outcome' = o
    /\ tasks' = doc
    /\ IF o = "failed" THEN UNCHANGED <<disk, durable>>
         ELSE disk' = doc /\ durable' = IF o = "ok" THEN {doc} ELSE durable \cup {doc}
    /\ UNCHANGED clock

commit(candidate) ==
  \E doc \in apply_retention(candidate, clock), o \in WriteOutcomes :
    /\ o = "unsynced" => Cardinality(durable) < MaxUncertain
    /\ outcome' = o
    /\ IF o = "failed"
         THEN UNCHANGED <<tasks, disk, durable>>
         ELSE /\ tasks' = doc
              /\ disk' = doc
              /\ durable' = IF o = "ok" THEN {doc} ELSE durable \cup {doc}
    /\ UNCHANGED clock

\* A defect for comparison: only a running task keeps its channel.
not_running_elsewhere(t, r) ==
  is_active(r) =>
    \A u \in DOMAIN tasks \ {t} :
       ~ (tasks[u].channel = r.channel /\ tasks[u].state = "running")

execution_available(t, r) ==
  is_active(r) =>
    \A u \in DOMAIN tasks \ {t} :
       ~ (tasks[u].channel = r.channel /\ is_active(tasks[u]))

create(t, r) ==
  /\ t \notin DOMAIN tasks
  /\ r.from = None /\ r.to = None
  /\ r.attempt = 1
  /\ execution_available(t, r)
  /\ commit(put(tasks, t, r))

validate_update(current, candidate) ==
  /\ \A field \in {"owner", "channel", "trigger", "from", "to", "revision"} :
        candidate[field] = current[field]
  /\ \/ candidate.state = current.state
     \/ can_transition(current.state, candidate.state)
  /\ candidate.attempt = attempt_after_transition(current, candidate.state)
  /\ current.cause # None => candidate.cause = current.cause
  /\ current.cause = None /\ candidate.cause # None =>
        current.state \notin {"delivering", "completed"}

compare_and_set(t, expected_revision, candidate) ==
  /\ t \in DOMAIN tasks
  /\ tasks[t].revision = expected_revision
  /\ valid_record(t, candidate)
  /\ validate_update(tasks[t], candidate)
  /\ execution_available(t, candidate)
  /\ commit(put(tasks, t, [candidate EXCEPT !.revision = tasks[t].revision + 1]))

link_child(p, expected_revision, c, child) ==
  /\ p \in DOMAIN tasks
  /\ tasks[p].revision = expected_revision
  /\ tasks[p].state = "completed" /\ tasks[p].to = None
  /\ c \notin DOMAIN tasks
  /\ child.attempt = 1
  /\ child.state = "starting" /\ child.from = p /\ child.revision = 0
  /\ same_task_scope(tasks[p], child)
  /\ execution_available(c, child)
  /\ commit(put(put(tasks, p, [tasks[p] EXCEPT !.to       = c,
                                               !.revision = @ + 1,
                                               !.updated  = clock]),
                c, child))

reconciled(t) ==
  LET r == reconcile(tasks[t], clock)
  IN  IF r = tasks[t] THEN r ELSE [r EXCEPT !.revision = @ + 1]

\* One record that cannot be constructed makes the whole call raise.
reconcile_startup ==
  LET new == [t \in DOMAIN tasks |-> reconciled(t)]
  IN  CASE new = tasks ->
             outcome' = "unchanged" /\ UNCHANGED <<tasks, disk, durable, clock>>
        [] \E t \in DOMAIN tasks : ~valid_record(t, new[t]) ->
             outcome' = "raised" /\ UNCHANGED <<tasks, disk, durable, clock>>
        [] OTHER -> commit(new)

forget(t, expected_revision) ==
  /\ t \in DOMAIN tasks
  /\ tasks[t].revision = expected_revision
  /\ ~is_active(tasks[t])
  /\ validate_continuation_graph(forget_inactive_task(tasks, t, clock))
  /\ commit(forget_inactive_task(tasks, t, clock))

\* __init__ and _load: a new process reads the file; a document that does not
\* validate raises TaskStoreCorruptionError and nothing starts.
load(doc) ==
  /\ validate_continuation_graph(doc)
  /\ \A t \in DOMAIN doc : valid_record(t, doc[t])
  /\ tasks' = doc
  /\ outcome' = "loaded"
  /\ UNCHANGED clock

\* The process dies and starts again; the file is what it last was.
restart ==
  /\ load(disk)
  /\ UNCHANGED <<disk, durable>>

\* The machine loses power: only what was synced is certain to be there.
power_loss ==
  \E doc \in durable :
    /\ load(doc)
    /\ disk' = doc
    /\ durable' = {doc}

tick ==
  /\ clock < MaxClock
  /\ clock' = clock + 1
  /\ UNCHANGED <<tasks, disk, durable, outcome>>

----------------------------------------------------------------------------
(* The store and its callers.                                               *)

\* The records discord_task_service_state.new_record builds.
new_record(owner, channel, trigger, from, now) ==
  [revision |-> 0, owner |-> owner, channel |-> channel, trigger |-> trigger,
   updated |-> now, attempt |-> 1, state |-> "starting", failure |-> None,
   cause |-> None, result |-> FALSE, from |-> from, to |-> None]

Create(t) ==
  \E owner \in Owners, channel \in Channels, trigger \in Triggers :
    create(t, new_record(owner, channel, trigger, None, clock))

CompareAndSet(t) ==
  \E candidate \in updates(tasks[t], clock) :
    /\ tasks[t].revision + 1 \in Revisions
    /\ compare_and_set(t, tasks[t].revision, candidate)

LinkChild(p, c) ==
  \E owner \in Owners, channel \in Channels, trigger \in Triggers :
    /\ tasks[p].revision + 1 \in Revisions
    /\ link_child(p, tasks[p].revision, c,
                  new_record(owner, channel, trigger, p, clock))

ReconcileStartup ==
  /\ \A t \in DOMAIN tasks : tasks[t].revision + 1 \in Revisions
  /\ reconcile_startup

Forget(t) ==
  /\ \A u \in DOMAIN tasks : tasks[u].revision \in Revisions
  /\ forget(t, tasks[t].revision)

StoreNext ==
  \/ \E t \in TaskIds : Create(t)
  \/ \E t \in DOMAIN tasks : CompareAndSet(t)
  \/ \E p \in DOMAIN tasks, c \in TaskIds : LinkChild(p, c)
  \/ ReconcileStartup
  \/ \E t \in DOMAIN tasks : Forget(t)
  \/ restart
  \/ power_loss
  \/ tick

StoreSpec == StoreInit /\ [][StoreNext]_storeVars
----------------------------------------------------------------------------
(* Properties.                                                             *)

\* Every document the store holds, has written, or may find after a power loss.
Documents == {tasks, disk} \cup durable

\* Types of the variables.
TypeOK ==
  /\ \A doc \in Documents : is_document(doc)
  /\ clock \in Nat
  /\ outcome \in Outcomes

one_active_per_channel(doc) ==
  \A t, u \in DOMAIN doc :
    is_active(doc[t]) /\ is_active(doc[u]) /\ doc[t].channel = doc[u].channel => t = u

\* An execution channel has at most one active task, in memory and in every
\* document a restart can load: the check create, compare_and_set and
\* link_child make before a commit also covers retention, forgetting, startup
\* reconciliation and documents an unsynced write leaves behind.
OneActivePerChannel == \A doc \in Documents : one_active_per_channel(doc)

\* Whatever document a restart or a power loss finds, _load accepts it: every
\* link of the continuation graph is reciprocal, stays in scope and leads
\* nowhere in circles, and every record passes its constructor's checks.
DocumentsLoad ==
  \A doc \in Documents :
    /\ validate_continuation_graph(doc)
    /\ \A t \in DOMAIN doc : valid_record(t, doc[t])

\* Memory and file never disagree, whichever way a write ends, and an
\* operation that returned without an exception survives a power loss.
AcknowledgedIsDurable ==
  /\ tasks = disk
  /\ disk \in durable
  /\ outcome = "ok" => durable = {tasks}

\* The documents compare_and_set, reconcile_startup and forget may hand to commit.
updated_documents ==
  UNION {{put(tasks, t, [r EXCEPT !.revision = tasks[t].revision + 1]) :
            r \in {u \in updates(tasks[t], clock) :
                     /\ valid_record(t, u)
                     /\ validate_update(tasks[t], u)
                     /\ execution_available(t, u)}} :
           t \in DOMAIN tasks}

reconciled_documents ==
  {doc \in {[t \in DOMAIN tasks |-> reconciled(t)]} :
     \A t \in DOMAIN tasks : valid_record(t, doc[t])}

forgotten_documents ==
  {doc \in {forget_inactive_task(tasks, t, clock) :
               t \in {u \in DOMAIN tasks : ~is_active(tasks[u])}} :
     validate_continuation_graph(doc)}

operation_documents ==
  {tasks} \cup updated_documents \cup reconciled_documents \cup forgotten_documents

\* A task that settled on its own today; retention reads its state, its links and its time.
settled_records ==
  {[new_record(owner, channel, trigger, None, clock) EXCEPT !.state = "completed"] :
     owner \in Owners, channel \in Channels, trigger \in Triggers}

\* What retention may be given: each of them as it is, or beside one more settled task, so
\* that a chain that settles and does not fit may have an older task behind it that does.
offered_documents ==
  operation_documents \cup
  UNION {{put(doc, t, r) : t \in TaskIds \ DOMAIN tasks, r \in settled_records} :
           doc \in operation_documents}

\* The definition of retention by what it keeps has exactly one solution, so
\* that it never blocks a commit, and it is what the sort and the loop of the
\* code compute, also when a chain that settles does not fit: the loop goes on
\* and keeps an older task that does.
RetentionIsTheScan ==
  \A doc \in offered_documents :
    apply_retention(doc, clock) =
      {Restrict(doc, UNION (active_components(doc) \cup scan_retained(doc, clock)))}

\* The tasks of a document that belong to no chain with an active task.
inactive_tasks(doc) == DOMAIN doc \ UNION active_components(doc)

\* No document outgrows the limit of apply_retention: in memory, in the file and
\* in every document a power loss may bring back, the chains without an active
\* task hold at most MAX_INACTIVE_TASKS tasks together, although a chain
\* settles as a whole, forgetting cuts one apart, reconciliation settles
\* everything at once, and a load applies no retention.
InactiveWithinLimit ==
  \A doc \in Documents : Cardinality(inactive_tasks(doc)) <= MAX_INACTIVE_TASKS

\* A stored record changes only together with its revision, by exactly one:
\* a caller that read a record before an await and passes its revision to
\* compare_and_set afterwards is refused if anything happened in between,
\* also when the change was a link, a neighbour's removal or reconciliation.
RevisionsAdvance ==
  [][outcome' # "loaded" =>
       \A t \in DOMAIN tasks \cap DOMAIN tasks' :
          tasks'[t] # tasks[t] => tasks'[t].revision = tasks[t].revision + 1]_storeVars

\* The first interruption cause wins: no operation of the store rewrites it,
\* and none attaches a cause to a task that is delivering or completed.
FirstCauseWins ==
  [][outcome' # "loaded" =>
       \A t \in DOMAIN tasks \cap DOMAIN tasks' :
          tasks'[t].cause # tasks[t].cause =>
             /\ tasks[t].cause = None
             /\ tasks[t].state \notin {"delivering", "completed"}]_storeVars

\* The board the abstract specification sees in a document.
board_of(doc) ==
  [t \in DOMAIN doc |-> [phase |-> doc[t].state, channel |-> doc[t].channel]]

Lifecycle == INSTANCE TaskLifecycle WITH
  Ids <- TaskIds, Places <- Channels,
  board <- board_of(tasks), past <- {board_of(doc) : doc \in durable}

\* The store implements the documented life cycle: every commit is one
\* documented move, opening or reconciliation, followed by the loss of inactive
\* records only; no retention, link or forgetting ever removes or moves an
\* active record on the side, and a crash never invents a state.
ImplementsLifecycle == Lifecycle!Spec
============================================================================

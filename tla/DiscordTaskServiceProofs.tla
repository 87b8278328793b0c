---------------------- MODULE DiscordTaskServiceProofs ----------------------
(***************************************************************************)
(* The task service, for any number of tasks, channels, interactions,      *)
(* attempts, process ends and failed writes: it keeps what is proved of    *)
(* the store, a result is sent once and the agent is not run again for it, *)
(* a Stop wins and an interaction takes effect once. Where events wait for *)
(* startup reconciliation, two runners do not share a session, no active   *)
(* task is without a runner, and the store is used as it foresees.         *)
(***************************************************************************)
EXTENDS DiscordTaskService, DiscordTaskStoreProofs, FiniteSetTheorems, SequenceTheorems

----------------------------------------------------------------------------
(* The inductive invariant.                                                *)

Runner == [at : Stages, channel : Channels \cup {None}, error : Errors \cup {None}, revision : Nat]

History ==
  [landed : [TaskIds -> Nat], handed : [TaskIds -> BOOLEAN], stopped : [TaskIds -> Nat],
   effects : [Interactions -> Nat]]

\* What a runner remembers at its await.
RunnerShape(s) ==
  /\ s \in Runner
  /\ s.at = "none" => s = Idle
  /\ s.at \in {"context", "ready", "turn"} => s.channel \in Channels
  /\ s.at = "failing" => s.error \in Errors
  /\ s.at = "enrich" => s.error \in Errors \cap {"timeout", "runtime_disconnected"}

ServiceTypeOK ==
  /\ runner \in [TaskIds -> Runner] /\ \A t \in TaskIds : RunnerShape(runner[t])
  /\ cache \subseteq TaskIds /\ enriching \subseteq TaskIds
  /\ retrying \subseteq [id : Interactions, task : TaskIds, released : BOOLEAN]
  /\ reconciliation \in {"pending", "enriching", "failed", "done"}
  /\ closed \in BOOLEAN /\ nextId \in Nat /\ crashes \in Nat
  /\ history \in History

\* Ids are drawn once: what has not been drawn is not in any document, has no runner and no
\* history.
Fresh ==
  /\ \A doc \in Documents : \A t \in DOMAIN doc : t < nextId
  /\ \A t \in TaskIds : nextId <= t =>
       /\ runner[t] = Idle /\ t \notin cache
       /\ history.landed[t] = 0 /\ ~history.handed[t] /\ history.stopped[t] = 0
  /\ \A op \in retrying : op.task < nextId

\* The states a task is in once its result was handed over, and once its Stop was accepted.
LATE == {"delivering", "completed", "delivery_failed"}
HALTED == {"stopping", "stopped", "failed", "interrupted"}

\* A record offers to send its reply again.
offers(r) == r.failure # None /\ r.failure.retry_mode = "retry_delivery"

\* A record agrees with what happened to its task: its result was handed over (h), is being
\* sent or has arrived (f), and the attempt in which it was stopped (s).
Agrees(h, f, s, r) ==
  /\ h => r.state \in LATE
  /\ f => r.state \in LATE /\ ~offers(r)
  /\ s <= r.attempt
  /\ s = r.attempt => r.state \in HALTED

sent(t) == history.landed[t] > 0 \/ runner[t].at = "send"

\* Not only the record in memory, also those that a power loss may bring back.
TaskAgrees(t) ==
  \A doc \in Documents :
    t \in DOMAIN doc => Agrees(history.handed[t], sent(t), history.stopped[t], doc[t])

Working == {"context", "ready", "turn", "prepare"}

HistoryOf(t) ==
  /\ TaskAgrees(t)
  /\ history.landed[t] <= 1
  /\ runner[t].at = "send" => history.landed[t] = 0
  /\ runner[t].at \in Working => ~history.handed[t]

HistoryInv == \A t \in TaskIds : HistoryOf(t)

\* The claims are those of different interactions, and as long as there is room for all
\* of them, an interaction that took effect is claimed.
Roomy == IsFiniteSet(Interactions) /\ Cardinality(Interactions) <= ClaimLimit

Claim == [event : Interactions, task : TaskIds]

ClaimsInv ==
  /\ interactions \in Seq(Claim)
  /\ \A j, k \in DOMAIN interactions : interactions[j].event = interactions[k].event => j = k
  /\ \A i \in Interactions : history.effects[i] <= 1
  /\ \A i \in Interactions : history.effects[i] = 1 => existing(interactions, i)

\* The states in which the record of a task is while its runner is at an await.
StatesAt(stage) ==
  CASE stage \in {"card", "begin"} -> {"starting", "stopping"}
    [] stage = "recover" -> {"recovering", "stopping"}
    [] stage \in Working -> {"running", "stopping"}
    [] stage = "send" -> {"delivering"}
    [] OTHER -> States

Attended == {"card", "begin", "recover", "send"} \cup Working

\* The state in which a runner leaves the record before it looks for the session.
ended_by(error) == IF error = "timeout" THEN "timed_out" ELSE "interrupted"

\* A runner finds the record as it left it, but for a Stop, in the channel it runs in.
RunnerFits(t) ==
  /\ runner[t].at \in Attended => t \in DOMAIN tasks /\ tasks[t].state \in StatesAt(runner[t].at)
  /\ runner[t].at \in {"context", "ready", "turn"} => runner[t].channel = tasks[t].channel
  /\ runner[t].at = "enrich" /\ t \in DOMAIN tasks =>
       /\ runner[t].revision <= tasks[t].revision
       /\ runner[t].revision = tasks[t].revision => tasks[t].state = ended_by(runner[t].error)

serving == reconciliation # "pending" /\ ~closed

\* Where events wait for startup reconciliation, which then finds no runner.
RunnersInv ==
  /\ \A t \in TaskIds : RunnerFits(t)
  /\ ~serving => (\A t \in TaskIds : runner[t] = Idle) /\ retrying = {} /\ cache = {}
  /\ \A op \in retrying : op.released => runner[op.task].at \in {"none", "recover", "send"}

\* Where also every write succeeds: a task is active as long as it has a runner that is
\* not about to end, and its reply is cached as long as its record offers to send it.
AttendedBy(t) ==
  /\ runner[t].at = "failing" =>
       t \in DOMAIN tasks /\ tasks[t].state \in {"recovering", "starting", "running", "stopping"}
  /\ runner[t].at \in {"enrich", "render"} /\ t \in DOMAIN tasks => ~is_active(tasks[t])
  /\ reconciliation \in {"enriching", "done"} /\ ~closed /\ t \in DOMAIN tasks =>
       /\ is_active(tasks[t]) => runner[t].at \notin {"none", "enrich", "render"}
       /\ t \in cache <=> offers(tasks[t])

AttendedInv == \A t \in TaskIds : AttendedBy(t)

----------------------------------------------------------------------------
(* Records.                                                                *)

\* What the properties see of a record.
SameTask(r, q) ==
  q.state = r.state /\ q.attempt = r.attempt /\ q.failure = r.failure /\ q.channel = r.channel

\* Whatever happened to a task, its next record agrees if this one does.
Succeeds(r, q) ==
  \A h, f \in BOOLEAN, s \in Nat : Agrees(h, f, s, r) => Agrees(h, f, s, q)

LEMMA SameSucceeds ==
  ASSUME NEW r, NEW q, SameTask(r, q)
  PROVE  Succeeds(r, q)
BY DEF SameTask, Succeeds, Agrees, offers

\* The candidates a caller hands to the store are records in the states they name.
LEMMA CandidateFacts ==
  ASSUME NEW r \in Record, NEW now \in Nat
  PROVE  /\ \A target \in States :
              /\ advance(r, target, now) \in Record
              /\ advance(r, target, now).state = target
         /\ attach_card(r, now) \in Record
         /\ SameTask(r, attach_card(r, now))
         /\ claim_stop(r, now) \in Record
         /\ claim_stop(r, now).state = "stopping"
         /\ complete(r, now) \in Record
         /\ complete(r, now).state = "completed"
         /\ \A b \in BOOLEAN :
              /\ delivery_failed(r, b, now) \in Record
              /\ delivery_failed(r, b, now).state = "delivery_failed"
              /\ offers(delivery_failed(r, b, now)) <=> b
         /\ \A failure \in Failure :
              /\ with_failure(r, failure, now) \in Record
              /\ with_failure(r, failure, now).state = r.state
              /\ with_failure(r, failure, now).failure = failure
<1>1. ASSUME NEW k \in Record, NEW target \in States, NEW failure \in Failure \cup {None}
      PROVE  /\ transition(k, target, failure, now) \in Record
             /\ transition(k, target, failure, now).state = target
             /\ transition(k, target, failure, now).failure
                  = failure_after_transition(k, target, failure)
  <2>1. transition(k, target, failure, now) \in Record
    BY <1>1, TransitionType
  <2> QED
    BY <2>1 DEF transition, Record
<1>2. \A target \in States : /\ advance(r, target, now) \in Record
                              /\ advance(r, target, now).state = target
  BY <1>1 DEF advance
<1>3. attach_card(r, now) \in Record /\ SameTask(r, attach_card(r, now))
  BY DEF attach_card, Record, SameTask
<1>4. claim_stop(r, now) \in Record /\ claim_stop(r, now).state = "stopping"
  <2>1. claim_interruption(r, "user_stop") \in Record
    BY ClaimType DEF Causes
  <2> QED
    BY <1>1, <2>1 DEF claim_stop, States
<1>5. complete(r, now) \in Record /\ complete(r, now).state = "completed"
  <2>1. [r EXCEPT !.result = TRUE] \in Record
    BY DEF Record
  <2> QED
    BY <1>1, <2>1 DEF complete, States
<1>6. ASSUME NEW b \in BOOLEAN
      PROVE  /\ delivery_failed(r, b, now) \in Record
             /\ delivery_failed(r, b, now).state = "delivery_failed"
             /\ offers(delivery_failed(r, b, now)) <=> b
  <2> DEFINE failure == classify_delivery_failure(b)
  <2>1. failure \in Failure
    BY FailureTypes
  <2>2. failure.retry_mode = IF b THEN "retry_delivery" ELSE "none"
    BY DEF classify_delivery_failure, failure_of
  <2> HIDE DEF failure
  <2> DEFINE q == transition(r, "delivery_failed", failure, now)
  <2>3. q \in Record /\ q.state = "delivery_failed"
        /\ q.failure = failure_after_transition(r, "delivery_failed", failure)
    BY <1>1, <2>1 DEF States
  <2>4. delivery_failed(r, b, now) = q
    BY DEF delivery_failed, failure
  <2> HIDE DEF q
  <2>5. failure # None
    BY <2>1, NoneAssumption
  <2>6. q.failure = failure
    BY <2>3, <2>5 DEF failure_after_transition
  <2> QED
    BY <2>2, <2>3, <2>4, <2>5, <2>6 DEF offers
<1>7. \A failure \in Failure :
        /\ with_failure(r, failure, now) \in Record
        /\ with_failure(r, failure, now).state = r.state
        /\ with_failure(r, failure, now).failure = failure
  BY WithFailureType DEF with_failure, Record
<1> QED
  BY <1>2, <1>3, <1>4, <1>5, <1>6, <1>7

\* record_agent_failure stores a record of a settled task, without an offer to send its reply.
LEMMA FailFacts ==
  ASSUME NEW r \in Record, NEW error \in Errors, NEW now \in Nat,
         failure_target(r, error) # None
  PROVE  /\ fail(r, error, now) \in Record
         /\ r.state \in {"recovering", "starting", "running"}
         /\ fail(r, error, now).state \in {"failed", "timed_out", "interrupted"}
         /\ fail(r, error, now).state = failure_target(r, error)
<1>1. r.state \in {"recovering", "starting", "running"}
  BY DEF failure_target
<1>2. fail(r, error, now) \in Record
  BY <1>1, FailType
<1>3. failure_target(r, error) \in {"failed", "timed_out", "interrupted"}
  BY <1>1, ErrorsAssumption DEF failure_target
<1> DEFINE k == IF failure_cause(r, error) = None
                  THEN r ELSE claim_interruption(r, failure_cause(r, error))
<1>4. k \in Record
  <2>1. failure_cause(r, error) \in Causes \cup {None}
    BY DEF failure_cause, Causes
  <2> QED
    BY <2>1, ClaimType
<1>5. fail(r, error, now) = transition(k, failure_target(r, error),
                                       classify_agent_failure(error, FALSE), now)
  BY DEF fail
<1> HIDE DEF k
<1>6. transition(k, failure_target(r, error),
                 classify_agent_failure(error, FALSE), now).state = failure_target(r, error)
  BY <1>4 DEF transition, Record
<1> QED
  BY <1>1, <1>2, <1>3, <1>5, <1>6

\* A legal update of a record that agrees with what happened agrees with it too: what was
\* handed over stays late, a stopped attempt stays halted, and only a delivery that fails
\* for certain offers to send again.
LEMMA UpdateAgrees ==
  ASSUME NEW t, NEW r \in Record, NEW candidate \in Record, NEW q,
         SameTask(candidate, q),
         valid_record(t, candidate), validate_update(r, candidate),
         NEW h \in BOOLEAN, NEW f \in BOOLEAN, NEW s \in Nat, Agrees(h, f, s, r),
         f /\ candidate.state = "delivery_failed" => ~offers(candidate)
  PROVE  Agrees(h, f, s, q)
<1>1. \/ candidate.state = r.state
      \/ candidate.state \in TRANSITIONS[r.state]
  BY DEF validate_update, can_transition
<1>2. r.state \in LATE => candidate.state \in LATE
  BY <1>1 DEF LATE, TRANSITIONS, States
<1>3. f => ~offers(candidate)
  BY DEF offers, valid_record
<1>4. candidate.attempt = attempt_after_transition(r, candidate.state)
  BY DEF validate_update
<1>5. r.attempt \in Nat
  BY DEF Record
<1>6. s <= candidate.attempt
  BY <1>4, <1>5 DEF attempt_after_transition, Agrees
<1>7. s = candidate.attempt => candidate.state \in HALTED
  <2>1. SUFFICES ASSUME s = candidate.attempt PROVE candidate.state \in HALTED
    OBVIOUS
  <2>2. s <= r.attempt /\ (s = r.attempt => r.state \in HALTED)
    BY DEF Agrees
  <2>3. candidate.attempt = r.attempt
    BY <1>4, <1>5, <2>1, <2>2 DEF attempt_after_transition
  <2>4. r.state \in HALTED
    BY <2>1, <2>2, <2>3
  <2>5. ~ (candidate.state = "recovering" /\ r.state \in {"failed", "timed_out", "interrupted"})
    BY <1>4, <1>5, <2>3 DEF attempt_after_transition
  <2> QED
    BY <1>1, <2>4, <2>5 DEF HALTED, TRANSITIONS, States
<1> QED
  BY <1>2, <1>3, <1>6, <1>7 DEF Agrees, SameTask, offers

LEMMA UpdateSucceeds ==
  ASSUME NEW t, NEW r \in Record, NEW candidate \in Record, NEW q,
         SameTask(candidate, q),
         valid_record(t, candidate), validate_update(r, candidate),
         candidate.state = "delivery_failed" /\ offers(candidate) => offers(r)
  PROVE  Succeeds(r, q)
<1> SUFFICES ASSUME NEW h \in BOOLEAN, NEW f \in BOOLEAN, NEW s \in Nat, Agrees(h, f, s, r)
             PROVE  Agrees(h, f, s, q)
  BY DEF Succeeds
<1>1. f /\ candidate.state = "delivery_failed" => ~offers(candidate)
  BY DEF Agrees
<1> QED
  BY <1>1, UpdateAgrees

----------------------------------------------------------------------------
(* What one operation of the store leaves.                                 *)

\* A commit keeps every active record of its candidate, or changes nothing; if it is
\* acknowledged, no older document is left for a power loss.
LEMMA CommitKept ==
  ASSUME NEW new, commit(new)
  PROVE  /\ outcome' \in {"ok", "failed", "unsynced"}
         /\ outcome' = "failed" => tasks' = tasks
         /\ outcome' # "failed" =>
              /\ DOMAIN tasks' \subseteq DOMAIN new
              /\ \A u \in DOMAIN tasks' : tasks'[u] = new[u]
              /\ \A u \in DOMAIN new : is_active(new[u]) => u \in DOMAIN tasks'
         /\ Documents' \subseteq Documents \cup {tasks'}
         /\ written => Documents' = {tasks'}
<1>1. PICK doc \in apply_retention(new, clock), o \in WriteOutcomes :
        /\ outcome' = o
        /\ IF o = "failed" THEN UNCHANGED <<tasks, disk, durable>>
           ELSE /\ tasks' = doc
                /\ disk' = doc
                /\ durable' = IF o = "ok" THEN {doc} ELSE durable \cup {doc}
  BY DEF commit
<1>2. /\ DOMAIN doc \subseteq DOMAIN new
      /\ \A u \in DOMAIN doc : doc[u] = new[u]
  BY RetentionPart
<1>3. \A u \in DOMAIN new : is_active(new[u]) => u \in DOMAIN doc
  BY RetentionKeepsActive
<1>4. o \in {"ok", "failed", "unsynced"}
  BY StoreAssumption
<1>5. Documents' \subseteq Documents \cup {tasks'}
  BY <1>1 DEF Documents
<1>6. written => Documents' = {tasks'}
  BY <1>1 DEF Documents, written
<1> QED
  BY <1>1, <1>2, <1>3, <1>4, <1>5, <1>6

\* An operation about task t: the records of the others stay, or are dropped by retention.
About(t) ==
  /\ IInv'
  /\ Documents' \subseteq Documents \cup {tasks'}
  /\ \A u \in DOMAIN tasks' : u # t => u \in DOMAIN tasks /\ SameTask(tasks[u], tasks'[u])

stored(t, candidate) == [candidate EXCEPT !.revision = tasks[t].revision + 1]

\* A step that leaves the store alone.
LEMMA Untouched ==
  ASSUME IInv, UNCHANGED storeVars, NEW t
  PROVE  About(t) /\ tasks' = tasks /\ Documents' = Documents
BY DEF About, storeVars, IInv, Documents, AcknowledgedIsDurable, SameTask

\* An update of one record.
LEMMA Updated ==
  ASSUME IInv, NEW t \in DOMAIN tasks, NEW candidate \in Record,
         persist_update(t, candidate)
  PROVE  /\ About(t)
         /\ DOMAIN tasks' \subseteq DOMAIN tasks
         /\ \A u \in DOMAIN tasks' : u # t => tasks'[u] = tasks[u]
         /\ t \in DOMAIN tasks' => tasks'[t] \in {tasks[t], stored(t, candidate)}
         /\ outcome' = "failed" => tasks' = tasks
         /\ outcome' # "failed" /\ t \in DOMAIN tasks' => tasks'[t] = stored(t, candidate)
         /\ outcome' # "failed" /\ is_active(candidate) => t \in DOMAIN tasks'
         /\ \A u \in DOMAIN tasks \ {t} : is_active(tasks[u]) => u \in DOMAIN tasks'
         /\ written => Documents' = {tasks'}
         /\ stored(t, candidate) \in Record
         /\ SameTask(candidate, stored(t, candidate))
         /\ stored(t, candidate).revision = tasks[t].revision + 1
         /\ outcome' \in {"ok", "failed", "unsynced"}
<1> DEFINE new == put(tasks, t, stored(t, candidate))
<1>1. IInv'
  BY CompareAndSetGood DEF persist_update
<1>2. commit(new)
  BY DEF persist_update, compare_and_set, stored
<1>3. /\ DOMAIN new = DOMAIN tasks
      /\ new[t] = stored(t, candidate)
      /\ \A u \in DOMAIN tasks \ {t} : new[u] = tasks[u]
  BY DEF put
<1>4. tasks[t].revision + 1 \in Nat
  BY TasksGood DEF Record
<1>5. /\ stored(t, candidate) \in Record
      /\ SameTask(candidate, stored(t, candidate))
      /\ stored(t, candidate).revision = tasks[t].revision + 1
  BY <1>4 DEF stored, Record, SameTask
<1> HIDE DEF new
<1>6. /\ outcome' \in {"ok", "failed", "unsynced"}
      /\ outcome' = "failed" => tasks' = tasks
      /\ outcome' # "failed" =>
           /\ DOMAIN tasks' \subseteq DOMAIN new
           /\ \A u \in DOMAIN tasks' : tasks'[u] = new[u]
           /\ \A u \in DOMAIN new : is_active(new[u]) => u \in DOMAIN tasks'
      /\ Documents' \subseteq Documents \cup {tasks'}
      /\ written => Documents' = {tasks'}
  BY <1>2, CommitKept
<1>7. is_active(candidate) => is_active(stored(t, candidate))
  BY <1>5 DEF SameTask, is_active
<1>8. \A u \in DOMAIN tasks' : u # t => u \in DOMAIN tasks /\ tasks'[u] = tasks[u]
  BY <1>3, <1>6
<1>9. About(t)
  BY <1>1, <1>6, <1>8 DEF About, SameTask
<1> QED
  BY <1>3, <1>5, <1>6, <1>7, <1>8, <1>9

\* A legal update lets the record agree with what happened to its task.
LEMMA UpdatedSucceeds ==
  ASSUME IInv, NEW t \in DOMAIN tasks, NEW candidate \in Record,
         persist_update(t, candidate),
         candidate.state = "delivery_failed" /\ offers(candidate) => offers(tasks[t])
  PROVE  t \in DOMAIN tasks' => Succeeds(tasks[t], tasks'[t])
<1>1. tasks[t] \in Record
  BY TasksGood
<1>2. valid_record(t, candidate) /\ validate_update(tasks[t], candidate)
  BY DEF persist_update, compare_and_set
<1>3. SameTask(candidate, stored(t, candidate))
  BY Updated
<1>4. Succeeds(tasks[t], stored(t, candidate))
  BY <1>1, <1>2, <1>3, UpdateSucceeds
<1>5. Succeeds(tasks[t], tasks[t])
  BY DEF Succeeds
<1>6. t \in DOMAIN tasks' => tasks'[t] \in {tasks[t], stored(t, candidate)}
  BY Updated
<1> QED
  BY <1>4, <1>5, <1>6

----------------------------------------------------------------------------
(* One step, seen from one task.                                           *)

CoreInv == IInv /\ ServiceTypeOK /\ Fresh /\ HistoryInv

SameHistory(u) ==
  /\ history'.landed[u] = history.landed[u]
  /\ history'.handed[u] = history.handed[u]
  /\ history'.stopped[u] = history.stopped[u]

\* A step keeps the task's history, does not let a runner work on a task whose result was
\* handed over, and sends no result of a stopped attempt.
HistoryStep(u) ==
  /\ HistoryOf(u)'
  /\ runner'[u].at \in Working => ~history.handed[u]
  /\ runner'[u].at = "send" /\ runner[u].at # "send" /\ u \in DOMAIN tasks =>
       history.stopped[u] # tasks[u].attempt

CoreStep == CoreInv' /\ \A u \in TaskIds : HistoryStep(u)

\* What is known of a task's history.
LEMMA HistoryFacts ==
  ASSUME CoreInv, NEW u \in TaskIds
  PROVE  /\ history.landed[u] \in Nat /\ history.handed[u] \in BOOLEAN
         /\ history.stopped[u] \in Nat
         /\ sent(u) \in BOOLEAN
         /\ HistoryOf(u)
         /\ \A doc \in Documents : u \in DOMAIN doc =>
              Agrees(history.handed[u], sent(u), history.stopped[u], doc[u])
         /\ u \in DOMAIN tasks =>
              Agrees(history.handed[u], sent(u), history.stopped[u], tasks[u])
         /\ runner[u] \in Runner /\ RunnerShape(runner[u])
         /\ u \in Nat
<1>1. history \in History /\ runner \in [TaskIds -> Runner]
  BY DEF CoreInv, ServiceTypeOK
<1>2. history.landed[u] \in Nat /\ history.handed[u] \in BOOLEAN /\ history.stopped[u] \in Nat
  BY <1>1 DEF History
<1>3. HistoryOf(u)
  BY DEF CoreInv, HistoryInv
<1>4. tasks \in Documents
  BY DEF Documents
<1>5. u \in Nat
  BY RecordAssumption
<1>6. RunnerShape(runner[u])
  BY DEF CoreInv, ServiceTypeOK
<1> QED
  BY <1>1, <1>2, <1>3, <1>4, <1>5, <1>6 DEF HistoryOf, TaskAgrees, sent

\* A step that does to a task nothing but a legal update, and at most ends its sending or
\* lets a runner work on it before its result is handed over.
LEMMA OrdinaryStep ==
  ASSUME CoreInv, NEW u \in TaskIds,
         Documents' \subseteq Documents \cup {tasks'},
         u \in DOMAIN tasks' => u \in DOMAIN tasks /\ Succeeds(tasks[u], tasks'[u]),
         SameHistory(u),
         runner'[u].at = "send" => runner[u].at = "send",
         runner'[u].at \in Working =>
           runner[u].at \in Working \/ (u \in DOMAIN tasks /\ tasks[u].state \notin LATE)
  PROVE  HistoryStep(u)
<1> DEFINE h == history.handed[u]
           f == sent(u)
           s == history.stopped[u]
<1>1. /\ history.landed[u] \in Nat /\ h \in BOOLEAN /\ s \in Nat /\ f \in BOOLEAN
      /\ HistoryOf(u)
      /\ \A doc \in Documents : u \in DOMAIN doc => Agrees(h, f, s, doc[u])
      /\ u \in DOMAIN tasks => Agrees(h, f, s, tasks[u])
  BY HistoryFacts
<1>2. sent(u)' => f
  BY DEF sent, SameHistory
<1>3. u \in DOMAIN tasks' => Agrees(h, f, s, tasks'[u])
  BY <1>1 DEF Succeeds
<1>4. \A doc \in Documents' : u \in DOMAIN doc => Agrees(h, f, s, doc[u])
  BY <1>1, <1>3
<1> HIDE DEF f
<1>5. \A doc \in Documents' : u \in DOMAIN doc => Agrees(h, sent(u)', s, doc[u])
  BY <1>2, <1>4 DEF Agrees
<1>6. TaskAgrees(u)'
  BY <1>5 DEF TaskAgrees, SameHistory
<1>7. runner'[u].at \in Working => ~h
  <2>1. u \in DOMAIN tasks /\ tasks[u].state \notin LATE => ~h
    BY <1>1 DEF Agrees
  <2>2. runner[u].at \in Working => ~h
    BY <1>1 DEF HistoryOf
  <2> QED
    BY <2>1, <2>2
<1>8. HistoryOf(u)'
  BY <1>1, <1>6, <1>7 DEF HistoryOf, SameHistory
<1> QED
  BY <1>7, <1>8 DEF HistoryStep

\* A step about one task.
LEMMA AboutStep ==
  ASSUME CoreInv, NEW t \in TaskIds, About(t), HistoryStep(t),
         \A u \in TaskIds : u # t => runner'[u] = runner[u] /\ SameHistory(u),
         ServiceTypeOK', nextId <= nextId', t < nextId',
         cache' \subseteq cache \cup {t},
         \A op \in retrying' : op.task < nextId'
  PROVE  CoreStep
<1>1. ASSUME NEW u \in TaskIds
      PROVE  HistoryStep(u)
  <2>1. CASE u = t
    BY <2>1
  <2>2. CASE u # t
    <3>1. Documents' \subseteq Documents \cup {tasks'}
      BY DEF About
    <3>2. u \in DOMAIN tasks' => u \in DOMAIN tasks /\ SameTask(tasks[u], tasks'[u])
      BY <2>2 DEF About
    <3>3. u \in DOMAIN tasks' => u \in DOMAIN tasks /\ Succeeds(tasks[u], tasks'[u])
      BY <3>2, SameSucceeds
    <3> QED
      BY <2>2, <3>1, <3>3, OrdinaryStep
  <2> QED
    BY <2>1, <2>2
<1>2. IInv'
  BY DEF About
<1>3. HistoryInv'
  BY <1>1 DEF HistoryInv, HistoryStep
<1>4. nextId \in Nat /\ nextId' \in Nat /\ TaskIds \subseteq Nat
  BY RecordAssumption DEF CoreInv, ServiceTypeOK
<1>5. \A doc \in Documents' : \A u \in DOMAIN doc : u < nextId'
  <2>1. \A doc \in Documents : \A u \in DOMAIN doc : u \in TaskIds /\ u < nextId
    BY DEF CoreInv, Fresh, IInv, GoodDocument, is_document
  <2>2. tasks \in Documents
    BY DEF Documents
  <2>3. \A u \in DOMAIN tasks' : u = t \/ u \in DOMAIN tasks
    BY DEF About
  <2>4. \A u \in TaskIds : u < nextId => u < nextId'
    BY <1>4
  <2> QED
    BY <2>1, <2>2, <2>3, <2>4 DEF About
<1>6. ASSUME NEW u \in TaskIds, nextId' <= u
      PROVE  /\ runner'[u] = Idle /\ u \notin cache'
             /\ history'.landed[u] = 0 /\ ~history'.handed[u] /\ history'.stopped[u] = 0
  <2>1. u # t /\ nextId <= u
    BY <1>4, <1>6
  <2> QED
    BY <2>1 DEF CoreInv, Fresh, SameHistory
<1>7. Fresh'
  BY <1>5, <1>6 DEF Fresh, Idle, at
<1> QED
  BY <1>1, <1>2, <1>3, <1>7 DEF CoreStep, CoreInv

----------------------------------------------------------------------------
(* Steps of a runner.                                                      *)

LEMMA ShapeFacts ==
  /\ \A stage \in {"none", "card", "begin", "recover", "prepare", "send", "render"} :
       RunnerShape(at(stage)) /\ at(stage).at = stage
  /\ \A stage \in {"context", "ready", "turn"}, c \in Channels :
       RunnerShape(inside(stage, c)) /\ inside(stage, c).at = stage
         /\ inside(stage, c).channel = c
  /\ \A error \in Errors : RunnerShape(failing(error)) /\ failing(error).at = "failing"
  /\ Idle = at("none") /\ Idle.at = "none" /\ RunnerShape(Idle)
  /\ RunnerShape(failing("other")) /\ failing("other").at = "failing"
<1>1. \A error \in Errors : RunnerShape(failing(error)) /\ failing(error).at = "failing"
  BY DEF RunnerShape, Runner, failing, at, Stages
<1>2. \A stage \in {"context", "ready", "turn"}, c \in Channels :
        RunnerShape(inside(stage, c)) /\ inside(stage, c).at = stage
          /\ inside(stage, c).channel = c
  BY DEF RunnerShape, Runner, inside, at, Stages
<1>3. \A stage \in {"none", "card", "begin", "recover", "prepare", "send", "render"} :
        RunnerShape(at(stage)) /\ at(stage).at = stage
  BY DEF RunnerShape, Runner, Idle, at, Stages
<1> QED
  BY <1>1, <1>2, <1>3, ServiceAssumption DEF Idle

\* A runner that is at an await has a task whose id was drawn.
LEMMA RunnerDrawn ==
  ASSUME CoreInv, NEW t \in TaskIds, runner[t].at # "none"
  PROVE  t < nextId
<1>1. nextId \in Nat /\ t \in Nat
  BY RecordAssumption DEF CoreInv, ServiceTypeOK
<1>2. runner[t] # Idle
  BY ShapeFacts
<1>3. ~ (nextId <= t)
  BY <1>2 DEF CoreInv, Fresh
<1> QED
  BY <1>1, <1>3

\* What move leaves.
LEMMA MoveFacts ==
  ASSUME CoreInv, NEW t \in TaskIds, NEW next, RunnerShape(next), move(t, next)
  PROVE  /\ runner' \in [TaskIds -> Runner] /\ \A u \in TaskIds : RunnerShape(runner'[u])
         /\ runner'[t] = next
         /\ \A u \in TaskIds : u # t => runner'[u] = runner[u]
         /\ retrying' \subseteq [id : Interactions, task : TaskIds, released : BOOLEAN]
         /\ \A op \in retrying' : op.task < nextId
<1>1. /\ runner \in [TaskIds -> Runner] /\ \A u \in TaskIds : RunnerShape(runner[u])
      /\ retrying \subseteq [id : Interactions, task : TaskIds, released : BOOLEAN]
      /\ \A op \in retrying : op.task < nextId
  BY DEF CoreInv, ServiceTypeOK, Fresh
<1>2. next \in Runner
  BY DEF RunnerShape
<1>3. runner' = [runner EXCEPT ![t] = next]
  BY DEF move
<1>4. /\ runner' \in [TaskIds -> Runner]
      /\ runner'[t] = next
      /\ \A u \in TaskIds : u # t => runner'[u] = runner[u]
  BY <1>1, <1>2, <1>3
<1>5. \A u \in TaskIds : RunnerShape(runner'[u])
  <2> SUFFICES ASSUME NEW u \in TaskIds PROVE RunnerShape(runner'[u])
    OBVIOUS
  <2>1. CASE u = t
    BY <1>4, <2>1
  <2>2. CASE u # t
    BY <1>1, <1>4, <2>2
  <2> QED
    BY <2>1, <2>2
<1>6. ASSUME NEW op \in retrying'
      PROVE  op \in [id : Interactions, task : TaskIds, released : BOOLEAN] /\ op.task < nextId
  <2>1. PICK old \in retrying :
          op = IF old.task = t /\ next = Idle THEN [old EXCEPT !.released = TRUE] ELSE old
    BY <1>6 DEF move
  <2>2. old \in [id : Interactions, task : TaskIds, released : BOOLEAN] /\ old.task < nextId
    BY <1>1
  <2>3. [old EXCEPT !.released = TRUE] \in [id : Interactions, task : TaskIds, released : BOOLEAN]
        /\ [old EXCEPT !.released = TRUE].task = old.task
    BY <2>2
  <2> QED
    BY <2>1, <2>2, <2>3
<1> QED
  BY <1>4, <1>5, <1>6

\* A step of a runner.
LEMMA RunnerStepKept ==
  ASSUME CoreInv, NEW t \in TaskIds, runner[t].at # "none",
         About(t), HistoryStep(t),
         NEW next, RunnerShape(next), move(t, next), quiet,
         cache' \in {cache, cache \cup {t}},
         history' \in History, \A u \in TaskIds : u # t => SameHistory(u)
  PROVE  CoreStep
<1>1. /\ runner' \in [TaskIds -> Runner] /\ \A u \in TaskIds : RunnerShape(runner'[u])
      /\ \A u \in TaskIds : u # t => runner'[u] = runner[u]
      /\ retrying' \subseteq [id : Interactions, task : TaskIds, released : BOOLEAN]
      /\ \A op \in retrying' : op.task < nextId
  BY MoveFacts
<1>2. nextId' = nextId /\ UNCHANGED <<reconciliation, enriching, closed, crashes>>
  BY DEF quiet
<1>3. ServiceTypeOK'
  BY <1>1, <1>2 DEF CoreInv, ServiceTypeOK
<1>4. t < nextId' /\ nextId <= nextId'
  BY <1>2, RunnerDrawn DEF CoreInv, ServiceTypeOK
<1> QED
  BY <1>1, <1>2, <1>3, <1>4, AboutStep

\* A step of a runner that neither hands a result over nor sends one.
LEMMA RunnerMoves ==
  ASSUME CoreInv, NEW t \in TaskIds, runner[t].at # "none",
         About(t), t \in DOMAIN tasks' => t \in DOMAIN tasks /\ Succeeds(tasks[t], tasks'[t]),
         NEW next, RunnerShape(next), move(t, next), quiet, UNCHANGED <<cache, history>>,
         next.at # "send",
         next.at \in Working =>
           runner[t].at \in Working \/ (t \in DOMAIN tasks /\ tasks[t].state \notin LATE)
  PROVE  CoreStep
<1>1. history' \in History /\ \A u \in TaskIds : SameHistory(u)
  BY DEF CoreInv, ServiceTypeOK, SameHistory
<1>2. runner'[t] = next
  BY MoveFacts
<1>3. Documents' \subseteq Documents \cup {tasks'}
  BY DEF About
<1>4. HistoryStep(t)
  BY <1>1, <1>2, <1>3, OrdinaryStep
<1> QED
  BY <1>1, <1>4, RunnerStepKept

\* The runner waits for something else; the store is left alone.
LEMMA RunnerWaits ==
  ASSUME CoreInv, NEW t \in TaskIds, runner[t].at # "none", UNCHANGED storeVars,
         NEW next, RunnerShape(next), move(t, next), quiet, UNCHANGED <<cache, history>>,
         next.at # "send",
         next.at \in Working => runner[t].at \in Working
  PROVE  CoreStep
<1>1. About(t) /\ tasks' = tasks
  BY Untouched DEF CoreInv
<1>2. t \in DOMAIN tasks' => t \in DOMAIN tasks /\ Succeeds(tasks[t], tasks'[t])
  BY <1>1 DEF Succeeds
<1> QED
  BY <1>1, <1>2, RunnerMoves

\* The runner stores its record and goes on.
LEMMA RunnerWrites ==
  ASSUME CoreInv, NEW t \in TaskIds, runner[t].at # "none", t \in DOMAIN tasks,
         NEW candidate \in Record, persist_update(t, candidate),
         candidate.state = "delivery_failed" /\ offers(candidate) => offers(tasks[t]),
         NEW next, RunnerShape(next), NEW otherwise, RunnerShape(otherwise),
         proceed(t, next, otherwise), quiet, UNCHANGED <<cache, history>>,
         next.at # "send", otherwise.at # "send", otherwise.at \notin Working,
         next.at \in Working => runner[t].at \in Working \/ tasks[t].state \notin LATE
  PROVE  CoreStep
<1>1. About(t) /\ DOMAIN tasks' \subseteq DOMAIN tasks
  BY Updated DEF CoreInv
<1>2. t \in DOMAIN tasks' => Succeeds(tasks[t], tasks'[t])
  BY UpdatedSucceeds DEF CoreInv
<1>3. CASE written
  <2>1. move(t, next)
    BY <1>3 DEF proceed
  <2> QED
    BY <1>1, <1>2, <2>1, RunnerMoves
<1>4. CASE ~written
  <2>1. move(t, otherwise)
    BY <1>4 DEF proceed
  <2> QED
    BY <1>1, <1>2, <2>1, RunnerMoves
<1> QED
  BY <1>3, <1>4

LEMMA FinishStopping ==
  ASSUME CoreInv, NEW t \in TaskIds, runner[t].at # "none", t \in DOMAIN tasks,
         NEW otherwise, RunnerShape(otherwise), finish_stopping(t, otherwise),
         otherwise.at # "send", otherwise.at \notin Working,
         quiet, UNCHANGED <<cache, history>>
  PROVE  CoreStep
<1>1. tasks[t] \in Record /\ clock \in Nat
  BY TasksGood DEF CoreInv, IInv
<1>2. PICK candidate : candidate = advance(tasks[t], "stopped", clock)
  OBVIOUS
<1>3. candidate \in Record /\ candidate.state = "stopped"
  BY ZenonT(60), <1>1, <1>2, CandidateFacts DEF States
<1>4. persist_update(t, candidate) /\ proceed(t, at("render"), otherwise)
  BY <1>2 DEF finish_stopping
<1>5. RunnerShape(at("render")) /\ at("render").at = "render"
  BY ShapeFacts
<1> QED
  BY <1>3, <1>4, <1>5, RunnerWrites DEF Working

LEMMA CardDoneKept ==
  ASSUME CoreInv, NEW t \in TaskIds, CardDone(t)
  PROVE  CoreStep
<1>1. /\ runner[t].at = "card" /\ t \in DOMAIN tasks
      /\ quiet /\ UNCHANGED <<cache, history>>
  BY DEF CardDone, turn_of_runner, known
<1>2. tasks[t] \in Record /\ clock \in Nat
  BY <1>1, TasksGood DEF CoreInv, IInv
<1>3. /\ RunnerShape(at("begin")) /\ at("begin").at = "begin"
      /\ RunnerShape(failing("other")) /\ failing("other").at = "failing"
  BY ShapeFacts
<1>4. CASE UNCHANGED storeVars /\ move(t, at("begin"))
  BY <1>1, <1>3, <1>4, RunnerWaits DEF Working
<1>5. CASE /\ persist_update(t, attach_card(tasks[t], clock))
           /\ proceed(t, at("begin"), failing("other"))
  <2>1. PICK candidate : candidate = attach_card(tasks[t], clock)
    OBVIOUS
  <2>2. candidate \in Record /\ SameTask(tasks[t], candidate)
    BY <1>2, <2>1, CandidateFacts
  <2>3. offers(candidate) => offers(tasks[t])
    BY <2>2 DEF offers, SameTask
  <2>4. persist_update(t, candidate)
    BY <1>5, <2>1
  <2> QED
    BY <1>1, <1>3, <1>5, <2>2, <2>3, <2>4, RunnerWrites DEF Working
<1> QED
  BY <1>4, <1>5 DEF CardDone

LEMMA RecoveredKept ==
  ASSUME CoreInv, NEW t \in TaskIds, Recovered(t)
  PROVE  CoreStep
<1>1. /\ runner[t].at = "recover" /\ t \in DOMAIN tasks
      /\ quiet /\ UNCHANGED <<cache, history>>
  BY DEF Recovered, turn_of_runner, known
<1>2. tasks[t] \in Record /\ clock \in Nat
  BY <1>1, TasksGood DEF CoreInv, IInv
<1>3. /\ RunnerShape(at("begin")) /\ at("begin").at = "begin"
      /\ RunnerShape(failing("other")) /\ failing("other").at = "failing"
      /\ RunnerShape(Idle) /\ Idle.at = "none"
  BY ShapeFacts
<1>4. CASE finish_stopping(t, failing("other"))
  BY <1>1, <1>3, <1>4, FinishStopping DEF Working
<1>5. CASE /\ persist_update(t, advance(tasks[t], "starting", clock))
           /\ proceed(t, at("begin"), failing("other"))
  <2>1. PICK candidate : candidate = advance(tasks[t], "starting", clock)
    OBVIOUS
  <2>2. candidate \in Record /\ candidate.state = "starting"
    BY ZenonT(60), <1>2, <2>1, CandidateFacts DEF States
  <2>3. persist_update(t, candidate)
    BY <1>5, <2>1
  <2> QED
    BY <1>1, <1>3, <1>5, <2>2, <2>3, RunnerWrites DEF Working
<1>6. CASE UNCHANGED storeVars /\ move(t, Idle)
  BY <1>1, <1>3, <1>6, RunnerWaits DEF Working
<1> QED
  BY <1>4, <1>5, <1>6 DEF Recovered

LEMMA BeginKept ==
  ASSUME CoreInv, NEW t \in TaskIds, Begin(t)
  PROVE  CoreStep
<1>1. /\ runner[t].at = "begin" /\ t \in DOMAIN tasks
      /\ quiet /\ UNCHANGED <<cache, history>>
  BY DEF Begin, turn_of_runner, known
<1>2. tasks[t] \in Record /\ clock \in Nat
  BY <1>1, TasksGood DEF CoreInv, IInv
<1>3. PICK c \in Channels : c = tasks[t].channel
  BY <1>2 DEF Record
<1>4. /\ RunnerShape(inside("context", c)) /\ inside("context", c).at = "context"
      /\ RunnerShape(failing("other")) /\ failing("other").at = "failing"
      /\ RunnerShape(Idle) /\ Idle.at = "none"
  BY ShapeFacts
<1>5. CASE finish_stopping(t, failing("other"))
  BY <1>1, <1>4, <1>5, FinishStopping DEF Working
<1>6. CASE /\ tasks[t].state = "starting"
           /\ persist_update(t, advance(tasks[t], "running", clock))
           /\ proceed(t, inside("context", tasks[t].channel), failing("other"))
  <2>1. PICK candidate : candidate = advance(tasks[t], "running", clock)
    OBVIOUS
  <2>2. candidate \in Record /\ candidate.state = "running"
    BY <1>2, <2>1, CandidateFacts DEF States
  <2>3. persist_update(t, candidate) /\ proceed(t, inside("context", c), failing("other"))
    BY <1>3, <1>6, <2>1
  <2>4. tasks[t].state \notin LATE
    BY <1>6 DEF LATE
  <2> QED
    BY <1>1, <1>4, <2>2, <2>3, <2>4, RunnerWrites DEF Working
<1>7. CASE UNCHANGED storeVars /\ move(t, Idle)
  BY <1>1, <1>4, <1>7, RunnerWaits DEF Working
<1> QED
  BY <1>5, <1>6, <1>7 DEF Begin

LEMMA TurnReservedKept ==
  ASSUME CoreInv, NEW t \in TaskIds, TurnReserved(t)
  PROVE  CoreStep
<1>1. /\ runner[t].at = "context"
      /\ quiet /\ UNCHANGED storeVars /\ UNCHANGED <<cache, history>>
  BY DEF TurnReserved, turn_of_runner
<1>2. PICK next : next = IF reserved(runner[t].channel)
                           THEN failing("other") ELSE inside("ready", runner[t].channel)
  OBVIOUS
<1>3. move(t, next)
  BY <1>2 DEF TurnReserved
<1>4. runner[t].channel \in Channels
  BY <1>1, HistoryFacts DEF RunnerShape
<1>5. RunnerShape(next) /\ next.at \in {"failing", "ready"}
  BY <1>2, <1>4, ShapeFacts
<1> QED
  BY <1>1, <1>3, <1>5, RunnerWaits DEF Working

LEMMA TurnStartsKept ==
  ASSUME CoreInv, NEW t \in TaskIds, TurnStarts(t)
  PROVE  CoreStep
<1>1. /\ runner[t].at = "ready"
      /\ quiet /\ UNCHANGED storeVars /\ UNCHANGED <<cache, history>>
  BY DEF TurnStarts, turn_of_runner
<1>2. PICK c \in Channels : c = runner[t].channel
  BY <1>1, HistoryFacts DEF RunnerShape
<1>3. move(t, inside("turn", c))
  BY <1>2 DEF TurnStarts
<1>4. RunnerShape(inside("turn", c)) /\ inside("turn", c).at = "turn"
  BY ShapeFacts
<1> QED
  BY <1>1, <1>3, <1>4, RunnerWaits DEF Working

\* Where the runner ends or an exception is on its way, without a write.
LEMMA RunnerGivesUp ==
  ASSUME CoreInv, NEW t \in TaskIds,
         \/ \E error \in Errors : RunFails(t, error)
         \/ PrepareFails(t) \/ RunnerDone(t) \/ RunnerLosesTask(t)
  PROVE  CoreStep
<1>1. /\ runner[t].at # "none"
      /\ quiet /\ UNCHANGED storeVars /\ UNCHANGED <<cache, history>>
  BY DEF RunFails, PrepareFails, RunnerDone, RunnerLosesTask, turn_of_runner
<1>2. PICK next : move(t, next) /\ RunnerShape(next) /\ next.at \in {"none", "failing"}
  BY ShapeFacts DEF RunFails, PrepareFails, RunnerDone, RunnerLosesTask
<1> QED
  BY <1>1, <1>2, RunnerWaits DEF Working

LEMMA TurnRepliesKept ==
  ASSUME CoreInv, NEW t \in TaskIds, TurnReplies(t)
  PROVE  CoreStep
<1>1. /\ runner[t].at = "turn" /\ t \in DOMAIN tasks
      /\ quiet /\ UNCHANGED <<cache, history>>
  BY DEF TurnReplies, turn_of_runner, known
<1>2. /\ RunnerShape(at("prepare")) /\ at("prepare").at = "prepare"
      /\ RunnerShape(failing("other")) /\ failing("other").at = "failing"
      /\ RunnerShape(Idle) /\ Idle.at = "none"
  BY ShapeFacts
<1>3. CASE finish_stopping(t, failing("other"))
  BY <1>1, <1>2, <1>3, FinishStopping DEF Working
<1>4. CASE UNCHANGED storeVars /\ move(t, at("prepare"))
  BY <1>1, <1>2, <1>4, RunnerWaits DEF Working
<1>5. CASE UNCHANGED storeVars /\ move(t, Idle)
  BY <1>1, <1>2, <1>5, RunnerWaits DEF Working
<1> QED
  BY <1>3, <1>4, <1>5 DEF TurnReplies

\* The failure a runner recorded is stored with what is known of its cause.
LEMMA RecordFailureKept ==
  ASSUME CoreInv, NEW t \in TaskIds, RecordFailure(t)
  PROVE  CoreStep
<1>1. /\ runner[t].at = "failing" /\ t \in DOMAIN tasks
      /\ quiet /\ UNCHANGED <<cache, history>>
  BY DEF RecordFailure, turn_of_runner, known
<1>2. tasks[t] \in Record /\ clock \in Nat
  BY <1>1, TasksGood DEF CoreInv, IInv
<1>3. PICK error \in Errors : error = runner[t].error
  BY <1>1, HistoryFacts DEF RunnerShape
<1>4. /\ RunnerShape(at("render")) /\ at("render").at = "render"
      /\ RunnerShape(Idle) /\ Idle.at = "none"
  BY ShapeFacts
<1>5. CASE finish_stopping(t, Idle)
  BY <1>1, <1>4, <1>5, FinishStopping DEF Working
<1>6. CASE UNCHANGED storeVars /\ move(t, Idle)
  BY <1>1, <1>4, <1>6, RunnerWaits DEF Working
<1>7. CASE /\ failure_target(tasks[t], runner[t].error) # None
           /\ persist_update(t, fail(tasks[t], runner[t].error, clock))
           /\ proceed(t, IF failure_cause(tasks[t], runner[t].error) # None
                           THEN [at("enrich") EXCEPT !.error = runner[t].error,
                                                     !.revision = tasks[t].revision + 1]
                           ELSE at("render"), Idle)
  <2>1. PICK candidate : candidate = fail(tasks[t], error, clock)
    OBVIOUS
  <2>2. /\ candidate \in Record
        /\ candidate.state \in {"failed", "timed_out", "interrupted"}
    BY <1>2, <1>3, <1>7, <2>1, FailFacts
  <2>3. PICK n \in Nat : n = tasks[t].revision + 1
    BY <1>2 DEF Record
  <2>4. PICK enrich : enrich = [at("enrich") EXCEPT !.error = error, !.revision = n]
    OBVIOUS
  <2>5. PICK next : next = IF failure_cause(tasks[t], error) # None
                             THEN enrich ELSE at("render")
    OBVIOUS
  <2>6. persist_update(t, candidate) /\ proceed(t, next, Idle)
    BY <1>3, <1>7, <2>1, <2>3, <2>4, <2>5
  <2>7. failure_cause(tasks[t], error) # None =>
          error \in Errors \cap {"timeout", "runtime_disconnected"}
    BY DEF failure_cause
  <2>8. enrich = [at |-> "enrich", channel |-> None, error |-> error, revision |-> n]
    BY <2>4 DEF at
  <2>9. failure_cause(tasks[t], error) # None => RunnerShape(enrich)
    BY <2>7, <2>8 DEF RunnerShape, Runner, Stages
  <2>10. RunnerShape(next) /\ next.at \in {"enrich", "render"}
    BY <1>4, <2>5, <2>8, <2>9
  <2> QED
    BY <1>1, <1>4, <2>2, <2>6, <2>10, RunnerWrites DEF Working
<1> QED
  BY <1>5, <1>6, <1>7 DEF RecordFailure

LEMMA EnrichKept ==
  ASSUME CoreInv, NEW t \in TaskIds, Enrich(t)
  PROVE  CoreStep
<1>1. /\ runner[t].at = "enrich" /\ t \in DOMAIN tasks
      /\ quiet /\ UNCHANGED <<cache, history>>
  BY DEF Enrich, turn_of_runner, known
<1>2. tasks[t] \in Record /\ clock \in Nat
  BY <1>1, TasksGood DEF CoreInv, IInv
<1>3. PICK error \in {"timeout", "runtime_disconnected"} : error = runner[t].error
  BY <1>1, HistoryFacts DEF RunnerShape
<1>4. /\ RunnerShape(at("render")) /\ at("render").at = "render"
      /\ RunnerShape(Idle) /\ Idle.at = "none"
  BY ShapeFacts
<1>5. CASE UNCHANGED storeVars /\ move(t, at("render"))
  BY <1>1, <1>4, <1>5, RunnerWaits DEF Working
<1>6. CASE /\ \E persisted \in BOOLEAN :
                persist_update(t, with_failure(tasks[t],
                  classify_agent_failure(runner[t].error,
                    persisted /\ ~active_turn(tasks[t].channel)), clock))
           /\ proceed(t, at("render"), Idle)
  <2>1. PICK persisted \in BOOLEAN :
          persist_update(t, with_failure(tasks[t],
            classify_agent_failure(error, persisted /\ ~active_turn(tasks[t].channel)), clock))
    BY <1>3, <1>6
  <2>2. PICK failure : failure = classify_agent_failure(error,
                                   persisted /\ ~active_turn(tasks[t].channel))
    OBVIOUS
  <2>3. failure \in Failure /\ failure.retry_mode # "retry_delivery"
    BY <2>2 DEF classify_agent_failure, failure_of, Failure, Categories, RetryModes
  <2>4. PICK candidate : candidate = with_failure(tasks[t], failure, clock)
    OBVIOUS
  <2>5. candidate \in Record /\ ~offers(candidate)
    BY <1>2, <2>3, <2>4, CandidateFacts DEF offers
  <2>6. persist_update(t, candidate)
    BY <2>1, <2>2, <2>4
  <2> QED
    BY <1>1, <1>4, <1>6, <2>5, <2>6, RunnerWrites DEF Working
<1> QED
  BY <1>5, <1>6 DEF Enrich

----------------------------------------------------------------------------
(* The steps that hand a result over, and that send it.                    *)

\* A delivery starts, of a result that was not sent before and whose attempt was not stopped.
LEMMA DeliveryStarts ==
  ASSUME CoreInv, NEW t \in TaskIds, t \in DOMAIN tasks,
         NEW candidate \in Record, persist_update(t, candidate), written,
         candidate.state = "delivering",
         tasks[t].state = "running" \/ offers(tasks[t]),
         history'.landed[t] = history.landed[t], history'.stopped[t] = history.stopped[t],
         runner'[t].at \in Working => ~history.handed[t] /\ ~history'.handed[t]
  PROVE  /\ ~sent(t) /\ history.stopped[t] # tasks[t].attempt
         /\ HistoryStep(t)
<1> DEFINE h == history.handed[t]
           f == sent(t)
           s == history.stopped[t]
<1>1. /\ history.landed[t] \in Nat /\ s \in Nat
      /\ Agrees(h, f, s, tasks[t])
  BY HistoryFacts
<1>2. tasks[t] \in Record /\ valid_record(t, tasks[t])
  BY TasksGood DEF CoreInv
<1>3. valid_record(t, candidate) /\ validate_update(tasks[t], candidate)
  BY DEF persist_update, compare_and_set
<1>4. offers(tasks[t]) => tasks[t].state = "delivery_failed"
  BY <1>2 DEF offers, valid_record
<1>5. ~f
  BY <1>1 DEF Agrees, LATE
<1>6. s # tasks[t].attempt
  BY <1>1, <1>4 DEF Agrees, HALTED
<1>7. tasks[t].attempt \in Nat /\ s <= tasks[t].attempt
  BY <1>1, <1>2 DEF Record, Agrees
<1>8. candidate.attempt \in {tasks[t].attempt, tasks[t].attempt + 1}
  BY <1>3 DEF validate_update, attempt_after_transition
<1>9. s <= candidate.attempt /\ s # candidate.attempt
  BY <1>1, <1>6, <1>7, <1>8
<1>10. ~offers(candidate)
  BY <1>3 DEF offers, valid_record
<1> HIDE DEF h, f, s
<1>11. \A x, y \in BOOLEAN : Agrees(x, y, s, candidate)
  BY <1>9, <1>10 DEF Agrees, LATE
<1>12. /\ Documents' = {tasks'}
       /\ SameTask(candidate, stored(t, candidate))
       /\ t \in DOMAIN tasks' => tasks'[t] = stored(t, candidate)
  BY Updated DEF CoreInv, written
<1>13. t \in DOMAIN tasks' => \A x, y \in BOOLEAN : Agrees(x, y, s, tasks'[t])
  BY <1>11, <1>12 DEF SameTask, Agrees, offers
<1>14. \A doc \in Documents' : t \in DOMAIN doc => \A x, y \in BOOLEAN : Agrees(x, y, s, doc[t])
  BY <1>12, <1>13
<1>15. ASSUME NEW doc \in Documents', t \in DOMAIN doc
       PROVE  Agrees(history'.handed[t], sent(t)', s, doc[t])
  BY <1>14, <1>15 DEF Agrees
<1>16. TaskAgrees(t)'
  BY <1>15 DEF TaskAgrees, s
<1>17. history.landed[t] = 0
  BY <1>1, <1>5 DEF f, sent
<1>18. HistoryOf(t)'
  BY <1>16, <1>17 DEF HistoryOf
<1> QED
  BY <1>5, <1>6, <1>18 DEF f, s, HistoryStep

LEMMA PreparedKept ==
  ASSUME CoreInv, NEW t \in TaskIds, Prepared(t)
  PROVE  CoreStep
<1>1. /\ runner[t].at = "prepare" /\ t \in DOMAIN tasks
      /\ quiet /\ UNCHANGED cache
  BY DEF Prepared, turn_of_runner, known
<1>2. tasks[t] \in Record /\ clock \in Nat
  BY <1>1, TasksGood DEF CoreInv, IInv
<1>3. /\ RunnerShape(at("send")) /\ at("send").at = "send"
      /\ RunnerShape(failing("other")) /\ failing("other").at = "failing"
  BY ShapeFacts
<1>4. CASE finish_stopping(t, failing("other")) /\ UNCHANGED history
  BY <1>1, <1>3, <1>4, FinishStopping DEF Working
<1>5. CASE move(t, failing("other")) /\ UNCHANGED <<storeVars, history>>
  BY <1>1, <1>3, <1>5, RunnerWaits DEF Working
<1>6. CASE /\ tasks[t].state = "running"
           /\ persist_update(t, advance(tasks[t], "delivering", clock))
           /\ proceed(t, at("send"), failing("other"))
           /\ history' = [history EXCEPT !.handed[t] = @ \/ written]
  <2>1. PICK candidate : candidate = advance(tasks[t], "delivering", clock)
    OBVIOUS
  <2>2. candidate \in Record /\ candidate.state = "delivering"
    BY ZenonT(60), <1>2, <2>1, CandidateFacts DEF States
  <2>3. persist_update(t, candidate)
    BY <1>6, <2>1
  <2>4. history \in History
    BY DEF CoreInv, ServiceTypeOK
  <2>5. CASE written
    <3>1. history' = [history EXCEPT !.handed[t] = TRUE]
      BY <1>6, <2>4, <2>5 DEF History
    <3>2. /\ history' \in History
          /\ history'.landed = history.landed /\ history'.stopped = history.stopped
          /\ \A u \in TaskIds : u # t => SameHistory(u)
      BY <2>4, <3>1 DEF History, SameHistory
    <3>3. move(t, at("send"))
      BY <1>6, <2>5 DEF proceed
    <3>4. runner'[t].at = "send"
      BY <1>3, <3>3, MoveFacts
    <3>5. HistoryStep(t)
      BY <1>1, <1>6, <2>2, <2>3, <2>5, <3>2, <3>4, DeliveryStarts DEF Working
    <3>6. About(t)
      BY <1>1, <2>2, <2>3, Updated DEF CoreInv
    <3> QED
      BY <1>1, <1>3, <3>2, <3>3, <3>5, <3>6, RunnerStepKept
  <2>6. CASE ~written
    <3>1. history' = history
      BY <1>6, <2>4, <2>6 DEF History
    <3> QED
      BY <1>1, <1>3, <1>6, <2>2, <2>3, <2>6, <3>1, RunnerMoves, Updated, UpdatedSucceeds
         DEF proceed, CoreInv, Working
  <2> QED
    BY <2>5, <2>6
<1> QED
  BY <1>4, <1>5, <1>6 DEF Prepared

\* A sending ends: what it leaves of the history of its task, and of the others.
LEMMA LandingFacts ==
  ASSUME CoreInv, NEW t \in TaskIds, history' \in {history, landing(t)}
  PROVE  /\ history' \in History
         /\ history'.handed = history.handed /\ history'.stopped = history.stopped
         /\ history'.effects = history.effects
         /\ history' = history \/ history'.landed[t] = history.landed[t] + 1
         /\ \A u \in TaskIds : u # t => SameHistory(u)
<1>1. history \in History
  BY DEF CoreInv, ServiceTypeOK
<1>2. CASE history' = history
  BY <1>1, <1>2 DEF SameHistory
<1>3. CASE history' = landing(t)
  <2>1. history.landed[t] + 1 \in Nat
    BY <1>1 DEF History
  <2>2. history' = [history EXCEPT !.landed = [history.landed EXCEPT ![t] = history.landed[t] + 1]]
    BY <1>1, <1>3 DEF landing, History
  <2>3. [history.landed EXCEPT ![t] = history.landed[t] + 1] \in [TaskIds -> Nat]
    BY <1>1, <2>1 DEF History
  <2> QED
    BY <1>1, <2>2, <2>3 DEF History, SameHistory
<1> QED
  BY <1>2, <1>3

\* The runner stops sending: the message has landed, or may have, and the record does not
\* offer to send it again; or it has certainly not.
LEMMA SendEnds ==
  ASSUME CoreInv, NEW t \in TaskIds, runner[t].at = "send",
         About(t), t \in DOMAIN tasks' => t \in DOMAIN tasks,
         history' \in {history, landing(t)},
         t \in DOMAIN tasks' =>
           Agrees(history.handed[t], sent(t)', history.stopped[t], tasks'[t]),
         NEW next, RunnerShape(next), move(t, next), next.at \notin Working \cup {"send"},
         quiet, cache' \in {cache, cache \cup {t}}
  PROVE  CoreStep
<1>1. /\ history' \in History
      /\ history'.handed = history.handed /\ history'.stopped = history.stopped
      /\ history' = history \/ history'.landed[t] = history.landed[t] + 1
      /\ \A u \in TaskIds : u # t => SameHistory(u)
  BY LandingFacts
<1>2. /\ history.landed[t] = 0
      /\ \A doc \in Documents : t \in DOMAIN doc =>
           Agrees(history.handed[t], TRUE, history.stopped[t], doc[t])
  BY HistoryFacts DEF HistoryOf, TaskAgrees, sent
<1>3. runner'[t] = next
  BY MoveFacts
<1>4. Documents' \subseteq Documents \cup {tasks'}
  BY DEF About
<1>5. ASSUME NEW doc \in Documents', t \in DOMAIN doc
      PROVE  Agrees(history.handed[t], sent(t)', history.stopped[t], doc[t])
  <2>1. CASE doc \in Documents
    BY <1>2, <1>5, <2>1 DEF Agrees
  <2>2. CASE doc = tasks'
    BY <1>5, <2>2
  <2> QED
    BY <1>4, <2>1, <2>2
<1>6. TaskAgrees(t)'
  BY <1>1, <1>5 DEF TaskAgrees
<1>7. HistoryOf(t)'
  BY <1>1, <1>2, <1>3, <1>6 DEF HistoryOf
<1>8. HistoryStep(t)
  BY <1>3, <1>7 DEF HistoryStep
<1> QED
  BY <1>1, <1>8, RunnerStepKept

\* The sending ends without an update.
LEMMA SendEndsUnrecorded ==
  ASSUME CoreInv, NEW t \in TaskIds, runner[t].at = "send",
         UNCHANGED storeVars, history' \in {history, landing(t)}, move(t, Idle),
         quiet, cache' \in {cache, cache \cup {t}}
  PROVE  CoreStep
<1>1. About(t) /\ tasks' = tasks
  BY Untouched DEF CoreInv
<1>2. t \in DOMAIN tasks => Agrees(history.handed[t], TRUE, history.stopped[t], tasks[t])
  BY HistoryFacts DEF sent
<1>3. t \in DOMAIN tasks' => Agrees(history.handed[t], sent(t)', history.stopped[t], tasks'[t])
  BY <1>1, <1>2 DEF Agrees
<1>4. RunnerShape(Idle) /\ Idle.at = "none"
  BY ShapeFacts
<1> QED
  BY <1>1, <1>3, <1>4, SendEnds DEF Working

\* The sending ends with an update, which offers to send again only what has not landed.
LEMMA SendEndsRecorded ==
  ASSUME CoreInv, NEW t \in TaskIds, runner[t].at = "send", t \in DOMAIN tasks,
         NEW candidate \in Record, persist_update(t, candidate),
         history' \in {history, landing(t)},
         candidate.state = "delivery_failed" /\ offers(candidate) => history' = history,
         proceed(t, at("render"), Idle),
         quiet, cache' \in {cache, cache \cup {t}}
  PROVE  CoreStep
<1> DEFINE h == history.handed[t]
           s == history.stopped[t]
<1>1. /\ About(t) /\ DOMAIN tasks' \subseteq DOMAIN tasks
      /\ t \in DOMAIN tasks' => tasks'[t] \in {tasks[t], stored(t, candidate)}
      /\ SameTask(candidate, stored(t, candidate))
  BY Updated DEF CoreInv
<1>2. /\ Agrees(h, TRUE, s, tasks[t]) /\ h \in BOOLEAN /\ s \in Nat
      /\ history.landed[t] = 0
  BY HistoryFacts DEF sent, HistoryOf
<1>3. tasks[t] \in Record
  BY TasksGood DEF CoreInv
<1>4. valid_record(t, candidate) /\ validate_update(tasks[t], candidate)
  BY DEF persist_update, compare_and_set
<1>5. PICK next : /\ next \in {at("render"), Idle} /\ move(t, next)
  BY DEF proceed
<1>6. RunnerShape(next) /\ next.at \in {"render", "none"}
  BY <1>5, ShapeFacts
<1>7. runner'[t] = next
  BY <1>5, <1>6, MoveFacts
<1>8. PICK f \in BOOLEAN : f = sent(t)'
  BY DEF sent
<1>9. f => history' # history
  <2>1. ASSUME history' = history PROVE ~sent(t)'
    BY <1>2, <1>6, <1>7, <2>1 DEF sent
  <2> QED
    BY <1>8, <2>1
<1>10. Agrees(h, f, s, tasks[t])
  BY <1>2 DEF Agrees
<1>11. f /\ candidate.state = "delivery_failed" => ~offers(candidate)
  BY <1>9
<1> HIDE DEF h, s
<1>12. Agrees(h, f, s, stored(t, candidate))
  BY <1>1, <1>2, <1>3, <1>4, <1>10, <1>11, UpdateAgrees
<1>13. t \in DOMAIN tasks' => Agrees(h, f, s, tasks'[t])
  BY <1>1, <1>10, <1>12
<1>14. t \in DOMAIN tasks' => Agrees(h, sent(t)', s, tasks'[t])
  BY <1>8, <1>13
<1> QED
  BY <1>1, <1>5, <1>6, <1>14, SendEnds DEF Working, h, s

LEMMA SentKept ==
  ASSUME CoreInv, NEW t \in TaskIds, Sent(t)
  PROVE  CoreStep
<1>1. /\ runner[t].at = "send" /\ history' = landing(t)
      /\ quiet /\ UNCHANGED cache
  BY DEF Sent, turn_of_runner
<1>2. CASE UNCHANGED storeVars /\ move(t, Idle)
  BY <1>1, <1>2, SendEndsUnrecorded
<1>3. CASE /\ delivering(t)
           /\ persist_update(t, complete(tasks[t], clock))
           /\ proceed(t, at("render"), Idle)
  <2>1. t \in DOMAIN tasks
    BY <1>3 DEF delivering, known
  <2>2. tasks[t] \in Record /\ clock \in Nat
    BY <2>1, TasksGood DEF CoreInv, IInv
  <2>3. PICK candidate : candidate = complete(tasks[t], clock)
    OBVIOUS
  <2>4. candidate \in Record /\ candidate.state = "completed"
    BY <2>2, <2>3, CandidateFacts
  <2>5. persist_update(t, candidate)
    BY <1>3, <2>3
  <2> QED
    BY <1>1, <1>3, <2>1, <2>4, <2>5, SendEndsRecorded
<1> QED
  BY <1>2, <1>3 DEF Sent

LEMMA SendFailsKept ==
  ASSUME CoreInv, NEW t \in TaskIds, NEW definitive \in BOOLEAN, SendFails(t, definitive)
  PROVE  CoreStep
<1>1. /\ runner[t].at = "send"
      /\ history' \in {history, landing(t)}
      /\ definitive => history' = history
      /\ quiet /\ cache' \in {cache, cache \cup {t}}
  BY DEF SendFails, turn_of_runner
<1>2. CASE UNCHANGED storeVars /\ move(t, Idle)
  BY <1>1, <1>2, SendEndsUnrecorded
<1>3. CASE /\ delivering(t)
           /\ persist_update(t, delivery_failed(tasks[t], definitive, clock))
           /\ proceed(t, at("render"), Idle)
  <2>1. t \in DOMAIN tasks
    BY <1>3 DEF delivering, known
  <2>2. tasks[t] \in Record /\ clock \in Nat
    BY <2>1, TasksGood DEF CoreInv, IInv
  <2>3. PICK candidate : candidate = delivery_failed(tasks[t], definitive, clock)
    OBVIOUS
  <2>4. candidate \in Record /\ (~definitive => ~offers(candidate))
    BY <2>2, <2>3, CandidateFacts
  <2>5. persist_update(t, candidate)
    BY <1>3, <2>3
  <2> QED
    BY <1>1, <1>3, <2>1, <2>4, <2>5, SendEndsRecorded
<1> QED
  BY <1>2, <1>3 DEF SendFails

\* Every step of a runner.
LEMMA RunnerStepsKept ==
  ASSUME CoreInv, NEW t \in TaskIds, RunnerStep(t)
  PROVE  CoreStep
BY CardDoneKept, RecoveredKept, BeginKept, TurnReservedKept, TurnStartsKept, RunnerGivesUp,
   TurnRepliesKept, PreparedKept, SentKept, SendFailsKept, RecordFailureKept, EnrichKept
   DEF RunnerStep

----------------------------------------------------------------------------
(* Operations of users, and the startup.                                   *)

\* Nothing happens to any record, runner or task history.
LEMMA NothingHappens ==
  ASSUME CoreInv, IInv', tasks' = tasks, Documents' = Documents,
         UNCHANGED <<runner, cache, nextId>>, \A u \in TaskIds : SameHistory(u),
         ServiceTypeOK', \A op \in retrying' : op.task < nextId
  PROVE  CoreStep
<1>1. ASSUME NEW u \in TaskIds
      PROVE  HistoryStep(u)
  <2>1. Succeeds(tasks[u], tasks'[u])
    BY DEF Succeeds
  <2> QED
    BY <2>1, OrdinaryStep
<1>2. HistoryInv'
  BY <1>1 DEF HistoryInv, HistoryStep
<1>3. Fresh'
  BY DEF CoreInv, Fresh, SameHistory, Idle, at
<1> QED
  BY <1>1, <1>2, <1>3 DEF CoreStep, CoreInv

\* An interaction took effect.
LEMMA AffectedFacts ==
  ASSUME CoreInv, NEW i \in Interactions
  PROVE  affected(i) \in History
         /\ affected(i).landed = history.landed /\ affected(i).handed = history.handed
         /\ affected(i).stopped = history.stopped
         /\ affected(i).effects = [history.effects EXCEPT ![i] = history.effects[i] + 1]
<1>1. history \in History
  BY DEF CoreInv, ServiceTypeOK
<1>2. history.effects[i] + 1 \in Nat
  BY <1>1 DEF History
<1>3. affected(i) = [history EXCEPT !.effects = [history.effects EXCEPT ![i] = history.effects[i] + 1]]
  BY <1>1 DEF affected, History
<1>4. [history.effects EXCEPT ![i] = history.effects[i] + 1] \in [Interactions -> Nat]
  BY <1>1, <1>2 DEF History
<1> QED
  BY <1>1, <1>3, <1>4 DEF History

\* Steps that change nothing but claims, pending retries, or the time.
LEMMA QuietOperations ==
  ASSUME CoreInv,
         \/ \E i \in Interactions, t \in DOMAIN tasks :
              Steer(i, t) \/ StopAgain(i, t) \/ RetryRequested(i, t)
         \/ \E op \in retrying : RetryRefused(op)
         \/ ReconcileDone \/ Tick \/ UNCHANGED vars
  PROVE  CoreStep
<1>1. /\ UNCHANGED <<tasks, disk, durable>> /\ clock' \in Nat /\ outcome' = outcome
      /\ UNCHANGED <<runner, cache, nextId, history, closed, enriching, crashes>>
      /\ reconciliation' \in {reconciliation, "done"}
  <2>1. clock \in Nat /\ clock + 1 \in Nat
    BY DEF CoreInv, IInv
  <2> QED
    BY <2>1 DEF Steer, StopAgain, RetryRequested, RetryRefused, ReconcileDone, Tick, tick,
                vars, storeVars, serviceVars
<1>2. ASSUME NEW op \in retrying'
      PROVE  /\ op \in [id : Interactions, task : TaskIds, released : BOOLEAN]
             /\ op.task < nextId
  <2>1. CASE op \in retrying
    BY <2>1 DEF CoreInv, ServiceTypeOK, Fresh
  <2>2. CASE op \notin retrying
    <3>1. PICK i \in Interactions, t \in DOMAIN tasks :
            op = [id |-> i, task |-> t, released |-> ~live(t)]
      BY <1>2, <2>2 DEF Steer, StopAgain, RetryRequested, RetryRefused, ReconcileDone, Tick,
                        vars, serviceVars
    <3>2. t \in TaskIds /\ t < nextId
      BY TasksGood DEF CoreInv, Fresh, Documents
    <3>3. live(t) \in BOOLEAN
      BY DEF live
    <3> QED
      BY <3>1, <3>2, <3>3
  <2> QED
    BY <2>1, <2>2
<1>3. ServiceTypeOK'
  BY <1>1, <1>2 DEF CoreInv, ServiceTypeOK
<1>4. tasks' = tasks /\ Documents' = Documents /\ IInv'
  BY <1>1 DEF CoreInv, IInv, Documents, AcknowledgedIsDurable
<1>5. \A u \in TaskIds : SameHistory(u)
  BY <1>1 DEF SameHistory
<1> QED
  BY <1>1, <1>2, <1>3, <1>4, <1>5, NothingHappens

\* The store creates a task: an active one, in its first attempt.
LEMMA Created ==
  ASSUME IInv, NEW t \in TaskIds, NEW o \in Owners, NEW c \in Channels, NEW e \in Triggers,
         create(t, new_record(o, c, e, None, clock))
  PROVE  /\ About(t) /\ t \notin DOMAIN tasks
         /\ outcome' = "failed" => tasks' = tasks /\ Documents' = Documents
         /\ outcome' # "failed" => t \in DOMAIN tasks'
         /\ t \in DOMAIN tasks' => tasks'[t] = new_record(o, c, e, None, clock)
         /\ \A u \in DOMAIN tasks' : u # t => tasks'[u] = tasks[u]
         /\ \A u \in DOMAIN tasks : is_active(tasks[u]) => u \in DOMAIN tasks'
         /\ outcome' \in {"ok", "failed", "unsynced"}
<1> DEFINE r == new_record(o, c, e, None, clock)
           new == put(tasks, t, r)
<1>1. IInv'
  BY CreateGood
<1>2. commit(new) /\ t \notin DOMAIN tasks
  BY DEF create
<1>3. is_active(r)
  BY DEF new_record, is_active, ACTIVE_STATES
<1> HIDE DEF r
<1>4. DOMAIN new = DOMAIN tasks \cup {t} /\ new[t] = r /\ \A u \in DOMAIN tasks : new[u] = tasks[u]
  BY <1>2 DEF put
<1> HIDE DEF new
<1>5. /\ outcome' \in {"ok", "failed", "unsynced"}
      /\ outcome' = "failed" => tasks' = tasks
      /\ outcome' # "failed" =>
           /\ DOMAIN tasks' \subseteq DOMAIN new
           /\ \A u \in DOMAIN tasks' : tasks'[u] = new[u]
           /\ \A u \in DOMAIN new : is_active(new[u]) => u \in DOMAIN tasks'
      /\ Documents' \subseteq Documents \cup {tasks'}
  BY <1>2, CommitKept
<1>6. \A u \in DOMAIN tasks' : u # t => u \in DOMAIN tasks /\ tasks'[u] = tasks[u]
  BY <1>4, <1>5
<1>7. About(t)
  BY <1>1, <1>5, <1>6 DEF About, SameTask
<1>8. outcome' = "failed" => Documents' = Documents
  BY <1>2 DEF commit, Documents
<1> QED
  BY <1>2, <1>3, <1>4, <1>5, <1>6, <1>7, <1>8 DEF r

\* The store links a task to the one it continues.
LEMMA Linked ==
  ASSUME IInv, NEW p \in DOMAIN tasks, NEW t \in TaskIds,
         NEW o \in Owners, NEW c \in Channels, NEW e \in Triggers,
         link_child(p, tasks[p].revision, t, new_record(o, c, e, p, clock))
  PROVE  /\ About(t) /\ t \notin DOMAIN tasks
         /\ outcome' = "failed" => tasks' = tasks /\ Documents' = Documents
         /\ outcome' # "failed" => t \in DOMAIN tasks'
         /\ t \in DOMAIN tasks' => tasks'[t] = new_record(o, c, e, p, clock)
         /\ \A u \in DOMAIN tasks' : u # t =>
              u \in DOMAIN tasks /\ (tasks'[u] = tasks[u] \/ tasks'[u].revision = tasks[u].revision + 1)
         /\ \A u \in DOMAIN tasks : is_active(tasks[u]) => u \in DOMAIN tasks'
         /\ outcome' \in {"ok", "failed", "unsynced"}
<1> DEFINE r == new_record(o, c, e, p, clock)
           parent == [tasks[p] EXCEPT !.to = t, !.revision = @ + 1, !.updated = clock]
           new == put(put(tasks, p, parent), t, r)
<1>1. IInv'
  BY LinkChildGood
<1>2. commit(new) /\ t \notin DOMAIN tasks
  BY DEF link_child
<1>3. is_active(r)
  BY DEF new_record, is_active, ACTIVE_STATES
<1>4. SameTask(tasks[p], parent) /\ parent.revision = tasks[p].revision + 1
  <2>1. tasks[p] \in Record
    BY TasksGood
  <2> QED
    BY <2>1 DEF Record, SameTask
<1> HIDE DEF r, parent
<1>5. /\ DOMAIN new = DOMAIN tasks \cup {t} /\ new[t] = r /\ new[p] = parent
      /\ \A u \in DOMAIN tasks : u # p => new[u] = tasks[u]
  BY <1>2 DEF put
<1> HIDE DEF new
<1>6. /\ outcome' \in {"ok", "failed", "unsynced"}
      /\ outcome' = "failed" => tasks' = tasks
      /\ outcome' # "failed" =>
           /\ DOMAIN tasks' \subseteq DOMAIN new
           /\ \A u \in DOMAIN tasks' : tasks'[u] = new[u]
           /\ \A u \in DOMAIN new : is_active(new[u]) => u \in DOMAIN tasks'
      /\ Documents' \subseteq Documents \cup {tasks'}
  BY <1>2, CommitKept
<1>7. \A u \in DOMAIN tasks :
        /\ SameTask(tasks[u], new[u])
        /\ new[u] = tasks[u] \/ new[u].revision = tasks[u].revision + 1
        /\ is_active(tasks[u]) => is_active(new[u])
  BY <1>4, <1>5 DEF SameTask, is_active
<1>8. \A u \in DOMAIN tasks' : u # t =>
        /\ u \in DOMAIN tasks /\ SameTask(tasks[u], tasks'[u])
        /\ tasks'[u] = tasks[u] \/ tasks'[u].revision = tasks[u].revision + 1
  BY <1>5, <1>6, <1>7 DEF SameTask
<1>9. About(t)
  BY <1>1, <1>6, <1>8 DEF About
<1>10. outcome' = "failed" => Documents' = Documents
  BY <1>2 DEF commit, Documents
<1>11. \A u \in DOMAIN tasks : is_active(tasks[u]) => u \in DOMAIN tasks'
  BY <1>5, <1>6, <1>7
<1>12. outcome' # "failed" => t \in DOMAIN tasks'
  BY <1>3, <1>5, <1>6
<1>13. t \in DOMAIN tasks' => tasks'[t] = r
  BY <1>2, <1>5, <1>6
<1> QED
  BY <1>2, <1>6, <1>8, <1>9, <1>10, <1>11, <1>12, <1>13 DEF r

\* The store forgets a task.
LEMMA Forgotten ==
  ASSUME IInv, NEW t \in DOMAIN tasks, forget(t, tasks[t].revision)
  PROVE  /\ About(t) /\ ~is_active(tasks[t])
         /\ outcome' = "failed" => tasks' = tasks
         /\ outcome' # "failed" => t \notin DOMAIN tasks'
         /\ \A u \in DOMAIN tasks' : u # t =>
              u \in DOMAIN tasks /\ (tasks'[u] = tasks[u] \/ tasks'[u].revision = tasks[u].revision + 1)
         /\ \A u \in DOMAIN tasks : is_active(tasks[u]) => u \in DOMAIN tasks'
         /\ outcome' \in {"ok", "failed", "unsynced"}
<1> DEFINE new == forget_inactive_task(tasks, t, clock)
<1>1. IInv'
  BY ForgetGood
<1>2. commit(new) /\ ~is_active(tasks[t])
  BY DEF forget
<1>3. DOMAIN new = DOMAIN tasks \ {t} /\ \A u \in DOMAIN new : new[u] = unlink(tasks[u], t, clock)
  BY DEF forget_inactive_task
<1>4. clock \in Nat /\ t \in TaskIds /\ \A u \in DOMAIN tasks : tasks[u] \in Record
  BY TasksGood DEF IInv
<1> HIDE DEF new
<1>5. \A u \in DOMAIN new :
        /\ SameTask(tasks[u], new[u])
        /\ new[u] = tasks[u] \/ new[u].revision = tasks[u].revision + 1
        /\ is_active(tasks[u]) => is_active(new[u])
  BY <1>3, <1>4, UnlinkFacts DEF SameTask, is_active
<1>6. /\ outcome' \in {"ok", "failed", "unsynced"}
      /\ outcome' = "failed" => tasks' = tasks
      /\ outcome' # "failed" =>
           /\ DOMAIN tasks' \subseteq DOMAIN new
           /\ \A u \in DOMAIN tasks' : tasks'[u] = new[u]
           /\ \A u \in DOMAIN new : is_active(new[u]) => u \in DOMAIN tasks'
      /\ Documents' \subseteq Documents \cup {tasks'}
  BY <1>2, CommitKept
<1>7. \A u \in DOMAIN tasks' : u # t =>
        /\ u \in DOMAIN tasks /\ SameTask(tasks[u], tasks'[u])
        /\ tasks'[u] = tasks[u] \/ tasks'[u].revision = tasks[u].revision + 1
  BY <1>3, <1>5, <1>6 DEF SameTask
<1>8. About(t)
  BY <1>1, <1>6, <1>7 DEF About
<1>9. \A u \in DOMAIN tasks : is_active(tasks[u]) => u \in DOMAIN tasks'
  BY <1>2, <1>3, <1>5, <1>6
<1> QED
  BY <1>2, <1>3, <1>6, <1>7, <1>8, <1>9

\* A task starts, with or without a runner.
LEMMA TaskStarts ==
  ASSUME CoreInv, nextId \in TaskIds, About(nextId),
         outcome' \in {"ok", "failed", "unsynced"},
         outcome' = "failed" => tasks' = tasks /\ Documents' = Documents,
         outcome' # "failed" => nextId \in DOMAIN tasks',
         nextId \in DOMAIN tasks' => tasks'[nextId].attempt = 1,
         runner' = IF written THEN [runner EXCEPT ![nextId] = at("card")] ELSE runner,
         nextId' = IF nextId \in DOMAIN tasks' THEN nextId + 1 ELSE nextId,
         UNCHANGED <<cache, retrying, reconciliation, enriching, closed, crashes>>,
         history' \in History, \A u \in TaskIds : SameHistory(u)
  PROVE  CoreStep
<1>1. PICK t \in TaskIds : t = nextId
  OBVIOUS
<1>2. /\ t \in Nat
      /\ runner[t] = Idle
      /\ history.landed[t] = 0 /\ ~history.handed[t] /\ history.stopped[t] = 0
      /\ \A doc \in Documents : t \notin DOMAIN doc
      /\ runner \in [TaskIds -> Runner]
      /\ \A op \in retrying : op.task < nextId
  <2>1. nextId \in Nat /\ ~ (t < nextId) /\ nextId <= t
    BY <1>1 DEF CoreInv, ServiceTypeOK
  <2> QED
    BY <1>1, <2>1 DEF CoreInv, Fresh, ServiceTypeOK
<1>3. RunnerShape(at("card")) /\ at("card").at = "card" /\ RunnerShape(Idle) /\ Idle.at = "none"
  BY ShapeFacts
<1>4. /\ runner' \in [TaskIds -> Runner] /\ runner'[t].at \in {"card", "none"}
      /\ \A u \in TaskIds : u # t => runner'[u] = runner[u]
      /\ \A u \in TaskIds : RunnerShape(runner'[u])
  <2>1. CASE written
    <3>1. /\ runner' \in [TaskIds -> Runner] /\ runner'[t] = at("card")
          /\ \A u \in TaskIds : u # t => runner'[u] = runner[u]
      BY <1>1, <1>2, <1>3, <2>1 DEF RunnerShape
    <3> QED
      BY <1>3, <3>1 DEF CoreInv, ServiceTypeOK
  <2>2. CASE ~written
    BY <1>2, <1>3, <2>2 DEF CoreInv, ServiceTypeOK
  <2> QED
    BY <2>1, <2>2
<1>5. t \in DOMAIN tasks' => nextId' = t + 1
  BY <1>1
<1>6. nextId' \in Nat /\ nextId <= nextId'
  BY <1>1, <1>2
<1>7. ServiceTypeOK'
  BY <1>4, <1>6 DEF CoreInv, ServiceTypeOK
<1>8. CASE outcome' = "failed"
  <2>1. tasks \in Documents
    BY DEF Documents
  <2>2. t \notin DOMAIN tasks'
    BY <1>2, <1>8, <2>1
  <2>3. nextId' = nextId /\ runner' = runner
    BY <1>1, <1>8, <2>2 DEF written
  <2>4. IInv'
    BY DEF About
  <2> QED
    BY <1>2, <1>7, <1>8, <2>3, <2>4, NothingHappens
<1>9. CASE outcome' # "failed"
  <2>1. t < nextId'
    BY <1>1, <1>2, <1>5, <1>9
  <2>2. ~sent(t)'
    BY <1>2, <1>4 DEF sent, SameHistory
  <2>3. ASSUME NEW doc \in Documents', t \in DOMAIN doc
        PROVE  Agrees(history'.handed[t], sent(t)', history'.stopped[t], doc[t])
    <3>1. doc = tasks'
      BY <1>1, <1>2, <2>3 DEF About
    <3> QED
      BY <1>1, <1>2, <2>2, <2>3, <3>1 DEF Agrees, SameHistory
  <2>4. HistoryOf(t)'
    BY <1>2, <1>4, <2>3 DEF HistoryOf, TaskAgrees, SameHistory, Working
  <2>5. HistoryStep(t)
    BY <1>2, <1>4, <2>4 DEF HistoryStep
  <2>6. \A op \in retrying' : op.task < nextId'
    <3>1. ASSUME NEW op \in retrying PROVE op.task \in Nat
      BY RecordAssumption DEF CoreInv, ServiceTypeOK
    <3>2. \A op \in retrying : op.task < nextId
      BY <1>2
    <3> QED
      BY <1>1, <1>2, <1>6, <3>1, <3>2
  <2> QED
    BY <1>1, <1>4, <1>6, <1>7, <2>1, <2>5, <2>6, AboutStep
<1> QED
  BY <1>8, <1>9

LEMMA StartKept ==
  ASSUME CoreInv, NEW o \in Owners, NEW c \in Channels, NEW e \in Triggers, Start(o, c, e)
  PROVE  CoreStep
<1>1. PICK t \in TaskIds : t = nextId
  BY DEF Start
<1>2. create(t, new_record(o, c, e, None, clock))
  BY <1>1 DEF Start
<1>3. /\ About(t)
      /\ outcome' = "failed" => tasks' = tasks /\ Documents' = Documents
      /\ outcome' # "failed" => t \in DOMAIN tasks'
      /\ t \in DOMAIN tasks' => tasks'[t] = new_record(o, c, e, None, clock)
      /\ outcome' \in {"ok", "failed", "unsynced"}
  BY <1>2, Created DEF CoreInv
<1>4. t \in DOMAIN tasks' => tasks'[t].attempt = 1
  BY <1>3 DEF new_record
<1>5. history' \in History /\ \A u \in TaskIds : SameHistory(u)
  BY DEF Start, CoreInv, ServiceTypeOK, SameHistory
<1>6. /\ runner' = IF written THEN [runner EXCEPT ![nextId] = at("card")] ELSE runner
      /\ nextId' = IF nextId \in DOMAIN tasks' THEN nextId + 1 ELSE nextId
      /\ UNCHANGED <<cache, retrying, reconciliation, enriching, closed, crashes>>
  BY DEF Start
<1> QED
  BY <1>1, <1>3, <1>4, <1>5, <1>6, TaskStarts

LEMMA ContinueKept ==
  ASSUME CoreInv, NEW i \in Interactions, NEW p \in DOMAIN tasks, NEW e \in Triggers,
         Continue(i, p, e)
  PROVE  CoreStep
<1>1. PICK t \in TaskIds : t = nextId
  BY DEF Continue
<1>2. tasks[p] \in Record
  BY TasksGood DEF CoreInv
<1>3. PICK o \in Owners, c \in Channels : o = tasks[p].owner /\ c = tasks[p].channel
  BY <1>2 DEF Record
<1>4. link_child(p, tasks[p].revision, t, new_record(o, c, e, p, clock))
  BY <1>1, <1>3 DEF Continue
<1>5. /\ About(t)
      /\ outcome' = "failed" => tasks' = tasks /\ Documents' = Documents
      /\ outcome' # "failed" => t \in DOMAIN tasks'
      /\ t \in DOMAIN tasks' => tasks'[t] = new_record(o, c, e, p, clock)
      /\ outcome' \in {"ok", "failed", "unsynced"}
  BY <1>4, Linked DEF CoreInv
<1>6. t \in DOMAIN tasks' => tasks'[t].attempt = 1
  BY <1>5 DEF new_record
<1>7. history' \in History /\ \A u \in TaskIds : SameHistory(u)
  BY AffectedFacts DEF Continue, CoreInv, ServiceTypeOK, SameHistory
<1>8. /\ runner' = IF written THEN [runner EXCEPT ![nextId] = at("card")] ELSE runner
      /\ nextId' = IF nextId \in DOMAIN tasks' THEN nextId + 1 ELSE nextId
      /\ UNCHANGED <<cache, retrying, reconciliation, enriching, closed, crashes>>
  BY DEF Continue
<1> QED
  BY <1>1, <1>5, <1>6, <1>7, <1>8, TaskStarts

\* A user's step about a stored task, which may give it a runner.
LEMMA UserStep ==
  ASSUME CoreInv, NEW t \in DOMAIN tasks, About(t), HistoryStep(t),
         NEW next, RunnerShape(next), runner' = [runner EXCEPT ![t] = next],
         history' \in History, \A u \in TaskIds : u # t => SameHistory(u),
         cache' \subseteq cache, retrying' \subseteq retrying,
         UNCHANGED <<reconciliation, enriching, closed, nextId, crashes>>
  PROVE  CoreStep
<1>1. t \in TaskIds /\ t < nextId
  BY TasksGood DEF CoreInv, Fresh, Documents
<1>2. /\ runner' \in [TaskIds -> Runner] /\ runner'[t] = next
      /\ \A u \in TaskIds : u # t => runner'[u] = runner[u]
  BY <1>1 DEF CoreInv, ServiceTypeOK, RunnerShape
<1>3. ServiceTypeOK'
  BY <1>2 DEF CoreInv, ServiceTypeOK
<1>4. nextId <= nextId' /\ \A op \in retrying' : op.task < nextId'
  BY DEF CoreInv, ServiceTypeOK, Fresh
<1> QED
  BY <1>1, <1>2, <1>3, <1>4, AboutStep

\* Such a step that only updates the record.
LEMMA UserWrites ==
  ASSUME CoreInv, NEW t \in DOMAIN tasks, About(t),
         t \in DOMAIN tasks' => Succeeds(tasks[t], tasks'[t]),
         NEW next, RunnerShape(next), runner' = [runner EXCEPT ![t] = next],
         next = runner[t] \/ next.at \notin Working \cup {"send"},
         history' = history \/ \E i \in Interactions : history' = affected(i),
         cache' \subseteq cache, retrying' \subseteq retrying,
         UNCHANGED <<reconciliation, enriching, closed, nextId, crashes>>
  PROVE  CoreStep
<1>1. t \in TaskIds
  BY TasksGood DEF CoreInv
<1>2. history' \in History /\ \A u \in TaskIds : SameHistory(u)
  BY AffectedFacts DEF CoreInv, ServiceTypeOK, SameHistory
<1>3. runner'[t] = next
  BY <1>1 DEF CoreInv, ServiceTypeOK
<1>4. Documents' \subseteq Documents \cup {tasks'}
  BY DEF About
<1>5. HistoryStep(t)
  BY <1>1, <1>2, <1>3, <1>4, OrdinaryStep
<1> QED
  BY <1>2, <1>5, UserStep

\* A runner put in its place changes nothing.
LEMMA SameRunner ==
  ASSUME CoreInv, NEW t \in DOMAIN tasks
  PROVE  runner = [runner EXCEPT ![t] = runner[t]] /\ RunnerShape(runner[t])
<1>1. t \in TaskIds
  BY TasksGood DEF CoreInv
<1> QED
  BY <1>1 DEF CoreInv, ServiceTypeOK

LEMMA ForgetKept ==
  ASSUME CoreInv, NEW i \in Interactions, NEW t \in DOMAIN tasks, ForgetTask(i, t)
  PROVE  CoreStep
<1>1. forget(t, tasks[t].revision)
  BY DEF ForgetTask
<1>2. /\ About(t)
      /\ outcome' = "failed" => tasks' = tasks
      /\ outcome' # "failed" => t \notin DOMAIN tasks'
  BY <1>1, Forgotten DEF CoreInv
<1>3. t \in DOMAIN tasks' => Succeeds(tasks[t], tasks'[t])
  BY <1>2 DEF Succeeds
<1>4. /\ history' = history \/ history' = affected(i)
      /\ cache' \subseteq cache
      /\ UNCHANGED <<runner, retrying, reconciliation, enriching, closed, nextId, crashes>>
  BY DEF ForgetTask
<1> QED
  BY <1>2, <1>3, <1>4, SameRunner, UserWrites

\* Stop: it wins if the write is acknowledged, as no older document is left then.
LEMMA StopKept ==
  ASSUME CoreInv, NEW i \in Interactions, NEW t \in DOMAIN tasks, Stop(i, t)
  PROVE  CoreStep
<1>1. tasks[t] \in Record /\ clock \in Nat /\ t \in TaskIds
  BY TasksGood DEF CoreInv, IInv
<1>2. PICK candidate : candidate = claim_stop(tasks[t], clock)
  OBVIOUS
<1>3. candidate \in Record /\ candidate.state = "stopping"
  BY <1>1, <1>2, CandidateFacts
<1>4. /\ tasks[t].state \in {"recovering", "starting", "running"}
      /\ persist_update(t, candidate)
      /\ history' = IF written THEN [affected(i) EXCEPT !.stopped[t] = tasks[t].attempt]
                    ELSE history
      /\ UNCHANGED <<runner, cache, retrying, reconciliation, enriching, closed, nextId, crashes>>
  BY <1>2 DEF Stop
<1>5. About(t)
  BY <1>3, <1>4, Updated DEF CoreInv
<1>6. CASE ~written
  <2>1. t \in DOMAIN tasks' => Succeeds(tasks[t], tasks'[t])
    BY <1>3, <1>4, UpdatedSucceeds DEF CoreInv
  <2> QED
    BY <1>4, <1>5, <1>6, <2>1, SameRunner, UserWrites
<1>7. CASE written
  <2>1. PICK n \in Nat : n = tasks[t].attempt
    BY <1>1 DEF Record
  <2>2. /\ affected(i) \in History
        /\ affected(i).landed = history.landed /\ affected(i).handed = history.handed
        /\ affected(i).stopped = history.stopped
    BY AffectedFacts
  <2>3. history' = [affected(i) EXCEPT !.stopped[t] = n]
    BY <1>4, <1>7, <2>1
  <2>4. /\ history' \in History
        /\ history'.landed = history.landed /\ history'.handed = history.handed
        /\ history'.stopped[t] = n
        /\ \A u \in TaskIds : u # t => SameHistory(u)
    BY <1>1, <2>2, <2>3 DEF History, SameHistory
  <2>5. /\ history.landed[t] \in Nat
        /\ Agrees(history.handed[t], sent(t), history.stopped[t], tasks[t])
        /\ HistoryOf(t)
    BY <1>1, HistoryFacts
  <2>6. ~history.handed[t] /\ ~sent(t)
    BY <1>4, <2>5 DEF Agrees, LATE
  <2>7. ~sent(t)' /\ history.landed[t] = 0
    BY <1>4, <2>4, <2>5, <2>6 DEF sent
  <2>8. /\ Documents' = {tasks'}
        /\ SameTask(candidate, stored(t, candidate))
        /\ t \in DOMAIN tasks' => tasks'[t] = stored(t, candidate)
    BY <1>3, <1>4, <1>7, Updated DEF CoreInv, written
  <2>9. candidate.attempt = n
    BY <1>3, <1>4, <2>1 DEF persist_update, compare_and_set, validate_update,
                            attempt_after_transition
  <2>10. ASSUME NEW doc \in Documents', t \in DOMAIN doc
         PROVE  Agrees(history'.handed[t], sent(t)', history'.stopped[t], doc[t])
    <3>1. doc[t].state = "stopping" /\ doc[t].attempt = n
      BY <1>3, <2>8, <2>9, <2>10 DEF SameTask
    <3> QED
      BY <2>4, <2>6, <2>7, <3>1 DEF Agrees, HALTED
  <2>11. HistoryOf(t)'
    BY <1>4, <2>4, <2>5, <2>6, <2>7, <2>10 DEF HistoryOf, TaskAgrees
  <2>12. HistoryStep(t)
    BY <1>4, <2>6, <2>11 DEF HistoryStep
  <2>13. runner' = [runner EXCEPT ![t] = runner[t]] /\ RunnerShape(runner[t])
    BY <1>4, SameRunner
  <2> QED
    BY <1>4, <1>5, <2>4, <2>12, <2>13, UserStep
<1> QED
  BY <1>6, <1>7

\* A retry that was released resumes.
LEMMA RetryFacts ==
  ASSUME CoreInv, NEW op \in retrying, retry_still_allowed(op)
  PROVE  /\ op.task \in DOMAIN tasks /\ op.task \in TaskIds /\ op.id \in Interactions
         /\ tasks[op.task] \in Record /\ clock \in Nat
         /\ valid_record(op.task, tasks[op.task])
         /\ tasks[op.task].failure # None
<1>1. op.task \in DOMAIN tasks /\ tasks[op.task].failure # None
  BY DEF retry_still_allowed
<1>2. op \in [id : Interactions, task : TaskIds, released : BOOLEAN]
  BY DEF CoreInv, ServiceTypeOK
<1> QED
  BY <1>1, <1>2, TasksGood DEF CoreInv, IInv

LEMMA RetrySessionKept ==
  ASSUME CoreInv, NEW op \in retrying, RetrySession(op)
  PROVE  CoreStep
<1>1. PICK t : t = op.task
  OBVIOUS
<1>2. t \in DOMAIN tasks /\ tasks[t] \in Record /\ clock \in Nat /\ op.id \in Interactions
  BY <1>1, RetryFacts DEF RetrySession
<1>3. PICK candidate : candidate = advance(tasks[t], "recovering", clock)
  OBVIOUS
<1>4. candidate \in Record /\ candidate.state = "recovering"
  BY <1>2, <1>3, CandidateFacts DEF States
<1>5. /\ persist_update(t, candidate)
      /\ history' \in {history, affected(op.id)}
      /\ runner' \in {runner, [runner EXCEPT ![t] = at("recover")]}
      /\ retrying' = retrying \ {op}
      /\ UNCHANGED <<cache, reconciliation, enriching, closed, nextId>>
      /\ UNCHANGED crashes
  BY <1>1, <1>3 DEF RetrySession
<1>6. About(t)
  BY <1>2, <1>4, <1>5, Updated DEF CoreInv
<1>7. t \in DOMAIN tasks' => Succeeds(tasks[t], tasks'[t])
  BY <1>2, <1>4, <1>5, UpdatedSucceeds DEF CoreInv
<1>8. PICK next : /\ RunnerShape(next) /\ runner' = [runner EXCEPT ![t] = next]
                  /\ next = runner[t] \/ next.at = "recover"
  BY <1>2, <1>5, SameRunner, ShapeFacts
<1> QED
  BY <1>2, <1>5, <1>6, <1>7, <1>8, UserWrites DEF Working

LEMMA RetryDeliveryKept ==
  ASSUME CoreInv, NEW op \in retrying, RetryDelivery(op)
  PROVE  CoreStep
<1>1. PICK t : t = op.task
  OBVIOUS
<1>2. /\ t \in DOMAIN tasks /\ t \in TaskIds /\ tasks[t] \in Record /\ clock \in Nat
      /\ op.id \in Interactions /\ offers(tasks[t])
  BY <1>1, RetryFacts DEF RetryDelivery, offers
<1>3. PICK candidate : candidate = advance(tasks[t], "delivering", clock)
  OBVIOUS
<1>4. candidate \in Record /\ candidate.state = "delivering"
  BY ZenonT(60), <1>2, <1>3, CandidateFacts DEF States
<1>5. /\ persist_update(t, candidate)
      /\ written => /\ history' = affected(op.id)
                    /\ runner' = IF live(t) THEN runner ELSE [runner EXCEPT ![t] = at("send")]
                    /\ cache' = cache \ {t}
      /\ ~written => UNCHANGED <<history, cache, runner>>
      /\ retrying' = retrying \ {op}
      /\ UNCHANGED <<reconciliation, enriching, closed, nextId>>
      /\ UNCHANGED crashes
  BY <1>1, <1>3 DEF RetryDelivery
<1>6. About(t)
  BY <1>2, <1>4, <1>5, Updated DEF CoreInv
<1>7. CASE ~written
  <2>1. t \in DOMAIN tasks' => Succeeds(tasks[t], tasks'[t])
    BY <1>2, <1>4, <1>5, UpdatedSucceeds DEF CoreInv
  <2> QED
    BY <1>2, <1>5, <1>6, <1>7, <2>1, SameRunner, UserWrites
<1>8. CASE written
  <2>1. /\ history' \in History /\ \A u \in TaskIds : SameHistory(u)
    BY <1>2, <1>5, <1>8, AffectedFacts DEF SameHistory
  <2>2. PICK next : /\ RunnerShape(next) /\ runner' = [runner EXCEPT ![t] = next]
                    /\ next = runner[t] \/ next.at = "send"
    BY <1>2, <1>5, <1>8, SameRunner, ShapeFacts
  <2>3. runner'[t] = next
    BY <1>2, <2>2 DEF CoreInv, ServiceTypeOK
  <2>4. runner'[t].at \in Working => ~history.handed[t] /\ ~history'.handed[t]
    BY <1>2, <2>1, <2>2, <2>3, HistoryFacts DEF HistoryOf, SameHistory, Working
  <2>5. HistoryStep(t)
    BY <1>2, <1>4, <1>5, <1>8, <2>1, <2>4, DeliveryStarts DEF SameHistory
  <2> QED
    BY <1>2, <1>5, <1>6, <1>8, <2>1, <2>2, <2>5, UserStep
<1> QED
  BY <1>7, <1>8

LEMMA RetryDeliveryLostKept ==
  ASSUME CoreInv, NEW op \in retrying, RetryDeliveryLost(op)
  PROVE  CoreStep
<1>1. PICK t : t = op.task
  OBVIOUS
<1>2. t \in DOMAIN tasks /\ tasks[t] \in Record /\ clock \in Nat /\ op.id \in Interactions
  BY <1>1, RetryFacts DEF RetryDeliveryLost
<1>3. PICK failure : failure = classify_delivery_failure(FALSE)
  OBVIOUS
<1>4. failure \in Failure /\ failure.retry_mode = "none"
  BY <1>3, FailureTypes DEF classify_delivery_failure, failure_of
<1>5. PICK candidate : candidate = with_failure(tasks[t], failure, clock)
  OBVIOUS
<1>6. candidate \in Record /\ ~offers(candidate)
  BY <1>2, <1>4, <1>5, CandidateFacts DEF offers
<1>7. /\ persist_update(t, candidate)
      /\ history' \in {history, affected(op.id)}
      /\ cache' = cache \ {t} /\ retrying' = retrying \ {op}
      /\ UNCHANGED <<runner, reconciliation, enriching, closed, nextId>>
      /\ UNCHANGED crashes
  BY <1>1, <1>3, <1>5 DEF RetryDeliveryLost
<1>8. About(t)
  BY <1>2, <1>6, <1>7, Updated DEF CoreInv
<1>9. t \in DOMAIN tasks' => Succeeds(tasks[t], tasks'[t])
  BY <1>2, <1>6, <1>7, UpdatedSucceeds DEF CoreInv
<1> QED
  BY <1>2, <1>7, <1>8, <1>9, SameRunner, UserWrites

----------------------------------------------------------------------------
(* Startup and the end of the process.                                     *)

\* Startup reconciliation keeps what a record says of its history: it disables the offer to
\* send a reply again, starts no new attempt, and what it interrupts is halted.
LEMMA ReconcileSucceeds ==
  ASSUME NEW r \in Record, NEW t, valid_record(t, r), NEW now \in Nat
  PROVE  Succeeds(r, reconcile(r, now)) /\ ~offers(reconcile(r, now))
<1>1. /\ delivery_retry_disabled(r.failure) \in Failure
      /\ delivery_retry_disabled(r.failure).retry_mode = "none"
  BY DEF delivery_retry_disabled, failure_of, Failure, Record, Categories, RetryModes
<1>2. CASE r.state \in {"recovering", "starting", "running", "stopping"}
  <2>1. PICK k : k = claim_interruption(r, "gateway_restart")
    OBVIOUS
  <2>2. k \in Record /\ k.failure = r.failure /\ k.attempt = r.attempt
    <3>1. k \in Record
      BY <2>1, ClaimType DEF Causes
    <3> QED
      BY <2>1, <3>1 DEF claim_interruption, Record
  <2>3. PICK q : q = reconcile(r, now)
    OBVIOUS
  <2>4. q = [k EXCEPT !.state = "interrupted", !.updated = now]
    BY <1>2, <2>1, <2>3 DEF reconcile
  <2>5. q.state = "interrupted" /\ q.failure = r.failure /\ q.attempt = r.attempt
    BY <2>2, <2>4 DEF Record
  <2>6. r.state \notin LATE /\ (offers(r) => FALSE)
    BY <1>2 DEF LATE, offers, valid_record
  <2> QED
    BY <2>3, <2>5, <2>6 DEF Succeeds, Agrees, LATE, HALTED, offers
<1>3. CASE r.state = "delivering"
  <2>1. PICK q : q = reconcile(r, now)
    OBVIOUS
  <2>2. /\ q.state \in LATE /\ q.attempt = r.attempt
        /\ q.failure = None \/ q.failure.retry_mode = "none"
    BY <1>1, <1>3, <2>1 DEF reconcile, Record, LATE
  <2> QED
    BY <1>3, <2>1, <2>2 DEF Succeeds, Agrees, LATE, HALTED, offers
<1>4. CASE r.state = "delivery_failed" /\ r.failure.retry_mode = "retry_delivery"
  <2>1. PICK q : q = reconcile(r, now)
    OBVIOUS
  <2>2. /\ q.state = r.state /\ q.attempt = r.attempt
        /\ q.failure.retry_mode = "none"
    BY <1>1, <1>4, <2>1 DEF reconcile, Record
  <2> QED
    BY <1>4, <2>1, <2>2 DEF Succeeds, Agrees, LATE, HALTED, offers
<1>5. CASE /\ r.state \notin {"recovering", "starting", "running", "stopping", "delivering"}
           /\ ~(r.state = "delivery_failed" /\ r.failure.retry_mode = "retry_delivery")
  <2>1. reconcile(r, now) = r
    BY <1>5 DEF reconcile
  <2>2. ~offers(r)
    BY <1>5 DEF offers, valid_record
  <2> QED
    BY <2>1, <2>2 DEF Succeeds
<1> QED
  BY <1>2, <1>3, <1>4, <1>5

\* What startup reconciliation leaves of the records.
LEMMA ReconciledAll ==
  ASSUME IInv, reconcile_startup
  PROVE  /\ IInv' /\ Documents' \subseteq Documents \cup {tasks'}
         /\ \A u \in DOMAIN tasks' : u \in DOMAIN tasks /\ Succeeds(tasks[u], tasks'[u])
         /\ outcome' \in {"ok", "unchanged"} =>
              \A u \in DOMAIN tasks' : ~is_active(tasks'[u]) /\ ~offers(tasks'[u])
         /\ outcome' \in {"ok", "failed", "unsynced", "unchanged", "raised"}
<1> DEFINE new == [u \in DOMAIN tasks |-> reconciled(u)]
<1>1. IInv'
  BY ReconcileStartupGood
<1>2. ASSUME NEW u \in DOMAIN tasks
      PROVE  Succeeds(tasks[u], new[u]) /\ ~is_active(new[u]) /\ ~offers(new[u])
  <2>1. /\ tasks[u] \in Record /\ valid_record(u, tasks[u]) /\ clock \in Nat
    BY TasksGood DEF IInv
  <2>2. PICK q : q = reconcile(tasks[u], clock)
    OBVIOUS
  <2>3. q \in Record /\ Succeeds(tasks[u], q) /\ ~offers(q) /\ ~is_active(q)
    BY <2>1, <2>2, ReconcileSucceeds, ReconcileFacts
  <2>4. new[u] = IF q = tasks[u] THEN q ELSE [q EXCEPT !.revision = @ + 1]
    BY <2>2 DEF reconciled
  <2>5. SameTask(q, new[u])
    BY <2>3, <2>4 DEF SameTask, Record
  <2>6. Succeeds(q, new[u])
    BY <2>5, SameSucceeds
  <2> QED
    BY <2>3, <2>5, <2>6 DEF Succeeds, SameTask, is_active, offers
<1>3. CASE outcome' = "unchanged" /\ new = tasks /\ UNCHANGED <<tasks, disk, durable, clock>>
  <2>1. \A u \in DOMAIN tasks : Succeeds(tasks[u], tasks[u]) /\ ~is_active(tasks[u]) /\ ~offers(tasks[u])
    BY <1>2, <1>3
  <2> QED
    BY <1>1, <1>3, <2>1 DEF Documents
<1>4. CASE outcome' = "raised" /\ UNCHANGED <<tasks, disk, durable, clock>>
  BY <1>1, <1>4 DEF Documents, Succeeds
<1>5. CASE commit(new)
  <2>1. DOMAIN new = DOMAIN tasks
    OBVIOUS
  <2> HIDE DEF new
  <2>2. /\ outcome' \in {"ok", "failed", "unsynced"}
        /\ outcome' = "failed" => tasks' = tasks
        /\ outcome' # "failed" =>
             /\ DOMAIN tasks' \subseteq DOMAIN new
             /\ \A u \in DOMAIN tasks' : tasks'[u] = new[u]
        /\ Documents' \subseteq Documents \cup {tasks'}
    BY <1>5, CommitKept
  <2>3. CASE outcome' = "failed"
    BY <1>1, <2>2, <2>3 DEF Succeeds
  <2>4. CASE outcome' # "failed"
    BY <1>1, <1>2, <2>1, <2>2, <2>4
  <2> QED
    BY <2>3, <2>4
<1> QED
  BY <1>3, <1>4, <1>5 DEF reconcile_startup

LEMMA ReconcileKept ==
  ASSUME CoreInv, Reconcile
  PROVE  CoreStep
<1>1. /\ IInv' /\ Documents' \subseteq Documents \cup {tasks'}
      /\ \A u \in DOMAIN tasks' : u \in DOMAIN tasks /\ Succeeds(tasks[u], tasks'[u])
  BY ReconciledAll DEF Reconcile, CoreInv
<1>2. /\ UNCHANGED <<runner, cache, retrying, closed, nextId, crashes, history>>
      /\ reconciliation' \in {"enriching", "failed"}
      /\ enriching' = enriching \/ enriching' \subseteq DOMAIN tasks'
  BY DEF Reconcile
<1>3. \A u \in TaskIds : SameHistory(u)
  BY <1>2 DEF SameHistory
<1>4. \A u \in TaskIds : HistoryStep(u)
  BY <1>1, <1>2, <1>3, OrdinaryStep
<1>5. DOMAIN tasks' \subseteq TaskIds
  BY <1>1, TasksGood DEF CoreInv
<1>6. ServiceTypeOK'
  BY <1>2, <1>5 DEF CoreInv, ServiceTypeOK
<1>7. Fresh'
  <2>1. tasks \in Documents
    BY DEF Documents
  <2>2. \A doc \in Documents' : \A u \in DOMAIN doc : u < nextId
    BY <1>1, <2>1 DEF CoreInv, Fresh
  <2> QED
    BY <1>2, <2>2 DEF CoreInv, Fresh, Idle, at
<1> QED
  BY <1>1, <1>4, <1>6, <1>7 DEF CoreStep, CoreInv, HistoryInv, HistoryStep

\* The later failure of a record that startup interrupted.
LEMMA EnrichRestartUpdate ==
  ASSUME CoreInv, NEW t \in TaskIds, EnrichRestart(t), ~UNCHANGED storeVars
  PROVE  /\ t \in DOMAIN tasks
         /\ \E candidate \in Record, b \in BOOLEAN :
              /\ candidate = with_failure(tasks[t],
                               classify_agent_failure("runtime_disconnected", b), clock)
              /\ ~offers(candidate)
              /\ persist_update(t, candidate)
<1>1. PICK persisted \in BOOLEAN :
        /\ t \in DOMAIN tasks
        /\ persist_update(t, with_failure(tasks[t],
             classify_agent_failure("runtime_disconnected",
               persisted /\ ~active_turn(tasks[t].channel)), clock))
  BY DEF EnrichRestart, known
<1>2. PICK b \in BOOLEAN : b = (persisted /\ ~active_turn(tasks[t].channel))
  OBVIOUS
<1>3. PICK failure : failure = classify_agent_failure("runtime_disconnected", b)
  OBVIOUS
<1>4. failure \in Failure /\ failure.retry_mode # "retry_delivery"
  BY <1>3 DEF classify_agent_failure, failure_of, Failure, Categories, RetryModes
<1>5. tasks[t] \in Record /\ clock \in Nat
  BY <1>1, TasksGood DEF CoreInv, IInv
<1>6. PICK candidate : candidate = with_failure(tasks[t], failure, clock)
  OBVIOUS
<1>7. candidate \in Record /\ ~offers(candidate)
  BY <1>4, <1>5, <1>6, CandidateFacts DEF offers
<1>8. persist_update(t, candidate)
  BY <1>1, <1>2, <1>3, <1>6
<1> QED
  BY <1>1, <1>3, <1>6, <1>7, <1>8

LEMMA EnrichRestartKept ==
  ASSUME CoreInv, NEW t \in TaskIds, EnrichRestart(t)
  PROVE  CoreStep
<1>1. /\ UNCHANGED <<runner, cache, retrying, closed, nextId, crashes, history>>
      /\ reconciliation' \in {reconciliation, "failed"}
      /\ enriching' \subseteq enriching
  BY DEF EnrichRestart
<1>2. ServiceTypeOK'
  BY <1>1 DEF CoreInv, ServiceTypeOK
<1>3. CASE UNCHANGED storeVars
  <2>1. tasks' = tasks /\ Documents' = Documents /\ IInv'
    BY <1>3, Untouched DEF CoreInv, About
  <2>2. \A u \in TaskIds : SameHistory(u)
    BY <1>1 DEF SameHistory
  <2>3. \A op \in retrying' : op.task < nextId
    BY <1>1 DEF CoreInv, Fresh
  <2> QED
    BY <1>1, <1>2, <2>1, <2>2, <2>3, NothingHappens
<1>4. CASE ~UNCHANGED storeVars
  <2>1. PICK candidate \in Record :
          t \in DOMAIN tasks /\ ~offers(candidate) /\ persist_update(t, candidate)
    BY <1>4, EnrichRestartUpdate
  <2>2. About(t) /\ (t \in DOMAIN tasks' => Succeeds(tasks[t], tasks'[t]))
    BY <2>1, Updated, UpdatedSucceeds DEF CoreInv
  <2>3. runner' = [runner EXCEPT ![t] = runner[t]] /\ RunnerShape(runner[t])
    BY <1>1, <2>1, SameRunner
  <2>4. /\ history' \in History /\ \A u \in TaskIds : SameHistory(u)
    BY <1>1 DEF SameHistory, CoreInv, ServiceTypeOK
  <2>5. Documents' \subseteq Documents \cup {tasks'}
    BY <2>2 DEF About
  <2>6. HistoryStep(t)
    BY <1>1, <2>1, <2>2, <2>4, <2>5, OrdinaryStep
  <2>7. t < nextId
    BY <2>1 DEF CoreInv, Fresh, Documents
  <2>8. nextId <= nextId' /\ \A op \in retrying' : op.task < nextId'
    BY <1>1 DEF CoreInv, Fresh, ServiceTypeOK
  <2> QED
    BY <1>1, <1>2, <2>2, <2>4, <2>6, <2>7, <2>8, AboutStep
<1> QED
  BY <1>3, <1>4

\* Every runner ends, with the process or before it; a message on its way may still arrive.
LEMMA RunnersEnd ==
  ASSUME CoreInv, IInv', tasks' \in Documents, Documents' \subseteq Documents,
         runner' = [t \in TaskIds |-> Idle],
         cache' = {}, retrying' = {}, enriching' = {},
         reconciliation' \in {"pending", "failed", "done"}, closed' \in BOOLEAN,
         nextId' = nextId, crashes' \in Nat,
         NEW effects \in [Interactions -> Nat], in_flight_lands(effects)
  PROVE  CoreStep
<1>1. history \in History
  BY DEF CoreInv, ServiceTypeOK
<1>2. PICK arriving \in SUBSET {t \in TaskIds : runner[t].at = "send"} :
        history' = [history EXCEPT
                      !.landed = [t \in TaskIds |->
                                    IF t \in arriving THEN @[t] + 1 ELSE @[t]],
                      !.effects = effects]
  BY DEF in_flight_lands
<1>3. PICK landed : landed = [t \in TaskIds |-> IF t \in arriving THEN history.landed[t] + 1
                                                ELSE history.landed[t]]
  OBVIOUS
<1>4. landed \in [TaskIds -> Nat]
  BY <1>1, <1>3 DEF History
<1>5. history' = [history EXCEPT !.landed = landed, !.effects = effects]
  BY <1>1, <1>2, <1>3 DEF History
<1>6. /\ history' \in History
      /\ history'.handed = history.handed /\ history'.stopped = history.stopped
      /\ history'.landed = landed /\ history'.effects = effects
  BY <1>1, <1>4, <1>5 DEF History
<1>7. RunnerShape(Idle) /\ Idle \in Runner /\ Idle.at = "none"
  BY ShapeFacts DEF RunnerShape
<1>8. ServiceTypeOK'
  BY <1>6, <1>7 DEF CoreInv, ServiceTypeOK
<1>9. ASSUME NEW u \in TaskIds
      PROVE  HistoryStep(u)
  <2>1. /\ history.landed[u] \in Nat
        /\ HistoryOf(u)
        /\ \A doc \in Documents : u \in DOMAIN doc =>
             Agrees(history.handed[u], sent(u), history.stopped[u], doc[u])
    BY HistoryFacts
  <2>2. landed[u] = IF u \in arriving THEN history.landed[u] + 1 ELSE history.landed[u]
    BY <1>3
  <2>3. landed[u] > 0 => sent(u)
    BY <1>2, <2>1, <2>2 DEF sent
  <2>4. runner'[u].at = "none"
    BY <1>7
  <2>5. sent(u)' => sent(u)
    BY <1>6, <2>3, <2>4 DEF sent
  <2>6. ASSUME NEW doc \in Documents', u \in DOMAIN doc
        PROVE  Agrees(history'.handed[u], sent(u)', history'.stopped[u], doc[u])
    BY <1>6, <2>1, <2>5, <2>6 DEF Agrees
  <2>7. landed[u] <= 1
    <3>1. u \in arriving => history.landed[u] = 0
      BY <1>2, <2>1 DEF HistoryOf
    <3> QED
      BY <2>1, <2>2, <3>1 DEF HistoryOf
  <2>8. HistoryOf(u)'
    BY <1>6, <2>4, <2>6, <2>7 DEF HistoryOf, TaskAgrees, Working
  <2> QED
    BY <2>4, <2>8 DEF HistoryStep, Working
<1>10. Fresh'
  <2>1. ASSUME NEW u \in TaskIds, nextId <= u
        PROVE  /\ history'.landed[u] = 0 /\ ~history'.handed[u] /\ history'.stopped[u] = 0
    <3>1. runner[u] = Idle /\ history.landed[u] = 0 /\ ~history.handed[u] /\ history.stopped[u] = 0
      BY <2>1 DEF CoreInv, Fresh
    <3>2. u \notin arriving
      BY <1>2, <1>7, <3>1
    <3> QED
      BY <1>3, <1>6, <3>1, <3>2
  <2>2. \A doc \in Documents' : \A u \in DOMAIN doc : u < nextId
    BY DEF CoreInv, Fresh
  <2> QED
    BY <2>1, <2>2 DEF Fresh, Idle, at
<1> QED
  BY <1>8, <1>9, <1>10 DEF CoreStep, CoreInv, HistoryInv, HistoryStep

LEMMA EndsKept ==
  ASSUME CoreInv, Close \/ Restart \/ PowerLoss
  PROVE  CoreStep
<1>1. CASE Close
  <2>1. tasks' = tasks /\ Documents' = Documents /\ IInv'
    BY <1>1, Untouched DEF CoreInv, About, Close
  <2>2. tasks' \in Documents
    BY <2>1 DEF Documents
  <2>3. history.effects \in [Interactions -> Nat]
    BY DEF CoreInv, ServiceTypeOK, History
  <2>4. /\ runner' = [t \in TaskIds |-> Idle]
        /\ cache' = {} /\ retrying' = {} /\ enriching' = {}
        /\ reconciliation' \in {"pending", "failed", "done"} /\ closed' \in BOOLEAN
        /\ nextId' = nextId /\ crashes' = crashes
        /\ in_flight_lands(history.effects)
    BY <1>1 DEF Close
  <2>5. PICK effects : effects = history.effects
    OBVIOUS
  <2>6. in_flight_lands(effects) /\ effects \in [Interactions -> Nat]
    BY <2>3, <2>4, <2>5
  <2>7. crashes' \in Nat
    BY <2>4 DEF CoreInv, ServiceTypeOK
  <2> QED
    BY <2>1, <2>2, <2>4, <2>6, <2>7, RunnersEnd
<1>2. CASE Restart \/ PowerLoss
  <2>1. restart \/ power_loss
    BY <1>2 DEF Restart, PowerLoss
  <2>2. IInv'
    BY <2>1, LoadGood DEF CoreInv
  <2>3. tasks' \in Documents /\ Documents' \subseteq Documents
    BY <2>1 DEF restart, power_loss, load, Documents
  <2>4. new_process
    BY <1>2 DEF Restart, PowerLoss
  <2>5. /\ runner' = [t \in TaskIds |-> Idle]
        /\ cache' = {} /\ retrying' = {} /\ enriching' = {}
        /\ reconciliation' \in {"pending", "failed", "done"} /\ closed' \in BOOLEAN
        /\ nextId' = nextId /\ crashes' = crashes + 1
    BY <2>4 DEF new_process
  <2>6. crashes' \in Nat
    BY <2>5 DEF CoreInv, ServiceTypeOK
  <2>7. PICK effects : effects = [i \in Interactions |-> 0]
    OBVIOUS
  <2>8. effects \in [Interactions -> Nat] /\ in_flight_lands(effects)
    BY <2>4, <2>7 DEF new_process
  <2> QED
    BY <2>2, <2>3, <2>5, <2>6, <2>8, RunnersEnd
<1> QED
  BY <1>1, <1>2

----------------------------------------------------------------------------
(* The theorems that hold whenever events are taken in.                    *)

\* Every step of the service.
LEMMA ServiceSteps ==
  ASSUME CoreInv, [Next]_vars
  PROVE  CoreStep
<1>1. CASE Operations
  <2>1. CASE \E o \in Owners, c \in Channels, e \in Triggers : Start(o, c, e)
    BY <2>1, StartKept
  <2>2. CASE \E i \in Interactions, t \in DOMAIN tasks :
               Steer(i, t) \/ StopAgain(i, t) \/ RetryRequested(i, t)
    BY <2>2, QuietOperations
  <2>3. CASE \E i \in Interactions, t \in DOMAIN tasks : Stop(i, t)
    BY <2>3, StopKept
  <2>4. CASE \E i \in Interactions, t \in DOMAIN tasks : ForgetTask(i, t)
    BY <2>4, ForgetKept
  <2>5. CASE \E i \in Interactions, t \in DOMAIN tasks, e \in Triggers : Continue(i, t, e)
    BY <2>5, ContinueKept
  <2> QED
    BY <1>1, <2>1, <2>2, <2>3, <2>4, <2>5 DEF Operations
<1>2. CASE \E op \in retrying : RetryResumes(op)
  BY <1>2, QuietOperations, RetrySessionKept, RetryDeliveryKept, RetryDeliveryLostKept
     DEF RetryResumes
<1>3. CASE \E t \in TaskIds : RunnerStep(t)
  BY <1>3, RunnerStepsKept
<1>4. CASE Startup
  BY <1>4, ReconcileKept, EnrichRestartKept, QuietOperations DEF Startup
<1>5. CASE Close \/ Restart \/ PowerLoss
  BY <1>5, EndsKept
<1>6. CASE Tick \/ UNCHANGED vars
  BY <1>6, QuietOperations
<1> QED
  BY <1>1, <1>2, <1>3, <1>4, <1>5, <1>6 DEF Next

\* A new gateway has no tasks, no runners and no history.
LEMMA ServiceStarts == Init => CoreInv
<1> SUFFICES ASSUME Init PROVE CoreInv
  OBVIOUS
<1>1. IInv
  BY InitGood DEF Init
<1>2. Documents = {EmptyDocument} /\ DOMAIN EmptyDocument = {}
  BY DEF Init, StoreInit, Documents, EmptyDocument
<1>3. RunnerShape(Idle) /\ Idle \in Runner /\ Idle.at = "none"
  BY ShapeFacts DEF RunnerShape
<1>4. /\ history.landed = [t \in TaskIds |-> 0]
      /\ history.handed = [t \in TaskIds |-> FALSE]
      /\ history.stopped = [t \in TaskIds |-> 0]
      /\ history.effects = [i \in Interactions |-> 0]
      /\ history \in History
  BY DEF Init, HistoryInit, History
<1>5. ServiceTypeOK
  BY <1>3, <1>4, RecordAssumption DEF Init, ServiceTypeOK
<1>6. Fresh
  BY <1>2, <1>4 DEF Init, Fresh
<1>7. HistoryInv
  <2>1. ASSUME NEW t \in TaskIds
        PROVE  HistoryOf(t)
    <3>1. runner[t] = Idle /\ history.landed[t] = 0
      BY <1>4 DEF Init
    <3>2. TaskAgrees(t)
      BY <1>2 DEF TaskAgrees
    <3> QED
      BY <1>3, <3>1, <3>2 DEF HistoryOf, Working
  <2> QED
    BY <2>1 DEF HistoryInv
<1> QED
  BY <1>1, <1>5, <1>6, <1>7 DEF CoreInv

\* The records of the store, the runners and what happened outside agree in every reachable
\* state of the service.
THEOREM ServiceInvariant == Spec => []CoreInv
<1>1. CoreInv /\ [Next]_vars => CoreInv'
  BY ServiceSteps DEF CoreStep
<1> QED
  BY <1>1, ServiceStarts, PTL DEF Spec

\* Driven by the service, the store keeps its promises: an active task per channel, documents
\* that load, acknowledged writes that survive.
THEOREM ServiceKeepsStore ==
  Spec => [](OneActivePerChannel /\ DocumentsLoad /\ AcknowledgedIsDurable)
<1>1. CoreInv => OneActivePerChannel /\ DocumentsLoad /\ AcknowledgedIsDurable
  BY IInvImplies DEF CoreInv
<1> QED
  BY <1>1, ServiceInvariant, PTL

\* A task's result message reaches Discord at most once, over retries of its delivery,
\* failures that leave open whether it arrived, and ends of the process.
THEOREM ResultSentOnce == Spec => []OneResultMessage
<1>1. CoreInv => OneResultMessage
  BY DEF CoreInv, HistoryInv, HistoryOf, OneResultMessage
<1> QED
  BY <1>1, ServiceInvariant, PTL

\* No retry runs the agent again for a result that was handed to Discord.
THEOREM NeverRunAgain == Spec => NoRerunAfterHandover
<1>1. CoreInv /\ [Next]_vars =>
        [\A t \in TaskIds :
           runner'[t].at = "turn" /\ runner[t].at # "turn" => ~history.handed[t]]_vars
  BY ServiceSteps DEF CoreStep, HistoryStep, Working
<1> QED
  BY <1>1, ServiceInvariant, PTL DEF Spec, NoRerunAfterHandover

\* An accepted Stop wins: no result of the stopped attempt is sent.
THEOREM StopAlwaysWins == Spec => StopWins
<1>1. CoreInv /\ [Next]_vars =>
        [\A t \in DOMAIN tasks :
           runner'[t].at = "send" /\ runner[t].at # "send" =>
             history.stopped[t] # tasks[t].attempt]_vars
  BY ServiceSteps, TasksGood DEF CoreStep, HistoryStep, CoreInv
<1> QED
  BY <1>1, ServiceInvariant, PTL DEF Spec, StopWins

----------------------------------------------------------------------------
(* Interactions take effect once.                                          *)

\* There is room for the claim of an interaction that has none.
LEMMA ClaimsFit ==
  ASSUME Roomy, NEW s \in Seq(Claim), NEW i \in Interactions, ~existing(s, i),
         \A j, k \in DOMAIN s : s[j].event = s[k].event => j = k
  PROVE  Len(s) + 1 <= ClaimLimit
<1> DEFINE n == Len(s) + 1
           f == [k \in 1..n |-> IF k = n THEN i ELSE s[k].event]
<1>1. Len(s) \in Nat /\ DOMAIN s = 1..Len(s) /\ n \in Nat
  BY LenProperties
<1>2. \A k \in 1..n : k # n => k \in DOMAIN s
  BY <1>1
<1>3. \A k \in DOMAIN s : s[k].event \in Interactions
  <2>1. \A k \in DOMAIN s : s[k] \in Claim
    BY ElementOfSeq, <1>1
  <2> QED
    BY <2>1 DEF Claim
<1>4. f \in [1..n -> Interactions]
  BY <1>2, <1>3
<1>5. \A k \in DOMAIN s : s[k].event # i
  BY DEF existing
<1>6. \A j, k \in 1..n : f[j] = f[k] => j = k
  BY <1>2, <1>5
<1> HIDE DEF f
<1>7. f \in Injection(1..n, Interactions)
  <2>1. DOMAIN f = 1..n
    BY <1>4
  <2> QED
    BY <1>4, <1>6, <2>1 DEF Injection, IsInjective
<1>8. IsFiniteSet(Interactions) /\ Cardinality(Interactions) <= ClaimLimit
  BY DEF Roomy
<1>9. Cardinality(1..n) <= Cardinality(Interactions)
  BY <1>7, <1>8, FS_Injection
<1>10. Cardinality(1..n) = n
  BY <1>1, FS_Interval
<1>11. ClaimLimit \in Nat /\ Cardinality(Interactions) \in Nat
  BY <1>8, FS_CardinalityType, ClaimLimitAssumption
<1> QED
  BY <1>1, <1>8, <1>9, <1>10, <1>11

\* The claims with one more keep all the others.
LEMMA ClaimsGrow ==
  ASSUME Roomy, NEW s \in Seq(Claim), NEW i \in Interactions, ~existing(s, i),
         \A j, k \in DOMAIN s : s[j].event = s[k].event => j = k,
         NEW t \in TaskIds, NEW n, n = remember(s, i, t)
  PROVE  /\ n \in Seq(Claim)
         /\ \A j, k \in DOMAIN n : n[j].event = n[k].event => j = k
         /\ \A e : existing(s, e) \/ e = i => existing(n, e)
<1>1. PICK claim : claim = claim_of(i, t)
  OBVIOUS
<1>2. claim \in Claim /\ claim.event = i
  BY <1>1 DEF claim_of, Claim
<1>3. /\ Append(s, claim) \in Seq(Claim)
      /\ Len(Append(s, claim)) = Len(s) + 1
      /\ DOMAIN Append(s, claim) = 1..(Len(s) + 1)
      /\ \A k \in 1..Len(s) : Append(s, claim)[k] = s[k]
      /\ Append(s, claim)[Len(s) + 1] = claim
  BY <1>2, AppendProperties, LenProperties
<1>4. Len(s) \in Nat /\ DOMAIN s = 1..Len(s)
  BY LenProperties
<1>5. Len(s) + 1 <= ClaimLimit /\ ClaimLimit \in Nat
  BY ClaimsFit, ClaimLimitAssumption
<1>6. without(s, i) = s
  BY DEF without
<1>7. ~ (Len(s) + 1 > ClaimLimit)
  BY <1>4, <1>5
<1>8. n = Append(s, claim)
  BY <1>1, <1>3, <1>6, <1>7 DEF remember
<1>9. /\ DOMAIN n = 1..(Len(s) + 1) /\ n[Len(s) + 1] = claim
      /\ \A k \in DOMAIN s : k \in DOMAIN n /\ n[k] = s[k]
      /\ \A k \in DOMAIN n : k = Len(s) + 1 \/ k \in DOMAIN s
  BY <1>3, <1>4, <1>8
<1>10. \A k \in DOMAIN s : s[k].event # i
  BY DEF existing
<1>11. \A j, k \in DOMAIN n : n[j].event = n[k].event => j = k
  BY <1>2, <1>9, <1>10
<1>12. \A e : existing(s, e) \/ e = i => existing(n, e)
  <2>1. Len(s) + 1 \in DOMAIN n
    BY <1>4, <1>9
  <2> QED
    BY <1>2, <1>9, <2>1 DEF existing
<1> QED
  BY <1>3, <1>8, <1>11, <1>12

\* An interaction takes effect only where it is claimed, and it is claimed only once.
LEMMA EffectsClaimed ==
  ASSUME CoreInv, [Next]_vars
  PROVE  \/ interactions' = interactions /\ history'.effects = history.effects
         \/ interactions' = <<>> /\ history'.effects = [i \in Interactions |-> 0]
         \/ \E i \in Interactions, t \in TaskIds :
              /\ ~existing(interactions, i)
              /\ interactions' = remember(interactions, i, t)
              /\ history'.effects \in {history.effects,
                                       [history.effects EXCEPT ![i] = history.effects[i] + 1]}
<1>1. history \in History /\ retrying \subseteq [id : Interactions, task : TaskIds, released : BOOLEAN]
  BY DEF CoreInv, ServiceTypeOK
<1>2. DOMAIN tasks \subseteq TaskIds
  BY TasksGood DEF CoreInv
<1>3. ASSUME NEW i \in Interactions, NEW t \in TaskIds,
             [affected(i) EXCEPT !.stopped[t] = tasks[t].attempt] = history'
      PROVE  history'.effects = affected(i).effects
  BY <1>3, AffectedFacts DEF History
<1>4. CASE Operations
  <2>1. CASE \E o \in Owners, c \in Channels, e \in Triggers : Start(o, c, e)
    BY <2>1 DEF Start
  <2>2. CASE \E i \in Interactions, t \in DOMAIN tasks : Steer(i, t) \/ StopAgain(i, t)
    BY <1>2, <2>2 DEF Steer, StopAgain
  <2>3. CASE \E i \in Interactions, t \in DOMAIN tasks : RetryRequested(i, t)
    BY <2>3 DEF RetryRequested
  <2>4. CASE \E i \in Interactions, t \in DOMAIN tasks : Stop(i, t)
    <3>1. PICK i \in Interactions, t \in DOMAIN tasks : Stop(i, t)
      BY <2>4
    <3>2. t \in TaskIds
      BY <1>2
    <3>3. CASE written
      BY <1>3, <3>1, <3>2, <3>3, AffectedFacts DEF Stop
    <3>4. CASE ~written
      BY <3>1, <3>4 DEF Stop
    <3> QED
      BY <3>3, <3>4
  <2>5. CASE \E i \in Interactions, t \in DOMAIN tasks : ForgetTask(i, t)
    BY <1>2, <2>5, AffectedFacts DEF ForgetTask
  <2>6. CASE \E i \in Interactions, t \in DOMAIN tasks, e \in Triggers : Continue(i, t, e)
    BY <2>6, AffectedFacts DEF Continue
  <2> QED
    BY <1>4, <2>1, <2>2, <2>3, <2>4, <2>5, <2>6 DEF Operations
<1>5. CASE \E op \in retrying : RetryResumes(op)
  <2>1. PICK op \in retrying : RetryResumes(op)
    BY <1>5
  <2>2. op.id \in Interactions /\ op.task \in TaskIds
    BY <1>1
  <2> QED
    BY <2>1, <2>2, AffectedFacts
       DEF RetryResumes, RetryRefused, RetrySession, RetryDelivery, RetryDeliveryLost,
           retry_still_allowed
<1>6. CASE \E t \in TaskIds : RunnerStep(t)
  <2>1. PICK t \in TaskIds : RunnerStep(t)
    BY <1>6
  <2>2. interactions' = interactions
    BY <2>1 DEF RunnerStep, CardDone, Recovered, Begin, TurnReserved, TurnStarts, RunFails,
                TurnReplies, Prepared, PrepareFails, Sent, SendFails, RecordFailure, Enrich,
                RunnerDone, RunnerLosesTask, quiet
  <2>3. history' \in {history, landing(t), [history EXCEPT !.handed[t] = @ \/ written]}
    BY <2>1 DEF RunnerStep, CardDone, Recovered, Begin, TurnReserved, TurnStarts, RunFails,
                TurnReplies, Prepared, PrepareFails, Sent, SendFails, RecordFailure, Enrich,
                RunnerDone, RunnerLosesTask
  <2>4. history'.effects = history.effects
    BY <1>1, <2>3 DEF landing, History
  <2> QED
    BY <2>2, <2>4
<1>7. CASE Startup \/ Tick \/ UNCHANGED vars
  BY <1>7 DEF Startup, Reconcile, EnrichRestart, ReconcileDone, Tick, vars, serviceVars
<1>8. CASE Close \/ Restart \/ PowerLoss
  BY <1>1, <1>8 DEF Close, Restart, PowerLoss, new_process, in_flight_lands, History
<1> QED
  BY <1>4, <1>5, <1>6, <1>7, <1>8 DEF Next

LEMMA ClaimsKept ==
  ASSUME Roomy, CoreInv, ClaimsInv, [Next]_vars
  PROVE  ClaimsInv'
<1>1. history \in History
  BY DEF CoreInv, ServiceTypeOK
<1>2. CASE interactions' = interactions /\ history'.effects = history.effects
  BY <1>2 DEF ClaimsInv
<1>3. CASE interactions' = <<>> /\ history'.effects = [i \in Interactions |-> 0]
  <2>1. interactions' \in Seq(Claim) /\ DOMAIN interactions' = {}
    BY <1>3, EmptySeq
  <2> QED
    BY <1>3, <2>1 DEF ClaimsInv
<1>4. ASSUME NEW i \in Interactions, NEW t \in TaskIds,
             ~existing(interactions, i),
             interactions' = remember(interactions, i, t),
             history'.effects \in {history.effects,
                                   [history.effects EXCEPT ![i] = history.effects[i] + 1]}
      PROVE  ClaimsInv'
  <2>1. PICK n : n = remember(interactions, i, t)
    OBVIOUS
  <2>2. /\ n \in Seq(Claim)
        /\ \A j, k \in DOMAIN n : n[j].event = n[k].event => j = k
        /\ \A e : existing(interactions, e) \/ e = i => existing(n, e)
    BY <1>4, <2>1, ClaimsGrow DEF ClaimsInv
  <2>3. history.effects[i] = 0
    BY <1>1, <1>4 DEF ClaimsInv, History
  <2>4. ASSUME NEW e \in Interactions PROVE history'.effects[e] <= 1
    <3>1. history.effects \in [Interactions -> Nat]
      BY <1>1 DEF History
    <3>2. CASE e = i
      BY <1>4, <2>3, <3>1, <3>2
    <3>3. CASE e # i
      <4>1. history'.effects[e] = history.effects[e]
        BY <1>4, <3>1, <3>3
      <4> QED
        BY <4>1 DEF ClaimsInv
    <3> QED
      BY <3>2, <3>3
  <2>5. \A e \in Interactions : history'.effects[e] = 1 => history.effects[e] = 1 \/ e = i
    BY <1>1, <1>4 DEF History
  <2> QED
    BY <1>4, <2>1, <2>2, <2>4, <2>5 DEF ClaimsInv
<1> QED
  BY <1>2, <1>3, <1>4, EffectsClaimed

\* As long as the claims of a process have room for the interactions it sees, an interaction
\* takes effect at most once, however often Discord delivers it.
THEOREM EffectsOnce == Roomy => (Spec => []InteractionsOnce)
<1>1. Roomy /\ CoreInv /\ ClaimsInv /\ [Next]_vars => ClaimsInv'
  BY ClaimsKept
<1>2. Init => ClaimsInv
  BY EmptySeq DEF Init, HistoryInit, ClaimsInv
<1>3. ClaimsInv => InteractionsOnce
  BY DEF ClaimsInv, InteractionsOnce
<1>4. CASE Roomy
  <2>1. CoreInv /\ ClaimsInv /\ [Next]_vars => ClaimsInv'
    BY <1>1, <1>4
  <2> QED
    BY <1>2, <1>3, <2>1, ServiceInvariant, PTL DEF Spec
<1> QED
  BY <1>4

----------------------------------------------------------------------------
(* Runners and records, where events wait for startup reconciliation.      *)

\* A step about another task: the record stays, unless it is inactive and lost.
RecordKept(u) ==
  /\ u \in DOMAIN tasks' => /\ u \in DOMAIN tasks /\ SameTask(tasks[u], tasks'[u])
                            /\ tasks'[u].revision \in {tasks[u].revision, tasks[u].revision + 1}
  /\ u \in DOMAIN tasks /\ is_active(tasks[u]) => u \in DOMAIN tasks'

OthersKept(t) ==
  \A u \in TaskIds : u # t =>
    RecordKept(u) /\ runner'[u] = runner[u] /\ (u \in cache' <=> u \in cache)

\* Every write that is tried succeeds.
Steady == WriteOutcomes = {"ok"}

OwnStep(t) == RunnerFits(t)' /\ (Steady /\ AttendedBy(t) => AttendedBy(t)')

RunnersStep == RunnersInv' /\ (Steady /\ AttendedInv => AttendedInv')

\* The runner is at an await where the record of its task is active.
LEMMA StageFacts ==
  /\ \A stage \in Attended : StatesAt(stage) \subseteq ACTIVE_STATES
  /\ Attended = {"card", "begin", "recover", "send", "context", "ready", "turn", "prepare"}
  /\ StatesAt("card") = {"starting", "stopping"}
  /\ StatesAt("begin") = {"starting", "stopping"}
  /\ StatesAt("recover") = {"recovering", "stopping"}
  /\ StatesAt("context") = {"running", "stopping"} /\ StatesAt("ready") = {"running", "stopping"}
  /\ StatesAt("turn") = {"running", "stopping"} /\ StatesAt("prepare") = {"running", "stopping"}
  /\ StatesAt("send") = {"delivering"}
<1>1. Attended = {"card", "begin", "recover", "send", "context", "ready", "turn", "prepare"}
  BY DEF Attended, Working
<1>2. StatesAt("card") = {"starting", "stopping"} /\ StatesAt("begin") = {"starting", "stopping"}
  BY DEF StatesAt, Working
<1>3. StatesAt("recover") = {"recovering", "stopping"}
  BY DEF StatesAt, Working
<1>4. \A stage \in Working : StatesAt(stage) = {"running", "stopping"}
  BY DEF StatesAt, Working
<1>5. StatesAt("send") = {"delivering"}
  BY DEF StatesAt, Working
<1>6. \A stage \in Attended : StatesAt(stage) \subseteq ACTIVE_STATES
  BY <1>2, <1>3, <1>4, <1>5 DEF Attended, ACTIVE_STATES
<1> QED
  BY <1>1, <1>2, <1>3, <1>4, <1>5, <1>6 DEF Working

LEMMA OtherFits ==
  ASSUME CoreInv, NEW u \in TaskIds, RecordKept(u), runner'[u] = runner[u], RunnerFits(u)
  PROVE  RunnerFits(u)'
<1>1. CASE runner[u].at \in Attended
  <2>1. u \in DOMAIN tasks /\ tasks[u].state \in StatesAt(runner[u].at)
    BY <1>1 DEF RunnerFits
  <2>2. is_active(tasks[u])
    BY <1>1, <2>1, StageFacts DEF is_active
  <2>3. u \in DOMAIN tasks' /\ SameTask(tasks[u], tasks'[u])
    BY <2>1, <2>2 DEF RecordKept
  <2>4. runner[u].at # "enrich"
    BY <1>1, StageFacts
  <2> QED
    BY <2>1, <2>3, <2>4 DEF RunnerFits, SameTask
<1>2. CASE runner[u].at \notin Attended
  <2>1. runner[u].at \notin {"context", "ready", "turn"}
    BY <1>2, StageFacts
  <2>2. ASSUME runner[u].at = "enrich", u \in DOMAIN tasks'
        PROVE  /\ runner[u].revision <= tasks'[u].revision
               /\ runner[u].revision = tasks'[u].revision =>
                    tasks'[u].state = ended_by(runner[u].error)
    <3>1. /\ u \in DOMAIN tasks /\ tasks'[u].state = tasks[u].state
          /\ tasks'[u].revision \in {tasks[u].revision, tasks[u].revision + 1}
      BY <2>2 DEF RecordKept, SameTask
    <3>2. /\ runner[u].revision <= tasks[u].revision
          /\ runner[u].revision = tasks[u].revision =>
               tasks[u].state = ended_by(runner[u].error)
      BY <2>2, <3>1 DEF RunnerFits
    <3>3. tasks[u].revision \in Nat /\ runner[u].revision \in Nat
      BY <3>1, TasksGood, HistoryFacts DEF CoreInv, Record, Runner
    <3> QED
      BY <3>1, <3>2, <3>3
  <2> QED
    BY <1>2, <2>1, <2>2 DEF RunnerFits
<1> QED
  BY <1>1, <1>2

LEMMA OtherAttended ==
  ASSUME NEW u \in TaskIds, RecordKept(u), runner'[u] = runner[u],
         u \in cache' <=> u \in cache,
         reconciliation' \in {"enriching", "done"} /\ ~closed' =>
           reconciliation \in {"enriching", "done"} /\ ~closed,
         AttendedBy(u)
  PROVE  AttendedBy(u)'
<1>1. ASSUME u \in DOMAIN tasks'
      PROVE  /\ u \in DOMAIN tasks /\ tasks'[u].state = tasks[u].state
             /\ offers(tasks'[u]) <=> offers(tasks[u])
  BY <1>1 DEF RecordKept, SameTask, offers
<1>2. runner'[u].at = "failing" =>
        /\ u \in DOMAIN tasks'
        /\ tasks'[u].state \in {"recovering", "starting", "running", "stopping"}
  BY <1>1 DEF AttendedBy, RecordKept, is_active, ACTIVE_STATES
<1>3. runner'[u].at \in {"enrich", "render"} /\ u \in DOMAIN tasks' => ~is_active(tasks'[u])
  BY <1>1 DEF AttendedBy, is_active
<1>4. reconciliation' \in {"enriching", "done"} /\ ~closed' /\ u \in DOMAIN tasks' =>
        /\ is_active(tasks'[u]) => runner'[u].at \notin {"none", "enrich", "render"}
        /\ u \in cache' <=> offers(tasks'[u])
  BY <1>1 DEF AttendedBy, is_active
<1> QED
  BY <1>2, <1>3, <1>4 DEF AttendedBy

\* A step about one task.
LEMMA TaskStep ==
  ASSUME CoreInv, RunnersInv, NEW t \in TaskIds, OthersKept(t), OwnStep(t),
         serving', closed' = closed, reconciliation' \in {reconciliation, "failed", "done"},
         reconciliation' = "done" => reconciliation \in {"enriching", "done"},
         \A op \in retrying' : op.released => runner'[op.task].at \in {"none", "recover", "send"}
  PROVE  RunnersStep
<1>1. ASSUME NEW u \in TaskIds PROVE RunnerFits(u)'
  <2>1. CASE u = t
    BY <2>1 DEF OwnStep
  <2>2. CASE u # t
    BY <2>2, OtherFits DEF OthersKept, RunnersInv
  <2> QED
    BY <2>1, <2>2
<1>2. ASSUME Steady, AttendedInv, NEW u \in TaskIds PROVE AttendedBy(u)'
  <2>1. CASE u = t
    BY <1>2, <2>1 DEF OwnStep, AttendedInv
  <2>2. CASE u # t
    BY <1>2, <2>2, OtherAttended DEF OthersKept, AttendedInv
  <2> QED
    BY <2>1, <2>2
<1> QED
  BY <1>1, <1>2 DEF RunnersStep, RunnersInv, AttendedInv

\* The store is left alone.
LEMMA AllKept ==
  ASSUME CoreInv, tasks' = tasks
  PROVE  \A u \in TaskIds : RecordKept(u)
BY TasksGood DEF RecordKept, SameTask, CoreInv, Record

\* An update of one record, whose channel stays.
LEMMA UpdateKept ==
  ASSUME CoreInv, NEW t \in DOMAIN tasks, NEW candidate \in Record, persist_update(t, candidate)
  PROVE  /\ t \in TaskIds
         /\ \A u \in TaskIds : u # t => RecordKept(u)
         /\ outcome' = "failed" => tasks' = tasks
         /\ t \in DOMAIN tasks' => tasks'[t].channel = tasks[t].channel
         /\ outcome' # "failed" /\ t \in DOMAIN tasks' =>
              SameTask(candidate, tasks'[t]) /\ tasks'[t].revision = tasks[t].revision + 1
         /\ outcome' # "failed" /\ is_active(candidate) => t \in DOMAIN tasks'
         /\ Steady => written
         /\ valid_record(t, candidate)
<1>1. /\ DOMAIN tasks' \subseteq DOMAIN tasks
      /\ \A u \in DOMAIN tasks' : u # t => tasks'[u] = tasks[u]
      /\ t \in DOMAIN tasks' => tasks'[t] \in {tasks[t], stored(t, candidate)}
      /\ outcome' = "failed" => tasks' = tasks
      /\ outcome' # "failed" /\ t \in DOMAIN tasks' => tasks'[t] = stored(t, candidate)
      /\ outcome' # "failed" /\ is_active(candidate) => t \in DOMAIN tasks'
      /\ \A u \in DOMAIN tasks \ {t} : is_active(tasks[u]) => u \in DOMAIN tasks'
      /\ SameTask(candidate, stored(t, candidate))
      /\ stored(t, candidate).revision = tasks[t].revision + 1
  BY Updated DEF CoreInv
<1>2. \A u \in DOMAIN tasks : u \in TaskIds
  BY TasksGood DEF CoreInv
<1>3. \A u \in TaskIds : u # t => RecordKept(u)
  BY <1>1 DEF RecordKept, SameTask
<1>4. candidate.channel = tasks[t].channel /\ valid_record(t, candidate)
  BY DEF persist_update, compare_and_set, validate_update
<1>5. t \in DOMAIN tasks' => tasks'[t].channel = tasks[t].channel
  BY <1>1, <1>4 DEF SameTask
<1>6. Steady => written
  BY DEF Steady, written, persist_update, compare_and_set, commit
<1> QED
  BY <1>1, <1>2, <1>3, <1>4, <1>5, <1>6

\* A step of a runner.
LEMMA RunnerOwnStep ==
  ASSUME CoreInv, RunnersInv, NEW t \in TaskIds, NEW stage \in Stages \ {"none"},
         turn_of_runner(t, stage),
         NEW next, RunnerShape(next), move(t, next), quiet,
         cache' \in {cache, cache \cup {t}},
         \A u \in TaskIds : u # t => RecordKept(u), OwnStep(t)
  PROVE  RunnersStep
<1>1. runner[t].at # "none" /\ ~ \E op \in retrying : op.task = t /\ op.released
  BY DEF turn_of_runner
<1>2. serving
  BY <1>1, ShapeFacts DEF RunnersInv
<1>3. /\ UNCHANGED <<reconciliation, closed>>
      /\ runner'[t] = next
      /\ \A u \in TaskIds : u # t => runner'[u] = runner[u]
  BY MoveFacts DEF quiet
<1>4. OthersKept(t)
  BY <1>3 DEF OthersKept
<1>5. ASSUME NEW op \in retrying', op.released
      PROVE  runner'[op.task].at \in {"none", "recover", "send"}
  <2>1. PICK old \in retrying :
          op = IF old.task = t /\ next = Idle THEN [old EXCEPT !.released = TRUE] ELSE old
    BY DEF move
  <2>2. old \in [id : Interactions, task : TaskIds, released : BOOLEAN]
    BY DEF CoreInv, ServiceTypeOK
  <2>3. op.task = old.task
    BY <2>1, <2>2
  <2>4. CASE old.task = t
    <3>1. next = Idle
      BY <1>1, <1>5, <2>1, <2>4
    <3> QED
      BY <1>3, <2>3, <2>4, <3>1, ShapeFacts
  <2>5. CASE old.task # t
    <3>1. old.released
      BY <1>5, <2>1, <2>5
    <3> QED
      BY <1>3, <2>2, <2>3, <2>5, <3>1 DEF RunnersInv
  <2> QED
    BY <2>4, <2>5
<1>6. serving'
  BY <1>2, <1>3 DEF serving
<1>7. reconciliation \in {"pending", "enriching", "failed", "done"}
  BY DEF CoreInv, ServiceTypeOK
<1> QED
  BY <1>2, <1>3, <1>4, <1>5, <1>6, <1>7, TaskStep DEF serving

\* The runner goes on without a write.
LEMMA RunnerRests ==
  ASSUME CoreInv, RunnersInv, NEW t \in TaskIds, NEW stage \in Stages \ {"none"},
         turn_of_runner(t, stage),
         NEW next, RunnerShape(next), move(t, next), quiet, UNCHANGED storeVars,
         cache' \in {cache, cache \cup {t}}, t \in DOMAIN tasks => cache' = cache,
         next.at \in Attended => t \in DOMAIN tasks /\ tasks[t].state \in StatesAt(next.at),
         next.at \in {"context", "ready", "turn"} => next.channel = tasks[t].channel,
         next.at # "enrich",
         next.at = "failing" => /\ t \in DOMAIN tasks
                                /\ tasks[t].state \in {"recovering", "starting", "running", "stopping"},
         next.at \in {"none", "render"} /\ Steady /\ AttendedBy(t) /\ t \in DOMAIN tasks =>
           ~is_active(tasks[t])
  PROVE  RunnersStep
<1>1. tasks' = tasks /\ UNCHANGED <<reconciliation, closed>> /\ runner'[t] = next
  BY MoveFacts DEF storeVars, quiet
<1>2. RunnerFits(t)'
  BY <1>1 DEF RunnerFits
<1>3. ASSUME Steady, AttendedBy(t) PROVE AttendedBy(t)'
  <2>1. t \in DOMAIN tasks /\ is_active(tasks[t]) => next.at \notin {"none", "enrich", "render"}
    BY <1>3
  <2>2. reconciliation' \in {"enriching", "done"} /\ ~closed' /\ t \in DOMAIN tasks' =>
          (t \in cache' <=> offers(tasks'[t]))
    BY <1>1, <1>3 DEF AttendedBy, offers
  <2> QED
    BY <1>1, <2>1, <2>2 DEF AttendedBy, is_active
<1> QED
  BY <1>1, <1>2, <1>3, AllKept, RunnerOwnStep DEF OwnStep

\* The runner stores its record and goes on.
LEMMA RunnerStores ==
  ASSUME CoreInv, RunnersInv, NEW t \in TaskIds, NEW stage \in Stages \ {"none"},
         turn_of_runner(t, stage), t \in DOMAIN tasks,
         NEW candidate \in Record, persist_update(t, candidate),
         NEW next, RunnerShape(next), NEW otherwise, RunnerShape(otherwise),
         proceed(t, next, otherwise), quiet,
         cache' \in {cache, cache \cup {t}},
         otherwise.at \in {"none", "failing"}, next.at \notin {"none", "failing"},
         next.at \in Attended => candidate.state \in StatesAt(next.at),
         next.at \in {"context", "ready", "turn"} => next.channel = tasks[t].channel,
         next.at = "enrich" => /\ next.revision = tasks[t].revision + 1
                               /\ candidate.state = ended_by(next.error),
         next.at \in {"enrich", "render"} => ~is_active(candidate),
         (t \in cache <=> offers(tasks[t])) => (t \in cache' <=> offers(candidate))
  PROVE  RunnersStep
<1>1. /\ \A u \in TaskIds : u # t => RecordKept(u)
      /\ t \in DOMAIN tasks' => tasks'[t].channel = tasks[t].channel
      /\ outcome' # "failed" /\ t \in DOMAIN tasks' =>
           SameTask(candidate, tasks'[t]) /\ tasks'[t].revision = tasks[t].revision + 1
      /\ outcome' # "failed" /\ is_active(candidate) => t \in DOMAIN tasks'
      /\ Steady => written
  BY UpdateKept
<1>2. PICK n : move(t, n) /\ n = IF written THEN next ELSE otherwise
  BY DEF proceed
<1>3. RunnerShape(n)
  BY <1>2
<1>4. runner'[t] = n /\ UNCHANGED <<reconciliation, closed>>
  BY <1>2, <1>3, MoveFacts DEF quiet
<1>5. written => outcome' # "failed"
  BY DEF written
<1>6. CASE ~written
  <2>1. n.at \notin Attended \cup {"enrich", "context", "ready", "turn"}
    BY <1>2, <1>6, StageFacts
  <2>2. RunnerFits(t)'
    BY <1>4, <2>1 DEF RunnerFits
  <2> QED
    BY <1>1, <1>2, <1>3, <1>6, <2>2, RunnerOwnStep DEF OwnStep
<1>7. CASE written
  <2>1. next.at \in Attended => t \in DOMAIN tasks' /\ tasks'[t].state \in StatesAt(next.at)
    <3>1. next.at \in Attended => is_active(candidate)
      BY StageFacts DEF is_active
    <3> QED
      BY <1>1, <1>5, <1>7, <3>1 DEF SameTask
  <2>2. next.at \in {"context", "ready", "turn"} => next.channel = tasks'[t].channel
    BY <1>1, <2>1, StageFacts
  <2>3. next.at = "enrich" /\ t \in DOMAIN tasks' =>
          /\ next.revision = tasks'[t].revision
          /\ tasks'[t].state = ended_by(next.error)
    BY <1>1, <1>5, <1>7 DEF SameTask
  <2>4. next.revision \in Nat
    BY DEF RunnerShape, Runner
  <2>5. RunnerFits(t)'
    BY <1>2, <1>4, <1>7, <2>1, <2>2, <2>3, <2>4 DEF RunnerFits
  <2>6. ASSUME AttendedBy(t) PROVE AttendedBy(t)'
    <3>1. t \in DOMAIN tasks' =>
            /\ is_active(tasks'[t]) <=> is_active(candidate)
            /\ offers(tasks'[t]) <=> offers(candidate)
      BY <1>1, <1>5, <1>7 DEF SameTask, is_active, offers
    <3>2. reconciliation' \in {"enriching", "done"} /\ ~closed' =>
            (t \in cache' <=> offers(candidate))
      BY <1>4, <2>6 DEF AttendedBy
    <3> QED
      BY <1>2, <1>4, <1>7, <3>1, <3>2 DEF AttendedBy
  <2> QED
    BY <1>1, <1>2, <1>3, <2>5, <2>6, RunnerOwnStep DEF OwnStep
<1> QED
  BY <1>6, <1>7

\* A record that is not a failed delivery offers nothing.
LEMMA NoOffer ==
  ASSUME NEW t, NEW r, valid_record(t, r), r.state # "delivery_failed"
  PROVE  ~offers(r)
BY DEF offers, valid_record

\* What a runner finds at an await.
LEMMA RunnerFinds ==
  ASSUME CoreInv, RunnersInv, NEW t \in TaskIds
  PROVE  /\ RunnerFits(t) /\ clock \in Nat
         /\ t \in DOMAIN tasks =>
              /\ tasks[t] \in Record /\ valid_record(t, tasks[t])
              /\ tasks[t].state # "delivery_failed" => ~offers(tasks[t])
<1>1. t \in DOMAIN tasks => tasks[t] \in Record /\ valid_record(t, tasks[t])
  BY TasksGood DEF CoreInv
<1> QED
  BY <1>1, NoOffer DEF RunnersInv, CoreInv, IInv

LEMMA StoppingFits ==
  ASSUME CoreInv, RunnersInv, NEW t \in TaskIds, NEW stage \in Stages \ {"none"},
         turn_of_runner(t, stage), t \in DOMAIN tasks, tasks[t].state = "stopping",
         NEW otherwise, RunnerShape(otherwise), otherwise.at \in {"none", "failing"},
         finish_stopping(t, otherwise), quiet, UNCHANGED cache
  PROVE  RunnersStep
<1>1. tasks[t] \in Record /\ clock \in Nat /\ ~offers(tasks[t])
  BY RunnerFinds
<1>2. PICK candidate : candidate = advance(tasks[t], "stopped", clock)
  OBVIOUS
<1>3. candidate \in Record /\ candidate.state = "stopped"
  BY <1>1, <1>2, CandidateFacts DEF States
<1>4. persist_update(t, candidate) /\ proceed(t, at("render"), otherwise)
  BY <1>2 DEF finish_stopping
<1>5. RunnerShape(at("render")) /\ at("render").at = "render"
  BY ShapeFacts
<1>6. ~offers(candidate)
  BY <1>3, <1>4, UpdateKept, NoOffer
<1>7. ~is_active(candidate)
  BY <1>3 DEF is_active, ACTIVE_STATES
<1> QED
  BY <1>1, <1>3, <1>4, <1>5, <1>6, <1>7, StageFacts, RunnerStores

LEMMA CardDoneFits ==
  ASSUME CoreInv, RunnersInv, NEW t \in TaskIds, CardDone(t)
  PROVE  RunnersStep
<1>1. /\ turn_of_runner(t, "card") /\ runner[t].at = "card" /\ t \in DOMAIN tasks
      /\ quiet /\ UNCHANGED cache /\ "card" \in Stages \ {"none"}
  BY DEF CardDone, turn_of_runner, known, Stages
<1>2. /\ tasks[t] \in Record /\ clock \in Nat
      /\ tasks[t].state \in {"starting", "stopping"} /\ ~offers(tasks[t])
  BY <1>1, RunnerFinds, StageFacts DEF RunnerFits
<1>3. /\ RunnerShape(at("begin")) /\ at("begin").at = "begin"
      /\ RunnerShape(failing("other")) /\ failing("other").at = "failing"
  BY ShapeFacts
<1>4. CASE UNCHANGED storeVars /\ move(t, at("begin"))
  BY <1>1, <1>2, <1>3, <1>4, StageFacts, RunnerRests
<1>5. CASE /\ persist_update(t, attach_card(tasks[t], clock))
           /\ proceed(t, at("begin"), failing("other"))
  <2>1. PICK candidate : candidate = attach_card(tasks[t], clock)
    OBVIOUS
  <2>2. candidate \in Record /\ SameTask(tasks[t], candidate)
    BY <1>2, <2>1, CandidateFacts
  <2>3. candidate.state \in {"starting", "stopping"} /\ ~offers(candidate)
    BY <1>2, <2>2 DEF offers, SameTask
  <2>4. persist_update(t, candidate)
    BY <1>5, <2>1
  <2> QED
    BY <1>1, <1>2, <1>3, <1>5, <2>2, <2>3, <2>4, StageFacts, RunnerStores
<1> QED
  BY <1>4, <1>5 DEF CardDone

LEMMA RecoveredFits ==
  ASSUME CoreInv, RunnersInv, NEW t \in TaskIds, Recovered(t)
  PROVE  RunnersStep
<1>1. /\ turn_of_runner(t, "recover") /\ runner[t].at = "recover" /\ t \in DOMAIN tasks
      /\ quiet /\ UNCHANGED cache /\ "recover" \in Stages \ {"none"}
  BY DEF Recovered, turn_of_runner, known, Stages
<1>2. /\ tasks[t] \in Record /\ clock \in Nat
      /\ tasks[t].state \in {"recovering", "stopping"} /\ ~offers(tasks[t])
  BY <1>1, RunnerFinds, StageFacts DEF RunnerFits
<1>3. /\ RunnerShape(at("begin")) /\ at("begin").at = "begin"
      /\ RunnerShape(failing("other")) /\ failing("other").at = "failing"
  BY ShapeFacts
<1>4. CASE tasks[t].state = "stopping" /\ finish_stopping(t, failing("other"))
  BY <1>1, <1>3, <1>4, StoppingFits
<1>5. CASE /\ persist_update(t, advance(tasks[t], "starting", clock))
           /\ proceed(t, at("begin"), failing("other"))
  <2>1. PICK candidate : candidate = advance(tasks[t], "starting", clock)
    OBVIOUS
  <2>2. candidate \in Record /\ candidate.state = "starting"
    BY ZenonT(60), <1>2, <2>1, CandidateFacts DEF States
  <2>3. persist_update(t, candidate)
    BY <1>5, <2>1
  <2>4. ~offers(candidate)
    BY <2>2, <2>3, <1>1, UpdateKept, NoOffer
  <2> QED
    BY <1>1, <1>2, <1>3, <1>5, <2>2, <2>3, <2>4, StageFacts, RunnerStores
<1> QED
  BY <1>2, <1>4, <1>5 DEF Recovered

LEMMA BeginFits ==
  ASSUME CoreInv, RunnersInv, NEW t \in TaskIds, Begin(t)
  PROVE  RunnersStep
<1>1. /\ turn_of_runner(t, "begin") /\ runner[t].at = "begin" /\ t \in DOMAIN tasks
      /\ quiet /\ UNCHANGED cache /\ "begin" \in Stages \ {"none"}
  BY DEF Begin, turn_of_runner, known, Stages
<1>2. /\ tasks[t] \in Record /\ clock \in Nat
      /\ tasks[t].state \in {"starting", "stopping"} /\ ~offers(tasks[t])
  BY <1>1, RunnerFinds, StageFacts DEF RunnerFits
<1>3. PICK c \in Channels : c = tasks[t].channel
  BY <1>2 DEF Record
<1>4. /\ RunnerShape(inside("context", c)) /\ inside("context", c).at = "context"
      /\ inside("context", c).channel = c
      /\ RunnerShape(failing("other")) /\ failing("other").at = "failing"
  BY ShapeFacts
<1>5. CASE tasks[t].state = "stopping" /\ finish_stopping(t, failing("other"))
  BY <1>1, <1>4, <1>5, StoppingFits
<1>6. CASE /\ persist_update(t, advance(tasks[t], "running", clock))
           /\ proceed(t, inside("context", tasks[t].channel), failing("other"))
  <2>1. PICK candidate : candidate = advance(tasks[t], "running", clock)
    OBVIOUS
  <2>2. candidate \in Record /\ candidate.state = "running"
    BY ZenonT(60), <1>2, <2>1, CandidateFacts DEF States
  <2>3. persist_update(t, candidate) /\ proceed(t, inside("context", c), failing("other"))
    BY <1>3, <1>6, <2>1
  <2>4. ~offers(candidate)
    BY <2>2, <2>3, <1>1, UpdateKept, NoOffer
  <2> QED
    BY <1>1, <1>2, <1>3, <1>4, <2>2, <2>3, <2>4, StageFacts, RunnerStores
<1> QED
  BY <1>2, <1>5, <1>6 DEF Begin

LEMMA TurnReservedFits ==
  ASSUME CoreInv, RunnersInv, NEW t \in TaskIds, TurnReserved(t)
  PROVE  RunnersStep
<1>1. /\ turn_of_runner(t, "context") /\ runner[t].at = "context"
      /\ quiet /\ UNCHANGED storeVars /\ UNCHANGED cache /\ "context" \in Stages \ {"none"}
  BY DEF TurnReserved, turn_of_runner, Stages
<1>2. /\ t \in DOMAIN tasks /\ tasks[t].state \in {"running", "stopping"}
      /\ runner[t].channel = tasks[t].channel
  BY <1>1, RunnerFinds, StageFacts DEF RunnerFits
<1>3. PICK next : next = IF reserved(runner[t].channel)
                           THEN failing("other") ELSE inside("ready", runner[t].channel)
  OBVIOUS
<1>4. move(t, next)
  BY <1>3 DEF TurnReserved
<1>5. runner[t].channel \in Channels
  BY <1>1, HistoryFacts DEF RunnerShape
<1>6. /\ RunnerShape(next) /\ next.at \in {"failing", "ready"}
      /\ next.at = "ready" => next.channel = tasks[t].channel
  BY <1>2, <1>3, <1>5, ShapeFacts
<1> QED
  BY <1>1, <1>2, <1>4, <1>6, StageFacts, RunnerRests

LEMMA TurnStartsFits ==
  ASSUME CoreInv, RunnersInv, NEW t \in TaskIds, TurnStarts(t)
  PROVE  RunnersStep
<1>1. /\ turn_of_runner(t, "ready") /\ runner[t].at = "ready"
      /\ quiet /\ UNCHANGED storeVars /\ UNCHANGED cache /\ "ready" \in Stages \ {"none"}
  BY DEF TurnStarts, turn_of_runner, Stages
<1>2. /\ t \in DOMAIN tasks /\ tasks[t].state \in {"running", "stopping"}
      /\ runner[t].channel = tasks[t].channel
  BY <1>1, RunnerFinds, StageFacts DEF RunnerFits
<1>3. PICK c \in Channels : c = runner[t].channel
  BY <1>1, HistoryFacts DEF RunnerShape
<1>4. move(t, inside("turn", c))
  BY <1>3 DEF TurnStarts
<1>5. /\ RunnerShape(inside("turn", c)) /\ inside("turn", c).at = "turn"
      /\ inside("turn", c).channel = c
  BY ShapeFacts
<1> QED
  BY <1>1, <1>2, <1>3, <1>4, <1>5, StageFacts, RunnerRests

\* Where an exception is on its way, or the runner ends, without a write.
LEMMA GivesUpFits ==
  ASSUME CoreInv, RunnersInv, NEW t \in TaskIds,
         \/ \E error \in Errors : RunFails(t, error)
         \/ PrepareFails(t) \/ RunnerDone(t) \/ RunnerLosesTask(t)
  PROVE  RunnersStep
<1>1. quiet /\ UNCHANGED storeVars /\ UNCHANGED cache
  BY DEF RunFails, PrepareFails, RunnerDone, RunnerLosesTask
<1>2. CASE (\E error \in Errors : RunFails(t, error)) \/ PrepareFails(t)
  <2>1. PICK stage \in {"recover", "context", "ready", "turn", "prepare"}, error \in Errors :
          turn_of_runner(t, stage) /\ move(t, failing(error))
    BY <1>2, ServiceAssumption DEF RunFails, PrepareFails
  <2>2. stage \in Stages \ {"none"} /\ runner[t].at = stage
    BY <2>1 DEF turn_of_runner, Stages
  <2>3. t \in DOMAIN tasks /\ tasks[t].state \in {"recovering", "running", "stopping"}
    BY <2>1, <2>2, RunnerFinds, StageFacts DEF RunnerFits
  <2>4. RunnerShape(failing(error)) /\ failing(error).at = "failing"
    BY ShapeFacts
  <2> QED
    BY <1>1, <2>1, <2>2, <2>3, <2>4, StageFacts, RunnerRests
<1>3. CASE RunnerDone(t) \/ RunnerLosesTask(t)
  <2>1. PICK stage \in Stages \ {"none"} :
          turn_of_runner(t, stage) /\ move(t, Idle) /\ (stage = "render" \/ t \notin DOMAIN tasks)
    BY <1>3 DEF RunnerDone, RunnerLosesTask, known, Stages
  <2>2. RunnerShape(Idle) /\ Idle.at = "none"
    BY ShapeFacts
  <2>3. AttendedBy(t) /\ t \in DOMAIN tasks => ~is_active(tasks[t])
    BY <2>1 DEF AttendedBy, turn_of_runner
  <2> QED
    BY <1>1, <2>1, <2>2, <2>3, StageFacts, RunnerRests
<1> QED
  BY <1>2, <1>3

LEMMA TurnRepliesFits ==
  ASSUME CoreInv, RunnersInv, NEW t \in TaskIds, TurnReplies(t)
  PROVE  RunnersStep
<1>1. /\ turn_of_runner(t, "turn") /\ runner[t].at = "turn" /\ t \in DOMAIN tasks
      /\ quiet /\ UNCHANGED cache /\ "turn" \in Stages \ {"none"}
  BY DEF TurnReplies, turn_of_runner, known, Stages
<1>2. tasks[t].state \in {"running", "stopping"}
  BY <1>1, RunnerFinds, StageFacts DEF RunnerFits
<1>3. /\ RunnerShape(at("prepare")) /\ at("prepare").at = "prepare"
      /\ RunnerShape(failing("other")) /\ failing("other").at = "failing"
  BY ShapeFacts
<1>4. CASE tasks[t].state = "stopping" /\ finish_stopping(t, failing("other"))
  BY <1>1, <1>3, <1>4, StoppingFits
<1>5. CASE UNCHANGED storeVars /\ move(t, at("prepare"))
  BY <1>1, <1>2, <1>3, <1>5, StageFacts, RunnerRests
<1> QED
  BY <1>2, <1>4, <1>5 DEF TurnReplies

LEMMA PreparedFits ==
  ASSUME CoreInv, RunnersInv, NEW t \in TaskIds, Prepared(t)
  PROVE  RunnersStep
<1>1. /\ turn_of_runner(t, "prepare") /\ runner[t].at = "prepare" /\ t \in DOMAIN tasks
      /\ quiet /\ UNCHANGED cache /\ "prepare" \in Stages \ {"none"}
  BY DEF Prepared, turn_of_runner, known, Stages
<1>2. /\ tasks[t] \in Record /\ clock \in Nat
      /\ tasks[t].state \in {"running", "stopping"} /\ ~offers(tasks[t])
  BY <1>1, RunnerFinds, StageFacts DEF RunnerFits
<1>3. /\ RunnerShape(at("send")) /\ at("send").at = "send"
      /\ RunnerShape(failing("other")) /\ failing("other").at = "failing"
  BY ShapeFacts
<1>4. CASE tasks[t].state = "stopping" /\ finish_stopping(t, failing("other"))
  BY <1>1, <1>3, <1>4, StoppingFits
<1>5. CASE /\ persist_update(t, advance(tasks[t], "delivering", clock))
           /\ proceed(t, at("send"), failing("other"))
  <2>1. PICK candidate : candidate = advance(tasks[t], "delivering", clock)
    OBVIOUS
  <2>2. candidate \in Record /\ candidate.state = "delivering"
    BY ZenonT(60), <1>2, <2>1, CandidateFacts DEF States
  <2>3. persist_update(t, candidate)
    BY <1>5, <2>1
  <2>4. ~offers(candidate)
    BY <2>2, <2>3, <1>1, UpdateKept, NoOffer
  <2> QED
    BY <1>1, <1>2, <1>3, <1>5, <2>2, <2>3, <2>4, StageFacts, RunnerStores
<1> QED
  BY <1>2, <1>4, <1>5 DEF Prepared

\* The runner was sending: its record is in delivery and offers nothing.
LEMMA SendingFinds ==
  ASSUME CoreInv, RunnersInv, NEW t \in TaskIds, runner[t].at = "send"
  PROVE  /\ t \in DOMAIN tasks /\ delivering(t) /\ tasks[t] \in Record /\ clock \in Nat
         /\ ~offers(tasks[t])
BY RunnerFinds, StageFacts DEF RunnerFits, delivering, known

LEMMA SentFits ==
  ASSUME CoreInv, RunnersInv, NEW t \in TaskIds, Sent(t)
  PROVE  RunnersStep
<1>1. /\ turn_of_runner(t, "send") /\ runner[t].at = "send"
      /\ quiet /\ UNCHANGED cache /\ "send" \in Stages \ {"none"}
  BY DEF Sent, turn_of_runner, Stages
<1>2. /\ t \in DOMAIN tasks /\ delivering(t) /\ tasks[t] \in Record /\ clock \in Nat
      /\ ~offers(tasks[t])
  BY <1>1, SendingFinds
<1>3. PICK candidate : candidate = complete(tasks[t], clock)
  OBVIOUS
<1>4. candidate \in Record /\ candidate.state = "completed"
  BY <1>2, <1>3, CandidateFacts
<1>5. persist_update(t, candidate) /\ proceed(t, at("render"), Idle)
  BY <1>2, <1>3 DEF Sent
<1>6. /\ RunnerShape(at("render")) /\ at("render").at = "render"
      /\ RunnerShape(Idle) /\ Idle.at = "none"
  BY ShapeFacts
<1>7. ~offers(candidate) /\ ~is_active(candidate)
  <2>1. ~offers(candidate)
    BY <1>2, <1>4, <1>5, UpdateKept, NoOffer
  <2> QED
    BY <1>4, <2>1 DEF is_active, ACTIVE_STATES
<1> QED
  BY <1>1, <1>2, <1>4, <1>5, <1>6, <1>7, StageFacts, RunnerStores

LEMMA SendFailsFits ==
  ASSUME CoreInv, RunnersInv, NEW t \in TaskIds, NEW definitive \in BOOLEAN,
         SendFails(t, definitive)
  PROVE  RunnersStep
<1>1. /\ turn_of_runner(t, "send") /\ runner[t].at = "send"
      /\ quiet /\ "send" \in Stages \ {"none"}
      /\ cache' = IF definitive THEN cache \cup {t} ELSE cache
  BY DEF SendFails, turn_of_runner, Stages
<1>2. /\ t \in DOMAIN tasks /\ delivering(t) /\ tasks[t] \in Record /\ clock \in Nat
      /\ ~offers(tasks[t])
  BY <1>1, SendingFinds
<1>3. PICK candidate : candidate = delivery_failed(tasks[t], definitive, clock)
  OBVIOUS
<1>4. /\ candidate \in Record /\ candidate.state = "delivery_failed"
      /\ offers(candidate) <=> definitive
  BY SMTT(30), <1>2, <1>3, CandidateFacts
<1>5. persist_update(t, candidate) /\ proceed(t, at("render"), Idle)
  BY <1>2, <1>3 DEF SendFails
<1>6. /\ RunnerShape(at("render")) /\ at("render").at = "render"
      /\ RunnerShape(Idle) /\ Idle.at = "none"
  BY ShapeFacts
<1>7. ~is_active(candidate)
  BY <1>4 DEF is_active, ACTIVE_STATES
<1>8. (t \in cache <=> offers(tasks[t])) => (t \in cache' <=> offers(candidate))
  BY <1>1, <1>2, <1>4
<1>9. cache' \in {cache, cache \cup {t}}
  BY <1>1
<1> QED
  BY <1>1, <1>2, <1>4, <1>5, <1>6, <1>7, <1>8, <1>9, StageFacts, RunnerStores

LEMMA RecordFailureFits ==
  ASSUME CoreInv, RunnersInv, NEW t \in TaskIds, RecordFailure(t)
  PROVE  RunnersStep
<1>1. /\ turn_of_runner(t, "failing") /\ runner[t].at = "failing" /\ t \in DOMAIN tasks
      /\ quiet /\ UNCHANGED cache /\ "failing" \in Stages \ {"none"}
  BY DEF RecordFailure, turn_of_runner, known, Stages
<1>2. tasks[t] \in Record /\ clock \in Nat /\ (tasks[t].state # "delivery_failed" => ~offers(tasks[t]))
  BY <1>1, RunnerFinds
<1>3. PICK error \in Errors : error = runner[t].error
  BY <1>1, HistoryFacts DEF RunnerShape
<1>4. /\ RunnerShape(at("render")) /\ at("render").at = "render"
      /\ RunnerShape(Idle) /\ Idle.at = "none"
  BY ShapeFacts
<1>5. CASE tasks[t].state = "stopping" /\ finish_stopping(t, Idle)
  BY <1>1, <1>4, <1>5, StoppingFits
<1>6. CASE /\ tasks[t].state # "stopping" /\ failure_target(tasks[t], error) = None
           /\ UNCHANGED storeVars /\ move(t, Idle)
  <2>1. AttendedBy(t) => tasks[t].state \in {"recovering", "starting", "running", "stopping"}
    BY <1>1 DEF AttendedBy
  <2>2. tasks[t].state \in {"recovering", "starting", "running"} =>
          failure_target(tasks[t], error) \in {"failed", "timed_out", "interrupted"}
    BY ErrorsAssumption DEF failure_target
  <2>3. AttendedBy(t) => FALSE
    BY <1>6, <2>1, <2>2, NoneAssumption DEF States
  <2> QED
    BY <1>1, <1>4, <1>6, <2>3, StageFacts, RunnerRests
<1>7. CASE /\ failure_target(tasks[t], runner[t].error) # None
           /\ persist_update(t, fail(tasks[t], runner[t].error, clock))
           /\ proceed(t, IF failure_cause(tasks[t], runner[t].error) # None
                           THEN [at("enrich") EXCEPT !.error = runner[t].error,
                                                     !.revision = tasks[t].revision + 1]
                           ELSE at("render"), Idle)
  <2>1. PICK candidate : candidate = fail(tasks[t], error, clock)
    OBVIOUS
  <2>2. /\ candidate \in Record
        /\ candidate.state \in {"failed", "timed_out", "interrupted"}
        /\ tasks[t].state \in {"recovering", "starting", "running"}
    BY <1>2, <1>3, <1>7, <2>1, FailFacts
  <2>3. PICK n \in Nat : n = tasks[t].revision + 1
    BY <1>2 DEF Record
  <2>4. PICK enrich : enrich = [at("enrich") EXCEPT !.error = error, !.revision = n]
    OBVIOUS
  <2>5. PICK next : next = IF failure_cause(tasks[t], error) # None
                             THEN enrich ELSE at("render")
    OBVIOUS
  <2>6. persist_update(t, candidate) /\ proceed(t, next, Idle)
    BY <1>3, <1>7, <2>1, <2>3, <2>4, <2>5
  <2>7. failure_cause(tasks[t], error) # None =>
          /\ error \in Errors \cap {"timeout", "runtime_disconnected"}
          /\ tasks[t].state = "running"
          /\ failure_target(tasks[t], error) = ended_by(error)
    BY DEF failure_cause, failure_target, ended_by
  <2>8. enrich = [at |-> "enrich", channel |-> None, error |-> error, revision |-> n]
    BY <2>4 DEF at
  <2>9. failure_cause(tasks[t], error) # None => RunnerShape(enrich)
    BY <2>7, <2>8 DEF RunnerShape, Runner, Stages
  <2>10. RunnerShape(next) /\ next.at \in {"enrich", "render"}
    BY <1>4, <2>5, <2>8, <2>9
  <2>11. candidate.state = failure_target(tasks[t], error)
    BY <1>2, <1>3, <1>7, <2>1, FailFacts
  <2>12. next.at = "enrich" => /\ next.revision = tasks[t].revision + 1
                               /\ candidate.state = ended_by(next.error)
    BY <1>4, <2>3, <2>5, <2>7, <2>8, <2>11
  <2>13. ~is_active(candidate) /\ ~offers(tasks[t])
    BY <1>2, <2>2 DEF is_active, ACTIVE_STATES
  <2>14. ~offers(candidate)
    BY <1>1, <2>2, <2>6, UpdateKept, NoOffer
  <2> QED
    BY <1>1, <1>4, <2>2, <2>6, <2>10, <2>12, <2>13, <2>14, StageFacts, RunnerStores
<1> QED
  BY <1>3, <1>5, <1>6, <1>7 DEF RecordFailure

LEMMA EnrichFits ==
  ASSUME CoreInv, RunnersInv, NEW t \in TaskIds, Enrich(t)
  PROVE  RunnersStep
<1>1. /\ turn_of_runner(t, "enrich") /\ runner[t].at = "enrich" /\ t \in DOMAIN tasks
      /\ quiet /\ UNCHANGED cache /\ "enrich" \in Stages \ {"none"}
  BY DEF Enrich, turn_of_runner, known, Stages
<1>2. tasks[t] \in Record /\ clock \in Nat /\ (tasks[t].state # "delivery_failed" => ~offers(tasks[t]))
  BY <1>1, RunnerFinds
<1>3. PICK error \in {"timeout", "runtime_disconnected"} : error = runner[t].error
  BY <1>1, HistoryFacts DEF RunnerShape
<1>4. /\ RunnerShape(at("render")) /\ at("render").at = "render"
      /\ RunnerShape(Idle) /\ Idle.at = "none"
  BY ShapeFacts
<1>5. CASE UNCHANGED storeVars /\ move(t, at("render"))
  <2>1. AttendedBy(t) => ~is_active(tasks[t])
    BY <1>1 DEF AttendedBy
  <2> QED
    BY <1>1, <1>4, <1>5, <2>1, StageFacts, RunnerRests
<1>6. CASE /\ tasks[t].revision = runner[t].revision
           /\ \E persisted \in BOOLEAN :
                persist_update(t, with_failure(tasks[t],
                  classify_agent_failure(runner[t].error,
                    persisted /\ ~active_turn(tasks[t].channel)), clock))
           /\ proceed(t, at("render"), Idle)
  <2>1. PICK persisted \in BOOLEAN :
          persist_update(t, with_failure(tasks[t],
            classify_agent_failure(error, persisted /\ ~active_turn(tasks[t].channel)), clock))
    BY <1>3, <1>6
  <2>2. PICK failure : failure = classify_agent_failure(error,
                                   persisted /\ ~active_turn(tasks[t].channel))
    OBVIOUS
  <2>3. failure \in Failure
    BY <2>2 DEF classify_agent_failure, failure_of, Failure, Categories, RetryModes
  <2>4. PICK candidate : candidate = with_failure(tasks[t], failure, clock)
    OBVIOUS
  <2>5. candidate \in Record /\ candidate.state = tasks[t].state
    BY ZenonT(60), <1>2, <2>3, <2>4, CandidateFacts
  <2>6. tasks[t].state \in {"timed_out", "interrupted"}
    BY <1>1, <1>6, RunnerFinds DEF RunnerFits, ended_by
  <2>7. persist_update(t, candidate)
    BY <2>1, <2>2, <2>4
  <2>8. ~offers(candidate) /\ ~offers(tasks[t])
    BY <1>1, <1>2, <2>5, <2>6, <2>7, UpdateKept, NoOffer
  <2>9. ~is_active(candidate)
    BY <2>5, <2>6 DEF is_active, ACTIVE_STATES
  <2> QED
    BY <1>1, <1>4, <1>6, <2>5, <2>7, <2>8, <2>9, StageFacts, RunnerStores
<1> QED
  BY <1>5, <1>6 DEF Enrich

LEMMA RunnerStepsFit ==
  ASSUME CoreInv, RunnersInv, NEW t \in TaskIds, RunnerStep(t)
  PROVE  RunnersStep
BY CardDoneFits, RecoveredFits, BeginFits, TurnReservedFits, TurnStartsFits, GivesUpFits,
   TurnRepliesFits, PreparedFits, SentFits, SendFailsFits, RecordFailureFits, EnrichFits
   DEF RunnerStep

\* Steps that change no record, runner or reply.
LEMMA QuietFits ==
  ASSUME CoreInv, RunnersInv, tasks' = tasks, UNCHANGED <<runner, cache, closed>>,
         reconciliation' \in {reconciliation, "done"},
         reconciliation' = "done" => reconciliation \in {"enriching", "done"},
         \A op \in retrying' : op \notin retrying =>
                               serving /\ (op.released => runner[op.task].at = "none")
  PROVE  RunnersStep
<1>1. \A u \in TaskIds : RecordKept(u)
  BY AllKept
<1>2. \A u \in TaskIds : RunnerFits(u)'
  BY <1>1, OtherFits DEF RunnersInv
<1>3. AttendedInv => AttendedInv'
  BY <1>1, OtherAttended DEF AttendedInv
<1>4. ~serving' => ~serving
  BY DEF serving
<1>5. ~serving' => (\A t \in TaskIds : runner'[t] = Idle) /\ retrying' = {} /\ cache' = {}
  BY <1>4 DEF RunnersInv, Idle, at
<1>6. \A op \in retrying' : op.released => runner'[op.task].at \in {"none", "recover", "send"}
  BY DEF RunnersInv
<1> QED
  BY <1>2, <1>3, <1>5, <1>6 DEF RunnersStep, RunnersInv

LEMMA QuietOperationsFit ==
  ASSUME CoreInv, RunnersInv, ~EarlyIntake,
         \/ \E i \in Interactions, t \in DOMAIN tasks :
              Steer(i, t) \/ StopAgain(i, t) \/ RetryRequested(i, t)
         \/ \E op \in retrying : RetryRefused(op)
         \/ ReconcileDone \/ Tick \/ UNCHANGED vars
  PROVE  RunnersStep
<1>1. /\ tasks' = tasks /\ UNCHANGED <<runner, cache, closed>>
      /\ reconciliation' \in {reconciliation, "done"}
      /\ reconciliation' = "done" => reconciliation \in {"enriching", "done"}
  BY DEF Steer, StopAgain, RetryRequested, RetryRefused, ReconcileDone, Tick, tick, vars,
         storeVars, serviceVars
<1>2. ASSUME NEW op \in retrying', op \notin retrying
      PROVE  serving /\ (op.released => runner[op.task].at = "none")
  <2>1. PICK i \in Interactions, t \in DOMAIN tasks :
          accepting /\ op = [id |-> i, task |-> t, released |-> ~live(t)]
    BY <1>2 DEF Steer, StopAgain, RetryRequested, RetryRefused, ReconcileDone, Tick,
                vars, serviceVars
  <2>2. op.task = t /\ op.released = ~live(t)
    BY <2>1
  <2> QED
    BY <2>1, <2>2, ShapeFacts DEF live, accepting, serving
<1>3. \A op \in retrying' : op \notin retrying =>
                               serving /\ (op.released => runner[op.task].at = "none")
  BY <1>2
<1> QED
  BY <1>1, <1>3, QuietFits

\* A user's step about one task.
LEMMA UserOwnStep ==
  ASSUME CoreInv, RunnersInv, ~EarlyIntake, accepting, NEW t \in TaskIds,
         OthersKept(t), OwnStep(t), UNCHANGED <<retrying, reconciliation, closed>>,
         runner' = runner \/ t = nextId
  PROVE  RunnersStep
<1>1. serving /\ serving'
  BY DEF accepting, serving
<1>2. ASSUME NEW op \in retrying', op.released
      PROVE  runner'[op.task].at \in {"none", "recover", "send"}
  <2>1. op \in retrying /\ op.task \in TaskIds /\ op.task < nextId /\ nextId \in Nat
    BY DEF CoreInv, ServiceTypeOK, Fresh
  <2>2. runner[op.task].at \in {"none", "recover", "send"}
    BY <1>2, <2>1 DEF RunnersInv
  <2>3. CASE op.task = t
    <3>1. t # nextId
      BY <2>1, <2>3, RecordAssumption
    <3> QED
      BY <2>2, <3>1
  <2>4. CASE op.task # t
    BY <2>1, <2>2, <2>4 DEF OthersKept
  <2> QED
    BY <2>3, <2>4
<1>3. reconciliation \in {"pending", "enriching", "failed", "done"}
  BY DEF CoreInv, ServiceTypeOK
<1> QED
  BY <1>1, <1>2, <1>3, TaskStep DEF serving

\* A Stop leaves the runner at its await.
LEMMA StopFits ==
  ASSUME CoreInv, RunnersInv, ~EarlyIntake,
         NEW i \in Interactions, NEW t \in DOMAIN tasks, Stop(i, t)
  PROVE  RunnersStep
<1>1. t \in TaskIds
  BY TasksGood DEF CoreInv
<1>2. tasks[t] \in Record /\ clock \in Nat /\ (tasks[t].state # "delivery_failed" => ~offers(tasks[t]))
      /\ RunnerFits(t)
  BY <1>1, RunnerFinds
<1>3. PICK candidate : candidate = claim_stop(tasks[t], clock)
  OBVIOUS
<1>4. candidate \in Record /\ candidate.state = "stopping"
  BY <1>2, <1>3, CandidateFacts
<1>5. /\ accepting /\ tasks[t].state \in {"recovering", "starting", "running"}
      /\ persist_update(t, candidate)
      /\ UNCHANGED <<runner, cache>> /\ UNCHANGED <<retrying, reconciliation, closed>>
  BY <1>3 DEF Stop
<1>6. /\ \A u \in TaskIds : u # t => RecordKept(u)
      /\ outcome' = "failed" => tasks' = tasks
      /\ t \in DOMAIN tasks' => tasks'[t].channel = tasks[t].channel
      /\ outcome' # "failed" /\ t \in DOMAIN tasks' =>
           SameTask(candidate, tasks'[t]) /\ tasks'[t].revision = tasks[t].revision + 1
      /\ outcome' # "failed" /\ is_active(candidate) => t \in DOMAIN tasks'
      /\ valid_record(t, candidate)
  BY <1>4, <1>5, UpdateKept
<1>7. OthersKept(t)
  BY <1>5, <1>6 DEF OthersKept
<1>8. is_active(candidate) /\ is_active(tasks[t])
  BY <1>4, <1>5 DEF is_active, ACTIVE_STATES
<1>9. ~offers(candidate) /\ ~offers(tasks[t])
  BY <1>2, <1>4, <1>5, <1>6, NoOffer
<1>10. OwnStep(t)
  <2>1. CASE outcome' = "failed"
    BY <1>2, <1>5, <1>6, <2>1 DEF OwnStep, RunnerFits, AttendedBy, is_active, offers
  <2>2. CASE outcome' # "failed"
    <3>1. /\ t \in DOMAIN tasks' /\ tasks'[t].state = "stopping"
          /\ tasks'[t].channel = tasks[t].channel
          /\ tasks'[t].revision = tasks[t].revision + 1
          /\ is_active(tasks'[t]) /\ ~offers(tasks'[t])
      BY <1>4, <1>6, <1>8, <1>9, <2>2 DEF SameTask, is_active, offers
    <3>2. runner[t].at \in Attended => "stopping" \in StatesAt(runner[t].at)
      BY <1>2, <1>5, StageFacts DEF RunnerFits
    <3>3. runner[t].at = "enrich" =>
            runner[t].revision <= tasks[t].revision + 1 /\ runner[t].revision # tasks[t].revision + 1
      <4>1. tasks[t].revision \in Nat /\ runner[t].revision \in Nat
        BY <1>1, <1>2, HistoryFacts DEF Record, Runner
      <4> QED
        BY <1>2, <4>1 DEF RunnerFits
    <3>4. RunnerFits(t)'
      BY <1>2, <1>5, <3>1, <3>2, <3>3 DEF RunnerFits
    <3>5. AttendedBy(t) => AttendedBy(t)'
      BY <1>5, <1>8, <1>9, <3>1 DEF AttendedBy
    <3> QED
      BY <3>4, <3>5 DEF OwnStep
  <2> QED
    BY <2>1, <2>2
<1> QED
  BY <1>1, <1>5, <1>7, <1>10, UserOwnStep

\* A new task has its runner, if it is stored.
LEMMA NewTaskFits ==
  ASSUME CoreInv, RunnersInv, ~EarlyIntake, accepting, NEW t \in TaskIds, t = nextId,
         \A u \in TaskIds : u # t => RecordKept(u),
         Steady => written, outcome' # "failed" => t \in DOMAIN tasks',
         t \in DOMAIN tasks' => tasks'[t].state = "starting" /\ tasks'[t].failure = None,
         runner' = IF written THEN [runner EXCEPT ![t] = at("card")] ELSE runner,
         UNCHANGED <<cache, retrying, reconciliation, closed>>
  PROVE  RunnersStep
<1>1. /\ runner \in [TaskIds -> Runner] /\ runner[t] = Idle /\ t \notin cache
  <2>1. t \in Nat
    BY RecordAssumption
  <2> QED
    BY <2>1 DEF CoreInv, ServiceTypeOK, Fresh
<1>2. at("card").at = "card" /\ Idle.at = "none"
  BY ShapeFacts
<1>3. OthersKept(t)
  BY <1>1 DEF OthersKept
<1>4. RunnerFits(t)'
  <2>1. CASE written
    BY <1>1, <1>2, <2>1, StageFacts DEF RunnerFits, written
  <2>2. CASE ~written
    BY <1>1, <1>2, <2>2, StageFacts DEF RunnerFits
  <2> QED
    BY <2>1, <2>2
<1>5. Steady => AttendedBy(t)'
  BY <1>1, <1>2 DEF AttendedBy, offers
<1> QED
  BY <1>3, <1>4, <1>5, UserOwnStep DEF OwnStep

LEMMA StartFits ==
  ASSUME CoreInv, RunnersInv, ~EarlyIntake,
         NEW o \in Owners, NEW c \in Channels, NEW e \in Triggers, Start(o, c, e)
  PROVE  RunnersStep
<1>1. PICK t \in TaskIds : t = nextId
  BY DEF Start
<1>2. create(t, new_record(o, c, e, None, clock))
  BY <1>1 DEF Start
<1>3. /\ outcome' # "failed" => t \in DOMAIN tasks'
      /\ t \in DOMAIN tasks' => tasks'[t] = new_record(o, c, e, None, clock)
      /\ \A u \in DOMAIN tasks' : u # t => u \in DOMAIN tasks /\ tasks'[u] = tasks[u]
      /\ \A u \in DOMAIN tasks : is_active(tasks[u]) => u \in DOMAIN tasks'
  BY <1>2, Created DEF CoreInv, About
<1>4. t \in DOMAIN tasks' => tasks'[t].state = "starting" /\ tasks'[t].failure = None
  BY <1>3 DEF new_record
<1>5. \A u \in TaskIds : u # t => RecordKept(u)
  BY <1>3 DEF RecordKept, SameTask
<1>6. Steady => written
  BY <1>2 DEF Steady, written, create, commit
<1>7. /\ accepting
      /\ runner' = IF written THEN [runner EXCEPT ![t] = at("card")] ELSE runner
      /\ UNCHANGED <<cache, retrying, reconciliation, closed>>
  BY <1>1 DEF Start
<1> QED
  BY <1>1, <1>3, <1>4, <1>5, <1>6, <1>7, NewTaskFits

LEMMA ContinueFits ==
  ASSUME CoreInv, RunnersInv, ~EarlyIntake,
         NEW i \in Interactions, NEW p \in DOMAIN tasks, NEW e \in Triggers, Continue(i, p, e)
  PROVE  RunnersStep
<1>1. PICK t \in TaskIds : t = nextId
  BY DEF Continue
<1>2. tasks[p] \in Record
  BY TasksGood DEF CoreInv
<1>3. PICK o \in Owners, c \in Channels : o = tasks[p].owner /\ c = tasks[p].channel
  BY <1>2 DEF Record
<1>4. link_child(p, tasks[p].revision, t, new_record(o, c, e, p, clock))
  BY <1>1, <1>3 DEF Continue
<1>5. /\ About(t)
      /\ outcome' # "failed" => t \in DOMAIN tasks'
      /\ t \in DOMAIN tasks' => tasks'[t] = new_record(o, c, e, p, clock)
      /\ \A u \in DOMAIN tasks' : u # t =>
           u \in DOMAIN tasks /\ (tasks'[u] = tasks[u] \/ tasks'[u].revision = tasks[u].revision + 1)
      /\ \A u \in DOMAIN tasks : is_active(tasks[u]) => u \in DOMAIN tasks'
  BY <1>4, Linked DEF CoreInv
<1>6. t \in DOMAIN tasks' => tasks'[t].state = "starting" /\ tasks'[t].failure = None
  BY <1>5 DEF new_record
<1>7. \A u \in TaskIds : u # t => RecordKept(u)
  BY <1>5 DEF RecordKept, About
<1>8. Steady => written
  BY <1>4 DEF Steady, written, link_child, commit
<1>9. /\ accepting
      /\ runner' = IF written THEN [runner EXCEPT ![t] = at("card")] ELSE runner
      /\ UNCHANGED <<cache, retrying, reconciliation, closed>>
  BY <1>1 DEF Continue
<1> QED
  BY <1>1, <1>5, <1>6, <1>7, <1>8, <1>9, NewTaskFits

\* A task that is forgotten has no runner that works on it.
LEMMA ForgetFits ==
  ASSUME CoreInv, RunnersInv, ~EarlyIntake,
         NEW i \in Interactions, NEW t \in DOMAIN tasks, ForgetTask(i, t)
  PROVE  RunnersStep
<1>1. t \in TaskIds
  BY TasksGood DEF CoreInv
<1>2. forget(t, tasks[t].revision)
  BY DEF ForgetTask
<1>3. /\ About(t) /\ ~is_active(tasks[t])
      /\ outcome' = "failed" => tasks' = tasks
      /\ outcome' # "failed" => t \notin DOMAIN tasks'
      /\ \A u \in DOMAIN tasks' : u # t =>
           u \in DOMAIN tasks /\ (tasks'[u] = tasks[u] \/ tasks'[u].revision = tasks[u].revision + 1)
      /\ \A u \in DOMAIN tasks : is_active(tasks[u]) => u \in DOMAIN tasks'
  BY <1>2, Forgotten DEF CoreInv
<1>4. \A u \in TaskIds : u # t => RecordKept(u)
  BY <1>3 DEF RecordKept, About
<1>5. /\ accepting /\ runner' = runner /\ UNCHANGED <<retrying, reconciliation, closed>>
      /\ cache' \in {cache, cache \ {t}} /\ (~written => cache' = cache)
  BY DEF ForgetTask
<1>6. OthersKept(t)
  BY <1>4, <1>5 DEF OthersKept
<1>7. RunnerFits(t)
  BY <1>1, RunnerFinds
<1>8. runner[t].at \notin Attended
  BY <1>3, <1>7, StageFacts DEF RunnerFits, is_active
<1>9. RunnerFits(t)'
  BY <1>3, <1>5, <1>7, <1>8, StageFacts DEF RunnerFits
<1>10. AttendedBy(t) => AttendedBy(t)'
  <2>1. AttendedBy(t) => runner[t].at # "failing"
    BY <1>3 DEF AttendedBy, is_active, ACTIVE_STATES
  <2>2. CASE outcome' = "failed"
    BY <1>3, <1>5, <2>2 DEF AttendedBy, written, is_active, offers
  <2>3. CASE outcome' # "failed"
    BY <1>3, <1>5, <2>1, <2>3 DEF AttendedBy
  <2> QED
    BY <2>2, <2>3
<1> QED
  BY <1>1, <1>5, <1>6, <1>9, <1>10, UserOwnStep DEF OwnStep

\* A retry that was released resumes, and finds no runner.
LEMMA RetryOwnStep ==
  ASSUME CoreInv, RunnersInv, NEW op \in retrying, NEW t \in DOMAIN tasks, t = op.task,
         NEW candidate \in Record, persist_update(t, candidate),
         runner[t] = Idle, NEW next, RunnerShape(next),
         runner' = IF written THEN [runner EXCEPT ![t] = next] ELSE runner,
         cache' \in {cache, cache \ {t}},
         next.at \in {"none", "recover", "send"},
         next.at \in Attended => candidate.state \in StatesAt(next.at),
         is_active(candidate) => next.at # "none",
         written /\ (t \in cache <=> offers(tasks[t])) => (t \in cache' <=> offers(candidate)),
         retrying' = retrying \ {op}, UNCHANGED <<reconciliation, closed>>
  PROVE  RunnersStep
<1>1. /\ t \in TaskIds
      /\ \A u \in TaskIds : u # t => RecordKept(u)
      /\ outcome' # "failed" /\ t \in DOMAIN tasks' => SameTask(candidate, tasks'[t])
      /\ outcome' # "failed" /\ is_active(candidate) => t \in DOMAIN tasks'
      /\ Steady => written
  BY UpdateKept
<1>2. serving /\ serving'
  BY DEF RunnersInv, serving
<1>3. PICK n : RunnerShape(n) /\ n = (IF written THEN next ELSE Idle)
  BY ShapeFacts
<1>4. /\ runner'[t] = n /\ \A u \in TaskIds : u # t => runner'[u] = runner[u]
      /\ Idle.at = "none"
  BY <1>1, <1>3, ShapeFacts DEF CoreInv, ServiceTypeOK, RunnerShape
<1>5. OthersKept(t)
  BY <1>1, <1>4 DEF OthersKept
<1>6. written => outcome' # "failed"
  BY DEF written
<1>7. RunnerFits(t)'
  <2>1. CASE written
    <3>1. next.at \in Attended => is_active(candidate)
      BY StageFacts DEF is_active
    <3> QED
      BY <1>1, <1>3, <1>4, <1>6, <2>1, <3>1 DEF RunnerFits, SameTask
  <2>2. CASE ~written
    BY <1>3, <1>4, <2>2, StageFacts DEF RunnerFits
  <2> QED
    BY <2>1, <2>2
<1>8. ASSUME Steady, AttendedBy(t) PROVE AttendedBy(t)'
  <2>1. t \in DOMAIN tasks' =>
          /\ is_active(tasks'[t]) <=> is_active(candidate)
          /\ offers(tasks'[t]) <=> offers(candidate)
    BY <1>1, <1>6, <1>8 DEF SameTask, is_active, offers
  <2>2. reconciliation' \in {"enriching", "done"} /\ ~closed' =>
          (t \in cache' <=> offers(candidate))
    BY <1>1, <1>8 DEF AttendedBy
  <2> QED
    BY <1>1, <1>3, <1>4, <1>8, <2>1, <2>2 DEF AttendedBy
<1>9. ASSUME NEW x \in retrying', x.released
      PROVE  runner'[x.task].at \in {"none", "recover", "send"}
  <2>1. x \in retrying /\ x.task \in TaskIds
    BY DEF CoreInv, ServiceTypeOK
  <2>2. CASE x.task = t
    BY <1>3, <1>4, <2>2
  <2>3. CASE x.task # t
    BY <1>4, <1>9, <2>1, <2>3 DEF RunnersInv
  <2> QED
    BY <2>2, <2>3
<1>10. reconciliation \in {"pending", "enriching", "failed", "done"}
  BY DEF CoreInv, ServiceTypeOK
<1> QED
  BY <1>1, <1>2, <1>5, <1>7, <1>8, <1>9, <1>10, TaskStep DEF OwnStep, serving

\* What a retry may change was settled: there is no runner.
LEMMA RetryFinds ==
  ASSUME CoreInv, RunnersInv, NEW op \in retrying, op.released, retry_still_allowed(op),
         ~is_active(tasks[op.task])
  PROVE  runner[op.task] = Idle
<1>1. PICK t \in TaskIds : t = op.task /\ t \in DOMAIN tasks
  BY RetryFacts
<1>2. runner[t].at \in {"none", "recover", "send"} /\ RunnerFits(t)
  BY <1>1 DEF RunnersInv
<1>3. runner[t].at \notin Attended
  BY <1>1, <1>2, StageFacts DEF RunnerFits, is_active
<1>4. runner[t].at = "none"
  BY <1>2, <1>3, StageFacts
<1> QED
  BY <1>1, <1>4, HistoryFacts DEF RunnerShape

LEMMA RetrySessionFits ==
  ASSUME CoreInv, RunnersInv, NEW op \in retrying, RetrySession(op)
  PROVE  RunnersStep
<1>1. PICK t : t = op.task
  OBVIOUS
<1>2. /\ t \in DOMAIN tasks /\ tasks[t] \in Record /\ clock \in Nat
      /\ valid_record(t, tasks[t])
      /\ tasks[t].state \in {"failed", "timed_out", "interrupted"}
  BY <1>1, RetryFacts DEF RetrySession, session_retry_allowed
<1>3. runner[t] = Idle
  BY <1>1, <1>2, RetryFinds DEF RetrySession, is_active, ACTIVE_STATES
<1>4. PICK candidate : candidate = advance(tasks[t], "recovering", clock)
  OBVIOUS
<1>5. candidate \in Record /\ candidate.state = "recovering"
  BY <1>2, <1>4, CandidateFacts DEF States
<1>6. /\ persist_update(t, candidate)
      /\ runner' = IF written THEN [runner EXCEPT ![t] = at("recover")] ELSE runner
      /\ retrying' = retrying \ {op} /\ cache' = cache
      /\ UNCHANGED <<reconciliation, closed>>
  BY <1>1, <1>3, <1>4 DEF RetrySession, live
<1>7. ~offers(candidate) /\ ~offers(tasks[t])
  BY <1>2, <1>5, <1>6, UpdateKept, NoOffer
<1>8. RunnerShape(at("recover")) /\ at("recover").at = "recover"
  BY ShapeFacts
<1> QED
  BY <1>1, <1>2, <1>3, <1>5, <1>6, <1>7, <1>8, StageFacts, RetryOwnStep

LEMMA RetryDeliveryFits ==
  ASSUME CoreInv, RunnersInv, NEW op \in retrying, RetryDelivery(op)
  PROVE  RunnersStep
<1>1. PICK t : t = op.task
  OBVIOUS
<1>2. /\ t \in DOMAIN tasks /\ tasks[t] \in Record /\ clock \in Nat
      /\ tasks[t].state = "delivery_failed"
  BY <1>1, RetryFacts, NoOffer DEF RetryDelivery, offers
<1>3. runner[t] = Idle
  BY <1>1, <1>2, RetryFinds DEF RetryDelivery, is_active, ACTIVE_STATES
<1>4. PICK candidate : candidate = advance(tasks[t], "delivering", clock)
  OBVIOUS
<1>5. candidate \in Record /\ candidate.state = "delivering"
  BY <1>2, <1>4, CandidateFacts DEF States
<1>6. /\ persist_update(t, candidate)
      /\ runner' = IF written THEN [runner EXCEPT ![t] = at("send")] ELSE runner
      /\ cache' = IF written THEN cache \ {t} ELSE cache
      /\ retrying' = retrying \ {op} /\ UNCHANGED <<reconciliation, closed>>
  BY <1>1, <1>3, <1>4 DEF RetryDelivery, live
<1>7. ~offers(candidate)
  BY <1>2, <1>5, <1>6, UpdateKept, NoOffer
<1>8. RunnerShape(at("send")) /\ at("send").at = "send"
  BY ShapeFacts
<1>9. cache' \in {cache, cache \ {t}} /\ (written => t \notin cache')
  BY <1>6
<1> QED
  BY <1>1, <1>2, <1>3, <1>5, <1>6, <1>7, <1>8, <1>9, StageFacts, RetryOwnStep

LEMMA RetryDeliveryLostFits ==
  ASSUME CoreInv, RunnersInv, NEW op \in retrying, RetryDeliveryLost(op)
  PROVE  RunnersStep
<1>1. PICK t : t = op.task
  OBVIOUS
<1>2. /\ t \in DOMAIN tasks /\ t \in TaskIds /\ tasks[t] \in Record /\ clock \in Nat
      /\ tasks[t].state = "delivery_failed"
  BY <1>1, RetryFacts, NoOffer DEF RetryDeliveryLost, offers
<1>3. runner[t] = Idle
  BY <1>1, <1>2, RetryFinds DEF RetryDeliveryLost, is_active, ACTIVE_STATES
<1>4. PICK failure : failure = classify_delivery_failure(FALSE)
  OBVIOUS
<1>5. failure \in Failure /\ failure.retry_mode = "none"
  BY <1>4, FailureTypes DEF classify_delivery_failure, failure_of
<1>6. PICK candidate : candidate = with_failure(tasks[t], failure, clock)
  OBVIOUS
<1>7. candidate \in Record /\ ~offers(candidate) /\ ~is_active(candidate)
  <2>1. candidate \in Record /\ candidate.failure = failure /\ candidate.state = "delivery_failed"
    BY <1>2, <1>5, <1>6, CandidateFacts
  <2> QED
    BY <1>5, <2>1 DEF offers, is_active, ACTIVE_STATES
<1>8. /\ persist_update(t, candidate)
      /\ cache' = cache \ {t} /\ retrying' = retrying \ {op}
      /\ runner' = runner /\ UNCHANGED <<reconciliation, closed>>
  BY <1>1, <1>4, <1>6 DEF RetryDeliveryLost
<1>9. runner = [runner EXCEPT ![t] = Idle]
  BY <1>2, <1>3 DEF CoreInv, ServiceTypeOK
<1>10. RunnerShape(Idle) /\ Idle.at = "none"
  BY ShapeFacts
<1>11. runner' = IF written THEN [runner EXCEPT ![t] = Idle] ELSE runner
  BY <1>8, <1>9
<1> QED
  BY <1>1, <1>2, <1>3, <1>7, <1>8, <1>10, <1>11, StageFacts, RetryOwnStep

\* Startup reconciliation finds no runner and leaves no active record.
LEMMA ReconcileFits ==
  ASSUME CoreInv, RunnersInv, Reconcile
  PROVE  RunnersStep
<1>1. /\ ~serving /\ UNCHANGED <<runner, cache, retrying, closed>>
      /\ reconciliation' \in {"enriching", "failed"}
      /\ reconciliation' = "enriching" => outcome' \in {"ok", "unchanged"}
  BY DEF Reconcile, serving
<1>2. /\ retrying = {} /\ cache = {} /\ Idle.at = "none"
      /\ \A t \in TaskIds : runner[t] = Idle
  BY <1>1, ShapeFacts DEF RunnersInv
<1>3. \A t \in TaskIds : RunnerFits(t)'
  BY <1>1, <1>2, StageFacts DEF RunnerFits
<1>4. serving'
  BY <1>1 DEF serving, Reconcile
<1>5. RunnersInv'
  BY <1>1, <1>2, <1>3, <1>4 DEF RunnersInv
<1>6. ASSUME NEW t \in TaskIds PROVE AttendedBy(t)'
  <2>1. outcome' \in {"ok", "unchanged"} =>
          \A u \in DOMAIN tasks' : ~is_active(tasks'[u]) /\ ~offers(tasks'[u])
    BY ReconciledAll DEF Reconcile, CoreInv
  <2> QED
    BY <1>1, <1>2, <2>1 DEF AttendedBy
<1> QED
  BY <1>5, <1>6 DEF RunnersStep, AttendedInv

LEMMA EnrichRestartFits ==
  ASSUME CoreInv, RunnersInv, NEW t \in TaskIds, EnrichRestart(t)
  PROVE  RunnersStep
<1>1. /\ UNCHANGED <<runner, cache, retrying, closed>>
      /\ reconciliation' \in {reconciliation, "failed"} /\ ~closed
  BY DEF EnrichRestart
<1>2. ASSUME NEW u \in TaskIds PROVE RunnerFits(u)' /\ (AttendedBy(u) => AttendedBy(u)')
  <2>1. RunnerFits(u) /\ Idle.at = "none" /\ (~serving => runner[u] = Idle)
    BY ShapeFacts DEF RunnersInv
  <2>2. CASE UNCHANGED storeVars
    BY <1>1, <2>2, AllKept, OtherFits, OtherAttended DEF RunnersInv, storeVars
  <2>3. CASE ~UNCHANGED storeVars
    <3>1. PICK candidate \in Record, b \in BOOLEAN :
            /\ t \in DOMAIN tasks
            /\ candidate = with_failure(tasks[t],
                             classify_agent_failure("runtime_disconnected", b), clock)
            /\ ~offers(candidate)
            /\ persist_update(t, candidate)
      BY <2>3, EnrichRestartUpdate
    <3>2. /\ candidate.state = tasks[t].state /\ valid_record(t, candidate)
          /\ candidate.failure.category = "runtime_disconnected" /\ candidate.failure # None
      <4>1. PICK failure : failure = classify_agent_failure("runtime_disconnected", b)
        OBVIOUS
      <4>2. failure \in Failure /\ failure.category = "runtime_disconnected"
        BY <4>1 DEF classify_agent_failure, failure_of, Failure, Categories, RetryModes
      <4>3. tasks[t] \in Record /\ clock \in Nat
        BY <3>1, RunnerFinds
      <4>4. candidate = with_failure(tasks[t], failure, clock)
        BY <3>1, <4>1
      <4>5. candidate.state = tasks[t].state /\ candidate.failure = failure
        BY <4>3, <4>4 DEF with_failure, Record
      <4> QED
        BY <3>1, <4>2, <4>5, UpdateKept, NoneAssumption
    <3>3. tasks[t].state # "delivery_failed" /\ ~offers(tasks[t])
      <4>1. candidate.state # "delivery_failed"
        BY <3>2 DEF valid_record
      <4> QED
        BY <3>1, <3>2, <4>1, RunnerFinds
    <3>4. /\ \A v \in TaskIds : v # t => RecordKept(v)
          /\ outcome' = "failed" => tasks' = tasks
          /\ t \in DOMAIN tasks' => tasks'[t].channel = tasks[t].channel
          /\ outcome' # "failed" /\ t \in DOMAIN tasks' =>
               SameTask(candidate, tasks'[t]) /\ tasks'[t].revision = tasks[t].revision + 1
          /\ outcome' # "failed" /\ is_active(candidate) => t \in DOMAIN tasks'
      BY <3>1, UpdateKept
    <3>5. CASE u # t
      BY <1>1, <2>1, <3>4, <3>5, OtherFits, OtherAttended
    <3>6. CASE u = t /\ outcome' = "failed"
      BY <1>1, <2>1, <3>4, <3>6, AllKept, OtherFits, OtherAttended
    <3>7. CASE u = t /\ outcome' # "failed"
      <4>1. t \in DOMAIN tasks' =>
              /\ tasks'[t].state = tasks[t].state /\ ~offers(tasks'[t])
              /\ tasks'[t].channel = tasks[t].channel
              /\ tasks'[t].revision = tasks[t].revision + 1
        BY <3>1, <3>2, <3>4, <3>7 DEF SameTask, offers
      <4>2. is_active(tasks[t]) => t \in DOMAIN tasks'
        BY <3>2, <3>4, <3>7 DEF is_active
      <4>3. runner[t].at \in Attended => t \in DOMAIN tasks'
        BY <2>1, <3>1, <3>7, <4>2, StageFacts DEF RunnerFits, is_active
      <4>4. runner[t].at = "enrich" =>
              /\ runner[t].revision <= tasks[t].revision + 1
              /\ runner[t].revision # tasks[t].revision + 1
        <5>1. tasks[t].revision \in Nat /\ runner[t].revision \in Nat
          BY <3>1, RunnerFinds, HistoryFacts DEF Record, Runner
        <5> QED
          BY <2>1, <3>1, <3>7, <5>1 DEF RunnerFits
      <4>5. RunnerFits(u)'
        BY <1>1, <2>1, <3>1, <3>7, <4>1, <4>3, <4>4, StageFacts DEF RunnerFits
      <4>6. AttendedBy(u) => AttendedBy(u)'
        <5>1. runner[t].at = "failing" /\ AttendedBy(t) =>
                /\ t \in DOMAIN tasks'
                /\ tasks'[t].state \in {"recovering", "starting", "running", "stopping"}
          BY <4>1, <4>2 DEF AttendedBy, is_active, ACTIVE_STATES
        <5>2. t \in DOMAIN tasks' => (is_active(tasks'[t]) <=> is_active(tasks[t]))
          BY <4>1 DEF is_active
        <5> QED
          BY <1>1, <3>1, <3>3, <3>7, <4>1, <5>1, <5>2 DEF AttendedBy
      <4> QED
        BY <4>5, <4>6
    <3> QED
      BY <3>5, <3>6, <3>7
  <2> QED
    BY <2>2, <2>3
<1>3. ~serving' => ~serving
  BY <1>1 DEF serving
<1>4. ~serving' => (\A u \in TaskIds : runner'[u] = Idle) /\ retrying' = {} /\ cache' = {}
  BY <1>1, <1>3 DEF RunnersInv, Idle, at
<1>5. \A op \in retrying' : op.released => runner'[op.task].at \in {"none", "recover", "send"}
  BY <1>1 DEF RunnersInv
<1> QED
  BY <1>2, <1>4, <1>5 DEF RunnersStep, RunnersInv, AttendedInv

LEMMA EndsFit ==
  ASSUME Close \/ Restart \/ PowerLoss
  PROVE  RunnersStep
<1>1. /\ runner' = [t \in TaskIds |-> Idle] /\ cache' = {} /\ retrying' = {}
      /\ ~(reconciliation' \in {"enriching", "done"} /\ ~closed')
  BY DEF Close, Restart, PowerLoss, new_process
<1>2. Idle.at = "none"
  BY ShapeFacts
<1>3. \A t \in TaskIds : RunnerFits(t)' /\ AttendedBy(t)'
  BY <1>1, <1>2, StageFacts DEF RunnerFits, AttendedBy
<1> QED
  BY <1>1, <1>3 DEF RunnersStep, RunnersInv, AttendedInv, Idle, at

\* Every step of the service.
LEMMA RunnersKept ==
  ASSUME ~EarlyIntake, CoreInv, RunnersInv, [Next]_vars
  PROVE  RunnersStep
<1>1. CASE Operations
  <2>1. CASE \E o \in Owners, c \in Channels, e \in Triggers : Start(o, c, e)
    BY <2>1, StartFits
  <2>2. CASE \E i \in Interactions, t \in DOMAIN tasks :
               Steer(i, t) \/ StopAgain(i, t) \/ RetryRequested(i, t)
    BY <2>2, QuietOperationsFit
  <2>3. CASE \E i \in Interactions, t \in DOMAIN tasks : Stop(i, t)
    BY <2>3, StopFits
  <2>4. CASE \E i \in Interactions, t \in DOMAIN tasks : ForgetTask(i, t)
    BY <2>4, ForgetFits
  <2>5. CASE \E i \in Interactions, t \in DOMAIN tasks, e \in Triggers : Continue(i, t, e)
    BY <2>5, ContinueFits
  <2> QED
    BY <1>1, <2>1, <2>2, <2>3, <2>4, <2>5 DEF Operations
<1>2. CASE \E op \in retrying : RetryResumes(op)
  BY <1>2, QuietOperationsFit, RetrySessionFits, RetryDeliveryFits, RetryDeliveryLostFits
     DEF RetryResumes
<1>3. CASE \E t \in TaskIds : RunnerStep(t)
  BY <1>3, RunnerStepsFit
<1>4. CASE Startup
  BY <1>4, ReconcileFits, EnrichRestartFits, QuietOperationsFit DEF Startup
<1>5. CASE Close \/ Restart \/ PowerLoss
  BY <1>5, EndsFit
<1>6. CASE Tick \/ UNCHANGED vars
  BY <1>6, QuietOperationsFit
<1> QED
  BY <1>1, <1>2, <1>3, <1>4, <1>5, <1>6 DEF Next

LEMMA RunnersStart == Init => RunnersInv /\ AttendedInv
<1> SUFFICES ASSUME Init PROVE RunnersInv /\ AttendedInv
  OBVIOUS
<1>1. /\ runner = [t \in TaskIds |-> Idle] /\ retrying = {} /\ cache = {}
      /\ reconciliation = "pending" /\ Idle.at = "none"
  BY ShapeFacts DEF Init
<1>2. \A t \in TaskIds : RunnerFits(t) /\ AttendedBy(t)
  BY <1>1, StageFacts DEF RunnerFits, AttendedBy
<1> QED
  BY <1>1, <1>2 DEF RunnersInv, AttendedInv

\* If events wait for startup reconciliation, no two runners use a channel's workspace and
\* agent session at the same time.
THEOREM RunsIsolated == ~EarlyIntake => (Spec => []IsolatedRuns)
<1>1. CoreInv /\ RunnersInv => IsolatedRuns
  <2> SUFFICES ASSUME CoreInv, RunnersInv, NEW t \in TaskIds, NEW u \in TaskIds,
                      runner[t].at \in {"context", "ready", "turn"},
                      runner[u].at \in {"context", "ready", "turn"},
                      runner[t].channel = runner[u].channel
               PROVE  t = u
    BY DEF IsolatedRuns
  <2>1. \A v \in {t, u} : /\ v \in DOMAIN tasks /\ is_active(tasks[v])
                          /\ runner[v].channel = tasks[v].channel
    BY StageFacts DEF RunnersInv, RunnerFits, is_active
  <2>2. one_active_per_channel(tasks)
    BY IInvImplies DEF CoreInv, OneActivePerChannel, Documents
  <2> QED
    BY <2>1, <2>2 DEF one_active_per_channel
<1>2. CASE ~EarlyIntake
  <2>1. CoreInv /\ RunnersInv /\ [Next]_vars => RunnersInv'
    BY <1>2, RunnersKept DEF RunnersStep
  <2> QED
    BY <1>1, <2>1, RunnersStart, ServiceInvariant, PTL DEF Spec
<1> QED
  BY <1>2

\* What the next two theorems share: if events wait for startup reconciliation and every write
\* succeeds, an active task is attended and the cache follows the records.
LEMMA AlwaysAttended ==
  ~EarlyIntake /\ WriteOutcomes = {"ok"} => (Spec => [](ActiveHasRunner /\ CacheMatchesRecords))
<1>1. CoreInv /\ AttendedInv => ActiveHasRunner /\ CacheMatchesRecords
  <2> SUFFICES ASSUME CoreInv, AttendedInv PROVE ActiveHasRunner /\ CacheMatchesRecords
    OBVIOUS
  <2>1. \A t \in DOMAIN tasks : t \in TaskIds /\ AttendedBy(t)
    BY TasksGood DEF CoreInv, AttendedInv
  <2>2. Idle.at = "none"
    BY ShapeFacts
  <2>3. ActiveHasRunner
    BY <2>1, <2>2 DEF AttendedBy, ActiveHasRunner, live
  <2>4. CacheMatchesRecords
    BY <2>1 DEF AttendedBy, CacheMatchesRecords, offers
  <2> QED
    BY <2>3, <2>4
<1>2. CASE ~EarlyIntake /\ Steady
  <2>1. CoreInv /\ RunnersInv /\ AttendedInv /\ [Next]_vars => RunnersInv' /\ AttendedInv'
    BY <1>2, RunnersKept DEF RunnersStep
  <2> QED
    BY <1>1, <2>1, RunnersStart, ServiceInvariant, PTL DEF Spec
<1> QED
  BY <1>2 DEF Steady

\* If events wait for startup reconciliation and every write succeeds, a task is never active
\* without a runner that will settle it.
THEOREM NoOrphans == ~EarlyIntake /\ WriteOutcomes = {"ok"} => (Spec => []ActiveHasRunner)
BY AlwaysAttended, PTL

\* Under the same conditions a record offers to send its reply again exactly while the reply is
\* cached.
THEOREM CacheFollowsRecords ==
  ~EarlyIntake /\ WriteOutcomes = {"ok"} => (Spec => []CacheMatchesRecords)
BY AlwaysAttended, PTL

----------------------------------------------------------------------------
(* The service is a user of the store.                                     *)

Reported == "runtime_disconnected" \in Errors

LEMMA Foreseen ==
  ASSUME CoreInv, Revisions = Nat, NEW t \in DOMAIN tasks,
         NEW candidate \in updates(tasks[t], clock), persist_update(t, candidate)
  PROVE  StoreNext
<1>1. tasks[t].revision + 1 \in Revisions
  BY TasksGood DEF CoreInv, Record
<1>2. CompareAndSet(t)
  BY <1>1 DEF CompareAndSet, persist_update
<1> QED
  BY <1>2 DEF StoreNext

\* What runners, retries and stops store.
LEMMA UpdatesOffered ==
  ASSUME NEW r, NEW now
  PROVE  /\ r.state \in ACTIVE_STATES => attach_card(r, now) \in updates(r, now)
         /\ r.state = "recovering" => advance(r, "starting", now) \in updates(r, now)
         /\ r.state = "starting" => advance(r, "running", now) \in updates(r, now)
         /\ r.state = "running" => advance(r, "delivering", now) \in updates(r, now)
         /\ r.state = "stopping" => advance(r, "stopped", now) \in updates(r, now)
         /\ r.state = "delivering" => /\ complete(r, now) \in updates(r, now)
                                      /\ \A b \in BOOLEAN :
                                           delivery_failed(r, b, now) \in updates(r, now)
         /\ r.state \in {"recovering", "starting", "running"} =>
              /\ claim_stop(r, now) \in updates(r, now)
              /\ \A error \in Errors : fail(r, error, now) \in updates(r, now)
         /\ r.state \in {"failed", "timed_out", "interrupted"} =>
              advance(r, "recovering", now) \in updates(r, now)
         /\ r.state = "delivery_failed" =>
              /\ advance(r, "delivering", now) \in updates(r, now)
              /\ with_failure(r, classify_delivery_failure(FALSE), now) \in updates(r, now)
         /\ \A b \in BOOLEAN :
              /\ r.state = "timed_out" /\ "timeout" \in Errors =>
                   with_failure(r, classify_agent_failure("timeout", b), now) \in updates(r, now)
              /\ r.state \in States /\ Reported =>
                   with_failure(r, classify_agent_failure("runtime_disconnected", b), now)
                     \in updates(r, now)
<1>1. /\ runner_updates(r, now) \subseteq updates(r, now)
      /\ later_failures(r, now) \subseteq updates(r, now)
      /\ action_updates(r, now) \subseteq updates(r, now)
  BY DEF updates
<1>2. /\ r.state \in ACTIVE_STATES => attach_card(r, now) \in runner_updates(r, now)
      /\ r.state = "recovering" => advance(r, "starting", now) \in runner_updates(r, now)
      /\ r.state = "starting" => advance(r, "running", now) \in runner_updates(r, now)
      /\ r.state = "running" => advance(r, "delivering", now) \in runner_updates(r, now)
      /\ r.state = "stopping" => advance(r, "stopped", now) \in runner_updates(r, now)
  BY DEF runner_updates, moves
<1>3. r.state = "delivering" => /\ complete(r, now) \in runner_updates(r, now)
                                /\ \A b \in BOOLEAN :
                                     delivery_failed(r, b, now) \in runner_updates(r, now)
  BY DEF runner_updates, moves
<1>4. r.state \in {"recovering", "starting", "running"} =>
        \A error \in Errors : fail(r, error, now) \in runner_updates(r, now)
  BY DEF runner_updates, moves
<1>5. /\ r.state \in {"recovering", "starting", "running"} =>
           claim_stop(r, now) \in action_updates(r, now)
      /\ r.state \in {"failed", "timed_out", "interrupted"} =>
           advance(r, "recovering", now) \in action_updates(r, now)
      /\ r.state = "delivery_failed" => advance(r, "delivering", now) \in action_updates(r, now)
  BY DEF action_updates, moves
<1>6. r.state = "delivery_failed" =>
        with_failure(r, classify_delivery_failure(FALSE), now) \in later_failures(r, now)
  BY DEF later_failures, moves
<1>7. ASSUME NEW b \in BOOLEAN
      PROVE  /\ r.state = "timed_out" /\ "timeout" \in Errors =>
                  with_failure(r, classify_agent_failure("timeout", b), now)
                    \in later_failures(r, now)
             /\ r.state \in States /\ Reported =>
                  with_failure(r, classify_agent_failure("runtime_disconnected", b), now)
                    \in later_failures(r, now)
  BY DEF later_failures, moves, Reported
<1> QED
  BY <1>1, <1>2, <1>3, <1>4, <1>5, <1>6, <1>7

LEMMA RunnerUsesStore ==
  ASSUME CoreInv, RunnersInv, Revisions = Nat, Reported, NEW t \in TaskIds, RunnerStep(t)
  PROVE  [StoreNext]_storeVars
<1>1. /\ RunnerFits(t) /\ clock \in Nat
      /\ t \in DOMAIN tasks => tasks[t] \in Record
      /\ RunnerShape(runner[t])
  BY RunnerFinds, HistoryFacts
<1>2. CASE CardDone(t)
  <2>1. t \in DOMAIN tasks /\ tasks[t].state \in ACTIVE_STATES
    BY <1>1, <1>2, StageFacts DEF CardDone, turn_of_runner, RunnerFits
  <2> QED
    BY <1>2, <2>1, Foreseen, UpdatesOffered DEF CardDone
<1>3. CASE \E otherwise : t \in DOMAIN tasks /\ tasks[t].state = "stopping" /\ finish_stopping(t, otherwise)
  BY <1>3, Foreseen, UpdatesOffered DEF finish_stopping
<1>4. CASE Recovered(t) \/ Begin(t) \/ TurnReplies(t)
  BY <1>3, <1>4, Foreseen, UpdatesOffered DEF Recovered, Begin, TurnReplies, known
<1>5. CASE Prepared(t)
  BY <1>3, <1>5, Foreseen, UpdatesOffered DEF Prepared, known
<1>6. CASE Sent(t)
  BY <1>6, Foreseen, UpdatesOffered DEF Sent, delivering, known
<1>7. CASE \E definitive \in BOOLEAN : SendFails(t, definitive)
  BY <1>7, Foreseen, UpdatesOffered DEF SendFails, delivering, known
<1>8. CASE RecordFailure(t)
  <2>1. t \in DOMAIN tasks /\ runner[t].error \in Errors
    BY <1>1, <1>8 DEF RecordFailure, turn_of_runner, known, RunnerShape
  <2>2. failure_target(tasks[t], runner[t].error) # None =>
          tasks[t].state \in {"recovering", "starting", "running"}
    BY DEF failure_target
  <2> QED
    BY <1>3, <1>8, <2>1, <2>2, Foreseen, UpdatesOffered DEF RecordFailure
<1>9. CASE Enrich(t)
  <2>1. t \in DOMAIN tasks /\ runner[t].at = "enrich"
    BY <1>9 DEF Enrich, turn_of_runner, known
  <2>2. PICK error \in Errors \cap {"timeout", "runtime_disconnected"} : error = runner[t].error
    BY <1>1, <2>1 DEF RunnerShape
  <2>3. CASE UNCHANGED storeVars
    BY <2>3
  <2>4. CASE ~UNCHANGED storeVars
    <3>1. PICK persisted \in BOOLEAN :
            /\ tasks[t].revision = runner[t].revision
            /\ persist_update(t, with_failure(tasks[t],
                 classify_agent_failure(error, persisted /\ ~active_turn(tasks[t].channel)), clock))
      BY <1>9, <2>2, <2>4 DEF Enrich
    <3>2. PICK b \in BOOLEAN : b = (persisted /\ ~active_turn(tasks[t].channel))
      OBVIOUS
    <3>3. persist_update(t, with_failure(tasks[t], classify_agent_failure(error, b), clock))
      BY <3>1, <3>2
    <3>4. error = "timeout" => tasks[t].state = "timed_out"
      BY <1>1, <2>1, <2>2, <3>1 DEF RunnerFits, ended_by
    <3>5. tasks[t].state \in States
      BY <1>1, <2>1 DEF Record
    <3>6. with_failure(tasks[t], classify_agent_failure(error, b), clock) \in updates(tasks[t], clock)
      BY <2>2, <3>4, <3>5, UpdatesOffered
    <3> QED
      BY <2>1, <3>3, <3>6, Foreseen
  <2> QED
    BY <2>3, <2>4
<1>10. CASE \/ TurnReserved(t) \/ TurnStarts(t) \/ \E error \in Errors : RunFails(t, error)
            \/ PrepareFails(t) \/ RunnerDone(t) \/ RunnerLosesTask(t)
  BY <1>10 DEF TurnReserved, TurnStarts, RunFails, PrepareFails, RunnerDone, RunnerLosesTask
<1> QED
  BY <1>2, <1>4, <1>5, <1>6, <1>7, <1>8, <1>9, <1>10 DEF RunnerStep

LEMMA OperationsUseStore ==
  ASSUME CoreInv, Revisions = Nat, Operations
  PROVE  [StoreNext]_storeVars
<1>1. clock \in Nat /\ \A t \in DOMAIN tasks : tasks[t] \in Record
  BY TasksGood DEF CoreInv, IInv
<1>2. CASE \E o \in Owners, c \in Channels, e \in Triggers : Start(o, c, e)
  BY <1>2 DEF Start, StoreNext, Create
<1>3. CASE \E i \in Interactions, t \in DOMAIN tasks :
             Steer(i, t) \/ StopAgain(i, t) \/ RetryRequested(i, t)
  BY <1>3 DEF Steer, StopAgain, RetryRequested
<1>4. CASE \E i \in Interactions, t \in DOMAIN tasks : Stop(i, t)
  BY <1>4, Foreseen, UpdatesOffered DEF Stop
<1>5. CASE \E i \in Interactions, t \in DOMAIN tasks : ForgetTask(i, t)
  <2>1. \A u \in DOMAIN tasks : tasks[u].revision \in Revisions
    BY <1>1 DEF Record
  <2> QED
    BY <1>5, <2>1 DEF ForgetTask, StoreNext, Forget
<1>6. CASE \E i \in Interactions, t \in DOMAIN tasks, e \in Triggers : Continue(i, t, e)
  <2>1. PICK p \in DOMAIN tasks, e \in Triggers :
          /\ nextId \in TaskIds
          /\ link_child(p, tasks[p].revision, nextId,
                        new_record(tasks[p].owner, tasks[p].channel, e, p, clock))
    BY <1>6 DEF Continue
  <2>2. /\ tasks[p].owner \in Owners /\ tasks[p].channel \in Channels
        /\ tasks[p].revision + 1 \in Revisions
    BY <1>1 DEF Record
  <2>3. LinkChild(p, nextId)
    BY <2>1, <2>2 DEF LinkChild
  <2> QED
    BY <2>1, <2>3 DEF StoreNext
<1> QED
  BY <1>2, <1>3, <1>4, <1>5, <1>6 DEF Operations

LEMMA RetriesUseStore ==
  ASSUME CoreInv, Revisions = Nat, NEW op \in retrying, RetryResumes(op)
  PROVE  [StoreNext]_storeVars
<1>1. CASE RetryRefused(op)
  BY <1>1 DEF RetryRefused
<1>2. CASE ~RetryRefused(op)
  <2>1. retry_still_allowed(op)
    BY <1>2 DEF RetryResumes, RetrySession, RetryDelivery, RetryDeliveryLost
  <2>2. PICK t : t = op.task
    OBVIOUS
  <2>3. t \in DOMAIN tasks /\ (offers(tasks[t]) => tasks[t].state = "delivery_failed")
    BY <2>1, <2>2, RetryFacts, NoOffer
  <2>4. CASE RetrySession(op)
    BY <2>2, <2>3, <2>4, Foreseen, UpdatesOffered DEF RetrySession, session_retry_allowed
  <2>5. CASE RetryDelivery(op) \/ RetryDeliveryLost(op)
    <3>1. offers(tasks[t])
      BY <2>1, <2>2, <2>5 DEF RetryDelivery, RetryDeliveryLost, offers, retry_still_allowed
    <3> QED
      BY <2>2, <2>3, <2>5, <3>1, Foreseen, UpdatesOffered DEF RetryDelivery, RetryDeliveryLost
  <2> QED
    BY <1>2, <2>4, <2>5 DEF RetryResumes
<1> QED
  BY <1>1, <1>2

\* The service uses the store through the store's operations only, and hands it only updates
\* that the store's own specification foresees: what is proved of the store applies.
THEOREM ServiceUsesStore ==
  ~EarlyIntake /\ Reported /\ Revisions = Nat => (Spec => UsesStore)
<1>1. Init => StoreInit
  BY DEF Init
<1>2. CASE ~EarlyIntake /\ Reported /\ Revisions = Nat
  <2>1. ASSUME CoreInv, RunnersInv, [Next]_vars
        PROVE  [StoreNext]_storeVars
    <3>1. CASE Startup
      <4>1. CASE Reconcile
        <5>1. \A t \in DOMAIN tasks : tasks[t].revision + 1 \in Revisions
          BY <1>2, <2>1, TasksGood DEF CoreInv, Record
        <5> QED
          BY <4>1, <5>1 DEF Reconcile, StoreNext, ReconcileStartup
      <4>2. CASE \E t \in TaskIds : EnrichRestart(t)
        <5>1. PICK t \in TaskIds : EnrichRestart(t)
          BY <4>2
        <5>2. CASE ~UNCHANGED storeVars
          <6>1. PICK candidate \in Record, b \in BOOLEAN :
                  /\ t \in DOMAIN tasks
                  /\ candidate = with_failure(tasks[t],
                                   classify_agent_failure("runtime_disconnected", b), clock)
                  /\ persist_update(t, candidate)
            BY <2>1, <5>1, <5>2, EnrichRestartUpdate
          <6>2. tasks[t].state \in States
            BY <2>1, <6>1, TasksGood DEF CoreInv, Record
          <6>3. candidate \in updates(tasks[t], clock)
            BY <1>2, <6>1, <6>2, UpdatesOffered
          <6> QED
            BY <1>2, <2>1, <6>1, <6>3, Foreseen
        <5> QED
          BY <5>2
      <4> QED
        BY <3>1, <4>1, <4>2 DEF Startup, ReconcileDone
    <3>2. CASE Close \/ Restart \/ PowerLoss \/ Tick \/ UNCHANGED vars
      BY <3>2 DEF Close, Restart, PowerLoss, Tick, StoreNext, vars
    <3> QED
      BY <1>2, <2>1, <3>1, <3>2, RunnerUsesStore, OperationsUseStore, RetriesUseStore DEF Next
  <2>2. CoreInv /\ RunnersInv /\ [Next]_vars => RunnersInv'
    BY <1>2, RunnersKept DEF RunnersStep
  <2> QED
    BY <1>1, <2>1, <2>2, RunnersStart, ServiceInvariant, PTL DEF Spec, UsesStore, StoreSpec
<1> QED
  BY <1>2

\* Driven by the service, the store's records live the documented life cycle, change only with
\* their revision, and keep their first interruption cause.
THEOREM ServiceImplementsLifecycle ==
  ~EarlyIntake /\ Reported /\ Revisions = Nat =>
    (Spec => ImplementsLifecycle /\ RevisionsAdvance /\ FirstCauseWins)
<1>1. CASE ~EarlyIntake /\ Reported /\ Revisions = Nat
  <2>1. Spec => StoreSpec
    BY <1>1, ServiceUsesStore DEF UsesStore
  <2> QED
    BY <2>1, StoreImplementsLifecycle, RevisionsAlwaysAdvance, FirstCauseAlwaysWins, PTL
<1> QED
  BY <1>1
============================================================================

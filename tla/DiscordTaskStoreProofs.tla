----------------------- MODULE DiscordTaskStoreProofs -----------------------
(***************************************************************************)
(* Proofs about the task store, for every set of tasks, channels, owners,  *)
(* triggers and errors, every retention limit and every way a write ends.  *)
(***************************************************************************)
EXTENDS DiscordTaskStore, FiniteSetTheorems, TLAPS

----------------------------------------------------------------------------
(* Records: every function of discord_task_model.py and every update       *)
(* returns a record.                                                       *)

\* transition() returns a record, whatever the failure it is given.
LEMMA TransitionType ==
  ASSUME NEW r \in Record, NEW target \in States,
         NEW failure \in Failure \cup {None}, NEW now \in Nat
  PROVE  transition(r, target, failure, now) \in Record
<1>1. attempt_after_transition(r, target) \in Nat \ {0}
  BY DEF attempt_after_transition, Record
<1>2. failure_after_transition(r, target, failure) \in Failure \cup {None}
  BY DEF failure_after_transition, Record
<1> QED
  BY <1>1, <1>2 DEF transition, Record

\* Claiming a cause returns a record.
LEMMA ClaimType ==
  ASSUME NEW r \in Record, NEW cause \in Causes
  PROVE  claim_interruption(r, cause) \in Record
BY DEF claim_interruption, Record

\* Every failure the classifiers build is a failure.
LEMMA FailureTypes ==
  /\ \A error \in {"timeout", "runtime_disconnected", "other"}, b \in BOOLEAN :
       classify_agent_failure(error, b) \in Failure
  /\ \A b \in BOOLEAN : classify_delivery_failure(b) \in Failure
BY DEF classify_agent_failure, classify_delivery_failure,
   failure_of, Failure, Categories, RetryModes

\* Storing a later failure returns a record.
LEMMA WithFailureType ==
  ASSUME NEW r \in Record, NEW failure \in Failure, NEW now \in Nat
  PROVE  with_failure(r, failure, now) \in Record
BY DEF with_failure, Record

\* record_agent_failure stores a record, in the states in which it stores one.
LEMMA FailType ==
  ASSUME NEW r \in Record, r.state \in {"recovering", "starting", "running"},
         NEW error \in Errors, NEW now \in Nat
  PROVE  fail(r, error, now) \in Record
<1> DEFINE claimed == IF failure_cause(r, error) = None
                        THEN r ELSE claim_interruption(r, failure_cause(r, error))
<1>1. failure_target(r, error) \in States
  BY ErrorsAssumption DEF failure_target, States
<1>2. failure_cause(r, error) \in Causes \cup {None}
  BY DEF failure_cause, Causes
<1>3. claimed \in Record
  BY <1>2, ClaimType
<1>4. classify_agent_failure(error, FALSE) \in Failure \cup {None}
  BY ErrorsAssumption, FailureTypes
<1>5. transition(claimed, failure_target(r, error),
                 classify_agent_failure(error, FALSE), now) \in Record
  BY <1>1, <1>3, <1>4, TransitionType
<1> QED
  BY <1>5 DEF fail

\* Every candidate a caller hands to compare_and_set is a record.
LEMMA UpdatesType ==
  ASSUME NEW r \in Record, NEW now \in Nat, NEW candidate \in updates(r, now)
  PROVE  candidate \in Record
<1>1. \A target \in States : advance(r, target, now) \in Record
  BY TransitionType DEF advance
<1>2. attach_card(r, now) \in Record
  BY DEF attach_card, Record
<1>3. claim_stop(r, now) \in Record
  BY TransitionType, ClaimType DEF claim_stop, Causes, States
<1>4. complete(r, now) \in Record
  <2>1. [r EXCEPT !.result = TRUE] \in Record
    BY DEF Record
  <2> QED
    BY <2>1, TransitionType DEF complete, States
<1>5. \A b \in BOOLEAN : delivery_failed(r, b, now) \in Record
  BY TransitionType, FailureTypes DEF delivery_failed, States
<1>6. \A b \in BOOLEAN, error \in {"timeout", "runtime_disconnected"} :
        with_failure(r, classify_agent_failure(error, b), now) \in Record
  BY WithFailureType, FailureTypes
<1>7. with_failure(r, classify_delivery_failure(FALSE), now) \in Record
  BY WithFailureType, FailureTypes
<1>8. r.state \in {"recovering", "starting", "running"} =>
        \A error \in Errors : fail(r, error, now) \in Record
  BY FailType
<1>9. runner_updates(r, now) \subseteq Record
  BY <1>1, <1>2, <1>4, <1>5, <1>8 DEF runner_updates, moves, States
<1>10. later_failures(r, now) \subseteq Record
  BY <1>6, <1>7 DEF later_failures, moves
<1>11. action_updates(r, now) \subseteq Record
  BY <1>1, <1>3 DEF action_updates, moves, States
<1> QED
  BY <1>9, <1>10, <1>11 DEF updates

\* Startup reconciliation of a valid record returns a record, with the same
\* channel and links, and never an active one.
LEMMA ReconcileFacts ==
  ASSUME NEW r \in Record, NEW t, valid_record(t, r), NEW now \in Nat
  PROVE  /\ reconcile(r, now) \in Record
         /\ reconcile(r, now).channel = r.channel
         /\ reconcile(r, now).owner = r.owner
         /\ reconcile(r, now).from = r.from
         /\ reconcile(r, now).to = r.to
         /\ reconcile(r, now).revision = r.revision
         /\ ~is_active(reconcile(r, now))
         /\ r.state = "completed" => reconcile(r, now) = r
         /\ reconcile(r, now).cause # r.cause =>
              r.cause = None /\ r.state \notin {"delivering", "completed"}
<1>1. delivery_retry_disabled(r.failure) \in Failure
  BY DEF delivery_retry_disabled, failure_of, Failure, Record, Categories, RetryModes
<1>2. CASE r.state \in {"recovering", "starting", "running", "stopping"}
  <2>1. claim_interruption(r, "gateway_restart") \in Record
    BY ClaimType DEF Causes
  <2>2. reconcile(r, now) = [claim_interruption(r, "gateway_restart")
                               EXCEPT !.state = "interrupted", !.updated = now]
    BY <1>2 DEF reconcile
  <2> QED
    BY ZenonT(60), <1>2, <2>1, <2>2 DEF claim_interruption, Record, States, is_active, ACTIVE_STATES
<1>3. CASE r.state = "delivering"
  BY <1>1, <1>3 DEF reconcile, Record, States, is_active, ACTIVE_STATES
<1>4. CASE r.state = "delivery_failed" /\ r.failure.retry_mode = "retry_delivery"
  BY <1>1, <1>4 DEF reconcile, Record, States, is_active, ACTIVE_STATES
<1>5. CASE /\ r.state \notin {"recovering", "starting", "running", "stopping", "delivering"}
           /\ ~(r.state = "delivery_failed" /\ r.failure.retry_mode = "retry_delivery")
  <2>1. reconcile(r, now) = r
    BY <1>5 DEF reconcile
  <2> QED
    BY <1>5, <2>1 DEF Record, States, is_active, ACTIVE_STATES
<1> QED
  BY <1>2, <1>3, <1>4, <1>5

----------------------------------------------------------------------------
(* Retention.                                                              *)

\* apply_retention returns a part of the document it is given.
LEMMA RetentionPart ==
  ASSUME NEW d, NEW now, NEW doc \in apply_retention(d, now)
  PROVE  /\ DOMAIN doc \subseteq DOMAIN d
         /\ \A t \in DOMAIN doc : doc[t] = d[t]
         /\ doc = [t \in DOMAIN doc |-> d[t]]
<1>1. PICK kept \in kept_inactive(d, now) :
        doc = Restrict(d, UNION (active_components(d) \cup kept))
  BY DEF apply_retention
<1>2. active_components(d) \cup kept \subseteq components(d)
  BY DEF kept_inactive, recent_components, active_components
<1>3. \A c \in components(d) : c \subseteq DOMAIN d
  BY DEF components, component
<1>4. UNION (active_components(d) \cup kept) \subseteq DOMAIN d
  BY <1>2, <1>3
<1> QED
  BY <1>1, <1>4 DEF Restrict

\* What apply_retention keeps is closed under continuation links, provided the
\* links of the given document stay inside it: components are kept whole.
LEMMA RetentionClosed ==
  ASSUME NEW d, NEW now, NEW doc \in apply_retention(d, now),
         \A t \in DOMAIN d : neighbours(d, t) \subseteq DOMAIN d
  PROVE  \A t \in DOMAIN doc : neighbours(d, t) \subseteq DOMAIN doc
<1>1. PICK kept \in kept_inactive(d, now) :
        doc = Restrict(d, UNION (active_components(d) \cup kept))
  BY DEF apply_retention
<1>2. active_components(d) \cup kept \subseteq components(d)
  BY DEF kept_inactive, recent_components, active_components
<1>3. DOMAIN doc = UNION (active_components(d) \cup kept)
  BY <1>1 DEF Restrict
<1>4. ASSUME NEW t \in DOMAIN doc, NEW n \in neighbours(d, t)
      PROVE  n \in DOMAIN doc
  <2>1. PICK c \in active_components(d) \cup kept : t \in c
    BY <1>3
  <2>2. PICK s \in DOMAIN d : c = component(d, s)
    BY <1>2, <2>1 DEF components
  <2>3. t \in DOMAIN d /\ n \in DOMAIN d
    BY <2>1, <2>2 DEF component
  <2>4. ASSUME NEW ids \in SUBSET DOMAIN d, s \in ids, closed_under_links(d, ids)
        PROVE  n \in ids
    <3>1. t \in ids
      BY <2>1, <2>2, <2>4 DEF component
    <3> QED
      BY <3>1, <1>4, <2>4 DEF closed_under_links
  <2>5. n \in component(d, s)
    BY <2>3, <2>4 DEF component
  <2> QED
    BY <2>1, <2>2, <2>5, <1>3
<1> QED
  BY <1>4

----------------------------------------------------------------------------
(* The inductive invariant.                                                *)

\* What every document the store holds or may find satisfies.
GoodDocument(doc) ==
  /\ is_document(doc)
  /\ IsFiniteSet(DOMAIN doc)
  /\ one_active_per_channel(doc)
  /\ validate_continuation_graph(doc)
  /\ \A t \in DOMAIN doc : valid_record(t, doc[t])

\* The four properties hold together: that a document is a legal one needs the
\* documents a power loss may leave to be legal, that linking keeps the graph
\* legal needs the graph before, and that memory equals the file is what makes
\* a restart find such a document.  Documents are also finite, although no
\* operation checks it: each one adds at most one task.
IInv ==
  /\ \A doc \in Documents : GoodDocument(doc)
  /\ clock \in Nat
  /\ outcome \in Outcomes
  /\ AcknowledgedIsDurable

\* The invariant implies each of the properties.
LEMMA IInvImplies ==
  IInv => TypeOK /\ OneActivePerChannel /\ DocumentsLoad /\ AcknowledgedIsDurable
BY DEF IInv, GoodDocument, TypeOK, OneActivePerChannel, DocumentsLoad

\* Retention keeps a good document good.
LEMMA RetentionGood ==
  ASSUME NEW d, GoodDocument(d), NEW now, NEW doc \in apply_retention(d, now)
  PROVE  GoodDocument(doc)
<1>1. /\ DOMAIN doc \subseteq DOMAIN d
      /\ \A t \in DOMAIN doc : doc[t] = d[t]
      /\ doc = [t \in DOMAIN doc |-> d[t]]
  BY RetentionPart
<1>2. \A t \in DOMAIN d : neighbours(d, t) \subseteq DOMAIN d
  BY DEF GoodDocument, validate_continuation_graph, links_reciprocal, neighbours
<1>3. \A t \in DOMAIN doc : neighbours(d, t) \subseteq DOMAIN doc
  BY <1>2, RetentionClosed
<1>4. is_document(doc) /\ IsFiniteSet(DOMAIN doc)
  BY <1>1, FS_Subset DEF GoodDocument, is_document
<1>5. one_active_per_channel(doc)
  BY <1>1 DEF GoodDocument, one_active_per_channel
<1>6. links_reciprocal(doc)
  <2>1. ASSUME NEW t \in DOMAIN doc
        PROVE  /\ doc[t].to # None => doc[t].to \in DOMAIN doc
               /\ doc[t].from # None => doc[t].from \in DOMAIN doc
    BY <1>1, <1>3 DEF neighbours
  <2> QED
    BY <1>1, <2>1 DEF GoodDocument, validate_continuation_graph, links_reciprocal
<1>7. links_acyclic(doc)
  BY <1>1 DEF GoodDocument, validate_continuation_graph, links_acyclic
<1>8. \A t \in DOMAIN doc : valid_record(t, doc[t])
  BY <1>1 DEF GoodDocument
<1> QED
  BY <1>4, <1>5, <1>6, <1>7, <1>8 DEF GoodDocument, validate_continuation_graph

\* A step that commits a good document.
Committed == \E candidate : GoodDocument(candidate) /\ commit(candidate)

\* A commit of a good document keeps the invariant, whichever way it ends.
LEMMA CommitGood ==
  ASSUME IInv, NEW candidate, GoodDocument(candidate), commit(candidate)
  PROVE  IInv' /\ Committed
<1>1. PICK doc \in apply_retention(candidate, clock), o \in WriteOutcomes :
        /\ outcome' = o
        /\ o = "failed" => UNCHANGED <<tasks, disk, durable>>
        /\ o # "failed" => /\ tasks' = doc
                           /\ disk' = doc
                           /\ durable' = IF o = "ok" THEN {doc} ELSE durable \cup {doc}
        /\ UNCHANGED clock
  BY DEF commit
<1>2. GoodDocument(doc)
  BY RetentionGood
<1>3. o \in {"ok", "failed", "unsynced"}
  BY StoreAssumption
<1>4. \A d \in Documents' : GoodDocument(d)
  BY <1>1, <1>2 DEF IInv, Documents
<1>5. AcknowledgedIsDurable'
  BY <1>1, <1>3 DEF IInv, AcknowledgedIsDurable
<1>6. IInv'
  BY <1>1, <1>3, <1>4, <1>5 DEF IInv, Outcomes
<1> QED
  BY <1>6 DEF Committed

\* What a commit leaves of each record: the candidate's, or the old one.
LEMMA CommitRecords ==
  ASSUME NEW candidate, commit(candidate)
  PROVE  \/ tasks' = tasks
         \/ \A t \in DOMAIN tasks' : t \in DOMAIN candidate /\ tasks'[t] = candidate[t]
<1>1. PICK doc \in apply_retention(candidate, clock), o \in WriteOutcomes :
        IF o = "failed" THEN tasks' = tasks ELSE tasks' = doc
  BY DEF commit
<1> QED
  BY <1>1, RetentionPart

----------------------------------------------------------------------------
(* Each operation commits a good document.                                 *)

\* The document in memory is good.
LEMMA TasksGood ==
  ASSUME IInv
  PROVE  /\ GoodDocument(tasks)
         /\ DOMAIN tasks \subseteq TaskIds
         /\ \A t \in DOMAIN tasks : tasks[t] \in Record /\ valid_record(t, tasks[t])
BY DEF IInv, Documents, GoodDocument, is_document

\* Storing a record in a free channel, or an inactive one, keeps the channels
\* exclusive.
LEMMA PutExclusive ==
  ASSUME NEW t, NEW r, one_active_per_channel(tasks), execution_available(t, r)
  PROVE  one_active_per_channel(put(tasks, t, r))
<1> DEFINE doc == put(tasks, t, r)
<1>1. /\ DOMAIN doc = DOMAIN tasks \cup {t}
      /\ doc[t] = r
      /\ \A u \in DOMAIN tasks \ {t} : doc[u] = tasks[u]
  BY DEF put
<1>2. \A u \in DOMAIN tasks \ {t} :
        is_active(r) /\ is_active(tasks[u]) => tasks[u].channel # r.channel
  BY DEF execution_available
<1> HIDE DEF doc
<1>3. ASSUME NEW u \in DOMAIN doc, NEW v \in DOMAIN doc,
             is_active(doc[u]), is_active(doc[v]), doc[u].channel = doc[v].channel
      PROVE  u = v
  <2>1. CASE u = t
    BY <1>1, <1>2, <1>3, <2>1
  <2>2. CASE v = t
    BY <1>1, <1>2, <1>3, <2>2
  <2>3. CASE u # t /\ v # t
    BY <1>1, <1>3, <2>3 DEF one_active_per_channel
  <2> QED
    BY <2>1, <2>2, <2>3
<1> QED
  BY <1>3 DEF one_active_per_channel, doc

\* A document with one more record, or one record replaced, is a document.
LEMMA PutType ==
  ASSUME NEW d, is_document(d), NEW t \in TaskIds, NEW r \in Record
  PROVE  is_document(put(d, t, r))
BY DEF is_document, put

\* The records a start or a continuation creates.
LEMMA NewRecordFacts ==
  ASSUME NEW o \in Owners, NEW c \in Channels, NEW e \in Triggers,
         NEW f \in TaskIds \cup {None}, NEW now \in Nat
  PROVE  /\ new_record(o, c, e, f, now) \in Record
         /\ \A t \in TaskIds \ {f} : valid_record(t, new_record(o, c, e, f, now))
BY RecordAssumption DEF new_record, Record, States, valid_record, FAILURE_STATES

\* create: a new record that nothing links to.
LEMMA CreateGood ==
  ASSUME IInv, NEW t \in TaskIds,
         NEW o \in Owners, NEW c \in Channels, NEW e \in Triggers,
         create(t, new_record(o, c, e, None, clock))
  PROVE  IInv' /\ Committed
<1> DEFINE r == new_record(o, c, e, None, clock)
           doc == put(tasks, t, r)
<1>2. r \in Record /\ valid_record(t, r) /\ r.from = None /\ r.to = None
  BY NewRecordFacts, RecordAssumption DEF IInv, new_record
<1>3. GoodDocument(tasks)
  BY TasksGood
<1>4. t \notin DOMAIN tasks
  BY DEF create
<1> HIDE DEF r
<1>5. /\ DOMAIN doc = DOMAIN tasks \cup {t}
      /\ doc[t] = r
      /\ \A u \in DOMAIN tasks : doc[u] = tasks[u]
  BY <1>4 DEF put
<1> HIDE DEF doc
<1>6. is_document(doc) /\ IsFiniteSet(DOMAIN doc)
  <2>1. is_document(doc)
    BY <1>2, <1>3, PutType DEF GoodDocument, doc
  <2> QED
    BY <2>1, <1>3, <1>5, FS_AddElement DEF GoodDocument
<1>7. one_active_per_channel(doc)
  BY <1>3, PutExclusive DEF create, GoodDocument, doc, r
<1>8. links_reciprocal(doc)
  BY <1>2, <1>3, <1>4, <1>5
     DEF GoodDocument, validate_continuation_graph, links_reciprocal
<1>9. links_acyclic(doc)
  <2>1. SUFFICES ASSUME NEW ids \in SUBSET DOMAIN doc, ids # {}
                 PROVE  \E u \in ids : doc[u].to \notin ids
    BY DEF links_acyclic
  <2>2. CASE t \in ids
    <3>1. None \notin ids
      BY <1>3, <1>5, RecordAssumption DEF GoodDocument, is_document
    <3> QED
      BY <2>2, <3>1, <1>2, <1>5
  <2>3. CASE t \notin ids
    BY <2>1, <2>3, <1>3, <1>5 DEF GoodDocument, validate_continuation_graph, links_acyclic
  <2> QED
    BY <2>2, <2>3
<1>10. \A u \in DOMAIN doc : valid_record(u, doc[u])
  BY <1>2, <1>3, <1>5 DEF GoodDocument
<1>11. GoodDocument(doc)
  BY <1>6, <1>7, <1>8, <1>9, <1>10 DEF GoodDocument, validate_continuation_graph
<1>12. commit(doc)
  BY DEF create, doc, r
<1> QED
  BY <1>11, <1>12, CommitGood

\* A legal update keeps the links, and a continued task stays completed.
LEMMA UpdateKeepsLinks ==
  ASSUME NEW current \in Record, NEW candidate, validate_update(current, candidate)
  PROVE  /\ candidate.from = current.from /\ candidate.to = current.to
         /\ candidate.owner = current.owner /\ candidate.channel = current.channel
         /\ current.state = "completed" => candidate.state = "completed"
<1>1. \A field \in {"owner", "channel", "trigger", "from", "to", "revision"} :
        candidate[field] = current[field]
  BY DEF validate_update
<1>2. candidate["from"] = current["from"] /\ candidate["to"] = current["to"]
  BY <1>1
<1>3. candidate["owner"] = current["owner"] /\ candidate["channel"] = current["channel"]
  BY <1>1
<1>4. current.state = "completed" => candidate.state = "completed"
  BY DEF validate_update, can_transition, TRANSITIONS, States
<1> QED
  BY <1>2, <1>3, <1>4

\* One record replaced by a legal update of it.
LEMMA UpdatedGood ==
  ASSUME IInv, NEW t \in DOMAIN tasks, NEW candidate \in Record,
         valid_record(t, candidate), validate_update(tasks[t], candidate),
         execution_available(t, candidate)
  PROVE  GoodDocument(put(tasks, t, [candidate EXCEPT !.revision = tasks[t].revision + 1]))
<1> DEFINE r == [candidate EXCEPT !.revision = tasks[t].revision + 1]
           doc == put(tasks, t, r)
<1>2. /\ GoodDocument(tasks)
      /\ t \in TaskIds
      /\ tasks[t] \in Record
  BY TasksGood
<1>3. candidate \in Record
  OBVIOUS
<1>4. /\ valid_record(t, candidate)
      /\ validate_update(tasks[t], candidate)
      /\ execution_available(t, candidate)
  OBVIOUS
<1>5. /\ candidate.from = tasks[t].from /\ candidate.to = tasks[t].to
      /\ candidate.owner = tasks[t].owner /\ candidate.channel = tasks[t].channel
      /\ tasks[t].state = "completed" => candidate.state = "completed"
  BY <1>2, <1>4, UpdateKeepsLinks
<1>6. /\ r \in Record
      /\ r.from = tasks[t].from /\ r.to = tasks[t].to
      /\ r.owner = tasks[t].owner /\ r.channel = tasks[t].channel
      /\ r.state = candidate.state /\ r.failure = candidate.failure
  BY <1>2, <1>3, <1>5 DEF Record
<1> HIDE DEF r
<1>7. /\ DOMAIN doc = DOMAIN tasks
      /\ doc[t] = r
      /\ \A u \in DOMAIN tasks \ {t} : doc[u] = tasks[u]
  BY DEF put
<1>8. execution_available(t, r)
  BY <1>4, <1>5, <1>6 DEF execution_available, is_active
<1>9. valid_record(t, r)
  BY <1>4, <1>5, <1>6 DEF valid_record
<1>10. is_document(doc) /\ IsFiniteSet(DOMAIN doc)
  BY <1>2, <1>6, <1>7, PutType DEF GoodDocument
<1>11. one_active_per_channel(doc)
  BY <1>2, <1>8, PutExclusive DEF GoodDocument
<1> HIDE DEF doc
<1>12. links_reciprocal(doc)
  <2>1. \A u \in DOMAIN doc :
          /\ doc[u].to = tasks[u].to /\ doc[u].from = tasks[u].from
          /\ doc[u].owner = tasks[u].owner /\ doc[u].channel = tasks[u].channel
          /\ tasks[u].state = "completed" => doc[u].state = "completed"
    BY <1>5, <1>6, <1>7
  <2>2. links_reciprocal(tasks)
    BY <1>2 DEF GoodDocument, validate_continuation_graph
  <2> QED
    BY <1>7, <2>1, <2>2 DEF links_reciprocal, same_task_scope
<1>13. links_acyclic(doc)
  <2>1. \A u \in DOMAIN doc : doc[u].to = tasks[u].to
    BY <1>6, <1>7
  <2>2. links_acyclic(tasks)
    BY <1>2 DEF GoodDocument, validate_continuation_graph
  <2> QED
    BY <1>7, <2>1, <2>2 DEF links_acyclic
<1>14. \A u \in DOMAIN doc : valid_record(u, doc[u])
  BY <1>2, <1>7, <1>9 DEF GoodDocument
<1>15. GoodDocument(doc)
  BY <1>10, <1>11, <1>12, <1>13, <1>14 DEF GoodDocument, validate_continuation_graph
<1> QED
  BY <1>15 DEF doc, r

\* compare_and_set: it commits a legal update of one record.
LEMMA CompareAndSetGood ==
  ASSUME IInv, NEW t \in DOMAIN tasks, NEW candidate \in Record,
         compare_and_set(t, tasks[t].revision, candidate)
  PROVE  IInv' /\ Committed
BY UpdatedGood, CommitGood DEF compare_and_set

\* link_child: a completed task gets its first continuation.
LEMMA LinkChildGood ==
  ASSUME IInv, NEW p \in DOMAIN tasks, NEW c \in TaskIds,
         NEW o \in Owners, NEW ch \in Channels, NEW e \in Triggers,
         link_child(p, tasks[p].revision, c, new_record(o, ch, e, p, clock))
  PROVE  IInv' /\ Committed
<1> DEFINE child == new_record(o, ch, e, p, clock)
           parent == [tasks[p] EXCEPT !.to = c, !.revision = @ + 1, !.updated = clock]
           linked == put(tasks, p, parent)
           doc == put(linked, c, child)
<1>2. /\ GoodDocument(tasks)
      /\ p \in TaskIds
      /\ tasks[p] \in Record
      /\ valid_record(p, tasks[p])
      /\ clock \in Nat
  BY TasksGood DEF IInv
<1>3. /\ tasks[p].state = "completed" /\ tasks[p].to = None
      /\ c \notin DOMAIN tasks
      /\ same_task_scope(tasks[p], child)
      /\ execution_available(c, child)
      /\ commit(doc)
  BY DEF link_child
<1>4. /\ child \in Record
      /\ child.from = p /\ child.to = None
      /\ valid_record(c, child)
  BY <1>2, <1>3, NewRecordFacts DEF new_record
<1>5. /\ parent \in Record
      /\ parent.to = c /\ parent.from = tasks[p].from
      /\ parent.owner = tasks[p].owner /\ parent.channel = tasks[p].channel
      /\ parent.state = "completed" /\ parent.failure = tasks[p].failure
  <2> DEFINE r == tasks[p]
  <2>1. r \in Record /\ r.state = "completed"
    BY <1>2, <1>3
  <2> HIDE DEF r
  <2>2. [r EXCEPT !.to = c, !.revision = @ + 1, !.updated = clock] \in Record
    <3>1. r.revision + 1 \in Nat
      BY <2>1 DEF Record
    <3>2. [r EXCEPT !.revision = r.revision + 1] \in Record
      BY <2>1, <3>1 DEF Record
    <3>3. [[r EXCEPT !.revision = r.revision + 1] EXCEPT !.to = c, !.updated = clock] \in Record
      BY <3>2, <1>2 DEF Record
    <3>4. [[r EXCEPT !.revision = r.revision + 1] EXCEPT !.to = c, !.updated = clock]
            = [r EXCEPT !.to = c, !.revision = @ + 1, !.updated = clock]
      BY <2>1 DEF Record
    <3> QED
      BY <3>3, <3>4
  <2>3. LET q == [r EXCEPT !.to = c, !.revision = @ + 1, !.updated = clock]
        IN  /\ q.to = c /\ q.from = r.from
            /\ q.owner = r.owner /\ q.channel = r.channel
            /\ q.state = "completed" /\ q.failure = r.failure
    BY <2>1 DEF Record
  <2> QED
    BY <2>2, <2>3 DEF r
<1>6. p # c
  BY <1>3
<1> HIDE DEF child, parent
<1>7. /\ DOMAIN doc = DOMAIN tasks \cup {c}
      /\ doc[c] = child
      /\ doc[p] = parent
      /\ \A u \in DOMAIN tasks \ {p} : doc[u] = tasks[u]
  BY <1>3 DEF put
<1>8. is_document(doc) /\ IsFiniteSet(DOMAIN doc)
  <2>1. is_document(doc)
    BY <1>2, <1>4, <1>5, PutType DEF GoodDocument
  <2> QED
    BY <2>1, <1>2, <1>7, FS_AddElement DEF GoodDocument
<1> HIDE DEF linked, doc
<1>9. one_active_per_channel(doc)
  <2>1. \A u \in DOMAIN tasks : is_active(doc[u]) =>
          u # p /\ is_active(tasks[u]) /\ doc[u].channel = tasks[u].channel
    BY <1>5, <1>7 DEF is_active, ACTIVE_STATES
  <2>2. \A u \in DOMAIN tasks : is_active(doc[u]) /\ is_active(child) =>
          doc[u].channel # child.channel
    BY <1>3, <2>1 DEF execution_available
  <2>3. one_active_per_channel(tasks)
    BY <1>2 DEF GoodDocument
  <2> QED
    BY <1>7, <2>1, <2>2, <2>3 DEF one_active_per_channel
<1>10. None \notin DOMAIN doc
  BY <1>8, RecordAssumption DEF is_document
<1>11. links_reciprocal(doc)
  <2>1. links_reciprocal(tasks)
    BY <1>2 DEF GoodDocument, validate_continuation_graph
  <2>2. ASSUME NEW u \in DOMAIN tasks \ {p}
        PROVE  /\ doc[u].to # None =>
                    /\ doc[u].to \in DOMAIN doc
                    /\ doc[doc[u].to].from = u
                    /\ doc[u].state = "completed"
                    /\ same_task_scope(doc[u], doc[doc[u].to])
               /\ doc[u].from # None =>
                    /\ doc[u].from \in DOMAIN doc
                    /\ doc[doc[u].from].to = u
    <3>1. doc[u] = tasks[u] /\ tasks[u].from # p
      BY <1>3, <1>7, <2>1, <2>2, <1>10 DEF links_reciprocal
    <3> QED
      BY <1>5, <1>7, <2>1, <3>1 DEF links_reciprocal, same_task_scope
  <2>3. /\ doc[p].to = c /\ doc[c].from = p /\ doc[p].state = "completed"
        /\ same_task_scope(doc[p], doc[c])
    BY <1>3, <1>4, <1>5, <1>7 DEF same_task_scope
  <2>4. doc[p].from # None => doc[p].from \in DOMAIN doc /\ doc[doc[p].from].to = p
    <3>1. doc[p].from = tasks[p].from
      BY <1>5, <1>7
    <3>2. ASSUME tasks[p].from # None
          PROVE  /\ tasks[p].from \in DOMAIN tasks \ {p}
                 /\ tasks[tasks[p].from].to = p
      BY <1>2, <2>1, <3>2 DEF links_reciprocal, valid_record
    <3> QED
      BY <1>7, <3>1, <3>2
  <2> QED
    BY <1>4, <1>7, <2>2, <2>3, <2>4 DEF links_reciprocal
<1>12. links_acyclic(doc)
  <2>1. SUFFICES ASSUME NEW ids \in SUBSET DOMAIN doc, ids # {}
                 PROVE  \E u \in ids : doc[u].to \notin ids
    BY DEF links_acyclic
  <2>2. CASE c \in ids
    BY <2>2, <1>4, <1>7, <1>10
  <2>3. CASE c \notin ids /\ p \in ids
    BY <2>3, <1>5, <1>7
  <2>4. CASE c \notin ids /\ p \notin ids
    <3>1. ids \in SUBSET DOMAIN tasks
      BY <2>4, <1>7
    <3>2. PICK u \in ids : tasks[u].to \notin ids
      BY <2>1, <3>1, <1>2 DEF GoodDocument, validate_continuation_graph, links_acyclic
    <3> QED
      BY <2>4, <3>1, <3>2, <1>7
  <2> QED
    BY <2>2, <2>3, <2>4
<1>13. \A u \in DOMAIN doc : valid_record(u, doc[u])
  <2>1. valid_record(p, parent)
    BY <1>2, <1>3, <1>5, <1>6 DEF valid_record, FAILURE_STATES
  <2> QED
    BY <2>1, <1>2, <1>4, <1>7 DEF GoodDocument
<1>14. GoodDocument(doc)
  BY <1>8, <1>9, <1>11, <1>12, <1>13 DEF GoodDocument, validate_continuation_graph
<1>15. commit(doc)
  BY <1>3 DEF doc, linked
<1> QED
  BY <1>14, <1>15, CommitGood

\* What startup reconciliation makes of each stored record.
LEMMA ReconciledFacts ==
  ASSUME IInv, NEW t \in DOMAIN tasks
  PROVE  /\ reconciled(t) \in Record
         /\ reconciled(t).channel = tasks[t].channel
         /\ reconciled(t).owner = tasks[t].owner
         /\ reconciled(t).from = tasks[t].from
         /\ reconciled(t).to = tasks[t].to
         /\ ~is_active(reconciled(t))
         /\ tasks[t].state = "completed" => reconciled(t) = tasks[t]
         /\ reconciled(t) # tasks[t] => reconciled(t).revision = tasks[t].revision + 1
         /\ reconciled(t).cause # tasks[t].cause =>
              tasks[t].cause = None /\ tasks[t].state \notin {"delivering", "completed"}
<1> DEFINE r == tasks[t]
           q == reconcile(tasks[t], clock)
<1>1. r \in Record /\ valid_record(t, r) /\ clock \in Nat
  BY TasksGood DEF IInv
<1>2. /\ q \in Record
      /\ q.channel = r.channel /\ q.owner = r.owner
      /\ q.from = r.from /\ q.to = r.to /\ q.revision = r.revision
      /\ ~is_active(q)
      /\ r.state = "completed" => q = r
      /\ q.cause # r.cause => r.cause = None /\ r.state \notin {"delivering", "completed"}
  BY <1>1, ReconcileFacts
<1>3. reconciled(t) = IF q = r THEN q ELSE [q EXCEPT !.revision = @ + 1]
  BY DEF reconciled
<1> HIDE DEF q, r
<1>4. CASE q = r
  BY <1>2, <1>3, <1>4 DEF r
<1>5. CASE q # r
  <2>1. [q EXCEPT !.revision = @ + 1] \in Record
    BY <1>2 DEF Record
  <2>2. LET n == [q EXCEPT !.revision = @ + 1]
        IN  /\ n.channel = q.channel /\ n.owner = q.owner
            /\ n.from = q.from /\ n.to = q.to /\ n.cause = q.cause
            /\ n.state = q.state /\ n.revision = q.revision + 1
    BY <1>2 DEF Record
  <2> QED
    BY <1>2, <1>3, <1>5, <2>1, <2>2 DEF is_active, r
<1> QED
  BY <1>4, <1>5

\* All records reconciled.
LEMMA AllReconciledGood ==
  ASSUME IInv, \A t \in DOMAIN tasks : valid_record(t, reconciled(t))
  PROVE  GoodDocument([t \in DOMAIN tasks |-> reconciled(t)])
<1> DEFINE new == [t \in DOMAIN tasks |-> reconciled(t)]
<1>1. GoodDocument(tasks)
  BY TasksGood
<1>2. \A t \in DOMAIN tasks :
        /\ new[t] \in Record
        /\ new[t].channel = tasks[t].channel
        /\ new[t].owner = tasks[t].owner
        /\ new[t].from = tasks[t].from
        /\ new[t].to = tasks[t].to
        /\ ~is_active(new[t])
        /\ tasks[t].state = "completed" => new[t] = tasks[t]
  BY ReconciledFacts
<1>3. DOMAIN new = DOMAIN tasks /\ \A t \in DOMAIN new : valid_record(t, new[t])
  OBVIOUS
<1>4. is_document(new) /\ IsFiniteSet(DOMAIN new)
  BY <1>1, <1>2 DEF GoodDocument, is_document
<1> HIDE DEF new
<1>5. one_active_per_channel(new)
  BY <1>2, <1>3 DEF one_active_per_channel
<1>6. links_reciprocal(new)
  BY <1>1, <1>2, <1>3
     DEF GoodDocument, validate_continuation_graph, links_reciprocal, same_task_scope
<1>7. links_acyclic(new)
  BY <1>1, <1>2, <1>3 DEF GoodDocument, validate_continuation_graph, links_acyclic
<1>8. GoodDocument(new)
  BY <1>3, <1>4, <1>5, <1>6, <1>7 DEF GoodDocument, validate_continuation_graph
<1> QED
  BY <1>8 DEF new

\* reconcile_startup: it raises, changes nothing, or commits a document
\* without active records.
LEMMA ReconcileStartupGood ==
  ASSUME IInv, reconcile_startup
  PROVE  IInv' /\ (Committed \/ UNCHANGED <<tasks, disk, durable>>)
<1> DEFINE new == [t \in DOMAIN tasks |-> reconciled(t)]
<1>1. CASE \/ outcome' = "unchanged" /\ UNCHANGED <<tasks, disk, durable, clock>>
           \/ outcome' = "raised" /\ UNCHANGED <<tasks, disk, durable, clock>>
  <2>1. UNCHANGED <<tasks, disk, durable, clock>> /\ outcome' \in {"unchanged", "raised"}
    BY <1>1
  <2>2. Documents' = Documents
    BY <2>1 DEF Documents
  <2>3. AcknowledgedIsDurable'
    BY <2>1 DEF IInv, AcknowledgedIsDurable
  <2> QED
    BY <2>1, <2>2, <2>3 DEF IInv, Outcomes
<1>2. CASE commit(new) /\ \A t \in DOMAIN tasks : valid_record(t, new[t])
  <2>1. GoodDocument(new)
    BY <1>2, AllReconciledGood
  <2> HIDE DEF new
  <2> QED
    BY <1>2, <2>1, CommitGood
<1> QED
  BY <1>1, <1>2 DEF reconcile_startup

\* What is left of a record whose neighbour is forgotten.
LEMMA UnlinkFacts ==
  ASSUME NEW r \in Record, NEW t \in TaskIds, NEW now \in Nat
  PROVE  /\ unlink(r, t, now) \in Record
         /\ unlink(r, t, now).channel = r.channel
         /\ unlink(r, t, now).state = r.state
         /\ unlink(r, t, now).failure = r.failure
         /\ unlink(r, t, now).attempt = r.attempt
         /\ unlink(r, t, now).cause = r.cause
         /\ unlink(r, t, now).from \in {r.from, None}
         /\ unlink(r, t, now).to \in {r.to, None}
         /\ unlink(r, t, now) # r => unlink(r, t, now).revision = r.revision + 1
<1>1. CASE t \notin {r.from, r.to}
  BY <1>1 DEF unlink
<1>2. CASE t \in {r.from, r.to}
  <2> DEFINE f == IF r.from = t THEN None ELSE r.from
             g == IF r.to = t THEN None ELSE r.to
             q == [r EXCEPT !.revision = r.revision + 1, !.updated = now]
             n == [q EXCEPT !.from = f, !.to = g]
  <2>1. unlink(r, t, now) = n
    BY <1>2 DEF unlink, Record
  <2>2. f \in TaskIds \cup {None} /\ g \in TaskIds \cup {None}
    BY DEF Record
  <2>3. f \in {r.from, None} /\ g \in {r.to, None}
    OBVIOUS
  <2> HIDE DEF f, g
  <2>4. q \in Record
    <3>1. r.revision + 1 \in Nat
      BY DEF Record
    <3> QED
      BY <3>1 DEF Record
  <2>5. n \in Record
    BY <2>2, <2>4 DEF Record
  <2>6. /\ n.channel = r.channel /\ n.state = r.state /\ n.failure = r.failure
        /\ n.attempt = r.attempt
        /\ n.cause = r.cause /\ n.from = f /\ n.to = g /\ n.revision = r.revision + 1
    BY DEF Record
  <2> QED
    BY <2>1, <2>3, <2>5, <2>6
<1> QED
  BY <1>1, <1>2

\* One task forgotten, and its neighbours' links to it cleared.
LEMMA ForgottenGood ==
  ASSUME IInv, NEW t \in DOMAIN tasks,
         validate_continuation_graph(forget_inactive_task(tasks, t, clock))
  PROVE  GoodDocument(forget_inactive_task(tasks, t, clock))
<1> DEFINE doc == forget_inactive_task(tasks, t, clock)
<1>1. /\ GoodDocument(tasks)
      /\ t \in TaskIds
      /\ clock \in Nat
      /\ \A u \in DOMAIN tasks : tasks[u] \in Record
  BY TasksGood DEF IInv
<1>2. validate_continuation_graph(doc)
  OBVIOUS
<1>3. DOMAIN doc = DOMAIN tasks \ {t} /\ \A u \in DOMAIN doc : doc[u] = unlink(tasks[u], t, clock)
  BY DEF forget_inactive_task
<1>4. \A u \in DOMAIN doc :
        /\ doc[u] \in Record
        /\ doc[u].channel = tasks[u].channel
        /\ doc[u].state = tasks[u].state
        /\ doc[u].failure = tasks[u].failure
        /\ doc[u].from \in {tasks[u].from, None}
        /\ doc[u].to \in {tasks[u].to, None}
  BY <1>1, <1>3, UnlinkFacts
<1>5. is_document(doc) /\ IsFiniteSet(DOMAIN doc)
  <2>1. is_document(doc)
    BY <1>1, <1>3, <1>4 DEF GoodDocument, is_document, forget_inactive_task
  <2> QED
    BY <2>1, <1>1, <1>3, FS_RemoveElement DEF GoodDocument
<1> HIDE DEF doc
<1>6. one_active_per_channel(doc)
  BY <1>1, <1>3, <1>4 DEF GoodDocument, one_active_per_channel, is_active
<1>7. \A u \in DOMAIN doc : valid_record(u, doc[u])
  <2>1. ASSUME NEW u \in DOMAIN doc
        PROVE  valid_record(u, doc[u])
    <3>1. valid_record(u, tasks[u]) /\ u \in TaskIds
      BY <1>1, <1>3 DEF GoodDocument, is_document
    <3> QED
      BY <1>4, <3>1, RecordAssumption DEF valid_record
  <2> QED
    BY <2>1
<1>8. GoodDocument(doc)
  BY <1>2, <1>5, <1>6, <1>7 DEF GoodDocument
<1> QED
  BY <1>8 DEF doc

\* forget: it commits the document without the task.
LEMMA ForgetGood ==
  ASSUME IInv, NEW t \in DOMAIN tasks, forget(t, tasks[t].revision)
  PROVE  IInv' /\ Committed
BY ForgottenGood, CommitGood DEF forget

\* A new process finds a good document, after a crash and after a power loss.
LEMMA LoadGood ==
  ASSUME IInv, restart \/ power_loss
  PROVE  IInv'
<1>1. CASE restart
  <2>1. /\ tasks' = disk /\ outcome' = "loaded"
        /\ UNCHANGED <<disk, durable, clock>>
    BY <1>1 DEF restart, load
  <2> QED
    BY <2>1 DEF IInv, Documents, AcknowledgedIsDurable, Outcomes
<1>2. CASE power_loss
  <2>1. PICK doc \in durable :
          /\ tasks' = doc /\ disk' = doc /\ durable' = {doc}
          /\ outcome' = "loaded" /\ UNCHANGED clock
    BY <1>2 DEF power_loss, load
  <2> QED
    BY <2>1 DEF IInv, Documents, AcknowledgedIsDurable, Outcomes
<1> QED
  BY <1>1, <1>2

\* The empty store is good.
LEMMA InitGood == StoreInit => IInv
<1> SUFFICES ASSUME StoreInit PROVE IInv
  OBVIOUS
<1>1. DOMAIN EmptyDocument = {} /\ EmptyDocument = [t \in {} |-> None]
  BY DEF EmptyDocument
<1>2. GoodDocument(EmptyDocument)
  <2>1. is_document(EmptyDocument) /\ IsFiniteSet(DOMAIN EmptyDocument)
    BY <1>1, FS_EmptySet DEF is_document
  <2>2. one_active_per_channel(EmptyDocument)
    BY <1>1 DEF one_active_per_channel
  <2>3. validate_continuation_graph(EmptyDocument)
    BY <1>1 DEF validate_continuation_graph, links_reciprocal, links_acyclic
  <2> QED
    BY <1>1, <2>1, <2>2, <2>3 DEF GoodDocument
<1> QED
  BY <1>2 DEF StoreInit, IInv, Documents, AcknowledgedIsDurable, Outcomes

\* Every operation of the store, and every end of the process, preserves the
\* invariant.
LEMMA StepGood == IInv /\ [StoreNext]_storeVars => IInv'
<1> SUFFICES ASSUME IInv, [StoreNext]_storeVars PROVE IInv'
  OBVIOUS
<1>1. CASE \E t \in TaskIds : Create(t)
  BY <1>1, CreateGood DEF Create
<1>2. CASE \E t \in DOMAIN tasks : CompareAndSet(t)
  <2>1. PICK t \in DOMAIN tasks : CompareAndSet(t)
    BY <1>2
  <2>2. PICK candidate \in updates(tasks[t], clock) :
          compare_and_set(t, tasks[t].revision, candidate)
    BY <2>1 DEF CompareAndSet
  <2>3. candidate \in Record
    BY TasksGood, UpdatesType DEF IInv
  <2> QED
    BY <2>2, <2>3, CompareAndSetGood
<1>3. CASE \E p \in DOMAIN tasks, c \in TaskIds : LinkChild(p, c)
  BY <1>3, LinkChildGood DEF LinkChild
<1>4. CASE ReconcileStartup
  BY <1>4, ReconcileStartupGood DEF ReconcileStartup
<1>5. CASE \E t \in DOMAIN tasks : Forget(t)
  BY <1>5, ForgetGood DEF Forget
<1>6. CASE restart \/ power_loss
  BY <1>6, LoadGood
<1>7. CASE tick
  BY <1>7 DEF tick, IInv, Documents, AcknowledgedIsDurable
<1>8. CASE UNCHANGED storeVars
  BY <1>8 DEF storeVars, IInv, Documents, AcknowledgedIsDurable
<1> QED
  BY <1>1, <1>2, <1>3, <1>4, <1>5, <1>6, <1>7, <1>8 DEF StoreNext

----------------------------------------------------------------------------
(* Theorems.                                                               *)

\* The inductive invariant holds in every reachable state of the store.
THEOREM StoreInvariant == StoreSpec => []IInv
<1>1. StoreInit => IInv
  BY InitGood
<1>2. IInv /\ [StoreNext]_storeVars => IInv'
  BY StepGood
<1> QED
  BY <1>1, <1>2, PTL DEF StoreSpec

\* Memory, file and every document a power loss may leave hold records only.
THEOREM TypeCorrect == StoreSpec => []TypeOK
BY StoreInvariant, IInvImplies, PTL

\* No execution channel ever has two active tasks, in memory or in any document
\* a restart may load.
THEOREM ChannelsExclusive == StoreSpec => []OneActivePerChannel
BY StoreInvariant, IInvImplies, PTL

\* _load never meets a document it rejects: whatever the store wrote, and
\* whatever part of it a power loss keeps, the gateway starts again.
THEOREM StoreAlwaysLoads == StoreSpec => []DocumentsLoad
BY StoreInvariant, IInvImplies, PTL

\* An operation that returned normally survives a crash and a power loss.
THEOREM AcknowledgedSurvives == StoreSpec => []AcknowledgedIsDurable
BY StoreInvariant, IInvImplies, PTL

----------------------------------------------------------------------------
(* What retention keeps is what the scan of the code computes.             *)

\* A set of numbers that is not empty has a least one.
LEMMA Least ==
  ASSUME NEW S \in SUBSET Nat, S # {}
  PROVE  \E i \in S : \A j \in S : i <= j
<1> DEFINE R == {ss \in Nat \X Nat : ss[1] < ss[2]}
<1>1. \A x, y \in Nat : x < y <=> <<x, y>> \in R
  OBVIOUS
<1>2. IsWellFoundedOn(R, Nat)
  BY NatLessThanWellFounded DEF OpToRel
<1> HIDE DEF R
<1>3. PICK i \in S : \A j \in S : ~ (<<j, i>> \in R)
  BY <1>2, WFMin
<1>4. \A j \in S : ~ (j < i)
  <2>1. S \subseteq Nat
    OBVIOUS
  <2> QED
    BY <1>1, <1>3, <2>1
<1> QED
  BY <1>4

\* What holds of 0, and of n + 1 if it holds of n < m, holds up to m.
LEMMA Upto ==
  ASSUME NEW m \in Nat, NEW P \in SUBSET Nat, 0 \in P,
         \A n \in P : n < m => n + 1 \in P
  PROVE  0 .. m \subseteq P
<1> SUFFICES ASSUME ~ (0 .. m \subseteq P) PROVE FALSE
  OBVIOUS
<1> DEFINE S == (0 .. m) \ P
<1>1. S \in SUBSET Nat /\ S # {}
  OBVIOUS
<1> HIDE DEF S
<1>4. PICK i \in S : \A j \in S : i <= j
  BY <1>1, Least
<1> USE DEF S
<1>2. i # 0 /\ i - 1 \in 0 .. m
  BY <1>4
<1>3. i - 1 \in P
  BY <1>4, <1>2
<1> QED
  BY <1>4, <1>2, <1>3

\* A finite set of numbers has a greatest one.
LEMMA Greatest ==
  ASSUME NEW S \in SUBSET Nat, IsFiniteSet(S), S # {}
  PROVE  Max(S) \in S /\ \A y \in S : Max(S) >= y
<1> DEFINE Topped(T) == \E x \in T : \A y \in T : x >= y
           P == {n \in Nat : \A T \in SUBSET S : Cardinality(T) = n /\ T # {} => Topped(T)}
<1>1. 0 \in P
  BY FS_Subset, FS_EmptySet
<1>2. ASSUME NEW n \in P PROVE n + 1 \in P
  <2>1. SUFFICES ASSUME NEW T \in SUBSET S, Cardinality(T) = n + 1, T # {}
                 PROVE  Topped(T)
    BY <1>2
  <2>2. PICK x \in T : TRUE
    BY <2>1
  <2>3. IsFiniteSet(T)
    BY <2>1, FS_Subset
  <2>4. T \ {x} \in SUBSET S /\ Cardinality(T \ {x}) = n
    <3>1. Cardinality(T \ {x}) = Cardinality(T) - 1
      BY <2>2, <2>3, FS_RemoveElement
    <3> QED
      BY <2>1, <3>1, <1>2
  <2>5. CASE T \ {x} = {}
    <3>1. T = {x} /\ x \in Nat
      BY <2>2, <2>5
    <3> QED
      BY <3>1
  <2>6. CASE T \ {x} # {}
    <3>1. PICK z \in T \ {x} : \A y \in T \ {x} : z >= y
      BY <1>2, <2>4, <2>6
    <3>2. x \in Nat /\ z \in Nat /\ \A y \in T : y \in Nat /\ (y = x \/ y \in T \ {x})
      BY <2>2
    <3>3. CASE x >= z
      BY <2>2, <3>1, <3>2, <3>3
    <3>4. CASE ~ (x >= z)
      BY <2>2, <3>1, <3>2, <3>4
    <3> QED
      BY <3>3, <3>4
  <2> QED
    BY <2>5, <2>6
<1>3. Cardinality(S) \in Nat /\ P \in SUBSET Nat
  BY FS_CardinalityType
<1> HIDE DEF P
<1>4. 0 .. Cardinality(S) \subseteq P
  BY <1>1, <1>2, <1>3, Upto
<1>5. Cardinality(S) \in P
  BY <1>3, <1>4
<1>6. Topped(S)
  BY <1>5 DEF P
<1> QED
  BY <1>6 DEF Max

\* The documents retention is about: finite, and with links in both directions.
LinkedDocument(d) ==
  /\ is_document(d)
  /\ links_reciprocal(d)
  /\ IsFiniteSet(DOMAIN d)

\* Links lead to stored tasks and back.
LEMMA NeighboursBack ==
  ASSUME NEW d, LinkedDocument(d), NEW t \in DOMAIN d, NEW n \in neighbours(d, t)
  PROVE  n \in DOMAIN d /\ t \in neighbours(d, n)
<1>1. CASE n = d[t].to /\ n # None
  <2>1. n \in DOMAIN d /\ d[n].from = t
    BY <1>1 DEF LinkedDocument, links_reciprocal
  <2>2. t # None
    BY RecordAssumption DEF LinkedDocument, is_document
  <2> QED
    BY <2>1, <2>2 DEF neighbours
<1>2. CASE n = d[t].from /\ n # None
  <2>1. n \in DOMAIN d /\ d[n].to = t
    BY <1>2 DEF LinkedDocument, links_reciprocal
  <2>2. t # None
    BY RecordAssumption DEF LinkedDocument, is_document
  <2> QED
    BY <2>1, <2>2 DEF neighbours
<1> QED
  BY <1>1, <1>2 DEF neighbours

\* A component holds its task and is closed under links.
LEMMA ComponentClosed ==
  ASSUME NEW d, LinkedDocument(d), NEW t \in DOMAIN d
  PROVE  /\ component(d, t) \subseteq DOMAIN d
         /\ t \in component(d, t)
         /\ closed_under_links(d, component(d, t))
<1>1. component(d, t) \subseteq DOMAIN d /\ t \in component(d, t)
  BY DEF component
<1>2. ASSUME NEW u \in component(d, t), NEW n \in neighbours(d, u)
      PROVE  n \in component(d, t)
  <2>1. n \in DOMAIN d
    BY <1>1, <1>2, NeighboursBack
  <2>2. ASSUME NEW ids \in SUBSET DOMAIN d, t \in ids, closed_under_links(d, ids)
        PROVE  n \in ids
    <3>1. u \in ids
      BY <1>2, <2>2 DEF component
    <3> QED
      BY <3>1, <1>2, <2>2 DEF closed_under_links
  <2> QED
    BY <2>1, <2>2 DEF component
<1>3. closed_under_links(d, component(d, t))
  BY <1>2 DEF closed_under_links
<1> QED
  BY <1>1, <1>3

\* Every task of a component has that component.
LEMMA ComponentShared ==
  ASSUME NEW d, LinkedDocument(d), NEW t \in DOMAIN d, NEW u \in component(d, t)
  PROVE  component(d, u) = component(d, t)
<1> DEFINE cu == component(d, u)
           ct == component(d, t)
           rest == ct \ cu
<1>1. /\ ct \subseteq DOMAIN d /\ t \in ct /\ closed_under_links(d, ct)
      /\ u \in DOMAIN d
  BY ComponentClosed DEF component
<1>2. cu \subseteq DOMAIN d /\ u \in cu /\ closed_under_links(d, cu)
  BY <1>1, ComponentClosed
<1>3. cu \subseteq ct
  BY <1>1 DEF component
<1>4. closed_under_links(d, rest)
  <2>1. ASSUME NEW x \in rest, NEW n \in neighbours(d, x), n \in cu
        PROVE  FALSE
    <3>1. x \in neighbours(d, n)
      BY <1>1, <2>1, NeighboursBack
    <3> QED
      BY <1>2, <2>1, <3>1 DEF closed_under_links
  <2> QED
    BY <1>1, <2>1 DEF closed_under_links
<1>5. t \in cu
  <2>1. ASSUME t \in rest PROVE FALSE
    <3>1. rest \in SUBSET DOMAIN d
      BY <1>1
    <3>2. u \in rest
      BY <2>1, <3>1, <1>4 DEF component
    <3> QED
      BY <3>2, <1>2
  <2> QED
    BY <1>1, <2>1
<1>6. ct \subseteq cu
  BY <1>2, <1>5 DEF component
<1> QED
  BY <1>3, <1>6

\* The components are finitely many finite sets, none empty, no two meeting.
LEMMA ComponentsPartition ==
  ASSUME NEW d, LinkedDocument(d)
  PROVE  /\ IsFiniteSet(components(d))
         /\ \A c \in components(d) :
              /\ c \subseteq DOMAIN d
              /\ IsFiniteSet(c)
              /\ c # {}
         /\ \A c, e \in components(d) : c \cap e # {} => c = e
<1>1. \A t \in DOMAIN d : component(d, t) \subseteq DOMAIN d /\ t \in component(d, t)
  BY ComponentClosed
<1>2. components(d) \subseteq SUBSET DOMAIN d
  BY <1>1 DEF components
<1>3. IsFiniteSet(DOMAIN d)
  BY DEF LinkedDocument
<1>4. IsFiniteSet(components(d))
  <2>1. IsFiniteSet(SUBSET DOMAIN d)
    BY <1>3, FS_SUBSET
  <2> QED
    BY <1>2, <2>1, FS_Subset
<1>5. \A c \in components(d) : c \subseteq DOMAIN d /\ IsFiniteSet(c) /\ c # {}
  <2>1. \A c \in components(d) : IsFiniteSet(c)
    BY <1>2, <1>3, FS_Subset
  <2> QED
    BY <1>1, <1>2, <2>1 DEF components
<1>6. ASSUME NEW c \in components(d), NEW e \in components(d), c \cap e # {}
      PROVE  c = e
  <2>1. PICK t \in DOMAIN d, u \in DOMAIN d : c = component(d, t) /\ e = component(d, u)
    BY DEF components
  <2>2. PICK x : x \in c /\ x \in e
    BY <1>6
  <2>3. component(d, x) = c /\ component(d, x) = e
    BY <2>1, <2>2, ComponentShared
  <2> QED
    BY <2>3
<1> QED
  BY <1>4, <1>5, <1>6

\* The key of a component is a time and one of its ids.
LEMMA KeyType ==
  ASSUME NEW d, LinkedDocument(d), NEW c \in components(d)
  PROVE  /\ component_key(d, c).time \in Nat
         /\ component_key(d, c).id \in c
         /\ component_key(d, c).id \in Nat
<1>1. c \subseteq DOMAIN d /\ IsFiniteSet(c) /\ c # {}
  BY ComponentsPartition
<1>2. /\ \A t \in c : t \in Nat /\ d[t].updated \in Nat
  BY <1>1, RecordAssumption DEF LinkedDocument, is_document, Record
<1> DEFINE times == {d[t].updated : t \in c}
           last == {t \in c : d[t].updated = updated_at(d, c)}
<1>3. IsFiniteSet(times)
  <2> DEFINE f == [t \in c |-> d[t].updated]
  <2>1. f \in Surjection(c, times)
    BY DEF Surjection
  <2> QED
    BY <1>1, <2>1, FS_Surjection
<1>4. times \in SUBSET Nat /\ times # {}
  BY <1>1, <1>2
<1>5. updated_at(d, c) \in times
  BY <1>3, <1>4, Greatest DEF updated_at
<1>6. last \in SUBSET Nat /\ last # {} /\ IsFiniteSet(last)
  <2>1. last \subseteq c
    OBVIOUS
  <2>2. IsFiniteSet(last)
    BY <1>1, <2>1, FS_Subset
  <2> QED
    BY <1>2, <1>5, <2>2
<1> HIDE DEF last
<1>7. Max(last) \in last
  BY <1>6, Greatest
<1> USE DEF last
<1> QED
  BY <1>2, <1>4, <1>5, <1>7 DEF component_key

\* newer orders the components strictly and totally.
LEMMA NewerOrders ==
  ASSUME NEW d, LinkedDocument(d)
  PROVE  /\ \A c \in components(d) : ~ newer(d, c, c)
         /\ \A c, e \in components(d) : c # e => newer(d, c, e) \/ newer(d, e, c)
         /\ \A a, b, c \in components(d) :
              newer(d, a, b) /\ newer(d, b, c) => newer(d, a, c)
<1>1. \A c \in components(d) : /\ component_key(d, c).time \in Nat
                               /\ component_key(d, c).id \in c
                               /\ component_key(d, c).id \in Nat
  BY KeyType
<1>2. \A c, e \in components(d) :
        c # e => component_key(d, c).id # component_key(d, e).id
  BY <1>1, ComponentsPartition
<1> QED
  BY <1>1, <1>2 DEF newer

\* The sort succeeds: it returns every inactive component once, newest first.
\* A component's place is one more than the number of newer ones.
LEMMA OrderFacts ==
  ASSUME NEW d, LinkedDocument(d), NEW now
  PROVE  LET C == recent_components(d, now)
             n == Cardinality(C)
             order == scan_order(d, now)
         IN  /\ IsFiniteSet(C) /\ n \in Nat
             /\ order \in [1 .. n -> C]
             /\ \A i, j \in 1 .. n : newer(d, order[i], order[j]) <=> i < j
             /\ \A i, j \in 1 .. n : order[i] = order[j] => i = j
             /\ \A c \in C : \E i \in 1 .. n : order[i] = c
<1> DEFINE C == recent_components(d, now)
           n == Cardinality(C)
           Before(c) == {b \in C : newer(d, b, c)}
           place == [c \in C |-> Cardinality(Before(c)) + 1]
           sorted(o) == \A i, j \in 1 .. n : i < j => newer(d, o[i], o[j])
<1>1. C \subseteq components(d)
  BY DEF recent_components
<1>2. IsFiniteSet(C) /\ n \in Nat
  BY <1>1, ComponentsPartition, FS_Subset, FS_CardinalityType
<1>3. /\ \A c \in C : ~ newer(d, c, c)
      /\ \A c, e \in C : c # e => newer(d, c, e) \/ newer(d, e, c)
      /\ \A a, b, c \in C : newer(d, a, b) /\ newer(d, b, c) => newer(d, a, c)
  BY <1>1, NewerOrders
<1> HIDE DEF C
<1>4. ASSUME NEW c \in C
      PROVE  IsFiniteSet(Before(c)) /\ Cardinality(Before(c)) \in Nat /\ place[c] \in 1 .. n
  <2>1. Before(c) \in SUBSET C /\ Before(c) # C
    BY <1>3
  <2>2. /\ IsFiniteSet(Before(c)) /\ Cardinality(Before(c)) \in Nat
        /\ Cardinality(Before(c)) <= n /\ Cardinality(Before(c)) # n
    BY <1>2, <2>1, FS_Subset, FS_CardinalityType
  <2> HIDE DEF Before, n
  <2>3. place[c] = Cardinality(Before(c)) + 1
    OBVIOUS
  <2> QED
    BY <1>2, <2>2, <2>3
<1>5. ASSUME NEW b \in C, NEW c \in C, newer(d, b, c) PROVE place[b] < place[c]
  <2>1. Before(b) \subseteq Before(c) /\ b \in Before(c) /\ b \notin Before(b)
    BY <1>3, <1>5
  <2>2. Before(b) \in SUBSET Before(c) /\ Before(b) # Before(c)
    BY <2>1
  <2>3. /\ Cardinality(Before(b)) <= Cardinality(Before(c))
        /\ Cardinality(Before(b)) # Cardinality(Before(c))
    BY <1>4, <2>2, FS_Subset
  <2>4. /\ Cardinality(Before(b)) \in Nat /\ Cardinality(Before(c)) \in Nat
        /\ place[b] = Cardinality(Before(b)) + 1
        /\ place[c] = Cardinality(Before(c)) + 1
    BY <1>4
  <2> HIDE DEF Before, place
  <2> QED
    BY <2>3, <2>4
<1>6. \A c \in C : place[c] \in Nat
  <2>1. \A c \in C : place[c] \in 1 .. n
    BY <1>4
  <2> HIDE DEF place, n
  <2> QED
    BY <1>2, <2>1
<1>7. place \in Injection(C, 1 .. n)
  <2>1. place \in [C -> 1 .. n]
    BY <1>4
  <2>2. \A b, c \in C : place[b] = place[c] => b = c
    <3> HIDE DEF place
    <3> QED
      BY <1>3, <1>5, <1>6
  <2> HIDE DEF place, n
  <2> QED
    BY <2>1, <2>2 DEF Injection, IsInjective
<1>8. Cardinality(1 .. n) = n /\ IsFiniteSet(1 .. n)
  BY <1>2, FS_Interval
<1>9. place \in Surjection(C, 1 .. n)
  <2> HIDE DEF place, n
  <2>1. n = Cardinality(C)
    BY DEF n
  <2> QED
    BY <1>7, <1>8, <2>1, FS_Injection
<1> DEFINE o == [i \in 1 .. n |-> CHOOSE c \in C : place[c] = i]
<1>10. \A i \in 1 .. n : o[i] \in C /\ place[o[i]] = i
  <2>1. \A i \in 1 .. n : \E c \in C : place[c] = i
    <3> HIDE DEF place, n
    <3> QED
      BY <1>9 DEF Surjection
  <2> HIDE DEF place
  <2> QED
    BY <2>1
<1>11. o \in [1 .. n -> C]
  BY <1>10
<1>12. sorted(o)
  <2> SUFFICES ASSUME NEW i \in 1 .. n, NEW j \in 1 .. n, i < j
               PROVE  newer(d, o[i], o[j])
    OBVIOUS
  <2> HIDE DEF place, o
  <2>1. o[i] # o[j] /\ ~ (place[o[j]] < place[o[i]])
    BY <1>2, <1>10
  <2> QED
    BY <2>1, <1>3, <1>5, <1>10
<1> DEFINE order == scan_order(d, now)
<1>13. order \in [1 .. n -> C] /\ sorted(order)
  BY <1>11, <1>12 DEF scan_order, C
<1> HIDE DEF order, o, place
<1>14. \A i, j \in 1 .. n : newer(d, order[i], order[j]) <=> i < j
  <2> SUFFICES ASSUME NEW i \in 1 .. n, NEW j \in 1 .. n, newer(d, order[i], order[j])
               PROVE  i < j
    BY <1>13
  <2>1. order[i] \in C /\ order[j] \in C
    BY <1>13
  <2>2. i # j
    BY <1>3, <2>1
  <2>3. ~ newer(d, order[j], order[i])
    BY <1>3, <2>1
  <2>4. ~ (j < i)
    BY <1>13, <2>3
  <2> QED
    BY <1>2, <2>2, <2>4
<1>15. \A i, j \in 1 .. n : order[i] = order[j] => i = j
  BY <1>2, <1>3, <1>13
<1>16. \A c \in C : \E i \in 1 .. n : order[i] = c
  <2> HIDE DEF n
  <2>1. order \in Injection(1 .. n, C)
    BY <1>13, <1>15 DEF Injection, IsInjective
  <2>2. n = Cardinality(C)
    BY DEF n
  <2>3. order \in Surjection(1 .. n, C)
    BY <1>2, <1>8, <2>1, <2>2, FS_Injection
  <2> QED
    BY <2>3 DEF Surjection
<1> QED
  BY <1>2, <1>13, <1>14, <1>15, <1>16 DEF C, order

\* The loop keeps the component at each place that fits beside those kept
\* before it, and its count is the number of tasks in them.
LEMMA ScanFacts ==
  ASSUME NEW d, LinkedDocument(d), NEW now
  PROVE  LET n == Cardinality(recent_components(d, now))
             order == scan_order(d, now)
             kept == scan_retained(d, now)
         IN  /\ kept \subseteq recent_components(d, now)
             /\ \A i \in 1 .. n :
                  order[i] \in kept <=>
                    Cardinality(UNION {c \in kept : newer(d, c, order[i])})
                      + Cardinality(order[i]) <= MAX_INACTIVE_TASKS
<1> DEFINE C == recent_components(d, now)
           n == Cardinality(C)
           order == scan_order(d, now)
           step(f, i) ==
             IF i = 0 THEN [retained |-> {}, inactive_count |-> 0]
             ELSE IF f[i - 1].inactive_count + Cardinality(order[i]) > MAX_INACTIVE_TASKS
                    THEN f[i - 1]
                    ELSE [retained       |-> f[i - 1].retained \cup {order[i]},
                          inactive_count |-> f[i - 1].inactive_count + Cardinality(order[i])]
           defines(f, m) == f = [i \in 0 .. m |-> step(f, i)]
           scan == CHOOSE f : defines(f, n)
<1>1. scan_retained(d, now) = scan[n].retained
  BY DEF scan_retained
<1>2. /\ IsFiniteSet(C) /\ n \in Nat
      /\ order \in [1 .. n -> C]
      /\ \A i, j \in 1 .. n : newer(d, order[i], order[j]) <=> i < j
      /\ \A i, j \in 1 .. n : order[i] = order[j] => i = j
      /\ \A c \in C : \E i \in 1 .. n : order[i] = c
  BY OrderFacts
<1>3. /\ \A c \in C : IsFiniteSet(c) /\ Cardinality(c) \in Nat
      /\ \A c, e \in C : c \cap e # {} => c = e
  BY ComponentsPartition, FS_CardinalityType DEF recent_components
<1> HIDE DEF order, C, n
<1>4. \E f : defines(f, n)
  <2> DEFINE P == {m \in Nat : \E f : defines(f, m)}
  <2>1. 0 \in P
    <3>1. defines([i \in 0 .. 0 |-> [retained |-> {}, inactive_count |-> 0]], 0)
      OBVIOUS
    <3> QED
      BY <3>1
  <2>2. ASSUME NEW m \in P PROVE m + 1 \in P
    <3>1. PICK f : defines(f, m)
      BY <2>2
    <3>2. m \in Nat
      BY <2>2
    <3> DEFINE g == [i \in 0 .. m + 1 |-> IF i <= m THEN f[i] ELSE step(f, m + 1)]
    <3>3. \A i \in 0 .. m : f[i] = step(f, i)
      BY <3>1, Zenon
    <3>4. \A i \in 0 .. m + 1 : g[i] = IF i <= m THEN f[i] ELSE step(f, m + 1)
      OBVIOUS
    <3>5. g = [i \in 0 .. m + 1 |-> g[i]]
      OBVIOUS
    <3> HIDE DEF g
    <3>6. ASSUME NEW i \in 0 .. m + 1 PROVE g[i] = step(g, i)
      <4>1. g[i] = step(f, i)
        <5> HIDE DEF step
        <5>1. i \in 0 .. m \/ i = m + 1
          BY <3>2
        <5> QED
          BY <3>2, <3>3, <3>4, <5>1
      <4>2. i # 0 => i - 1 \in 0 .. m + 1 /\ i - 1 <= m
        BY <3>2
      <4>3. i # 0 => g[i - 1] = f[i - 1]
        BY <3>4, <4>2
      <4>4. step(f, i) = step(g, i)
        BY <4>3, Zenon
      <4> QED
        BY <4>1, <4>4
    <3>7. defines(g, m + 1)
      BY <3>5, <3>6
    <3> HIDE DEF defines
    <3>8. \E h : defines(h, m + 1)
      BY <3>7
    <3> QED
      BY <3>2, <3>8
  <2>3. P \in SUBSET Nat
    OBVIOUS
  <2> HIDE DEF P
  <2>4. 0 .. n \subseteq P
    BY <1>2, <2>1, <2>2, <2>3, Upto
  <2>5. n \in P
    BY <1>2, <2>4
  <2> QED
    BY <2>5 DEF P
<1>5. \A i \in 0 .. n : scan[i] = step(scan, i)
  <2>1. defines(scan, n)
    BY <1>4
  <2> QED
    BY <2>1
<1> HIDE DEF scan
<1>6. scan[0] = [retained |-> {}, inactive_count |-> 0]
  <2>1. step(scan, 0) = [retained |-> {}, inactive_count |-> 0]
    OBVIOUS
  <2>2. 0 \in 0 .. n
    BY <1>2
  <2> HIDE DEF step
  <2> QED
    BY <1>5, <2>1, <2>2
<1> DEFINE fits(i) == scan[i - 1].inactive_count + Cardinality(order[i]) <= MAX_INACTIVE_TASKS
           first(i) == {order[j] : j \in {k \in 1 .. i : fits(k)}}
           Good(i) == /\ scan[i].retained = first(i)
                      /\ IsFiniteSet(UNION first(i))
                      /\ scan[i].inactive_count = Cardinality(UNION first(i))
                      /\ scan[i].inactive_count \in Nat
<1>7. \A i \in 0 .. n : Good(i)
  <2> DEFINE P == {i \in Nat : i <= n => Good(i)}
  <2>1. 0 \in P
    <3>1. first(0) = {}
      OBVIOUS
    <3>2. UNION first(0) = {}
      BY <3>1
    <3> HIDE DEF first
    <3>3. scan[0].retained = {} /\ scan[0].inactive_count = 0
      BY <1>6
    <3>4. Good(0)
      BY <3>1, <3>2, <3>3, FS_EmptySet
    <3> QED
      BY <3>4
  <2>2. ASSUME NEW i \in P, i < n PROVE i + 1 \in P
    <3>1. i \in Nat /\ Good(i) /\ i + 1 \in 1 .. n /\ i + 1 \in 0 .. n
      <4> HIDE DEF Good
      <4> QED
        BY <1>2, <2>2
    <3>2. order[i + 1] \in C /\ Cardinality(order[i + 1]) \in Nat /\ IsFiniteSet(order[i + 1])
      BY <1>2, <1>3, <3>1
    <3>3. /\ scan[i + 1] = step(scan, i + 1)
          /\ i + 1 # 0 /\ (i + 1) - 1 = i
      BY <1>5, <3>1
    <3>4. 1 .. i + 1 = (1 .. i) \cup {i + 1}
      BY <3>1
    <3>5. CASE fits(i + 1)
      <4>1. first(i + 1) = first(i) \cup {order[i + 1]}
        BY <3>4, <3>5
      <4>2. /\ scan[i + 1].retained = scan[i].retained \cup {order[i + 1]}
            /\ scan[i + 1].inactive_count = scan[i].inactive_count + Cardinality(order[i + 1])
        BY <3>1, <3>2, <3>3, <3>5, RetentionAssumption
      <4>3. (UNION first(i)) \cap order[i + 1] = {}
        <5> SUFFICES ASSUME NEW j \in 1 .. i, order[j] \cap order[i + 1] # {}
                     PROVE  FALSE
          OBVIOUS
        <5>1. j \in 1 .. n /\ j # i + 1
          BY <1>2, <3>1
        <5>2. order[j] \in C
          BY <1>2, <5>1
        <5> QED
          BY <1>2, <1>3, <3>1, <3>2, <5>1, <5>2
      <4>4. UNION first(i + 1) = (UNION first(i)) \cup order[i + 1]
        BY <4>1
      <4> HIDE DEF first
      <4>5. /\ IsFiniteSet(UNION first(i + 1))
            /\ Cardinality(UNION first(i + 1))
                 = Cardinality(UNION first(i)) + Cardinality(order[i + 1])
        <5>1. Cardinality({}) = 0
          BY FS_EmptySet
        <5>2. /\ IsFiniteSet(UNION first(i + 1))
              /\ Cardinality(UNION first(i + 1))
                   = Cardinality(UNION first(i)) + Cardinality(order[i + 1])
                       - Cardinality({})
          BY <3>1, <3>2, <4>3, <4>4, FS_Union
        <5> QED
          BY <3>1, <3>2, <5>1, <5>2
      <4>6. Good(i + 1)
        BY <3>1, <3>2, <4>1, <4>2, <4>5
      <4> QED
        BY <3>1, <4>6
    <3>6. CASE ~ fits(i + 1)
      <4>1. first(i + 1) = first(i)
        BY <3>4, <3>6
      <4>2. scan[i + 1] = scan[i]
        BY <3>1, <3>2, <3>3, <3>6, RetentionAssumption
      <4> HIDE DEF first
      <4>3. Good(i + 1)
        BY <3>1, <4>1, <4>2
      <4> QED
        BY <3>1, <4>3
    <3> QED
      BY <3>5, <3>6
  <2>3. P \in SUBSET Nat
    OBVIOUS
  <2> HIDE DEF P
  <2>4. 0 .. n \subseteq P
    BY <1>2, <2>1, <2>2, <2>3, Upto
  <2>5. \A i \in 0 .. n : i \in P /\ i <= n
    BY <1>2, <2>4
  <2> HIDE DEF Good
  <2> QED
    BY <2>5 DEF P
<1> DEFINE kept == scan[n].retained
<1>8. kept = first(n)
  <2>1. n \in 0 .. n
    BY <1>2
  <2>2. Good(n)
    <3> HIDE DEF Good
    <3> QED
      BY <1>7, <2>1
  <2> HIDE DEF first
  <2> QED
    BY <2>2
<1> HIDE DEF kept
<1>9. kept \subseteq C
  BY <1>2, <1>8
<1>10. ASSUME NEW i \in 1 .. n
       PROVE  order[i] \in kept <=>
                Cardinality(UNION {c \in kept : newer(d, c, order[i])})
                  + Cardinality(order[i]) <= MAX_INACTIVE_TASKS
  <2>1. order[i] \in kept <=> fits(i)
    BY <1>2, <1>8
  <2>2. {c \in kept : newer(d, c, order[i])} = first(i - 1)
    <3>1. ASSUME NEW c \in kept, newer(d, c, order[i]) PROVE c \in first(i - 1)
      <4>1. PICK j \in 1 .. n : fits(j) /\ c = order[j]
        BY <1>8
      <4>2. j < i
        BY <1>2, <3>1, <4>1
      <4>3. j \in 1 .. i - 1
        BY <1>2, <4>2
      <4> QED
        BY <4>1, <4>3
    <3>2. ASSUME NEW j \in 1 .. i - 1, fits(j)
          PROVE  order[j] \in kept /\ newer(d, order[j], order[i])
      <4>1. j \in 1 .. n /\ j < i
        BY <1>2, <3>2
      <4> QED
        BY <1>2, <1>8, <3>2, <4>1
    <3> QED
      BY <3>1, <3>2
  <2>3. Good(i - 1)
    <3>1. i - 1 \in 0 .. n
      BY <1>2
    <3> HIDE DEF Good
    <3> QED
      BY <1>7, <3>1
  <2> HIDE DEF first
  <2> QED
    BY <2>1, <2>2, <2>3
<1> QED
  BY <1>1, <1>9, <1>10 DEF kept, C, n, order

\* Retention keeps exactly what the scan keeps: the condition that defines it
\* has this one solution.
LEMMA OneRetention ==
  ASSUME NEW d, LinkedDocument(d), NEW now
  PROVE  kept_inactive(d, now) = {scan_retained(d, now)}
<1> DEFINE C == recent_components(d, now)
           n == Cardinality(C)
           order == scan_order(d, now)
           scanned == scan_retained(d, now)
           fits(kept, c) == Cardinality(UNION {b \in kept : newer(d, b, c)})
                              + Cardinality(c) <= MAX_INACTIVE_TASKS
<1>1. /\ n \in Nat
      /\ order \in [1 .. n -> C]
      /\ \A i, j \in 1 .. n : newer(d, order[i], order[j]) <=> i < j
      /\ \A c \in C : \E i \in 1 .. n : order[i] = c
  BY OrderFacts
<1>2. /\ scanned \subseteq C
      /\ \A i \in 1 .. n : order[i] \in scanned <=> fits(scanned, order[i])
  BY ScanFacts
<1>3. \A kept : kept \in kept_inactive(d, now) <=>
                  /\ kept \subseteq C
                  /\ \A c \in C : c \in kept <=> fits(kept, c)
  BY DEF kept_inactive
<1> HIDE DEF C, n, order, scanned
<1>4. scanned \in kept_inactive(d, now)
  <2> HIDE DEF fits
  <2> QED
    BY <1>1, <1>2, <1>3
<1>5. ASSUME NEW kept \in kept_inactive(d, now) PROVE kept = scanned
  <2> DEFINE S == {i \in 1 .. n : ~ (order[i] \in kept <=> order[i] \in scanned)}
  <2>1. S = {}
    <3> SUFFICES ASSUME S # {} PROVE FALSE
      OBVIOUS
    <3>1. S \in SUBSET Nat
      BY <1>1
    <3> HIDE DEF S
    <3>2. PICK i \in S : \A j \in S : i <= j
      BY <3>1, Least
    <3> USE DEF S
    <3>3. \A j \in 1 .. n : j < i => (order[j] \in kept <=> order[j] \in scanned)
      BY <1>1, <3>2
    <3>4. {b \in kept : newer(d, b, order[i])} = {b \in scanned : newer(d, b, order[i])}
      <4>1. ASSUME NEW b \in C, newer(d, b, order[i])
            PROVE  b \in kept <=> b \in scanned
        <5>1. PICK j \in 1 .. n : order[j] = b
          BY <1>1
        <5>2. j < i
          BY <1>1, <4>1, <5>1, <3>2
        <5> QED
          BY <3>3, <5>1, <5>2
      <4> QED
        BY <1>2, <1>3, <4>1
    <3>5. fits(kept, order[i]) <=> fits(scanned, order[i])
      BY <3>4
    <3>6. order[i] \in C /\ i \in 1 .. n
      BY <1>1, <3>2
    <3> HIDE DEF fits
    <3> QED
      BY <1>2, <1>3, <3>2, <3>5, <3>6
  <2>2. \A i \in 1 .. n : order[i] \in kept <=> order[i] \in scanned
    BY <2>1
  <2> HIDE DEF fits, S
  <2> QED
    BY <1>1, <1>2, <1>3, <2>2
<1> QED
  BY <1>4, <1>5 DEF scanned

\* A good document is one that retention is about.
LEMMA GoodIsLinked ==
  ASSUME NEW d, GoodDocument(d)
  PROVE  LinkedDocument(d)
BY DEF GoodDocument, validate_continuation_graph, LinkedDocument

\* Every document an operation may hand to commit is a good one.
LEMMA OperationGood ==
  ASSUME IInv, NEW doc \in operation_documents
  PROVE  GoodDocument(doc) /\ DOMAIN doc \subseteq DOMAIN tasks
<1>1. CASE doc = tasks
  BY <1>1, TasksGood
<1>2. CASE doc \in updated_documents
  <2> DEFINE legal(t) == {u \in updates(tasks[t], clock) :
                           /\ valid_record(t, u)
                           /\ validate_update(tasks[t], u)
                           /\ execution_available(t, u)}
  <2>1. PICK t \in DOMAIN tasks :
          doc \in {put(tasks, t, [r EXCEPT !.revision = tasks[t].revision + 1]) :
                    r \in legal(t)}
    BY <1>2 DEF updated_documents
  <2>2. PICK r \in legal(t) :
          doc = put(tasks, t, [r EXCEPT !.revision = tasks[t].revision + 1])
    BY <2>1
  <2>3. r \in Record
    BY TasksGood, UpdatesType DEF IInv
  <2>4. DOMAIN doc \subseteq DOMAIN tasks
    BY <2>2 DEF put
  <2> QED
    BY <2>2, <2>3, <2>4, UpdatedGood
<1>3. CASE doc \in reconciled_documents
  BY <1>3, AllReconciledGood DEF reconciled_documents
<1>4. CASE doc \in forgotten_documents
  <2>1. PICK t \in DOMAIN tasks :
          /\ doc = forget_inactive_task(tasks, t, clock)
          /\ validate_continuation_graph(doc)
    BY <1>4 DEF forgotten_documents
  <2>2. DOMAIN doc \subseteq DOMAIN tasks
    BY <2>1 DEF forget_inactive_task
  <2> QED
    BY <2>1, <2>2, ForgottenGood
<1> QED
  BY <1>1, <1>2, <1>3, <1>4 DEF operation_documents

\* A settled task that nothing links to is one more record of a document.
LEMMA SettledBeside ==
  ASSUME NEW d, LinkedDocument(d), NEW t \in TaskIds, t \notin DOMAIN d, NEW r \in Record,
         r.from = None, r.to = None
  PROVE  LinkedDocument(put(d, t, r))
<1> DEFINE doc == put(d, t, r)
<1>1. /\ DOMAIN doc = DOMAIN d \cup {t}
      /\ doc[t] = r
      /\ \A u \in DOMAIN d : doc[u] = d[u]
  BY DEF put
<1>2. is_document(doc)
  BY PutType DEF LinkedDocument
<1> HIDE DEF doc
<1>3. IsFiniteSet(DOMAIN doc)
  BY <1>1, FS_AddElement DEF LinkedDocument
<1>4. links_reciprocal(doc)
  BY <1>1 DEF LinkedDocument, links_reciprocal
<1> QED
  BY <1>2, <1>3, <1>4 DEF LinkedDocument, doc

\* What retention may be given is a document that retention is about.
LEMMA OfferedLinked ==
  ASSUME IInv, NEW doc \in offered_documents
  PROVE  LinkedDocument(doc)
<1>1. CASE doc \in operation_documents
  BY <1>1, OperationGood, GoodIsLinked
<1>2. CASE doc \notin operation_documents
  <2>1. PICK d \in operation_documents :
          doc \in {put(d, t, r) : t \in TaskIds \ DOMAIN tasks, r \in settled_records}
    BY <1>2 DEF offered_documents
  <2>2. PICK t \in TaskIds \ DOMAIN tasks, r \in settled_records : doc = put(d, t, r)
    BY <2>1
  <2>3. LinkedDocument(d) /\ t \notin DOMAIN d
    BY OperationGood, GoodIsLinked
  <2>4. PICK o \in Owners, c \in Channels, e \in Triggers :
          r = [new_record(o, c, e, None, clock) EXCEPT !.state = "completed"]
    BY DEF settled_records
  <2>5. r \in Record /\ r.from = None /\ r.to = None
    BY <2>4, NewRecordFacts DEF IInv, new_record, Record, States
  <2> QED
    BY <2>2, <2>3, <2>5, SettledBeside
<1> QED
  BY <1>1, <1>2

\* Retention never blocks a commit and keeps what the sort and the loop of
\* apply_retention keep, whatever the limits and however many chains there are.
THEOREM RetentionExact == StoreSpec => []RetentionIsTheScan
<1>1. IInv => RetentionIsTheScan
  <2> SUFFICES ASSUME IInv, NEW doc \in offered_documents
               PROVE  apply_retention(doc, clock) =
                        {Restrict(doc, UNION (active_components(doc)
                                                \cup scan_retained(doc, clock)))}
    BY DEF RetentionIsTheScan
  <2>1. kept_inactive(doc, clock) = {scan_retained(doc, clock)}
    BY OfferedLinked, OneRetention
  <2> QED
    BY <2>1 DEF apply_retention
<1> QED
  BY <1>1, StoreInvariant, PTL

\* The chains without an active task that retention keeps fit under the limit
\* together: the oldest of them fitted beside all the others.
LEMMA KeptFits ==
  ASSUME NEW d, LinkedDocument(d), NEW now, NEW kept \in kept_inactive(d, now)
  PROVE  IsFiniteSet(UNION kept) /\ Cardinality(UNION kept) <= MAX_INACTIVE_TASKS
<1> DEFINE C == recent_components(d, now)
           n == Cardinality(C)
           order == scan_order(d, now)
           newerThan(c) == {b \in kept : newer(d, b, c)}
<1>1. /\ n \in Nat
      /\ order \in [1 .. n -> C]
      /\ \A i, j \in 1 .. n : newer(d, order[i], order[j]) <=> i < j
      /\ \A c \in C : \E i \in 1 .. n : order[i] = c
  BY OrderFacts
<1>2. /\ kept \subseteq C
      /\ \A c \in kept : Cardinality(UNION newerThan(c)) + Cardinality(c) <= MAX_INACTIVE_TASKS
  BY DEF kept_inactive
<1>3. \A b : b \subseteq kept => IsFiniteSet(UNION b)
  <2>1. IsFiniteSet(DOMAIN d)
    BY DEF LinkedDocument
  <2>2. ASSUME NEW b, b \subseteq kept PROVE UNION b \subseteq DOMAIN d
    BY <1>2, <2>2, ComponentsPartition DEF recent_components
  <2> QED
    BY <2>1, <2>2, FS_Subset
<1>4. \A c \in kept : IsFiniteSet(c)
  BY <1>2, ComponentsPartition DEF recent_components
<1> HIDE DEF C, n, order
<1>5. CASE kept = {}
  <2>1. UNION kept = {}
    BY <1>5
  <2>2. IsFiniteSet({}) /\ Cardinality({}) = 0
    BY FS_EmptySet
  <2>3. 0 <= MAX_INACTIVE_TASKS
    BY RetentionAssumption
  <2> QED
    BY <2>1, <2>2, <2>3, Zenon
<1>6. CASE kept # {}
  <2> DEFINE S == {i \in 1 .. n : order[i] \in kept}
             last == Max(S)
  <2>1. S \in SUBSET Nat /\ S # {} /\ IsFiniteSet(S)
    <3>1. S \subseteq 1 .. n
      OBVIOUS
    <3>2. IsFiniteSet(S)
      BY <1>1, <3>1, FS_Interval, FS_Subset
    <3> QED
      BY <1>1, <1>2, <1>6, <3>2
  <2> HIDE DEF S
  <2>2. last \in S /\ \A i \in S : last >= i
    BY <2>1, Greatest
  <2> HIDE DEF last
  <2> USE DEF S
  <2> DEFINE c == order[last]
  <2>3. c \in kept /\ last \in 1 .. n
    BY <2>2
  <2>4. kept = newerThan(c) \cup {c}
    <3>1. ASSUME NEW b \in kept, b # c PROVE newer(d, b, c)
      <4>1. PICK i \in 1 .. n : order[i] = b
        BY <1>1, <1>2
      <4>2. last >= i /\ i # last
        BY <2>2, <3>1, <4>1
      <4>3. i < last
        BY <1>1, <2>3, <4>2
      <4> QED
        BY <1>1, <2>3, <4>1, <4>3
    <3> QED
      BY <2>3, <3>1
  <2>5. UNION kept = (UNION newerThan(c)) \cup c
    BY <2>4
  <2>6. IsFiniteSet(UNION newerThan(c)) /\ IsFiniteSet(c)
    BY <1>3, <1>4, <2>3
  <2>7. Cardinality(UNION newerThan(c)) + Cardinality(c) <= MAX_INACTIVE_TASKS
    BY <1>2, <2>3
  <2> DEFINE A == UNION newerThan(c)
  <2> HIDE DEF A, c, newerThan
  <2>8. /\ Cardinality(UNION kept) = Cardinality(A) + Cardinality(c) - Cardinality(A \cap c)
        /\ IsFiniteSet(UNION kept)
    BY <2>5, <2>6, FS_Union DEF A
  <2>9. /\ Cardinality(A) \in Nat /\ Cardinality(c) \in Nat
        /\ Cardinality(A \cap c) \in Nat
    BY <2>6, FS_CardinalityType, FS_Intersection DEF A
  <2>10. Cardinality(A) + Cardinality(c) <= MAX_INACTIVE_TASKS
    BY <2>7 DEF A
  <2> QED
    BY <2>8, <2>9, <2>10, RetentionAssumption
<1> QED
  BY <1>5, <1>6

\* What apply_retention returns is within the limit, counted by the chains of
\* the document that is left.
LEMMA RetentionWithinLimit ==
  ASSUME NEW d, GoodDocument(d), NEW now, NEW doc \in apply_retention(d, now)
  PROVE  Cardinality(inactive_tasks(doc)) <= MAX_INACTIVE_TASKS
<1>1. PICK kept \in kept_inactive(d, now) :
        doc = Restrict(d, UNION (active_components(d) \cup kept))
  BY DEF apply_retention
<1>2. /\ DOMAIN doc \subseteq DOMAIN d
      /\ \A t \in DOMAIN doc : doc[t] = d[t]
  BY RetentionPart
<1>3. DOMAIN doc = UNION (active_components(d) \cup kept)
  BY <1>1 DEF Restrict
<1>4. LinkedDocument(d) /\ LinkedDocument(doc)
  BY GoodIsLinked, RetentionGood
<1>5. ASSUME NEW t \in inactive_tasks(doc) PROVE t \in UNION kept
  <2>1. t \in DOMAIN doc /\ t \in DOMAIN d
    BY <1>2 DEF inactive_tasks
  <2>2. PICK c \in active_components(d) \cup kept : t \in c
    BY <1>3, <2>1
  <2>3. ASSUME c \in active_components(d) PROVE FALSE
    <3>1. PICK s \in DOMAIN d : c = component(d, s)
      BY <2>3 DEF active_components, components
    <3>2. c = component(d, t)
      BY <1>4, <2>2, <3>1, ComponentShared
    <3> DEFINE whole == component(doc, t)
    <3>3. /\ whole \subseteq DOMAIN doc /\ t \in whole
          /\ closed_under_links(doc, whole)
      BY <1>4, <2>1, ComponentClosed
    <3> HIDE DEF whole
    <3>4. closed_under_links(d, whole)
      BY <1>2, <3>3 DEF closed_under_links, neighbours
    <3>5. c \subseteq whole
      BY <1>2, <3>2, <3>3, <3>4 DEF component
    <3>6. PICK u \in c : is_active(d[u])
      BY <2>3 DEF active_components
    <3>7. u \in whole /\ is_active(doc[u])
      BY <1>2, <3>3, <3>5, <3>6
    <3>8. whole \in active_components(doc)
      BY <2>1, <3>7 DEF active_components, components, whole
    <3> QED
      BY <3>3, <3>8 DEF inactive_tasks
  <2> QED
    BY <2>2, <2>3
<1>6. IsFiniteSet(UNION kept) /\ Cardinality(UNION kept) <= MAX_INACTIVE_TASKS
  BY <1>4, KeptFits
<1>7. /\ IsFiniteSet(inactive_tasks(doc))
      /\ Cardinality(inactive_tasks(doc)) <= Cardinality(UNION kept)
  <2>1. inactive_tasks(doc) \in SUBSET (UNION kept)
    BY <1>5
  <2> QED
    BY <1>6, <2>1, FS_Subset
<1>8. Cardinality(inactive_tasks(doc)) \in Nat /\ Cardinality(UNION kept) \in Nat
  BY <1>6, <1>7, FS_CardinalityType
<1> QED
  BY <1>6, <1>7, <1>8, RetentionAssumption

\* Every step commits a good document or adds none to those there are.
LEMMA StepCommits ==
  ASSUME IInv, [StoreNext]_storeVars
  PROVE  Committed \/ Documents' \subseteq Documents
<1>1. CASE \E t \in TaskIds : Create(t)
  BY <1>1, CreateGood DEF Create
<1>2. CASE \E t \in DOMAIN tasks : CompareAndSet(t)
  <2>1. PICK t \in DOMAIN tasks : CompareAndSet(t)
    BY <1>2
  <2>2. PICK candidate \in updates(tasks[t], clock) :
          compare_and_set(t, tasks[t].revision, candidate)
    BY <2>1 DEF CompareAndSet
  <2>3. candidate \in Record
    BY TasksGood, UpdatesType DEF IInv
  <2> QED
    BY <2>2, <2>3, CompareAndSetGood
<1>3. CASE \E p \in DOMAIN tasks, c \in TaskIds : LinkChild(p, c)
  BY <1>3, LinkChildGood DEF LinkChild
<1>4. CASE ReconcileStartup
  BY <1>4, ReconcileStartupGood DEF ReconcileStartup, Documents
<1>5. CASE \E t \in DOMAIN tasks : Forget(t)
  BY <1>5, ForgetGood DEF Forget
<1>6. CASE restart
  BY <1>6 DEF restart, load, Documents
<1>7. CASE power_loss
  BY <1>7 DEF power_loss, load, Documents
<1>8. CASE tick
  BY <1>8 DEF tick, Documents
<1>9. CASE UNCHANGED storeVars
  BY <1>9 DEF storeVars, Documents
<1> QED
  BY <1>1, <1>2, <1>3, <1>4, <1>5, <1>6, <1>7, <1>8, <1>9 DEF StoreNext

\* No document the store holds, wrote, or may find after a power loss has more
\* than MAX_INACTIVE_TASKS tasks in chains without an active one.
THEOREM RetentionBounds == StoreSpec => []InactiveWithinLimit
<1>1. StoreInit => InactiveWithinLimit
  <2> SUFFICES ASSUME StoreInit, NEW doc \in Documents
               PROVE  Cardinality(inactive_tasks(doc)) <= MAX_INACTIVE_TASKS
    BY DEF InactiveWithinLimit
  <2>1. inactive_tasks(doc) = {}
    BY DEF StoreInit, Documents, EmptyDocument, inactive_tasks
  <2> QED
    BY <2>1, FS_EmptySet, RetentionAssumption
<1>2. IInv /\ InactiveWithinLimit /\ [StoreNext]_storeVars => InactiveWithinLimit'
  <2> SUFFICES ASSUME IInv, InactiveWithinLimit, [StoreNext]_storeVars
               PROVE  InactiveWithinLimit'
    OBVIOUS
  <2>1. CASE Documents' \subseteq Documents
    BY <2>1 DEF InactiveWithinLimit
  <2>2. CASE Committed
    <3>1. PICK candidate : GoodDocument(candidate) /\ commit(candidate)
      BY <2>2 DEF Committed
    <3>2. PICK doc \in apply_retention(candidate, clock) : Documents' \subseteq Documents \cup {doc}
      BY <3>1 DEF commit, Documents
    <3>3. Cardinality(inactive_tasks(doc)) <= MAX_INACTIVE_TASKS
      BY <3>1, RetentionWithinLimit
    <3> QED
      BY <3>2, <3>3 DEF InactiveWithinLimit
  <2> QED
    BY <2>1, <2>2, StepCommits
<1> QED
  BY <1>1, <1>2, StoreInvariant, PTL DEF StoreSpec

----------------------------------------------------------------------------
(* Action properties.                                                      *)

\* How one step may change a record that stays in the store.
RecordStep(old, new) ==
  /\ new # old => new.revision = old.revision + 1
  /\ new.cause # old.cause =>
       old.cause = None /\ old.state \notin {"delivering", "completed"}

\* Within a process every operation changes a record only by a record step.
LEMMA RecordSteps ==
  ASSUME IInv, StoreNext, outcome' # "loaded",
         NEW t \in DOMAIN tasks \cap DOMAIN tasks'
  PROVE  RecordStep(tasks[t], tasks'[t])
<1>1. tasks[t] \in Record /\ clock \in Nat
  BY TasksGood DEF IInv
<1>2. RecordStep(tasks[t], tasks[t])
  BY DEF RecordStep
<1>3. ASSUME NEW candidate, commit(candidate),
             t \in DOMAIN candidate => RecordStep(tasks[t], candidate[t])
      PROVE  RecordStep(tasks[t], tasks'[t])
  BY <1>2, <1>3, CommitRecords
<1>4. CASE \E u \in TaskIds : Create(u)
  <2>1. PICK u \in TaskIds : \E r : u \notin DOMAIN tasks /\ commit(put(tasks, u, r))
    BY <1>4 DEF Create, create
  <2>r. PICK r : u \notin DOMAIN tasks /\ commit(put(tasks, u, r))
    BY <2>1
  <2>2. put(tasks, u, r)[t] = tasks[t]
    BY <2>r DEF put
  <2> QED
    BY <1>2, <1>3, <2>r, <2>2
<1>5. CASE \E u \in DOMAIN tasks : CompareAndSet(u)
  <2>1. PICK u \in DOMAIN tasks :
          \E candidate \in updates(tasks[u], clock) :
             compare_and_set(u, tasks[u].revision, candidate)
    BY <1>5 DEF CompareAndSet
  <2>2. PICK candidate \in updates(tasks[u], clock) :
          compare_and_set(u, tasks[u].revision, candidate)
    BY <2>1
  <2> DEFINE r == [candidate EXCEPT !.revision = tasks[u].revision + 1]
  <2>3. validate_update(tasks[u], candidate) /\ commit(put(tasks, u, r))
    BY <2>2 DEF compare_and_set
  <2>4. candidate \in Record /\ tasks[u] \in Record
    BY <1>1, <2>2, UpdatesType, TasksGood
  <2>5. r.revision = tasks[u].revision + 1 /\ r.cause = candidate.cause
    BY <2>4 DEF Record
  <2>6. candidate.cause # tasks[u].cause =>
          tasks[u].cause = None /\ tasks[u].state \notin {"delivering", "completed"}
    BY <2>3 DEF validate_update
  <2>7. RecordStep(tasks[u], r)
    BY <2>5, <2>6 DEF RecordStep
  <2> HIDE DEF r
  <2>8. put(tasks, u, r)[t] = IF t = u THEN r ELSE tasks[t]
    BY DEF put
  <2>9. RecordStep(tasks[t], put(tasks, u, r)[t])
    BY <1>2, <2>7, <2>8
  <2> QED
    BY <1>3, <2>3, <2>9
<1>6. CASE \E p \in DOMAIN tasks, c \in TaskIds : LinkChild(p, c)
  <2>1. PICK p \in DOMAIN tasks, c \in TaskIds : LinkChild(p, c)
    BY <1>6
  <2>2. PICK o \in Owners, ch \in Channels, e \in Triggers :
          link_child(p, tasks[p].revision, c, new_record(o, ch, e, p, clock))
    BY <2>1 DEF LinkChild
  <2> DEFINE child == new_record(o, ch, e, p, clock)
             parent == [tasks[p] EXCEPT !.to = c, !.revision = @ + 1, !.updated = clock]
  <2>3. c \notin DOMAIN tasks /\ commit(put(put(tasks, p, parent), c, child))
    BY <2>2 DEF link_child
  <2> HIDE DEF child
  <2>4. RecordStep(tasks[p], parent)
    <3>1. tasks[p] \in Record
      BY TasksGood
    <3> QED
      BY <3>1 DEF RecordStep, Record
  <2> HIDE DEF parent
  <2>5. put(put(tasks, p, parent), c, child)[t] = IF t = p THEN parent ELSE tasks[t]
    BY <2>3 DEF put
  <2>6. RecordStep(tasks[t], put(put(tasks, p, parent), c, child)[t])
    BY <1>2, <2>4, <2>5
  <2> QED
    BY <1>3, <2>3, <2>6
<1>7. CASE ReconcileStartup
  <2> DEFINE new == [u \in DOMAIN tasks |-> reconciled(u)]
  <2>1. tasks' = tasks \/ commit(new)
    BY <1>7 DEF ReconcileStartup, reconcile_startup
  <2>2. RecordStep(tasks[t], new[t])
    BY ReconciledFacts DEF RecordStep
  <2> QED
    BY <1>2, <1>3, <2>1, <2>2
<1>8. CASE \E u \in DOMAIN tasks : Forget(u)
  <2>1. PICK u \in DOMAIN tasks : commit(forget_inactive_task(tasks, u, clock))
    BY <1>8 DEF Forget, forget
  <2>2. u \in TaskIds
    BY TasksGood
  <2>3. RecordStep(tasks[t], unlink(tasks[t], u, clock))
    BY <1>1, <2>2, UnlinkFacts DEF RecordStep
  <2>4. t \in DOMAIN forget_inactive_task(tasks, u, clock) =>
          forget_inactive_task(tasks, u, clock)[t] = unlink(tasks[t], u, clock)
    BY DEF forget_inactive_task
  <2> QED
    BY <1>3, <2>1, <2>3, <2>4
<1>9. CASE restart \/ power_loss
  BY <1>9 DEF restart, power_loss, load
<1>10. CASE tick
  BY <1>2, <1>10 DEF tick
<1> QED
  BY <1>4, <1>5, <1>6, <1>7, <1>8, <1>9, <1>10 DEF StoreNext

\* A stored record never changes without its revision going up by one, so that
\* compare_and_set refuses every caller whose copy is stale.
THEOREM RevisionsAlwaysAdvance == StoreSpec => RevisionsAdvance
<1>1. ASSUME IInv, [StoreNext]_storeVars
      PROVE  [outcome' # "loaded" =>
                \A t \in DOMAIN tasks \cap DOMAIN tasks' :
                   tasks'[t] # tasks[t] =>
                     tasks'[t].revision = tasks[t].revision + 1]_storeVars
  BY <1>1, RecordSteps DEF RecordStep
<1> QED
  BY <1>1, StoreInvariant, PTL DEF StoreSpec, RevisionsAdvance

\* No operation rewrites a recorded interruption cause, or attaches one to a
\* task that is delivering or completed.
THEOREM FirstCauseAlwaysWins == StoreSpec => FirstCauseWins
<1>1. ASSUME IInv, [StoreNext]_storeVars
      PROVE  [outcome' # "loaded" =>
                \A t \in DOMAIN tasks \cap DOMAIN tasks' :
                   tasks'[t].cause # tasks[t].cause =>
                     /\ tasks[t].cause = None
                     /\ tasks[t].state \notin {"delivering", "completed"}]_storeVars
  BY <1>1, RecordSteps DEF RecordStep
<1> QED
  BY <1>1, StoreInvariant, PTL DEF StoreSpec, FirstCauseWins
----------------------------------------------------------------------------
(* The store implements the documented life cycle.                         *)

\* A record that has its result message is completed: complete() sets both, a
\* completed task never moves again, and without this startup reconciliation
\* would complete a delivery, which the documented life cycle does not do.
results_complete(doc) == \A t \in DOMAIN doc : doc[t].result => doc[t].state = "completed"

ResultsComplete == \A doc \in Documents : results_complete(doc)

\* Every caller's update keeps a record with a result message completed.
LEMMA UpdateResult ==
  ASSUME NEW r \in Record, r.result => r.state = "completed",
         NEW now \in Nat, NEW candidate \in updates(r, now)
  PROVE  candidate.result => candidate.state = "completed"
<1>1. ASSUME NEW k \in Record, NEW target, NEW failure
      PROVE  /\ transition(k, target, failure, now).result = k.result
             /\ transition(k, target, failure, now).state = target
  BY <1>1 DEF transition, Record
<1>2. ASSUME NEW cause
      PROVE  claim_interruption(r, cause).result = r.result
  BY DEF claim_interruption, Record
<1>3. ASSUME NEW failure
      PROVE  with_failure(r, failure, now).result = r.result
             /\ with_failure(r, failure, now).state = r.state
  BY DEF with_failure, Record
<1>4. CASE r.result
  <2>1. r.state = "completed"
    BY <1>4
  <2>2. PICK failure : candidate = with_failure(r, failure, now)
    BY <2>1 DEF updates, runner_updates, action_updates, later_failures, moves, ACTIVE_STATES
  <2> QED
    BY <1>3, <2>1, <2>2
<1>5. CASE ~r.result
  <2>1. \A target : advance(r, target, now).result = FALSE
    BY <1>1, <1>5 DEF advance, Record
  <2>2. attach_card(r, now).result = FALSE
    BY <1>5 DEF attach_card, Record
  <2>3. claim_stop(r, now).result = FALSE
    BY <1>1, <1>2, <1>5, ClaimType DEF claim_stop, Causes, Record
  <2>4. complete(r, now).state = "completed"
    <3>1. [r EXCEPT !.result = TRUE] \in Record
      BY DEF Record
    <3> QED
      BY <1>1, <3>1 DEF complete
  <2>5. \A b \in BOOLEAN : delivery_failed(r, b, now).result = FALSE
    BY <1>1, <1>5 DEF delivery_failed, Record
  <2>6. \A failure : with_failure(r, failure, now).result = FALSE
    BY <1>3, <1>5 DEF Record
  <2>7. \A error \in Errors : fail(r, error, now).result = FALSE
    <3> SUFFICES ASSUME NEW error \in Errors PROVE fail(r, error, now).result = FALSE
      OBVIOUS
    <3>1. failure_cause(r, error) \in Causes \cup {None}
      BY DEF failure_cause, Causes
    <3> DEFINE k == IF failure_cause(r, error) = None
                      THEN r ELSE claim_interruption(r, failure_cause(r, error))
    <3>2. k \in Record /\ k.result = FALSE
      BY <1>2, <1>5, <3>1, ClaimType DEF Record
    <3>3. fail(r, error, now) = transition(k, failure_target(r, error),
                                           classify_agent_failure(error, FALSE), now)
      BY DEF fail
    <3> HIDE DEF k
    <3>4. transition(k, failure_target(r, error),
                     classify_agent_failure(error, FALSE), now).result = k.result
      BY <3>2 DEF transition, Record
    <3> QED
      BY <3>2, <3>3, <3>4
  <2>8. \A u \in runner_updates(r, now) : u.result => u.state = "completed"
    BY <2>1, <2>2, <2>4, <2>5, <2>7 DEF runner_updates, moves
  <2>9. \A u \in later_failures(r, now) : u.result => u.state = "completed"
    BY <2>6 DEF later_failures, moves
  <2>10. \A u \in action_updates(r, now) : u.result => u.state = "completed"
    BY <2>1, <2>3 DEF action_updates, moves
  <2> QED
    BY <2>8, <2>9, <2>10 DEF updates
<1> QED
  BY <1>4, <1>5 DEF Record

\* Retention never drops an active record.
LEMMA RetentionKeepsActive ==
  ASSUME NEW d, NEW now, NEW doc \in apply_retention(d, now),
         NEW t \in DOMAIN d, is_active(d[t])
  PROVE  t \in DOMAIN doc
<1>1. PICK kept \in kept_inactive(d, now) :
        doc = Restrict(d, UNION (active_components(d) \cup kept))
  BY DEF apply_retention
<1>2. t \in component(d, t)
  BY DEF component
<1>3. component(d, t) \in active_components(d)
  BY <1>2 DEF active_components, components
<1> QED
  BY <1>1, <1>2, <1>3 DEF Restrict

\* A commit publishes the board of its candidate, less some inactive tasks, or
\* changes nothing.
LEMMA CommitPublishes ==
  ASSUME NEW candidate, commit(candidate)
  PROVE  Lifecycle!Publish(board_of(candidate)) \/ UNCHANGED <<tasks, disk, durable>>
<1>1. PICK doc \in apply_retention(candidate, clock), o \in WriteOutcomes :
        IF o = "failed" THEN UNCHANGED <<tasks, disk, durable>>
        ELSE /\ tasks' = doc
             /\ disk' = doc
             /\ durable' = IF o = "ok" THEN {doc} ELSE durable \cup {doc}
  BY DEF commit
<1>2. CASE o # "failed"
  <2>1. /\ DOMAIN doc \subseteq DOMAIN candidate
        /\ \A t \in DOMAIN doc : doc[t] = candidate[t]
    BY RetentionPart
  <2>2. /\ board_of(tasks)' = board_of(doc)
        /\ {board_of(d) : d \in durable}' = {board_of(d) : d \in durable'}
    BY <1>1, <1>2 DEF board_of
  <2>3. /\ DOMAIN board_of(doc) = DOMAIN doc
        /\ DOMAIN board_of(candidate) = DOMAIN candidate
        /\ \A t \in DOMAIN candidate : board_of(candidate)[t].phase = candidate[t].state
    BY DEF board_of
  <2>4. board_of(doc) = [t \in DOMAIN doc |-> board_of(candidate)[t]]
    BY <2>1 DEF board_of
  <2>5. ASSUME NEW t \in DOMAIN candidate \ DOMAIN doc
        PROVE  board_of(candidate)[t].phase \notin Lifecycle!Busy
    <3>1. ~is_active(candidate[t])
      BY RetentionKeepsActive
    <3> QED
      BY <2>3, <3>1 DEF Lifecycle!Busy, is_active, ACTIVE_STATES
  <2>6. \/ {board_of(d) : d \in durable'} = {board_of(doc)}
        \/ {board_of(d) : d \in durable'} = {board_of(d) : d \in durable} \cup {board_of(doc)}
    <3> HIDE DEF board_of
    <3> QED
      BY <1>1, <1>2
  <2> QED
    BY <2>1, <2>2, <2>3, <2>4, <2>5, <2>6 DEF Lifecycle!Publish
<1> QED
  BY <1>1, <1>2

\* What the abstract specification sees of a document.
LEMMA BoardOf ==
  ASSUME NEW doc
  PROVE  /\ DOMAIN board_of(doc) = DOMAIN doc
         /\ \A t \in DOMAIN doc :
              board_of(doc)[t] = [phase |-> doc[t].state, channel |-> doc[t].channel]
BY DEF board_of

\* Two documents whose tasks have the same states and channels look alike.
LEMMA SameBoard ==
  ASSUME NEW doc, NEW other, DOMAIN doc = DOMAIN other,
         \A t \in DOMAIN doc : doc[t].state = other[t].state /\ doc[t].channel = other[t].channel
  PROVE  board_of(doc) = board_of(other)
BY DEF board_of

lifecycleVars == <<board_of(tasks), {board_of(doc) : doc \in durable}>>

\* A step of the life cycle that leaves result messages on completed tasks only.
LifecycleStep == ResultsComplete' /\ (Lifecycle!Next \/ UNCHANGED lifecycleVars)

\* A step that changes no document is none of the life cycle.
LEMMA NoLifecycleStep ==
  ASSUME ResultsComplete, UNCHANGED <<tasks, disk, durable>>
  PROVE  LifecycleStep
<1>1. ResultsComplete'
  BY DEF ResultsComplete, Documents
<1>2. board_of(tasks)' = board_of(tasks)
  BY DEF board_of
<1>3. {board_of(doc) : doc \in durable}' = {board_of(doc) : doc \in durable}
  BY DEF board_of
<1> QED
  BY <1>1, <1>2, <1>3 DEF LifecycleStep, lifecycleVars

\* A commit takes a step of the life cycle if publishing its candidate is one.
LEMMA CommitStep ==
  ASSUME ResultsComplete, NEW candidate, commit(candidate), results_complete(candidate),
         Lifecycle!Publish(board_of(candidate)) => Lifecycle!Next
  PROVE  LifecycleStep
<1>1. CASE UNCHANGED <<tasks, disk, durable>>
  BY <1>1, NoLifecycleStep
<1>2. CASE ~UNCHANGED <<tasks, disk, durable>>
  <2>1. Lifecycle!Next
    BY <1>2, CommitPublishes
  <2>2. PICK doc \in apply_retention(candidate, clock) :
          tasks' = doc /\ disk' = doc /\ durable' \in {{doc}, durable \cup {doc}}
    BY <1>2 DEF commit
  <2>3. results_complete(doc)
    BY RetentionPart DEF results_complete
  <2>4. ResultsComplete'
    BY <2>2, <2>3 DEF ResultsComplete, Documents
  <2> QED
    BY <2>1, <2>4 DEF LifecycleStep
<1> QED
  BY <1>1, <1>2

\* The channel check of the store is the abstract one.
LEMMA FreeChannel ==
  ASSUME NEW t, NEW r, is_active(r), execution_available(t, r)
  PROVE  Lifecycle!Free(board_of(tasks), t, r.channel)
<1>1. ASSUME NEW u \in DOMAIN tasks \ {t},
             board_of(tasks)[u].channel = r.channel, board_of(tasks)[u].phase \in Lifecycle!Busy
      PROVE  FALSE
  <2>0. board_of(tasks)[u] = [phase |-> tasks[u].state, channel |-> tasks[u].channel]
    BY BoardOf
  <2>1. tasks[u].channel = r.channel /\ tasks[u].state \in Lifecycle!Busy
    BY <1>1, <2>0
  <2>2. is_active(tasks[u])
    BY <2>1 DEF is_active, ACTIVE_STATES, Lifecycle!Busy
  <2> QED
    BY <2>1, <2>2 DEF execution_available
<1>2. DOMAIN board_of(tasks) = DOMAIN tasks
  BY BoardOf
<1> QED
  BY <1>1, <1>2 DEF Lifecycle!Free

\* create opens a task.
LEMMA CreateOpens ==
  ASSUME IInv, ResultsComplete, NEW t \in TaskIds, Create(t)
  PROVE  LifecycleStep
<1>1. PICK o \in Owners, c \in Channels, e \in Triggers :
        create(t, new_record(o, c, e, None, clock))
  BY DEF Create
<1> DEFINE r == new_record(o, c, e, None, clock)
           doc == put(tasks, t, r)
<1>2. r.state = "starting" /\ r.channel = c /\ r.result = FALSE /\ is_active(r)
  BY DEF new_record, is_active, ACTIVE_STATES
<1>3. t \notin DOMAIN tasks /\ execution_available(t, r) /\ commit(doc)
  BY <1>1 DEF create
<1> HIDE DEF r
<1>4. /\ DOMAIN doc = DOMAIN tasks \cup {t}
      /\ doc[t] = r
      /\ \A u \in DOMAIN tasks : doc[u] = tasks[u]
  BY <1>3 DEF put
<1> HIDE DEF doc
<1>5. results_complete(doc)
  BY <1>2, <1>4 DEF ResultsComplete, results_complete, Documents
<1>6. board_of(doc) = [u \in DOMAIN board_of(tasks) \cup {t} |->
                         IF u = t THEN [phase |-> "starting", channel |-> c]
                                  ELSE board_of(tasks)[u]]
  BY <1>2, <1>3, <1>4 DEF board_of
<1>7. Lifecycle!Free(board_of(tasks), t, c)
  BY <1>2, <1>3, FreeChannel
<1>8. ASSUME Lifecycle!Publish(board_of(doc))
      PROVE  Lifecycle!Next
  <2>1. t \notin DOMAIN board_of(tasks)
    BY <1>3, BoardOf
  <2>2. Lifecycle!Open(t, c)
    BY <1>6, <1>7, <1>8, <2>1 DEF Lifecycle!Open
  <2> QED
    BY <2>2 DEF Lifecycle!Next
<1> QED
  BY <1>3, <1>5, <1>8, CommitStep

\* The legal transitions are the documented ones.
LEMMA TransitionAllowed ==
  ASSUME NEW s \in States, NEW target, can_transition(s, target)
  PROVE  <<s, target>> \in Lifecycle!Allowed
BY DEF can_transition, TRANSITIONS, States, Lifecycle!Allowed

\* compare_and_set moves one task, or touches its record.
LEMMA CompareAndSetMoves ==
  ASSUME IInv, ResultsComplete, NEW t \in DOMAIN tasks, CompareAndSet(t)
  PROVE  LifecycleStep
<1>1. PICK candidate \in updates(tasks[t], clock) :
        compare_and_set(t, tasks[t].revision, candidate)
  BY DEF CompareAndSet
<1> DEFINE r == [candidate EXCEPT !.revision = tasks[t].revision + 1]
           doc == put(tasks, t, r)
<1>2. tasks[t] \in Record /\ clock \in Nat /\ (tasks[t].result => tasks[t].state = "completed")
  BY TasksGood DEF IInv, ResultsComplete, results_complete, Documents
<1>3. candidate \in Record
  BY <1>2, UpdatesType
<1>4. /\ validate_update(tasks[t], candidate)
      /\ execution_available(t, candidate)
      /\ commit(doc)
  BY <1>1 DEF compare_and_set
<1>5. /\ r.state = candidate.state /\ r.channel = tasks[t].channel
      /\ r.result = candidate.result
      /\ candidate.channel = tasks[t].channel
  BY <1>2, <1>3, <1>4, UpdateKeepsLinks DEF Record
<1>6. candidate.result => candidate.state = "completed"
  BY <1>2, UpdateResult
<1> HIDE DEF r
<1>7. /\ DOMAIN doc = DOMAIN tasks
      /\ doc[t] = r
      /\ \A u \in DOMAIN tasks \ {t} : doc[u] = tasks[u]
  BY DEF put
<1> HIDE DEF doc
<1>8. results_complete(doc)
  BY <1>5, <1>6, <1>7 DEF ResultsComplete, results_complete, Documents
<1>9. ASSUME Lifecycle!Publish(board_of(doc))
      PROVE  Lifecycle!Next
  <2>1. CASE candidate.state = tasks[t].state
    <3>1. board_of(doc) = board_of(tasks)
      BY <1>5, <1>7, <2>1, SameBoard
    <3> QED
      BY <1>9, <3>1 DEF Lifecycle!Next, Lifecycle!Touch
  <2>2. CASE candidate.state # tasks[t].state
    <3> DEFINE b == board_of(tasks)
               phase == candidate.state
    <3>1. b[t] = [phase |-> tasks[t].state, channel |-> tasks[t].channel] /\ DOMAIN b = DOMAIN tasks
      BY BoardOf
    <3>2. <<b[t].phase, phase>> \in Lifecycle!Allowed
      BY <1>2, <1>4, <2>2, <3>1, TransitionAllowed DEF validate_update, Record
    <3>3. phase \in {pair[2] : pair \in Lifecycle!Allowed}
      BY <3>2
    <3>4. phase \in Lifecycle!Busy => Lifecycle!Free(b, t, b[t].channel)
      BY <1>4, <1>5, <3>1, FreeChannel DEF is_active, ACTIVE_STATES, Lifecycle!Busy
    <3>5. board_of(doc) = [b EXCEPT ![t].phase = phase]
      BY <1>5, <1>7 DEF board_of
    <3>6. Lifecycle!Move(t, phase)
      BY <1>9, <3>2, <3>4, <3>5 DEF Lifecycle!Move
    <3> QED
      BY <3>1, <3>3, <3>6 DEF Lifecycle!Next
  <2> QED
    BY <2>1, <2>2
<1> QED
  BY <1>4, <1>8, <1>9, CommitStep

\* link_child opens the continuation; its parent stays where it is.
LEMMA LinkChildOpens ==
  ASSUME IInv, ResultsComplete, NEW p \in DOMAIN tasks, NEW c \in TaskIds, LinkChild(p, c)
  PROVE  LifecycleStep
<1>1. PICK o \in Owners, ch \in Channels, e \in Triggers :
        link_child(p, tasks[p].revision, c, new_record(o, ch, e, p, clock))
  BY DEF LinkChild
<1> DEFINE child == new_record(o, ch, e, p, clock)
           parent == [tasks[p] EXCEPT !.to = c, !.revision = @ + 1, !.updated = clock]
           doc == put(put(tasks, p, parent), c, child)
<1>2. c \notin DOMAIN tasks /\ execution_available(c, child) /\ commit(doc)
  BY <1>1 DEF link_child
<1>3. /\ child.state = "starting" /\ child.channel = ch /\ child.result = FALSE
      /\ is_active(child)
  BY DEF new_record, is_active, ACTIVE_STATES
<1>4. /\ parent.state = tasks[p].state /\ parent.channel = tasks[p].channel
      /\ parent.result = tasks[p].result
  BY TasksGood DEF Record
<1> HIDE DEF child, parent
<1>5. /\ DOMAIN doc = DOMAIN tasks \cup {c}
      /\ doc[c] = child
      /\ \A u \in DOMAIN tasks : doc[u] = IF u = p THEN parent ELSE tasks[u]
  BY <1>2 DEF put
<1> HIDE DEF doc
<1>6. results_complete(doc)
  BY <1>3, <1>4, <1>5 DEF ResultsComplete, results_complete, Documents
<1>7. board_of(doc) = [u \in DOMAIN board_of(tasks) \cup {c} |->
                         IF u = c THEN [phase |-> "starting", channel |-> ch]
                                  ELSE board_of(tasks)[u]]
  BY <1>2, <1>3, <1>4, <1>5 DEF board_of
<1>8. Lifecycle!Free(board_of(tasks), c, ch)
  BY <1>2, <1>3, FreeChannel
<1>9. ASSUME Lifecycle!Publish(board_of(doc))
      PROVE  Lifecycle!Next
  <2>1. c \notin DOMAIN board_of(tasks)
    BY <1>2, BoardOf
  <2>2. Lifecycle!Open(c, ch)
    BY <1>7, <1>8, <1>9, <2>1 DEF Lifecycle!Open
  <2> QED
    BY <2>2 DEF Lifecycle!Next
<1> QED
  BY <1>2, <1>6, <1>9, CommitStep

\* reconcile_startup moves every task to the state the design gives it after a
\* restart; that a delivery has no result message yet is what makes this so.
LEMMA ReconcileStartupReconciles ==
  ASSUME IInv, ResultsComplete, ReconcileStartup
  PROVE  LifecycleStep
<1> DEFINE new == [t \in DOMAIN tasks |-> reconciled(t)]
<1>1. CASE UNCHANGED <<tasks, disk, durable, clock>>
  BY <1>1, NoLifecycleStep
<1>2. CASE commit(new)
  <2>1. ASSUME NEW t \in DOMAIN tasks
        PROVE  /\ new[t].state = Lifecycle!AfterRestart(tasks[t].state)
               /\ new[t].channel = tasks[t].channel
               /\ new[t].result => new[t].state = "completed"
    <3> DEFINE r == tasks[t]
               q == reconcile(r, clock)
    <3>1. r \in Record /\ valid_record(t, r) /\ clock \in Nat /\ (r.result => r.state = "completed")
      BY TasksGood DEF IInv, ResultsComplete, results_complete, Documents
    <3>2. q \in Record /\ q.channel = r.channel /\ (r.state = "completed" => q = r)
      BY <3>1, ReconcileFacts
    <3>3. new[t] = IF q = r THEN q ELSE [q EXCEPT !.revision = @ + 1]
      BY DEF reconciled
    <3> HIDE DEF r
    <3>4. q.state = Lifecycle!AfterRestart(r.state) /\ q.result = r.result
      <4>1. CASE r.state \in {"recovering", "starting", "running", "stopping"}
        <5>1. claim_interruption(r, "gateway_restart") \in Record
          BY <3>1, ClaimType DEF Causes
        <5>2. claim_interruption(r, "gateway_restart").result = r.result
          BY <3>1 DEF claim_interruption, Record
        <5>3. q = [claim_interruption(r, "gateway_restart")
                     EXCEPT !.state = "interrupted", !.updated = clock]
          BY <4>1 DEF reconcile
        <5>4. q.state = "interrupted" /\ q.result = r.result
          BY <5>1, <5>2, <5>3 DEF Record
        <5> QED
          BY <4>1, <5>4 DEF Lifecycle!AfterRestart
      <4>2. CASE r.state = "delivering"
        <5>1. q = [r EXCEPT !.state = "delivery_failed", !.updated = clock,
                            !.failure = delivery_retry_disabled(@)]
          BY <3>1, <4>2 DEF reconcile
        <5>2. q.state = "delivery_failed" /\ q.result = r.result
          BY <3>1, <5>1 DEF Record
        <5> QED
          BY <4>2, <5>2 DEF Lifecycle!AfterRestart
      <4>3. CASE r.state \notin {"recovering", "starting", "running", "stopping", "delivering"}
        <5>1. q.state = r.state /\ q.result = r.result
          BY <3>1, <4>3 DEF reconcile, Record
        <5> QED
          BY <4>3, <5>1 DEF Lifecycle!AfterRestart
      <4> QED
        BY <4>1, <4>2, <4>3
    <3> HIDE DEF q, new
    <3>5. new[t].state = q.state /\ new[t].channel = q.channel /\ new[t].result = q.result
      BY <3>2, <3>3 DEF Record
    <3>6. q.result => q.state = "completed"
      BY <3>1, <3>2, <3>4
    <3> QED
      BY <3>2, <3>4, <3>5, <3>6 DEF r
  <2>2. DOMAIN new = DOMAIN tasks
    OBVIOUS
  <2> HIDE DEF new
  <2>3. results_complete(new)
    BY <2>1, <2>2 DEF results_complete
  <2> DEFINE b == board_of(tasks)
  <2>4. board_of(new) = [t \in DOMAIN b |-> [b[t] EXCEPT !.phase = Lifecycle!AfterRestart(@)]]
    <3>1. \A t \in DOMAIN tasks :
            [b[t] EXCEPT !.phase = Lifecycle!AfterRestart(@)]
              = [phase |-> new[t].state, channel |-> new[t].channel]
      <4>1. ASSUME NEW t \in DOMAIN tasks
            PROVE  [b[t] EXCEPT !.phase = Lifecycle!AfterRestart(@)]
                     = [phase |-> new[t].state, channel |-> new[t].channel]
        <5>1. b[t] = [phase |-> tasks[t].state, channel |-> tasks[t].channel]
          BY BoardOf
        <5> HIDE DEF b
        <5>2. [b[t] EXCEPT !.phase = Lifecycle!AfterRestart(@)]
                = [phase |-> Lifecycle!AfterRestart(tasks[t].state), channel |-> tasks[t].channel]
          BY <5>1
        <5> QED
          BY <2>1, <5>2
      <4> QED
        BY <4>1
    <3>2. DOMAIN b = DOMAIN tasks
      BY BoardOf
    <3> HIDE DEF b
    <3> QED
      BY <2>2, <3>1, <3>2 DEF board_of
  <2>5. Lifecycle!Publish(board_of(new)) => Lifecycle!Next
    BY <2>4 DEF Lifecycle!Reconcile, Lifecycle!Next
  <2> QED
    BY <1>2, <2>3, <2>5, CommitStep
<1> QED
  BY <1>1, <1>2 DEF ReconcileStartup, reconcile_startup

\* forget takes one inactive task off the board; the neighbours it unlinks keep
\* their states.
LEMMA ForgetTouches ==
  ASSUME IInv, ResultsComplete, NEW t \in DOMAIN tasks, Forget(t)
  PROVE  LifecycleStep
<1> DEFINE doc == forget_inactive_task(tasks, t, clock)
<1>1. ~is_active(tasks[t]) /\ commit(doc)
  BY DEF Forget, forget
<1>2. /\ DOMAIN doc = DOMAIN tasks \ {t}
      /\ \A u \in DOMAIN doc : doc[u] = unlink(tasks[u], t, clock)
  BY DEF forget_inactive_task
<1> HIDE DEF doc
<1>3. \A u \in DOMAIN doc :
        /\ doc[u].state = tasks[u].state
        /\ doc[u].channel = tasks[u].channel
        /\ doc[u].result = tasks[u].result
  <2>1. ASSUME NEW r \in Record
        PROVE  unlink(r, t, clock).result = r.result
    BY DEF unlink, Record
  <2>2. t \in TaskIds /\ clock \in Nat /\ \A u \in DOMAIN tasks : tasks[u] \in Record
    BY TasksGood DEF IInv
  <2> QED
    BY <1>2, <2>1, <2>2, UnlinkFacts
<1>4. results_complete(doc)
  BY <1>2, <1>3 DEF ResultsComplete, results_complete, Documents
<1>5. ASSUME Lifecycle!Publish(board_of(doc))
      PROVE  Lifecycle!Next
  <2>1. /\ DOMAIN board_of(doc) = DOMAIN board_of(tasks) \ {t}
        /\ \A u \in DOMAIN board_of(doc) : board_of(doc)[u] = board_of(tasks)[u]
    BY <1>2, <1>3 DEF board_of
  <2>2. board_of(tasks)[t].phase \notin Lifecycle!Busy
    BY <1>1 DEF board_of, is_active, ACTIVE_STATES, Lifecycle!Busy
  <2>3. Lifecycle!Publish(board_of(tasks))
    BY <1>5, <2>1, <2>2 DEF Lifecycle!Publish
  <2> QED
    BY <2>3 DEF Lifecycle!Touch, Lifecycle!Next
<1> QED
  BY <1>1, <1>4, <1>5, CommitStep

\* A new process shows the board of the file; a power loss, one of the boards
\* that were not yet certain to be overwritten.
LEMMA LoadShowsPast ==
  ASSUME IInv, ResultsComplete, restart \/ power_loss
  PROVE  LifecycleStep
<1>1. CASE restart
  <2>1. UNCHANGED <<tasks, disk, durable>>
    BY <1>1 DEF restart, load, IInv, AcknowledgedIsDurable
  <2> QED
    BY <2>1, NoLifecycleStep
<1>2. CASE power_loss
  <2>1. PICK doc \in durable : tasks' = doc /\ disk' = doc /\ durable' = {doc}
    BY <1>2 DEF power_loss, load
  <2>2. ResultsComplete'
    BY <2>1 DEF ResultsComplete, Documents
  <2>3. board_of(tasks)' = board_of(doc)
    BY <2>1 DEF board_of
  <2>4. {board_of(d) : d \in durable}' = {board_of(doc)}
    BY <2>1 DEF board_of
  <2>5. Lifecycle!PowerLoss
    BY <2>3, <2>4 DEF Lifecycle!PowerLoss
  <2> QED
    BY <2>2, <2>5 DEF LifecycleStep, Lifecycle!Next
<1> QED
  BY <1>1, <1>2

\* Every step of the store is a step of the documented life cycle or none.
LEMMA LifecycleSteps ==
  ASSUME IInv, ResultsComplete, [StoreNext]_storeVars
  PROVE  LifecycleStep
<1>1. CASE \E t \in TaskIds : Create(t)
  BY <1>1, CreateOpens
<1>2. CASE \E t \in DOMAIN tasks : CompareAndSet(t)
  BY <1>2, CompareAndSetMoves
<1>3. CASE \E p \in DOMAIN tasks, c \in TaskIds : LinkChild(p, c)
  BY <1>3, LinkChildOpens
<1>4. CASE ReconcileStartup
  BY <1>4, ReconcileStartupReconciles
<1>5. CASE \E t \in DOMAIN tasks : Forget(t)
  BY <1>5, ForgetTouches
<1>6. CASE restart \/ power_loss
  BY <1>6, LoadShowsPast
<1>7. CASE tick \/ UNCHANGED storeVars
  BY <1>7, NoLifecycleStep DEF tick, storeVars
<1> QED
  BY <1>1, <1>2, <1>3, <1>4, <1>5, <1>6, <1>7 DEF StoreNext

\* The store implements the documented life cycle: under every operation, way a
\* write ends, restart and power loss its tasks are opened in free channels,
\* move along the documented transitions, and leave only while inactive.
THEOREM StoreImplementsLifecycle == StoreSpec => ImplementsLifecycle
<1>1. StoreInit => Lifecycle!Init /\ ResultsComplete
  <2> SUFFICES ASSUME StoreInit PROVE Lifecycle!Init /\ ResultsComplete
    OBVIOUS
  <2>1. board_of(EmptyDocument) = [id \in {} |-> <<>>]
    BY DEF board_of, EmptyDocument
  <2>2. Lifecycle!Init
    BY <2>1 DEF StoreInit, Lifecycle!Init
  <2>3. ResultsComplete
    BY DEF StoreInit, ResultsComplete, results_complete, Documents, EmptyDocument
  <2> QED
    BY <2>2, <2>3
<1>2. IInv /\ ResultsComplete /\ [StoreNext]_storeVars => ResultsComplete'
  BY LifecycleSteps DEF LifecycleStep
<1>3. IInv /\ ResultsComplete /\ [StoreNext]_storeVars =>
        [Lifecycle!Next]_<<board_of(tasks), {board_of(doc) : doc \in durable}>>
  BY LifecycleSteps DEF LifecycleStep, lifecycleVars
<1> QED
  BY <1>1, <1>2, <1>3, StoreInvariant, PTL DEF StoreSpec, ImplementsLifecycle, Lifecycle!Spec
============================================================================

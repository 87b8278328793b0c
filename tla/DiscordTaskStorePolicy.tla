----------------------- MODULE DiscordTaskStorePolicy -----------------------
(***************************************************************************)
(* discord_task_store_policy.py and discord_task_store_mutations.py: pure  *)
(* functions on a document, that is, a function from the stored task ids   *)
(* to their records.                                                       *)
(*                                                                         *)
(* Tasks linked by continuation form a component.  Retention keeps or      *)
(* drops whole components, so that no link is left dangling.               *)
(***************************************************************************)
EXTENDS DiscordTaskRecord, FiniteSetsExt

CONSTANTS
  RETENTION_DAYS,      \* 30 in the code; one unit of the model's clock is a day
  MAX_INACTIVE_TASKS   \* 500 in the code

ASSUME RetentionAssumption ==
  /\ RETENTION_DAYS \in Nat
  /\ MAX_INACTIVE_TASKS \in Nat

is_document(doc) ==
  /\ DOMAIN doc \subseteq TaskIds
  /\ doc \in [DOMAIN doc -> Record]

EmptyDocument == [t \in {} |-> None]

put(tasks, t, r) ==
  [u \in DOMAIN tasks \cup {t} |-> IF u = t THEN r ELSE tasks[u]]

----------------------------------------------------------------------------
(* Components and retention.                                               *)

\* A defect for comparison: components follow links in one direction.
predecessors(tasks, t) == {tasks[t].from} \ {None}

neighbours(tasks, t) == {tasks[t].from, tasks[t].to} \ {None}

closed_under_links(tasks, ids) == \A t \in ids : neighbours(tasks, t) \subseteq ids

\* The least set of ids that holds t and is closed under links.
component(tasks, t) ==
  {u \in DOMAIN tasks :
     \A ids \in SUBSET DOMAIN tasks :
        t \in ids /\ closed_under_links(tasks, ids) => u \in ids}

components(tasks) == {component(tasks, t) : t \in DOMAIN tasks}

updated_at(tasks, c) == Max({tasks[t].updated : t \in c})

\* _component_key: the newest record of a component, ties broken by task id.
component_key(tasks, c) ==
  [time |-> updated_at(tasks, c),
   id   |-> Max({t \in c : tasks[t].updated = updated_at(tasks, c)})]

newer(tasks, c, d) ==
  LET k == component_key(tasks, c)
      l == component_key(tasks, d)
  IN  k.time > l.time \/ (k.time = l.time /\ k.id > l.id)

active_components(tasks) ==
  {c \in components(tasks) : \E t \in c : is_active(tasks[t])}

recent_components(tasks, now) ==
  {c \in components(tasks) \ active_components(tasks) :
     updated_at(tasks, c) + RETENTION_DAYS >= now}

\* A defect for comparison: the scan ends at the first component that does not fit.
kept_until_misfit(tasks, now) ==
  {{c \in recent_components(tasks, now) :
      Cardinality(UNION {d \in recent_components(tasks, now) : newer(tasks, d, c)})
        + Cardinality(c) <= MAX_INACTIVE_TASKS}}

\* A defect for comparison: a component is kept while there is any room left.
kept_above_limit(tasks, now) ==
  {kept \in SUBSET recent_components(tasks, now) :
     \A c \in recent_components(tasks, now) :
        c \in kept <=>
          Cardinality(UNION {d \in kept : newer(tasks, d, c)}) < MAX_INACTIVE_TASKS}

\* The inactive components that the scan of apply_retention keeps: newest
\* first, each one that still fits under the limit beside those kept before
\* it.  The newest component decides the next one and so on, so exactly one
\* set satisfies this.
kept_inactive(tasks, now) ==
  {kept \in SUBSET recent_components(tasks, now) :
     \A c \in recent_components(tasks, now) :
        c \in kept <=>
          Cardinality(UNION {d \in kept : newer(tasks, d, c)}) + Cardinality(c)
             <= MAX_INACTIVE_TASKS}

\* apply_retention, as the set of its one result.
apply_retention(tasks, now) ==
  {Restrict(tasks, UNION (active_components(tasks) \cup kept)) :
     kept \in kept_inactive(tasks, now)}

\* The sort of apply_retention: the inactive components, newest first.
scan_order(tasks, now) ==
  LET inactive == recent_components(tasks, now)
  IN  CHOOSE order \in [1 .. Cardinality(inactive) -> inactive] :
        \A i, j \in 1 .. Cardinality(inactive) :
          i < j => newer(tasks, order[i], order[j])

\* Its loop over them, with the count it keeps: the components retained.
scan_retained(tasks, now) ==
  LET order == scan_order(tasks, now)
      n == Cardinality(recent_components(tasks, now))
      scan[i \in 0 .. n] ==
        IF i = 0 THEN [retained |-> {}, inactive_count |-> 0]
        ELSE IF scan[i - 1].inactive_count + Cardinality(order[i]) > MAX_INACTIVE_TASKS
               THEN scan[i - 1]
               ELSE [retained       |-> scan[i - 1].retained \cup {order[i]},
                     inactive_count |-> scan[i - 1].inactive_count + Cardinality(order[i])]
  IN  scan[n].retained

----------------------------------------------------------------------------
(* The continuation graph.                                                 *)

links_reciprocal(tasks) ==
  \A t \in DOMAIN tasks :
    /\ tasks[t].to # None =>
         /\ tasks[t].to \in DOMAIN tasks
         /\ tasks[tasks[t].to].from = t
         /\ tasks[t].state = "completed"
         /\ same_task_scope(tasks[t], tasks[tasks[t].to])
    /\ tasks[t].from # None =>
         /\ tasks[t].from \in DOMAIN tasks
         /\ tasks[tasks[t].from].to = t

\* _assert_acyclic: no set of tasks in which every continuation stays inside.
links_acyclic(tasks) ==
  \A ids \in SUBSET DOMAIN tasks :
    ids # {} => \E t \in ids : tasks[t].to \notin ids

validate_continuation_graph(tasks) ==
  links_reciprocal(tasks) /\ links_acyclic(tasks)

\* forget_inactive_task: drop the task and clear its neighbours' links to it.
unlink(r, t, now) ==
  IF t \in {r.from, r.to}
    THEN [r EXCEPT !.from     = IF @ = t THEN None ELSE @,
                   !.to       = IF @ = t THEN None ELSE @,
                   !.revision = @ + 1,
                   !.updated  = now]
    ELSE r

forget_inactive_task(tasks, t, now) ==
  [u \in DOMAIN tasks \ {t} |-> unlink(tasks[u], t, now)]
============================================================================

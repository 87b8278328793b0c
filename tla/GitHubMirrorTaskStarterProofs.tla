-------------------- MODULE GitHubMirrorTaskStarterProofs --------------------
(***************************************************************************)
(* Starts from the card of a mirrored item, for any number of handlers,    *)
(* interactions, cards, tasks, process ends and failed writes: one task of *)
(* the item runs at a time, the record knows it, and no interaction starts *)
(* two.                                                                    *)
(***************************************************************************)
EXTENDS GitHubMirrorTaskStarter, FiniteSetTheorems, SequenceTheorems, TLAPS

----------------------------------------------------------------------------
(* The inductive invariant.                                                *)

States == {"draft", "open", "closed", "merged"}
Deliveries == {e.delivery : e \in Events}
Pending == [interaction : Triggers, task : TaskIds]
Claim == [interaction : Triggers, task : TaskIds, succeeded : BOOLEAN]

Mirror ==
  [revision : Nat, card : Cards, create : {None}, cleanup : {None},
   publication_pending : BOOLEAN, thread : Cards \cup {None}, state : States, time : Nat,
   shows : Deliveries, deliveries : Seq(Deliveries), pending_action : Pending \cup {None},
   active : TaskIds \cup {None}, handled : Seq(Claim)]

Task == [state : {"absent", "active", "ended", "forgotten"}, trigger : Triggers \cup {None},
         thread : Cards \cup {None}, early : BOOLEAN, retried : BOOLEAN]

Handler == [at : {"idle", "ack", "thread", "context"}, trigger : Triggers \cup {None},
            card : Cards \cup {None}, active : TaskIds \cup {None},
            thread : Cards \cup {None}, task : TaskIds \cup {None}, early : BOOLEAN]

\* The types of the variables; a handler that waits knows its interaction and its card.
StarterTypeOK ==
  /\ mirror \in Mirror
  /\ tasks \in [TaskIds -> Task]
  /\ claims \in [Triggers -> TaskIds \cup {None}]
  /\ handler \in [Handlers -> Handler]
  /\ \A h \in Handlers : /\ handler[h].at # "idle" => handler[h].trigger # None
                         /\ handler[h].at # "idle" => handler[h].card # None
  /\ phase \in {"started", "tasks_reconciled", "reconciled"}
  /\ used \in [tasks : 0..MaxTasks, retries : Nat, faults : Nat, crashes : Nat, changes : Nat]

\* The record remembers an interaction.
Claimed(m, i) == \E n \in DOMAIN m.handled : m.handled[n].interaction = i
Known(m, i) == (m.pending_action # None /\ m.pending_action.interaction = i) \/ Claimed(m, i)

\* The history holds every interaction that there is.
Roomy == IsFiniteSet(Triggers) /\ Cardinality(Triggers) <= MAX_HANDLED_CLAIMS

\* A record that __post_init__ accepts and that does not reserve what it has handled.
Sound(m) ==
  /\ m \in Mirror
  /\ constructible(m)
  /\ Len(m.handled) <= MAX_HANDLED_CLAIMS
  /\ m.pending_action # None => ~Claimed(m, m.pending_action.interaction)

\* The tasks in terms of the record: they share its thread, what runs is known to it, and so
\* is what started them while the history lasts.
TasksKnown(m, ts) ==
  \A t \in TaskIds :
    /\ ts[t].state # "absent" => ts[t].thread = m.thread /\ m.thread # None
    /\ ts[t].state = "absent" => ts[t].trigger = None
    /\ running(ts, t) /\ ~ts[t].early /\ ~ts[t].retried => m.active = t \/ matching_pending(m, t)
    /\ Roomy /\ ts[t].trigger # None => Known(m, ts[t].trigger)

\* A handler between reserve() and the start of its task: the task does not exist, the
\* reservation stands if it waited for startup, and the thread is the item's once attached.
Starts(s) == s.at \in {"thread", "context"}

Owed(m, ts, s) ==
  /\ s.task \in TaskIds /\ ts[s.task].state = "absent"
  /\ ~s.early => matching_pending(m, s.task)
  /\ s.at = "context" => s.thread = m.thread /\ m.thread # None
  /\ Roomy => Known(m, s.trigger) /\ \A t \in TaskIds : ts[t].trigger # s.trigger

\* All of that, but for the handler that is at work.
Good(m, ts, h) ==
  /\ Sound(m) /\ TasksKnown(m, ts)
  /\ \A k \in Handlers : k # h /\ Starts(handler[k]) => Owed(m, ts, handler[k])

\* Two handlers do not start the same task, or for the same interaction.
Distinct ==
  \A h, k \in Handlers : Starts(handler[h]) /\ Starts(handler[k]) /\ h # k =>
    /\ handler[h].task # handler[k].task
    /\ Roomy => handler[h].trigger # handler[k].trigger

\* What is drawn, and what is not.
Drawn ==
  /\ \A t \in TaskIds : t > used.tasks => tasks[t].state = "absent"
  /\ mirror.pending_action # None => mirror.pending_action.task <= used.tasks
  /\ \A h \in Handlers : handler[h].task # None => Starts(handler[h]) /\ handler[h].task <= used.tasks

\* Until startup is reconciled nobody waits but those that did not wait for it.
EarlyOnes == phase # "reconciled" =>
  \A h \in Handlers : handler[h].at # "idle" => handler[h].early

StarterInv ==
  /\ StarterTypeOK
  /\ Sound(mirror) /\ TasksKnown(mirror, tasks)
  /\ \A h \in Handlers : Starts(handler[h]) => Owed(mirror, tasks, handler[h])
  /\ Distinct /\ Drawn /\ EarlyOnes
  /\ OneTaskRuns /\ ReservationHasOwner
  /\ Roomy => OneTaskPerInteraction

----------------------------------------------------------------------------
(* The record.                                                             *)

\* The last elements of a sequence are some of its elements, in their order.
LEMMA LastElements ==
  ASSUME NEW S, NEW s \in Seq(S), NEW n \in Nat
  PROVE  /\ last(s, n) \in Seq(S) /\ Len(last(s, n)) <= n
         /\ Len(s) <= n => last(s, n) = s
         /\ \E d \in Nat : \A i \in DOMAIN last(s, n) :
              i + d \in DOMAIN s /\ last(s, n)[i] = s[i + d]
  <1>1. CASE Len(s) <= n
    <2>1. last(s, n) = s
      BY <1>1 DEF last
    <2>2. \A i \in DOMAIN s : i + 0 = i
      BY LenProperties
    <2>3. \E d \in Nat : \A i \in DOMAIN s : i + d \in DOMAIN s /\ s[i] = s[i + d]
      BY <2>2
    <2> QED
      BY <1>1, <2>1, <2>3
  <1>2. CASE Len(s) > n
    <2>1. /\ last(s, n) = SubSeq(s, Len(s) - n + 1, Len(s)) /\ Len(s) \in Nat
          /\ DOMAIN s = 1..Len(s)
      BY <1>2, LenProperties DEF last
    <2>2. /\ last(s, n) \in Seq(S) /\ Len(last(s, n)) = n
          /\ \A i \in 1..n : last(s, n)[i] = s[Len(s) - n + 1 + i - 1]
      BY <1>2, <2>1, SubSeqProperties
    <2>3. DOMAIN last(s, n) = 1..n
      BY <2>2, LenProperties
    <2>6. Len(s) - n \in Nat
      BY <1>2, <2>1
    <2>4. PICK d \in Nat : d = Len(s) - n
      BY <2>6
    <2>5. \A i \in DOMAIN last(s, n) : i + d \in DOMAIN s /\ last(s, n)[i] = s[i + d]
      <3>1. ASSUME NEW i \in 1..n
            PROVE  i + d \in DOMAIN s /\ Len(s) - n + 1 + i - 1 = i + d
        BY <1>2, <2>1, <2>4
      <3> QED
        BY <2>2, <2>3, <3>1
    <2> QED
      BY <1>2, <2>1, <2>2, <2>5
  <1>3. Len(s) <= n \/ Len(s) > n
    BY LenProperties
  <1> QED
    BY <1>1, <1>2, <1>3

\* A history of interactions has room for one that is not in it, if there are not too many.
LEMMA HistoryFits ==
  ASSUME Roomy, NEW s \in Seq(Claim), NEW i \in Triggers,
         \A k, l \in DOMAIN s : s[k].interaction = s[l].interaction => k = l,
         \A k \in DOMAIN s : s[k].interaction # i
  PROVE  Len(s) + 1 <= MAX_HANDLED_CLAIMS
  <1> DEFINE n == Len(s) + 1
             f == [k \in 1..n |-> IF k = n THEN i ELSE s[k].interaction]
  <1>1. Len(s) \in Nat /\ DOMAIN s = 1..Len(s) /\ n \in Nat
    BY LenProperties
  <1>2. \A k \in 1..n : k # n => k \in DOMAIN s
    BY <1>1
  <1>3. \A k \in DOMAIN s : s[k].interaction \in Triggers
    <2>1. \A k \in DOMAIN s : s[k] \in Claim
      BY ElementOfSeq, <1>1
    <2> QED
      BY <2>1 DEF Claim
  <1>4. f \in [1..n -> Triggers]
    BY <1>2, <1>3
  <1>5. \A k, l \in 1..n : f[k] = f[l] => k = l
    BY <1>2
  <1> HIDE DEF f
  <1>6. f \in Injection(1..n, Triggers)
    <2>1. DOMAIN f = 1..n
      BY <1>4
    <2> QED
      BY <1>4, <1>5, <2>1 DEF Injection, IsInjective
  <1>7. IsFiniteSet(Triggers) /\ Cardinality(Triggers) <= MAX_HANDLED_CLAIMS
    BY DEF Roomy
  <1>8. Cardinality(1..n) <= Cardinality(Triggers)
    BY <1>6, <1>7, FS_Injection
  <1>9. Cardinality(1..n) = n
    BY <1>1, FS_Interval
  <1>10. MAX_HANDLED_CLAIMS \in Nat /\ Cardinality(Triggers) \in Nat
    BY <1>7, FS_CardinalityType, EventsAssumption
  <1> QED
    BY <1>1, <1>7, <1>8, <1>9, <1>10

\* The reservation becomes a handled interaction: nothing that was known is forgotten while
\* the history has room.
LEMMA FinishedRecord ==
  ASSUME NEW m, Sound(m), NEW t, matching_pending(m, t), NEW ok \in BOOLEAN,
         NEW n, n = finished(m, t, ok)
  PROVE  /\ Sound(n) /\ n.pending_action = None /\ n.thread = m.thread
         /\ n.active = IF ok THEN t ELSE None
         /\ n.revision # m.revision
         /\ Roomy => \A i : Known(m, i) => Known(n, i)
  <1> DEFINE p == m.pending_action
             c == [interaction |-> p.interaction, task |-> t, succeeded |-> ok]
             all == Append(m.handled, c)
             kept == last(all, MAX_HANDLED_CLAIMS)
  <1>1. /\ m \in Mirror /\ constructible(m) /\ ~Claimed(m, p.interaction)
        /\ p \in Pending /\ p # None /\ p.task = t
    BY DEF Sound, Mirror, matching_pending
  <1>2. c \in Claim /\ t \in TaskIds /\ t # None
    BY <1>1, StarterAssumption DEF Pending, Claim, TaskIds
  <1>3. m.handled \in Seq(Claim) /\ DOMAIN m.handled = 1..Len(m.handled) /\ Len(m.handled) \in Nat
    BY <1>1, LenProperties DEF Mirror
  <1>4. /\ all \in Seq(Claim) /\ Len(all) = Len(m.handled) + 1 /\ DOMAIN all = 1..Len(all)
        /\ \A k \in 1..Len(m.handled) : all[k] = m.handled[k]
        /\ all[Len(m.handled) + 1] = c
    BY <1>2, <1>3, AppendProperties, LenProperties
  <1>5. MAX_HANDLED_CLAIMS \in Nat
    BY EventsAssumption
  <1>6. \A k, l \in DOMAIN all : all[k].interaction = all[l].interaction => k = l
    <2>1. \A k \in DOMAIN all : k \in DOMAIN m.handled \/ k = Len(m.handled) + 1
      BY <1>3, <1>4
    <2>2. \A k \in DOMAIN m.handled : all[k].interaction # p.interaction
      BY <1>1, <1>3, <1>4 DEF Claimed
    <2>3. c.interaction = p.interaction
      OBVIOUS
    <2>4. \A k, l \in DOMAIN m.handled : all[k].interaction = all[l].interaction => k = l
      BY <1>1, <1>3, <1>4 DEF constructible
    <2> QED
      BY <1>4, <2>1, <2>2, <2>3, <2>4
  <1> HIDE DEF all, c
  <1>7. /\ kept \in Seq(Claim) /\ Len(kept) <= MAX_HANDLED_CLAIMS
        /\ \E d \in Nat : \A i \in DOMAIN kept : i + d \in DOMAIN all /\ kept[i] = all[i + d]
    <2>1. kept \in Seq(Claim) /\ \E d \in Nat : \A i \in DOMAIN kept : i + d \in DOMAIN all /\ kept[i] = all[i + d]
      <3>1. \E d \in Nat : \A i \in DOMAIN kept : i + d \in DOMAIN all /\ kept[i] = all[i + d]
        <4>1. PICK S : all \in Seq(S)
          BY <1>4
        <4>2. \E d \in Nat : \A i \in DOMAIN last(all, MAX_HANDLED_CLAIMS) :
                i + d \in DOMAIN all /\ last(all, MAX_HANDLED_CLAIMS)[i] = all[i + d]
          BY <1>5, <4>1, LastElements
        <4> QED
          BY <4>2 DEF kept
      <3>2. kept \in Seq(Claim)
        BY <1>4, <1>5, LastElements, Zenon DEF kept
      <3> QED
        BY <3>1, <3>2
    <2>2. Len(kept) <= MAX_HANDLED_CLAIMS
      BY <1>4, <1>5, LastElements, Zenon DEF kept
    <2> QED
      BY <2>1, <2>2
  <1>8. \A k, l \in DOMAIN kept : kept[k].interaction = kept[l].interaction => k = l
    <2>1. PICK d \in Nat : \A i \in DOMAIN kept : i + d \in DOMAIN all /\ kept[i] = all[i + d]
      BY <1>7
    <2>2. \A k, l \in DOMAIN kept : kept[k].interaction = kept[l].interaction => k + d = l + d
      BY <1>6, <2>1
    <2>3. DOMAIN kept \subseteq Nat
      BY <1>7, LenProperties
    <2> QED
      BY <2>2, <2>3
  <1> HIDE DEF kept
  <1>9. n = [m EXCEPT !.pending_action = None, !.active = IF ok THEN t ELSE None,
                      !.revision = m.revision + 1, !.handled = kept]
    BY <1>1 DEF finished, updated_record, all, c, kept, Mirror
  <1>10. /\ n \in Mirror /\ n.pending_action = None /\ n.thread = m.thread
         /\ n.active = (IF ok THEN t ELSE None) /\ n.handled = kept
         /\ n.card = m.card /\ n.create = m.create /\ n.cleanup = m.cleanup
         /\ n.deliveries = m.deliveries /\ n.revision = m.revision + 1
    <2>1. PICK a \in TaskIds \cup {None} : a = IF ok THEN t ELSE None
      BY <1>2
    <2>2. n = [m EXCEPT !.pending_action = None, !.active = a, !.revision = m.revision + 1,
                        !.handled = kept]
      BY <1>9, <2>1
    <2>3. m.revision + 1 \in Nat
      BY <1>1 DEF Mirror
    <2> QED
      BY <1>1, <1>7, <2>1, <2>2, <2>3 DEF Mirror
  <1>11. Sound(n)
    BY <1>1, <1>7, <1>8, <1>10 DEF Sound, constructible
  <1>12. ASSUME Roomy, NEW i, Known(m, i)
         PROVE  Known(n, i)
    <2>1. Len(m.handled) + 1 <= MAX_HANDLED_CLAIMS
      <3>1. \A k, l \in DOMAIN m.handled :
              m.handled[k].interaction = m.handled[l].interaction => k = l
        BY <1>1 DEF constructible
      <3>2. \A k \in DOMAIN m.handled : m.handled[k].interaction # p.interaction
        BY <1>1 DEF Claimed
      <3>3. p.interaction \in Triggers
        BY <1>1 DEF Pending
      <3> QED
        BY <1>3, <1>12, <3>1, <3>2, <3>3, HistoryFits
    <2>2. kept = all
      BY <1>4, <1>5, <2>1, LastElements DEF kept
    <2>3. CASE p.interaction = i
      <3>1. all[Len(m.handled) + 1].interaction = i
        BY <1>4, <2>3 DEF c
      <3> QED
        BY <1>3, <1>4, <1>10, <2>2, <3>1 DEF Known, Claimed
    <2>4. CASE Claimed(m, i)
      BY <1>3, <1>4, <1>10, <2>2, <2>4 DEF Known, Claimed
    <2> QED
      BY <1>12, <2>3, <2>4 DEF Known
  <1>13. n.revision # m.revision
    BY <1>1, <1>10 DEF Mirror
  <1> QED
    BY <1>10, <1>11, <1>12, <1>13

\* What compare_and_set() adds to a change that leaves the handled interactions alone.
LEMMA UpdatedRecord ==
  ASSUME NEW r \in Mirror, Len(r.handled) <= MAX_HANDLED_CLAIMS
  PROVE  updated_record(r) = [r EXCEPT !.revision = r.revision + 1]
  <1>1. r.handled \in Seq(Claim)
    BY DEF Mirror
  <1>2. last(r.handled, MAX_HANDLED_CLAIMS) = r.handled
    BY <1>1, EventsAssumption, LastElements
  <1> QED
    BY <1>2 DEF updated_record, Mirror

\* Whatever keeps a handler's task unstarted, its reservation and its thread, keeps what it
\* is owed.
LEMMA OwedKept ==
  ASSUME NEW m, NEW n, NEW ts, NEW us, NEW s, Owed(m, ts, s),
         ~s.early => matching_pending(n, s.task),
         n.thread = m.thread \/ m.thread = None,
         us[s.task].state = "absent",
         Roomy => Known(n, s.trigger),
         Roomy => \A t \in TaskIds : us[t].trigger # s.trigger
  PROVE  Owed(n, us, s)
  BY DEF Owed

\* finish(): a handler whose reservation it takes did not wait for startup.
LEMMA GoodFinished ==
  ASSUME NEW m, NEW ts, NEW h, Good(m, ts, h), NEW t, matching_pending(m, t),
         \/ stored(ts, t)
         \/ \A k \in Handlers : k # h /\ Starts(handler[k]) /\ ~handler[k].early => handler[k].task # t,
         NEW n, n = finished(m, t, stored(ts, t))
  PROVE  /\ Good(n, ts, h) /\ n.pending_action = None /\ n.thread = m.thread /\ n # m
         /\ Roomy => \A i : Known(m, i) => Known(n, i)
  <1> DEFINE ok == stored(ts, t)
  <1>1. /\ Sound(m) /\ TasksKnown(m, ts) /\ ok \in BOOLEAN
        /\ \A k \in Handlers : k # h /\ Starts(handler[k]) => Owed(m, ts, handler[k])
    BY DEF Good, stored
  <1>2. /\ Sound(n) /\ n.pending_action = None /\ n.thread = m.thread
        /\ n.active = IF ok THEN t ELSE None
        /\ n.revision # m.revision
        /\ Roomy => \A i : Known(m, i) => Known(n, i)
    BY <1>1, FinishedRecord
  <1>3. t \in TaskIds /\ m.active = None
    <2>1. m.pending_action \in Pending
      BY <1>1 DEF Sound, Mirror, matching_pending
    <2> QED
      BY <1>1, <2>1 DEF Sound, constructible, matching_pending, Pending
  <1>4. TasksKnown(n, ts)
    <2>1. ASSUME NEW u \in TaskIds, running(ts, u), ~ts[u].early, ~ts[u].retried
          PROVE  n.active = u
      <3>1. u # None
        BY StarterAssumption DEF TaskIds
      <3>2. m.active = u \/ matching_pending(m, u)
        BY <1>1, <2>1 DEF TasksKnown
      <3>3. u = t
        BY <1>3, <3>1, <3>2 DEF matching_pending
      <3> QED
        BY <1>2, <2>1, <3>3 DEF running, stored
    <2> QED
      BY <1>1, <1>2, <2>1 DEF TasksKnown
  <1>5. ASSUME NEW k \in Handlers, k # h, Starts(handler[k])
        PROVE  Owed(n, ts, handler[k])
    <2>1. Owed(m, ts, handler[k])
      BY <1>1, <1>5
    <2>2. handler[k].early
      BY <1>5, <2>1 DEF Owed, matching_pending, stored
    <2> QED
      BY <1>2, <2>1, <2>2, OwedKept DEF Owed
  <1> QED
    BY <1>1, <1>2, <1>4, <1>5 DEF Good

\* A change that leaves the reservations alone and forgets no task that runs.
LEMMA GoodMoved ==
  ASSUME NEW m, NEW ts, NEW h, Good(m, ts, h),
         NEW n \in Mirror, constructible(n),
         n.handled = m.handled, n.pending_action = m.pending_action,
         n.thread = m.thread \/ m.thread = None,
         n.active = m.active \/ ~running(ts, m.active)
  PROVE  /\ Good(n, ts, h)
         /\ \A i : Known(m, i) => Known(n, i)
  <1>1. /\ Sound(m) /\ TasksKnown(m, ts)
        /\ \A k \in Handlers : k # h /\ Starts(handler[k]) => Owed(m, ts, handler[k])
    BY DEF Good
  <1>2. /\ \A i : Claimed(n, i) <=> Claimed(m, i)
        /\ \A i : Known(n, i) <=> Known(m, i)
        /\ \A t : matching_pending(n, t) <=> matching_pending(m, t)
    BY DEF Known, Claimed, matching_pending
  <1>3. Sound(n)
    BY <1>1, <1>2 DEF Sound
  <1>4. TasksKnown(n, ts)
    <2>1. \A t \in TaskIds : running(ts, t) /\ m.active = t => n.active = t
      BY DEF running
    <2> QED
      BY <1>1, <1>2, <2>1 DEF TasksKnown
  <1>5. ASSUME NEW k \in Handlers, k # h, Starts(handler[k])
        PROVE  Owed(n, ts, handler[k])
    <2>1. Owed(m, ts, handler[k])
      BY <1>1, <1>5
    <2> QED
      BY <1>2, <2>1, OwedKept DEF Owed
  <1> QED
    BY <1>2, <1>3, <1>4, <1>5 DEF Good

\* clear_active() of a task that does not run.
LEMMA GoodCleared ==
  ASSUME NEW m, NEW ts, NEW h, Good(m, ts, h), NEW t \in TaskIds, ~running(ts, t),
         NEW n, n = cleared(m, t)
  PROVE  /\ Good(n, ts, h) /\ n.pending_action = m.pending_action
         /\ \A i : Known(m, i) => Known(n, i)
  <1>1. Sound(m) /\ m \in Mirror
    BY DEF Good, Sound
  <1>2. CASE n = m
    BY <1>2
  <1>3. CASE m.active = t /\ n = updated_record([m EXCEPT !.active = None])
    <2> DEFINE r == [m EXCEPT !.active = None]
    <2>1. r \in Mirror /\ r.handled = m.handled
      BY <1>1 DEF Mirror
    <2>2. n = [r EXCEPT !.revision = r.revision + 1]
      BY <1>1, <1>3, <2>1, UpdatedRecord DEF Sound
    <2>3. /\ n \in Mirror /\ n.handled = m.handled /\ n.pending_action = m.pending_action
          /\ n.thread = m.thread /\ n.active = None /\ n.card = m.card
          /\ n.create = m.create /\ n.cleanup = m.cleanup /\ n.deliveries = m.deliveries
      <3>1. n = [m EXCEPT !.active = None, !.revision = m.revision + 1] /\ m.revision + 1 \in Nat
        BY <1>1, <2>2 DEF Mirror
      <3> QED
        BY <1>1, <3>1 DEF Mirror
    <2>4. constructible(n)
      BY <1>1, <2>3 DEF Sound, constructible
    <2> QED
      BY <1>3, <2>3, <2>4, GoodMoved
  <1> QED
    BY <1>2, <1>3 DEF cleared

\* attach_thread(): the item has no thread, or this one.
LEMMA GoodAttached ==
  ASSUME NEW m, NEW ts, NEW h, Good(m, ts, h), NEW thread \in Cards, m.thread \in {None, thread},
         NEW n, n = attached(m, thread)
  PROVE  /\ Good(n, ts, h) /\ n.pending_action = m.pending_action /\ n.thread = thread
         /\ \A i : Known(m, i) => Known(n, i)
  <1>1. Sound(m) /\ m \in Mirror
    BY DEF Good, Sound
  <1> DEFINE r == [m EXCEPT !.thread = thread]
  <1>2. r \in Mirror /\ r.handled = m.handled
    BY <1>1 DEF Mirror
  <1>3. n = [r EXCEPT !.revision = r.revision + 1]
    BY <1>1, <1>2, UpdatedRecord DEF Sound, attached
  <1>4. /\ n \in Mirror /\ n.handled = m.handled /\ n.pending_action = m.pending_action
        /\ n.thread = thread /\ n.active = m.active /\ n.card = m.card
        /\ n.create = m.create /\ n.cleanup = m.cleanup /\ n.deliveries = m.deliveries
    <2>1. n = [m EXCEPT !.thread = thread, !.revision = m.revision + 1] /\ m.revision + 1 \in Nat
      BY <1>1, <1>3 DEF Mirror
    <2> QED
      BY <1>1, <2>1 DEF Mirror
  <1>5. constructible(n)
    BY <1>1, <1>4 DEF Sound, constructible
  <1> QED
    BY <1>4, <1>5, GoodMoved

\* reserve(), where nothing is reserved or active, of an interaction that is not known.
LEMMA GoodReserved ==
  ASSUME NEW m, NEW ts, NEW h, Good(m, ts, h), NEW i \in Triggers, NEW t \in TaskIds,
         m.pending_action = None, m.active = None, ~Claimed(m, i),
         NEW n, n = reserved(m, i, t)
  PROVE  /\ Good(n, ts, h) /\ n.card = m.card /\ n.thread = m.thread
         /\ n.pending_action = [interaction |-> i, task |-> t] /\ matching_pending(n, t)
         /\ \A j : Known(m, j) => Known(n, j)
  <1> DEFINE p == [interaction |-> i, task |-> t]
             r == [m EXCEPT !.pending_action = p]
  <1>1. /\ Sound(m) /\ m \in Mirror /\ TasksKnown(m, ts)
        /\ \A k \in Handlers : k # h /\ Starts(handler[k]) => Owed(m, ts, handler[k])
    BY DEF Good, Sound
  <1>2. p \in Pending /\ p # None /\ p.interaction = i /\ p.task = t
    BY StarterAssumption DEF Pending, TaskIds
  <1> HIDE DEF p
  <1>3. r \in Mirror /\ r.handled = m.handled
    BY <1>1, <1>2 DEF Mirror
  <1>4. n = [r EXCEPT !.revision = r.revision + 1]
    BY <1>1, <1>3, UpdatedRecord DEF Sound, reserved, p
  <1>5. /\ n \in Mirror /\ n.handled = m.handled /\ n.pending_action = p
        /\ n.thread = m.thread /\ n.active = m.active /\ n.card = m.card
        /\ n.create = m.create /\ n.cleanup = m.cleanup /\ n.deliveries = m.deliveries
    <2>1. n = [m EXCEPT !.pending_action = p, !.revision = m.revision + 1] /\ m.revision + 1 \in Nat
      BY <1>1, <1>2, <1>4 DEF Mirror
    <2> QED
      BY <1>1, <1>2, <2>1 DEF Mirror
  <1>6. /\ \A j : Claimed(n, j) <=> Claimed(m, j)
        /\ \A j : Known(m, j) => Known(n, j)
        /\ matching_pending(n, t)
        /\ \A u : ~matching_pending(m, u)
    BY <1>2, <1>5 DEF Known, Claimed, matching_pending
  <1>7. Sound(n)
    BY <1>1, <1>2, <1>5, <1>6 DEF Sound, constructible
  <1>8. TasksKnown(n, ts)
    <2>1. \A u \in TaskIds : u # None
      BY StarterAssumption DEF TaskIds
    <2> QED
      BY <1>1, <1>5, <1>6, <2>1 DEF TasksKnown
  <1>9. ASSUME NEW k \in Handlers, k # h, Starts(handler[k])
        PROVE  Owed(n, ts, handler[k])
    <2>1. Owed(m, ts, handler[k])
      BY <1>1, <1>9
    <2> QED
      BY <1>5, <1>6, <2>1, OwedKept DEF Owed
  <1> QED
    BY <1>5, <1>6, <1>7, <1>8, <1>9 DEF Good, p

----------------------------------------------------------------------------
(* What a step may end in.                                                 *)

\* The handler is through, or it waits for the next answer with its task reserved; the record
\* is good for the others, and all that it knew it still knows.
Fine(q, m, ts, h) ==
  /\ q.faults \in Nat
  /\ Good(q.mirror, ts, h)
  /\ Roomy => \A i : Known(m, i) => Known(q.mirror, i)
  /\ \/ q.handler = Idle
     \/ /\ q.handler \in Handler /\ Starts(q.handler)
        /\ q.handler.trigger # None /\ q.handler.card # None
        /\ Owed(q.mirror, ts, q.handler)

\* A reservation that stands after the step stood before it; and it is not that of t, unless
\* a write failed.
Settled(q, m, t) ==
  /\ q.mirror.pending_action \in {None, m.pending_action}
  /\ matching_pending(q.mirror, t) => q.faults # 0

\* finish() and what it may leave.
LEMMA FinishResults ==
  ASSUME NEW m, NEW ts, NEW h, Good(m, ts, h), NEW t,
         \/ stored(ts, t)
         \/ \A k \in Handlers : k # h /\ Starts(handler[k]) /\ ~handler[k].early => handler[k].task # t,
         NEW q \in Finish(m, t, stored(ts, t))
  PROVE  /\ Fine(q, m, ts, h) /\ Settled(q, m, t) /\ q.handler = Idle
         /\ q = [mirror |-> q.mirror, handler |-> Idle, faults |-> q.faults]
  <1>1. CASE ~matching_pending(m, t)
    <2>1. q = [mirror |-> m, handler |-> Idle, faults |-> 0]
      BY <1>1 DEF Finish, Ends, Result
    <2> QED
      BY <1>1, <2>1 DEF Fine, Settled
  <1>2. CASE matching_pending(m, t)
    <2>1. PICK n : n = finished(m, t, stored(ts, t))
      OBVIOUS
    <2>2. /\ Good(n, ts, h) /\ n.pending_action = None /\ n # m
          /\ Roomy => \A i : Known(m, i) => Known(n, i)
      BY <1>2, <2>1, GoodFinished
    <2>3. \/ q = [mirror |-> n, handler |-> Idle, faults |-> 0]
          \/ \E x \in {m, n} : q = [mirror |-> x, handler |-> Idle, faults |-> 1]
      BY <1>2, <2>1, <2>2, StarterAssumption DEF Finish, Write, Committed, Ends, Result, Faulty
    <2> QED
      BY <2>2, <2>3 DEF Fine, Settled, matching_pending
  <1> QED
    BY <1>1, <1>2

\* _reservation_for() finds what the record knows.
LEMMA PriorKnown ==
  ASSUME NEW m, Sound(m), NEW i
  PROVE  /\ prior(m, i) # None <=> Known(m, i)
         /\ prior(m, i) \in TaskIds \cup {None}
  <1>1. m.handled \in Seq(Claim) /\ m.pending_action \in Pending \cup {None}
    BY DEF Sound, Mirror
  <1>2. \A n \in DOMAIN m.handled : m.handled[n].task \in TaskIds /\ m.handled[n].task # None
    <2>1. \A n \in DOMAIN m.handled : m.handled[n] \in Claim
      BY <1>1, ElementOfSeq, LenProperties
    <2> QED
      BY <2>1, StarterAssumption DEF Claim, TaskIds
  <1>3. m.pending_action # None => m.pending_action.task \in TaskIds /\ m.pending_action.task # None
    BY <1>1, StarterAssumption DEF Pending, TaskIds
  <1> DEFINE known == {n \in DOMAIN m.handled : m.handled[n].interaction = i}
             found == CHOOSE n \in known : TRUE
  <1>4. known # {} => found \in DOMAIN m.handled
    OBVIOUS
  <1>5. known # {} <=> Claimed(m, i)
    BY DEF Claimed
  <1>6. prior(m, i) = IF m.pending_action # None /\ m.pending_action.interaction = i
                      THEN m.pending_action.task
                      ELSE IF known = {} THEN None ELSE m.handled[found].task
    BY DEF prior
  <1> HIDE DEF known, found
  <1> QED
    BY <1>2, <1>3, <1>4, <1>5, <1>6 DEF Known

\* A press that finds the item busy, or its interaction handled, reserves nothing.
LEMMA BusyResults ==
  ASSUME NEW m, NEW h, Good(m, tasks, h), NEW t \in TaskIds,
         NEW q \in Busy(m, t) \cup Replayed(m, t)
  PROVE  /\ Fine(q, m, tasks, h) /\ q.handler = Idle
         /\ q.mirror.pending_action \in {None, m.pending_action}
  <1>1. CASE q \in Finish(m, t, TRUE) /\ stored(tasks, t)
    <2>1. stored(tasks, t) = TRUE
      BY <1>1 DEF stored
    <2>2. q \in Finish(m, t, stored(tasks, t))
      BY <1>1, <2>1
    <2>3. Fine(q, m, tasks, h) /\ Settled(q, m, t) /\ q.handler = Idle
      BY <1>1, <2>2, FinishResults
    <2> QED
      BY <2>3 DEF Settled
  <1>2. CASE q \in Ends(m)
    BY <1>2 DEF Ends, Result, Fine
  <1>3. CASE q \in Write(m, cleared(m, t)) /\ ~running(tasks, t)
    <2>1. PICK n : n = cleared(m, t)
      OBVIOUS
    <2>2. /\ Good(n, tasks, h) /\ n.pending_action = m.pending_action
          /\ \A i : Known(m, i) => Known(n, i)
      BY <1>3, <2>1, GoodCleared
    <2>3. q.mirror \in {m, n} /\ q.handler = Idle /\ q.faults \in {0, 1}
      BY <1>3, <2>1, StarterAssumption DEF Write, Committed, Ends, Result, Faulty
    <2> QED
      BY <2>2, <2>3 DEF Fine
  <1> QED
    BY <1>1, <1>2, <1>3 DEF Busy, Replayed

\* The results of a start up to its first await: nothing is reserved, or t is, for the handler
\* that goes on with it unless a write failed.
Began(q, m, s, t) ==
  /\ q.mirror.pending_action \in {None, m.pending_action} \/ matching_pending(q.mirror, t)
  /\ matching_pending(q.mirror, t) => q.handler.task = t \/ q.faults # 0
  /\ \/ q.handler = Idle
     \/ /\ q.handler.task = t /\ q.handler.trigger = s.trigger /\ q.handler.early = s.early
        /\ matching_pending(q.mirror, t) /\ ~Known(m, s.trigger)

\* reserve() and what start() does up to the first await.
LEMMA ReserveResults ==
  ASSUME NEW m, NEW h, Good(m, tasks, h), NEW s \in Handler, s.at = "ack",
         s.trigger # None, s.card # None, NEW t \in TaskIds, tasks[t].state = "absent",
         ~matching_pending(m, t),
         \A k \in Handlers : Starts(handler[k]) => handler[k].task # t,
         NEW q \in Reserve(m, s, t)
  PROVE  Fine(q, m, tasks, h) /\ Began(q, m, s, t)
  <1>1. Sound(m) /\ m \in Mirror /\ TasksKnown(m, tasks) /\ s.trigger \in Triggers /\ s.card \in Cards
    BY DEF Good, Sound, Handler
  <1>2. ASSUME NEW u \in TaskIds, q \in Busy(m, u) \cup Replayed(m, u)
        PROVE  Fine(q, m, tasks, h) /\ Began(q, m, s, t)
    <2>1. /\ Fine(q, m, tasks, h) /\ q.handler = Idle
          /\ q.mirror.pending_action \in {None, m.pending_action}
      BY <1>2, BusyResults
    <2> QED
      BY <2>1 DEF Began, matching_pending
  <1>3. CASE q \in Ends(m)
    BY <1>3 DEF Ends, Result, Fine, Began
  <1>4. CASE /\ prior(m, s.trigger) = None /\ m.pending_action = None /\ m.active = None
             /\ q \in Committed(m, reserved(m, s.trigger, t),
                         LAMBDA new : IF new.card # s.card THEN Settle(new, tasks, t)
                                      ELSE Result(new, [s EXCEPT !.at = "thread", !.task = t,
                                                                 !.thread = new.thread]),
                         Ends)
    <2>1. PICK n : n = reserved(m, s.trigger, t)
      OBVIOUS
    <2>2. ~Known(m, s.trigger) /\ ~Claimed(m, s.trigger)
      BY <1>1, <1>4, PriorKnown DEF Known
    <2>3. /\ Good(n, tasks, h) /\ matching_pending(n, t) /\ n.thread = m.thread
          /\ n.pending_action = [interaction |-> s.trigger, task |-> t]
          /\ \A j : Known(m, j) => Known(n, j)
      BY <1>1, <1>4, <2>1, <2>2, GoodReserved
    <2>4. n # m
      BY <1>4, <2>3 DEF matching_pending
    <2> DEFINE w == [s EXCEPT !.at = "thread", !.task = t, !.thread = n.thread]
    <2>5. \/ q \in Settle(n, tasks, t)
          \/ q = [mirror |-> n, handler |-> w, faults |-> 0]
          \/ q.mirror \in {m, n} /\ q.handler = Idle /\ q.faults = 1
      BY <1>4, <2>1, <2>4, StarterAssumption DEF Committed, Ends, Result, Faulty
    <2>6. CASE q \in Settle(n, tasks, t)
      <3>1. Fine(q, n, tasks, h) /\ Settled(q, n, t) /\ q.handler = Idle
        BY <2>3, <2>6, FinishResults DEF Settle
      <3> QED
        BY <2>3, <3>1 DEF Fine, Settled, Began, matching_pending
    <2>7. CASE q = [mirror |-> n, handler |-> w, faults |-> 0]
      <3>1. /\ w \in Handler /\ w.at = "thread" /\ w.task = t /\ w.trigger = s.trigger
            /\ w.early = s.early /\ w.card = s.card
        <4>1. n.thread \in Cards \cup {None}
          BY <2>3 DEF Good, Sound, Mirror
        <4> QED
          BY <4>1 DEF Handler
      <3>2. Roomy => Known(n, s.trigger) /\ \A u \in TaskIds : tasks[u].trigger # s.trigger
        BY <1>1, <2>2, <2>3 DEF TasksKnown, Known, matching_pending
      <3> HIDE DEF w
      <3>3. Owed(n, tasks, w)
        BY <2>3, <3>1, <3>2 DEF Owed
      <3> QED
        BY <2>2, <2>3, <2>7, <3>1, <3>3 DEF Fine, Began, Starts
    <2>8. CASE q.mirror \in {m, n} /\ q.handler = Idle /\ q.faults = 1
      BY <2>3, <2>8 DEF Fine, Began
    <2> QED
      BY <2>5, <2>6, <2>7, <2>8
  <1>5. prior(m, s.trigger) # None => prior(m, s.trigger) \in TaskIds
    BY <1>1, PriorKnown
  <1>6. /\ m.pending_action # None => m.pending_action.task \in TaskIds
        /\ m.active # None => m.active \in TaskIds
    BY <1>1 DEF Mirror, Pending
  <1> QED
    BY <1>2, <1>3, <1>4, <1>5, <1>6 DEF Reserve

\* start(), up to the first await of a new task.
LEMMA StartResults ==
  ASSUME NEW m, NEW h, Good(m, tasks, h), NEW s \in Handler, s.at = "ack",
         s.trigger # None, s.card # None, NEW t \in TaskIds, tasks[t].state = "absent",
         ~matching_pending(m, t),
         \A k \in Handlers : Starts(handler[k]) => handler[k].task # t,
         NEW q \in StartTask(m, s, t)
  PROVE  Fine(q, m, tasks, h) /\ Began(q, m, s, t)
  <1>1. CASE q \in Ends(m)
    BY <1>1 DEF Ends, Result, Fine, Began
  <1>2. CASE q \in Reserve(m, s, t)
    BY <1>2, ReserveResults
  <1>3. CASE /\ ~running(tasks, s.active) /\ s.active # None
             /\ q \in Committed(m, cleared(m, s.active), LAMBDA new : Reserve(new, s, t), Ends)
    <2>1. PICK n : n = cleared(m, s.active)
      OBVIOUS
    <2>2. /\ Good(n, tasks, h) /\ n.pending_action = m.pending_action
          /\ \A i : Known(m, i) => Known(n, i)
      BY <1>3, <2>1, GoodCleared DEF Handler
    <2>3. \/ q \in Reserve(n, s, t)
          \/ q.mirror \in {m, n} /\ q.handler = Idle /\ q.faults = 1
      BY <1>3, <2>1, StarterAssumption DEF Committed, Ends, Result, Faulty
    <2>4. CASE q \in Reserve(n, s, t)
      <3>1. ~matching_pending(n, t)
        BY <2>2 DEF matching_pending
      <3>2. Fine(q, n, tasks, h) /\ Began(q, n, s, t)
        BY <2>2, <2>4, <3>1, ReserveResults
      <3> QED
        BY <2>2, <3>2 DEF Fine, Began
    <2>5. CASE q.mirror \in {m, n} /\ q.handler = Idle /\ q.faults = 1
      BY <2>2, <2>5 DEF Fine, Began
    <2> QED
      BY <2>3, <2>4, <2>5
  <1> QED
    BY <1>1, <1>2, <1>3 DEF StartTask

\* attach_thread() and what follows up to the next await.
LEMMA AttachResults ==
  ASSUME NEW m, NEW h, Good(m, tasks, h), NEW s \in Handler, s.at = "thread",
         s.trigger # None, s.card # None, Owed(m, tasks, s),
         \A k \in Handlers : k # h /\ Starts(handler[k]) => handler[k].task # s.task,
         NEW q \in AttachThread(m, s)
  PROVE  /\ Fine(q, m, tasks, h)
         /\ \/ Settled(q, m, s.task) /\ q.handler = Idle
            \/ /\ q.mirror.pending_action = m.pending_action
               /\ q.handler.task = s.task /\ q.handler.trigger = s.trigger
               /\ q.handler.early = s.early
  <1> DEFINE thread == IF s.thread # None THEN s.thread ELSE s.card
  <1>0. thread \in Cards /\ s.task \in TaskIds
    BY DEF Handler, Owed
  <1>1. ASSUME NEW x, NEW y \in Settle(x, tasks, s.task), Good(x, tasks, h)
        PROVE  Fine(y, x, tasks, h) /\ Settled(y, x, s.task) /\ y.handler = Idle
               /\ y = [mirror |-> y.mirror, handler |-> Idle, faults |-> y.faults]
    BY <1>1, FinishResults DEF Settle
  <1>2. CASE q \in Settle(m, tasks, s.task)
    BY <1>1, <1>2
  <1>3. CASE /\ m.thread \in {None, thread}
             /\ q \in Committed(m, attached(m, thread),
                        LAMBDA new : Result(new, [s EXCEPT !.at = "context", !.thread = thread]),
                        LAMBDA x : Settle(x, tasks, s.task))
    <2>1. PICK n : n = attached(m, thread)
      OBVIOUS
    <2>2. /\ Good(n, tasks, h) /\ n.pending_action = m.pending_action /\ n.thread = thread
          /\ \A i : Known(m, i) => Known(n, i)
      BY <1>0, <1>3, <2>1, GoodAttached
    <2> DEFINE w == [s EXCEPT !.at = "context", !.thread = thread]
    <2>3. \/ q \in Result(m, w) /\ m = n
          \/ q \in Result(n, w)
          \/ \E y \in Settle(m, tasks, s.task) \cup Settle(n, tasks, s.task) :
               q = [y EXCEPT !.faults = @ + 1]
      BY <1>3, <2>1, StarterAssumption DEF Committed, Faulty
    <2>4. CASE q \in Result(n, w)
      <3>1. /\ w \in Handler /\ w.at = "context" /\ w.task = s.task /\ w.trigger = s.trigger
            /\ w.early = s.early /\ w.card = s.card /\ w.thread = thread
        BY <1>0 DEF Handler
      <3> HIDE DEF w, thread
      <3>2. q.mirror = n /\ q.handler = w /\ q.faults = 0
        BY <2>4 DEF Result
      <3>3. thread # None
        BY <1>0, StarterAssumption
      <3>4. Owed(n, tasks, w)
        BY <2>2, <3>1, <3>3 DEF Owed, matching_pending
      <3> QED
        BY <2>2, <3>1, <3>2, <3>4 DEF Fine, Starts
    <2>5. ASSUME NEW y \in Settle(m, tasks, s.task) \cup Settle(n, tasks, s.task),
                 q = [y EXCEPT !.faults = @ + 1]
          PROVE  Fine(q, m, tasks, h) /\ Settled(q, m, s.task) /\ q.handler = Idle
      <3>1. PICK x \in {m, n} : y \in Settle(x, tasks, s.task)
        BY <2>5
      <3>2. Fine(y, x, tasks, h) /\ Settled(y, x, s.task) /\ y.handler = Idle
        BY <1>1, <2>2, <3>1
      <3>3. q.mirror = y.mirror /\ q.handler = y.handler /\ q.faults = y.faults + 1 /\ y.faults \in Nat
        <4>1. DOMAIN y = {"mirror", "handler", "faults"}
          <5>1. y = [mirror |-> y.mirror, handler |-> Idle, faults |-> y.faults]
            BY <1>1, <2>2, <3>1
          <5> QED
            BY <5>1
        <4> QED
          BY <2>5, <3>2, <4>1 DEF Fine
      <3> QED
        BY <2>2, <3>2, <3>3 DEF Fine, Settled
    <2> QED
      BY <2>3, <2>4, <2>5
  <1> QED
    BY <1>2, <1>3 DEF AttachThread

----------------------------------------------------------------------------
(* The steps.                                                              *)

\* What Continue() writes.
Wrote(q, h, n) ==
  /\ mirror' = q.mirror /\ handler' = [handler EXCEPT ![h] = q.handler]
  /\ used' \in [tasks : 0..MaxTasks, retries : Nat, faults : Nat, crashes : Nat, changes : Nat]
  /\ used'.tasks = (IF mentions(q.mirror, used.tasks + 1) THEN used.tasks + 1 ELSE used.tasks)
  /\ used'.faults = used.faults + q.faults + n

\* Continue() ends in one of its results.
LEMMA Continued ==
  ASSUME StarterTypeOK, NEW h \in Handlers, NEW ts, NEW n \in Nat, NEW results,
         Continue(h, results, n), \A q \in results : Fine(q, mirror, ts, h)
  PROVE  \E q \in results : Wrote(q, h, n)
  <1>1. PICK q \in results :
          /\ mirror' = q.mirror /\ handler' = [handler EXCEPT ![h] = q.handler]
          /\ used' = [used EXCEPT !.faults = @ + q.faults + n,
                                  !.tasks = IF mentions(q.mirror, @ + 1) THEN @ + 1 ELSE @]
    BY DEF Continue
  <1>2. Sound(q.mirror) /\ q.faults \in Nat
    BY DEF Fine, Good
  <1>3. \A t : mentions(q.mirror, t) => t \in TaskIds
    <2>1. /\ q.mirror.pending_action \in Pending \cup {None}
          /\ q.mirror.handled \in Seq(Claim)
      BY <1>2 DEF Sound, Mirror
    <2>2. \A i \in DOMAIN q.mirror.handled : q.mirror.handled[i] \in Claim
      BY <2>1, ElementOfSeq, LenProperties
    <2> QED
      BY <2>1, <2>2 DEF mentions, matching_pending, Pending, Claim
  <1>4. PICK a : a = IF mentions(q.mirror, used.tasks + 1) THEN used.tasks + 1 ELSE used.tasks
    OBVIOUS
  <1>5. a \in 0..MaxTasks /\ used.tasks \in 0..MaxTasks /\ used.faults + q.faults + n \in Nat
    BY <1>2, <1>3, <1>4 DEF StarterTypeOK, TaskIds
  <1>6. used' = [used EXCEPT !.faults = used.faults + q.faults + n, !.tasks = a]
    BY <1>1, <1>4
  <1> QED
    BY <1>1, <1>4, <1>5, <1>6 DEF StarterTypeOK, Wrote

\* A step of one handler keeps the invariant, if what it ends in is fine, it goes on with its
\* own task or one that is newly drawn, and no reservation is left behind.
LEMMA HandlerStep ==
  ASSUME StarterInv, NEW h \in Handlers, handler[h].at # "idle",
         NEW ts \in [TaskIds -> Task], tasks' = ts, \A t \in TaskIds : t > used.tasks => ts[t].state = "absent",
         OneTaskRuns', Roomy => OneTaskPerInteraction',
         claims' \in [Triggers -> TaskIds \cup {None}], phase' = phase,
         NEW n \in Nat, NEW results, Continue(h, results, n),
         \A q \in results :
           /\ Fine(q, mirror, ts, h)
           /\ \/ q.handler = Idle
              \/ /\ q.handler.early = handler[h].early
                 /\ \/ /\ Starts(handler[h]) /\ q.handler.task = handler[h].task
                       /\ q.handler.trigger = handler[h].trigger
                    \/ /\ matching_pending(q.mirror, used.tasks + 1)
                       /\ q.handler.task = used.tasks + 1 /\ ~Known(mirror, q.handler.trigger)
           /\ \/ q.mirror.pending_action \in {None, mirror.pending_action}
              \/ matching_pending(q.mirror, used.tasks + 1)
           /\ q.faults = 0 /\ n = 0 /\ q.mirror.pending_action # None =>
              \/ q.handler.task = q.mirror.pending_action.task
              \/ /\ q.mirror.pending_action = mirror.pending_action
                 /\ handler[h].task # mirror.pending_action.task
  PROVE  StarterInv'
  <1>0. /\ StarterTypeOK /\ Distinct /\ Drawn /\ EarlyOnes /\ ReservationHasOwner
        /\ \A k \in Handlers : Starts(handler[k]) => Owed(mirror, tasks, handler[k])
        /\ handler \in [Handlers -> Handler] /\ used.tasks \in 0..MaxTasks /\ used.faults \in Nat
        /\ MaxTasks \in Nat
    BY StarterAssumption DEF StarterInv, StarterTypeOK
  <1>1. PICK q \in results :
           /\ mirror' = q.mirror /\ handler' = [handler EXCEPT ![h] = q.handler]
           /\ used' \in [tasks : 0..MaxTasks, retries : Nat, faults : Nat, crashes : Nat,
                         changes : Nat]
           /\ used'.tasks = (IF mentions(q.mirror, used.tasks + 1) THEN used.tasks + 1
                             ELSE used.tasks)
           /\ used'.faults = used.faults + q.faults + n
    <2>1. \A r \in results : Fine(r, mirror, ts, h)
      OBVIOUS
    <2>2. \E q \in results : Wrote(q, h, n)
      BY <1>0, <2>1, Continued, Zenon
    <2> QED
      BY <2>2 DEF Wrote
  <1>2. Fine(q, mirror, ts, h)
    OBVIOUS
  <1>3. Idle \in Handler /\ Idle.at = "idle" /\ Idle.task = None
    BY DEF Idle, Handler
  <1>4. /\ q.handler \in Handler /\ Good(mirror', tasks', h)
        /\ q.handler.at # "idle" => q.handler.trigger # None /\ q.handler.card # None
        /\ Starts(q.handler) => Owed(mirror', tasks', q.handler)
        /\ q.handler # Idle => Starts(q.handler)
    BY <1>1, <1>2, <1>3 DEF Fine, Starts
  <1>5. /\ handler'[h] = q.handler /\ \A k \in Handlers : k # h => handler'[k] = handler[k]
        /\ handler' \in [Handlers -> Handler]
    BY <1>0, <1>1, <1>4
  <1>6. used.tasks <= used'.tasks /\ (matching_pending(q.mirror, used.tasks + 1) => used'.tasks = used.tasks + 1)
    BY <1>0, <1>1 DEF mentions
  <1>7. StarterTypeOK'
    <2>1. mirror' \in Mirror
      BY <1>4 DEF Good, Sound
    <2>2. \A k \in Handlers : /\ handler'[k].at # "idle" => handler'[k].trigger # None
                              /\ handler'[k].at # "idle" => handler'[k].card # None
      BY <1>0, <1>4, <1>5 DEF StarterTypeOK
    <2> QED
      BY <1>0, <1>1, <1>5, <2>1, <2>2 DEF StarterTypeOK
  <1>8. Sound(mirror)' /\ TasksKnown(mirror, tasks)'
    BY <1>4 DEF Good
  <1>9. \A k \in Handlers : Starts(handler'[k]) => Owed(mirror', tasks', handler'[k])
    BY <1>4, <1>5 DEF Good
  <1>10. Distinct'
    <2>1. ASSUME NEW k \in Handlers, k # h, Starts(handler[k]), Starts(q.handler)
          PROVE  /\ q.handler.task # handler[k].task
                 /\ Roomy => q.handler.trigger # handler[k].trigger
      <3>1. CASE /\ Starts(handler[h]) /\ q.handler.task = handler[h].task
                 /\ q.handler.trigger = handler[h].trigger
        BY <1>0, <2>1, <3>1 DEF Distinct
      <3>2. CASE q.handler.task = used.tasks + 1 /\ ~Known(mirror, q.handler.trigger)
        <4>1. handler[k].task # None /\ handler[k].task \in TaskIds /\ (Roomy => Known(mirror, handler[k].trigger))
          BY <1>0, <2>1, StarterAssumption DEF Owed, TaskIds
        <4>2. handler[k].task <= used.tasks /\ handler[k].task \in Nat
          BY <1>0, <4>1 DEF Drawn, TaskIds
        <4> QED
          BY <1>0, <3>2, <4>1, <4>2
      <3> QED
        BY <1>3, <2>1, <3>1, <3>2 DEF Starts
    <2>2. \A k, l \in Handlers : Starts(handler'[k]) /\ Starts(handler'[l]) /\ k # l =>
            /\ handler'[k].task # handler'[l].task
            /\ Roomy => handler'[k].trigger # handler'[l].trigger
      BY <1>0, <1>5, <2>1 DEF Distinct
    <2> QED
      BY <2>2 DEF Distinct
  <1>11. Drawn'
    <2>1. \A t \in TaskIds : t > used'.tasks => tasks'[t].state = "absent"
      BY <1>0, <1>1, <1>6 DEF TaskIds
    <2>2. mirror'.pending_action # None => mirror'.pending_action.task <= used'.tasks
      <3>1. CASE mirror'.pending_action = mirror.pending_action /\ mirror.pending_action # None
        <4>1. mirror.pending_action.task \in Nat
          BY <1>0, <3>1 DEF StarterTypeOK, Mirror, Pending, TaskIds
        <4> QED
          BY <1>0, <1>1, <1>6, <3>1, <4>1 DEF Drawn
      <3>2. CASE matching_pending(q.mirror, used.tasks + 1)
        BY <1>0, <1>1, <1>6, <3>2 DEF matching_pending
      <3> QED
        BY <1>1, <3>1, <3>2
    <2>3. ASSUME NEW k \in Handlers, handler'[k].task # None
          PROVE  Starts(handler'[k]) /\ handler'[k].task <= used'.tasks
      <3>1. CASE handler'[k].task = handler[k].task /\ Starts(handler'[k])
        <4>1. handler[k].task \in TaskIds
          BY <1>0, <2>3, <3>1 DEF Handler
        <4> QED
          BY <1>0, <1>1, <1>6, <2>3, <3>1, <4>1 DEF Drawn, TaskIds
      <3>2. CASE k # h
        BY <1>0, <1>5, <2>3, <3>1, <3>2 DEF Drawn
      <3>3. CASE k = h
        BY <1>0, <1>1, <1>3, <1>4, <1>5, <1>6, <2>3, <3>1, <3>3
      <3> QED
        BY <3>2, <3>3
    <2> QED
      BY <2>1, <2>2, <2>3 DEF Drawn
  <1>12. EarlyOnes'
    BY <1>0, <1>3, <1>4, <1>5 DEF EarlyOnes
  <1>13. ReservationHasOwner'
    <2> SUFFICES ASSUME used'.faults = 0, phase' = "reconciled", mirror'.pending_action # None
                 PROVE  \E k \in Handlers : handler'[k].task = mirror'.pending_action.task
      BY DEF ReservationHasOwner
    <2>1. q.faults = 0 /\ n = 0 /\ used.faults = 0
      BY <1>0, <1>1, <1>2 DEF Fine
    <2>2. CASE q.handler.task = mirror'.pending_action.task
      BY <1>5, <2>2
    <2>3. CASE /\ mirror'.pending_action = mirror.pending_action
               /\ handler[h].task # mirror.pending_action.task
      <3>1. PICK k \in Handlers : handler[k].task = mirror.pending_action.task
        BY <1>0, <2>1, <2>3 DEF ReservationHasOwner
      <3> QED
        BY <1>5, <2>3, <3>1
    <2> QED
      BY <1>1, <2>1, <2>2, <2>3
  <1> QED
    BY <1>7, <1>8, <1>9, <1>10, <1>11, <1>12, <1>13 DEF StarterInv

\* The tasks stay as they are.
LEMMA SameTasks ==
  ASSUME StarterInv, tasks' = tasks
  PROVE  /\ OneTaskRuns' /\ (Roomy => OneTaskPerInteraction')
         /\ \A t \in TaskIds : t > used.tasks => tasks[t].state = "absent"
         /\ tasks \in [TaskIds -> Task]
  <1>1. /\ OneTaskRuns /\ (Roomy => OneTaskPerInteraction) /\ Drawn /\ tasks \in [TaskIds -> Task]
    BY DEF StarterInv, StarterTypeOK
  <1> QED
    BY <1>1 DEF OneTaskRuns, OneTaskPerInteraction, Drawn, running

\* The handler at work, and what it is owed.
LEMMA AtWork ==
  ASSUME StarterInv, NEW h \in Handlers
  PROVE  /\ Good(mirror, tasks, h) /\ handler[h] \in Handler
         /\ handler[h].at # "idle" => handler[h].trigger # None /\ handler[h].card # None
         /\ Starts(handler[h]) =>
              /\ Owed(mirror, tasks, handler[h])
              /\ \A k \in Handlers : k # h /\ Starts(handler[k]) => handler[k].task # handler[h].task
         /\ ~Starts(handler[h]) => handler[h].task = None
  BY DEF StarterInv, StarterTypeOK, Good, Distinct, Drawn

LEMMA StartStep ==
  ASSUME StarterInv, NEW h \in Handlers, Start(h)
  PROVE  StarterInv'
  <1> DEFINE t == used.tasks + 1
             s == handler[h]
  <1>1. /\ s.at = "ack" /\ t \in TaskIds /\ Continue(h, StartTask(mirror, s, t), 0)
        /\ tasks' = tasks /\ claims' = claims /\ phase' = phase
        /\ StarterTypeOK /\ Drawn
    BY StarterAssumption DEF Start, StarterInv, StarterTypeOK, TaskIds
  <1>2. /\ Good(mirror, tasks, h) /\ s \in Handler /\ s.trigger # None /\ s.card # None
        /\ s.task = None
    BY <1>1, AtWork DEF Starts
  <1>3. used.tasks \in Nat /\ t > used.tasks
    BY <1>1 DEF StarterTypeOK
  <1>4. tasks[t].state = "absent"
    BY <1>1, <1>3 DEF Drawn
  <1>5. ~matching_pending(mirror, t)
    BY <1>1, <1>3 DEF Drawn, matching_pending
  <1>6. \A k \in Handlers : Starts(handler[k]) => handler[k].task # t
    <2>1. \A k \in Handlers : Starts(handler[k]) => handler[k].task \in TaskIds
      BY AtWork DEF Owed
    <2>2. \A k \in Handlers : Starts(handler[k]) => handler[k].task # None
      BY <2>1, StarterAssumption DEF TaskIds
    <2> QED
      BY <1>1, <1>3, <2>1, <2>2 DEF Drawn, TaskIds
  <1> HIDE DEF t, s
  <1>7. ASSUME NEW q \in StartTask(mirror, s, t)
        PROVE  Fine(q, mirror, tasks, h) /\ Began(q, mirror, s, t)
    BY <1>1, <1>2, <1>4, <1>5, <1>6, <1>7, StartResults
  <1>8. ASSUME NEW q \in StartTask(mirror, s, t)
        PROVE  /\ Fine(q, mirror, tasks, h)
               /\ \/ q.handler = Idle
                  \/ /\ q.handler.early = s.early
                     /\ matching_pending(q.mirror, t)
                     /\ q.handler.task = t /\ ~Known(mirror, q.handler.trigger)
               /\ \/ q.mirror.pending_action \in {None, mirror.pending_action}
                  \/ matching_pending(q.mirror, t)
               /\ q.faults = 0 /\ q.mirror.pending_action # None =>
                  \/ q.handler.task = q.mirror.pending_action.task
                  \/ /\ q.mirror.pending_action = mirror.pending_action
                     /\ s.task # mirror.pending_action.task
    <2>1. Fine(q, mirror, tasks, h) /\ Began(q, mirror, s, t)
      BY <1>7
    <2>2. mirror.pending_action # None => mirror.pending_action.task # None
      <3>1. mirror.pending_action # None => mirror.pending_action.task \in TaskIds
        BY <1>1 DEF StarterTypeOK, Mirror, Pending
      <3> QED
        BY <3>1, StarterAssumption DEF TaskIds
    <2> QED
      BY <1>2, <2>1, <2>2 DEF Began, matching_pending
  <1>9. claims' \in [Triggers -> TaskIds \cup {None}]
    BY <1>1 DEF StarterTypeOK
  <1>10. handler[h].at # "idle"
    BY <1>1 DEF s
  <1>11. /\ OneTaskRuns' /\ (Roomy => OneTaskPerInteraction')
         /\ \A u \in TaskIds : u > used.tasks => tasks[u].state = "absent"
         /\ tasks \in [TaskIds -> Task]
    BY <1>1, SameTasks
  <1> QED
    BY <1>1, <1>8, <1>9, <1>10, <1>11, HandlerStep DEF s, t

LEMMA ThreadResolvedStep ==
  ASSUME StarterInv, NEW h \in Handlers, ThreadResolved(h)
  PROVE  StarterInv'
  <1> DEFINE s == handler[h]
  <1>1. /\ s.at = "thread" /\ Continue(h, AttachThread(mirror, s), 0)
        /\ tasks' = tasks /\ claims' = claims /\ phase' = phase /\ StarterTypeOK
    BY DEF ThreadResolved, StarterInv
  <1>2. /\ Good(mirror, tasks, h) /\ s \in Handler /\ s.trigger # None /\ s.card # None
        /\ Starts(s) /\ Owed(mirror, tasks, s)
        /\ \A k \in Handlers : k # h /\ Starts(handler[k]) => handler[k].task # s.task
    BY <1>1, AtWork DEF Starts
  <1> HIDE DEF s
  <1>3. ASSUME NEW q \in AttachThread(mirror, s)
        PROVE  /\ Fine(q, mirror, tasks, h)
               /\ \/ q.handler = Idle
                  \/ /\ q.handler.early = s.early
                     /\ Starts(s) /\ q.handler.task = s.task
                     /\ q.handler.trigger = s.trigger
               /\ q.mirror.pending_action \in {None, mirror.pending_action}
               /\ q.faults = 0 /\ q.mirror.pending_action # None =>
                  \/ q.handler.task = q.mirror.pending_action.task
                  \/ /\ q.mirror.pending_action = mirror.pending_action
                     /\ s.task # mirror.pending_action.task
    <2>1. /\ Fine(q, mirror, tasks, h)
          /\ \/ Settled(q, mirror, s.task) /\ q.handler = Idle
             \/ /\ q.mirror.pending_action = mirror.pending_action
                /\ q.handler.task = s.task /\ q.handler.trigger = s.trigger
                /\ q.handler.early = s.early
      BY <1>1, <1>2, <1>3, AttachResults
    <2> QED
      BY <1>2, <2>1 DEF Settled, matching_pending
  <1>4. claims' \in [Triggers -> TaskIds \cup {None}]
    BY <1>1 DEF StarterTypeOK
  <1>5. handler[h].at # "idle"
    BY <1>1 DEF s
  <1>6. /\ OneTaskRuns' /\ (Roomy => OneTaskPerInteraction')
        /\ \A u \in TaskIds : u > used.tasks => tasks[u].state = "absent"
        /\ tasks \in [TaskIds -> Task]
    BY <1>1, SameTasks
  <1> QED
    BY <1>1, <1>3, <1>4, <1>5, <1>6, HandlerStep DEF s

\* _settle_failed_start() ends a handler's start.
LEMMA SettleStep ==
  ASSUME StarterInv, NEW h \in Handlers, Starts(handler[h]),
         tasks' = tasks, claims' \in [Triggers -> TaskIds \cup {None}], phase' = phase,
         NEW n \in Nat, Continue(h, Settle(mirror, tasks, handler[h].task), n)
  PROVE  StarterInv'
  <1> DEFINE s == handler[h]
  <1>1. /\ Good(mirror, tasks, h)
        /\ \A k \in Handlers : k # h /\ Starts(handler[k]) => handler[k].task # s.task
    BY AtWork
  <1> HIDE DEF s
  <1>2. ASSUME NEW q \in Settle(mirror, tasks, s.task)
        PROVE  /\ Fine(q, mirror, tasks, h)
               /\ q.handler = Idle
               /\ q.mirror.pending_action \in {None, mirror.pending_action}
               /\ q.faults = 0 /\ q.mirror.pending_action # None =>
                  /\ q.mirror.pending_action = mirror.pending_action
                  /\ s.task # mirror.pending_action.task
    <2>1. Fine(q, mirror, tasks, h) /\ Settled(q, mirror, s.task) /\ q.handler = Idle
      BY <1>1, <1>2, FinishResults DEF Settle
    <2> QED
      BY <2>1 DEF Settled, matching_pending
  <1>3. handler[h].at # "idle"
    BY DEF Starts
  <1>4. /\ OneTaskRuns' /\ (Roomy => OneTaskPerInteraction')
        /\ \A u \in TaskIds : u > used.tasks => tasks[u].state = "absent"
        /\ tasks \in [TaskIds -> Task]
    BY SameTasks
  <1> QED
    BY <1>2, <1>3, <1>4, HandlerStep DEF s

LEMMA StartFailsStep ==
  ASSUME StarterInv, NEW h \in Handlers, StartFails(h)
  PROVE  StarterInv'
  <1>1. /\ Starts(handler[h]) /\ Continue(h, Settle(mirror, tasks, handler[h].task), 0)
        /\ tasks' = tasks /\ claims' = claims /\ phase' = phase /\ StarterTypeOK
    BY DEF StartFails, Starts, StarterInv
  <1>2. claims' \in [Triggers -> TaskIds \cup {None}]
    BY <1>1 DEF StarterTypeOK
  <1> QED
    BY <1>1, <1>2, SettleStep

\* DiscordTaskService.start() stores a handler's task.
Started(s) ==
  [tasks EXCEPT ![s.task] = [state |-> "active", trigger |-> s.trigger, thread |-> s.thread,
                             early |-> s.early, retried |-> FALSE]]

LEMMA GoodStarted ==
  ASSUME StarterInv, NEW h \in Handlers, handler[h].at = "context",
         channel_free(handler[h].thread),
         NEW new, new = Started(handler[h])
  PROVE  /\ new \in [TaskIds -> Task] /\ Good(mirror, new, h)
         /\ stored(new, handler[h].task)
         /\ \A t \in TaskIds : t > used.tasks => new[t].state = "absent"
         /\ tasks' = new => OneTaskRuns' /\ (Roomy => OneTaskPerInteraction')
  <1> DEFINE s == handler[h]
             started == [state |-> "active", trigger |-> s.trigger, thread |-> s.thread,
                         early |-> s.early, retried |-> FALSE]
  <1>1. /\ Good(mirror, tasks, h) /\ s \in Handler /\ s.trigger # None
        /\ Starts(s) /\ Owed(mirror, tasks, s)
        /\ \A k \in Handlers : k # h /\ Starts(handler[k]) => handler[k].task # s.task
        /\ s.at = "context"
    BY AtWork DEF Starts
  <1>2. /\ tasks \in [TaskIds -> Task] /\ Drawn /\ OneTaskRuns /\ (Roomy => OneTaskPerInteraction)
        /\ \A k \in Handlers : k # h /\ Starts(handler[k]) => (Roomy => handler[k].trigger # s.trigger)
        /\ \A k \in Handlers : k # h /\ Starts(handler[k]) => Owed(mirror, tasks, handler[k])
    BY <1>1 DEF StarterInv, StarterTypeOK, Distinct, Good
  <1>3. s.task \in TaskIds /\ s.task # None /\ s.thread = mirror.thread /\ mirror.thread # None
    BY <1>1, StarterAssumption DEF Owed, TaskIds
  <1>4. started \in Task
    BY <1>1 DEF Task, Handler
  <1>5. /\ new \in [TaskIds -> Task] /\ new[s.task] = started
        /\ \A t \in TaskIds : t # s.task => new[t] = tasks[t]
    BY <1>2, <1>3, <1>4 DEF Started
  <1>6. \A t \in TaskIds : ~running(tasks, t)
    <2>1. TasksKnown(mirror, tasks)
      BY <1>1 DEF Good
    <2>2. \A t \in TaskIds : running(tasks, t) => tasks[t].thread = mirror.thread
      BY <2>1 DEF TasksKnown, running
    <2>3. channel_free(s.thread)
      OBVIOUS
    <2> QED
      BY <1>3, <2>2, <2>3 DEF channel_free
  <1> HIDE DEF s
  <1>7. /\ new[s.task].state = "active" /\ new[s.task].trigger = s.trigger
        /\ new[s.task].thread = s.thread /\ new[s.task].early = s.early
    BY <1>5
  <1> HIDE DEF started
  <1>8. stored(new, s.task)
    BY <1>3, <1>7 DEF stored
  <1>9. TasksKnown(mirror, new)
    <2>1. TasksKnown(mirror, tasks)
      BY <1>1 DEF Good
    <2>2. \A t \in TaskIds : t # s.task => (running(new, t) <=> running(tasks, t))
      BY <1>5 DEF running
    <2>3. ASSUME NEW t \in TaskIds, t # s.task
          PROVE  /\ new[t].state # "absent" => new[t].thread = mirror.thread /\ mirror.thread # None
                 /\ new[t].state = "absent" => new[t].trigger = None
                 /\ running(new, t) /\ ~new[t].early /\ ~new[t].retried =>
                      mirror.active = t \/ matching_pending(mirror, t)
                 /\ Roomy /\ new[t].trigger # None => Known(mirror, new[t].trigger)
      BY <1>5, <2>1, <2>2, <2>3 DEF TasksKnown
    <2>4. ~s.early => matching_pending(mirror, s.task)
      BY <1>1 DEF Owed
    <2>5. Roomy => Known(mirror, s.trigger)
      BY <1>1 DEF Owed
    <2> QED
      BY <1>3, <1>7, <2>3, <2>4, <2>5 DEF TasksKnown
  <1>10. ASSUME NEW k \in Handlers, k # h, Starts(handler[k])
         PROVE  Owed(mirror, new, handler[k])
    <2>1. Owed(mirror, tasks, handler[k]) /\ handler[k].task # s.task
      BY <1>1, <1>2, <1>10
    <2>2. new[handler[k].task].state = "absent"
      BY <1>5, <2>1 DEF Owed
    <2>3. Roomy => \A t \in TaskIds : new[t].trigger # handler[k].trigger
      BY <1>2, <1>5, <1>7, <1>10, <2>1 DEF Owed
    <2> QED
      BY <2>1, <2>2, <2>3, OwedKept DEF Owed
  <1>11. \A t \in TaskIds : t > used.tasks => new[t].state = "absent"
    <2>1. s.task <= used.tasks
      BY <1>2, <1>3 DEF Drawn, s
    <2>2. used.tasks \in Nat
      BY StarterAssumption DEF StarterInv, StarterTypeOK
    <2>3. \A t \in TaskIds : t > used.tasks => t # s.task /\ tasks[t].state = "absent"
      BY <1>2, <1>3, <2>1, <2>2 DEF Drawn, TaskIds
    <2> QED
      BY <1>5, <2>3
  <1>12. ASSUME tasks' = new
         PROVE  OneTaskRuns'
    <2>1. \A t \in TaskIds : running(new, t) => t = s.task
      BY <1>5, <1>6 DEF running
    <2>2. \A t \in TaskIds : running(tasks, t)' => t = s.task
      BY <1>12, <2>1 DEF running
    <2> QED
      BY <2>2 DEF OneTaskRuns
  <1>13. ASSUME tasks' = new, Roomy
         PROVE  OneTaskPerInteraction'
    <2>1. \A t \in TaskIds : tasks[t].trigger # s.trigger
      BY <1>1, <1>13 DEF Owed
    <2>2. \A t, u \in TaskIds : new[t].trigger # None /\ new[t].trigger = new[u].trigger => t = u
      BY <1>2, <1>5, <1>7, <1>13, <2>1 DEF OneTaskPerInteraction
    <2> QED
      BY <1>13, <2>2 DEF OneTaskPerInteraction
  <1> QED
    BY <1>1, <1>5, <1>8, <1>9, <1>10, <1>11, <1>12, <1>13 DEF Good, s

\* The results of finish() once the task t is created.
Created(m, ts, t) ==
  IF matching_pending(m, t)
  THEN Committed(m, finished(m, t, TRUE), Ends, LAMBDA n : Settle(n, ts, t)) ELSE Ends(m)

\* Whatever finish() ends in has this form.
LEMMA FinishForm ==
  ASSUME NEW m, NEW t, NEW ok, NEW q \in Finish(m, t, ok)
  PROVE  q = [mirror |-> q.mirror, handler |-> Idle, faults |-> q.faults]
  <1> DEFINE n == finished(m, t, ok)
  <1>1. q \in Ends(m) \/ q \in Write(m, n)
    BY DEF Finish
  <1> HIDE DEF n
  <1>2. \/ \E x \in {m, n} : q = [mirror |-> x, handler |-> Idle, faults |-> 0]
        \/ \E x \in {m, n} : q = [mirror |-> x, handler |-> Idle, faults |-> 1]
    BY <1>1, StarterAssumption DEF Write, Committed, Ends, Result, Faulty
  <1> QED
    BY <1>2

LEMMA CreatedResults ==
  ASSUME NEW m, NEW h, NEW ts, Good(m, ts, h), NEW t, stored(ts, t),
         NEW q \in Settle(m, ts, t) \cup Created(m, ts, t)
  PROVE  /\ Fine(q, m, ts, h) /\ q.handler = Idle
         /\ q.mirror.pending_action \in {None, m.pending_action}
         /\ q.faults = 0 /\ q.mirror.pending_action # None => t # m.pending_action.task
  <1>0. \/ stored(ts, t)
        \/ \A k \in Handlers : k # h /\ Starts(handler[k]) /\ ~handler[k].early => handler[k].task # t
    OBVIOUS
  <1>1. CASE q \in Settle(m, ts, t)
    <2>1. Fine(q, m, ts, h) /\ Settled(q, m, t) /\ q.handler = Idle
      BY <1>1, FinishResults DEF Settle
    <2> QED
      BY <2>1 DEF Settled, matching_pending
  <1>2. CASE q \in Ends(m) /\ ~matching_pending(m, t)
    BY <1>2 DEF Ends, Result, Fine, matching_pending
  <1>3. CASE /\ matching_pending(m, t)
             /\ q \in Committed(m, finished(m, t, TRUE), Ends, LAMBDA n : Settle(n, ts, t))
    <2>1. PICK n : n = finished(m, t, stored(ts, t))
      OBVIOUS
    <2>2. stored(ts, t) = TRUE
      BY DEF stored
    <2>3. n = finished(m, t, TRUE)
      BY <2>1, <2>2
    <2>4. /\ Good(n, ts, h) /\ n.pending_action = None /\ n # m
          /\ Roomy => \A i : Known(m, i) => Known(n, i)
      <3>1. matching_pending(m, t) /\ n = finished(m, t, stored(ts, t))
        BY <1>3, <2>1
      <3>2. Good(n, ts, h)
        BY <1>0, <3>1, GoodFinished
      <3>3. n.pending_action = None
        <4>1. m \in Mirror
          BY DEF Good, Sound
        <4> QED
          BY <2>3, <4>1 DEF finished, updated_record, Mirror
      <3>4. n # m
        BY <1>0, <3>1, GoodFinished
      <3>5. Roomy => \A i : Known(m, i) => Known(n, i)
        BY <1>0, <3>1, GoodFinished
      <3> QED
        BY <3>2, <3>3, <3>4, <3>5
    <2>5. \/ q \in Ends(n)
          \/ \E y \in Settle(m, ts, t) \cup Settle(n, ts, t) : q = [y EXCEPT !.faults = @ + 1]
      <3>1. q \in Committed(m, n, Ends, LAMBDA x : Settle(x, ts, t))
        BY <1>3, <2>3
      <3> QED
        BY <2>4, <3>1, StarterAssumption DEF Committed, Faulty
    <2>6. CASE q \in Ends(n)
      BY <2>4, <2>6 DEF Ends, Result, Fine
    <2>7. ASSUME NEW y \in Settle(m, ts, t) \cup Settle(n, ts, t), q = [y EXCEPT !.faults = @ + 1]
          PROVE  /\ Fine(q, m, ts, h) /\ q.handler = Idle /\ q.faults # 0
                 /\ q.mirror.pending_action \in {None, m.pending_action}
      <3>1. PICK x \in {m, n} : y \in Settle(x, ts, t)
        BY <2>7
      <3>2. /\ Fine(y, x, ts, h) /\ Settled(y, x, t)
            /\ y = [mirror |-> y.mirror, handler |-> Idle, faults |-> y.faults]
        <4>1. y \in Finish(x, t, stored(ts, t)) /\ Good(x, ts, h)
          BY <2>4, <3>1 DEF Settle
        <4>2. Fine(y, x, ts, h)
          BY <1>0, <4>1, FinishResults
        <4>3. Settled(y, x, t)
          BY <1>0, <4>1, FinishResults
        <4>4. y = [mirror |-> y.mirror, handler |-> Idle, faults |-> y.faults]
          BY <4>1, FinishForm
        <4> QED
          BY <4>2, <4>3, <4>4
      <3>3. y.faults \in Nat
        BY <3>2 DEF Fine
      <3>4. q.mirror = y.mirror /\ q.handler = Idle /\ q.faults = y.faults + 1
        BY <2>7, <3>2
      <3> QED
        BY <2>4, <3>2, <3>3, <3>4 DEF Fine, Settled
    <2> QED
      BY <2>5, <2>6, <2>7
  <1> QED
    BY <1>1, <1>2, <1>3 DEF Created

LEMMA ContextResolvedStep ==
  ASSUME StarterInv, NEW h \in Handlers, ContextResolved(h)
  PROVE  StarterInv'
  <1> DEFINE s == handler[h]
             new == Started(s)
  <1>1. /\ s.at = "context" /\ phase' = phase /\ StarterTypeOK
        /\ \/ /\ Continue(h, Settle(mirror, tasks, s.task), 0)
              /\ tasks' = tasks /\ claims' = claims
           \/ /\ channel_free(s.thread)
              /\ \E o \in WriteOutcomes :
                   /\ tasks' = IF o = "failed" THEN tasks ELSE new
                   /\ claims' = IF o = "ok" THEN [claims EXCEPT ![s.trigger] = s.task] ELSE claims
                   /\ IF o = "ok"
                      THEN Continue(h, IF matching_pending(mirror, s.task)
                                       THEN Committed(mirror, finished(mirror, s.task, TRUE), Ends,
                                                      LAMBDA m : Settle(m, new, s.task))
                                       ELSE Ends(mirror), 0)
                      ELSE Continue(h, Settle(mirror, tasks', s.task), 1)
    BY DEF ContextResolved, StarterInv, Started
  <1>2. /\ Good(mirror, tasks, h) /\ s \in Handler /\ s.trigger \in Triggers
        /\ Starts(s) /\ Owed(mirror, tasks, s) /\ s.task \in TaskIds
        /\ \A k \in Handlers : k # h /\ Starts(handler[k]) => handler[k].task # s.task
    BY <1>1, AtWork DEF Starts, Owed, Handler
  <1>3. claims' \in [Triggers -> TaskIds \cup {None}]
    BY <1>1, <1>2 DEF StarterTypeOK
  <1>4. CASE Continue(h, Settle(mirror, tasks, s.task), 0) /\ tasks' = tasks
    BY <1>1, <1>2, <1>3, <1>4, SettleStep
  <1>5. CASE Continue(h, Settle(mirror, tasks, s.task), 1) /\ tasks' = tasks
    BY <1>1, <1>2, <1>3, <1>5, SettleStep
  <1>6. ASSUME NEW us, us = new, channel_free(s.thread), tasks' = us, NEW results, NEW n \in Nat,
               Continue(h, results, n),
               \/ n # 0 /\ results = Settle(mirror, us, s.task)
               \/ results = IF matching_pending(mirror, s.task)
                            THEN Committed(mirror, finished(mirror, s.task, TRUE), Ends,
                                           LAMBDA m : Settle(m, us, s.task))
                            ELSE Ends(mirror)
        PROVE  StarterInv'
    <2>1. /\ us \in [TaskIds -> Task] /\ Good(mirror, us, h)
          /\ stored(us, s.task)
          /\ \A t \in TaskIds : t > used.tasks => us[t].state = "absent"
          /\ OneTaskRuns' /\ (Roomy => OneTaskPerInteraction')
      BY <1>1, <1>6, GoodStarted
    <2>0. \A k \in Handlers : k # h /\ Starts(handler[k]) /\ ~handler[k].early =>
            handler[k].task # s.task
      BY <1>2
    <2> HIDE DEF s, new
    <2>2. ASSUME NEW q \in results
          PROVE  /\ Fine(q, mirror, us, h) /\ q.handler = Idle
                 /\ q.mirror.pending_action \in {None, mirror.pending_action}
                 /\ q.faults = 0 /\ n = 0 /\ q.mirror.pending_action # None =>
                    s.task # mirror.pending_action.task
      <3>1. \/ n # 0 /\ q \in Settle(mirror, us, s.task)
            \/ q \in Created(mirror, us, s.task)
        BY <1>6 DEF Created
      <3> QED
        BY <2>1, <3>1, CreatedResults
    <2>3. s.task # mirror.pending_action.task => handler[h].task # mirror.pending_action.task
      BY DEF s
    <2>4. handler[h].at # "idle"
      BY <1>1 DEF s
    <2>5. \A q \in results :
           /\ Fine(q, mirror, us, h)
           /\ \/ q.handler = Idle
              \/ /\ q.handler.early = handler[h].early
                 /\ \/ /\ Starts(handler[h]) /\ q.handler.task = handler[h].task
                       /\ q.handler.trigger = handler[h].trigger
                    \/ /\ matching_pending(q.mirror, used.tasks + 1)
                       /\ q.handler.task = used.tasks + 1 /\ ~Known(mirror, q.handler.trigger)
           /\ \/ q.mirror.pending_action \in {None, mirror.pending_action}
              \/ matching_pending(q.mirror, used.tasks + 1)
           /\ q.faults = 0 /\ n = 0 /\ q.mirror.pending_action # None =>
              \/ q.handler.task = q.mirror.pending_action.task
              \/ /\ q.mirror.pending_action = mirror.pending_action
                 /\ handler[h].task # mirror.pending_action.task
      BY <2>2, <2>3
    <2> QED
      BY <1>1, <1>3, <1>6, <2>1, <2>4, <2>5, HandlerStep
  <1>7. ASSUME NEW o \in WriteOutcomes, channel_free(s.thread),
               tasks' = IF o = "failed" THEN tasks ELSE new,
               IF o = "ok"
               THEN Continue(h, IF matching_pending(mirror, s.task)
                                THEN Committed(mirror, finished(mirror, s.task, TRUE), Ends,
                                               LAMBDA m : Settle(m, new, s.task))
                                ELSE Ends(mirror), 0)
               ELSE Continue(h, Settle(mirror, tasks', s.task), 1)
        PROVE  StarterInv'
    <2>1. CASE o = "failed"
      BY <1>5, <1>7, <2>1
    <2> DEFINE done == IF matching_pending(mirror, s.task)
                       THEN Committed(mirror, finished(mirror, s.task, TRUE), Ends,
                                      LAMBDA m : Settle(m, new, s.task))
                       ELSE Ends(mirror)
    <2>2. CASE o = "ok"
      <3>1. Continue(h, done, 0) /\ tasks' = new
        BY <1>7, <2>2
      <3> HIDE DEF new, s
      <3>2. PICK us : us = new
        OBVIOUS
      <3>3. PICK results : results = done
        OBVIOUS
      <3> QED
        BY <1>6, <1>7, <3>1, <3>2, <3>3
    <2>3. CASE o = "unsynced"
      <3>1. tasks' = new /\ Continue(h, Settle(mirror, new, s.task), 1)
        BY <1>7, <2>3
      <3> QED
        <4> HIDE DEF new, s
        <4>1. PICK us : us = new
          OBVIOUS
        <4>2. PICK results : results = Settle(mirror, us, s.task)
          OBVIOUS
        <4> QED
          <5>1. 1 \in Nat /\ 1 # 0 /\ tasks' = us /\ Continue(h, results, 1)
            BY <3>1, <4>1, <4>2
          <5>2. channel_free(s.thread)
            BY <1>7
          <5> QED
            BY <1>6, <4>1, <4>2, <5>1, <5>2, Zenon
    <2> QED
      BY <1>7, <2>1, <2>2, <2>3, StarterAssumption
  <1> QED
    BY <1>1, <1>4, <1>7

\* An interaction begins: its handler owns nothing yet.
LEMMA PressStep ==
  ASSUME StarterInv, NEW h \in Handlers, NEW i \in Triggers, Press(h, i)
  PROVE  StarterInv'
  <1> DEFINE w == [Idle EXCEPT !.at = "ack", !.trigger = i, !.card = mirror.card,
                               !.active = mirror.active, !.early = phase # "reconciled"]
  <1>1. /\ handler[h].at = "idle" /\ mirror.card # None /\ handler' = [handler EXCEPT ![h] = w]
        /\ mirror' = mirror /\ tasks' = tasks /\ claims' = claims /\ phase' = phase /\ used' = used
    BY DEF Press
  <1>2. /\ StarterTypeOK /\ Sound(mirror) /\ TasksKnown(mirror, tasks)
        /\ \A k \in Handlers : Starts(handler[k]) => Owed(mirror, tasks, handler[k])
        /\ Distinct /\ Drawn /\ EarlyOnes /\ ReservationHasOwner
    BY DEF StarterInv
  <1>3. /\ w \in Handler /\ w.at = "ack" /\ w.trigger # None /\ w.card # None /\ w.task = None
        /\ w.early = (phase # "reconciled")
    <2>1. mirror.card \in Cards \cup {None} /\ mirror.active \in TaskIds \cup {None}
      BY <1>2 DEF StarterTypeOK, Mirror
    <2>2. i # None
      BY StarterAssumption
    <2> QED
      BY <1>1, <2>1, <2>2 DEF Idle, Handler
  <1> HIDE DEF w
  <1>4. /\ handler'[h] = w /\ \A k \in Handlers : k # h => handler'[k] = handler[k]
        /\ handler' \in [Handlers -> Handler] /\ ~Starts(w)
    BY <1>1, <1>2, <1>3 DEF StarterTypeOK, Starts
  <1>5. handler[h].task = None
    BY <1>1, <1>2 DEF Drawn, Starts
  <1>6. StarterTypeOK'
    BY <1>1, <1>2, <1>3, <1>4 DEF StarterTypeOK
  <1>7. Sound(mirror)' /\ TasksKnown(mirror, tasks)'
    BY <1>1, <1>2
  <1>8. \A k \in Handlers : Starts(handler'[k]) => Owed(mirror', tasks', handler'[k])
    BY <1>1, <1>2, <1>4
  <1>9. Distinct'
    <2>1. \A k, l \in Handlers : Starts(handler'[k]) /\ Starts(handler'[l]) /\ k # l =>
            /\ handler'[k].task # handler'[l].task
            /\ Roomy => handler'[k].trigger # handler'[l].trigger
      BY <1>2, <1>4 DEF Distinct
    <2> QED
      BY <2>1 DEF Distinct
  <1>10. Drawn'
    <2>1. \A k \in Handlers : handler'[k].task # None =>
            Starts(handler'[k]) /\ handler'[k].task <= used.tasks
      BY <1>2, <1>3, <1>4 DEF Drawn
    <2> QED
      BY <1>1, <1>2, <2>1 DEF Drawn
  <1>11. EarlyOnes'
    BY <1>1, <1>2, <1>3, <1>4 DEF EarlyOnes
  <1>12. ReservationHasOwner'
    <2> SUFFICES ASSUME used'.faults = 0, phase' = "reconciled", mirror'.pending_action # None
                 PROVE  \E k \in Handlers : handler'[k].task = mirror'.pending_action.task
      BY DEF ReservationHasOwner
    <2>1. PICK k \in Handlers : handler[k].task = mirror.pending_action.task
      BY <1>1, <1>2 DEF ReservationHasOwner
    <2>2. mirror.pending_action.task \in TaskIds /\ mirror.pending_action.task # None
      BY <1>1, <1>2, StarterAssumption DEF StarterTypeOK, Mirror, Pending, TaskIds
    <2> QED
      BY <1>1, <1>4, <1>5, <2>1, <2>2
  <1>13. OneTaskRuns' /\ (Roomy => OneTaskPerInteraction')
    BY <1>1, SameTasks
  <1> QED
    BY <1>6, <1>7, <1>8, <1>9, <1>10, <1>11, <1>12, <1>13 DEF StarterInv

\* A step of no handler keeps the invariant, if the record and the tasks stay good for all of
\* them, nothing is drawn or reserved, and startup ends with nothing reserved.
LEMMA QuietStep ==
  ASSUME StarterInv, NEW h, h \notin Handlers, NEW m, mirror' = m, NEW ts, tasks' = ts,
         Good(m, ts, h), ts \in [TaskIds -> Task],
         \A t \in TaskIds : tasks[t].state = "absent" => ts[t].state = "absent",
         m.pending_action \in {None, mirror.pending_action},
         claims' = claims, handler' = handler,
         phase' \in {"started", "tasks_reconciled", "reconciled"},
         phase' = "reconciled" /\ phase # "reconciled" =>
            m.pending_action = None \/ used'.faults # 0,
         phase = "reconciled" => phase' = "reconciled",
         used' \in [tasks : 0..MaxTasks, retries : Nat, faults : Nat, crashes : Nat, changes : Nat],
         used'.tasks = used.tasks, used'.faults = 0 => used.faults = 0,
         OneTaskRuns', Roomy => OneTaskPerInteraction'
  PROVE  StarterInv'
  <1>1. StarterTypeOK /\ Distinct /\ Drawn /\ EarlyOnes /\ ReservationHasOwner
    BY DEF StarterInv
  <1>2. StarterTypeOK'
    BY <1>1 DEF StarterTypeOK, Good, Sound
  <1>3. Sound(mirror)' /\ TasksKnown(mirror, tasks)'
    BY DEF Good
  <1>4. \A k \in Handlers : Starts(handler'[k]) => Owed(mirror', tasks', handler'[k])
    BY DEF Good
  <1>5. Distinct'
    BY <1>1 DEF Distinct
  <1>6. Drawn'
    BY <1>1 DEF Drawn
  <1>7. EarlyOnes'
    BY <1>1 DEF EarlyOnes
  <1>8. ReservationHasOwner'
    BY <1>1 DEF ReservationHasOwner
  <1> QED
    BY <1>2, <1>3, <1>4, <1>5, <1>6, <1>7, <1>8 DEF StarterInv

\* What the invariant says for somebody who is no handler.
LEMMA Nobody ==
  ASSUME StarterInv
  PROVE  \E h : h \notin Handlers /\ Good(mirror, tasks, h)
  <1>1. PICK h : h \notin Handlers
    BY NoSetContainsEverything
  <1> QED
    BY <1>1 DEF StarterInv, Good

\* A step of the tasks: what they were started with stays, and one that runs ran before or is
\* retried.
LEMMA TasksStep ==
  ASSUME StarterInv, NEW us \in [TaskIds -> Task], tasks' = us,
         \A t \in TaskIds :
           /\ us[t].thread = tasks[t].thread /\ us[t].trigger = tasks[t].trigger
           /\ us[t].early = tasks[t].early
           /\ us[t].state = "absent" <=> tasks[t].state = "absent"
           /\ us[t].state = "active" =>
                us[t].retried \/ (tasks[t].state = "active" /\ us[t].retried = tasks[t].retried),
         \A t, u \in TaskIds : us[t].state = "active" /\ us[u].state = "active" => t = u,
         mirror' = mirror, claims' = claims, handler' = handler,
         phase' = phase \/ (phase = "started" /\ phase' = "tasks_reconciled"),
         used' = [used EXCEPT !.retries = used'.retries], used'.retries \in Nat
  PROVE  StarterInv'
  <1>1. PICK h : h \notin Handlers /\ Good(mirror, tasks, h)
    BY Nobody
  <1>2. /\ Sound(mirror) /\ TasksKnown(mirror, tasks) /\ (Roomy => OneTaskPerInteraction)
        /\ \A k \in Handlers : k # h /\ Starts(handler[k]) => Owed(mirror, tasks, handler[k])
        /\ StarterTypeOK
    BY <1>1 DEF Good, StarterInv
  <1>3. TasksKnown(mirror, us)
    BY <1>2 DEF TasksKnown, running
  <1>4. \A k \in Handlers : k # h /\ Starts(handler[k]) => Owed(mirror, us, handler[k])
    BY <1>2 DEF Owed
  <1>5. Good(mirror, us, h)
    BY <1>2, <1>3, <1>4 DEF Good
  <1>6. OneTaskRuns'
    BY DEF OneTaskRuns, running
  <1>7. Roomy => OneTaskPerInteraction'
    BY <1>2 DEF OneTaskPerInteraction
  <1>8. /\ used' \in [tasks : 0..MaxTasks, retries : Nat, faults : Nat, crashes : Nat, changes : Nat]
        /\ used'.tasks = used.tasks /\ used'.faults = used.faults
    BY <1>2 DEF StarterTypeOK
  <1>9. PICK m : m = mirror
    OBVIOUS
  <1>10. /\ phase' \in {"started", "tasks_reconciled", "reconciled"}
         /\ phase' = "reconciled" => phase = "reconciled"
         /\ phase = "reconciled" => phase' = "reconciled"
    BY <1>2 DEF StarterTypeOK
  <1>11. /\ mirror' = m /\ Good(m, us, h) /\ m.pending_action \in {None, mirror.pending_action}
         /\ \A t \in TaskIds : tasks[t].state = "absent" => us[t].state = "absent"
    BY <1>5, <1>9
  <1> QED
    BY <1>1, <1>6, <1>7, <1>8, <1>10, <1>11, QuietStep

LEMMA TaskEndsStep ==
  ASSUME StarterInv, NEW t \in TaskIds, TaskEnds(t) \/ TaskForgotten(t)
  PROVE  StarterInv'
  <1>1. /\ StarterTypeOK /\ OneTaskRuns
        /\ mirror' = mirror /\ claims' = claims /\ handler' = handler /\ phase' = phase
        /\ used' = used
    BY DEF StarterInv, TaskEnds, TaskForgotten
  <1>2. PICK state \in {"ended", "forgotten"} :
          tasks' = [tasks EXCEPT ![t].state = state] /\ tasks[t].state \in {"active", "ended"}
    BY DEF TaskEnds, TaskForgotten, running
  <1>3. PICK us : us = [tasks EXCEPT ![t] = [tasks[t] EXCEPT !.state = state]]
    OBVIOUS
  <1>4. tasks \in [TaskIds -> Task] /\ [tasks[t] EXCEPT !.state = state] \in Task
    BY <1>1 DEF StarterTypeOK, Task
  <1>5. us \in [TaskIds -> Task] /\ tasks' = us
    BY <1>2, <1>3, <1>4
  <1>6. /\ us[t] = [tasks[t] EXCEPT !.state = state]
        /\ \A u \in TaskIds : u # t => us[u] = tasks[u]
    BY <1>3, <1>4
  <1>7. /\ us[t].state = state /\ us[t].thread = tasks[t].thread /\ us[t].trigger = tasks[t].trigger
        /\ us[t].early = tasks[t].early
    BY <1>4, <1>6 DEF Task
  <1>8. \A u \in TaskIds :
           /\ us[u].thread = tasks[u].thread /\ us[u].trigger = tasks[u].trigger
           /\ us[u].early = tasks[u].early
           /\ us[u].state = "absent" <=> tasks[u].state = "absent"
           /\ us[u].state = "active" =>
                us[u].retried \/ (tasks[u].state = "active" /\ us[u].retried = tasks[u].retried)
    BY <1>2, <1>6, <1>7
  <1>9. \A u, v \in TaskIds : us[u].state = "active" /\ us[v].state = "active" => u = v
    <2>1. \A u \in TaskIds : u # None
      BY StarterAssumption DEF TaskIds
    <2>2. us[t].state # "active"
      BY <1>2, <1>7
    <2>3. \A u \in TaskIds : us[u].state = "active" => tasks[u].state = "active"
      BY <1>6, <2>2
    <2>4. \A u, v \in TaskIds : tasks[u].state = "active" /\ tasks[v].state = "active" => u = v
      BY <1>1, <2>1 DEF OneTaskRuns, running
    <2> QED
      BY <2>3, <2>4
  <1>10. used' = [used EXCEPT !.retries = used'.retries] /\ used'.retries \in Nat
    BY <1>1 DEF StarterTypeOK
  <1> QED
    BY <1>1, <1>5, <1>8, <1>9, <1>10, TasksStep

\* A retry needs the channel: no other task of the item's thread runs.
LEMMA TaskRetriedStep ==
  ASSUME StarterInv, NEW t \in TaskIds, TaskRetried(t)
  PROVE  StarterInv'
  <1>1. /\ StarterTypeOK /\ TasksKnown(mirror, tasks)
        /\ mirror' = mirror /\ claims' = claims /\ handler' = handler /\ phase' = phase
        /\ tasks[t].state = "ended" /\ channel_free(tasks[t].thread)
        /\ used' = [used EXCEPT !.retries = used.retries + 1]
        /\ tasks' = [tasks EXCEPT ![t].state = "active", ![t].retried = TRUE]
    BY DEF StarterInv, TaskRetried
  <1> DEFINE again == [tasks[t] EXCEPT !.state = "active", !.retried = TRUE]
  <1>2. tasks \in [TaskIds -> Task] /\ again \in Task
    BY <1>1 DEF StarterTypeOK, Task
  <1>3. PICK us : us = [tasks EXCEPT ![t] = again]
    OBVIOUS
  <1>4. us \in [TaskIds -> Task] /\ tasks' = us
    BY <1>1, <1>2, <1>3
  <1>5. us[t] = again /\ \A u \in TaskIds : u # t => us[u] = tasks[u]
    BY <1>2, <1>3
  <1>6. /\ us[t].state = "active" /\ us[t].thread = tasks[t].thread /\ us[t].trigger = tasks[t].trigger
        /\ us[t].early = tasks[t].early /\ us[t].retried
    BY <1>2, <1>5 DEF Task
  <1>7. \A u \in TaskIds :
           /\ us[u].thread = tasks[u].thread /\ us[u].trigger = tasks[u].trigger
           /\ us[u].early = tasks[u].early
           /\ us[u].state = "absent" <=> tasks[u].state = "absent"
           /\ us[u].state = "active" =>
                us[u].retried \/ (tasks[u].state = "active" /\ us[u].retried = tasks[u].retried)
    BY <1>1, <1>5, <1>6
  <1>8. \A u, v \in TaskIds : us[u].state = "active" /\ us[v].state = "active" => u = v
    <2>1. \A u \in TaskIds : u # None
      BY StarterAssumption DEF TaskIds
    <2>2. \A u \in TaskIds : tasks[u].state = "active" => tasks[u].thread = tasks[t].thread
      BY <1>1 DEF TasksKnown
    <2>3. \A u \in TaskIds : tasks[u].state # "active"
      BY <1>1, <2>1, <2>2 DEF channel_free, running
    <2> QED
      BY <1>5, <2>3
  <1>9. used' = [used EXCEPT !.retries = used'.retries] /\ used'.retries \in Nat
    BY <1>1 DEF StarterTypeOK
  <1> QED
    BY <1>1, <1>4, <1>7, <1>8, <1>9, TasksStep

LEMMA TasksReconciledStep ==
  ASSUME StarterInv, TasksReconciled
  PROVE  StarterInv'
  <1>1. /\ StarterTypeOK
        /\ mirror' = mirror /\ claims' = claims /\ handler' = handler /\ used' = used
        /\ phase = "started" /\ phase' = "tasks_reconciled"
        /\ tasks' = [t \in TaskIds |-> IF running(tasks, t) THEN [tasks[t] EXCEPT !.state = "ended"]
                                       ELSE tasks[t]]
    BY DEF StarterInv, TasksReconciled
  <1>2. tasks \in [TaskIds -> Task] /\ \A t \in TaskIds : t # None
    BY <1>1, StarterAssumption DEF StarterTypeOK, TaskIds
  <1>3. PICK us : us = [t \in TaskIds |-> IF running(tasks, t) THEN [tasks[t] EXCEPT !.state = "ended"]
                                          ELSE tasks[t]]
    OBVIOUS
  <1>4. ASSUME NEW t \in TaskIds
        PROVE  /\ us[t] \in Task
               /\ us[t].thread = tasks[t].thread /\ us[t].trigger = tasks[t].trigger
               /\ us[t].early = tasks[t].early
               /\ us[t].state = "absent" <=> tasks[t].state = "absent"
               /\ us[t].state # "active"
    <2>1. CASE running(tasks, t)
      <3>1. us[t] = [tasks[t] EXCEPT !.state = "ended"] /\ tasks[t] \in Task
        BY <1>2, <1>3, <2>1
      <3> QED
        BY <2>1, <3>1 DEF Task, running
    <2>2. CASE ~running(tasks, t)
      BY <1>2, <1>3, <2>2 DEF running
    <2> QED
      BY <2>1, <2>2
  <1>5. us \in [TaskIds -> Task] /\ tasks' = us
    BY <1>1, <1>3, <1>4
  <1>6. used' = [used EXCEPT !.retries = used'.retries] /\ used'.retries \in Nat
    BY <1>1 DEF StarterTypeOK
  <1> QED
    BY <1>1, <1>4, <1>5, <1>6, TasksStep

\* A redelivered event changes nothing, and the others leave the task of the item alone.
LEMMA GoodUpserted ==
  ASSUME NEW m, NEW ts, NEW h, Good(m, ts, h), NEW e \in Events,
         NEW n, n = upsert_existing(m, e)
  PROVE  Good(n, ts, h) /\ n.pending_action = m.pending_action
  <1>1. m \in Mirror /\ constructible(m) /\ Sound(m)
    BY DEF Good, Sound
  <1>2. CASE n = m
    BY <1>2
  <1>3. CASE e.delivery \notin ToSet(m.deliveries) /\ n = update_from_event(m, e)
    <2> DEFINE all == Append(m.deliveries, e.delivery)
               kept == last(all, MAX_RECENT_DELIVERIES)
    <2>1. /\ m.deliveries \in Seq(Deliveries) /\ e.delivery \in Deliveries
          /\ Len(m.deliveries) \in Nat /\ DOMAIN m.deliveries = 1..Len(m.deliveries)
          /\ MAX_RECENT_DELIVERIES \in Nat
      BY <1>1, LenProperties, EventsAssumption DEF Mirror, Deliveries
    <2>2. /\ all \in Seq(Deliveries) /\ DOMAIN all = 1..(Len(m.deliveries) + 1)
          /\ \A k \in 1..Len(m.deliveries) : all[k] = m.deliveries[k]
          /\ all[Len(m.deliveries) + 1] = e.delivery
      BY <2>1, AppendProperties, LenProperties
    <2>3. \A k, l \in DOMAIN all : all[k] = all[l] => k = l
      <3>1. \A k, l \in DOMAIN m.deliveries : m.deliveries[k] = m.deliveries[l] => k = l
        BY <1>1 DEF constructible, IsInjective
      <3>2. \A k \in DOMAIN m.deliveries : m.deliveries[k] # e.delivery
        BY <1>3 DEF ToSet
      <3>3. \A k \in DOMAIN all : k \in DOMAIN m.deliveries \/ k = Len(m.deliveries) + 1
        BY <2>1, <2>2
      <3> QED
        BY <2>1, <2>2, <3>1, <3>2, <3>3
    <2> HIDE DEF all
    <2>4. /\ kept \in Seq(Deliveries) /\ Len(kept) <= MAX_RECENT_DELIVERIES
      BY <2>1, <2>2, LastElements, Zenon
    <2>5. \E d \in Nat : \A i \in DOMAIN kept : i + d \in DOMAIN all /\ kept[i] = all[i + d]
      <3>1. PICK S : all \in Seq(S)
        BY <2>2
      <3> QED
        BY <2>1, <3>1, LastElements
    <2>6. IsInjective(kept)
      <3>1. PICK d \in Nat : \A i \in DOMAIN kept : i + d \in DOMAIN all /\ kept[i] = all[i + d]
        BY <2>5
      <3>2. \A k, l \in DOMAIN kept : kept[k] = kept[l] => k + d = l + d
        BY <2>3, <3>1
      <3>3. DOMAIN kept \subseteq Nat
        BY <2>4, LenProperties
      <3>4. \A k, l \in DOMAIN kept : kept[k] = kept[l] => k = l
        BY <3>1, <3>2, <3>3
      <3> QED
        BY <3>4 DEF IsInjective
    <2>7. PICK d : d = kept
      OBVIOUS
    <2>8. PICK state \in States, time \in Nat, shows \in Deliveries :
            n = [m EXCEPT !.revision = m.revision + 1, !.publication_pending = TRUE,
                          !.deliveries = d, !.state = state, !.time = time, !.shows = shows]
      <3>1. is_event(e)
        BY EventsAssumption
      <3>2. state_after(m, e) \in States /\ e.time \in Nat
        BY <3>1, <1>1 DEF is_event, state_after, States, Mirror
      <3>3. /\ m.state \in States /\ m.time \in Nat /\ m.shows \in Deliveries
        BY <1>1 DEF Mirror
      <3> DEFINE staged == [m EXCEPT !.revision = m.revision + 1, !.publication_pending = TRUE,
                                     !.deliveries = d]
      <3>4. n = staged \/ n = [staged EXCEPT !.state = state_after(m, e), !.time = e.time,
                                             !.shows = e.delivery]
        BY <1>1, <1>3, <2>7 DEF update_from_event, all, Mirror
      <3>5. CASE n = staged
        <4>1. n = [m EXCEPT !.revision = m.revision + 1, !.publication_pending = TRUE,
                          !.deliveries = d, !.state = m.state, !.time = m.time, !.shows = m.shows]
          BY <1>1, <3>5 DEF Mirror
        <4> QED
          BY <3>3, <4>1
      <3>6. CASE n = [staged EXCEPT !.state = state_after(m, e), !.time = e.time,
                                    !.shows = e.delivery]
        <4>1. n = [m EXCEPT !.revision = m.revision + 1, !.publication_pending = TRUE,
                          !.deliveries = d, !.state = state_after(m, e), !.time = e.time,
                          !.shows = e.delivery]
          BY <1>1, <3>6 DEF Mirror
        <4> QED
          BY <2>1, <3>2, <4>1
      <3> QED
        BY <3>4, <3>5, <3>6
    <2>9. /\ d \in Seq(Deliveries) /\ Len(d) <= MAX_RECENT_DELIVERIES /\ IsInjective(d)
      BY <2>4, <2>6, <2>7
    <2> HIDE DEF kept
    <2>10. /\ n \in Mirror /\ n.handled = m.handled /\ n.pending_action = m.pending_action
           /\ n.thread = m.thread /\ n.active = m.active /\ n.card = m.card
           /\ n.create = m.create /\ n.cleanup = m.cleanup /\ n.deliveries = d
      <3>1. m.revision + 1 \in Nat
        BY <1>1 DEF Mirror
      <3> QED
        BY ZenonT(60), <1>1, <2>8, <2>9, <3>1 DEF Mirror
    <2>11. constructible(n)
      BY <1>1, <2>9, <2>10 DEF constructible
    <2> QED
      BY <2>10, <2>11, GoodMoved
  <1> QED
    BY <1>2, <1>3 DEF upsert_existing

\* A step of the record alone.
LEMMA RecordStep ==
  ASSUME StarterInv, NEW h, h \notin Handlers, NEW m, mirror' = m, Good(m, tasks, h),
         m.pending_action \in {None, mirror.pending_action},
         tasks' = tasks, claims' = claims, handler' = handler,
         used' \in [tasks : 0..MaxTasks, retries : Nat, faults : Nat, crashes : Nat, changes : Nat],
         used'.tasks = used.tasks, used'.faults = 0 => used.faults = 0,
         \/ phase' = phase
         \/ /\ phase = "tasks_reconciled" /\ phase' = "reconciled"
            /\ m.pending_action = None \/ used'.faults # 0
  PROVE  StarterInv'
  <1>1. /\ OneTaskRuns' /\ (Roomy => OneTaskPerInteraction') /\ tasks \in [TaskIds -> Task]
    BY SameTasks
  <1>2. /\ phase' \in {"started", "tasks_reconciled", "reconciled"}
        /\ phase' = "reconciled" /\ phase # "reconciled" => m.pending_action = None \/ used'.faults # 0
        /\ phase = "reconciled" => phase' = "reconciled"
    BY DEF StarterInv, StarterTypeOK
  <1>3. PICK ts : ts = tasks
    OBVIOUS
  <1>4. /\ tasks' = ts /\ Good(m, ts, h) /\ ts \in [TaskIds -> Task]
        /\ \A t \in TaskIds : tasks[t].state = "absent" => ts[t].state = "absent"
    BY <1>1, <1>3
  <1> QED
    BY <1>1, <1>2, <1>4, QuietStep

LEMMA WebhookStep ==
  ASSUME StarterInv, NEW e \in Events, Webhook(e)
  PROVE  StarterInv'
  <1>1. /\ mirror' = upsert_existing(mirror, e) /\ used' = [used EXCEPT !.changes = used.changes + 1]
        /\ tasks' = tasks /\ claims' = claims /\ handler' = handler /\ phase' = phase
        /\ StarterTypeOK
    BY DEF Webhook, StarterInv
  <1>2. PICK h : h \notin Handlers /\ Good(mirror, tasks, h)
    BY Nobody
  <1>3. PICK n : n = upsert_existing(mirror, e)
    OBVIOUS
  <1>4. Good(n, tasks, h) /\ n.pending_action = mirror.pending_action
    BY <1>2, <1>3, GoodUpserted
  <1>5. /\ used' \in [tasks : 0..MaxTasks, retries : Nat, faults : Nat, crashes : Nat, changes : Nat]
        /\ used'.tasks = used.tasks /\ used'.faults = used.faults
    BY <1>1 DEF StarterTypeOK
  <1> QED
    BY <1>1, <1>2, <1>3, <1>4, <1>5, RecordStep

LEMMA CardReplacedStep ==
  ASSUME StarterInv, NEW c \in Cards, CardReplaced(c)
  PROVE  StarterInv'
  <1>1. /\ mirror' = updated_record([mirror EXCEPT !.card = c])
        /\ used' = [used EXCEPT !.changes = used.changes + 1]
        /\ tasks' = tasks /\ claims' = claims /\ handler' = handler /\ phase' = phase
        /\ StarterTypeOK
    BY DEF CardReplaced, StarterInv
  <1>2. PICK h : h \notin Handlers /\ Good(mirror, tasks, h)
    BY Nobody
  <1>3. PICK m : m = mirror
    OBVIOUS
  <1>4. Sound(m) /\ m \in Mirror /\ constructible(m) /\ Good(m, tasks, h)
    BY <1>2, <1>3 DEF Good, Sound
  <1> DEFINE r == [m EXCEPT !.card = c]
  <1>5. r \in Mirror /\ r.handled = m.handled
    BY <1>4 DEF Mirror
  <1>6. PICK n : n = [r EXCEPT !.revision = r.revision + 1]
    OBVIOUS
  <1>7. mirror' = n
    BY <1>1, <1>3, <1>4, <1>5, <1>6, UpdatedRecord DEF Sound
  <1>8. /\ n \in Mirror /\ n.handled = m.handled /\ n.pending_action = m.pending_action
        /\ n.thread = m.thread /\ n.active = m.active /\ n.card = c
        /\ n.create = m.create /\ n.cleanup = m.cleanup /\ n.deliveries = m.deliveries
    <2>1. n = [m EXCEPT !.card = c, !.revision = m.revision + 1] /\ m.revision + 1 \in Nat
      BY <1>4, <1>6 DEF Mirror
    <2> QED
      BY <1>4, <2>1 DEF Mirror
  <1>9. constructible(n)
    <2>1. n.create = None
      BY <1>8 DEF Mirror
    <2>2. c # None
      BY StarterAssumption
    <2> QED
      BY <1>4, <1>8, <2>1, <2>2 DEF constructible
  <1>10. Good(n, tasks, h)
    BY <1>4, <1>8, <1>9, GoodMoved
  <1>11. /\ used' \in [tasks : 0..MaxTasks, retries : Nat, faults : Nat, crashes : Nat, changes : Nat]
         /\ used'.tasks = used.tasks /\ used'.faults = used.faults
    BY <1>1 DEF StarterTypeOK
  <1> QED
    BY <1>1, <1>2, <1>3, <1>7, <1>8, <1>10, <1>11, RecordStep

LEMMA RestartStep ==
  ASSUME StarterInv, Restart
  PROVE  StarterInv'
  <1>1. /\ StarterTypeOK /\ Sound(mirror) /\ TasksKnown(mirror, tasks) /\ Drawn
        /\ handler' = [h \in Handlers |-> Idle] /\ claims' = [i \in Triggers |-> None]
        /\ phase' = "started" /\ used' = [used EXCEPT !.crashes = used.crashes + 1]
        /\ mirror' = mirror /\ tasks' = tasks
    BY DEF Restart, StarterInv
  <1>2. Idle \in Handler /\ Idle.at = "idle" /\ Idle.task = None
    BY DEF Idle, Handler
  <1>3. \A h \in Handlers : handler'[h] = Idle /\ ~Starts(handler'[h])
    BY <1>1, <1>2 DEF Starts
  <1>4. /\ used' \in [tasks : 0..MaxTasks, retries : Nat, faults : Nat, crashes : Nat, changes : Nat]
        /\ used'.tasks = used.tasks
    BY <1>1 DEF StarterTypeOK
  <1>5. StarterTypeOK'
    <2>1. handler' \in [Handlers -> Handler] /\ claims' \in [Triggers -> TaskIds \cup {None}]
      BY <1>1, <1>2
    <2> QED
      BY <1>1, <1>2, <1>3, <1>4, <2>1 DEF StarterTypeOK
  <1>6. Sound(mirror)' /\ TasksKnown(mirror, tasks)'
    BY <1>1
  <1>7. \A h \in Handlers : Starts(handler'[h]) => Owed(mirror', tasks', handler'[h])
    BY <1>3
  <1>8. Distinct'
    BY <1>3 DEF Distinct
  <1>9. Drawn'
    BY <1>1, <1>2, <1>3, <1>4 DEF Drawn
  <1>10. EarlyOnes'
    BY <1>2, <1>3 DEF EarlyOnes
  <1>11. ReservationHasOwner'
    BY <1>1 DEF ReservationHasOwner
  <1>12. OneTaskRuns' /\ (Roomy => OneTaskPerInteraction')
    BY <1>1, SameTasks
  <1> QED
    BY <1>5, <1>6, <1>7, <1>8, <1>9, <1>10, <1>11, <1>12 DEF StarterInv

\* Startup clears the task of the item when it is over.
LEMMA ClearResults ==
  ASSUME NEW m, NEW h, Good(m, tasks, h),
         NEW q \in IF m.active # None /\ ~running(tasks, m.active)
                   THEN Write(m, cleared(m, m.active)) ELSE Ends(m)
  PROVE  /\ Good(q.mirror, tasks, h) /\ q.mirror.pending_action = m.pending_action
         /\ q.faults \in Nat
  <1>1. CASE q \in Ends(m)
    BY <1>1 DEF Ends, Result
  <1>2. CASE /\ m.active # None /\ ~running(tasks, m.active)
             /\ q \in Write(m, cleared(m, m.active))
    <2>1. m.active \in TaskIds
      BY <1>2 DEF Good, Sound, Mirror
    <2>2. PICK n : n = cleared(m, m.active)
      OBVIOUS
    <2>3. Good(n, tasks, h) /\ n.pending_action = m.pending_action
      BY <1>2, <2>1, <2>2, GoodCleared
    <2>4. q.mirror \in {m, n} /\ q.faults \in {0, 1}
      BY <1>2, <2>2, StarterAssumption DEF Write, Committed, Ends, Result, Faulty
    <2> QED
      BY <2>3, <2>4
  <1> QED
    BY <1>1, <1>2

\* Startup finishes the reservation that it finds: only handlers that did not wait for it
\* lose theirs.
LEMMA ReconciledStep ==
  ASSUME StarterInv, Reconciled
  PROVE  StarterInv'
  <1> DEFINE clear(m) == IF m.active # None /\ ~running(tasks, m.active)
                         THEN Write(m, cleared(m, m.active)) ELSE Ends(m)
             t == mirror.pending_action.task
             ends == finished(mirror, t, stored(tasks, t))
  <1>1. /\ phase = "tasks_reconciled" /\ phase' = "reconciled" /\ StarterTypeOK /\ EarlyOnes
        /\ tasks' = tasks /\ claims' = claims /\ handler' = handler
    BY DEF Reconciled, StarterInv
  <1>2. PICK q \in IF mirror.pending_action = None THEN clear(mirror)
                   ELSE Committed(mirror, ends, clear, Ends) :
          mirror' = q.mirror /\ used' = [used EXCEPT !.faults = used.faults + q.faults]
    BY DEF Reconciled
  <1>3. PICK h : h \notin Handlers /\ Good(mirror, tasks, h)
    BY Nobody
  <1>4. /\ Good(q.mirror, tasks, h) /\ q.faults \in Nat
        /\ q.mirror.pending_action = None
           \/ (q.mirror.pending_action = mirror.pending_action /\ q.faults # 0)
    <2>1. CASE mirror.pending_action = None /\ q \in clear(mirror)
      <3>1. /\ Good(q.mirror, tasks, h) /\ q.mirror.pending_action = mirror.pending_action
            /\ q.faults \in Nat
        BY <1>3, <2>1, ClearResults
      <3> QED
        BY <2>1, <3>1
    <2>2. CASE mirror.pending_action # None /\ q \in Committed(mirror, ends, clear, Ends)
      <3>1. PICK n : n = ends
        OBVIOUS
      <3>2. matching_pending(mirror, t)
        BY <2>2 DEF matching_pending
      <3>3. \A k \in Handlers : k # h /\ Starts(handler[k]) /\ ~handler[k].early => handler[k].task # t
        BY <1>1 DEF EarlyOnes, Starts
      <3>4. Good(n, tasks, h) /\ n.pending_action = None /\ n # mirror
        BY <1>3, <3>1, <3>2, <3>3, GoodFinished
      <3>5. \/ q \in clear(n)
            \/ q \in {[mirror |-> x, handler |-> Idle, faults |-> 1] : x \in {mirror, n}}
        <4>1. q \in Committed(mirror, n, clear, Ends)
          BY <2>2, <3>1
        <4> HIDE DEF clear
        <4> QED
          BY <3>4, <4>1, StarterAssumption DEF Committed, Faulty, Ends, Result
      <3>6. CASE q \in clear(n)
        <4>1. Good(q.mirror, tasks, h) /\ q.mirror.pending_action = n.pending_action /\ q.faults \in Nat
          BY <3>4, <3>6, ClearResults
        <4> QED
          BY <3>4, <4>1
      <3>7. CASE q \in {[mirror |-> x, handler |-> Idle, faults |-> 1] : x \in {mirror, n}}
        BY <1>3, <3>4, <3>7
      <3> QED
        BY <3>5, <3>6, <3>7
    <2> QED
      BY <1>2, <2>1, <2>2
  <1>5. /\ used' \in [tasks : 0..MaxTasks, retries : Nat, faults : Nat, crashes : Nat, changes : Nat]
        /\ used'.tasks = used.tasks /\ used'.faults = used.faults + q.faults /\ used.faults \in Nat
    BY <1>1, <1>2, <1>4 DEF StarterTypeOK
  <1>6. PICK m : m = q.mirror
    OBVIOUS
  <1> HIDE DEF clear, ends, t
  <1>7. /\ mirror' = m /\ Good(m, tasks, h) /\ m.pending_action \in {None, mirror.pending_action}
        /\ m.pending_action = None \/ used'.faults # 0
        /\ used'.faults = 0 => used.faults = 0
    BY <1>2, <1>4, <1>5, <1>6
  <1> QED
    BY <1>1, <1>3, <1>5, <1>7, RecordStep

LEMMA StarterInit ==
  ASSUME Init
  PROVE  StarterInv
  <1>1. PICK e \in Events, c \in Cards :
          mirror = [record_from_event(e) EXCEPT !.card = c, !.publication_pending = FALSE]
    BY DEF Init
  <1>2. /\ tasks = [t \in TaskIds |-> NoTask] /\ claims = [i \in Triggers |-> None]
        /\ handler = [h \in Handlers |-> Idle] /\ phase = "reconciled"
        /\ used = [tasks |-> 0, retries |-> 0, faults |-> 0, crashes |-> 0, changes |-> 0]
    BY DEF Init
  <1>3. PICK d : d = <<e.delivery>>
    OBVIOUS
  <1>4. /\ d \in Seq(Deliveries) /\ Len(d) = 1 /\ IsInjective(d)
    <2>1. e.delivery \in Deliveries
      BY DEF Deliveries
    <2> QED
      BY <1>3, <2>1 DEF IsInjective
  <1>5. PICK s : s = << >>
    OBVIOUS
  <1>6. s \in Seq(Claim) /\ DOMAIN s = {} /\ Len(s) = 0
    BY <1>5
  <1>7. /\ e.state \in States /\ e.time \in Nat /\ e.delivery \in Deliveries
        /\ MAX_RECENT_DELIVERIES \in Nat \ {0} /\ MAX_HANDLED_CLAIMS \in Nat
    BY EventsAssumption DEF is_event, States, Deliveries
  <1>8. mirror = [revision |-> 0, card |-> c, create |-> None, cleanup |-> None,
                  publication_pending |-> FALSE, thread |-> None, state |-> e.state,
                  time |-> e.time, shows |-> e.delivery, deliveries |-> d,
                  pending_action |-> None, active |-> None, handled |-> s]
    BY <1>1, <1>3, <1>5 DEF record_from_event
  <1>9. /\ mirror \in Mirror /\ mirror.pending_action = None /\ mirror.active = None
        /\ mirror.handled = s /\ mirror.deliveries = d
        /\ mirror.create = None /\ mirror.card = c
    BY <1>4, <1>6, <1>7, <1>8 DEF Mirror
  <1>10. Sound(mirror)
    <2>1. c # None
      BY StarterAssumption
    <2>2. constructible(mirror)
      <3>1. Len(mirror.deliveries) <= MAX_RECENT_DELIVERIES
        <4>1. Len(mirror.deliveries) = 1
          BY <1>4, <1>9
        <4>2. 1 <= MAX_RECENT_DELIVERIES
          BY <1>7
        <4> QED
          BY <4>1, <4>2
      <3>2. DOMAIN mirror.handled = {} /\ IsInjective(mirror.deliveries)
        BY <1>4, <1>6, <1>9
      <3> QED
        BY <1>9, <2>1, <3>1, <3>2 DEF constructible
    <2> QED
      BY <1>6, <1>7, <1>9, <2>2 DEF Sound
  <1>11. NoTask \in Task /\ NoTask.state = "absent" /\ NoTask.trigger = None
    BY DEF NoTask, Task
  <1>12. /\ Idle \in Handler /\ Idle.at = "idle" /\ Idle.task = None
    BY DEF Idle, Handler
  <1>13. \A h \in Handlers : handler[h] = Idle /\ ~Starts(handler[h])
    BY <1>2, <1>12 DEF Starts
  <1>14. \A t \in TaskIds : tasks[t] = NoTask /\ ~running(tasks, t)
    BY <1>2, <1>11 DEF running
  <1>15. StarterTypeOK
    <2>1. tasks \in [TaskIds -> Task] /\ handler \in [Handlers -> Handler]
      BY <1>2, <1>11, <1>12
    <2>2. used \in [tasks : 0..MaxTasks, retries : Nat, faults : Nat, crashes : Nat, changes : Nat]
      BY <1>2, StarterAssumption
    <2> QED
      BY <1>2, <1>9, <1>12, <1>13, <2>1, <2>2 DEF StarterTypeOK
  <1>16. TasksKnown(mirror, tasks)
    BY <1>11, <1>14 DEF TasksKnown
  <1>17. Distinct /\ Drawn /\ EarlyOnes
    BY <1>2, <1>9, <1>11, <1>12, <1>13, <1>14 DEF Distinct, Drawn, EarlyOnes
  <1>18. OneTaskRuns /\ ReservationHasOwner /\ OneTaskPerInteraction
    BY <1>9, <1>11, <1>14 DEF OneTaskRuns, ReservationHasOwner, OneTaskPerInteraction
  <1> QED
    BY <1>10, <1>13, <1>15, <1>16, <1>17, <1>18 DEF StarterInv

LEMMA StarterNext ==
  ASSUME StarterInv, [Next]_vars
  PROVE  StarterInv'
  <1>1. CASE \E h \in Handlers, i \in Triggers : Press(h, i)
    BY <1>1, PressStep
  <1>2. CASE \E h \in Handlers : Start(h)
    BY <1>2, StartStep
  <1>3. CASE \E h \in Handlers : ThreadResolved(h)
    BY <1>3, ThreadResolvedStep
  <1>4. CASE \E h \in Handlers : StartFails(h)
    BY <1>4, StartFailsStep
  <1>5. CASE \E h \in Handlers : ContextResolved(h)
    BY <1>5, ContextResolvedStep
  <1>6. CASE \E t \in TaskIds : TaskEnds(t) \/ TaskForgotten(t)
    BY <1>6, TaskEndsStep
  <1>7. CASE \E t \in TaskIds : TaskRetried(t)
    BY <1>7, TaskRetriedStep
  <1>8. CASE \E e \in Events : Webhook(e)
    BY <1>8, WebhookStep
  <1>9. CASE \E c \in Cards : CardReplaced(c)
    BY <1>9, CardReplacedStep
  <1>10. CASE Restart
    BY <1>10, RestartStep
  <1>11. CASE TasksReconciled
    BY <1>11, TasksReconciledStep
  <1>12. CASE Reconciled
    BY <1>12, ReconciledStep
  <1>13. CASE UNCHANGED vars
    <2>1. PICK h : h \notin Handlers /\ Good(mirror, tasks, h)
      BY Nobody
    <2>2. PICK m : m = mirror
      OBVIOUS
    <2>3. /\ mirror' = m /\ Good(m, tasks, h) /\ m.pending_action \in {None, mirror.pending_action}
      BY <1>13, <2>1, <2>2 DEF vars
    <2>4. /\ tasks' = tasks /\ claims' = claims /\ handler' = handler /\ phase' = phase
          /\ used' = used
      BY <1>13 DEF vars
    <2>5. used' \in [tasks : 0..MaxTasks, retries : Nat, faults : Nat, crashes : Nat, changes : Nat]
      BY <2>4 DEF StarterInv, StarterTypeOK
    <2> QED
      BY <2>1, <2>3, <2>4, <2>5, RecordStep
  <1> QED
    BY <1>1, <1>2, <1>3, <1>4, <1>5, <1>6, <1>7, <1>8, <1>9, <1>10, <1>11, <1>12, <1>13 DEF Next

----------------------------------------------------------------------------
(* The theorems.                                                           *)

\* The invariant of the starts from a card (GitHubMirrorTaskStarter.start, its settling and
\* reconcile_startup): it holds in every state, whatever answers, fails or restarts.
THEOREM StarterInvariant == Spec => []StarterInv
  <1>1. Init => StarterInv
    BY StarterInit
  <1>2. StarterInv /\ [Next]_vars => StarterInv'
    BY StarterNext
  <1> QED
    BY <1>1, <1>2, PTL DEF Spec

\* All starts and retries of an item meet in the thread that attach_thread() binds it to, where
\* DiscordTaskService.start() and retry() admit one task: no two of them run at once.
THEOREM OneTaskOfAnItem == Spec => []OneTaskRuns
  <1>1. StarterInv => OneTaskRuns
    BY DEF StarterInv
  <1> QED
    BY <1>1, StarterInvariant, PTL

\* A start that was not early and whose finish() raised, or that a process end cut off, leaves
\* a task that the record reserves or has active as long as it runs (_settle_failed_start,
\* reconcile_startup); and the record always is one that __post_init__ accepts.
THEOREM RunningTaskAlwaysKnown == Spec => []RunningTaskKnown
  <1>1. StarterInv => RunningTaskKnown
    BY DEF StarterInv, RunningTaskKnown, Sound, TasksKnown
  <1> QED
    BY <1>1, StarterInvariant, PTL

\* While no write fails, a reservation belongs to the handler that made it until startup has
\* been through: finish(), settling or reconciliation will release the item.
THEOREM ReservationAlwaysOwned == Spec => []ReservationHasOwner
  <1>1. StarterInv => ReservationHasOwner
    BY DEF StarterInv
  <1> QED
    BY <1>1, StarterInvariant, PTL

\* Where the history of handled interactions (MAX_HANDLED_CLAIMS) has room for all of them, an
\* interaction that is delivered twice starts one task, even across a restart and after the
\* task store forgot the task (_reservation_for).
THEOREM InteractionsStartOnce ==
  ASSUME Roomy
  PROVE  Spec => []OneTaskPerInteraction
  <1>1. StarterInv => OneTaskPerInteraction
    BY DEF StarterInv
  <1> QED
    BY <1>1, StarterInvariant, PTL

============================================================================

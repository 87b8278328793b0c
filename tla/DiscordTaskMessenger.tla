------------------------ MODULE DiscordTaskMessenger ------------------------
(***************************************************************************)
(* The card of one task and how it is kept current: the render locks of    *)
(* discord_task_runtime.py and discord_task_messenger.py, the progress     *)
(* coordinator of discord_task_progress.py and what discord_task_cards.py  *)
(* shows.                                                                  *)
(*                                                                         *)
(* Callers render: the task's runner, handlers of Discord events, and the  *)
(* flushes that the progress coordinator starts.  A render is in one of    *)
(* three places: it waits for a lock, it holds the lock and is about to    *)
(* read the record, or it has read it and is editing the card, which takes *)
(* several awaits.  The coordinator's own lock is never held over an       *)
(* await, so its sections are steps.  Time is left out: a flush may wake   *)
(* at any time after it was started.                                       *)
(***************************************************************************)
EXTENDS DiscordTaskUpdates, FiniteSets, SequencesExt

CONSTANTS
  Handlers,     \* coroutines that handle Discord events
  Flushes,      \* identities of flush tasks
  Parts,        \* the parts of an AgentProgress that are set separately
  MaxUpdates,   \* bound: progress updates
  MaxFaults     \* bound: requests and cleanups that fail

ASSUME MessengerAssumption ==
  /\ Handlers \cap Flushes = {} /\ {"runner", None} \cap (Handlers \cup Flushes) = {}
  /\ MaxUpdates \in Nat
  /\ MaxFaults \in Nat

VARIABLES
  task,      \* the stored record, None before it exists and once forgotten
  card,      \* whether card_message_id is set
  shown,     \* what the card shows, None while there is no card
  unshown,   \* whether the latest edit was lost, to an error or a cancellation
  outer,     \* DiscordTaskRuntime._render_locks: the holder, then the waiters
  inner,     \* DiscordTaskCardMessenger._render_locks, likewise
  view,      \* what each caller that edits has read
  entry,     \* DiscordTaskProgressCoordinator._entries
  flush,     \* its flush tasks
  silent,    \* its _closed
  updates_made,
  faults

cardVars ==
  <<task, card, shown, unshown, outer, inner, view, entry, flush, silent,
    updates_made, faults>>

Callers == {"runner"} \cup Handlers \cup Flushes

----------------------------------------------------------------------------
(* Progress.                                                               *)

\* A part is the number of the update that set it, 0 for None.  The attempt is
\* kept for comparison; the code has no such field.
progress_of(attempt, parts, n) ==
  [attempt |-> attempt, value |-> [p \in Parts |-> IF p \in parts THEN n ELSE 0]]

AgentProgress == [attempt : Nat, value : [Parts -> Nat]]

Entry == [id : Nat, version : Nat, progress : AgentProgress, flush : Flushes \cup {None}]

Card == [record : Record, progress : AgentProgress \cup {None}]

ASSUME AbsenceAssumption == None \notin Record /\ None \notin Entry /\ None \notin Card

\* progress_from_notification: a plan update sets the plan, turn and item
\* notifications the other parts.
Notifications == {{p} : p \in Parts}

merge(current, update) ==
  [attempt |-> update.attempt,
   value   |-> [p \in Parts |-> IF update.value[p] # 0
                                  THEN update.value[p] ELSE current.value[p]]]

NoFlush == [at |-> "none", entry |-> 0, version |-> 0, progress |-> None]

sleeping(id) == [NoFlush EXCEPT !.at = "sleep", !.entry = id]

\* DiscordTaskProgressCoordinator.update, where it is not closed.  An entry is
\* known by the number of its first update.
update(progress, n) ==
  LET merged == IF entry = None
                  THEN [id |-> n, version |-> 1, progress |-> progress, flush |-> None]
                  ELSE [entry EXCEPT !.progress = merge(@, progress), !.version = @ + 1]
  IN  IF merged.flush = None
        THEN \E f \in Flushes :
               /\ flush[f] = NoFlush
               /\ flush' = [flush EXCEPT ![f] = sleeping(merged.id)]
               /\ entry' = [merged EXCEPT !.flush = f]
        ELSE entry' = merged /\ UNCHANGED flush

\* The sink of progress_sink: ignored for a settled task or one without card.
sink(parts) ==
  LET n == updates_made + 1
  IN  /\ n <= MaxUpdates
      /\ updates_made' = n
      /\ IF task # None /\ is_active(task) /\ card /\ ~silent
           THEN update(progress_of(task.attempt, parts, n), n)
           ELSE UNCHANGED <<entry, flush>>

----------------------------------------------------------------------------
(* Rendering.                                                              *)

\* What build_task_card makes of a record: its state, failure and attempt, and
\* the progress of a task that is active.
card_of(r, progress) ==
  [record |-> r, progress |-> IF is_active(r) THEN progress ELSE None]

\* The buttons of _buttons that act, where the agent can steer and resume.
buttons(r) ==
  moves(r, {"recovering", "starting", "running", "stopping"}, {"stop"})
  \cup moves(r, {"running"}, {"add_context"})
  \cup moves(r, {"completed"}, {"continue"})
  \cup moves(r, {"failed", "timed_out", "delivery_failed", "interrupted"},
             IF r.failure = None THEN {}
             ELSE {"why"} \cup IF r.failure.retry_mode = "none" THEN {} ELSE {"retry"})

rendering(c) == c \in Range(outer) \cup Range(inner)

\* The queue of a lock when some callers give up their places in it.
drop(queue, gone) ==
  LET kept[n \in 0 .. Len(queue)] ==
        IF n = 0 THEN <<>>
        ELSE IF queue[n] \in gone THEN kept[n - 1] ELSE Append(kept[n - 1], queue[n])
  IN  kept[Len(queue)]

\* DiscordTaskRuntime.render, up to its lock.
render(c) == outer' = Append(outer, c)

\* The lock is acquired and the record is there: on to the messenger's lock.
RenderCard(c) ==
  /\ outer # <<>> /\ Head(outer) = c /\ c \notin Range(inner)
  /\ IF task = None
       THEN outer' = Tail(outer) /\ UNCHANGED inner    \* KeyError, logged
       ELSE inner' = Append(inner, c) /\ UNCHANGED outer
  /\ UNCHANGED <<task, card, shown, unshown, view, entry, flush, silent,
                 updates_made, faults>>

\* A flush wakes and takes the newest progress to the messenger's lock.
FlushWakes(f) ==
  /\ flush[f].at = "sleep"
  /\ IF entry = None \/ silent
       THEN flush' = [flush EXCEPT ![f] = NoFlush] /\ UNCHANGED inner
       ELSE /\ flush' = [flush EXCEPT ![f] = [at |-> "render", entry |-> entry.id,
                                              version |-> entry.version,
                                              progress |-> entry.progress]]
            /\ inner' = Append(inner, f)
  /\ UNCHANGED <<task, card, shown, unshown, outer, view, entry, silent,
                 updates_made, faults>>

\* A defect for comparison: news that came during the render are left alone.
flush_ends_for_good(f) ==
  /\ flush' = [flush EXCEPT ![f] = NoFlush]
  /\ entry' = IF entry # None /\ entry.id = flush[f].entry
                THEN [entry EXCEPT !.flush = None] ELSE entry

\* The rest of _flush_after, once its render is over: if the entry is still
\* there and has news, another flush follows.
flush_ends(f) ==
  IF entry # None /\ entry.id = flush[f].entry
    THEN IF entry.version # flush[f].version /\ ~silent
           THEN flush' = [flush EXCEPT ![f] = sleeping(entry.id)] /\ UNCHANGED entry
           ELSE /\ flush' = [flush EXCEPT ![f] = NoFlush]
                /\ entry' = [entry EXCEPT !.flush = None]
    ELSE flush' = [flush EXCEPT ![f] = NoFlush] /\ UNCHANGED entry

\* A render is over: the locks are released and the caller goes on.
leave(c) ==
  /\ inner' = Tail(inner)
  /\ view' = [view EXCEPT ![c] = None]
  /\ IF c \in Flushes
       THEN flush_ends(c) /\ UNCHANGED outer
       ELSE outer' = Tail(outer) /\ UNCHANGED <<entry, flush>>

\* DiscordTaskProgressCoordinator.finish, called by c, which holds the lock: a
\* flush other than the caller is cancelled, and stops waiting for the lock.
finish(c) ==
  /\ entry' = None
  /\ IF entry # None /\ entry.flush \notin {None, c}
       THEN /\ flush' = [flush EXCEPT ![entry.flush] = NoFlush]
            /\ inner' = drop(inner, {entry.flush})
       ELSE UNCHANGED <<flush, inner>>

\* What a flush brings along, or the snapshot of the coordinator.
progress_for(c) ==
  IF c \in Flushes THEN flush[c].progress
  ELSE IF entry # None THEN entry.progress ELSE None

\* A defect for comparison: the record is read before the lock is held.
ReadEarly(c) ==
  /\ c \in Range(inner) /\ view[c] = None
  /\ \/ /\ task = None \/ ~card
        /\ Head(inner) = c
        /\ leave(c)
     \/ /\ task # None /\ card
        /\ view' = [view EXCEPT ![c] = card_of(task, progress_for(c))]
        /\ UNCHANGED <<outer, inner, entry, flush>>
  /\ UNCHANGED <<task, card, shown, unshown, silent, updates_made, faults>>

\* _render_current, the lock held, up to its next await.
ReadCurrent(c) ==
  /\ inner # <<>> /\ Head(inner) = c /\ view[c] = None
  /\ \/ /\ task = None \/ ~card
        /\ leave(c)
     \/ /\ task # None /\ card /\ is_active(task)
        /\ view' = [view EXCEPT ![c] = card_of(task, progress_for(c))]
        /\ UNCHANGED <<outer, inner, entry, flush>>
     \/ /\ task # None /\ card /\ ~is_active(task)
        /\ finish(c)
        /\ view' = [view EXCEPT ![c] = card_of(task, None)]
        /\ UNCHANGED outer
  /\ UNCHANGED <<task, card, shown, unshown, silent, updates_made, faults>>

editing(c) == view[c] # None /\ inner # <<>> /\ Head(inner) = c

\* The card is edited.
EditDone(c) ==
  /\ editing(c)
  /\ shown' = view[c]
  /\ unshown' = FALSE
  /\ leave(c)
  /\ UNCHANGED <<task, card, silent, updates_made, faults>>

\* Resolving the controls or the channel, fetching the message or editing it
\* raised; render and _flush_after log it and go on.
EditFails(c) ==
  /\ editing(c)
  /\ faults < MaxFaults
  /\ faults' = faults + 1
  /\ unshown' = TRUE
  /\ leave(c)
  /\ UNCHANGED <<task, card, shown, silent, updates_made>>

RenderStep(c) == RenderCard(c) \/ ReadCurrent(c) \/ EditDone(c) \/ EditFails(c)

----------------------------------------------------------------------------
(* Cancellation.                                                           *)

\* Callers are cancelled wherever they are: they give up their place in the
\* queues, and an edit that was on its way arrives or does not.
cancel_renders(cancelled) ==
  LET cut == {c \in cancelled : editing(c)}
  IN  /\ outer' = drop(outer, cancelled)
      /\ inner' = drop(inner, cancelled)
      /\ view' = [c \in Callers |-> IF c \in cancelled THEN None ELSE view[c]]
      /\ \/ \E c \in cut : shown' = view[c] /\ unshown' = FALSE
         \/ UNCHANGED shown /\ unshown' = (unshown \/ cancelled \cap
                                             (Range(outer) \cup Range(inner)) # {})

\* DiscordTaskProgressCoordinator.close
close_progress ==
  /\ silent' = TRUE
  /\ entry' = None
  /\ flush' = [f \in Flushes |-> NoFlush]
  /\ cancel_renders(Flushes)

----------------------------------------------------------------------------

CardInit ==
  /\ task = None /\ card = FALSE /\ shown = None /\ unshown = FALSE
  /\ outer = <<>> /\ inner = <<>>
  /\ view = [c \in Callers |-> None]
  /\ entry = None /\ flush = [f \in Flushes |-> NoFlush] /\ silent = FALSE
  /\ updates_made = 0 /\ faults = 0
============================================================================

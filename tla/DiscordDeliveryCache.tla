------------------------ MODULE DiscordDeliveryCache ------------------------
(***************************************************************************)
(* The cache of replies that wait for delivery, the leases it hands out    *)
(* and the registry of generated files: discord_delivery_cache.py,         *)
(* discord_delivery_entries.py, discord_delivery_resources.py,             *)
(* discord_generated_registry.py, discord_generated_file.py, and the way   *)
(* discord_task_delivery.py uses them.                                     *)
(*                                                                         *)
(* The class is written for concurrent threads (the gateway closes it from *)
(* a worker thread), so an operation is split at its lock sections.        *)
(* pc[th].at names where a thread stands:                                  *)
(*   "idle"     outside the cache                                          *)
(*   "claimed"  consume has claimed the entry                              *)
(*   "cleanup"  about to dispose of the claimed entry                      *)
(*   "remove"   disposed of; the entry is to be removed                    *)
(*   "unclaim"  an exception was raised; the claim is to be given back     *)
(*   "wait"     close, before it checks for claims                         *)
(*   "asleep"   close, in Condition.wait                                   *)
(*   "drain"    close, between two entries                                 *)
(* A reply is put at most once and leased at most once, so the reply also  *)
(* names its generated file's ownership object and its lease.              *)
(***************************************************************************)
EXTENDS Naturals, FiniteSets

CONSTANTS
  Threads,        \* clients of the cache
  Tasks,          \* task ids
  Replies,        \* prepared replies
  Files,          \* identities of generated files: path and inode, reused later
  None,           \* Python's None
  StreamFaults,   \* whether closing a pinned stream may raise
  CleanupFaults,  \* whether unlinking a quarantined file may raise
  MaxCloses       \* bound: calls of close

ASSUME CacheAssumption ==
  /\ None \notin Tasks \cup Replies \cup Files \cup
       {"consume", "discard", "close", "raised", "returned"}
  /\ StreamFaults \in BOOLEAN /\ CleanupFaults \in BOOLEAN
  /\ MaxCloses \in Nat

VARIABLES
  entries,      \* _entries: the cached reply of each task
  processing,   \* _processing: tasks whose entry is claimed
  transferred,  \* _transferred: replies whose lease was handed out
  closed,       \* _closed
  reserved,     \* GeneratedOwnershipRegistry._paths and _files
  pending,      \* _pending: replies whose quarantine could not be undone
  reply,        \* per reply: its task, file, ownership and lease
  held,         \* replies that a caller of consume holds
  pc,           \* where each thread stands
  todo,         \* tasks that close still has to drain
  closing       \* how the calls of close went

vars == <<entries, processing, transferred, closed, reserved, pending, reply,
          held, pc, todo, closing>>

Lease == [streams_closed : BOOLEAN, released : BOOLEAN, cache_owned : BOOLEAN]

\* owned: "none" without a generated file, else whether cleanup is still to do.
Reply == [task : Tasks \cup {None}, file : Files \cup {None},
          owned : {"fresh", "none", "open", "closed"}, lease : Lease \cup {None}]

Thread == [at : {"idle", "claimed", "cleanup", "remove", "unclaim", "wait",
                 "asleep", "drain"},
           task : Tasks \cup {None}, by : {"consume", "discard", "close", None}]

Idle == [at |-> "idle", task |-> None, by |-> None]

Init ==
  /\ entries = [t \in Tasks |-> None]
  /\ processing = {} /\ transferred = {} /\ reserved = {} /\ pending = {}
  /\ closed = FALSE
  /\ reply = [r \in Replies |->
                [task |-> None, file |-> None, owned |-> "fresh", lease |-> None]]
  /\ held = {}
  /\ pc = [th \in Threads |-> Idle]
  /\ todo = {}
  /\ closing = [calls |-> 0, failed |-> FALSE, result |-> None]

----------------------------------------------------------------------------
(* Helpers.                                                                *)

idle(th) == pc[th] = Idle

entry(th) == entries[pc[th].task]

goto(th, at) == pc' = [pc EXCEPT ![th].at = at]

\* A thread leaves its claim: close goes on with the next entry.  Threads that
\* wait for the condition are notified.
leave(th) ==
  pc' = [x \in Threads |->
           IF pc[x].at = "asleep" THEN [pc[x] EXCEPT !.at = "wait"]
           ELSE IF x # th THEN pc[x]
           ELSE IF pc[th].by = "close" THEN [Idle EXCEPT !.at = "drain", !.by = "close"]
           ELSE Idle]

\* GeneratedFileOwnership.cleanup: idempotent, may raise.
cleanup_may_end(r, ok) == ok \/ (CleanupFaults /\ reply[r].owned = "open")

cleaned(r) == IF reply[r].owned = "open" THEN "closed" ELSE reply[r].owned

\* DiscordDeliveryLease._close_locked with _release_transferred: streamsOk and
\* cleanupOk say whether closing the streams and removing the file succeeds.
\* The lease is closed when both have, now or earlier.
releases(r, cleanupOk) == ~reply[r].lease.released /\ r \in transferred /\ cleanupOk

closes(r, streamsOk, cleanupOk) ==
  /\ reply[r].lease.streams_closed \/ streamsOk
  /\ reply[r].lease.released \/ releases(r, cleanupOk)

close_locked(r, streamsOk, cleanupOk, byCache) ==
  /\ streamsOk \/ StreamFaults
  /\ cleanup_may_end(r, cleanupOk)
  /\ IF releases(r, cleanupOk)
       THEN transferred' = transferred \ {r} /\ reserved' = reserved \ {reply[r].file}
       ELSE UNCHANGED <<transferred, reserved>>
  /\ reply' = [reply EXCEPT
       ![r].owned = IF releases(r, cleanupOk) THEN cleaned(r) ELSE @,
       ![r].lease = [streams_closed |-> @.streams_closed \/ streamsOk,
                     released |-> @.released \/ releases(r, cleanupOk),
                     cache_owned |-> byCache /\ ~closes(r, streamsOk, cleanupOk)]]

----------------------------------------------------------------------------
(* Operations.                                                             *)

\* validate_cache_put and the registry's check.
can_put(t, r, f) ==
  /\ ~closed
  /\ entries[t] = None
  /\ \A x \in transferred : reply[x].task # t
  /\ reply[r].owned = "fresh"
  /\ f \notin reserved

\* put: the generated file, if there is one, moves into quarantine.
Put(th, t, r, f) ==
  /\ idle(th)
  /\ can_put(t, r, f)
  /\ entries' = [entries EXCEPT ![t] = r]
  /\ reply' = [reply EXCEPT ![r].task = t, ![r].file = f,
                            ![r].owned = IF f = None THEN "none" ELSE "open"]
  /\ reserved' = reserved \cup ({f} \ {None})
  /\ UNCHANGED <<processing, transferred, closed, pending, held, pc, todo, closing>>

\* put, where the quarantine fails after the move and cannot be undone.
PutFails(th, t, r, f) ==
  /\ idle(th)
  /\ can_put(t, r, f) /\ f # None
  /\ CleanupFaults
  /\ reply' = [reply EXCEPT ![r].task = t, ![r].file = f, ![r].owned = "open"]
  /\ pending' = pending \cup {r}
  /\ reserved' = reserved \cup {f}
  /\ UNCHANGED <<entries, processing, transferred, closed, held, pc, todo, closing>>

\* _claim, in consume and discard.
Claim(th, t, operation) ==
  /\ idle(th)
  /\ ~closed
  /\ t \notin processing /\ entries[t] # None
  /\ processing' = processing \cup {t}
  /\ pc' = [pc EXCEPT ![th] = [at |-> IF operation = "consume" THEN "claimed" ELSE "cleanup",
                               task |-> t, by |-> operation]]
  /\ UNCHANGED <<entries, transferred, closed, reserved, pending, reply, held,
                 todo, closing>>

\* A defect for comparison: the thread that waits in close is not notified.
TransferSilently(th) ==
  LET r == entry(th)
  IN /\ pc[th].at = "claimed"
     /\ reply[r].lease = None
     /\ transferred' = transferred \cup {r}
     /\ reply' = [reply EXCEPT ![r].lease = [streams_closed |-> FALSE, released |-> FALSE,
                                             cache_owned |-> FALSE]]
     /\ entries' = [entries EXCEPT ![pc[th].task] = None]
     /\ processing' = processing \ {pc[th].task}
     /\ held' = held \cup {r}
     /\ pc' = [pc EXCEPT ![th] = Idle]
     /\ UNCHANGED <<closed, reserved, pending, todo, closing>>

\* consume of a new reply: its files are pinned and _transfer_claimed hands
\* out the lease.
Transfer(th) ==
  LET r == entry(th)
  IN /\ pc[th].at = "claimed"
     /\ reply[r].lease = None
     /\ transferred' = transferred \cup {r}
     /\ reply' = [reply EXCEPT ![r].lease = [streams_closed |-> FALSE, released |-> FALSE,
                                             cache_owned |-> FALSE]]
     /\ entries' = [entries EXCEPT ![pc[th].task] = None]
     /\ processing' = processing \ {pc[th].task}
     /\ held' = held \cup {r}
     /\ leave(th)
     /\ UNCHANGED <<closed, reserved, pending, todo, closing>>

\* consume of a restored reply: activate_for_delivery hands its lease out again.
Activate(th) ==
  LET r == entry(th)
  IN /\ pc[th].at = "claimed"
     /\ reply[r].lease # None
     /\ reply[r].lease = [streams_closed |-> FALSE, released |-> FALSE, cache_owned |-> TRUE]
     /\ reply' = [reply EXCEPT ![r].lease.cache_owned = FALSE]
     /\ entries' = [entries EXCEPT ![pc[th].task] = None]
     /\ processing' = processing \ {pc[th].task}
     /\ held' = held \cup {r}
     /\ leave(th)
     /\ UNCHANGED <<transferred, closed, reserved, pending, todo, closing>>

\* consume, where the files no longer validate (DeliveryFileError: the entry
\* is disposed of) or anything else is raised, an inactive lease included.
ConsumeFails(th, next) ==
  /\ pc[th].at = "claimed"
  /\ goto(th, next)
  /\ UNCHANGED <<entries, processing, transferred, closed, reserved, pending,
                 reply, held, todo, closing>>

\* _cleanup_entry in consume, discard and close: close_from_cache for a lease,
\* else the generated file itself.
Cleanup(th, streamsOk, cleanupOk) ==
  LET r == entry(th)
  IN /\ pc[th].at = "cleanup"
     /\ \/ /\ reply[r].lease = None
           /\ streamsOk /\ cleanup_may_end(r, cleanupOk)
           /\ reply' = [reply EXCEPT ![r].owned = IF cleanupOk THEN cleaned(r) ELSE @]
           /\ goto(th, IF cleanupOk THEN "remove" ELSE "unclaim")
           /\ UNCHANGED <<transferred, reserved>>
        \/ /\ reply[r].lease # None
           /\ reply[r].lease.cache_owned
           /\ close_locked(r, streamsOk, cleanupOk, TRUE)
           /\ goto(th, IF closes(r, streamsOk, cleanupOk) THEN "remove" ELSE "unclaim")
     /\ UNCHANGED <<entries, processing, closed, pending, held, todo, closing>>

\* _remove_claimed with release_reservation.
Remove(th) ==
  /\ pc[th].at = "remove"
  /\ entries' = [entries EXCEPT ![pc[th].task] = None]
  /\ processing' = processing \ {pc[th].task}
  /\ reserved' = reserved \ {reply[entry(th)].file}
  /\ leave(th)
  /\ UNCHANGED <<transferred, closed, pending, reply, held, todo, closing>>

\* _unclaim; close remembers that it met an error.
Unclaim(th) ==
  /\ pc[th].at = "unclaim"
  /\ processing' = processing \ {pc[th].task}
  /\ closing' = [closing EXCEPT !.failed = @ \/ pc[th].by = "close"]
  /\ leave(th)
  /\ UNCHANGED <<entries, transferred, closed, reserved, pending, reply, held, todo>>

\* A defect for comparison: the entry is restored while the caller keeps it.
RestoreKeepingLease(th, r) ==
  LET t == reply[r].task
      lease == reply[r].lease
  IN /\ idle(th)
     /\ r \in held
     /\ ~lease.cache_owned /\ ~lease.streams_closed /\ ~lease.released
     /\ r \in transferred
     /\ ~closed
     /\ entries[t] = None /\ t \notin processing
     /\ entries' = [entries EXCEPT ![t] = r]
     /\ reply' = [reply EXCEPT ![r].lease.cache_owned = TRUE]
     /\ UNCHANGED <<processing, transferred, closed, reserved, pending, held, pc,
                    todo, closing>>

\* restore, after a delivery that definitely did not happen; where a check
\* fails it raises and changes nothing.
Restore(th, r) ==
  LET t == reply[r].task
      lease == reply[r].lease
  IN /\ idle(th)
     /\ r \in held
     /\ ~lease.cache_owned /\ ~lease.streams_closed /\ ~lease.released
     /\ r \in transferred
     /\ ~closed
     /\ entries[t] = None /\ t \notin processing
     /\ entries' = [entries EXCEPT ![t] = r]
     /\ reply' = [reply EXCEPT ![r].lease.cache_owned = TRUE]
     /\ held' = held \ {r}
     /\ UNCHANGED <<processing, transferred, closed, reserved, pending, pc, todo,
                    closing>>

\* DiscordDeliveryLease.close by the caller, after any other end of a delivery
\* and again from DiscordTaskDelivery.close until it succeeds.
CloseLease(th, r, streamsOk, cleanupOk) ==
  /\ idle(th)
  /\ r \in held
  /\ ~reply[r].lease.cache_owned
  /\ close_locked(r, streamsOk, cleanupOk, FALSE)
  /\ held' = IF closes(r, streamsOk, cleanupOk) THEN held \ {r} ELSE held
  /\ UNCHANGED <<entries, processing, closed, pending, pc, todo, closing>>

----------------------------------------------------------------------------
(* close, one call at a time.                                              *)

Close(th) ==
  /\ idle(th)
  /\ closing.calls < MaxCloses /\ \A x \in Threads : pc[x].by # "close"
  /\ closed' = TRUE
  /\ closing' = [calls |-> closing.calls + 1, failed |-> FALSE, result |-> None]
  /\ pc' = [pc EXCEPT ![th] = [Idle EXCEPT !.at = "wait", !.by = "close"]]
  /\ UNCHANGED <<entries, processing, transferred, reserved, pending, reply,
                 held, todo>>

\* The loop around Condition.wait, and the list of tasks taken after it.
CloseWaits(th) ==
  /\ pc[th].at = "wait"
  /\ \/ processing # {} /\ goto(th, "asleep") /\ UNCHANGED todo
     \/ /\ processing = {} /\ goto(th, "drain")
        /\ todo' = {t \in Tasks : entries[t] # None}
  /\ UNCHANGED <<entries, processing, transferred, closed, reserved, pending,
                 reply, held, closing>>

\* _claim of the next entry; one that is gone or claimed is skipped.
DrainNext(th, t) ==
  LET claims == entries[t] # None /\ t \notin processing
  IN /\ pc[th].at = "drain"
     /\ t \in todo
     /\ todo' = todo \ {t}
     /\ processing' = IF claims THEN processing \cup {t} ELSE processing
     /\ pc' = IF claims THEN [pc EXCEPT ![th].at = "cleanup", ![th].task = t] ELSE pc
     /\ UNCHANGED <<entries, transferred, closed, reserved, pending, reply, held,
                    closing>>

\* drain_pending, and the end of close.
DrainPending(th, done) ==
  /\ pc[th].at = "drain" /\ todo = {}
  /\ done = pending \/ CleanupFaults
  /\ reply' = [r \in Replies |-> IF r \in done THEN [reply[r] EXCEPT !.owned = cleaned(r)]
                                               ELSE reply[r]]
  /\ pending' = pending \ done
  /\ reserved' = reserved \ {reply[r].file : r \in done}
  /\ closing' = [closing EXCEPT !.result =
                   IF closing.failed \/ done # pending THEN "raised" ELSE "returned"]
  /\ pc' = [pc EXCEPT ![th] = Idle]
  /\ UNCHANGED <<entries, processing, transferred, closed, held, todo>>

----------------------------------------------------------------------------

\* What a thread does inside an operation that it has begun.
Step(th) ==
  \/ Transfer(th) \/ Activate(th)
  \/ \E next \in {"cleanup", "unclaim"} : ConsumeFails(th, next)
  \/ \E streamsOk, cleanupOk \in BOOLEAN : Cleanup(th, streamsOk, cleanupOk)
  \/ Remove(th) \/ Unclaim(th)
  \/ CloseWaits(th)
  \/ \E t \in Tasks : DrainNext(th, t)
  \/ \E done \in SUBSET pending : DrainPending(th, done)

Call(th) ==
  \/ \E t \in Tasks, r \in Replies, f \in Files \cup {None} : Put(th, t, r, f)
  \/ \E t \in Tasks, r \in Replies, f \in Files : PutFails(th, t, r, f)
  \/ \E t \in Tasks, operation \in {"consume", "discard"} : Claim(th, t, operation)
  \/ \E r \in Replies : Restore(th, r)
  \/ \E r \in Replies, streamsOk, cleanupOk \in BOOLEAN :
       CloseLease(th, r, streamsOk, cleanupOk)
  \/ Close(th)

Next == \E th \in Threads : Step(th) \/ Call(th)

Spec == Init /\ [][Next]_vars

\* Threads run: an operation that was begun goes on.  No one has to call.
Fairness == \A th \in Threads : WF_vars(Step(th))

FairSpec == Spec /\ Fairness

----------------------------------------------------------------------------
(* Properties.                                                             *)

\* Types of the cache's variables.
CacheTypeOK ==
  /\ entries \in [Tasks -> Replies \cup {None}]
  /\ processing \subseteq Tasks /\ todo \subseteq Tasks
  /\ transferred \subseteq Replies /\ held \subseteq Replies /\ pending \subseteq Replies
  /\ closed \in BOOLEAN
  /\ reserved \subseteq Files
  /\ reply \in [Replies -> Reply]
  /\ pc \in [Threads -> Thread]
  /\ closing \in [calls : Nat, failed : BOOLEAN, result : {None, "raised", "returned"}]

\* A reply belongs to the cache or to a caller, never to both: what one sends
\* or closes is not consumed, discarded or drained by another.
OneHolder ==
  \A r \in held :
    /\ \A t \in Tasks : entries[t] # r
    /\ ~reply[r].lease.cache_owned

\* No generated file is forgotten: while one is not cleaned up, the cache, a
\* caller's lease or the list of pending cleanups still leads to it, whatever
\* failed in between.
NothingForgotten ==
  \A r \in Replies :
    reply[r].owned = "open" =>
      \/ \E t \in Tasks : entries[t] = r
      \/ r \in pending
      \/ r \in held /\ r \in transferred

\* "Drain cached work; active transferred leases remain caller-owned": after a
\* close that returned normally only callers have anything left to clean up.
CloseDrains ==
  closing.result = "returned" =>
    /\ \A t \in Tasks : entries[t] = None
    /\ pending = {} /\ processing = {}
    /\ \A r \in Replies : reply[r].owned = "open" => r \in held

\* Whatever resists cleanup and whichever threads race with close, each reply
\* has exactly one party that will dispose of it: one holder, nothing that
\* nobody holds, and after close nothing that the cache holds.
RepliesHaveHolder == OneHolder /\ NothingForgotten /\ CloseDrains

\* close returns: the threads it waits for end their claims and notify it.
CloseReturns ==
  closing.result = None /\ closing.calls > 0 ~> closing.result # None
============================================================================

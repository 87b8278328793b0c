----------------------- MODULE GitHubMirrorPublisher -----------------------
(***************************************************************************)
(* The card of a mirrored item: webhooks that change the record (web.py),  *)
(* the worker that publishes it (discord_bot.py) and the publication       *)
(* itself (github_mirror_publisher.py) between its Discord requests.       *)
(*                                                                         *)
(* A publication runs from one await to the next in one step.  What such a *)
(* step may come to is a set of results, each with the stored record and   *)
(* the place of the next await, because every write may fail on the way.   *)
(* pub.at names the await:                                                 *)
(*   "resolve"   resolve_mirror_channel                                    *)
(*   "find"      looking for cards of an earlier attempt                   *)
(*   "send"      channel.send                                              *)
(*   "recheck"   looking for the card of a send that raised                *)
(*   "undo"      deleting cards that could not be attached                 *)
(*   "fetch"     channel.fetch_message                                     *)
(*   "edit"      _render_card in _finish_attached_card                     *)
(*   "catch_up"  _render_card in _reconcile_card                           *)
(*   "duplicates", "remove"   _cleanup_duplicates                          *)
(*   "refresh"   _render_card in _cleanup_duplicates                       *)
(*   "leftovers", "discard"   the same search in _replace_missing_card     *)
(***************************************************************************)
EXTENDS GitHubMirrorRecord, FiniteSets

CONSTANTS
    RECONCILE_ATTEMPTS,
    WriteOutcomes,   \* how a write may end
    Copies,          \* how many messages a send that the library repeats may post
    HistoryNonces,   \* whether Discord's history returns the nonces of messages
    MaxUpdates,      \* bounds: changes by webhooks and actions,
    MaxFaults,       \* requests and writes that fail,
    MaxDeletions,    \* messages that moderators delete,
    MaxCrashes,      \* process ends,
    MaxQueue         \* entries of the worker's queue

\* The records of the store, but for what actions on the card keep in them.
Record ==
    [revision : Nat, card : Nat \cup {None}, create : Nat \cup {None}, cleanup : Nat \cup {None},
     publication_pending : BOOLEAN, thread : {None}, state : {"draft", "open", "closed", "merged"},
     time : Nat, shows : {e.delivery : e \in Events}, deliveries : Seq({e.delivery : e \in Events}),
     pending_action : {None}, active : {None}, handled : {<<>>}]

ASSUME PublisherAssumption ==
    /\ None \notin Nat \cup Record
    /\ RECONCILE_ATTEMPTS \in Nat \ {0}
    /\ WriteOutcomes \subseteq {"ok", "failed", "unsynced"} /\ "ok" \in WriteOutcomes
    /\ Copies \subseteq {1, 2} /\ 1 \in Copies
    /\ HistoryNonces \in BOOLEAN
    /\ \A n \in {MaxUpdates, MaxFaults, MaxDeletions, MaxCrashes, MaxQueue} : n \in Nat

VARIABLES
    mirror,    \* the stored record, or None
    channel,   \* the item's messages in the Discord channel
    queue,     \* how often the item is queued for the worker
    pub,       \* the worker's publication
    used,      \* messages and nonces so far, updates, faults, deletions, process ends
    seen       \* the events that were delivered

vars == <<mirror, channel, queue, pub, used, seen>>

\* Each message or nonce after the first follows a fault, a deletion or a process end.
Messages == 1..(1 + MaxFaults + MaxDeletions + MaxCrashes)
Nonces == Messages

Idle == [at |-> "idle", record |-> None, rendered |-> None, message |-> None, todo |-> {},
         after |-> "delivered", removed |-> TRUE, raises |-> FALSE,
         loops |-> 0, redirects |-> 0, tries |-> 0]

Init ==
    /\ mirror = None
    /\ channel = <<>>
    /\ queue = 0
    /\ pub = Idle
    /\ used = [messages |-> 0, nonces |-> 0, updates |-> 0, faults |-> 0, deletions |-> 0, crashes |-> 0]
    /\ seen = {}

-----------------------------------------------------------------------------
\* A result of a step: the record that is stored, where the publication is now, and how
\* many writes of it failed.
Result(m, s) == {[mirror |-> m, pub |-> s, faults |-> 0]}
Raised(m, k) == [mirror |-> m, pub |-> Idle, faults |-> k]

\* _commit(): a write that fails raises, and one that is not synced raises although it is
\* in the file.
Committed(m, new, then(_)) ==
    IF new = m THEN then(m)
    ELSE UNION {CASE o = "ok" -> then(new)
                  [] o = "failed" -> {Raised(m, 1)}
                  [] o = "unsynced" -> {Raised(new, 1)} : o \in WriteOutcomes}

\* _finish_attached_card(): up to the first request.  message is the one at hand, or None.
FinishAttached(m, s, r, message, redirects) ==
    IF redirects >= RECONCILE_ATTEMPTS THEN Result(m, Idle)
    ELSE Result(m, [s EXCEPT !.at = IF message = r.card THEN "edit" ELSE "fetch",
                             !.record = r, !.rendered = r, !.message = r.card,
                             !.redirects = redirects, !.tries = 0, !.after = "cleanup"])

\* _create_card(): up to the first request.
CreateCard(m, s) ==
    IF claimable(m)
    THEN Committed(m, claim_card_record(m, used.nonces + 1),
                   LAMBDA new : Result(new, [s EXCEPT !.at = "send", !.record = new]))
    ELSE IF m.card # None THEN FinishAttached(m, s, m, None, 0)
    ELSE Result(m, [s EXCEPT !.at = "find", !.record = m])

\* The body of publish_staged()'s loop, up to the first request.
Iterate(m, s) ==
    IF m.card = None THEN CreateCard(m, s) ELSE FinishAttached(m, s, m, None, 0)

\* The card was delivered: the publication is completed, or goes round once more.  After an
\* attachment whose durability is uncertain the error is raised instead.
Delivered(m, s, r) ==
    IF s.raises THEN Result(m, Idle)
    ELSE Committed(m, complete_publication(m, r.revision),
                   LAMBDA new : IF ~new.publication_pending \/ s.loops + 1 >= RECONCILE_ATTEMPTS
                                THEN Result(new, Idle)
                                ELSE Iterate(new, [s EXCEPT !.loops = @ + 1]))

\* What follows a card that was brought up to date with the stored record.
Retained(m, s, r) ==
    IF r.card # s.message THEN FinishAttached(m, s, r, None, s.redirects + 1)
    ELSE IF s.after = "cleanup" /\ r.cleanup # None
    THEN Result(m, [s EXCEPT !.at = "duplicates", !.rendered = r])
    ELSE Delivered(m, s, r)

\* Mutant: the newest record is returned without being rendered.
ReconcileUnrendered(m, s) == Retained(m, s, m)

\* _reconcile_card() between two requests; s.rendered is what the card shows.
Reconcile(m, s) ==
    IF m.card # s.message \/ m.revision = s.rendered.revision THEN Retained(m, s, m)
    ELSE IF s.tries >= RECONCILE_ATTEMPTS THEN Result(m, Idle)
    ELSE Result(m, [s EXCEPT !.at = "catch_up", !.rendered = m, !.tries = @ + 1])

\* _cleanup_duplicates() after the last removal; s.rendered is the record it was called with.
CleanedUp(m, s) ==
    Committed(m, complete_card_cleanup(m, s.rendered.cleanup),
              LAMBDA new : IF signature(new) = signature(s.rendered)
                           THEN Retained(new, [s EXCEPT !.after = "delivered"], new)
                           ELSE Result(new, [s EXCEPT !.at = "refresh", !.rendered = new,
                                                      !.after = "delivered", !.tries = 0]))

\* _replace_missing_card() after its search; s.record is the record that named the card.
Replace(m, s) ==
    LET clear(n) == Committed(n, clear_card_if_matches(n, s.record.card),
                              LAMBDA new : Iterate(new, s))
    IN IF s.record.cleanup = None THEN clear(m)
       ELSE Committed(m, complete_card_cleanup(m, s.record.cleanup), clear)

MissingCard(m, s) ==
    IF s.record.cleanup = None THEN Replace(m, s)
    ELSE Result(m, [s EXCEPT !.at = "leftovers"])

\* _attach_created_cards() up to the first request.
Attach(m, s, messages) ==
    LET message == CHOOSE i \in messages : \A j \in messages : i <= j
        nonce == s.record.create
        undo == [s EXCEPT !.at = "undo", !.todo = messages, !.removed = TRUE]
        new == attach_card_if_missing(m, message, nonce)
        attached(o) ==
            CASE o = "ok" -> FinishAttached(new, s, new, message, 0)
              [] o = "failed" -> {[mirror |-> m, pub |-> undo, faults |-> 1]}
              [] o = "unsynced" ->
                   {[q EXCEPT !.faults = 1] :
                      q \in FinishAttached(new, [s EXCEPT !.raises = TRUE], new, message, 0)}
    IN IF attach_conflicts(m, nonce) THEN Result(m, undo)
       ELSE UNION {attached(o) : o \in IF new = m THEN {"ok"} ELSE WriteOutcomes}

\* The request of the publication ends, with faults failures, and one of the results is
\* what it goes on with.
Continue(results, faults) ==
    \E q \in results :
       /\ used.faults + q.faults + faults <= MaxFaults
       /\ mirror' = q.mirror
       /\ pub' = q.pub
       /\ used' = [used EXCEPT !.faults = @ + q.faults + faults,
                               !.messages = @ + Cardinality(DOMAIN channel' \ DOMAIN channel),
                               !.nonces = IF q.mirror.create \in {None, mirror.create} THEN @ ELSE @ + 1]
       /\ UNCHANGED <<queue, seen>>

-----------------------------------------------------------------------------
\* Discord.  The client library repeats a request after a server error, so one send may
\* post a card several times; only the last one is returned.
Posted(copies) ==
    LET new == (used.messages + 1)..(used.messages + copies)
    IN [i \in DOMAIN channel \cup new |->
          IF i \in new THEN [nonce |-> pub.record.create, marker |-> delivery_marker(pub.record),
                             shows |-> signature(pub.record)]
          ELSE channel[i]]

Edited == [channel EXCEPT ![pub.message].marker = delivery_marker(pub.rendered),
                          ![pub.message].shows = signature(pub.rendered)]

Without(messages) == [i \in DOMAIN channel \ messages |-> channel[i]]

\* find_bot_delivery_messages()
Matches(nonce) ==
    {i \in DOMAIN channel : \/ channel[i].marker = nonce
                            \/ HistoryNonces /\ channel[i].nonce = nonce}

Editing == pub.at \in {"edit", "catch_up", "refresh"}

\* What a request that was cut off may have done.
InFlight ==
    CASE pub.at = "send" -> {channel, Posted(1)}
      [] Editing /\ pub.message \in DOMAIN channel -> {channel, Edited}
      [] pub.at \in {"undo", "remove", "discard"} -> {Without({i}) : i \in pub.todo} \cup {channel}
      [] OTHER -> {channel}

-----------------------------------------------------------------------------
Resolved ==
    /\ pub.at = "resolve"
    /\ UNCHANGED channel
    /\ Continue(Iterate(mirror, pub), 0)

Found ==
    /\ pub.at = "find"
    /\ UNCHANGED channel
    /\ LET matches == Matches(pub.record.create)
       IN Continue(IF matches = {} THEN Result(mirror, [pub EXCEPT !.at = "send"])
                   ELSE Attach(mirror, pub, matches), 0)

Sent ==
    /\ pub.at = "send"
    /\ \E copies \in Copies :
          /\ channel' = Posted(copies)
          /\ Continue(Attach(mirror, pub, {used.messages + copies}), copies - 1)

\* discord.Forbidden: nothing was posted, and the claim is given back.
SendForbidden ==
    /\ pub.at = "send"
    /\ UNCHANGED channel
    /\ Continue(Committed(mirror, release_card_creation(mirror, pub.record.create),
                          LAMBDA new : Result(new, Idle)), 1)

\* Mutant: every failed send gives the claim back.
SendFailsReleasing ==
    /\ pub.at = "send"
    /\ channel' \in InFlight
    /\ Continue(Committed(mirror, release_card_creation(mirror, pub.record.create),
                          LAMBDA new : Result(new, Idle)), 1)

\* discord.HTTPException: the card may have been posted all the same.
SendFails ==
    /\ pub.at = "send"
    /\ channel' \in InFlight
    /\ Continue(Result(mirror, [pub EXCEPT !.at = "recheck"]), 1)

Rechecked ==
    /\ pub.at = "recheck"
    /\ UNCHANGED channel
    /\ LET matches == Matches(pub.record.create)
       IN Continue(IF matches = {} THEN Result(mirror, Idle) ELSE Attach(mirror, pub, matches), 0)

\* _delete_uncommitted_cards(): the claim is given back if every card is gone.
Undone ==
    /\ pub.at = "undo"
    /\ \E i \in pub.todo, deleted \in BOOLEAN :
          LET s == [pub EXCEPT !.todo = @ \ {i}, !.removed = @ /\ deleted]
          IN /\ channel' = IF deleted THEN Without({i}) ELSE channel
             /\ Continue(IF s.todo # {} THEN Result(mirror, s)
                         ELSE IF ~s.removed THEN Result(mirror, Idle)
                         ELSE Committed(mirror, release_card_creation(mirror, pub.record.create),
                                        LAMBDA new : Result(new, Idle)),
                         IF deleted THEN 0 ELSE 1)

Fetched ==
    /\ pub.at = "fetch"
    /\ UNCHANGED channel
    /\ Continue(IF pub.message \in DOMAIN channel THEN Result(mirror, [pub EXCEPT !.at = "edit"])
                ELSE MissingCard(mirror, pub), 0)

\* A card that is gone raises discord.NotFound wherever it is edited.
Rendered ==
    /\ Editing
    /\ IF pub.message \in DOMAIN channel
       THEN channel' = Edited /\ Continue(Reconcile(mirror, pub), 0)
       ELSE channel' = channel /\ Continue(MissingCard(mirror, pub), 0)

DuplicatesFound ==
    /\ pub.at = "duplicates"
    /\ UNCHANGED channel
    /\ LET todo == Matches(pub.rendered.cleanup) \ {pub.message}
       IN Continue(IF todo = {} THEN CleanedUp(mirror, pub)
                   ELSE Result(mirror, [pub EXCEPT !.at = "remove", !.todo = todo]), 0)

LeftoversFound ==
    /\ pub.at = "leftovers"
    /\ UNCHANGED channel
    /\ LET todo == Matches(pub.record.cleanup)
       IN Continue(IF todo = {} THEN Replace(mirror, pub)
                   ELSE Result(mirror, [pub EXCEPT !.at = "discard", !.todo = todo]), 0)

\* A card was deleted, or was gone already.
Removed ==
    /\ pub.at \in {"remove", "discard"}
    /\ \E i \in pub.todo :
          LET s == [pub EXCEPT !.todo = @ \ {i}]
          IN /\ channel' = Without({i})
             /\ Continue(IF s.todo # {} THEN Result(mirror, s)
                         ELSE IF pub.at = "remove" THEN CleanedUp(mirror, s)
                         ELSE Replace(mirror, s), 0)

\* Any other exception ends the publication.
RequestFails ==
    /\ pub.at \notin {"idle", "undo"}
    /\ channel' \in InFlight
    /\ Continue(Result(mirror, Idle), 1)

Publication ==
    \/ Resolved \/ Found \/ Sent \/ SendForbidden \/ SendFails \/ Rechecked \/ Undone
    \/ Fetched \/ Rendered \/ DuplicatesFound \/ LeftoversFound \/ Removed \/ RequestFails

-----------------------------------------------------------------------------
\* github_webhook(): the item is queued if it has something to publish; a redelivery of a
\* remembered event queues it again.
Webhook(e) ==
    LET new == upsert_event(mirror, e) IN
    \E o \in IF new = mirror THEN {"ok"} ELSE WriteOutcomes :
       /\ new # mirror => used.updates < MaxUpdates
       /\ o # "ok" => used.faults < MaxFaults
       /\ mirror' = IF o = "failed" THEN mirror ELSE new
       /\ seen' = IF o = "failed" THEN seen ELSE seen \cup {e}
       /\ queue' = IF o = "ok" /\ new.publication_pending /\ queue < MaxQueue THEN queue + 1 ELSE queue
       /\ used' = [used EXCEPT !.updates = IF new = mirror THEN @ ELSE @ + 1,
                               !.faults = IF o = "ok" THEN @ ELSE @ + 1]
       /\ UNCHANGED <<channel, pub>>

\* An action on the card changes the record (GitHubMirrorTaskStarter).
ActionStored ==
    /\ mirror # None
    /\ used.updates < MaxUpdates
    /\ mirror' = updated_record(mirror)
    /\ used' = [used EXCEPT !.updates = @ + 1]
    /\ UNCHANGED <<channel, queue, pub, seen>>

\* _notification_worker() takes the item from the queue: publish_staged().
Begin ==
    /\ pub.at = "idle"
    /\ queue > 0
    /\ queue' = queue - 1
    /\ pub' = [Idle EXCEPT !.at = "resolve"]
    /\ UNCHANGED <<mirror, channel, used, seen>>

\* _enqueue_pending_publications(), every minute.
Sweep ==
    /\ mirror # None
    /\ publication_is_pending(mirror)
    /\ queue < MaxQueue
    /\ queue' = queue + 1
    /\ UNCHANGED <<mirror, channel, pub, used, seen>>

Moderate(i) ==
    /\ used.deletions < MaxDeletions
    /\ channel' = Without({i})
    /\ used' = [used EXCEPT !.deletions = @ + 1]
    /\ UNCHANGED <<mirror, queue, pub, seen>>

\* The process ends and starts; setup_hook() queues what is pending.
Restart ==
    /\ used.crashes < MaxCrashes
    /\ channel' \in InFlight
    /\ pub' = Idle
    /\ queue' = IF mirror # None /\ publication_is_pending(mirror) THEN 1 ELSE 0
    /\ used' = [used EXCEPT !.crashes = @ + 1,
                            !.messages = @ + Cardinality(DOMAIN channel' \ DOMAIN channel)]
    /\ UNCHANGED <<mirror, seen>>

Next ==
    \/ Publication
    \/ \E e \in Events : Webhook(e)
    \/ ActionStored
    \/ Begin
    \/ Sweep
    \/ \E i \in DOMAIN channel : Moderate(i)
    \/ Restart

Spec == Init /\ [][Next]_vars

\* Every Discord request ends, the worker takes what is queued, and the sweep runs.
FairSpec == Spec /\ WF_vars(Publication) /\ WF_vars(Begin) /\ WF_vars(Sweep)

-----------------------------------------------------------------------------
\* The point of nonce and marker: a card in the channel is the attached one, or the stored
\* record still knows the nonce under which a later publication finds and removes it.
\* No operation asks for a record that __post_init__ rejects on the way.
NoStrayCard ==
    /\ mirror # None => constructible(mirror)
    /\ \A i \in DOMAIN channel :
          \/ i = mirror.card
          \/ channel[i].marker # None /\ channel[i].marker \in {mirror.create, mirror.cleanup}

\* A completed publication is not stale: whatever webhooks arrived during the edits, late,
\* out of order or twice, the card shows the item's stored content (_reconcile_card() edits
\* until the stored revision is the rendered one), and that is the newest event's.
PublishedIsCurrent ==
    mirror # None /\ ~mirror.publication_pending /\ mirror.card \in DOMAIN channel
       => /\ channel[mirror.card].shows = signature(mirror)
          /\ \E e \in seen : /\ e.delivery = mirror.shows
                            /\ \A f \in seen : f.time <= e.time

\* Whatever fails on the way, every item ends with one card at most and nothing pending.
EventuallyPublished ==
    <>[](mirror # None => ~publication_is_pending(mirror) /\ DOMAIN channel \subseteq {mirror.card})
=============================================================================

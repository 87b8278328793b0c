--------------------- MODULE DiscordDeliveryCacheProofs ---------------------
(***************************************************************************)
(* Every reply of the delivery cache has exactly one party that will       *)
(* dispose of it, for any number of threads, tasks, replies and files.     *)
(***************************************************************************)
EXTENDS DiscordDeliveryCache, TLAPS

----------------------------------------------------------------------------
(* The inductive invariant.                                                *)

\* The places of a thread between its claim of an entry and the end of it.
Claiming == {"claimed", "cleanup", "remove", "unclaim"}

\* What a thread remembers where it stands.
ThreadShapes ==
  \A th \in Threads :
    /\ pc[th].at = "idle" => pc[th] = Idle
    /\ pc[th].at = "claimed" => pc[th].by = "consume"
    /\ pc[th].at \in Claiming => pc[th].task \in Tasks /\ pc[th].by # None
    /\ pc[th].at \in {"wait", "asleep", "drain"} => pc[th].by = "close" /\ pc[th].task = None

\* A claim is for an entry that is there, and no two threads claim the same one.
ClaimsExclusive ==
  /\ \A th \in Threads : pc[th].at \in Claiming =>
       pc[th].task \in processing /\ entries[pc[th].task] # None
  /\ \A th, x \in Threads :
       pc[th].at \in Claiming /\ pc[x].at \in Claiming /\ pc[th].task = pc[x].task => th = x

\* A cached reply is cached under its own task only and nobody holds it; what may
\* still be open can be cleaned up by whoever holds it.
RepliesConsistent ==
  /\ \A t \in Tasks : entries[t] # None =>
       /\ reply[entries[t]].task = t
       /\ reply[entries[t]].owned # "fresh"
       /\ entries[t] \notin held
  /\ \A r \in Replies :
       /\ IF reply[r].owned = "fresh" THEN r \notin held /\ reply[r].lease = None
          ELSE reply[r].task \in Tasks
       /\ r \in held \/ reply[r].lease # None =>
            IF reply[r].lease.released THEN reply[r].owned # "open" ELSE r \in transferred
       /\ r \in held => reply[r].lease \in Lease /\ ~reply[r].lease.cache_owned
  /\ \A th \in Threads : pc[th].at = "remove" => reply[entries[pc[th].task]].owned # "open"

\* While close drains the cache nothing new comes in, and what it has not met yet is on
\* its list, unless it already knows that it will raise.
Draining ==
  /\ \A th \in Threads : pc[th].by = "close" => closed /\ closing.result = None
  /\ closing.result # None => closed
  /\ \A th, x \in Threads : pc[th].by = "close" /\ pc[x].by = "close" => th = x
  /\ \A th \in Threads : pc[th].at = "drain" => processing = {}
  /\ \A th \in Threads :
       pc[th].by = "close" /\ pc[th].at \in Claiming => processing = {pc[th].task}
  /\ \A th \in Threads :
       pc[th].by = "close" /\ pc[th].at \in Claiming \cup {"drain"} =>
         \A t \in Tasks : entries[t] # None =>
           t \in todo \/ t = pc[th].task \/ closing.failed
  /\ closing.result = "returned" =>
       /\ \A t \in Tasks : entries[t] = None
       /\ pending = {} /\ processing = {}

CacheInv ==
  /\ CacheTypeOK
  /\ ThreadShapes
  /\ ClaimsExclusive
  /\ RepliesConsistent
  /\ NothingForgotten
  /\ Draining
----------------------------------------------------------------------------
(* Each action preserves the invariant.                                    *)

\* A claimed entry is a cached reply.
LEMMA EntryFacts ==
  ASSUME CacheInv, NEW th \in Threads, pc[th].at \in Claiming
  PROVE  /\ pc[th] \in Thread /\ pc[th].task \in Tasks
         /\ entry(th) \in Replies
         /\ entry(th) = entries[pc[th].task]
         /\ reply[entry(th)] \in Reply
         /\ entry(th) \notin held
<1>1. pc[th] \in Thread /\ pc[th].task \in Tasks
  BY DEF CacheInv, CacheTypeOK, ThreadShapes
<1>2. entries[pc[th].task] # None /\ entries[pc[th].task] \in Replies \cup {None}
  BY <1>1 DEF CacheInv, CacheTypeOK, ClaimsExclusive
<1> QED
  BY <1>1, <1>2 DEF entry, CacheInv, CacheTypeOK, RepliesConsistent

\* Where the threads are after one of them left its claim.
LEMMA LeaveFacts ==
  ASSUME CacheTypeOK, NEW th \in Threads, leave(th)
  PROVE  /\ pc' \in [Threads -> Thread]
         /\ \A x \in Threads : pc[x].at = "asleep" =>
              pc'[x].at = "wait" /\ pc'[x].task = pc[x].task /\ pc'[x].by = pc[x].by
         /\ \A x \in Threads : pc[x].at # "asleep" /\ x # th => pc'[x] = pc[x]
         /\ pc[th].at # "asleep" =>
              pc'[th] = IF pc[th].by = "close" THEN [Idle EXCEPT !.at = "drain", !.by = "close"]
                        ELSE Idle
<1>1. \A x \in Threads : pc[x] \in Thread
  BY DEF CacheTypeOK
<1>2. [Idle EXCEPT !.at = "drain", !.by = "close"] \in Thread /\ Idle \in Thread
  BY DEF Idle, Thread
<1>3. \A x \in Threads :
        LET w == [pc[x] EXCEPT !.at = "wait"]
        IN  w \in Thread /\ w.at = "wait" /\ w.task = pc[x].task /\ w.by = pc[x].by
  BY <1>1 DEF Thread
<1> QED
  BY <1>1, <1>2, <1>3 DEF leave

\* The replies after a lease was closed as far as that was possible.
\* Where the threads are after one of them went on inside its operation.
LEMMA GotoFacts ==
  ASSUME CacheTypeOK, NEW th \in Threads,
         NEW at \in {"claimed", "cleanup", "remove", "unclaim", "wait", "asleep", "drain"},
         goto(th, at)
  PROVE  /\ pc' \in [Threads -> Thread]
         /\ pc'[th].at = at /\ pc'[th].task = pc[th].task /\ pc'[th].by = pc[th].by
         /\ \A x \in Threads \ {th} : pc'[x] = pc[x]
<1> DEFINE w == [pc[th] EXCEPT !.at = at]
<1>1. pc[th] \in Thread
  BY DEF CacheTypeOK
<1>2. w \in Thread /\ w.at = at /\ w.task = pc[th].task /\ w.by = pc[th].by
  BY <1>1 DEF Thread
<1>3. pc' = [pc EXCEPT ![th] = w]
  BY DEF goto
<1> HIDE DEF w
<1> QED
  BY <1>2, <1>3 DEF CacheTypeOK

LEMMA CloseLockedFacts ==
  ASSUME CacheTypeOK, NEW r \in Replies, reply[r].lease \in Lease,
         NEW streamsOk \in BOOLEAN, NEW cleanupOk \in BOOLEAN, NEW byCache \in BOOLEAN,
         close_locked(r, streamsOk, cleanupOk, byCache)
  PROVE  /\ reply' \in [Replies -> Reply]
         /\ \A x \in Replies \ {r} : reply'[x] = reply[x]
         /\ reply'[r].task = reply[r].task
         /\ reply'[r].lease \in Lease
         /\ reply'[r].lease.cache_owned = (byCache /\ ~closes(r, streamsOk, cleanupOk))
         /\ reply'[r].lease.released = (reply[r].lease.released \/ releases(r, cleanupOk))
         /\ reply'[r].owned = IF releases(r, cleanupOk) THEN cleaned(r) ELSE reply[r].owned
         /\ transferred' = IF releases(r, cleanupOk) THEN transferred \ {r} ELSE transferred
         /\ reserved' \subseteq reserved
<1> DEFINE o == IF releases(r, cleanupOk) THEN cleaned(r) ELSE reply[r].owned
           l == [streams_closed |-> reply[r].lease.streams_closed \/ streamsOk,
                 released |-> reply[r].lease.released \/ releases(r, cleanupOk),
                 cache_owned |-> byCache /\ ~closes(r, streamsOk, cleanupOk)]
<1>1. reply[r] \in Reply
  BY DEF CacheTypeOK
<1>2. o \in {"fresh", "none", "open", "closed"}
  BY <1>1 DEF cleaned, Reply
<1>3. l \in Lease
  BY DEF Lease
<1>4. reply' = [reply EXCEPT ![r].owned = o, ![r].lease = l]
  BY DEF close_locked
<1>5. /\ transferred' = IF releases(r, cleanupOk) THEN transferred \ {r} ELSE transferred
      /\ reserved' \subseteq reserved
  BY DEF close_locked
<1>6. /\ l.released = (reply[r].lease.released \/ releases(r, cleanupOk))
      /\ l.cache_owned = (byCache /\ ~closes(r, streamsOk, cleanupOk))
  OBVIOUS
<1> HIDE DEF l, o
<1>7. reply' \in [Replies -> Reply]
  BY <1>1, <1>2, <1>3, <1>4 DEF CacheTypeOK, Reply
<1>8. /\ \A x \in Replies \ {r} : reply'[x] = reply[x]
      /\ reply'[r].task = reply[r].task /\ reply'[r].lease = l /\ reply'[r].owned = o
  BY <1>1, <1>4 DEF CacheTypeOK, Reply
<1> QED
  BY <1>3, <1>5, <1>6, <1>7, <1>8 DEF o

\* put caches a prepared reply that nobody knew before.
LEMMA PutStep ==
  ASSUME CacheInv, NEW th \in Threads, NEW t \in Tasks, NEW r \in Replies,
         NEW f \in Files \cup {None}, Put(th, t, r, f)
  PROVE  CacheInv'
<1> USE CacheAssumption DEF Put, idle, can_put, CacheInv, CacheTypeOK, Reply, Lease, Thread,
                            Idle, Claiming
<1>1. CacheTypeOK'
  BY DEF CacheInv
<1>2. ThreadShapes'
  BY DEF ThreadShapes
<1>3. ClaimsExclusive'
  BY DEF ThreadShapes, ClaimsExclusive
<1>4. RepliesConsistent'
  BY DEF ThreadShapes, ClaimsExclusive, RepliesConsistent
<1>5. NothingForgotten'
  BY DEF ThreadShapes, ClaimsExclusive, RepliesConsistent, NothingForgotten
<1>6. Draining'
  BY DEF ThreadShapes, ClaimsExclusive, Draining
<1> QED
  BY <1>1, <1>2, <1>3, <1>4, <1>5, <1>6

\* put failed and its quarantine could not be undone: the reply is pending.
LEMMA PutFailsStep ==
  ASSUME CacheInv, NEW th \in Threads, NEW t \in Tasks, NEW r \in Replies, NEW f \in Files,
         PutFails(th, t, r, f)
  PROVE  CacheInv'
<1> USE CacheAssumption DEF PutFails, idle, can_put, CacheInv, CacheTypeOK, Reply, Lease,
                            Thread, Idle, Claiming
<1>1. CacheTypeOK'
  BY DEF CacheInv
<1>2. ThreadShapes'
  BY DEF ThreadShapes
<1>3. ClaimsExclusive'
  BY DEF ThreadShapes, ClaimsExclusive
<1>4. RepliesConsistent'
  BY DEF ThreadShapes, ClaimsExclusive, RepliesConsistent
<1>5. NothingForgotten'
  BY DEF ThreadShapes, ClaimsExclusive, RepliesConsistent, NothingForgotten
<1>6. Draining'
  BY DEF ThreadShapes, ClaimsExclusive, Draining
<1> QED
  BY <1>1, <1>2, <1>3, <1>4, <1>5, <1>6

\* consume or discard claims an entry that nobody else has claimed.
LEMMA ClaimStep ==
  ASSUME CacheInv, NEW th \in Threads, NEW t \in Tasks, NEW operation \in {"consume",
         "discard"}, Claim(th, t, operation)
  PROVE  CacheInv'
<1> USE CacheAssumption DEF Claim, idle, CacheInv, CacheTypeOK, Reply, Lease, Thread, Idle,
                            Claiming
<1>1. CacheTypeOK'
  BY DEF CacheInv
<1>2. ThreadShapes'
  BY DEF ThreadShapes
<1>3. ClaimsExclusive'
  BY DEF ThreadShapes, ClaimsExclusive
<1>4. RepliesConsistent'
  BY DEF ThreadShapes, ClaimsExclusive, RepliesConsistent
<1>5. NothingForgotten'
  BY DEF ThreadShapes, ClaimsExclusive, RepliesConsistent, NothingForgotten
<1>6. Draining'
  BY DEF ThreadShapes, ClaimsExclusive, Draining
<1> QED
  BY <1>1, <1>2, <1>3, <1>4, <1>5, <1>6

\* What is common to both ways in which consume hands out a lease: the caller now holds the
\* reply, the cache does not have it any more.
LEMMA HandedOut ==
  ASSUME CacheInv, NEW th \in Threads, pc[th].at = "claimed",
         NEW lease \in Lease, ~lease.released, ~lease.cache_owned,
         transferred' = transferred \cup {entry(th)},
         reply' = [reply EXCEPT ![entry(th)].lease = lease],
         entries' = [entries EXCEPT ![pc[th].task] = None],
         processing' = processing \ {pc[th].task},
         held' = held \cup {entry(th)},
         leave(th),
         UNCHANGED <<closed, reserved, pending, todo, closing>>
  PROVE  CacheInv'
<1> DEFINE r == entry(th)
           t == pc[th].task
<1>1. /\ t \in Tasks /\ r \in Replies /\ reply[r] \in Reply
      /\ r = entries[t] /\ r \notin held
  BY EntryFacts DEF Claiming
<1>2. CacheTypeOK
  BY DEF CacheInv
<1> HIDE DEF r
<1>3. reply' \in [Replies -> Reply]
  BY <1>1, <1>2 DEF CacheTypeOK, Reply, r
<1>4. /\ \A x \in Replies \ {r} : reply'[x] = reply[x]
      /\ reply'[r].task = reply[r].task /\ reply'[r].owned = reply[r].owned
      /\ reply'[r].lease = lease
  BY <1>1, <1>2 DEF CacheTypeOK, Reply, r
<1>5. pc' \in [Threads -> Thread]
  BY <1>2, LeaveFacts
<1>6. CacheTypeOK'
  BY <1>1, <1>2, <1>3, <1>5 DEF CacheTypeOK, r
<1>7. /\ pc[th].by = "consume" /\ t \in processing
      /\ \A x \in Threads : pc[x].at \in Claiming /\ pc[x].task = t => x = th
  BY DEF CacheInv, ThreadShapes, ClaimsExclusive, Claiming
<1>8. /\ pc'[th] = Idle
      /\ \A x \in Threads : pc[x].at = "asleep" =>
              pc'[x].at = "wait" /\ pc'[x].task = pc[x].task /\ pc'[x].by = pc[x].by
      /\ \A x \in Threads : pc[x].at # "asleep" /\ x # th => pc'[x] = pc[x]
  BY <1>2, <1>7, LeaveFacts
<1>9. \A x \in Threads : pc'[x].at \in Claiming \cup {"drain"} => pc'[x] = pc[x] /\ x # th
  <2>1. \A x \in Threads : pc[x] \in Thread
    BY <1>2 DEF CacheTypeOK
  <2> QED
    BY <1>8, <2>1 DEF Idle, Claiming, Thread
<1>10. /\ entries'[t] = None
       /\ \A u \in Tasks \ {t} : entries'[u] = entries[u]
  BY <1>1, <1>2 DEF CacheTypeOK
<1>11. ThreadShapes'
  <2>1. \A x \in Threads : pc[x] \in Thread
    BY <1>2 DEF CacheTypeOK
  <2> QED
    BY <1>8, <2>1 DEF CacheInv, ThreadShapes, Claiming, Idle, Thread
<1>12. ClaimsExclusive'
  <2>1. \A x \in Threads : pc'[x].at \in Claiming =>
           /\ pc'[x] = pc[x] /\ pc[x].at \in Claiming /\ pc[x].task # t /\ pc[x].task \in Tasks
    BY <1>7, <1>9 DEF CacheInv, ThreadShapes
  <2> QED
    BY <1>1, <1>10, <2>1 DEF CacheInv, ClaimsExclusive
<1>13. RepliesConsistent'
  <2>1. \A u \in Tasks : entries'[u] # None =>
           u # t /\ entries'[u] = entries[u] /\ entries[u] # r /\ entries[u] \in Replies
    BY <1>1, <1>2, <1>10 DEF CacheTypeOK, CacheInv, RepliesConsistent
  <2>2. \A u \in Tasks : entries'[u] # None =>
          /\ reply'[entries'[u]].task = u
          /\ reply'[entries'[u]].owned # "fresh"
          /\ entries'[u] \notin held'
    BY <1>4, <2>1 DEF CacheInv, RepliesConsistent, r
  <2>3. \A x \in Replies :
       /\ IF reply'[x].owned = "fresh" THEN x \notin held' /\ reply'[x].lease = None
          ELSE reply'[x].task \in Tasks
       /\ x \in held' \/ reply'[x].lease # None =>
            IF reply'[x].lease.released THEN reply'[x].owned # "open" ELSE x \in transferred'
       /\ x \in held' => reply'[x].lease \in Lease /\ ~reply'[x].lease.cache_owned
    BY SMTT(30), <1>1, <1>4, <1>7, <1>2
    DEF CacheInv, RepliesConsistent, ClaimsExclusive, r, Claiming
  <2>4. \A x \in Threads : pc'[x].at = "remove" => reply'[entries'[pc'[x].task]].owned # "open"
    <3> SUFFICES ASSUME NEW x \in Threads, pc'[x].at = "remove"
                 PROVE  reply'[entries'[pc'[x].task]].owned # "open"
      OBVIOUS
    <3>1. /\ pc'[x] = pc[x] /\ pc[x].at \in Claiming /\ pc[x].task # t /\ pc[x].task \in Tasks
          /\ entries[pc[x].task] # None /\ reply[entries[pc[x].task]].owned # "open"
      BY <1>7, <1>9 DEF CacheInv, ThreadShapes, RepliesConsistent, ClaimsExclusive, Claiming
    <3> QED
      BY <1>4, <1>10, <2>1, <3>1
  <2> QED
    BY <2>2, <2>3, <2>4 DEF RepliesConsistent
<1>14. NothingForgotten'
  BY SMTT(30), <1>1, <1>4, <1>10 DEF CacheInv, NothingForgotten, RepliesConsistent, r
<1>15. Draining'
  <2>1. \A x \in Threads : pc'[x].by = "close" => pc[x].by = "close" /\ x # th
    <3>1. \A x \in Threads : pc[x] \in Thread /\ Idle.by = None
      BY <1>2 DEF CacheTypeOK, Idle
    <3> QED
      BY <1>8, <3>1, CacheAssumption DEF Thread
  <2>2. \A x \in Threads : pc'[x].at = "drain" => FALSE
    BY <1>7, <1>9 DEF CacheInv, Draining
  <2>3. \A x \in Threads : ~(pc'[x].by = "close" /\ pc'[x].at \in Claiming)
    BY <1>7, <1>9, <2>1 DEF CacheInv, Draining
  <2>4. closing.result # "returned"
    BY <1>7 DEF CacheInv, Draining
  <2> QED
    BY <2>1, <2>2, <2>3, <2>4 DEF CacheInv, Draining
<1> QED
  BY <1>6, <1>11, <1>12, <1>13, <1>14, <1>15 DEF CacheInv

\* consume of a new reply hands out a new lease.
LEMMA TransferStep ==
  ASSUME CacheInv, NEW th \in Threads, Transfer(th)
  PROVE  CacheInv'
<1>1. [streams_closed |-> FALSE, released |-> FALSE, cache_owned |-> FALSE] \in Lease
  BY DEF Lease
<1> QED
  BY <1>1, HandedOut DEF Transfer

\* consume of a restored reply hands out its old lease.
LEMMA ActivateStep ==
  ASSUME CacheInv, NEW th \in Threads, Activate(th)
  PROVE  CacheInv'
<1> DEFINE r == entry(th)
           lease == [streams_closed |-> FALSE, released |-> FALSE, cache_owned |-> FALSE]
<1>1. pc[th].at = "claimed" /\ reply[r] \in Reply /\ r \in Replies
  BY EntryFacts DEF Activate, Claiming
<1>2. /\ reply[r].lease # None
      /\ reply[r].lease = [streams_closed |-> FALSE, released |-> FALSE, cache_owned |-> TRUE]
      /\ reply' = [reply EXCEPT ![r].lease.cache_owned = FALSE]
  BY DEF Activate
<1>3. lease \in Lease
  BY DEF Lease
<1>4. r \in transferred
  BY <1>1, <1>2 DEF CacheInv, RepliesConsistent
<1>5. [reply[r].lease EXCEPT !.cache_owned = FALSE] = lease
  <2>1. reply[r].lease \in Lease
    BY <1>2 DEF Lease
  <2>2. ~reply[r].lease.streams_closed /\ ~reply[r].lease.released
    BY <1>2
  <2> DEFINE new == [reply[r].lease EXCEPT !.cache_owned = FALSE]
  <2>3. new \in Lease
    BY <2>1 DEF Lease
  <2>4. /\ new.streams_closed = FALSE /\ new.released = FALSE /\ new.cache_owned = FALSE
    BY <2>1, <2>2 DEF Lease
  <2> HIDE DEF new
  <2>5. new = lease
    BY <2>3, <2>4 DEF Lease
  <2> QED
    BY <2>5 DEF new
<1>6. reply' = [reply EXCEPT ![r].lease = lease]
  BY <1>2, <1>5
<1>7. transferred' = transferred \cup {r}
  BY <1>4 DEF Activate
<1> QED
  BY <1>1, <1>3, <1>6, <1>7, HandedOut DEF Activate

\* consume met an error: the entry is disposed of or the claim is given back.
LEMMA ConsumeFailsStep ==
  ASSUME CacheInv, NEW th \in Threads, NEW next \in {"cleanup", "unclaim"}, ConsumeFails(th, next)
  PROVE  CacheInv'
<1> USE CacheAssumption DEF ConsumeFails, goto, CacheInv, CacheTypeOK, Reply, Lease, Thread,
                            Idle, Claiming
<1>1. CacheTypeOK'
  BY DEF CacheInv
<1>2. ThreadShapes'
  BY DEF ThreadShapes
<1>3. ClaimsExclusive'
  BY DEF ThreadShapes, ClaimsExclusive
<1>4. RepliesConsistent'
  BY DEF ThreadShapes, ClaimsExclusive, RepliesConsistent
<1>5. NothingForgotten'
  BY DEF ThreadShapes, ClaimsExclusive, RepliesConsistent, NothingForgotten
<1>6. Draining'
  BY DEF ThreadShapes, ClaimsExclusive, Draining
<1> QED
  BY <1>1, <1>2, <1>3, <1>4, <1>5, <1>6

\* _cleanup_entry may leave a file or a stream open; the entry is only removed when nothing is.
LEMMA CleanupStep ==
  ASSUME CacheInv, NEW th \in Threads, NEW streamsOk \in BOOLEAN, NEW cleanupOk \in BOOLEAN,
         Cleanup(th, streamsOk, cleanupOk)
  PROVE  CacheInv'
<1> DEFINE r == entry(th)
           t == pc[th].task
<1>1. /\ t \in Tasks /\ r \in Replies /\ reply[r] \in Reply /\ pc[th] \in Thread
      /\ r = entries[t] /\ r \notin held /\ pc[th].at = "cleanup"
  BY EntryFacts DEF Cleanup, Claiming
<1>2. CacheTypeOK /\ UNCHANGED <<entries, processing, closed, pending, held, todo, closing>>
  BY DEF CacheInv, Cleanup
<1>3. \E at \in {"remove", "unclaim"} :
        /\ pc' = [pc EXCEPT ![th].at = at]
        /\ reply' \in [Replies -> Reply]
        /\ \A x \in Replies \ {r} : reply'[x] = reply[x]
        /\ reply'[r].task = reply[r].task
        /\ reply'[r].owned # "fresh"
        /\ reply'[r].owned = "open" => reply[r].owned = "open"
        /\ at = "remove" => reply'[r].owned # "open"
        /\ reply'[r].lease # None =>
             IF reply'[r].lease.released THEN reply'[r].owned # "open" ELSE r \in transferred'
        /\ transferred \ {r} \subseteq transferred' /\ transferred' \subseteq transferred
        /\ reserved' \subseteq reserved
  <2>1. /\ reply[r].owned # "fresh"
        /\ reply[r].lease # None =>
             IF reply[r].lease.released THEN reply[r].owned # "open" ELSE r \in transferred
    BY <1>1, <1>2 DEF CacheInv, RepliesConsistent, CacheTypeOK, ClaimsExclusive, Claiming
  <2>2. cleaned(r) \in {"none", "closed"}
    BY <1>1, <2>1 DEF cleaned, Reply
  <2>3. CASE /\ reply[r].lease = None
             /\ reply' = [reply EXCEPT ![r].owned = IF cleanupOk THEN cleaned(r) ELSE @]
             /\ goto(th, IF cleanupOk THEN "remove" ELSE "unclaim")
             /\ UNCHANGED <<transferred, reserved>>
    <3> DEFINE o == IF cleanupOk THEN cleaned(r) ELSE reply[r].owned
    <3>1. o \in {"none", "open",
      "closed"} /\ (o = "open" => ~cleanupOk /\ reply[r].owned = "open")
      BY <1>1, <2>1, <2>2 DEF Reply
    <3>2. reply' = [reply EXCEPT ![r].owned = o]
      BY <2>3
    <3> HIDE DEF o
    <3>3. /\ reply' \in [Replies -> Reply]
          /\ \A x \in Replies \ {r} : reply'[x] = reply[x]
          /\ reply'[r].task = reply[r].task /\ reply'[r].owned = o
          /\ reply'[r].lease = reply[r].lease
      BY <1>1, <1>2, <3>1, <3>2 DEF CacheTypeOK, Reply
    <3>4. pc' = [pc EXCEPT ![th].at = IF cleanupOk THEN "remove" ELSE "unclaim"]
      BY <2>3 DEF goto
    <3>5. CASE cleanupOk
      BY <2>3, <3>1, <3>3, <3>4, <3>5
    <3>6. CASE ~cleanupOk
      BY <2>3, <3>1, <3>3, <3>4, <3>6
    <3> QED
      BY <3>5, <3>6
  <2>4. CASE /\ reply[r].lease # None
             /\ close_locked(r, streamsOk, cleanupOk, TRUE)
             /\ goto(th, IF closes(r, streamsOk, cleanupOk) THEN "remove" ELSE "unclaim")
    <3>1. reply[r].lease \in Lease
      BY <1>1, <2>4 DEF Reply
    <3>2. /\ reply' \in [Replies -> Reply]
          /\ \A x \in Replies \ {r} : reply'[x] = reply[x]
          /\ reply'[r].task = reply[r].task
          /\ reply'[r].lease.released = (reply[r].lease.released \/ releases(r, cleanupOk))
          /\ reply'[r].owned = IF releases(r, cleanupOk) THEN cleaned(r) ELSE reply[r].owned
          /\ transferred' = IF releases(r, cleanupOk) THEN transferred \ {r} ELSE transferred
          /\ reserved' \subseteq reserved
      BY <1>1, <1>2, <2>4, <3>1, CloseLockedFacts
    <3>3. closes(r, streamsOk, cleanupOk) => reply[r].lease.released \/ releases(r, cleanupOk)
      BY DEF closes
    <3>4. pc' = [pc EXCEPT ![th].at =
                   IF closes(r, streamsOk, cleanupOk) THEN "remove" ELSE "unclaim"]
      BY <2>4 DEF goto
    <3>5. /\ reply'[r].owned # "fresh"
          /\ reply'[r].owned = "open" => reply[r].owned = "open"
          /\ closes(r, streamsOk, cleanupOk) => reply'[r].owned # "open"
          /\ IF reply'[r].lease.released THEN reply'[r].owned # "open" ELSE r \in transferred'
      BY <2>1, <2>2, <2>4, <3>2, <3>3
    <3>6. CASE closes(r, streamsOk, cleanupOk)
      BY <3>2, <3>4, <3>5, <3>6
    <3>7. CASE ~closes(r, streamsOk, cleanupOk)
      BY <3>2, <3>4, <3>5, <3>7
    <3> QED
      BY <3>6, <3>7
  <2> QED
    BY <2>3, <2>4 DEF Cleanup
<1>4. PICK at \in {"remove", "unclaim"} :
        /\ pc' = [pc EXCEPT ![th].at = at]
        /\ at = "remove" => reply'[r].owned # "open"
  BY <1>3
<1> HIDE DEF r
<1>5. /\ pc' \in [Threads -> Thread]
      /\ pc'[th].at = at /\ pc'[th].task = t /\ pc'[th].by = pc[th].by
      /\ \A x \in Threads \ {th} : pc'[x] = pc[x]
  <2>1. goto(th, at)
    BY <1>4 DEF goto
  <2> QED
    BY <1>2, <2>1, GotoFacts
<1>6. CacheTypeOK'
  BY <1>2, <1>3, <1>5 DEF CacheTypeOK
<1>7. ThreadShapes'
  BY <1>1, <1>5 DEF CacheInv, ThreadShapes, Claiming
<1>8. ClaimsExclusive'
  BY <1>1, <1>2, <1>5 DEF CacheInv, ClaimsExclusive, Claiming
<1>9. RepliesConsistent'
  <2>1. \A u \in Tasks : entries'[u] # None =>
          /\ reply'[entries'[u]].task = u
          /\ reply'[entries'[u]].owned # "fresh"
          /\ entries'[u] \notin held'
    BY <1>2, <1>3 DEF CacheInv, RepliesConsistent, CacheTypeOK
  <2>2. \A x \in Replies :
       /\ IF reply'[x].owned = "fresh" THEN x \notin held' /\ reply'[x].lease = None
          ELSE reply'[x].task \in Tasks
       /\ x \in held' \/ reply'[x].lease # None =>
            IF reply'[x].lease.released THEN reply'[x].owned # "open" ELSE x \in transferred'
       /\ x \in held' => reply'[x].lease \in Lease /\ ~reply'[x].lease.cache_owned
    <3>1. reply[r].task = t
      BY <1>1, CacheAssumption DEF CacheInv, RepliesConsistent
    <3> QED
      BY <1>1, <1>2, <1>3, <3>1 DEF CacheInv, RepliesConsistent
  <2>3. \A x \in Threads : pc'[x].at = "remove" => reply'[entries'[pc'[x].task]].owned # "open"
    <3>0. pc'[th].at = "remove" => reply'[entries'[pc'[th].task]].owned # "open"
      <4>1. pc'[th].task = t /\ entries'[t] = r
        BY <1>1, <1>2, <1>5
      <4> QED
        BY <1>4, <1>5, <4>1
    <3> SUFFICES ASSUME NEW x \in Threads, pc'[x].at = "remove", x # th
                 PROVE  reply'[entries'[pc'[x].task]].owned # "open"
      BY <3>0
    <3>1. /\ pc'[x] = pc[x] /\ pc[x].at = "remove" /\ pc[x].task \in Tasks /\ pc[x].task # t
          /\ reply[entries[pc[x].task]].owned # "open" /\ entries[pc[x].task] # None
      BY <1>1, <1>5 DEF CacheInv, ThreadShapes, ClaimsExclusive, RepliesConsistent, Claiming
    <3>2. entries[pc[x].task] \in Replies \ {r}
      BY <1>1, <1>2, <3>1 DEF CacheTypeOK, CacheInv, RepliesConsistent, ClaimsExclusive
    <3> QED
      BY <1>2, <1>3, <3>1, <3>2
  <2> QED
    BY <2>1, <2>2, <2>3 DEF RepliesConsistent
<1>10. NothingForgotten'
  BY <1>1, <1>2, <1>3 DEF CacheInv, NothingForgotten
<1>11. Draining'
  BY <1>1, <1>2, <1>5 DEF CacheInv, Draining, Claiming
<1> QED
  BY <1>6, <1>7, <1>8, <1>9, <1>10, <1>11 DEF CacheInv

\* The entry is removed, after it was cleaned up.
LEMMA RemoveStep ==
  ASSUME CacheInv, NEW th \in Threads, Remove(th)
  PROVE  CacheInv'
<1> USE CacheAssumption DEF Remove, entry, leave, CacheInv, CacheTypeOK, Reply, Lease, Thread,
                            Idle, Claiming
<1>1. CacheTypeOK'
  <2>1. entries' \in [Tasks -> Replies \cup {None}]
    OBVIOUS
  <2>2. reply' \in [Replies -> Reply]
    OBVIOUS
  <2>3. pc' \in [Threads -> Thread]
    BY ZenonT(60)
  <2>4. closing' \in [calls : Nat, failed : BOOLEAN, result : {None, "raised", "returned"}]
    OBVIOUS
  <2> QED
    BY <2>1, <2>2, <2>3, <2>4
<1>2. ThreadShapes'
  BY DEF ThreadShapes
<1>3. ClaimsExclusive'
  BY DEF ThreadShapes, ClaimsExclusive
<1>4. RepliesConsistent'
  BY DEF ThreadShapes, ClaimsExclusive, RepliesConsistent
<1>5. NothingForgotten'
  BY DEF ThreadShapes, ClaimsExclusive, RepliesConsistent, NothingForgotten
<1>6. Draining'
  BY DEF ThreadShapes, ClaimsExclusive, Draining
<1> QED
  BY <1>1, <1>2, <1>3, <1>4, <1>5, <1>6

\* The claim is given back; close remembers the error.
LEMMA UnclaimStep ==
  ASSUME CacheInv, NEW th \in Threads, Unclaim(th)
  PROVE  CacheInv'
<1> USE CacheAssumption DEF Unclaim, leave, CacheInv, CacheTypeOK, Reply, Lease, Thread, Idle,
                            Claiming
<1>1. CacheTypeOK'
  <2>1. entries' \in [Tasks -> Replies \cup {None}]
    OBVIOUS
  <2>2. reply' \in [Replies -> Reply]
    OBVIOUS
  <2>3. pc' \in [Threads -> Thread]
    BY ZenonT(60)
  <2>4. closing' \in [calls : Nat, failed : BOOLEAN, result : {None, "raised", "returned"}]
    OBVIOUS
  <2> QED
    BY <2>1, <2>2, <2>3, <2>4
<1>2. ThreadShapes'
  BY DEF ThreadShapes
<1>3. ClaimsExclusive'
  BY DEF ThreadShapes, ClaimsExclusive
<1>4. RepliesConsistent'
  BY DEF ThreadShapes, ClaimsExclusive, RepliesConsistent
<1>5. NothingForgotten'
  BY DEF ThreadShapes, ClaimsExclusive, RepliesConsistent, NothingForgotten
<1>6. Draining'
  BY DEF ThreadShapes, ClaimsExclusive, Draining
<1> QED
  BY <1>1, <1>2, <1>3, <1>4, <1>5, <1>6

\* restore takes the reply back from its holder.
LEMMA RestoreStep ==
  ASSUME CacheInv, NEW th \in Threads, NEW r \in Replies, Restore(th, r)
  PROVE  CacheInv'
<1> DEFINE t == reply[r].task
           lease == [reply[r].lease EXCEPT !.cache_owned = TRUE]
<1>1. /\ CacheTypeOK /\ reply[r] \in Reply /\ r \in held /\ r \in transferred
      /\ entries[t] = None /\ t \notin processing /\ ~closed
      /\ held' = held \ {r}
      /\ UNCHANGED <<processing, transferred, closed, reserved, pending, pc, todo, closing>>
  BY DEF CacheInv, CacheTypeOK, Restore
<1>2. /\ reply[r].lease \in Lease /\ ~reply[r].lease.released
      /\ reply[r].owned # "fresh"
  BY <1>1 DEF CacheInv, RepliesConsistent, Restore
<1>3. lease \in Lease /\ ~lease.released
  BY <1>2 DEF Lease
<1>4. reply' = [reply EXCEPT ![r].lease = lease]
  BY DEF Restore
<1>5. entries' = [entries EXCEPT ![t] = r]
  BY DEF Restore
<1> HIDE DEF lease
<1>6. /\ reply' \in [Replies -> Reply]
      /\ \A x \in Replies \ {r} : reply'[x] = reply[x]
      /\ reply'[r].task = t /\ reply'[r].owned = reply[r].owned /\ reply'[r].lease = lease
  BY <1>1, <1>3, <1>4 DEF CacheTypeOK, Reply
<1>7. \A u \in Tasks : entries[u] # r
  BY <1>1, CacheAssumption DEF CacheInv, RepliesConsistent
<1>8. t \in Tasks
  BY <1>1, <1>2 DEF CacheInv, RepliesConsistent
<1> HIDE DEF t
<1>9. /\ entries' \in [Tasks -> Replies \cup {None}]
      /\ entries'[t] = r /\ \A u \in Tasks \ {t} : entries'[u] = entries[u]
  BY <1>1, <1>5, <1>8 DEF CacheTypeOK
<1>10. CacheTypeOK'
  BY <1>1, <1>6, <1>9 DEF CacheTypeOK
<1>11. ThreadShapes'
  BY <1>1 DEF CacheInv, ThreadShapes
<1>12. ClaimsExclusive'
  BY <1>1, <1>9 DEF CacheInv, ClaimsExclusive, ThreadShapes
<1>13. RepliesConsistent'
  <2>1. \A u \in Tasks : entries'[u] # None =>
          /\ reply'[entries'[u]].task = u
          /\ reply'[entries'[u]].owned # "fresh"
          /\ entries'[u] \notin held'
    BY <1>1, <1>2, <1>6, <1>7, <1>9 DEF CacheInv, RepliesConsistent, CacheTypeOK, t
  <2>2. \A x \in Replies :
       /\ IF reply'[x].owned = "fresh" THEN x \notin held' /\ reply'[x].lease = None
          ELSE reply'[x].task \in Tasks
       /\ x \in held' \/ reply'[x].lease # None =>
            IF reply'[x].lease.released THEN reply'[x].owned # "open" ELSE x \in transferred'
       /\ x \in held' => reply'[x].lease \in Lease /\ ~reply'[x].lease.cache_owned
    BY <1>1, <1>2, <1>3, <1>6, <1>8 DEF CacheInv, RepliesConsistent, t
  <2>3. \A x \in Threads : pc'[x].at = "remove" => reply'[entries'[pc'[x].task]].owned # "open"
    <3> SUFFICES ASSUME NEW x \in Threads, pc[x].at = "remove"
                 PROVE  reply'[entries'[pc[x].task]].owned # "open"
      BY <1>1
    <3>1. /\ pc[x].task \in Tasks /\ pc[x].task \in processing /\ entries[pc[x].task] # None
          /\ reply[entries[pc[x].task]].owned # "open"
      BY DEF CacheInv, ThreadShapes, ClaimsExclusive, RepliesConsistent, Claiming
    <3> QED
      BY <1>1, <1>6, <1>7, <1>9, <3>1 DEF CacheTypeOK
  <2> QED
    BY <2>1, <2>2, <2>3 DEF RepliesConsistent
<1>14. NothingForgotten'
  BY <1>1, <1>6, <1>8, <1>9, CacheAssumption DEF CacheInv, NothingForgotten, CacheTypeOK
<1>15. Draining'
  BY <1>1, <1>9, CacheAssumption DEF CacheInv, Draining
<1> QED
  BY <1>10, <1>11, <1>12, <1>13, <1>14, <1>15 DEF CacheInv

\* The holder closes its lease, and keeps it where that did not succeed.
LEMMA CloseLeaseStep ==
  ASSUME CacheInv, NEW th \in Threads, NEW r \in Replies,
         NEW streamsOk \in BOOLEAN, NEW cleanupOk \in BOOLEAN,
         CloseLease(th, r, streamsOk, cleanupOk)
  PROVE  CacheInv'
<1>1. /\ CacheTypeOK /\ reply[r] \in Reply /\ r \in held
      /\ UNCHANGED <<entries, processing, closed, pending, pc, todo, closing>>
      /\ held' = IF closes(r, streamsOk, cleanupOk) THEN held \ {r} ELSE held
      /\ close_locked(r, streamsOk, cleanupOk, FALSE)
  BY DEF CacheInv, CacheTypeOK, CloseLease
<1>2. /\ reply[r].lease \in Lease /\ reply[r].owned # "fresh"
      /\ IF reply[r].lease.released THEN reply[r].owned # "open" ELSE r \in transferred
      /\ \A u \in Tasks : entries[u] # r
  BY <1>1, CacheAssumption DEF CacheInv, RepliesConsistent
<1>3. /\ reply' \in [Replies -> Reply]
      /\ \A x \in Replies \ {r} : reply'[x] = reply[x]
      /\ reply'[r].task = reply[r].task
      /\ reply'[r].lease \in Lease
      /\ reply'[r].lease.cache_owned = (FALSE /\ ~closes(r, streamsOk, cleanupOk))
      /\ reply'[r].lease.released = (reply[r].lease.released \/ releases(r, cleanupOk))
      /\ reply'[r].owned = IF releases(r, cleanupOk) THEN cleaned(r) ELSE reply[r].owned
      /\ transferred' = IF releases(r, cleanupOk) THEN transferred \ {r} ELSE transferred
      /\ reserved' \subseteq reserved
  BY <1>1, <1>2, CloseLockedFacts
<1>4. cleaned(r) \in {"none", "closed"}
  BY <1>1, <1>2 DEF cleaned, Reply
<1>5. closes(r, streamsOk, cleanupOk) => reply[r].lease.released \/ releases(r, cleanupOk)
  BY DEF closes
<1>6. /\ reply'[r].owned # "fresh" /\ ~reply'[r].lease.cache_owned
      /\ IF reply'[r].lease.released THEN reply'[r].owned # "open" ELSE r \in transferred'
      /\ closes(r, streamsOk, cleanupOk) => reply'[r].owned # "open"
      /\ transferred \ {r} \subseteq transferred' /\ transferred' \subseteq transferred
      /\ held \ {r} \subseteq held' /\ held' \subseteq held
  BY <1>1, <1>2, <1>3, <1>4, <1>5
<1>7. CacheTypeOK'
  BY <1>1, <1>3, <1>6 DEF CacheTypeOK
<1>8. ThreadShapes' /\ ClaimsExclusive' /\ Draining'
  BY <1>1 DEF CacheInv, ThreadShapes, ClaimsExclusive, Draining
<1>9. RepliesConsistent'
  <2>1. \A u \in Tasks : entries'[u] # None =>
          /\ reply'[entries'[u]].task = u
          /\ reply'[entries'[u]].owned # "fresh"
          /\ entries'[u] \notin held'
    BY <1>1, <1>2, <1>3, <1>6 DEF CacheInv, RepliesConsistent, CacheTypeOK
  <2>2. \A x \in Replies :
       /\ IF reply'[x].owned = "fresh" THEN x \notin held' /\ reply'[x].lease = None
          ELSE reply'[x].task \in Tasks
       /\ x \in held' \/ reply'[x].lease # None =>
            IF reply'[x].lease.released THEN reply'[x].owned # "open" ELSE x \in transferred'
       /\ x \in held' => reply'[x].lease \in Lease /\ ~reply'[x].lease.cache_owned
    BY <1>1, <1>3, <1>6 DEF CacheInv, RepliesConsistent
  <2>3. \A x \in Threads : pc'[x].at = "remove" => reply'[entries'[pc'[x].task]].owned # "open"
    BY <1>1, <1>2, <1>3
       DEF CacheInv, RepliesConsistent, ThreadShapes, ClaimsExclusive, Claiming, CacheTypeOK
  <2> QED
    BY <2>1, <2>2, <2>3 DEF RepliesConsistent
<1>10. NothingForgotten'
  BY <1>1, <1>2, <1>3, <1>6 DEF CacheInv, NothingForgotten
<1> QED
  BY <1>7, <1>8, <1>9, <1>10 DEF CacheInv

\* close refuses new work from now on.
LEMMA CloseStep ==
  ASSUME CacheInv, NEW th \in Threads, Close(th)
  PROVE  CacheInv'
<1> USE CacheAssumption DEF Close, idle, CacheInv, CacheTypeOK, Reply, Lease, Thread, Idle,
                            Claiming
<1>1. CacheTypeOK'
  <2>1. entries' \in [Tasks -> Replies \cup {None}]
    OBVIOUS
  <2>2. reply' \in [Replies -> Reply]
    OBVIOUS
  <2>3. pc' \in [Threads -> Thread]
    OBVIOUS
  <2>4. closing' \in [calls : Nat, failed : BOOLEAN, result : {None, "raised", "returned"}]
    OBVIOUS
  <2> QED
    BY <2>1, <2>2, <2>3, <2>4
<1>2. ThreadShapes'
  BY DEF ThreadShapes
<1>3. ClaimsExclusive'
  BY DEF ThreadShapes, ClaimsExclusive
<1>4. RepliesConsistent'
  BY DEF ThreadShapes, ClaimsExclusive, RepliesConsistent
<1>5. NothingForgotten'
  BY DEF ThreadShapes, ClaimsExclusive, RepliesConsistent, NothingForgotten
<1>6. Draining'
  BY DEF ThreadShapes, ClaimsExclusive, Draining
<1> QED
  BY <1>1, <1>2, <1>3, <1>4, <1>5, <1>6

\* close sleeps while there are claims, then lists what it has to drain.
LEMMA CloseWaitsStep ==
  ASSUME CacheInv, NEW th \in Threads, CloseWaits(th)
  PROVE  CacheInv'
<1>1. /\ CacheTypeOK /\ pc[th].at = "wait" /\ pc[th].by = "close" /\ pc[th].task = None
      /\ UNCHANGED <<entries, processing, transferred, closed, reserved, pending, reply,
                     held, closing>>
  BY DEF CacheInv, ThreadShapes, CloseWaits
<1>2. PICK at \in {"asleep", "drain"} :
        /\ goto(th, at)
        /\ at = "drain" => processing = {} /\ todo' = {t \in Tasks : entries[t] # None}
        /\ at = "asleep" => todo' = todo
  BY DEF CloseWaits
<1>3. /\ pc' \in [Threads -> Thread]
      /\ pc'[th].at = at /\ pc'[th].task = None /\ pc'[th].by = "close"
      /\ \A x \in Threads \ {th} : pc'[x] = pc[x]
  BY <1>1, <1>2, GotoFacts
<1>4. CacheTypeOK'
  BY <1>1, <1>2, <1>3 DEF CacheTypeOK
<1>5. ThreadShapes'
  BY <1>1, <1>3 DEF CacheInv, ThreadShapes, Claiming
<1>6. ClaimsExclusive'
  BY <1>1, <1>3 DEF CacheInv, ClaimsExclusive, Claiming
<1>7. RepliesConsistent'
  BY <1>1, <1>3 DEF CacheInv, RepliesConsistent
<1>8. NothingForgotten'
  BY <1>1 DEF CacheInv, NothingForgotten
<1>9. Draining'
  BY <1>1, <1>2, <1>3 DEF CacheInv, Draining, ClaimsExclusive, Claiming
<1> QED
  BY <1>4, <1>5, <1>6, <1>7, <1>8, <1>9 DEF CacheInv

\* close claims the next entry of its list.
LEMMA DrainNextStep ==
  ASSUME CacheInv, NEW th \in Threads, NEW t \in Tasks, DrainNext(th, t)
  PROVE  CacheInv'
<1>1. /\ CacheTypeOK /\ pc[th] \in Thread
      /\ pc[th].at = "drain" /\ pc[th].by = "close" /\ pc[th].task = None
      /\ closed /\ closing.result = None /\ processing = {}
      /\ todo' = todo \ {t}
      /\ UNCHANGED <<entries, transferred, closed, reserved, pending, reply, held, closing>>
  BY DEF CacheInv, CacheTypeOK, ThreadShapes, Draining, DrainNext
<1>2. CASE entries[t] # None
  <2> DEFINE w == [[pc[th] EXCEPT !.at = "cleanup"] EXCEPT !.task = t]
  <2>1. w \in Thread /\ w.at = "cleanup" /\ w.task = t /\ w.by = "close"
    BY <1>1 DEF Thread
  <2>2. processing' = {t} /\ pc' = [pc EXCEPT ![th].at = "cleanup", ![th].task = t]
    BY <1>1, <1>2 DEF DrainNext
  <2>3. pc' = [pc EXCEPT ![th] = w]
    BY <2>2, <1>1 DEF CacheTypeOK
  <2> HIDE DEF w
  <2>4. /\ pc' \in [Threads -> Thread]
        /\ pc'[th].at = "cleanup" /\ pc'[th].task = t /\ pc'[th].by = "close"
        /\ \A x \in Threads \ {th} : pc'[x] = pc[x]
    BY <1>1, <2>1, <2>3 DEF CacheTypeOK
  <2>5. CacheTypeOK'
    BY <1>1, <2>2, <2>4 DEF CacheTypeOK
  <2>6. ThreadShapes'
    BY <1>1, <2>4, CacheAssumption DEF CacheInv, ThreadShapes, Claiming
  <2>7. ClaimsExclusive'
    BY <1>1, <1>2, <2>2, <2>4 DEF CacheInv, ClaimsExclusive, Claiming
  <2>8. RepliesConsistent'
    BY <1>1, <2>4 DEF CacheInv, RepliesConsistent
  <2>9. NothingForgotten'
    BY <1>1 DEF CacheInv, NothingForgotten
  <2>10. Draining'
    <3>1. \A x \in Threads : pc'[x].by = "close" => x = th
      BY <1>1, <2>4 DEF CacheInv, Draining
    <3>2. \A x \in Threads : pc'[x].at # "drain"
      BY <1>1, <2>4, <3>1 DEF CacheInv, ThreadShapes
    <3>3. \A u \in Tasks : entries'[u] # None => u \in todo' \/ u = t \/ closing.failed
      BY <1>1, CacheAssumption DEF CacheInv, Draining
    <3> QED
      BY <1>1, <2>2, <2>4, <3>1, <3>2, <3>3, CacheAssumption DEF Draining
  <2> QED
    BY <2>5, <2>6, <2>7, <2>8, <2>9, <2>10 DEF CacheInv
<1>3. CASE entries[t] = None
  <2>1. UNCHANGED <<processing, pc>>
    BY <1>3 DEF DrainNext
  <2>2. CacheTypeOK' /\ ThreadShapes' /\ ClaimsExclusive'
    BY <1>1, <2>1 DEF CacheInv, CacheTypeOK, ThreadShapes, ClaimsExclusive
  <2>3. RepliesConsistent' /\ NothingForgotten'
    BY <1>1, <2>1 DEF CacheInv, RepliesConsistent, NothingForgotten
  <2>4. Draining'
    BY <1>1, <1>3, <2>1 DEF CacheInv, Draining
  <2> QED
    BY <2>2, <2>3, <2>4 DEF CacheInv
<1> QED
  BY <1>2, <1>3

\* close ends with the pending cleanups.
LEMMA DrainPendingStep ==
  ASSUME CacheInv, NEW th \in Threads, NEW done \in SUBSET pending, DrainPending(th, done)
  PROVE  CacheInv'
<1> USE CacheAssumption DEF DrainPending, cleaned, CacheInv, CacheTypeOK, Reply, Lease, Thread,
                            Idle, Claiming
<1>1. CacheTypeOK'
  <2>1. entries' \in [Tasks -> Replies \cup {None}]
    OBVIOUS
  <2>2. reply' \in [Replies -> Reply]
    BY SMTT(30)
  <2>3. pc' \in [Threads -> Thread]
    OBVIOUS
  <2>4. closing' \in [calls : Nat, failed : BOOLEAN, result : {None, "raised", "returned"}]
    OBVIOUS
  <2> QED
    BY <2>1, <2>2, <2>3, <2>4
<1>2. ThreadShapes'
  BY DEF ThreadShapes
<1>3. ClaimsExclusive'
  BY DEF ThreadShapes, ClaimsExclusive
<1>4. RepliesConsistent'
  BY DEF ThreadShapes, ClaimsExclusive, RepliesConsistent
<1>5. NothingForgotten'
  BY DEF ThreadShapes, ClaimsExclusive, RepliesConsistent, NothingForgotten
<1>6. Draining'
  BY DEF ThreadShapes, ClaimsExclusive, Draining
<1> QED
  BY <1>1, <1>2, <1>3, <1>4, <1>5, <1>6

\* Initially no reply is prepared and no thread is inside the cache.
LEMMA InitInv == Init => CacheInv
<1> SUFFICES ASSUME Init PROVE CacheInv
  OBVIOUS
<1> USE CacheAssumption DEF Init
<1>1. CacheTypeOK
  BY DEF CacheTypeOK, Reply, Thread, Idle
<1>2. ThreadShapes /\ ClaimsExclusive
  BY DEF ThreadShapes, ClaimsExclusive, Idle, Claiming
<1>3. RepliesConsistent /\ NothingForgotten
  BY DEF RepliesConsistent, NothingForgotten, Idle
<1>4. Draining
  BY DEF Draining, Idle, Claiming
<1> QED
  BY <1>1, <1>2, <1>3, <1>4 DEF CacheInv

\* Every step of every thread preserves the invariant.
LEMMA NextInv == CacheInv /\ [Next]_vars => CacheInv'
<1> SUFFICES ASSUME CacheInv, [Next]_vars PROVE CacheInv'
  OBVIOUS
<1>1. CASE UNCHANGED vars
  BY <1>1 DEF vars, CacheInv, CacheTypeOK, ThreadShapes, ClaimsExclusive, RepliesConsistent,
              NothingForgotten, Draining
<1>2. CASE Next
  <2> PICK th \in Threads : Step(th) \/ Call(th)
    BY <1>2 DEF Next
  <2>1. CASE Step(th)
    BY <2>1, TransferStep, ActivateStep, ConsumeFailsStep, CleanupStep, RemoveStep, UnclaimStep,
       CloseWaitsStep, DrainNextStep, DrainPendingStep DEF Step
  <2>2. CASE Call(th)
    BY <2>2, PutStep, PutFailsStep, ClaimStep, RestoreStep, CloseLeaseStep, CloseStep DEF Call
  <2> QED
    BY <2>1, <2>2
<1> QED
  BY <1>1, <1>2 DEF Next

\* The claims, leases and reservations of the cache stay consistent (the lock sections of
\* discord_delivery_cache.py), whatever its threads do and whichever cleanup fails.
THEOREM CacheInvariant == Spec => []CacheInv
<1> QED
  BY InitInv, NextInv, PTL DEF Spec

\* Each reply has exactly one party that will dispose of it: a caller's lease, the cache or
\* the list of pending cleanups; after close returned, the cache has none.
THEOREM RepliesAlwaysHaveHolder == Spec => []RepliesHaveHolder
<1>1. CacheInv => RepliesHaveHolder
  <2> SUFFICES ASSUME CacheInv PROVE RepliesHaveHolder
    OBVIOUS
  <2>1. OneHolder
    BY CacheAssumption DEF CacheInv, CacheTypeOK, RepliesConsistent, OneHolder
  <2>2. CloseDrains
    BY CacheAssumption DEF CacheInv, CacheTypeOK, Draining, NothingForgotten, CloseDrains
  <2> QED
    BY <2>1, <2>2 DEF CacheInv, RepliesHaveHolder
<1> QED
  BY <1>1, CacheInvariant, PTL

============================================================================

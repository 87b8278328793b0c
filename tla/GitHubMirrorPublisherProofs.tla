--------------------- MODULE GitHubMirrorPublisherProofs ---------------------
(***************************************************************************)
(* The card of a mirrored item, for any events, any number of failing      *)
(* requests and writes, deletions and process ends: no card is stray, and  *)
(* a completed publication is current.                                     *)
(***************************************************************************)
EXTENDS GitHubMirrorPublisher, FiniteSetTheorems, SequenceTheorems, WellFoundedInduction, TLAPS

----------------------------------------------------------------------------
(* The inductive invariant.                                                *)

\* A repeated send posts the card once, or no write fails without leaving its record in the
\* file.  Otherwise _delete_uncommitted_cards() removes only the message that the send
\* returned and gives the claim back, and the first of two messages stays behind.
Unrepeated == Copies = {1} \/ "failed" \notin WriteOutcomes

Shown == {e.delivery : e \in Events} \X {"draft", "open", "closed", "merged"}
Message == [nonce : Nat \cup {None}, marker : Nat \cup {None}, shows : Shown]

InChannel(c) == DOMAIN c \subseteq Nat /\ c \in [DOMAIN c -> Message]

Places == {"idle", "resolve", "find", "send", "recheck", "undo", "fetch", "edit", "catch_up",
           "duplicates", "remove", "refresh", "leftovers", "discard"}

Publisher ==
  [at : Places, record : Record \cup {None}, rendered : Record \cup {None},
   message : Nat \cup {None}, todo : SUBSET Nat, after : {"delivered", "cleanup"},
   removed : BOOLEAN, raises : BOOLEAN, loops : Nat, redirects : Nat, tries : Nat]

\* The record knows every message of the channel.
Accounted(m, c) ==
  \A i \in DOMAIN c : i = m.card \/ (c[i].marker # None /\ c[i].marker \in {m.create, m.cleanup})

\* The card shows the record.
Current(m, c) == m.card \in DOMAIN c => c[m.card].shows = signature(m)

\* The record and the channel.
Fine(m, c) ==
  /\ m \in Record /\ constructible(m) /\ InChannel(c)
  /\ Unrepeated => Accounted(m, c)
  /\ ~m.publication_pending => Current(m, c) /\ m.card # None

\* What was rendered is the record, unless the record has changed since and is to be
\* published again.
Fresh(m, r) ==
  /\ r \in Record /\ r.revision <= m.revision
  /\ r.revision = m.revision \/ ~m.publication_pending => signature(r) = signature(m)

Creating == {"find", "send", "recheck", "undo"}
Drawing == {"fetch", "edit", "catch_up", "refresh"}
Attached == Drawing \cup {"duplicates", "remove", "leftovers", "discard"}

\* Where the publication is: what it read before an await still holds after it.
At(m, s, c) ==
  /\ s.at \in Creating =>
       /\ s.record \in Record /\ m.card = None
       /\ m.create # None /\ m.create = s.record.create
  /\ s.at = "send" /\ Unrepeated => DOMAIN c = {}
  /\ s.at = "undo" /\ Unrepeated /\ s.removed => DOMAIN c \subseteq s.todo
  /\ s.at \in Attached =>
       /\ s.record \in Record /\ m.card # None
       /\ s.message = m.card /\ s.record.card = m.card
       /\ m.cleanup \in {None, s.record.cleanup}
  /\ s.at \in Drawing => Fresh(m, s.rendered)
  /\ s.at \in {"duplicates", "remove"} =>
       /\ s.rendered \in Record /\ m.cleanup # None /\ s.rendered.cleanup = m.cleanup
       /\ m.card \in DOMAIN c => c[m.card].shows = signature(s.rendered)
  /\ s.at = "remove" /\ Unrepeated => DOMAIN c \subseteq s.todo \cup {m.card}
  /\ s.at \in {"leftovers", "discard"} => m.card \notin DOMAIN c /\ s.record.cleanup # None
  /\ s.at = "discard" /\ Unrepeated => DOMAIN c \subseteq s.todo

\* The record is the newest event's, and remembers events that were delivered.
Newest(m) ==
  /\ \E e \in seen : e.delivery = m.shows /\ e.time = m.time
  /\ \A f \in seen : f.time <= m.time
  /\ \A i \in DOMAIN m.deliveries : \E e \in seen : e.delivery = m.deliveries[i]

PublisherInv ==
  /\ pub \in Publisher /\ queue \in Nat /\ seen \subseteq Events
  /\ used \in [messages : Nat, nonces : Nat, updates : Nat, faults : Nat, deletions : Nat,
               crashes : Nat]
  /\ mirror = None => pub = Idle /\ queue = 0 /\ channel = <<>> /\ seen = {}
  /\ mirror # None => Fine(mirror, channel) /\ At(mirror, pub, channel) /\ Newest(mirror)

----------------------------------------------------------------------------
(* Sequences, numbers and the channel.                                     *)

\* The last elements of a sequence are some of its elements, in their order.
LEMMA LastElements ==
  ASSUME NEW S, NEW s \in Seq(S), NEW n \in Nat
  PROVE  /\ last(s, n) \in Seq(S) /\ Len(last(s, n)) <= n
         /\ Len(s) <= n => last(s, n) = s
         /\ \E d \in Nat : \A i \in DOMAIN last(s, n) :
              i + d \in DOMAIN s /\ last(s, n)[i] = s[i + d]
  <1>1. CASE Len(s) <= n
    <2>1. last(s, n) = s
      BY <1>1 DEF last
    <2>2. \A i \in DOMAIN s : i + 0 = i
      BY LenProperties
    <2>3. \E d \in Nat : \A i \in DOMAIN s : i + d \in DOMAIN s /\ s[i] = s[i + d]
      BY <2>2
    <2> QED
      BY <1>1, <2>1, <2>3
  <1>2. CASE Len(s) > n
    <2>1. /\ last(s, n) = SubSeq(s, Len(s) - n + 1, Len(s)) /\ Len(s) \in Nat
          /\ DOMAIN s = 1..Len(s)
      BY <1>2, LenProperties DEF last
    <2>2. /\ last(s, n) \in Seq(S) /\ Len(last(s, n)) = n
          /\ \A i \in 1..n : last(s, n)[i] = s[Len(s) - n + 1 + i - 1]
      BY <1>2, <2>1, SubSeqProperties
    <2>3. DOMAIN last(s, n) = 1..n
      BY <2>2, LenProperties
    <2>6. Len(s) - n \in Nat
      BY <1>2, <2>1
    <2>4. PICK d \in Nat : d = Len(s) - n
      BY <2>6
    <2>5. \A i \in DOMAIN last(s, n) : i + d \in DOMAIN s /\ last(s, n)[i] = s[i + d]
      <3>1. ASSUME NEW i \in 1..n
            PROVE  i + d \in DOMAIN s /\ Len(s) - n + 1 + i - 1 = i + d
        BY <1>2, <2>1, <2>4
      <3> QED
        BY <2>2, <2>3, <3>1
    <2> QED
      BY <1>2, <2>1, <2>2, <2>5
  <1>3. Len(s) <= n \/ Len(s) > n
    BY LenProperties
  <1> QED
    BY <1>1, <1>2, <1>3

\* A set of numbers that is not empty has a least one.
LEMMA Least ==
  ASSUME NEW S \in SUBSET Nat, S # {}
  PROVE  \E i \in S : \A j \in S : i <= j
  <1> DEFINE R == {ss \in Nat \X Nat : ss[1] < ss[2]}
  <1>1. \A x, y \in Nat : x < y <=> <<x, y>> \in R
    OBVIOUS
  <1>2. IsWellFoundedOn(R, Nat)
    BY NatLessThanWellFounded DEF OpToRel
  <1> HIDE DEF R
  <1>3. PICK i \in S : \A j \in S : ~ (<<j, i>> \in R)
    BY <1>2, WFMin
  <1>4. \A j \in S : ~ (j < i)
    <2>1. S \subseteq Nat
      OBVIOUS
    <2> QED
      BY <1>1, <1>3, <2>1
  <1>5. \A j \in S : i <= j
    BY <1>4
  <1> QED
    BY <1>5

\* A send posts two messages at most, so it adds a finite number of them.
LEMMA Growth ==
  ASSUME NEW n \in Nat, NEW S, S \subseteq (n + 1)..(n + 2)
  PROVE  Cardinality(S) \in Nat
  <1>1. IsFiniteSet((n + 1)..(n + 2))
    BY FS_Interval
  <1>2. IsFiniteSet(S)
    BY <1>1, FS_Subset
  <1> QED
    BY <1>2, FS_CardinalityType

----------------------------------------------------------------------------
(* The operations of the store.                                            *)

\* What an operation does besides the fields it is for: nothing but a new revision.
LEMMA Updated ==
  ASSUME NEW m \in Record
  PROVE  updated_record(m) = [m EXCEPT !.revision = m.revision + 1]
  <1>1. m.handled = <<>> /\ Len(<<>>) = 0 /\ 0 <= MAX_HANDLED_CLAIMS
    BY EventsAssumption DEF Record
  <1>2. last(m.handled, MAX_HANDLED_CLAIMS) = m.handled
    BY <1>1 DEF last
  <1> QED
    BY <1>2 DEF updated_record, Record

\* What a webhook is about stays as it is, and so does a revision that is not a new record.
Kept(m, n) ==
  /\ n.shows = m.shows /\ n.state = m.state /\ n.time = m.time /\ n.deliveries = m.deliveries
  /\ n.thread = m.thread /\ n.pending_action = m.pending_action /\ n.active = m.active
  /\ n.handled = m.handled

\* A record that differs in the card's fields is a record.
LEMMA Changed ==
  ASSUME NEW m \in Record, constructible(m), NEW k \in Record, Kept(m, k),
         k.card # None => k.create = None, k.card = None => k.cleanup = None,
         NEW n, n = updated_record(k)
  PROVE  /\ n \in Record /\ constructible(n) /\ Kept(m, n)
         /\ n.card = k.card /\ n.create = k.create /\ n.cleanup = k.cleanup
         /\ n.publication_pending = k.publication_pending
  <1>2. n = [k EXCEPT !.revision = k.revision + 1]
    BY Updated
  <1>3. k.revision + 1 \in Nat
    BY DEF Record
  <1>4. /\ n \in Record /\ Kept(m, n)
        /\ n.card = k.card /\ n.create = k.create /\ n.cleanup = k.cleanup
        /\ n.publication_pending = k.publication_pending
    BY <1>2, <1>3 DEF Record, Kept
  <1>5. constructible(n)
    BY <1>4 DEF constructible, Kept
  <1> QED
    BY <1>4, <1>5

\* Changes that are nothing to a card keep record and channel in step.
LEMMA KeptTwice ==
  ASSUME NEW m, NEW n, NEW o, Kept(m, n), Kept(n, o)
  PROVE  Kept(m, o)
  BY DEF Kept

LEMMA ClaimFine ==
  ASSUME NEW m, NEW c, Fine(m, c), claimable(m), NEW nonce \in Nat,
         NEW n, n = claim_card_record(m, nonce)
  PROVE  /\ Fine(n, c) /\ Kept(m, n) /\ n.card = None /\ n.create = nonce
         /\ Unrepeated => DOMAIN c = {}
  <1>1. /\ m \in Record /\ constructible(m) /\ m.card = None /\ m.create = None
        /\ m.cleanup = None /\ m.publication_pending = TRUE
    BY DEF Fine, claimable, constructible, Record
  <1>2. Unrepeated => DOMAIN c = {}
    <2>1. ASSUME Unrepeated, NEW i \in DOMAIN c
          PROVE  FALSE
      <3>1. InChannel(c) /\ Accounted(m, c)
        BY <2>1 DEF Fine
      <3>2. i \in Nat /\ i # None
        BY <3>1, PublisherAssumption DEF InChannel
      <3> QED
        BY <1>1, <3>1, <3>2 DEF Accounted
    <2> QED
      BY <2>1
  <1>3. PICK k : k = [m EXCEPT !.create = nonce]
    OBVIOUS
  <1>4. /\ n \in Record /\ constructible(n) /\ Kept(m, n) /\ n.card = None /\ n.create = nonce
        /\ n.publication_pending = TRUE
    <2>1. /\ k \in Record /\ k.card = None /\ k.create = nonce /\ k.cleanup = None
          /\ k.publication_pending = TRUE /\ Kept(m, k)
      BY <1>1, <1>3 DEF Record, Kept
    <2>2. n = updated_record(k)
      BY <1>3 DEF claim_card_record
    <2> QED
      BY <1>1, <2>1, <2>2, Changed
  <1>5. Fine(n, c)
    BY <1>2, <1>4 DEF Fine, Accounted
  <1> QED
    BY <1>2, <1>4, <1>5

\* The card that is attached is one of those that the nonce was for; the others have it.
LEMMA AttachFine ==
  ASSUME NEW m, NEW c, Fine(m, c), m.card = None, NEW card \in Nat, NEW nonce, nonce # None,
         m.create = nonce, NEW n, n = attach_card_if_missing(m, card, nonce)
  PROVE  /\ Fine(n, c) /\ Kept(m, n) /\ n.card = card /\ n.cleanup = nonce
  <1>1. /\ m \in Record /\ constructible(m) /\ m.publication_pending = TRUE
        /\ m.cleanup = None /\ nonce \in Nat
    BY DEF Fine, constructible, Record
  <1>2. PICK k : k = [m EXCEPT !.card = card, !.create = None, !.cleanup = nonce]
    OBVIOUS
  <1>3. card # None
    BY PublisherAssumption
  <1>4. /\ n \in Record /\ constructible(n) /\ Kept(m, n) /\ n.card = card /\ n.create = None
        /\ n.cleanup = nonce /\ n.publication_pending = TRUE
    <2>1. /\ k \in Record /\ k.card = card /\ k.create = None /\ k.cleanup = nonce
          /\ k.publication_pending = TRUE /\ Kept(m, k)
      BY <1>1, <1>2 DEF Record, Kept
    <2>2. n = updated_record(k)
      BY <1>2 DEF attach_card_if_missing
    <2> QED
      BY <1>1, <1>3, <2>1, <2>2, Changed
  <1>5. Unrepeated => Accounted(n, c)
    <2>1. ASSUME Unrepeated, NEW i \in DOMAIN c
          PROVE  c[i].marker # None /\ c[i].marker = nonce
      <3>1. InChannel(c) /\ Accounted(m, c)
        BY <2>1 DEF Fine
      <3>2. i # None
        BY <3>1, PublisherAssumption DEF InChannel
      <3> QED
        BY <1>1, <3>1, <3>2 DEF Accounted
    <2> QED
      BY <1>4, <2>1 DEF Accounted
  <1>6. Fine(n, c)
    BY <1>4, <1>5 DEF Fine
  <1> QED
    BY <1>4, <1>6

LEMMA ReleaseFine ==
  ASSUME NEW m, NEW c, Fine(m, c), NEW nonce, Unrepeated => DOMAIN c = {},
         NEW n, n = release_card_creation(m, nonce)
  PROVE  Fine(n, c) /\ Kept(m, n)
  <1>1. m \in Record /\ constructible(m)
    BY DEF Fine
  <1>2. CASE n = m
    BY <1>2 DEF Kept
  <1>3. CASE m.card = None /\ n = updated_record([m EXCEPT !.create = None])
    <2>1. m.cleanup = None /\ m.publication_pending = TRUE
      BY <1>1, <1>3 DEF constructible, Fine, Record
    <2>2. PICK k : k = [m EXCEPT !.create = None]
      OBVIOUS
    <2>3. /\ k \in Record /\ k.card = None /\ k.cleanup = None /\ k.publication_pending = TRUE
          /\ Kept(m, k)
      BY <1>1, <1>3, <2>1, <2>2 DEF Record, Kept
    <2>4. /\ n \in Record /\ constructible(n) /\ Kept(m, n) /\ n.publication_pending = TRUE
      BY <1>1, <1>3, <2>2, <2>3, Changed
    <2> QED
      BY <2>4 DEF Fine, Accounted
  <1> QED
    BY <1>2, <1>3 DEF release_card_creation

\* A nonce is done with when only the card is left.
LEMMA CleanupFine ==
  ASSUME NEW m, NEW c, Fine(m, c), m.card # None, NEW nonce, m.cleanup \in {None, nonce},
         Unrepeated => DOMAIN c \subseteq {m.card},
         NEW n, n = complete_card_cleanup(m, nonce)
  PROVE  /\ Fine(n, c) /\ Kept(m, n) /\ n.card = m.card /\ n.cleanup = None
  <1>1. m \in Record /\ constructible(m) /\ m.create = None
    BY DEF Fine, constructible
  <1>2. CASE n = m /\ m.cleanup # nonce
    BY <1>2 DEF Kept
  <1>3. CASE n = updated_record([m EXCEPT !.cleanup = None])
    <2>2. PICK k : k = [m EXCEPT !.cleanup = None]
      OBVIOUS
    <2>3. /\ k \in Record /\ k.card = m.card /\ k.create = None /\ k.cleanup = None
          /\ k.publication_pending = m.publication_pending /\ Kept(m, k)
      BY <1>1, <2>2 DEF Record, Kept
    <2>4. /\ n \in Record /\ constructible(n) /\ Kept(m, n) /\ n.card = m.card
          /\ n.cleanup = None /\ n.publication_pending = m.publication_pending
      <3>1. n = updated_record(k)
        BY <1>3, <2>2
      <3> QED
        BY <1>1, <2>3, <3>1, Changed
    <2>5. Unrepeated => Accounted(n, c)
      BY <2>4 DEF Accounted
    <2>6. ~n.publication_pending => Current(n, c)
      BY <2>4 DEF Fine, Current, Kept, signature
    <2> QED
      BY <2>4, <2>5, <2>6 DEF Fine
  <1> QED
    BY <1>2, <1>3 DEF complete_card_cleanup

\* A card is given up when nothing is left of it.
LEMMA ClearFine ==
  ASSUME NEW m, NEW c, Fine(m, c), m.card # None, Unrepeated => DOMAIN c = {},
         NEW n, n = clear_card_if_matches(m, m.card)
  PROVE  Fine(n, c) /\ Kept(m, n) /\ n.card = None
  <1>1. m \in Record /\ constructible(m)
    BY DEF Fine
  <1>2. /\ n \in Record /\ constructible(n) /\ Kept(m, n) /\ n.card = None
        /\ n.publication_pending = TRUE
    <2>1. PICK k : k = [m EXCEPT !.card = None, !.create = None, !.cleanup = None,
                                 !.publication_pending = TRUE]
      OBVIOUS
    <2>2. /\ k \in Record /\ k.card = None /\ k.cleanup = None /\ k.publication_pending = TRUE
          /\ Kept(m, k)
      BY <1>1, <2>1 DEF Record, Kept
    <2>3. n = updated_record(k)
      BY <2>1 DEF clear_card_if_matches
    <2> QED
      BY <1>1, <2>2, <2>3, Changed
  <1>3. Fine(n, c)
    BY <1>2 DEF Fine, Accounted
  <1> QED
    BY <1>2, <1>3

LEMMA CompleteFine ==
  ASSUME NEW m, NEW c, Fine(m, c), Current(m, c), NEW revision,
         NEW n, n = complete_publication(m, revision)
  PROVE  Fine(n, c) /\ Kept(m, n) /\ n.card = m.card /\ n.cleanup = m.cleanup
  <1>1. m \in Record /\ constructible(m)
    BY DEF Fine
  <1>2. CASE n = m
    BY <1>2 DEF Kept
  <1>3. CASE m.card # None /\ n = updated_record([m EXCEPT !.publication_pending = FALSE])
    <2>1. (m.card # None => m.create = None) /\ (m.card = None => m.cleanup = None)
      BY <1>1 DEF constructible
    <2>2. PICK k : k = [m EXCEPT !.publication_pending = FALSE]
      OBVIOUS
    <2>5. /\ k \in Record /\ k.card = m.card /\ k.create = m.create /\ k.cleanup = m.cleanup
          /\ Kept(m, k)
      BY <1>1, <2>2 DEF Record, Kept
    <2>3. /\ n \in Record /\ constructible(n) /\ Kept(m, n) /\ n.card = m.card
          /\ n.create = m.create /\ n.cleanup = m.cleanup
      <3>1. n = updated_record(k)
        BY <1>3, <2>2
      <3> QED
        BY <1>1, <2>1, <2>5, <3>1, Changed
    <2>4. (Unrepeated => Accounted(n, c)) /\ Current(n, c) /\ n.card # None
      BY <1>3, <2>3 DEF Accounted, Current, Kept, signature, Fine
    <2> QED
      BY <2>3, <2>4 DEF Fine
  <1> QED
    BY <1>2, <1>3 DEF complete_publication

----------------------------------------------------------------------------
(* What a step of the publication comes to.                                *)

\* A result of a step that found the record m and the channel c.
Outcome(q, m, c) ==
  /\ Fine(q.mirror, c) /\ Kept(m, q.mirror)
  /\ q.pub \in Publisher /\ At(q.mirror, q.pub, c)
  /\ q.faults \in Nat

LEMMA IdleFacts == Idle \in Publisher /\ Idle.at = "idle"
  BY DEF Idle, Publisher, Places

\* The publication ends, whatever it left in the record.
LEMMA EndedFine ==
  ASSUME NEW m, NEW n, NEW c, Fine(n, c), Kept(m, n), NEW k \in Nat,
         NEW q, q = [mirror |-> n, pub |-> Idle, faults |-> k]
  PROVE  Outcome(q, m, c)
  <1>1. q.mirror = n /\ q.pub = Idle /\ q.faults = k
    OBVIOUS
  <1>2. At(n, Idle, c)
    BY IdleFacts DEF At, Creating, Drawing, Attached
  <1> QED
    BY <1>1, <1>2, IdleFacts DEF Outcome

\* Where a step goes on from the record that it stored.
LEMMA OutcomeFrom ==
  ASSUME NEW m, NEW n, NEW c, NEW q, Kept(m, n), Outcome(q, n, c)
  PROVE  Outcome(q, m, c)
  <1>1. Kept(m, q.mirror)
    BY DEF Outcome, Kept
  <1> QED
    BY <1>1 DEF Outcome

LEMMA RecordFresh ==
  ASSUME NEW m \in Record
  PROVE  Fresh(m, m)
  <1>1. m.revision \in Nat
    BY DEF Record
  <1> QED
    BY <1>1 DEF Fresh

LEMMA FinishAttachedFine ==
  ASSUME NEW m, NEW s \in Publisher, NEW c, Fine(m, c), m.card # None, NEW message,
         NEW k \in Nat, NEW q, q \in FinishAttached(m, s, m, message, k)
  PROVE  Outcome(q, m, c)
  <1>1. m \in Record
    BY DEF Fine
  <1>2. Kept(m, m)
    BY DEF Kept
  <1>3. CASE q = [mirror |-> m, pub |-> Idle, faults |-> 0]
    BY <1>2, <1>3, EndedFine
  <1>4. CASE q = [mirror |-> m, faults |-> 0,
                  pub |-> [s EXCEPT !.at = IF message = m.card THEN "edit" ELSE "fetch",
                                    !.record = m, !.rendered = m, !.message = m.card,
                                    !.redirects = k, !.tries = 0, !.after = "cleanup"]]
    <2>1. /\ q.mirror = m /\ q.faults = 0 /\ q.pub.at \in {"edit", "fetch"}
          /\ q.pub.record = m /\ q.pub.rendered = m /\ q.pub.message = m.card
      BY <1>4 DEF Publisher
    <2>2. q.pub \in Publisher
      <3>1. m.card \in Nat \cup {None} /\ m \in Record \cup {None}
        BY <1>1 DEF Record
      <3> QED
        BY <1>4, <3>1 DEF Publisher, Places
    <2>3. At(m, q.pub, c)
      BY <1>1, <2>1, RecordFresh DEF At, Creating, Drawing, Attached
    <2> QED
      BY <1>2, <2>1, <2>2, <2>3 DEF Outcome
  <1> QED
    BY <1>3, <1>4 DEF FinishAttached, Result

LEMMA CreateCardFine ==
  ASSUME used.nonces \in Nat, NEW m, NEW s \in Publisher, NEW c, Fine(m, c),
         NEW q, q \in CreateCard(m, s)
  PROVE  Outcome(q, m, c)
  <1>1. m \in Record /\ Kept(m, m) /\ 0 \in Nat /\ 1 \in Nat
    BY DEF Fine, Kept
  <1>2. CASE claimable(m)
    <2>1. PICK n : n = claim_card_record(m, used.nonces + 1)
      OBVIOUS
    <2>2. used.nonces + 1 \in Nat
      OBVIOUS
    <2>3. /\ Fine(n, c) /\ Kept(m, n) /\ n.card = None /\ n.create = used.nonces + 1
          /\ Unrepeated => DOMAIN c = {}
      BY <1>2, <2>1, <2>2, ClaimFine
    <2>4. \/ q = [mirror |-> n, pub |-> [s EXCEPT !.at = "send", !.record = n], faults |-> 0]
          \/ q = [mirror |-> m, pub |-> Idle, faults |-> 1]
          \/ q = [mirror |-> n, pub |-> Idle, faults |-> 1]
      BY <1>2, <2>1, PublisherAssumption DEF CreateCard, Committed, Result, Raised
    <2>5. CASE q = [mirror |-> n, pub |-> [s EXCEPT !.at = "send", !.record = n], faults |-> 0]
      <3>1. n \in Record /\ n.create # None
        BY <2>2, <2>3, PublisherAssumption DEF Fine
      <3>2. /\ q.mirror = n /\ q.faults = 0 /\ q.pub.at = "send" /\ q.pub.record = n
        BY <2>5 DEF Publisher
      <3>3. q.pub \in Publisher
        BY <2>5, <3>1 DEF Publisher, Places
      <3>4. At(n, q.pub, c)
        BY <2>3, <3>1, <3>2 DEF At, Creating, Drawing, Attached
      <3> QED
        BY <1>1, <2>3, <3>2, <3>3, <3>4 DEF Outcome
    <2> QED
      BY <1>1, <2>3, <2>4, <2>5, EndedFine
  <1>3. CASE ~claimable(m) /\ m.card # None
    <2>1. q \in FinishAttached(m, s, m, None, 0)
      BY <1>3 DEF CreateCard
    <2> QED
      BY <1>1, <1>3, <2>1, FinishAttachedFine
  <1>4. CASE ~claimable(m) /\ m.card = None
    <2>1. q = [mirror |-> m, pub |-> [s EXCEPT !.at = "find", !.record = m], faults |-> 0]
      BY <1>4 DEF CreateCard, Result
    <2>2. /\ q.mirror = m /\ q.faults = 0 /\ q.pub.at = "find" /\ q.pub.record = m
      BY <2>1 DEF Publisher
    <2>3. q.pub \in Publisher
      BY <1>1, <2>1 DEF Publisher, Places
    <2>4. At(m, q.pub, c)
      BY <1>1, <1>4, <2>2 DEF At, Creating, Drawing, Attached, claimable
    <2> QED
      BY <1>1, <2>2, <2>3, <2>4 DEF Outcome
  <1> QED
    BY <1>2, <1>3, <1>4

LEMMA IterateFine ==
  ASSUME used.nonces \in Nat, NEW m, NEW s \in Publisher, NEW c, Fine(m, c),
         NEW q, q \in Iterate(m, s)
  PROVE  Outcome(q, m, c)
  <1>1. CASE m.card = None /\ q \in CreateCard(m, s)
    BY <1>1, CreateCardFine
  <1>2. CASE m.card # None /\ q \in FinishAttached(m, s, m, None, 0)
    BY <1>2, FinishAttachedFine
  <1> QED
    BY <1>1, <1>2 DEF Iterate

\* A publication is completed only when the card shows the record.
LEMMA DeliveredFine ==
  ASSUME used.nonces \in Nat, NEW m, NEW s \in Publisher, NEW c, Fine(m, c), Current(m, c),
         NEW q, q \in Delivered(m, s, m)
  PROVE  Outcome(q, m, c)
  <1>1. Kept(m, m) /\ 0 \in Nat /\ 1 \in Nat
    BY DEF Kept
  <1>2. PICK n : n = complete_publication(m, m.revision)
    OBVIOUS
  <1>3. Fine(n, c) /\ Kept(m, n)
    BY <1>2, CompleteFine
  <1>4. \/ q = [mirror |-> m, pub |-> Idle, faults |-> 0]
        \/ q = [mirror |-> m, pub |-> Idle, faults |-> 1]
        \/ q = [mirror |-> n, pub |-> Idle, faults |-> 1]
        \/ q = [mirror |-> n, pub |-> Idle, faults |-> 0]
        \/ q \in Iterate(n, [s EXCEPT !.loops = s.loops + 1])
    BY <1>2, PublisherAssumption DEF Delivered, Committed, Result, Raised
  <1>5. CASE q \in Iterate(n, [s EXCEPT !.loops = s.loops + 1])
    <2>1. [s EXCEPT !.loops = s.loops + 1] \in Publisher
      BY DEF Publisher
    <2>2. Outcome(q, n, c)
      BY <1>3, <1>5, <2>1, IterateFine
    <2> QED
      BY <1>3, <2>2, OutcomeFrom
  <1> QED
    BY <1>1, <1>3, <1>4, <1>5, EndedFine

\* A publication that has its card: what it read when it found the card still holds.
Holding(m, s) ==
  /\ m.card # None /\ s.message = m.card
  /\ s.record \in Record /\ s.record.card = m.card /\ m.cleanup \in {None, s.record.cleanup}

LEMMA RetainedFine ==
  ASSUME used.nonces \in Nat, NEW m, NEW s \in Publisher, NEW c, Fine(m, c), Holding(m, s),
         Current(m, c), NEW q, q \in Retained(m, s, m)
  PROVE  Outcome(q, m, c)
  <1>1. m \in Record /\ Kept(m, m) /\ m.card = s.message
    BY DEF Fine, Kept, Holding
  <1>2. CASE /\ m.cleanup # None
             /\ q = [mirror |-> m, pub |-> [s EXCEPT !.at = "duplicates", !.rendered = m], faults |-> 0]
    <2>1. /\ q.mirror = m /\ q.faults = 0 /\ q.pub.at = "duplicates" /\ q.pub.rendered = m
          /\ q.pub.record = s.record /\ q.pub.message = s.message
      BY <1>2 DEF Publisher
    <2>2. q.pub \in Publisher
      BY <1>1, <1>2 DEF Publisher, Places
    <2>3. At(m, q.pub, c)
      BY <1>1, <1>2, <2>1 DEF At, Creating, Drawing, Attached, Holding, Current
    <2> QED
      BY <1>1, <2>1, <2>2, <2>3 DEF Outcome
  <1>3. CASE q \in Delivered(m, s, m)
    BY <1>3, DeliveredFine
  <1> QED
    BY <1>1, <1>2, <1>3 DEF Retained, Result

LEMMA ReconcileFine ==
  ASSUME used.nonces \in Nat, NEW m, NEW s \in Publisher, NEW c, Fine(m, c), Holding(m, s),
         Fresh(m, s.rendered), m.card \in DOMAIN c => c[m.card].shows = signature(s.rendered),
         NEW q, q \in Reconcile(m, s)
  PROVE  Outcome(q, m, c)
  <1>1. m \in Record /\ Kept(m, m) /\ m.card = s.message /\ 0 \in Nat
    BY DEF Fine, Kept, Holding
  <1>2. CASE m.revision = s.rendered.revision /\ q \in Retained(m, s, m)
    <2>1. Current(m, c)
      BY <1>2 DEF Current, Fresh
    <2> QED
      BY <1>2, <2>1, RetainedFine
  <1>3. CASE q = [mirror |-> m, pub |-> Idle, faults |-> 0]
    BY <1>1, <1>3, EndedFine
  <1>4. CASE q = [mirror |-> m, faults |-> 0,
                  pub |-> [s EXCEPT !.at = "catch_up", !.rendered = m, !.tries = s.tries + 1]]
    <2>1. /\ q.mirror = m /\ q.faults = 0 /\ q.pub.at = "catch_up" /\ q.pub.rendered = m
          /\ q.pub.record = s.record /\ q.pub.message = s.message
      BY <1>4 DEF Publisher
    <2>2. q.pub \in Publisher
      <3>1. s.tries + 1 \in Nat
        BY DEF Publisher
      <3> QED
        BY <1>1, <1>4, <3>1 DEF Publisher, Places
    <2>3. At(m, q.pub, c)
      BY <1>1, <2>1, RecordFresh DEF At, Creating, Drawing, Attached, Holding
    <2> QED
      BY <1>1, <2>1, <2>2, <2>3 DEF Outcome
  <1> QED
    BY <1>1, <1>2, <1>3, <1>4 DEF Reconcile, Result

LEMMA CleanedUpFine ==
  ASSUME used.nonces \in Nat, NEW m, NEW s \in Publisher, NEW c, Fine(m, c), Holding(m, s),
         s.rendered \in Record, m.cleanup = s.rendered.cleanup,
         m.card \in DOMAIN c => c[m.card].shows = signature(s.rendered),
         Unrepeated => DOMAIN c \subseteq {m.card},
         NEW q, q \in CleanedUp(m, s)
  PROVE  Outcome(q, m, c)
  <1>1. Kept(m, m) /\ 1 \in Nat /\ 0 \in Nat /\ m.card # None
    BY DEF Kept, Holding
  <1>2. PICK n : n = complete_card_cleanup(m, s.rendered.cleanup)
    OBVIOUS
  <1>3. Fine(n, c) /\ Kept(m, n) /\ n.card = m.card /\ n.cleanup = None
    BY <1>1, <1>2, CleanupFine
  <1>4. n \in Record
    BY <1>3 DEF Fine
  <1>5. PICK k \in Publisher : k = [s EXCEPT !.after = "delivered"]
    BY DEF Publisher
  <1>6. Holding(n, k) /\ k.rendered = s.rendered
    BY <1>3, <1>5 DEF Holding, Publisher
  <1>7. \/ q = [mirror |-> m, pub |-> Idle, faults |-> 1]
        \/ q = [mirror |-> n, pub |-> Idle, faults |-> 1]
        \/ /\ signature(n) = signature(s.rendered)
           /\ q \in Retained(n, [s EXCEPT !.after = "delivered"], n)
        \/ q = [mirror |-> n, faults |-> 0,
                 pub |-> [s EXCEPT !.at = "refresh", !.rendered = n, !.after = "delivered",
                                   !.tries = 0]]
    <2> DEFINE then(x) == IF signature(x) = signature(s.rendered)
                          THEN Retained(x, [s EXCEPT !.after = "delivered"], x)
                          ELSE Result(x, [s EXCEPT !.at = "refresh", !.rendered = x,
                                                   !.after = "delivered", !.tries = 0])
    <2>1. q \in Committed(m, n, then)
      BY <1>2 DEF CleanedUp
    <2>2. \/ q = [mirror |-> m, pub |-> Idle, faults |-> 1]
          \/ q = [mirror |-> n, pub |-> Idle, faults |-> 1]
          \/ q \in then(n)
      <3> HIDE DEF then
      <3> QED
        BY <2>1, PublisherAssumption DEF Committed, Raised
    <2> QED
      BY <2>2 DEF Result
  <1>8. CASE /\ signature(n) = signature(s.rendered)
             /\ q \in Retained(n, [s EXCEPT !.after = "delivered"], n)
    <2>1. Current(n, c)
      BY <1>3, <1>8 DEF Current
    <2>2. Outcome(q, n, c)
      BY <1>3, <1>5, <1>6, <1>8, <2>1, RetainedFine
    <2> QED
      BY <1>3, <2>2, OutcomeFrom
  <1>9. CASE q = [mirror |-> n, faults |-> 0,
                  pub |-> [s EXCEPT !.at = "refresh", !.rendered = n, !.after = "delivered",
                                    !.tries = 0]]
    <2>1. /\ q.mirror = n /\ q.faults = 0 /\ q.pub.at = "refresh" /\ q.pub.rendered = n
          /\ q.pub.record = s.record /\ q.pub.message = s.message
      BY <1>9 DEF Publisher
    <2>2. q.pub \in Publisher
      BY <1>4, <1>9 DEF Publisher, Places
    <2>3. At(n, q.pub, c)
      BY <1>3, <1>4, <2>1, RecordFresh DEF At, Creating, Drawing, Attached, Holding
    <2> QED
      BY <1>1, <1>3, <2>1, <2>2, <2>3 DEF Outcome
  <1> QED
    BY <1>1, <1>3, <1>7, <1>8, <1>9, EndedFine

\* A card that is gone is given up when the channel has nothing else of it.
LEMMA ReplaceFine ==
  ASSUME used.nonces \in Nat, NEW m, NEW s \in Publisher, NEW c, Fine(m, c), Holding(m, s),
         Unrepeated => DOMAIN c = {}, NEW q, q \in Replace(m, s)
  PROVE  Outcome(q, m, c)
  <1> DEFINE clear(x) == Committed(x, clear_card_if_matches(x, s.record.card),
                                   LAMBDA new : Iterate(new, s))
  <1>1. ASSUME NEW n, Fine(n, c), Kept(m, n), n.card = m.card, q \in clear(n)
        PROVE  Outcome(q, m, c)
    <2>1. n.card # None /\ s.record.card = n.card /\ 1 \in Nat
      BY <1>1 DEF Holding
    <2>2. PICK o : o = clear_card_if_matches(n, n.card)
      OBVIOUS
    <2>3. Fine(o, c) /\ Kept(n, o)
      BY <1>1, <2>1, <2>2, ClearFine
    <2>4. \/ q = [mirror |-> n, pub |-> Idle, faults |-> 1]
          \/ q = [mirror |-> o, pub |-> Idle, faults |-> 1]
          \/ q \in Iterate(o, s)
      BY <1>1, <2>1, <2>2, PublisherAssumption DEF Committed, Raised
    <2>5. Kept(m, o)
      BY <1>1, <2>3, KeptTwice
    <2>6. CASE q \in Iterate(o, s)
      <3>1. Outcome(q, o, c)
        BY <2>3, <2>6, IterateFine
      <3> QED
        BY <2>5, <3>1, OutcomeFrom
    <2> QED
      BY <1>1, <2>1, <2>3, <2>4, <2>5, <2>6, EndedFine
  <1>2. Kept(m, m) /\ m.card # None /\ m.cleanup \in {None, s.record.cleanup} /\ 1 \in Nat
    BY DEF Kept, Holding
  <1>3. CASE s.record.cleanup = None
    <2>1. q \in clear(m)
      BY <1>3 DEF Replace
    <2> QED
      BY <1>1, <1>2, <2>1
  <1>4. CASE s.record.cleanup # None
    <2>1. PICK n : n = complete_card_cleanup(m, s.record.cleanup)
      OBVIOUS
    <2>2. Fine(n, c) /\ Kept(m, n) /\ n.card = m.card
      BY <1>2, <2>1, CleanupFine
    <2>3. \/ q = [mirror |-> m, pub |-> Idle, faults |-> 1]
          \/ q = [mirror |-> n, pub |-> Idle, faults |-> 1]
          \/ q \in clear(n)
      <3>1. q \in Committed(m, n, clear)
        BY <1>4, <2>1 DEF Replace
      <3> HIDE DEF clear
      <3> QED
        BY <3>1, PublisherAssumption DEF Committed, Raised
    <2> QED
      BY <1>1, <1>2, <2>2, <2>3, EndedFine
  <1> QED
    BY <1>3, <1>4

LEMMA MissingCardFine ==
  ASSUME used.nonces \in Nat, NEW m, NEW s \in Publisher, NEW c, Fine(m, c), Holding(m, s),
         m.card \notin DOMAIN c, NEW q, q \in MissingCard(m, s)
  PROVE  Outcome(q, m, c)
  <1>1. Kept(m, m) /\ m \in Record /\ m.create = None
    BY DEF Kept, Fine, constructible, Holding
  <1>2. CASE s.record.cleanup = None /\ q \in Replace(m, s)
    <2>1. Unrepeated => DOMAIN c = {}
      <3>1. ASSUME Unrepeated, NEW i \in DOMAIN c
            PROVE  FALSE
        BY <1>1, <1>2, <3>1 DEF Fine, Accounted, Holding
      <3> QED
        BY <3>1
    <2> QED
      BY <1>2, <2>1, ReplaceFine
  <1>3. CASE /\ s.record.cleanup # None
             /\ q = [mirror |-> m, pub |-> [s EXCEPT !.at = "leftovers"], faults |-> 0]
    <2>1. /\ q.mirror = m /\ q.faults = 0 /\ q.pub.at = "leftovers"
          /\ q.pub.record = s.record /\ q.pub.message = s.message
      BY <1>3 DEF Publisher
    <2>2. q.pub \in Publisher
      BY <1>3 DEF Publisher, Places
    <2>3. At(m, q.pub, c)
      BY <1>3, <2>1 DEF At, Creating, Drawing, Attached, Holding
    <2> QED
      BY <1>1, <2>1, <2>2, <2>3 DEF Outcome
  <1> QED
    BY <1>2, <1>3 DEF MissingCard, Result

\* The oldest of the messages becomes the card, or they are to be deleted again.
LEMMA AttachedFine ==
  ASSUME NEW m, NEW s \in Publisher, NEW c, Fine(m, c), s.record \in Record, m.card = None,
         m.create # None, m.create = s.record.create, NEW messages \in SUBSET Nat, messages # {},
         "failed" \in WriteOutcomes /\ Unrepeated => DOMAIN c \subseteq messages,
         NEW q, q \in Attach(m, s, messages)
  PROVE  Outcome(q, m, c)
  <1>1. /\ Kept(m, m) /\ 0 \in Nat /\ 1 \in Nat
        /\ ~attach_conflicts(m, s.record.create)
    BY DEF Kept, attach_conflicts
  <1>2. PICK message : message = CHOOSE i \in messages : \A j \in messages : i <= j
    OBVIOUS
  <1>3. message \in Nat
    BY <1>2, Least
  <1>4. PICK n : n = attach_card_if_missing(m, message, s.record.create)
    OBVIOUS
  <1>5. Fine(n, c) /\ Kept(m, n) /\ n.card = message /\ message # None
    BY <1>3, <1>4, AttachFine, PublisherAssumption
  <1>6. PICK k \in Publisher : k = [s EXCEPT !.raises = TRUE]
    BY DEF Publisher
  <1>7. \/ q \in FinishAttached(n, s, n, message, 0)
        \/ /\ "failed" \in WriteOutcomes
           /\ q = [mirror |-> m, faults |-> 1,
                   pub |-> [s EXCEPT !.at = "undo", !.todo = messages, !.removed = TRUE]]
        \/ \E p \in FinishAttached(n, k, n, message, 0) : q = [p EXCEPT !.faults = 1]
    <2> DEFINE undo == [s EXCEPT !.at = "undo", !.todo = messages, !.removed = TRUE]
               attached(o) ==
                 CASE o = "ok" -> FinishAttached(n, s, n, message, 0)
                   [] o = "failed" -> {[mirror |-> m, pub |-> undo, faults |-> 1]}
                   [] o = "unsynced" ->
                        {[p EXCEPT !.faults = 1] :
                           p \in FinishAttached(n, [s EXCEPT !.raises = TRUE], n, message, 0)}
    <2>1. q \in UNION {attached(o) : o \in IF n = m THEN {"ok"} ELSE WriteOutcomes}
      BY <1>1, <1>2, <1>4, Zenon DEF Attach
    <2>2. PICK o \in IF n = m THEN {"ok"} ELSE WriteOutcomes : q \in attached(o)
      BY <2>1
    <2>3. o \in WriteOutcomes /\ o \in {"ok", "failed", "unsynced"}
      BY PublisherAssumption
    <2>4. CASE o = "ok"
      BY <2>2, <2>4
    <2>5. CASE o = "failed"
      BY <2>2, <2>3, <2>5
    <2>6. CASE o = "unsynced"
      <3>1. q \in {[p EXCEPT !.faults = 1] : p \in FinishAttached(n, k, n, message, 0)}
        BY <1>6, <2>2, <2>6
      <3> QED
        BY <3>1
    <2> QED
      BY <2>3, <2>4, <2>5, <2>6
  <1>8. CASE q \in FinishAttached(n, s, n, message, 0)
    <2>1. Outcome(q, n, c)
      BY <1>1, <1>5, <1>8, FinishAttachedFine
    <2> QED
      BY <1>5, <2>1, OutcomeFrom
  <1>9. CASE /\ "failed" \in WriteOutcomes
             /\ q = [mirror |-> m, faults |-> 1,
                     pub |-> [s EXCEPT !.at = "undo", !.todo = messages, !.removed = TRUE]]
    <2>1. /\ q.mirror = m /\ q.faults = 1 /\ q.pub.at = "undo"
          /\ q.pub.record = s.record /\ q.pub.todo = messages
      BY <1>9 DEF Publisher
    <2>2. q.pub \in Publisher
      BY <1>9 DEF Publisher, Places
    <2>3. At(m, q.pub, c)
      BY <1>9, <2>1 DEF At, Creating, Drawing, Attached
    <2> QED
      BY <1>1, <2>1, <2>2, <2>3 DEF Outcome
  <1>10. CASE \E p \in FinishAttached(n, k, n, message, 0) : q = [p EXCEPT !.faults = 1]
    <2>1. PICK p \in FinishAttached(n, k, n, message, 0) : q = [p EXCEPT !.faults = 1]
      BY <1>10
    <2>2. Outcome(p, n, c)
      BY <1>1, <1>5, <2>1, FinishAttachedFine
    <2>3. /\ q.mirror = p.mirror /\ q.pub = p.pub /\ q.faults = 1
      BY <2>1 DEF FinishAttached, Result
    <2>4. Outcome(q, n, c)
      BY <1>1, <2>2, <2>3 DEF Outcome
    <2> QED
      BY <1>5, <2>4, OutcomeFrom
  <1> QED
    BY <1>7, <1>8, <1>9, <1>10

----------------------------------------------------------------------------
(* What happens to the channel.                                            *)

\* The channel d has messages of c, and no others.
Within(d, c) == InChannel(d) /\ DOMAIN d \subseteq DOMAIN c /\ \A i \in DOMAIN d : d[i] = c[i]

\* Messages that go leave nothing that the record does not know.
LEMMA FewerFine ==
  ASSUME NEW m, NEW c, NEW d, Fine(m, c), Within(d, c)
  PROVE  Fine(m, d)
  <1>1. Unrepeated => Accounted(m, d)
    BY DEF Fine, Within, Accounted
  <1>2. ~m.publication_pending => Current(m, d)
    BY DEF Fine, Within, Current
  <1> QED
    BY <1>1, <1>2 DEF Fine, Within

LEMMA FewerAt ==
  ASSUME NEW m, NEW s, NEW c, NEW d, At(m, s, c), Within(d, c)
  PROVE  At(m, s, d)
  BY DEF At, Within

LEMMA WithoutFacts ==
  ASSUME InChannel(channel), NEW S, NEW d, d = Without(S)
  PROVE  Within(d, channel) /\ DOMAIN d = DOMAIN channel \ S
  <1>1. DOMAIN d = DOMAIN channel \ S /\ \A i \in DOMAIN d : d[i] = channel[i]
    BY DEF Without
  <1>2. d \in [DOMAIN d -> Message]
    BY <1>1 DEF InChannel, Without
  <1> QED
    BY <1>1, <1>2 DEF Within, InChannel

\* A card that is sent has the claim's nonce.
LEMMA PostedFine ==
  ASSUME NEW m, m = mirror, pub \in Publisher, used.messages \in Nat, Fine(m, channel),
         At(m, pub, channel), pub.at = "send", NEW k \in {1, 2}, NEW d, d = Posted(k)
  PROVE  /\ Fine(m, d)
         /\ Unrepeated => DOMAIN d = (used.messages + 1)..(used.messages + k)
         /\ DOMAIN d \ DOMAIN channel \subseteq (used.messages + 1)..(used.messages + k)
         /\ used.messages + k \in DOMAIN d
  <1> DEFINE new == (used.messages + 1)..(used.messages + k)
             card == [nonce |-> pub.record.create, marker |-> delivery_marker(pub.record),
                      shows |-> signature(pub.record)]
  <1>1. /\ pub.record \in Record /\ m.card = None /\ m.create # None
        /\ m.create = pub.record.create /\ (Unrepeated => DOMAIN channel = {})
        /\ m \in Record /\ InChannel(channel)
    BY DEF At, Creating, Fine
  <1>2. /\ DOMAIN d = DOMAIN channel \cup new
        /\ \A i \in DOMAIN d : d[i] = IF i \in new THEN card ELSE channel[i]
    BY DEF Posted
  <1>3. card.marker = m.create /\ card \in Message
    <2>1. delivery_marker(pub.record) = m.create /\ m.create \in Nat
      BY <1>1 DEF delivery_marker, Record
    <2>2. signature(pub.record) \in Shown
      BY <1>1 DEF signature, Record, Shown
    <2> QED
      BY <1>1, <2>1, <2>2 DEF Message
  <1>4. new \subseteq Nat
    OBVIOUS
  <1> HIDE DEF card
  <1>5. InChannel(d)
    <2>1. d = [i \in DOMAIN d |-> d[i]]
      BY DEF Posted
    <2>2. \A i \in DOMAIN d : d[i] \in Message
      BY <1>1, <1>2, <1>3 DEF InChannel
    <2> HIDE DEF new
    <2> QED
      BY <1>1, <1>2, <1>4, <2>1, <2>2 DEF InChannel
  <1>6. Unrepeated => Accounted(m, d)
    BY <1>1, <1>2, <1>3 DEF Accounted
  <1>7. m.publication_pending = TRUE
    BY <1>1 DEF Fine, Record
  <1>8. used.messages + k \in new
    OBVIOUS
  <1>9. Fine(m, d)
    BY <1>5, <1>6, <1>7 DEF Fine
  <1> HIDE DEF new
  <1>10. /\ Unrepeated => DOMAIN d = new
         /\ DOMAIN d \ DOMAIN channel \subseteq new
         /\ used.messages + k \in DOMAIN d
    BY <1>1, <1>2, <1>8
  <1> QED
    BY <1>9, <1>10 DEF new

\* A card that is edited shows the record, if that is published.
LEMMA EditedFine ==
  ASSUME NEW m, m = mirror, pub \in Publisher, Fine(m, channel), At(m, pub, channel), Editing,
         pub.message \in DOMAIN channel, NEW d, d = Edited
  PROVE  /\ Fine(m, d) /\ DOMAIN d = DOMAIN channel
         /\ d[m.card].shows = signature(pub.rendered)
  <1>1. /\ Fresh(m, pub.rendered) /\ pub.rendered \in Record /\ pub.message = m.card
        /\ m.card \in DOMAIN channel /\ InChannel(channel)
    BY DEF At, Drawing, Attached, Editing, Fine, Fresh
  <1>2. PICK mark \in Nat \cup {None} : mark = delivery_marker(pub.rendered)
    BY <1>1 DEF delivery_marker, Record
  <1>3. PICK shown \in Shown : shown = signature(pub.rendered)
    BY <1>1 DEF signature, Record, Shown
  <1>4. d = [channel EXCEPT ![m.card].marker = mark, ![m.card].shows = shown]
    BY <1>1, <1>2, <1>3 DEF Edited
  <1>5. channel[m.card] \in Message
    BY <1>1 DEF InChannel
  <1>6. /\ DOMAIN d = DOMAIN channel /\ d[m.card] \in Message /\ d[m.card].shows = shown
        /\ \A i \in DOMAIN d : i # m.card => d[i] = channel[i]
    <2>1. PICK card \in Message : card = [channel[m.card] EXCEPT !.marker = mark, !.shows = shown]
      BY <1>5 DEF Message
    <2>2. card.shows = shown
      BY <1>5, <2>1 DEF Message
    <2>3. channel = [i \in DOMAIN channel |-> channel[i]]
      BY <1>1 DEF InChannel
    <2>4. /\ DOMAIN d = DOMAIN channel /\ d[m.card] = card
          /\ \A i \in DOMAIN d : i # m.card => d[i] = channel[i]
      BY <1>1, <1>4, <2>1, <2>3
    <2> QED
      BY <2>1, <2>2, <2>4
  <1>7. InChannel(d)
    <2>1. \A i \in DOMAIN d : d[i] \in Message
      BY <1>1, <1>6 DEF InChannel
    <2>2. d = [i \in DOMAIN d |-> d[i]]
      BY <1>1, <1>4 DEF InChannel
    <2> QED
      BY <1>1, <1>6, <2>1, <2>2 DEF InChannel
  <1>8. Unrepeated => Accounted(m, d)
    BY <1>6 DEF Fine, Accounted
  <1>9. ~m.publication_pending => Current(m, d)
    BY <1>1, <1>3, <1>6 DEF Fresh, Current
  <1> QED
    BY <1>3, <1>6, <1>7, <1>8, <1>9 DEF Fine

\* A request that was cut off leaves record and channel in step.
LEMMA InFlightFine ==
  ASSUME NEW m, m = mirror, pub \in Publisher, used.messages \in Nat, Fine(m, channel),
         At(m, pub, channel), NEW d, d \in InFlight
  PROVE  Fine(m, d) /\ Cardinality(DOMAIN d \ DOMAIN channel) \in Nat
  <1>1. CASE d = channel
    <2>1. DOMAIN d \ DOMAIN channel \subseteq (used.messages + 1)..(used.messages + 2)
      BY <1>1
    <2> QED
      BY <1>1, <2>1, Growth
  <1>2. CASE pub.at = "send" /\ d = Posted(1)
    <2>1. /\ Fine(m, d)
          /\ DOMAIN d \ DOMAIN channel \subseteq (used.messages + 1)..(used.messages + 1)
      BY <1>2, PostedFine
    <2>2. DOMAIN d \ DOMAIN channel \subseteq (used.messages + 1)..(used.messages + 2)
      BY <2>1
    <2> QED
      BY <2>1, <2>2, Growth
  <1>3. CASE Editing /\ pub.message \in DOMAIN channel /\ d = Edited
    <2>1. Fine(m, d) /\ DOMAIN d = DOMAIN channel
      BY <1>3, EditedFine
    <2>2. DOMAIN d \ DOMAIN channel \subseteq (used.messages + 1)..(used.messages + 2)
      BY <2>1
    <2> QED
      BY <2>1, <2>2, Growth
  <1>4. CASE \E i \in pub.todo : d = Without({i})
    <2>1. InChannel(channel)
      BY DEF Fine
    <2>2. Within(d, channel)
      BY <1>4, <2>1, WithoutFacts
    <2>3. Fine(m, d)
      BY <2>2, FewerFine
    <2>4. DOMAIN d \ DOMAIN channel \subseteq (used.messages + 1)..(used.messages + 2)
      BY <2>2 DEF Within
    <2> QED
      BY <2>3, <2>4, Growth
  <1>5. \/ d = channel \/ (pub.at = "send" /\ d = Posted(1))
        \/ (Editing /\ pub.message \in DOMAIN channel /\ d = Edited)
        \/ \E i \in pub.todo : d = Without({i})
    <2>1. pub.at = "send" \/ (Editing /\ pub.message \in DOMAIN channel)
          \/ pub.at \in {"undo", "remove", "discard"}
          \/ ~(\/ pub.at = "send" \/ (Editing /\ pub.message \in DOMAIN channel)
               \/ pub.at \in {"undo", "remove", "discard"})
      OBVIOUS
    <2>2. CASE pub.at = "send"
      BY <2>2 DEF InFlight, Editing
    <2>3. CASE Editing /\ pub.message \in DOMAIN channel
      BY <2>3 DEF InFlight, Editing
    <2>4. CASE pub.at \in {"undo", "remove", "discard"}
      BY <2>4 DEF InFlight, Editing
    <2>5. CASE ~(\/ pub.at = "send" \/ (Editing /\ pub.message \in DOMAIN channel)
                \/ pub.at \in {"undo", "remove", "discard"})
      BY <2>5 DEF InFlight
    <2> QED
      BY <2>1, <2>2, <2>3, <2>4, <2>5
  <1> QED
    BY <1>1, <1>2, <1>3, <1>4, <1>5

----------------------------------------------------------------------------
(* The steps of the publication.                                           *)

\* While a publication is under way the record is there.
LEMMA AtWork ==
  ASSUME PublisherInv, pub.at # "idle"
  PROVE  /\ mirror # None /\ pub \in Publisher /\ used.nonces \in Nat /\ used.messages \in Nat
         /\ Fine(mirror, channel) /\ At(mirror, pub, channel) /\ Newest(mirror)
  <1>1. pub # Idle
    BY IdleFacts
  <1> QED
    BY <1>1 DEF PublisherInv

\* A step that comes to one of its results.
LEMMA Continued ==
  ASSUME PublisherInv, NEW m, m = mirror, m # None, NEW d, d = channel',
         Cardinality(DOMAIN d \ DOMAIN channel) \in Nat, NEW k \in Nat,
         NEW R, \A q \in R : Outcome(q, m, d), Continue(R, k)
  PROVE  PublisherInv'
  <1>1. PICK q \in R : /\ mirror' = q.mirror /\ pub' = q.pub
                       /\ used' = [used EXCEPT !.faults = used.faults + q.faults + k,
                                     !.messages = used.messages + Cardinality(DOMAIN d \ DOMAIN channel),
                                     !.nonces = IF q.mirror.create \in {None, mirror.create}
                                                THEN used.nonces ELSE used.nonces + 1]
                       /\ queue' = queue /\ seen' = seen
    BY DEF Continue
  <1>2. Outcome(q, m, d)
    BY <1>1
  <1>3. PICK n : n = q.mirror
    OBVIOUS
  <1>4. PICK s : s = q.pub
    OBVIOUS
  <1>5. /\ Fine(n, d) /\ Kept(m, n) /\ s \in Publisher /\ At(n, s, d) /\ q.faults \in Nat
    BY <1>2, <1>3, <1>4 DEF Outcome
  <1>6. n # None
    BY <1>5, PublisherAssumption DEF Fine
  <1>7. used' \in [messages : Nat, nonces : Nat, updates : Nat, faults : Nat, deletions : Nat,
                   crashes : Nat]
    <2>1. PICK a \in Nat : a = Cardinality(DOMAIN d \ DOMAIN channel)
      OBVIOUS
    <2>2. PICK b \in Nat : b = q.faults
      BY <1>5
    <2>3. /\ used.faults + b + k \in Nat /\ used.messages + a \in Nat /\ used.nonces \in Nat
          /\ used.nonces + 1 \in Nat
      BY DEF PublisherInv
    <2>4. PICK x \in Nat : x = IF q.mirror.create \in {None, mirror.create}
                               THEN used.nonces ELSE used.nonces + 1
      BY <2>3
    <2>5. used' = [used EXCEPT !.faults = used.faults + b + k, !.messages = used.messages + a,
                               !.nonces = x]
      BY <1>1, <2>1, <2>2, <2>4
    <2> QED
      BY <2>3, <2>5 DEF PublisherInv
  <1>8. Newest(n)'
    <2>1. Newest(m)
      BY DEF PublisherInv
    <2> QED
      BY <1>1, <1>5, <2>1 DEF Newest, Kept
  <1>9. mirror' = n /\ pub' = s /\ channel' = d
    BY <1>1, <1>3, <1>4
  <1> QED
    BY <1>1, <1>5, <1>6, <1>7, <1>8, <1>9 DEF PublisherInv

\* Requests that leave the channel alone.
LEMMA ContinuedAlone ==
  ASSUME PublisherInv, NEW m, m = mirror, m # None, NEW c, c = channel, channel' = channel,
         NEW k \in Nat, NEW R, \A q \in R : Outcome(q, m, c), Continue(R, k)
  PROVE  PublisherInv'
  <1>1. DOMAIN c \ DOMAIN channel \subseteq (0 + 1)..(0 + 2)
    OBVIOUS
  <1>2. Cardinality(DOMAIN c \ DOMAIN channel) \in Nat
    BY <1>1, Growth
  <1> QED
    BY <1>2, Continued

\* Requests that remove messages.
LEMMA ContinuedFewer ==
  ASSUME PublisherInv, NEW m, m = mirror, m # None, NEW d, d = channel', Within(d, channel),
         NEW k \in Nat, NEW R, \A q \in R : Outcome(q, m, d), Continue(R, k)
  PROVE  PublisherInv'
  <1>1. DOMAIN d \ DOMAIN channel \subseteq (0 + 1)..(0 + 2)
    BY DEF Within
  <1>2. Cardinality(DOMAIN d \ DOMAIN channel) \in Nat
    BY <1>1, Growth
  <1> QED
    BY <1>2, Continued

\* A search finds every message but the card.
LEMMA MatchesFacts ==
  ASSUME NEW m, Fine(m, channel), NEW nonce, m.create \in {None, nonce}, m.cleanup \in {None, nonce}
  PROVE  /\ Matches(nonce) \in SUBSET Nat
         /\ Unrepeated => DOMAIN channel \subseteq Matches(nonce) \cup {m.card}
  BY DEF Fine, InChannel, Accounted, Matches

LEMMA ResolvedStep ==
  ASSUME PublisherInv, Resolved
  PROVE  PublisherInv'
  <1>1. PICK m : m = mirror
    OBVIOUS
  <1>2. PICK s : s = pub
    OBVIOUS
  <1>3. PICK c : c = channel
    OBVIOUS
  <1>4. /\ m # None /\ s \in Publisher /\ used.nonces \in Nat /\ Fine(m, c)
    BY <1>1, <1>2, <1>3, AtWork DEF Resolved
  <1>5. PICK R : R = Iterate(m, s)
    OBVIOUS
  <1>6. \A q \in R : Outcome(q, m, c)
    BY <1>4, <1>5, IterateFine
  <1>7. Continue(R, 0) /\ channel' = channel /\ 0 \in Nat
    BY <1>1, <1>2, <1>5 DEF Resolved
  <1> QED
    BY <1>1, <1>3, <1>4, <1>6, <1>7, ContinuedAlone

LEMMA FoundStep ==
  ASSUME PublisherInv, Found
  PROVE  PublisherInv'
  <1>1. PICK m : m = mirror
    OBVIOUS
  <1>2. PICK s : s = pub
    OBVIOUS
  <1>3. PICK c : c = channel
    OBVIOUS
  <1>4. /\ m # None /\ s \in Publisher /\ used.nonces \in Nat /\ used.messages \in Nat
        /\ Fine(m, c) /\ At(m, s, c)
    BY <1>1, <1>2, <1>3, AtWork DEF Found
  <1>5. /\ s.at = "find" /\ s.record \in Record /\ m.card = None /\ m.create # None
        /\ m.create = s.record.create /\ m.cleanup = None /\ Kept(m, m) /\ 0 \in Nat
    BY <1>2, <1>4 DEF Found, At, Creating, Fine, constructible, Kept
  <1>6. PICK S : S = Matches(s.record.create)
    OBVIOUS
  <1>7. S \in SUBSET Nat /\ (Unrepeated => DOMAIN c \subseteq S)
    <2>1. S \in SUBSET Nat /\ (Unrepeated => DOMAIN c \subseteq S \cup {m.card})
      BY <1>3, <1>4, <1>5, <1>6, MatchesFacts
    <2>2. m.card \notin DOMAIN c
      BY <1>4, <1>5, PublisherAssumption DEF Fine, InChannel
    <2> QED
      BY <2>1, <2>2
  <1>8. PICK R : R = IF S = {} THEN Result(m, [s EXCEPT !.at = "send"]) ELSE Attach(m, s, S)
    OBVIOUS
  <1>9. ASSUME NEW q \in R
        PROVE  Outcome(q, m, c)
    <2>1. CASE S = {}
      <3>1. q = [mirror |-> m, pub |-> [s EXCEPT !.at = "send"], faults |-> 0]
        BY <1>8, <2>1 DEF Result
      <3>2. /\ q.mirror = m /\ q.faults = 0 /\ q.pub.at = "send" /\ q.pub.record = s.record
        BY <1>4, <3>1 DEF Publisher
      <3>3. q.pub \in Publisher
        BY <1>4, <3>1 DEF Publisher, Places
      <3>4. At(m, q.pub, c)
        BY <1>5, <1>7, <2>1, <3>2 DEF At, Creating, Drawing, Attached
      <3> QED
        BY <1>4, <1>5, <3>2, <3>3, <3>4 DEF Outcome
    <2>2. CASE S # {}
      <3>1. q \in Attach(m, s, S)
        BY <1>8, <2>2
      <3> QED
        BY <1>4, <1>5, <1>7, <2>2, <3>1, AttachedFine
    <2> QED
      BY <2>1, <2>2
  <1>10. Continue(R, 0) /\ channel' = channel
    BY <1>1, <1>2, <1>6, <1>8 DEF Found
  <1> QED
    BY <1>1, <1>3, <1>4, <1>5, <1>9, <1>10, ContinuedAlone

LEMMA SentStep ==
  ASSUME PublisherInv, Sent
  PROVE  PublisherInv'
  <1>1. PICK m : m = mirror
    OBVIOUS
  <1>2. PICK s : s = pub
    OBVIOUS
  <1>3. PICK c : c = channel
    OBVIOUS
  <1>4. /\ m # None /\ s \in Publisher /\ used.nonces \in Nat /\ used.messages \in Nat
        /\ Fine(m, c) /\ At(m, s, c)
    BY <1>1, <1>2, <1>3, AtWork DEF Sent
  <1>5. /\ s.at = "send" /\ s.record \in Record /\ m.card = None /\ m.create # None
        /\ m.create = s.record.create /\ (Unrepeated => DOMAIN c = {})
    BY <1>2, <1>4 DEF Sent, At, Creating
  <1>6. PICK copies \in Copies :
          channel' = Posted(copies) /\ Continue(Attach(mirror, pub, {used.messages + copies}), copies - 1)
    BY DEF Sent
  <1>7. copies \in {1, 2} /\ copies - 1 \in Nat /\ used.messages + copies \in Nat
    BY <1>4, <1>6, PublisherAssumption
  <1>8. PICK d : d = Posted(copies)
    OBVIOUS
  <1>9. /\ Fine(m, d)
        /\ Unrepeated => DOMAIN d = (used.messages + 1)..(used.messages + copies)
        /\ DOMAIN d \ DOMAIN channel \subseteq (used.messages + 1)..(used.messages + copies)
    BY <1>1, <1>2, <1>3, <1>4, <1>5, <1>7, <1>8, PostedFine
  <1>10. PICK S \in SUBSET Nat : S = {used.messages + copies}
    BY <1>7
  <1>11. "failed" \in WriteOutcomes /\ Unrepeated => DOMAIN d \subseteq S
    <2>1. ASSUME "failed" \in WriteOutcomes, Unrepeated
          PROVE  DOMAIN d \subseteq S
      <3>1. copies = 1
        BY <1>6, <2>1 DEF Unrepeated
      <3> QED
        BY <1>4, <1>9, <1>10, <2>1, <3>1
    <2> QED
      BY <2>1
  <1>12. PICK R : R = Attach(m, s, S)
    OBVIOUS
  <1>13. \A q \in R : Outcome(q, m, d)
    <2>1. S # {}
      BY <1>10
    <2> QED
      BY <1>4, <1>5, <1>9, <1>11, <1>12, <2>1, AttachedFine
  <1>14. Cardinality(DOMAIN d \ DOMAIN channel) \in Nat
    <2>1. DOMAIN d \ DOMAIN channel \subseteq (used.messages + 1)..(used.messages + 2)
      BY <1>4, <1>7, <1>9
    <2> QED
      BY <1>4, <2>1, Growth
  <1>15. Continue(R, copies - 1) /\ channel' = d
    BY <1>1, <1>2, <1>6, <1>8, <1>10, <1>12
  <1> QED
    BY <1>1, <1>4, <1>7, <1>13, <1>14, <1>15, Continued

LEMMA SendForbiddenStep ==
  ASSUME PublisherInv, SendForbidden
  PROVE  PublisherInv'
  <1>1. PICK m : m = mirror
    OBVIOUS
  <1>2. PICK s : s = pub
    OBVIOUS
  <1>3. PICK c : c = channel
    OBVIOUS
  <1>4. /\ m # None /\ s \in Publisher /\ used.nonces \in Nat /\ used.messages \in Nat
        /\ Fine(m, c) /\ At(m, s, c)
    BY <1>1, <1>2, <1>3, AtWork DEF SendForbidden
  <1>5. (Unrepeated => DOMAIN c = {}) /\ Kept(m, m) /\ 0 \in Nat /\ 1 \in Nat
    BY <1>2, <1>4 DEF SendForbidden, At, Kept
  <1>6. PICK n : n = release_card_creation(m, s.record.create)
    OBVIOUS
  <1>7. Fine(n, c) /\ Kept(m, n)
    BY <1>4, <1>5, <1>6, ReleaseFine
  <1>8. PICK R : R = Committed(m, n, LAMBDA new : Result(new, Idle))
    OBVIOUS
  <1>9. ASSUME NEW q \in R
        PROVE  Outcome(q, m, c)
    <2>1. \E k \in {0, 1}, o \in {m, n} : q = [mirror |-> o, pub |-> Idle, faults |-> k]
      BY <1>8, PublisherAssumption DEF Committed, Raised, Result
    <2> QED
      BY <1>4, <1>5, <1>7, <2>1, EndedFine
  <1>10. Continue(R, 1) /\ channel' = channel
    BY <1>1, <1>2, <1>6, <1>8 DEF SendForbidden
  <1> QED
    BY <1>1, <1>3, <1>4, <1>5, <1>9, <1>10, ContinuedAlone

LEMMA SendFailsStep ==
  ASSUME PublisherInv, SendFails
  PROVE  PublisherInv'
  <1>1. PICK m : m = mirror
    OBVIOUS
  <1>2. PICK s : s = pub
    OBVIOUS
  <1>3. PICK c : c = channel
    OBVIOUS
  <1>4. /\ m # None /\ s \in Publisher /\ used.nonces \in Nat /\ used.messages \in Nat
        /\ Fine(m, c) /\ At(m, s, c)
    BY <1>1, <1>2, <1>3, AtWork DEF SendFails
  <1>5. /\ s.at = "send" /\ s.record \in Record /\ m.card = None /\ m.create # None
        /\ m.create = s.record.create /\ Kept(m, m) /\ 0 \in Nat /\ 1 \in Nat
    BY <1>2, <1>4 DEF SendFails, At, Creating, Kept
  <1>6. PICK d : d = channel'
    OBVIOUS
  <1>7. Fine(m, d) /\ Cardinality(DOMAIN d \ DOMAIN channel) \in Nat
    BY <1>1, <1>2, <1>3, <1>4, <1>6, InFlightFine DEF SendFails
  <1>8. PICK R : R = Result(m, [s EXCEPT !.at = "recheck"])
    OBVIOUS
  <1>9. ASSUME NEW q \in R
        PROVE  Outcome(q, m, d)
    <2>1. q = [mirror |-> m, pub |-> [s EXCEPT !.at = "recheck"], faults |-> 0]
      BY <1>8 DEF Result
    <2>2. /\ q.mirror = m /\ q.faults = 0 /\ q.pub.at = "recheck" /\ q.pub.record = s.record
      BY <1>4, <2>1 DEF Publisher
    <2>3. q.pub \in Publisher
      BY <1>4, <2>1 DEF Publisher, Places
    <2>4. At(m, q.pub, d)
      BY <1>5, <2>2 DEF At, Creating, Drawing, Attached
    <2> QED
      BY <1>5, <1>7, <2>2, <2>3, <2>4 DEF Outcome
  <1>10. Continue(R, 1)
    BY <1>1, <1>2, <1>8 DEF SendFails
  <1> QED
    BY <1>1, <1>4, <1>5, <1>6, <1>7, <1>9, <1>10, Continued

LEMMA RecheckedStep ==
  ASSUME PublisherInv, Rechecked
  PROVE  PublisherInv'
  <1>1. PICK m : m = mirror
    OBVIOUS
  <1>2. PICK s : s = pub
    OBVIOUS
  <1>3. PICK c : c = channel
    OBVIOUS
  <1>4. /\ m # None /\ s \in Publisher /\ used.nonces \in Nat /\ used.messages \in Nat
        /\ Fine(m, c) /\ At(m, s, c)
    BY <1>1, <1>2, <1>3, AtWork DEF Rechecked
  <1>5. /\ s.at = "recheck" /\ s.record \in Record /\ m.card = None /\ m.create # None
        /\ m.create = s.record.create /\ m.cleanup = None /\ Kept(m, m) /\ 0 \in Nat
    BY <1>2, <1>4 DEF Rechecked, At, Creating, Fine, constructible, Kept
  <1>6. PICK S : S = Matches(s.record.create)
    OBVIOUS
  <1>7. S \in SUBSET Nat /\ (Unrepeated => DOMAIN c \subseteq S)
    <2>1. S \in SUBSET Nat /\ (Unrepeated => DOMAIN c \subseteq S \cup {m.card})
      BY <1>3, <1>4, <1>5, <1>6, MatchesFacts
    <2>2. m.card \notin DOMAIN c
      BY <1>4, <1>5, PublisherAssumption DEF Fine, InChannel
    <2> QED
      BY <2>1, <2>2
  <1>8. PICK R : R = IF S = {} THEN Result(m, Idle) ELSE Attach(m, s, S)
    OBVIOUS
  <1>9. ASSUME NEW q \in R
        PROVE  Outcome(q, m, c)
    <2>1. CASE S = {}
      <3>1. q = [mirror |-> m, pub |-> Idle, faults |-> 0]
        BY <1>8, <2>1 DEF Result
      <3> QED
        BY <1>4, <1>5, <3>1, EndedFine
    <2>2. CASE S # {}
      <3>1. q \in Attach(m, s, S)
        BY <1>8, <2>2
      <3> QED
        BY <1>4, <1>5, <1>7, <2>2, <3>1, AttachedFine
    <2> QED
      BY <2>1, <2>2
  <1>10. Continue(R, 0) /\ channel' = channel
    BY <1>1, <1>2, <1>6, <1>8 DEF Rechecked
  <1> QED
    BY <1>1, <1>3, <1>4, <1>5, <1>9, <1>10, ContinuedAlone

\* The claim is given back when every message that could not be attached is gone.
LEMMA UndoneStep ==
  ASSUME PublisherInv, Undone
  PROVE  PublisherInv'
  <1>1. PICK m : m = mirror
    OBVIOUS
  <1>2. PICK s : s = pub
    OBVIOUS
  <1>3. PICK c : c = channel
    OBVIOUS
  <1>4. /\ m # None /\ s \in Publisher /\ used.nonces \in Nat /\ used.messages \in Nat
        /\ Fine(m, c) /\ At(m, s, c)
    BY <1>1, <1>2, <1>3, AtWork DEF Undone
  <1>5. /\ s.at = "undo" /\ s.record \in Record /\ m.card = None /\ m.create # None
        /\ m.create = s.record.create /\ (Unrepeated /\ s.removed => DOMAIN c \subseteq s.todo)
        /\ Kept(m, m) /\ 0 \in Nat /\ 1 \in Nat /\ InChannel(c)
    BY <1>2, <1>4 DEF Undone, At, Creating, Fine, Kept
  <1>6. PICK i \in s.todo, deleted \in BOOLEAN :
          LET p == [s EXCEPT !.todo = s.todo \ {i}, !.removed = s.removed /\ deleted]
          IN /\ channel' = IF deleted THEN Without({i}) ELSE channel
             /\ Continue(IF p.todo # {} THEN Result(mirror, p)
                         ELSE IF ~p.removed THEN Result(mirror, Idle)
                         ELSE Committed(mirror, release_card_creation(mirror, s.record.create),
                                        LAMBDA new : Result(new, Idle)),
                         IF deleted THEN 0 ELSE 1)
    BY <1>2 DEF Undone
  <1>7. PICK removed \in BOOLEAN : removed = (s.removed /\ deleted)
    BY <1>4 DEF Publisher
  <1>8. PICK p \in Publisher : p = [s EXCEPT !.todo = s.todo \ {i}, !.removed = removed]
    BY <1>4 DEF Publisher
  <1>9. PICK d : d = IF deleted THEN Without({i}) ELSE channel
    OBVIOUS
  <1>10. /\ Within(d, c) /\ Fine(m, d)
         /\ Unrepeated /\ removed => DOMAIN d \subseteq s.todo \ {i}
    <2>1. CASE deleted
      <3>1. Within(d, c) /\ DOMAIN d = DOMAIN c \ {i}
        BY <1>3, <1>5, <1>9, <2>1, WithoutFacts
      <3>2. Fine(m, d)
        BY <1>4, <3>1, FewerFine
      <3> QED
        BY <1>5, <1>7, <3>1, <3>2
    <2>2. CASE ~deleted
      <3>1. d = c
        BY <1>3, <1>9, <2>2
      <3> QED
        BY <1>4, <1>5, <1>7, <2>2, <3>1 DEF Within
    <2> QED
      BY <2>1, <2>2
  <1>11. PICK n : n = release_card_creation(m, s.record.create)
    OBVIOUS
  <1>12. PICK R : R = IF p.todo # {} THEN Result(m, p)
                      ELSE IF ~p.removed THEN Result(m, Idle)
                      ELSE Committed(m, n, LAMBDA new : Result(new, Idle))
    OBVIOUS
  <1>13. p.todo = s.todo \ {i} /\ p.removed = removed /\ p.at = "undo" /\ p.record = s.record
    BY <1>4, <1>5, <1>8 DEF Publisher
  <1>14. ASSUME NEW q \in R
         PROVE  Outcome(q, m, d)
    <2>1. CASE p.todo # {}
      <3>1. q = [mirror |-> m, pub |-> p, faults |-> 0]
        BY <1>12, <2>1 DEF Result
      <3>2. At(m, p, d)
        BY <1>5, <1>10, <1>13 DEF At, Creating, Drawing, Attached
      <3> QED
        BY <1>5, <1>10, <3>1, <3>2 DEF Outcome
    <2>2. CASE p.todo = {} /\ ~p.removed
      <3>1. q = [mirror |-> m, pub |-> Idle, faults |-> 0]
        BY <1>12, <2>2 DEF Result
      <3> QED
        BY <1>5, <1>10, <3>1, EndedFine
    <2>3. CASE p.todo = {} /\ p.removed
      <3>1. Fine(n, d) /\ Kept(m, n)
        <4>1. Unrepeated => DOMAIN d = {}
          BY <1>10, <1>13, <2>3
        <4> QED
          BY <1>10, <1>11, <4>1, ReleaseFine
      <3>2. q \in Committed(m, n, LAMBDA new : Result(new, Idle))
        BY <1>12, <2>3
      <3>3. \E k \in {0, 1}, o \in {m, n} : q = [mirror |-> o, pub |-> Idle, faults |-> k]
        BY <3>2, PublisherAssumption DEF Committed, Raised, Result
      <3> QED
        BY <1>5, <1>10, <3>1, <3>3, EndedFine
    <2> QED
      BY <2>1, <2>2, <2>3
  <1>15. PICK k \in Nat : k = IF deleted THEN 0 ELSE 1
    OBVIOUS
  <1>16. Continue(R, k) /\ channel' = d
    BY <1>1, <1>6, <1>7, <1>8, <1>9, <1>11, <1>12, <1>15
  <1> QED
    BY <1>1, <1>3, <1>4, <1>10, <1>14, <1>16, ContinuedFewer

LEMMA FetchedStep ==
  ASSUME PublisherInv, Fetched
  PROVE  PublisherInv'
  <1>1. PICK m : m = mirror
    OBVIOUS
  <1>2. PICK s : s = pub
    OBVIOUS
  <1>3. PICK c : c = channel
    OBVIOUS
  <1>4. /\ m # None /\ s \in Publisher /\ used.nonces \in Nat /\ used.messages \in Nat
        /\ Fine(m, c) /\ At(m, s, c)
    BY <1>1, <1>2, <1>3, AtWork DEF Fetched
  <1>5. /\ s.at = "fetch" /\ Holding(m, s) /\ Fresh(m, s.rendered) /\ Kept(m, m) /\ 0 \in Nat
    BY <1>2, <1>4 DEF Fetched, At, Drawing, Attached, Holding, Kept
  <1>6. PICK R : R = IF s.message \in DOMAIN c THEN Result(m, [s EXCEPT !.at = "edit"])
                     ELSE MissingCard(m, s)
    OBVIOUS
  <1>7. ASSUME NEW q \in R
        PROVE  Outcome(q, m, c)
    <2>1. CASE s.message \in DOMAIN c
      <3>1. q = [mirror |-> m, pub |-> [s EXCEPT !.at = "edit"], faults |-> 0]
        BY <1>6, <2>1 DEF Result
      <3>2. /\ q.mirror = m /\ q.faults = 0 /\ q.pub.at = "edit" /\ q.pub.record = s.record
            /\ q.pub.rendered = s.rendered /\ q.pub.message = s.message
        BY <1>4, <3>1 DEF Publisher
      <3>3. q.pub \in Publisher
        BY <1>4, <3>1 DEF Publisher, Places
      <3>4. At(m, q.pub, c)
        BY <1>5, <3>2 DEF At, Creating, Drawing, Attached, Holding
      <3> QED
        BY <1>4, <1>5, <3>2, <3>3, <3>4 DEF Outcome
    <2>2. CASE s.message \notin DOMAIN c
      <3>1. q \in MissingCard(m, s) /\ m.card \notin DOMAIN c
        BY <1>5, <1>6, <2>2 DEF Holding
      <3> QED
        BY <1>4, <1>5, <3>1, MissingCardFine
    <2> QED
      BY <2>1, <2>2
  <1>8. Continue(R, 0) /\ channel' = channel
    BY <1>1, <1>2, <1>3, <1>6 DEF Fetched
  <1> QED
    BY <1>1, <1>3, <1>4, <1>5, <1>7, <1>8, ContinuedAlone

LEMMA RenderedStep ==
  ASSUME PublisherInv, Rendered
  PROVE  PublisherInv'
  <1>1. PICK m : m = mirror
    OBVIOUS
  <1>2. PICK s : s = pub
    OBVIOUS
  <1>3. PICK c : c = channel
    OBVIOUS
  <1>4. /\ m # None /\ s \in Publisher /\ used.nonces \in Nat /\ used.messages \in Nat
        /\ Fine(m, c) /\ At(m, s, c)
    BY <1>1, <1>2, <1>3, AtWork DEF Rendered, Editing
  <1>5. /\ Editing /\ Holding(m, s) /\ Fresh(m, s.rendered) /\ Kept(m, m) /\ 0 \in Nat
    BY <1>2, <1>4 DEF Rendered, Editing, At, Drawing, Attached, Holding, Kept
  <1>6. CASE pub.message \in DOMAIN channel
    <2>1. PICK d : d = Edited
      OBVIOUS
    <2>2. /\ Fine(m, d) /\ DOMAIN d = DOMAIN channel
          /\ d[m.card].shows = signature(s.rendered)
      BY <1>1, <1>2, <1>3, <1>4, <1>5, <1>6, <2>1, EditedFine
    <2>3. PICK R : R = Reconcile(m, s)
      OBVIOUS
    <2>4. \A q \in R : Outcome(q, m, d)
      BY <1>4, <1>5, <2>2, <2>3, ReconcileFine
    <2>5. Continue(R, 0) /\ channel' = d
      BY <1>1, <1>2, <1>6, <2>1, <2>3 DEF Rendered
    <2>6. DOMAIN d \ DOMAIN channel \subseteq (0 + 1)..(0 + 2)
      BY <2>2
    <2>7. Cardinality(DOMAIN d \ DOMAIN channel) \in Nat
      BY <2>6, Growth
    <2> QED
      BY <1>1, <1>4, <1>5, <2>4, <2>5, <2>7, Continued
  <1>7. CASE pub.message \notin DOMAIN channel
    <2>1. PICK R : R = MissingCard(m, s)
      OBVIOUS
    <2>2. m.card \notin DOMAIN c
      BY <1>2, <1>3, <1>5, <1>7 DEF Holding
    <2>3. \A q \in R : Outcome(q, m, c)
      BY <1>4, <1>5, <2>1, <2>2, MissingCardFine
    <2>4. Continue(R, 0) /\ channel' = channel
      BY <1>1, <1>2, <1>7, <2>1 DEF Rendered
    <2> QED
      BY <1>1, <1>3, <1>4, <1>5, <2>3, <2>4, ContinuedAlone
  <1> QED
    BY <1>6, <1>7

LEMMA DuplicatesFoundStep ==
  ASSUME PublisherInv, DuplicatesFound
  PROVE  PublisherInv'
  <1>1. PICK m : m = mirror
    OBVIOUS
  <1>2. PICK s : s = pub
    OBVIOUS
  <1>3. PICK c : c = channel
    OBVIOUS
  <1>4. /\ m # None /\ s \in Publisher /\ used.nonces \in Nat /\ used.messages \in Nat
        /\ Fine(m, c) /\ At(m, s, c)
    BY <1>1, <1>2, <1>3, AtWork DEF DuplicatesFound
  <1>5. /\ s.at = "duplicates" /\ Holding(m, s) /\ s.rendered \in Record /\ m.cleanup # None
        /\ s.rendered.cleanup = m.cleanup /\ m.create = None
        /\ m.card \in DOMAIN c => c[m.card].shows = signature(s.rendered)
        /\ Kept(m, m) /\ 0 \in Nat
    BY <1>2, <1>4 DEF DuplicatesFound, At, Attached, Holding, Kept, Fine, constructible
  <1>6. PICK S : S = Matches(s.rendered.cleanup) \ {s.message}
    OBVIOUS
  <1>7. S \in SUBSET Nat /\ (Unrepeated => DOMAIN c \subseteq S \cup {m.card})
    <2>1. PICK T : T = Matches(s.rendered.cleanup)
      OBVIOUS
    <2>2. T \in SUBSET Nat /\ (Unrepeated => DOMAIN c \subseteq T \cup {m.card})
      BY <1>3, <1>4, <1>5, <2>1, MatchesFacts
    <2> QED
      BY <1>5, <1>6, <2>1, <2>2 DEF Holding
  <1>8. PICK R : R = IF S = {} THEN CleanedUp(m, s)
                     ELSE Result(m, [s EXCEPT !.at = "remove", !.todo = S])
    OBVIOUS
  <1>9. ASSUME NEW q \in R
        PROVE  Outcome(q, m, c)
    <2>1. CASE S = {}
      <3>1. q \in CleanedUp(m, s) /\ (Unrepeated => DOMAIN c \subseteq {m.card})
        BY <1>7, <1>8, <2>1
      <3> QED
        BY <1>4, <1>5, <3>1, CleanedUpFine
    <2>2. CASE S # {}
      <3>1. q = [mirror |-> m, pub |-> [s EXCEPT !.at = "remove", !.todo = S], faults |-> 0]
        BY <1>8, <2>2 DEF Result
      <3>2. /\ q.mirror = m /\ q.faults = 0 /\ q.pub.at = "remove" /\ q.pub.record = s.record
            /\ q.pub.rendered = s.rendered /\ q.pub.message = s.message /\ q.pub.todo = S
        BY <1>4, <3>1 DEF Publisher
      <3>3. q.pub \in Publisher
        BY <1>4, <1>7, <3>1 DEF Publisher, Places
      <3>4. At(m, q.pub, c)
        BY <1>5, <1>7, <3>2 DEF At, Creating, Drawing, Attached, Holding
      <3> QED
        BY <1>4, <1>5, <3>2, <3>3, <3>4 DEF Outcome
    <2> QED
      BY <2>1, <2>2
  <1>10. Continue(R, 0) /\ channel' = channel
    BY <1>1, <1>2, <1>6, <1>8 DEF DuplicatesFound
  <1> QED
    BY <1>1, <1>3, <1>4, <1>5, <1>9, <1>10, ContinuedAlone

LEMMA LeftoversFoundStep ==
  ASSUME PublisherInv, LeftoversFound
  PROVE  PublisherInv'
  <1>1. PICK m : m = mirror
    OBVIOUS
  <1>2. PICK s : s = pub
    OBVIOUS
  <1>3. PICK c : c = channel
    OBVIOUS
  <1>4. /\ m # None /\ s \in Publisher /\ used.nonces \in Nat /\ used.messages \in Nat
        /\ Fine(m, c) /\ At(m, s, c)
    BY <1>1, <1>2, <1>3, AtWork DEF LeftoversFound
  <1>5. /\ s.at = "leftovers" /\ Holding(m, s) /\ m.card \notin DOMAIN c
        /\ s.record.cleanup # None /\ m.create = None /\ Kept(m, m) /\ 0 \in Nat
        /\ m.cleanup \in {None, s.record.cleanup}
    BY <1>2, <1>4 DEF LeftoversFound, At, Attached, Holding, Kept, Fine, constructible
  <1>6. PICK S : S = Matches(s.record.cleanup)
    OBVIOUS
  <1>7. S \in SUBSET Nat /\ (Unrepeated => DOMAIN c \subseteq S)
    <2>1. S \in SUBSET Nat /\ (Unrepeated => DOMAIN c \subseteq S \cup {m.card})
      BY <1>3, <1>4, <1>5, <1>6, MatchesFacts
    <2> QED
      BY <1>5, <2>1
  <1>8. PICK R : R = IF S = {} THEN Replace(m, s)
                     ELSE Result(m, [s EXCEPT !.at = "discard", !.todo = S])
    OBVIOUS
  <1>9. ASSUME NEW q \in R
        PROVE  Outcome(q, m, c)
    <2>1. CASE S = {}
      <3>1. q \in Replace(m, s) /\ (Unrepeated => DOMAIN c = {})
        BY <1>7, <1>8, <2>1
      <3> QED
        BY <1>4, <1>5, <3>1, ReplaceFine
    <2>2. CASE S # {}
      <3>1. q = [mirror |-> m, pub |-> [s EXCEPT !.at = "discard", !.todo = S], faults |-> 0]
        BY <1>8, <2>2 DEF Result
      <3>2. /\ q.mirror = m /\ q.faults = 0 /\ q.pub.at = "discard" /\ q.pub.record = s.record
            /\ q.pub.message = s.message /\ q.pub.todo = S
        BY <1>4, <3>1 DEF Publisher
      <3>3. q.pub \in Publisher
        BY <1>4, <1>7, <3>1 DEF Publisher, Places
      <3>4. At(m, q.pub, c)
        BY <1>5, <1>7, <3>2 DEF At, Creating, Drawing, Attached, Holding
      <3> QED
        BY <1>4, <1>5, <3>2, <3>3, <3>4 DEF Outcome
    <2> QED
      BY <2>1, <2>2
  <1>10. Continue(R, 0) /\ channel' = channel
    BY <1>1, <1>2, <1>6, <1>8 DEF LeftoversFound
  <1> QED
    BY <1>1, <1>3, <1>4, <1>5, <1>9, <1>10, ContinuedAlone

LEMMA RemovedStep ==
  ASSUME PublisherInv, Removed
  PROVE  PublisherInv'
  <1>1. PICK m : m = mirror
    OBVIOUS
  <1>2. PICK s : s = pub
    OBVIOUS
  <1>3. PICK c : c = channel
    OBVIOUS
  <1>4. /\ m # None /\ s \in Publisher /\ used.nonces \in Nat /\ used.messages \in Nat
        /\ Fine(m, c) /\ At(m, s, c)
    BY <1>1, <1>2, <1>3, AtWork DEF Removed
  <1>5. /\ s.at \in {"remove", "discard"} /\ Holding(m, s) /\ Kept(m, m) /\ 0 \in Nat
        /\ InChannel(c)
    BY <1>2, <1>4 DEF Removed, At, Attached, Holding, Kept, Fine
  <1>6. PICK i \in s.todo :
          LET p == [s EXCEPT !.todo = s.todo \ {i}]
          IN /\ channel' = Without({i})
             /\ Continue(IF p.todo # {} THEN Result(mirror, p)
                         ELSE IF s.at = "remove" THEN CleanedUp(mirror, p)
                         ELSE Replace(mirror, p), 0)
    BY <1>2 DEF Removed
  <1>7. PICK p \in Publisher : p = [s EXCEPT !.todo = s.todo \ {i}]
    BY <1>4 DEF Publisher
  <1>8. /\ p.todo = s.todo \ {i} /\ p.at = s.at /\ p.record = s.record /\ p.message = s.message
        /\ p.rendered = s.rendered
    BY <1>4, <1>7 DEF Publisher
  <1>9. PICK d : d = Without({i})
    OBVIOUS
  <1>10. Within(d, c) /\ DOMAIN d = DOMAIN c \ {i}
    BY <1>3, <1>5, <1>9, WithoutFacts
  <1>11. Fine(m, d) /\ At(m, s, d) /\ Holding(m, p)
    BY <1>4, <1>5, <1>8, <1>10, FewerFine, FewerAt DEF Holding
  <1>12. PICK R : R = IF p.todo # {} THEN Result(m, p)
                      ELSE IF s.at = "remove" THEN CleanedUp(m, p) ELSE Replace(m, p)
    OBVIOUS
  <1>13. ASSUME NEW q \in R
         PROVE  Outcome(q, m, d)
    <2>1. CASE p.todo # {}
      <3>1. q = [mirror |-> m, pub |-> p, faults |-> 0]
        BY <1>12, <2>1 DEF Result
      <3>2. /\ s.at = "remove" /\ Unrepeated => DOMAIN d \subseteq p.todo \cup {m.card}
            /\ s.at = "discard" /\ Unrepeated => DOMAIN d \subseteq p.todo
        BY <1>4, <1>8, <1>10 DEF At
      <3>3. At(m, p, d)
        BY <1>5, <1>8, <1>11, <3>2 DEF At, Creating, Drawing, Attached
      <3> QED
        BY <1>5, <1>11, <3>1, <3>3 DEF Outcome
    <2>2. CASE p.todo = {} /\ s.at = "remove"
      <3>1. q \in CleanedUp(m, p)
        BY <1>12, <2>2
      <3>2. Unrepeated => DOMAIN d \subseteq {m.card}
        BY <1>4, <1>8, <1>10, <2>2 DEF At
      <3>3. /\ p.rendered \in Record /\ m.cleanup = p.rendered.cleanup
            /\ m.card \in DOMAIN d => d[m.card].shows = signature(p.rendered)
        BY <1>8, <1>11, <2>2 DEF At
      <3> QED
        BY <1>4, <1>11, <3>1, <3>2, <3>3, CleanedUpFine
    <2>3. CASE p.todo = {} /\ s.at = "discard"
      <3>1. q \in Replace(m, p)
        BY <1>12, <2>3
      <3>2. Unrepeated => DOMAIN d = {}
        BY <1>4, <1>8, <1>10, <2>3 DEF At
      <3> QED
        BY <1>4, <1>11, <3>1, <3>2, ReplaceFine
    <2> QED
      BY <1>5, <2>1, <2>2, <2>3
  <1>14. Continue(R, 0) /\ channel' = d
    BY <1>1, <1>6, <1>7, <1>9, <1>12
  <1> QED
    BY <1>1, <1>3, <1>4, <1>5, <1>10, <1>13, <1>14, ContinuedFewer

LEMMA RequestFailsStep ==
  ASSUME PublisherInv, RequestFails
  PROVE  PublisherInv'
  <1>1. PICK m : m = mirror
    OBVIOUS
  <1>2. PICK s : s = pub
    OBVIOUS
  <1>3. PICK c : c = channel
    OBVIOUS
  <1>4. /\ m # None /\ s \in Publisher /\ used.nonces \in Nat /\ used.messages \in Nat
        /\ Fine(m, c) /\ At(m, s, c)
    BY <1>1, <1>2, <1>3, AtWork DEF RequestFails
  <1>5. Kept(m, m) /\ 0 \in Nat /\ 1 \in Nat
    BY DEF Kept
  <1>6. PICK d : d = channel'
    OBVIOUS
  <1>7. Fine(m, d) /\ Cardinality(DOMAIN d \ DOMAIN channel) \in Nat
    BY <1>1, <1>2, <1>3, <1>4, <1>6, InFlightFine DEF RequestFails
  <1>8. PICK R : R = Result(m, Idle)
    OBVIOUS
  <1>9. ASSUME NEW q \in R
        PROVE  Outcome(q, m, d)
    <2>1. q = [mirror |-> m, pub |-> Idle, faults |-> 0]
      BY <1>8 DEF Result
    <2> QED
      BY <1>5, <1>7, <2>1, EndedFine
  <1>10. Continue(R, 1)
    BY <1>1, <1>8 DEF RequestFails
  <1> QED
    BY <1>1, <1>4, <1>5, <1>6, <1>7, <1>9, <1>10, Continued

----------------------------------------------------------------------------
(* The other steps.                                                        *)

Counters == [messages : Nat, nonces : Nat, updates : Nat, faults : Nat, deletions : Nat,
             crashes : Nat]

\* A new revision that is to be published, or shows what the last one showed, disturbs no
\* publication.
LEMMA MovedAt ==
  ASSUME NEW m \in Record, NEW s, NEW c, At(m, s, c), NEW n,
         n.card = m.card, n.create = m.create, n.cleanup = m.cleanup, n.revision = m.revision + 1,
         \/ n.publication_pending = TRUE
         \/ n.publication_pending = m.publication_pending /\ signature(n) = signature(m)
  PROVE  At(n, s, c)
  <1>1. ASSUME NEW r, Fresh(m, r)
        PROVE  Fresh(n, r)
    <2>1. r \in Record /\ r.revision \in Nat /\ m.revision \in Nat /\ r.revision <= m.revision
      BY <1>1 DEF Fresh, Record
    <2>2. r.revision <= n.revision /\ r.revision # n.revision
      BY <2>1
    <2>3. ~n.publication_pending => signature(r) = signature(n)
      BY <1>1 DEF Fresh
    <2> QED
      BY <2>1, <2>2, <2>3 DEF Fresh
  <1> QED
    BY <1>1 DEF At

\* A new event, or one that is remembered.
LEMMA UpsertedFine ==
  ASSUME NEW m, NEW s, NEW c, Fine(m, c), At(m, s, c), NEW e \in Events,
         NEW n, n = upsert_existing(m, e),
         seen \subseteq Events, Newest(m), seen' = seen \cup {e}
  PROVE  Fine(n, c) /\ At(n, s, c) /\ Newest(n)'
  <1> DEFINE Titles == {f.delivery : f \in Events}
  <1>1. m \in Record /\ constructible(m)
    BY DEF Fine
  <1>2. CASE e.delivery \in ToSet(m.deliveries) /\ n = m
    <2>1. PICK i \in DOMAIN m.deliveries : m.deliveries[i] = e.delivery
      BY <1>2 DEF ToSet
    <2>2. e \in seen
      BY <2>1, EventsAssumption DEF Newest
    <2>3. seen' = seen
      BY <2>2
    <2> QED
      BY <1>2, <2>3 DEF Newest
  <1>3. CASE e.delivery \notin ToSet(m.deliveries) /\ n = update_from_event(m, e)
    <2> DEFINE all == Append(m.deliveries, e.delivery)
               kept == last(all, MAX_RECENT_DELIVERIES)
    <2>1. /\ m.deliveries \in Seq(Titles) /\ e.delivery \in Titles
          /\ Len(m.deliveries) \in Nat /\ DOMAIN m.deliveries = 1..Len(m.deliveries)
          /\ MAX_RECENT_DELIVERIES \in Nat
      BY <1>1, LenProperties, EventsAssumption DEF Record
    <2>2. /\ all \in Seq(Titles) /\ DOMAIN all = 1..(Len(m.deliveries) + 1)
          /\ \A k \in 1..Len(m.deliveries) : all[k] = m.deliveries[k]
          /\ all[Len(m.deliveries) + 1] = e.delivery
      BY <2>1, AppendProperties, LenProperties
    <2>3. \A k, l \in DOMAIN all : all[k] = all[l] => k = l
      <3>1. \A k, l \in DOMAIN m.deliveries : m.deliveries[k] = m.deliveries[l] => k = l
        BY <1>1 DEF constructible, IsInjective
      <3>2. \A k \in DOMAIN m.deliveries : m.deliveries[k] # e.delivery
        BY <1>3 DEF ToSet
      <3>3. \A k \in DOMAIN all : k \in DOMAIN m.deliveries \/ k = Len(m.deliveries) + 1
        BY <2>1, <2>2
      <3> QED
        BY <2>1, <2>2, <3>1, <3>2, <3>3
    <2> HIDE DEF all
    <2>4. /\ kept \in Seq(Titles) /\ Len(kept) <= MAX_RECENT_DELIVERIES
      BY <2>1, <2>2, LastElements, Zenon
    <2>5. \E d \in Nat : \A i \in DOMAIN kept : i + d \in DOMAIN all /\ kept[i] = all[i + d]
      <3>1. PICK S : all \in Seq(S)
        BY <2>2
      <3> QED
        BY ZenonT(60), <2>1, <3>1, LastElements
    <2>6. IsInjective(kept)
      <3>1. PICK d \in Nat : \A i \in DOMAIN kept : i + d \in DOMAIN all /\ kept[i] = all[i + d]
        BY <2>5
      <3>2. \A k, l \in DOMAIN kept : kept[k] = kept[l] => k + d = l + d
        BY <2>3, <3>1
      <3>3. DOMAIN kept \subseteq Nat
        BY <2>4, LenProperties
      <3>4. \A k, l \in DOMAIN kept : kept[k] = kept[l] => k = l
        BY <3>1, <3>2, <3>3
      <3> QED
        BY <3>4 DEF IsInjective
    <2>7. PICK d : d = kept
      OBVIOUS
    <2>8. \A i \in DOMAIN kept : kept[i] = e.delivery \/ \E j \in DOMAIN m.deliveries : kept[i] = m.deliveries[j]
      <3>1. \A i \in DOMAIN all : all[i] = e.delivery \/ \E j \in DOMAIN m.deliveries : all[i] = m.deliveries[j]
        BY <2>1, <2>2
      <3> QED
        BY <2>5, <3>1
    <2>9. is_event(e)
      BY EventsAssumption
    <2> DEFINE staged == [m EXCEPT !.revision = m.revision + 1, !.publication_pending = TRUE,
                                   !.deliveries = d]
    <2>10. /\ d \in Seq(Titles) /\ Len(d) <= MAX_RECENT_DELIVERIES /\ IsInjective(d)
      BY <2>4, <2>6, <2>7
    <2>11. n = IF should_apply_event(m, e)
               THEN [staged EXCEPT !.state = state_after(m, e), !.time = e.time, !.shows = e.delivery]
               ELSE staged
      BY <1>1, <1>3, <2>7 DEF update_from_event, all, Record
    <2> HIDE DEF kept
    <2>12. /\ state_after(m, e) \in {"draft", "open", "closed", "merged"} /\ e.time \in Nat
           /\ e.delivery \in Titles /\ m.revision + 1 \in Nat /\ m.time \in Nat
      BY <1>1, <2>9 DEF is_event, state_after, Record
    <2>13. /\ n \in Record /\ n.card = m.card /\ n.create = m.create /\ n.cleanup = m.cleanup
           /\ n.revision = m.revision + 1 /\ n.publication_pending = TRUE /\ n.deliveries = d
           /\ n.handled = m.handled /\ n.pending_action = m.pending_action /\ n.active = m.active
           /\ IF should_apply_event(m, e) THEN n.time = e.time /\ n.shows = e.delivery
              ELSE n.time = m.time /\ n.shows = m.shows
      <3>1. CASE should_apply_event(m, e)
        <4>1. n = [m EXCEPT !.revision = m.revision + 1, !.publication_pending = TRUE,
                            !.deliveries = d, !.state = state_after(m, e), !.time = e.time,
                            !.shows = e.delivery]
          BY <1>1, <2>11, <3>1 DEF Record
        <4> QED
          BY <1>1, <2>10, <2>12, <3>1, <4>1 DEF Record
      <3>2. CASE ~should_apply_event(m, e)
        <4>1. n = staged
          BY <2>11, <3>2
        <4> QED
          BY <1>1, <2>10, <2>12, <3>2, <4>1 DEF Record
      <3> QED
        BY <3>1, <3>2
    <2> HIDE DEF staged
    <2>14. constructible(n)
      BY <1>1, <2>10, <2>13 DEF constructible
    <2>15. Unrepeated => Accounted(n, c)
      BY <2>13 DEF Fine, Accounted
    <2>16. Fine(n, c)
      BY <2>13, <2>14, <2>15 DEF Fine
    <2>17. At(n, s, c)
      BY <1>1, <2>13, MovedAt
    <2>18. /\ \E f \in seen' : f.delivery = n.shows /\ f.time = n.time
           /\ \A f \in seen' : f.time <= n.time
      <3>1. \A f \in seen : f.time \in Nat /\ f.time <= m.time
        BY EventsAssumption DEF Newest, is_event
      <3>2. CASE should_apply_event(m, e)
        <4>1. m.time <= e.time
          BY <2>12, <3>2 DEF should_apply_event
        <4> QED
          BY <2>12, <2>13, <3>1, <3>2, <4>1
      <3>3. CASE ~should_apply_event(m, e)
        <4>1. e.time <= m.time
          BY <2>12, <3>3 DEF should_apply_event
        <4> QED
          BY <2>13, <3>1, <3>3, <4>1 DEF Newest
      <3> QED
        BY <3>2, <3>3
    <2>19. \A i \in DOMAIN d : \E f \in seen' : f.delivery = d[i]
      BY <2>7, <2>8 DEF Newest
    <2> QED
      BY <2>13, <2>16, <2>17, <2>18, <2>19 DEF Newest
  <1> QED
    BY <1>2, <1>3 DEF upsert_existing

LEMMA NewRecordFine ==
  ASSUME NEW e \in Events, NEW n, n = record_from_event(e), NEW c, c = <<>>, seen' = {e}
  PROVE  Fine(n, c) /\ At(n, Idle, c) /\ Newest(n)'
  <1>1. is_event(e) /\ MAX_RECENT_DELIVERIES \in Nat \ {0}
    BY EventsAssumption
  <1>2. e.state \in {"draft", "open", "closed", "merged"} /\ e.time \in Nat
    BY <1>1 DEF is_event
  <1>3. PICK d : d = <<e.delivery>>
    OBVIOUS
  <1>4. d \in Seq({f.delivery : f \in Events}) /\ Len(d) = 1 /\ DOMAIN d = {1} /\ d[1] = e.delivery
    BY <1>3
  <1>5. /\ n \in Record /\ n.card = None /\ n.create = None /\ n.cleanup = None
        /\ n.publication_pending = TRUE /\ n.shows = e.delivery /\ n.time = e.time
        /\ n.deliveries = d /\ n.handled = <<>> /\ n.pending_action = None
    BY <1>2, <1>3, <1>4 DEF record_from_event, Record
  <1>6. constructible(n)
    <2>1. IsInjective(d) /\ Len(d) <= MAX_RECENT_DELIVERIES
      BY <1>1, <1>4 DEF IsInjective
    <2> QED
      BY <1>5, <2>1 DEF constructible
  <1>7. DOMAIN c = {} /\ InChannel(c)
    BY DEF InChannel
  <1>8. Fine(n, c)
    BY <1>5, <1>6, <1>7 DEF Fine, Accounted
  <1>9. At(n, Idle, c)
    BY IdleFacts DEF At, Creating, Drawing, Attached
  <1>10. Newest(n)'
    BY <1>2, <1>4, <1>5 DEF Newest
  <1> QED
    BY <1>8, <1>9, <1>10

LEMMA WebhookStep ==
  ASSUME PublisherInv, NEW e \in Events, Webhook(e)
  PROVE  PublisherInv'
  <1>1. PICK m : m = mirror
    OBVIOUS
  <1>2. PICK s : s = pub
    OBVIOUS
  <1>3. PICK c : c = channel
    OBVIOUS
  <1>4. PICK new : new = upsert_event(m, e)
    OBVIOUS
  <1>5. PICK o \in IF new = m THEN {"ok"} ELSE WriteOutcomes :
          /\ mirror' = IF o = "failed" THEN mirror ELSE new
          /\ seen' = IF o = "failed" THEN seen ELSE seen \cup {e}
          /\ queue' = IF o = "ok" /\ new.publication_pending /\ queue < MaxQueue THEN queue + 1 ELSE queue
          /\ used' = [used EXCEPT !.updates = IF new = mirror THEN used.updates ELSE used.updates + 1,
                                  !.faults = IF o = "ok" THEN used.faults ELSE used.faults + 1]
          /\ channel' = channel /\ pub' = pub
    BY <1>1, <1>4 DEF Webhook
  <1>6. used' \in Counters /\ queue' \in Nat /\ seen' \subseteq Events /\ pub \in Publisher
    <2>1. used \in Counters /\ queue \in Nat /\ seen \subseteq Events /\ pub \in Publisher
      BY DEF PublisherInv, Counters
    <2>2. PICK a \in Nat : a = IF new = mirror THEN used.updates ELSE used.updates + 1
      BY <2>1 DEF Counters
    <2>3. PICK b \in Nat : b = IF o = "ok" THEN used.faults ELSE used.faults + 1
      BY <2>1 DEF Counters
    <2>4. used' = [used EXCEPT !.updates = a, !.faults = b]
      BY <1>5, <2>2, <2>3
    <2>5. used' \in Counters
      BY <2>1, <2>4 DEF Counters
    <2>6. queue' \in Nat /\ seen' \subseteq Events
      BY <1>5, <2>1
    <2> QED
      BY <2>1, <2>5, <2>6
  <1>7. CASE o = "failed"
    <2>1. mirror' = m /\ channel' = c /\ pub' = s /\ seen' = seen /\ queue' = queue
      BY <1>1, <1>2, <1>3, <1>5, <1>7
    <2>2. m # None => Newest(m)'
      BY <1>1, <2>1 DEF PublisherInv, Newest
    <2> QED
      BY <1>1, <1>2, <1>3, <1>6, <2>1, <2>2 DEF PublisherInv, Counters
  <1>8. CASE o # "failed"
    <2>1. mirror' = new /\ channel' = c /\ pub' = s /\ seen' = seen \cup {e}
      BY <1>1, <1>2, <1>3, <1>5, <1>8
    <2>2. Fine(new, c) /\ At(new, s, c) /\ Newest(new)'
      <3>1. CASE m = None
        <4>1. new = record_from_event(e) /\ c = <<>> /\ s = Idle /\ seen' = {e}
          BY <1>1, <1>2, <1>3, <1>4, <2>1, <3>1 DEF PublisherInv, upsert_event
        <4> QED
          BY <4>1, NewRecordFine
      <3>2. CASE m # None
        <4>1. new = upsert_existing(m, e)
          BY <1>4, <3>2 DEF upsert_event
        <4>2. Fine(m, c) /\ At(m, s, c) /\ Newest(m) /\ seen \subseteq Events
          BY <1>1, <1>2, <1>3, <3>2 DEF PublisherInv
        <4> QED
          BY <2>1, <4>1, <4>2, UpsertedFine
      <3> QED
        BY <3>1, <3>2
    <2>3. new # None
      BY <2>2, PublisherAssumption DEF Fine
    <2> QED
      BY <1>2, <1>6, <2>1, <2>2, <2>3 DEF PublisherInv, Counters
  <1> QED
    BY <1>7, <1>8

LEMMA ActionStoredStep ==
  ASSUME PublisherInv, ActionStored
  PROVE  PublisherInv'
  <1>1. PICK m : m = mirror
    OBVIOUS
  <1>2. PICK s : s = pub
    OBVIOUS
  <1>3. PICK c : c = channel
    OBVIOUS
  <1>4. PICK n : n = updated_record(m)
    OBVIOUS
  <1>5. /\ m # None /\ mirror' = n /\ channel' = c /\ pub' = s /\ queue' = queue /\ seen' = seen
        /\ used' = [used EXCEPT !.updates = used.updates + 1]
    BY <1>1, <1>2, <1>3, <1>4 DEF ActionStored
  <1>6. Fine(m, c) /\ At(m, s, c) /\ Newest(m) /\ m \in Record /\ constructible(m)
    BY <1>1, <1>2, <1>3, <1>5 DEF PublisherInv, Fine
  <1>7. /\ n \in Record /\ Kept(m, n) /\ n.card = m.card /\ n.create = m.create
        /\ n.cleanup = m.cleanup /\ n.publication_pending = m.publication_pending
        /\ n.revision = m.revision + 1
    <2>1. n = [m EXCEPT !.revision = m.revision + 1] /\ m.revision + 1 \in Nat
      BY <1>4, <1>6, Updated DEF Record
    <2> QED
      BY <1>6, <2>1 DEF Record, Kept
  <1>8. constructible(n) /\ signature(n) = signature(m)
    BY <1>6, <1>7 DEF constructible, Kept, signature
  <1>9. (Unrepeated => Accounted(n, c)) /\ (~n.publication_pending => Current(n, c) /\ n.card # None)
    BY <1>6, <1>7, <1>8 DEF Fine, Accounted, Current
  <1>10. Fine(n, c)
    BY <1>6, <1>7, <1>8, <1>9 DEF Fine
  <1>11. At(n, s, c)
    BY <1>6, <1>7, <1>8, MovedAt
  <1>12. Newest(n)'
    BY <1>5, <1>6, <1>7 DEF Newest, Kept
  <1>13. used' \in Counters
    <2>1. used \in Counters
      BY DEF PublisherInv, Counters
    <2>2. used.updates + 1 \in Nat
      BY <2>1 DEF Counters
    <2> QED
      BY <1>5, <2>1, <2>2 DEF Counters
  <1>14. n # None
    BY <1>7, PublisherAssumption
  <1> QED
    BY <1>2, <1>5, <1>10, <1>11, <1>12, <1>13, <1>14 DEF PublisherInv, Counters

LEMMA QueueStep ==
  ASSUME PublisherInv, Begin \/ Sweep
  PROVE  PublisherInv'
  <1>1. PICK m : m = mirror
    OBVIOUS
  <1>2. PICK c : c = channel
    OBVIOUS
  <1>3. PICK s : s = pub'
    OBVIOUS
  <1>4. /\ mirror' = m /\ channel' = c /\ used' = used /\ seen' = seen /\ m # None
    BY <1>1, <1>2 DEF PublisherInv, Begin, Sweep
  <1>5. queue' \in Nat
    BY DEF PublisherInv, Begin, Sweep
  <1>6. s \in Publisher /\ At(m, s, c)
    <2>1. CASE Begin
      <3>1. s = [Idle EXCEPT !.at = "resolve"]
        BY <1>3, <2>1 DEF Begin
      <3>2. s.at = "resolve" /\ s \in Publisher
        BY <3>1, IdleFacts DEF Publisher, Places
      <3> QED
        BY <3>2 DEF At, Creating, Drawing, Attached
    <2>2. CASE Sweep
      BY <1>1, <1>2, <1>3, <1>4, <2>2 DEF PublisherInv, Sweep
    <2> QED
      BY <2>1, <2>2
  <1>7. Fine(m, c) /\ Newest(m)'
    BY <1>1, <1>2, <1>4 DEF PublisherInv, Newest
  <1> QED
    BY <1>3, <1>4, <1>5, <1>6, <1>7 DEF PublisherInv

LEMMA ModerateStep ==
  ASSUME PublisherInv, NEW i \in DOMAIN channel, Moderate(i)
  PROVE  PublisherInv'
  <1>1. PICK m : m = mirror
    OBVIOUS
  <1>2. PICK s : s = pub
    OBVIOUS
  <1>3. PICK c : c = channel
    OBVIOUS
  <1>4. m # None /\ Fine(m, c) /\ At(m, s, c) /\ Newest(m)
    BY <1>1, <1>2, <1>3 DEF PublisherInv
  <1>5. PICK d : d = Without({i})
    OBVIOUS
  <1>6. Within(d, c)
    BY <1>3, <1>4, <1>5, WithoutFacts DEF Fine
  <1>7. Fine(m, d) /\ At(m, s, d)
    BY <1>4, <1>6, FewerFine, FewerAt
  <1>8. /\ mirror' = m /\ channel' = d /\ pub' = s /\ queue' = queue /\ seen' = seen
        /\ used' = [used EXCEPT !.deletions = used.deletions + 1]
    BY <1>1, <1>2, <1>5 DEF Moderate
  <1>9. used' \in Counters
    <2>1. used \in Counters
      BY DEF PublisherInv, Counters
    <2>2. used.deletions + 1 \in Nat
      BY <2>1 DEF Counters
    <2> QED
      BY <1>8, <2>1, <2>2 DEF Counters
  <1>10. Newest(m)'
    BY <1>4, <1>8 DEF Newest
  <1> QED
    BY <1>2, <1>4, <1>7, <1>8, <1>9, <1>10 DEF PublisherInv, Counters

LEMMA RestartStep ==
  ASSUME PublisherInv, Restart
  PROVE  PublisherInv'
  <1>1. PICK m : m = mirror
    OBVIOUS
  <1>2. PICK d : d = channel'
    OBVIOUS
  <1>3. /\ mirror' = m /\ pub' = Idle /\ seen' = seen /\ d \in InFlight
        /\ queue' = IF m # None /\ publication_is_pending(m) THEN 1 ELSE 0
        /\ used' = [used EXCEPT !.crashes = used.crashes + 1,
                      !.messages = used.messages + Cardinality(DOMAIN d \ DOMAIN channel)]
    BY <1>1, <1>2 DEF Restart
  <1>4. queue' \in Nat /\ used \in Counters /\ pub \in Publisher
    BY <1>3 DEF PublisherInv, Counters
  <1>5. /\ Cardinality(DOMAIN d \ DOMAIN channel) \in Nat
        /\ m # None => Fine(m, d)
        /\ m = None => d = <<>>
    <2>1. CASE m # None
      <3>1. Fine(m, channel) /\ At(m, pub, channel) /\ used.messages \in Nat
        BY <1>1, <2>1 DEF PublisherInv
      <3> QED
        BY <1>1, <1>3, <1>4, <2>1, <3>1, InFlightFine
    <2>2. CASE m = None
      <3>1. pub.at = "idle" /\ channel = <<>>
        BY <1>1, <2>2, IdleFacts DEF PublisherInv
      <3>2. d = channel
        BY <1>3, <3>1 DEF InFlight, Editing
      <3>3. DOMAIN d \ DOMAIN channel \subseteq (0 + 1)..(0 + 2)
        BY <3>2
      <3> QED
        BY <2>2, <3>1, <3>2, <3>3, Growth
    <2> QED
      BY <2>1, <2>2
  <1>6. used' \in Counters
    <2>1. PICK a \in Nat : a = Cardinality(DOMAIN d \ DOMAIN channel)
      BY <1>5
    <2>2. used.crashes + 1 \in Nat /\ used.messages + a \in Nat
      BY <1>4 DEF Counters
    <2>3. used' = [used EXCEPT !.crashes = used.crashes + 1, !.messages = used.messages + a]
      BY <1>3, <2>1
    <2> QED
      BY <1>4, <2>2, <2>3 DEF Counters
  <1>7. m # None => At(m, Idle, d) /\ Newest(m)'
    BY <1>1, <1>3, IdleFacts DEF PublisherInv, Newest, At, Creating, Drawing, Attached
  <1>8. m = None => queue' = 0 /\ seen' = {}
    BY <1>1, <1>3 DEF PublisherInv
  <1> QED
    BY <1>2, <1>3, <1>4, <1>5, <1>6, <1>7, <1>8, IdleFacts DEF PublisherInv, Counters

LEMMA InitInv ==
  ASSUME Init
  PROVE  PublisherInv
  BY IdleFacts DEF Init, PublisherInv

LEMMA NextInv ==
  ASSUME PublisherInv, [Next]_vars
  PROVE  PublisherInv'
  <1>1. CASE Publication
    BY <1>1, ResolvedStep, FoundStep, SentStep, SendForbiddenStep, SendFailsStep, RecheckedStep,
       UndoneStep, FetchedStep, RenderedStep, DuplicatesFoundStep, LeftoversFoundStep,
       RemovedStep, RequestFailsStep DEF Publication
  <1>2. CASE \E e \in Events : Webhook(e)
    BY <1>2, WebhookStep
  <1>3. CASE ActionStored
    BY <1>3, ActionStoredStep
  <1>4. CASE Begin \/ Sweep
    BY <1>4, QueueStep
  <1>5. CASE \E i \in DOMAIN channel : Moderate(i)
    BY <1>5, ModerateStep
  <1>6. CASE Restart
    BY <1>6, RestartStep
  <1>7. CASE UNCHANGED vars
    <2>1. PICK m : m = mirror
      OBVIOUS
    <2>2. PICK s : s = pub
      OBVIOUS
    <2>3. PICK c : c = channel
      OBVIOUS
    <2>4. /\ mirror' = m /\ pub' = s /\ channel' = c /\ queue' = queue /\ used' = used
          /\ seen' = seen
      BY <1>7, <2>1, <2>2, <2>3 DEF vars
    <2>5. m # None => Newest(m)'
      BY <2>1, <2>4 DEF PublisherInv, Newest
    <2> QED
      BY <2>1, <2>2, <2>3, <2>4, <2>5 DEF PublisherInv
  <1> QED
    BY <1>1, <1>2, <1>3, <1>4, <1>5, <1>6, <1>7 DEF Next

----------------------------------------------------------------------------
(* The theorems.                                                           *)

\* Record, channel and publication stay in step, whatever fails, ends, is deleted or arrives.
THEOREM PublisherInvariant == Spec => []PublisherInv
  <1>1. Init => PublisherInv
    BY InitInv
  <1>2. PublisherInv /\ [Next]_vars => PublisherInv'
    BY NextInv
  <1> QED
    BY <1>1, <1>2, PTL DEF Spec

\* The stored record knows every message of the channel, by the card or by the nonce under
\* which a later publication finds and removes it (publish_staged(), _create_card(),
\* _replace_missing_card(), _cleanup_duplicates()), and no operation asks for a record that
\* __post_init__ rejects: where a repeated send posts once, or no write fails without
\* leaving its record.
THEOREM NoCardIsStray ==
  ASSUME Unrepeated
  PROVE  Spec => []NoStrayCard
  <1>1. PublisherInv => NoStrayCard
    <2>1. ASSUME PublisherInv, mirror = None
          PROVE  NoStrayCard
      BY <2>1 DEF PublisherInv, NoStrayCard
    <2>2. ASSUME PublisherInv, mirror # None
          PROVE  NoStrayCard
      BY <2>2, Unrepeated DEF PublisherInv, NoStrayCard, Fine, Accounted
    <2> QED
      BY <2>1, <2>2
  <1> QED
    BY <1>1, PublisherInvariant, PTL

\* A publication that is completed shows the stored record, which is the newest event's
\* (_reconcile_card(), complete_publication(), should_apply_event()).
THEOREM CompletedIsCurrent == Spec => []PublishedIsCurrent
  <1>1. PublisherInv => PublishedIsCurrent
    <2>1. ASSUME PublisherInv, mirror # None
          PROVE  \E e \in seen : /\ e.delivery = mirror.shows
                                /\ \A f \in seen : f.time <= e.time
      BY <2>1 DEF PublisherInv, Newest
    <2>2. ASSUME PublisherInv, mirror # None, ~mirror.publication_pending,
                 mirror.card \in DOMAIN channel
          PROVE  channel[mirror.card].shows = signature(mirror)
      BY <2>2 DEF PublisherInv, Fine, Current
    <2> QED
      BY <2>1, <2>2 DEF PublishedIsCurrent
  <1> QED
    BY <1>1, PublisherInvariant, PTL

=============================================================================

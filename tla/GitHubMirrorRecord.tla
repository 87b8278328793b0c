------------------------- MODULE GitHubMirrorRecord -------------------------
(***************************************************************************)
(* The record of one mirrored issue or pull request                        *)
(* (github_mirror_model.py) and every way the store changes it             *)
(* (github_mirror_store_updates.py, github_mirror_store.py).               *)
(*                                                                         *)
(* The store loads the file before and writes it in every operation, under *)
(* a lock that no await happens under, so an operation is a function of    *)
(* the record in the file.  Records of different items do not meet.        *)
(* A title, labels, refs and the activity line are named by the event that *)
(* they came from.  None stands for a message or nonce that is not there.  *)
(***************************************************************************)
EXTENDS Naturals, Sequences, SequencesExt

CONSTANTS
    Events,                 \* webhook events of the item
    MAX_RECENT_DELIVERIES,
    MAX_HANDLED_CLAIMS,
    None

\* event_from_github_webhook().  An event is named by its X-GitHub-Delivery; comment: it is
\* an issue_comment of a pull request, whose payload knows neither drafts nor merges.
is_event(e) ==
    /\ e.time \in Nat
    /\ e.comment \in BOOLEAN
    /\ e.state \in IF e.comment THEN {"open", "closed"} ELSE {"draft", "open", "closed", "merged"}

ASSUME EventsAssumption ==
    /\ \A e \in Events : is_event(e)
    /\ \A e, f \in Events : e.delivery = f.delivery => e = f
    /\ MAX_RECENT_DELIVERIES \in Nat \ {0}
    /\ MAX_HANDLED_CLAIMS \in Nat \ {0}

\* The last n elements of a sequence: s[-n:].
last(s, n) == IF Len(s) <= n THEN s ELSE SubSeq(s, Len(s) - n + 1, Len(s))

record_from_event(e) ==
    [revision |-> 0, card |-> None, create |-> None, cleanup |-> None,
     publication_pending |-> TRUE, thread |-> None, state |-> e.state, time |-> e.time,
     shows |-> e.delivery, deliveries |-> <<e.delivery>>,
     pending_action |-> None, active |-> None, handled |-> <<>>]

terminal_rank(state) ==
    CASE state = "draft" -> 0 [] state = "open" -> 1 [] state = "closed" -> 2 [] state = "merged" -> 3

should_apply_event(r, e) ==
    IF e.time # r.time THEN e.time > r.time
    ELSE terminal_rank(e.state) >= terminal_rank(r.state)

\* A comment does not undo a merge or the end of a draft that it cannot see.
state_after(r, e) ==
    IF e.comment /\ r.state = "merged" THEN "merged"
    ELSE IF e.comment /\ r.state = "draft" /\ e.state = "open" THEN "draft"
    ELSE e.state

update_from_event(r, e) ==
    LET staged == [r EXCEPT !.revision = @ + 1, !.publication_pending = TRUE,
                            !.deliveries = last(Append(@, e.delivery), MAX_RECENT_DELIVERIES)]
    IN IF should_apply_event(r, e)
       THEN [staged EXCEPT !.state = state_after(r, e), !.time = e.time, !.shows = e.delivery]
       ELSE staged

\* upsert_event(): of an item that is stored, a delivery that is remembered changes nothing.
upsert_existing(r, e) ==
    IF e.delivery \in ToSet(r.deliveries) THEN r ELSE update_from_event(r, e)

upsert_event(r, e) == IF r = None THEN record_from_event(e) ELSE upsert_existing(r, e)

\* updated_record(): every change through compare_and_set is a new revision.
updated_record(candidate) ==
    [candidate EXCEPT !.revision = @ + 1, !.handled = last(@, MAX_HANDLED_CLAIMS)]

-----------------------------------------------------------------------------
\* The card.  create is card_create_nonce, which is there exactly when card_create_pending.
claimable(r) == r.card = None /\ r.create = None
claim_card_record(r, nonce) == updated_record([r EXCEPT !.create = nonce])

\* attach_card_if_missing(): the record that is stored; a card that is already attached
\* only has the cards of this nonce queued for removal.
attach_conflicts(r, nonce) ==
    IF r.card # None THEN r.cleanup \notin {None, nonce} ELSE r.create # nonce
attach_card_if_missing(r, message, nonce) ==
    IF r.card = None
    THEN updated_record([r EXCEPT !.card = message, !.create = None, !.cleanup = nonce])
    ELSE IF r.cleanup = nonce THEN r
    ELSE updated_record([r EXCEPT !.cleanup = nonce])

release_card_creation(r, nonce) ==
    IF r.card # None \/ r.create # nonce THEN r
    ELSE updated_record([r EXCEPT !.create = None])

\* Mutant: the nonce stays queued for cleanup.
cleanup_not_recorded(r, nonce) == r

complete_card_cleanup(r, nonce) ==
    IF r.cleanup # nonce THEN r ELSE updated_record([r EXCEPT !.cleanup = None])

clear_card_if_matches(r, message) ==
    IF r.card # message THEN r
    ELSE updated_record([r EXCEPT !.card = None, !.create = None, !.cleanup = None,
                                  !.publication_pending = TRUE])

complete_publication(r, expected_revision) ==
    IF \/ r.revision # expected_revision
       \/ ~r.publication_pending
       \/ r.card = None
       \/ r.cleanup # None
    THEN r ELSE updated_record([r EXCEPT !.publication_pending = FALSE])

publication_is_pending(r) ==
    r.publication_pending \/ r.card = None \/ r.cleanup # None

\* What a card shows (github_mirror_card_signature), and the marker under its text.
signature(r) == <<r.shows, r.state>>
delivery_marker(r) == IF r.create # None THEN r.create ELSE r.cleanup

-----------------------------------------------------------------------------
\* __post_init__(): the relations between the fields of a record that can be constructed.
constructible(r) ==
    /\ r.card # None => r.create = None
    /\ r.card = None => r.cleanup = None
    /\ r.pending_action # None => r.active = None
    /\ Len(r.deliveries) <= MAX_RECENT_DELIVERIES
    /\ IsInjective(r.deliveries)
    /\ \A i, j \in DOMAIN r.handled :
          r.handled[i].interaction = r.handled[j].interaction => i = j
=============================================================================

---------------------- MODULE DiscordTaskSurfaceProofs ----------------------
(***************************************************************************)
(* The task as Discord users meet it, for any number of handlers, flushes, *)
(* progress updates, events and faults: its card never goes back and ends  *)
(* right, the progress it shows is the attempt's and the newest, and no    *)
(* staged file or thread is left without an owner.                         *)
(***************************************************************************)
EXTENDS DiscordTaskSurface, FiniteSetTheorems, WellFoundedInduction, TLAPS

----------------------------------------------------------------------------
(* The inductive invariant.                                                *)

Flush ==
  [at : {"none", "sleep", "render"}, entry : Nat, version : Nat,
   progress : AgentProgress \cup {None}]

RunnerStages ==
  {"none", "new", "create", "begin", "recovering", "recover", "context", "ask", "sending",
   "send", "enrich", "last"}

Runner ==
  [at : RunnerStages, inputs : BOOLEAN, error : Errors \cup {None}, read : Record \cup {None}]

HandlerStages ==
  {"none", "stage", "thread", "remove", "steering", "access", "modal", "idle", "interrupt",
   "interrupt_again", "render", "refresh"}

Works ==
  {"start", "steer", "slash", "context", "halt", "stop", "retry", "why", "add_context",
   "continue", "forget"}

Event ==
  [at : HandlerStages, what : Works \cup {None}, trigger : Triggers \cup {None},
   inputs : BOOLEAN]

StagingTypeOK ==
  onDisk \in Int /\ pending \in Nat /\ stranded \in Nat /\ threads \in Int /\ left \in Nat

SurfaceTypeOK ==
  /\ task \in Record \cup {None} /\ card \in BOOLEAN
  /\ shown \in Card \cup {None} /\ unshown \in BOOLEAN
  /\ outer \in Seq({"runner"} \cup Handlers) /\ inner \in Seq(Callers)
  /\ view \in [Callers -> Card \cup {None}]
  /\ entry \in Entry \cup {None} /\ flush \in [Flushes -> Flush]
  /\ updates_made \in Nat /\ faults \in Nat
  /\ created \in Triggers \cup {None} /\ runner \in Runner
  /\ handler \in [Handlers -> Event]
  /\ StagingTypeOK

\* A caller stands in a queue at most once.
Distinct(queue) == \A j, k \in DOMAIN queue : queue[j] = queue[k] => j = k

first(queue, c) == queue # <<>> /\ Head(queue) = c

\* Who holds the messenger's lock, or waits for it, holds the runtime's lock or is a flush, and
\* only its holder edits the card.
QueueInv ==
  /\ Distinct(outer) /\ Distinct(inner)
  /\ \A c \in Range(inner) : c \in Flushes \/ first(outer, c)
  /\ \A f \in Flushes : f \in Range(inner) <=> flush[f].at = "render"
  /\ \A c \in Callers : view[c] # None => first(inner, c) /\ card
  /\ \A h \in Handlers : h \in Range(outer) => handler[h].at \in {"render", "refresh"}
  /\ "runner" \in Range(outer) => runner.at \in {"begin", "context", "last"}

\* The states that the record is in while the runner is at an await.
StatesAt(stage) ==
  CASE stage \in {"new", "create", "begin"} -> {"starting", "stopping"}
    [] stage \in {"recovering", "recover"}  -> {"recovering", "stopping"}
    [] stage \in {"context", "ask"}         -> {"running", "stopping"}
    [] stage \in {"sending", "send"}        -> {"delivering"}
    [] OTHER                                -> States \ ACTIVE_STATES

Settled == task # None /\ ~is_active(task)

\* The runner finds the record as it left it, but for a Stop, or gone once it is settled; there
\* is no card before the runner made it.
RunnerInv ==
  /\ is_closed => runner = NoRunner
  /\ ~is_closed /\ task # None => task.state \in StatesAt(runner.at)
  /\ runner.at \notin {"none", "enrich", "last"} => task # None
  /\ runner.at \in {"new", "create"} => ~card
  /\ runner.at = "create" => runner.read \in Record /\ runner.read.revision <= task.revision
  /\ runner.at = "enrich" => runner.error \in Errors
  /\ ~card => shown = None /\ entry = None
  /\ created = None => task = None /\ ~card /\ runner = NoRunner
  /\ runner.at \in {"new", "create", "begin"} => entry = None /\ \A f \in Flushes : flush[f] = NoFlush

\* A flush that belongs to the coordinator's entry.
Current(f) ==
  /\ entry # None /\ entry.flush = f /\ entry.id = flush[f].entry
  /\ flush[f].at = "render" =>
       /\ flush[f].version <= entry.version
       /\ flush[f].progress \in AgentProgress
       /\ flush[f].progress.attempt = entry.progress.attempt
       /\ flush[f].version = entry.version => flush[f].progress = entry.progress
       /\ view[f] # None => view[f].progress = flush[f].progress

\* A flush that found the task settled and still edits its card; until it is done no later
\* attempt reports progress.
Outlived(f) ==
  /\ flush[f].at = "render" /\ view[f] # None /\ view[f].progress = None
  /\ entry = None
  /\ runner.at # "ask" /\ (runner.at = "context" => "runner" \in Range(outer))

\* The entry is that of the attempt that runs, and a render that will drop it is due when the
\* attempt is over.
ProgressInv ==
  /\ entry # None /\ task # None /\ is_active(task) => entry.progress.attempt = task.attempt
  /\ entry # None /\ Settled /\ ~is_closed =>
       \/ runner.at = "enrich"
       \/ runner.at = "last" /\ "runner" \in Range(outer) /\ view["runner"] = None
  /\ entry # None /\ entry.flush # None => flush[entry.flush].at # "none"
  /\ silent => entry = None
  /\ \A f \in Flushes : IF flush[f].at = "none" THEN flush[f] = NoFlush
                                                ELSE Current(f) \/ Outlived(f)

\* What a card shows is of one attempt.
OfAttempt(c) == c.progress # None => c.progress.attempt = c.record.attempt

AttemptInv ==
  /\ shown # None => OfAttempt(shown)
  /\ \A c \in Callers : view[c] # None => OfAttempt(view[c])

\* Without a flush the card, and who edits it, have the newest progress.
NewestInv ==
  entry # None /\ entry.flush = None /\ active_task /\ ~is_closed /\ faults = 0 =>
    /\ shown # None /\ shown.progress = entry.progress
    /\ \A c \in Callers : view[c] # None => view[c].progress = entry.progress

\* The card of a settled task is right, or being made right, or will be.
FinalInv ==
  Settled /\ card /\ ~is_closed =>
    \/ runner.at = "enrich"
    \/ \E c \in Range(outer) : view[c] = None
    \/ /\ \A c \in Callers : view[c] \in {None, card_of(task, None)}
       /\ unshown \/ shown = card_of(task, None) \/ \E c \in Callers : view[c] # None

\* The card is older than who edits it, who is older than the record.
OrderInv ==
  /\ shown # None /\ task # None => shown.record.revision <= task.revision
  /\ \A c \in Callers : view[c] # None =>
       /\ task # None => view[c].record.revision <= task.revision
       /\ shown # None => shown.record.revision <= view[c].record.revision

\* The handlers that own staged files, or a thread.
InputOwners == {h \in Handlers : handler[h].inputs}
ThreadOwners == {h \in Handlers : dedicated(h) /\ handler[h].at # "thread"}

HandlerInv ==
  /\ IsFiniteSet(InputOwners) /\ IsFiniteSet(ThreadOwners)
  /\ \A h \in Handlers :
       /\ handler[h].inputs => /\ handler[h].at \in {"stage", "remove", "steering"}
                               /\ handler[h].what \in {"start", "steer", "context"}
       /\ dedicated(h) => handler[h].at \in {"thread", "stage", "remove"}
       /\ handler[h].at = "remove" => dedicated(h)
       /\ handler[h].at \in {"thread", "stage"} => handler[h].trigger # None
  /\ NothingLeftBehind

SurfaceInv ==
  /\ SurfaceTypeOK /\ QueueInv /\ RunnerInv /\ ProgressInv /\ AttemptInv /\ NewestInv
  /\ FinalInv /\ OrderInv /\ HandlerInv

----------------------------------------------------------------------------
(* Queues.                                                                 *)

\* A set of numbers has a least one.
LEMMA Least ==
  ASSUME NEW S \in SUBSET Nat, S # {}
  PROVE  \E i \in S : \A j \in S : i <= j
<1> DEFINE R == {ss \in Nat \X Nat : ss[1] < ss[2]}
<1>1. \A x, y \in Nat : x < y <=> <<x, y>> \in R
  OBVIOUS
<1>2. IsWellFoundedOn(R, Nat)
  BY NatLessThanWellFounded DEF OpToRel
<1> HIDE DEF R
<1>3. PICK i \in S : \A j \in S : ~ (<<j, i>> \in R)
  BY <1>2, WFMin
<1>4. \A j \in S : ~ (j < i)
  <2>1. S \subseteq Nat
    OBVIOUS
  <2> QED
    BY <1>1, <1>3, <2>1
<1> QED
  BY <1>4

\* What holds of 0, and of n + 1 if it holds of n < m, holds up to m.
LEMMA Upto ==
  ASSUME NEW m \in Nat, NEW P \in SUBSET Nat, 0 \in P,
         \A n \in P : n < m => n + 1 \in P
  PROVE  0 .. m \subseteq P
<1> SUFFICES ASSUME ~ (0 .. m \subseteq P) PROVE FALSE
  OBVIOUS
<1> DEFINE S == (0 .. m) \ P
<1>1. S \in SUBSET Nat /\ S # {}
  OBVIOUS
<1> HIDE DEF S
<1>4. PICK i \in S : \A j \in S : i <= j
  BY <1>1, Least
<1> USE DEF S
<1>2. i # 0 /\ i - 1 \in 0 .. m
  BY <1>4
<1>3. i - 1 \in P
  BY <1>4, <1>2
<1> QED
  BY <1>4, <1>2, <1>3

\* Who joins a queue stands last, and nobody loses his place.
LEMMA AppendRange ==
  ASSUME NEW S, NEW q \in Seq(S), NEW c \in S
  PROVE  Range(Append(q, c)) = Range(q) \cup {c}
<1>1. /\ DOMAIN q = 1 .. Len(q) /\ Len(q) \in Nat
      /\ DOMAIN Append(q, c) = 1 .. Len(q) + 1
      /\ \A k \in 1 .. Len(q) + 1 : Append(q, c)[k] = IF k <= Len(q) THEN q[k] ELSE c
  OBVIOUS
<1>2. ASSUME NEW x \in Range(q) \cup {c} PROVE x \in Range(Append(q, c))
  <2>1. CASE x = c
    <3>1. Len(q) + 1 \in DOMAIN Append(q, c) /\ Append(q, c)[Len(q) + 1] = c
      BY <1>1
    <3> QED
      BY <2>1, <3>1 DEF Range
  <2>2. CASE x \in Range(q)
    <3>1. PICK k \in DOMAIN q : q[k] = x
      BY <2>2 DEF Range
    <3> QED
      BY <1>1, <3>1 DEF Range
  <2> QED
    BY <2>1, <2>2
<1>3. ASSUME NEW x \in Range(Append(q, c)) PROVE x \in Range(q) \cup {c}
  <2>1. PICK k \in DOMAIN Append(q, c) : Append(q, c)[k] = x
    BY DEF Range
  <2> QED
    BY <1>1, <2>1 DEF Range
<1> QED
  BY <1>2, <1>3

\* A caller that stays keeps its place relative to the others.
LEMMA DropFacts ==
  ASSUME NEW S, NEW q \in Seq(S), NEW gone, Distinct(q)
  PROVE  /\ drop(q, gone) \in Seq(S)
         /\ Distinct(drop(q, gone))
         /\ Range(drop(q, gone)) = Range(q) \ gone
         /\ \A c \in S \ gone : first(q, c) => first(drop(q, gone), c)
<1> DEFINE step(f, n) == IF n = 0 THEN <<>>
                         ELSE IF q[n] \in gone THEN f[n - 1] ELSE Append(f[n - 1], q[n])
           defines(f, m) == f = [n \in 0 .. m |-> step(f, n)]
           kept == CHOOSE f : defines(f, Len(q))
<1>1. drop(q, gone) = kept[Len(q)]
  BY DEF drop
<1>2. \E f : defines(f, Len(q))
  <2> DEFINE P == {m \in Nat : \E f : defines(f, m)}
  <2>1. 0 \in P
    <3>1. defines([n \in 0 .. 0 |-> <<>>], 0)
      OBVIOUS
    <3> QED
      BY <3>1
  <2>2. ASSUME NEW m \in P PROVE m + 1 \in P
    <3>1. PICK f : defines(f, m)
      BY <2>2
    <3>2. m \in Nat
      BY <2>2
    <3> DEFINE g == [n \in 0 .. m + 1 |-> IF n <= m THEN f[n] ELSE step(f, m + 1)]
    <3>3. \A n \in 0 .. m : f[n] = step(f, n)
      BY <3>1, Zenon
    <3>4. \A n \in 0 .. m + 1 : g[n] = IF n <= m THEN f[n] ELSE step(f, m + 1)
      OBVIOUS
    <3>5. g = [n \in 0 .. m + 1 |-> g[n]]
      OBVIOUS
    <3> HIDE DEF g
    <3>6. \A n \in 0 .. m + 1 : g[n] = step(g, n)
      BY <3>2, <3>3, <3>4
    <3>7. defines(g, m + 1)
      BY <3>5, <3>6
    <3> HIDE DEF defines
    <3>8. \E h : defines(h, m + 1)
      BY <3>7
    <3> QED
      BY <3>2, <3>8
  <2>4. P \in SUBSET Nat /\ Len(q) \in Nat
    OBVIOUS
  <2> HIDE DEF P
  <2>3. 0 .. Len(q) \subseteq P
    BY <2>1, <2>2, <2>4, Upto
  <2>5. Len(q) \in P
    BY <2>3, <2>4
  <2> QED
    BY <2>5 DEF P
<1>3. \A n \in 0 .. Len(q) : kept[n] = step(kept, n)
  <2>1. defines(kept, Len(q))
    BY <1>2
  <2> QED
    BY <2>1
<1> HIDE DEF kept
<1>7. kept[0] = <<>>
  BY <1>3
<1> DEFINE Good(n) ==
      /\ kept[n] \in Seq(S)
      /\ Distinct(kept[n])
      /\ Range(kept[n]) = {q[k] : k \in 1 .. n} \ gone
      /\ n > 0 /\ q[1] \notin gone => kept[n] # <<>> /\ Head(kept[n]) = q[1]
<1>4. Good(Len(q))
  <2> DEFINE P == {n \in Nat : n <= Len(q) => Good(n)}
  <2>1. 0 \in P
    <3>1. kept[0] = <<>> /\ DOMAIN <<>> = {}
      BY <1>7
    <3>2. kept[0] \in Seq(S) /\ Distinct(kept[0])
      BY <3>1 DEF Distinct
    <3>3. Range(kept[0]) = {} /\ {q[k] : k \in 1 .. 0} = {}
      BY <3>1 DEF Range
    <3> QED
      BY <3>2, <3>3
  <2>2. ASSUME NEW n \in P, n < Len(q) PROVE n + 1 \in P
    <3>1. Good(n)
      BY <2>2
    <3>2. kept[n + 1] = IF q[n + 1] \in gone THEN kept[n] ELSE Append(kept[n], q[n + 1])
      BY <1>3, <2>2
    <3>3. CASE q[n + 1] \in gone
      BY <3>1, <3>2, <3>3, <2>2
    <3>4. CASE q[n + 1] \notin gone
      <4>1. q[n + 1] \notin Range(kept[n])
        BY <3>1, <2>2 DEF Distinct
      <4>2. kept[n + 1] \in Seq(S) /\ Distinct(kept[n + 1])
        BY <3>1, <3>2, <3>4, <2>2, <4>1 DEF Distinct, Range
      <4>3. Range(kept[n + 1]) = Range(kept[n]) \cup {q[n + 1]}
        <5>1. q[n + 1] \in S
          BY <2>2
        <5> QED
          BY <3>1, <3>2, <3>4, <5>1, AppendRange
      <4>4. q[1] \notin gone => kept[n + 1] # <<>> /\ Head(kept[n + 1]) = q[1]
        <5>1. CASE n = 0
          <6>1. Head(Append(<<>>, q[1])) = q[1] /\ Append(<<>>, q[1]) # <<>>
            OBVIOUS
          <6>2. kept[n] = <<>> /\ q[n + 1] = q[1]
            BY <5>1, <1>7
          <6>3. kept[n + 1] = Append(<<>>, q[1])
            BY <6>2, <3>2, <3>4
          <6> QED
            BY <6>1, <6>3
        <5>2. CASE n # 0
          BY <5>2, <3>1, <3>2, <3>4, <2>2
        <5> QED
          BY <5>1, <5>2
      <4> QED
        BY <3>1, <3>4, <4>2, <4>3, <4>4, <2>2
    <3> QED
      BY <3>3, <3>4
  <2>4. P \in SUBSET Nat /\ Len(q) \in Nat
    OBVIOUS
  <2> HIDE DEF P
  <2>3. 0 .. Len(q) \subseteq P
    BY <2>1, <2>2, <2>4, Upto
  <2>5. Len(q) \in P
    BY <2>3, <2>4
  <2> QED
    BY <2>5 DEF P
<1>5. Range(q) = {q[k] : k \in 1 .. Len(q)}
  BY DEF Range
<1>6. ASSUME NEW c \in S \ gone, first(q, c) PROVE first(drop(q, gone), c)
  BY <1>1, <1>4, <1>6 DEF first
<1> QED
  BY <1>1, <1>4, <1>5, <1>6

\* Who joins a queue that he does not stand in.
LEMMA AppendFacts ==
  ASSUME NEW S, NEW q \in Seq(S), NEW c \in S, Distinct(q), c \notin Range(q)
  PROVE  /\ Append(q, c) \in Seq(S)
         /\ Distinct(Append(q, c))
         /\ Range(Append(q, c)) = Range(q) \cup {c}
         /\ Append(q, c) # <<>>
         /\ \A d : first(q, d) => first(Append(q, c), d)
         /\ q = <<>> => first(Append(q, c), c)
<1>1. /\ DOMAIN q = 1 .. Len(q) /\ Len(q) \in Nat
      /\ DOMAIN Append(q, c) = 1 .. Len(q) + 1
      /\ \A k \in 1 .. Len(q) + 1 : Append(q, c)[k] = IF k <= Len(q) THEN q[k] ELSE c
  OBVIOUS
<1>2. Distinct(Append(q, c))
  <2>1. \A k \in 1 .. Len(q) : q[k] # c
    BY <1>1 DEF Range
  <2> QED
    BY <1>1, <2>1 DEF Distinct
<1>3. Append(q, c) \in Seq(S) /\ Append(q, c) # <<>>
  <2>1. Append(q, c) \in Seq(S) /\ Len(Append(q, c)) = Len(q) + 1 /\ Len(<<>>) = 0
    OBVIOUS
  <2> QED
    BY <1>1, <2>1
<1>4. \A d : first(q, d) => first(Append(q, c), d)
  BY <1>3 DEF first
<1>5. q = <<>> => first(Append(q, c), c)
  BY <1>3 DEF first
<1> QED
  BY <1>2, <1>3, <1>4, <1>5, AppendRange

\* The first leaves.
LEMMA TailFacts ==
  ASSUME NEW S, NEW q \in Seq(S), Distinct(q), q # <<>>
  PROVE  /\ Tail(q) \in Seq(S)
         /\ Distinct(Tail(q))
         /\ Range(Tail(q)) = Range(q) \ {Head(q)}
         /\ Head(q) \in Range(q)
<1>1. /\ DOMAIN q = 1 .. Len(q) /\ Len(q) \in Nat \ {0}
      /\ Tail(q) \in Seq(S) /\ Len(Tail(q)) = Len(q) - 1
      /\ DOMAIN Tail(q) = 1 .. Len(q) - 1
      /\ \A k \in 1 .. Len(q) - 1 : Tail(q)[k] = q[k + 1]
      /\ Head(q) = q[1]
  OBVIOUS
<1>2. Distinct(Tail(q))
  BY <1>1 DEF Distinct
<1>3. ASSUME NEW x \in Range(Tail(q)) PROVE x \in Range(q) \ {Head(q)}
  <2>1. PICK k \in DOMAIN Tail(q) : Tail(q)[k] = x
    BY DEF Range
  <2>2. k + 1 \in DOMAIN q /\ q[k + 1] = x /\ k + 1 # 1
    BY <1>1, <2>1
  <2> QED
    BY <1>1, <2>2 DEF Range, Distinct
<1>4. ASSUME NEW x \in Range(q) \ {Head(q)} PROVE x \in Range(Tail(q))
  <2>1. PICK k \in DOMAIN q : q[k] = x
    BY DEF Range
  <2>2. k - 1 \in DOMAIN Tail(q) /\ Tail(q)[k - 1] = x
    BY <1>1, <2>1
  <2> QED
    BY <2>2 DEF Range
<1>5. Head(q) \in Range(q)
  BY <1>1 DEF Range
<1> QED
  BY <1>1, <1>2, <1>3, <1>4, <1>5

----------------------------------------------------------------------------
(* Records and cards.                                                      *)

\* A transition moves an active record on within its attempt.
LEMMA AdvanceFacts ==
  ASSUME NEW r \in Record, NEW target \in States, NEW failure \in Failure \cup {None}
  PROVE  /\ transition(r, target, failure, 0) \in Record
         /\ transition(r, target, failure, 0).state = target
         /\ is_active(r) => transition(r, target, failure, 0).attempt = r.attempt
<1>1. attempt_after_transition(r, target) \in Nat \ {0}
  BY DEF attempt_after_transition, Record
<1>2. failure_after_transition(r, target, failure) \in Failure \cup {None}
  BY DEF failure_after_transition, Record
<1>3. is_active(r) => attempt_after_transition(r, target) = r.attempt
  BY DEF attempt_after_transition, is_active, ACTIVE_STATES
<1> QED
  BY <1>1, <1>2, <1>3 DEF transition, Record

\* Claiming a cause changes nothing else.
LEMMA ClaimFacts ==
  ASSUME NEW r \in Record, NEW cause \in Causes
  PROVE  /\ claim_interruption(r, cause) \in Record
         /\ claim_interruption(r, cause).state = r.state
         /\ claim_interruption(r, cause).attempt = r.attempt
BY DEF claim_interruption, Record

\* Every failure the classifiers build is a failure.
LEMMA FailureTypes ==
  /\ \A error \in {"timeout", "runtime_disconnected", "other"}, b \in BOOLEAN :
       classify_agent_failure(error, b) \in Failure
  /\ \A b \in BOOLEAN : classify_delivery_failure(b) \in Failure
BY DEF classify_agent_failure, classify_delivery_failure,
   failure_of, Failure, Categories, RetryModes

\* What the runner's updates and Stop make of an active record.
LEMMA ActiveUpdates ==
  ASSUME NEW r \in Record, is_active(r)
  PROVE  /\ \A target \in States :
              /\ advance(r, target, 0) \in Record
              /\ advance(r, target, 0).state = target
              /\ advance(r, target, 0).attempt = r.attempt
         /\ claim_stop(r, 0) \in Record
         /\ claim_stop(r, 0).state = "stopping" /\ claim_stop(r, 0).attempt = r.attempt
         /\ complete(r, 0) \in Record
         /\ complete(r, 0).state = "completed" /\ complete(r, 0).attempt = r.attempt
         /\ \A b \in BOOLEAN :
              /\ delivery_failed(r, b, 0) \in Record
              /\ delivery_failed(r, b, 0).state = "delivery_failed"
              /\ delivery_failed(r, b, 0).attempt = r.attempt
<1>1. None \in Failure \cup {None} /\ {"stopping", "completed", "delivery_failed"} \subseteq States
  BY DEF States
<1>2. ASSUME NEW target \in States
      PROVE  /\ advance(r, target, 0) \in Record
             /\ advance(r, target, 0).state = target
             /\ advance(r, target, 0).attempt = r.attempt
  BY <1>1, AdvanceFacts DEF advance
<1>3. /\ claim_stop(r, 0) \in Record
      /\ claim_stop(r, 0).state = "stopping" /\ claim_stop(r, 0).attempt = r.attempt
  <2> DEFINE c == claim_interruption(r, "user_stop")
  <2>1. c \in Record /\ c.state = r.state /\ c.attempt = r.attempt
    BY ClaimFacts DEF Causes
  <2>2. is_active(c)
    BY <2>1 DEF is_active
  <2>3. claim_stop(r, 0) = transition(c, "stopping", None, 0)
    BY DEF claim_stop
  <2> HIDE DEF c
  <2> QED
    BY <1>1, <2>1, <2>2, <2>3, AdvanceFacts
<1>4. /\ complete(r, 0) \in Record
      /\ complete(r, 0).state = "completed" /\ complete(r, 0).attempt = r.attempt
  <2> DEFINE c == [r EXCEPT !.result = TRUE]
  <2>1. c \in Record /\ c.state = r.state /\ c.attempt = r.attempt
    BY DEF Record
  <2>2. is_active(c)
    BY <2>1 DEF is_active
  <2>3. complete(r, 0) = transition(c, "completed", None, 0)
    BY DEF complete
  <2> HIDE DEF c
  <2> QED
    BY <1>1, <2>1, <2>2, <2>3, AdvanceFacts
<1>5. ASSUME NEW b \in BOOLEAN
      PROVE  /\ delivery_failed(r, b, 0) \in Record
             /\ delivery_failed(r, b, 0).state = "delivery_failed"
             /\ delivery_failed(r, b, 0).attempt = r.attempt
  <2>1. classify_delivery_failure(b) \in Failure \cup {None}
    BY FailureTypes
  <2> QED
    BY <1>1, <2>1, AdvanceFacts DEF delivery_failed
<1> QED
  BY <1>2, <1>3, <1>4, <1>5

\* record_agent_failure ends the attempt.
LEMMA FailUpdate ==
  ASSUME NEW r \in Record, NEW error \in Errors, r.state \in {"recovering", "starting", "running"}
  PROVE  /\ fail(r, error, 0) \in Record
         /\ fail(r, error, 0).state \in States \ ACTIVE_STATES
         /\ fail(r, error, 0).attempt = r.attempt
         /\ failure_target(r, error) # None
<1> DEFINE base == IF failure_cause(r, error) = None
                        THEN r ELSE claim_interruption(r, failure_cause(r, error))
           target == failure_target(r, error)
<1>1. error \in {"timeout", "runtime_disconnected", "other"}
  BY ErrorsAssumption
<1>2. target \in {"failed", "timed_out", "interrupted"}
  BY <1>1 DEF failure_target
<1>3. target \in States \ ACTIVE_STATES
  BY <1>2 DEF States, ACTIVE_STATES
<1>4. failure_cause(r, error) \in Causes \cup {None}
  BY DEF failure_cause, Causes
<1>5. base \in Record /\ base.state = r.state /\ base.attempt = r.attempt
  BY <1>4, ClaimFacts
<1>6. is_active(base)
  BY <1>5 DEF is_active, ACTIVE_STATES
<1>7. classify_agent_failure(error, FALSE) \in Failure \cup {None}
  BY <1>1, FailureTypes
<1>8. fail(r, error, 0) = transition(base, target, classify_agent_failure(error, FALSE), 0)
  BY DEF fail
<1>9. target # None
  BY <1>3, NoneAssumption
<1>11. target \in States
  BY <1>3
<1> HIDE DEF base, target
<1>10. /\ fail(r, error, 0) \in Record
       /\ fail(r, error, 0).state = target
       /\ fail(r, error, 0).attempt = r.attempt
  <2> DEFINE why == classify_agent_failure(error, FALSE)
             ended == transition(base, target, why, 0)
  <2>1. why \in Failure \cup {None} /\ ended = fail(r, error, 0)
    BY <1>7, <1>8
  <2>2. base \in Record /\ is_active(base)
    BY <1>5, <1>6
  <2> HIDE DEF why
  <2>3. ended \in Record /\ ended.state = target /\ ended.attempt = base.attempt
    BY <1>11, <2>1, <2>2, AdvanceFacts
  <2> QED
    BY <1>5, <2>1, <2>3
<1> QED
  BY <1>3, <1>9, <1>10 DEF target

\* The updates that leave the state alone.
LEMMA SameStateUpdates ==
  ASSUME NEW r \in Record
  PROVE  /\ attach_card(r, 0) \in Record
         /\ attach_card(r, 0).state = r.state /\ attach_card(r, 0).attempt = r.attempt
         /\ \A failure \in Failure :
              /\ with_failure(r, failure, 0) \in Record
              /\ with_failure(r, failure, 0).state = r.state
         /\ [r EXCEPT !.to = 2] \in Record /\ [r EXCEPT !.to = 2].state = r.state
BY SurfaceAssumption DEF attach_card, with_failure, Record

\* The store counts the revisions.
LEMMA Revised ==
  ASSUME NEW r \in Record, NEW n \in Nat
  PROVE  /\ [r EXCEPT !.revision = n] \in Record
         /\ [r EXCEPT !.revision = n].revision = n
         /\ [r EXCEPT !.revision = n].state = r.state
         /\ [r EXCEPT !.revision = n].attempt = r.attempt
BY DEF Record

\* A retry starts an active attempt of a settled record.
LEMMA RetryUpdates ==
  ASSUME NEW r \in Record
  PROVE  \A target \in {"recovering", "delivering"} :
           advance(r, target, 0) \in Record /\ advance(r, target, 0).state = target
<1>1. None \in Failure \cup {None} /\ {"recovering", "delivering"} \subseteq States
  BY DEF States
<1> QED
  BY <1>1, AdvanceFacts DEF advance

\* A card shows a record, and progress only while it is active.
LEMMA CardFacts ==
  ASSUME NEW r \in Record, NEW progress \in AgentProgress \cup {None}
  PROVE  /\ card_of(r, progress) \in Card /\ card_of(r, progress) # None
         /\ card_of(r, progress).record = r
         /\ card_of(r, progress).progress = IF is_active(r) THEN progress ELSE None
BY AbsenceAssumption DEF card_of, Card

----------------------------------------------------------------------------
(* Steps that leave the card, its edits and the coordinator alone.         *)

\* Whoever takes such a step, the record it leaves is shown already or a render of it is due.
QuietStep ==
  /\ UNCHANGED <<displayVars, closing>> /\ faults' >= faults
  /\ Range(outer) \subseteq Range(outer')
  /\ task' # None => IF task = None THEN ~card ELSE task'.revision >= task.revision
  /\ entry # None /\ task' # None /\ is_active(task') =>
       task # None /\ is_active(task) /\ task'.attempt = task.attempt
  /\ entry # None /\ Settled' /\ ~is_closed =>
       \/ task' = task /\ runner' = runner
       \/ runner'.at = "enrich"
       \/ runner'.at = "last" /\ "runner" \in Range(outer') /\ view["runner"] = None
  /\ \/ runner' = runner
     \/ /\ runner'.at = "ask" => runner.at = "context" /\ "runner" \notin Range(outer)
        /\ runner'.at = "context" => "runner" \in Range(outer')
  /\ Settled' /\ card /\ ~is_closed =>
       \/ task' = task /\ (runner.at = "enrich" => runner'.at = "enrich")
       \/ runner'.at = "enrich"
       \/ \E c \in Range(outer') : view[c] = None

\* The coordinator, the card and its edits stay as they should be.
LEMMA QuietKeeps ==
  ASSUME SurfaceTypeOK, SurfaceTypeOK', QueueInv, RunnerInv, ProgressInv, AttemptInv, NewestInv,
         FinalInv, OrderInv, QuietStep
  PROVE  (ProgressInv /\ AttemptInv /\ NewestInv /\ FinalInv /\ OrderInv)'
<1> USE DEF QuietStep, displayVars, Settled, active_task, is_closed
<1>1. ProgressInv'
  <2>1. (entry # None /\ task # None /\ is_active(task) => entry.progress.attempt = task.attempt)'
    BY DEF ProgressInv
  <2>2. (entry # None /\ Settled /\ ~is_closed =>
           \/ runner.at = "enrich"
           \/ runner.at = "last" /\ "runner" \in Range(outer) /\ view["runner"] = None)'
    BY DEF ProgressInv
  <2>3. (entry # None /\ entry.flush # None => flush[entry.flush].at # "none")'
    BY DEF ProgressInv
  <2>4. ASSUME NEW f \in Flushes
        PROVE  (IF flush[f].at = "none" THEN flush[f] = NoFlush ELSE Current(f) \/ Outlived(f))'
    <3>1. Current(f) => Current(f)'
      BY DEF Current
    <3>2. Outlived(f) => Outlived(f)'
      BY DEF Outlived
    <3> QED
      BY <3>1, <3>2 DEF ProgressInv
  <2> QED
    BY <2>1, <2>2, <2>3, <2>4 DEF ProgressInv
<1>2. AttemptInv'
  BY DEF AttemptInv, OfAttempt
<1>3. NewestInv'
  <2>1. faults' = 0 => faults = 0
    BY DEF SurfaceTypeOK
  <2> QED
    BY <2>1 DEF NewestInv
<1>4. FinalInv'
  BY DEF FinalInv
<1>5. OrderInv'
  <2>1. ~card => shown = None /\ \A c \in Callers : view[c] = None
    BY DEF RunnerInv, QueueInv
  <2>2. (shown # None /\ task # None => shown.record.revision <= task.revision)'
    BY <2>1 DEF OrderInv, SurfaceTypeOK, Card, Record
  <2>3. ASSUME NEW c \in Callers, view'[c] # None
        PROVE  (/\ task # None => view[c].record.revision <= task.revision
                /\ shown # None => shown.record.revision <= view[c].record.revision)'
    BY <2>1, <2>3 DEF OrderInv, SurfaceTypeOK, Card, Record
  <2> QED
    BY <2>2, <2>3 DEF OrderInv
<1> QED
  BY <1>1, <1>2, <1>3, <1>4, <1>5

\* A caller asks for a render.
Asks(c) == c \notin Range(outer) /\ outer' = Append(outer, c)

\* The queues stay as they should be.
LEMMA QueuesKeep ==
  ASSUME SurfaceTypeOK, QueueInv, UNCHANGED <<inner, view, flush>>, card => card',
         \/ UNCHANGED outer
         \/ \E c \in {"runner"} \cup Handlers : Asks(c),
         \A h \in Handlers : h \in Range(outer') => handler'[h].at \in {"render", "refresh"},
         "runner" \in Range(outer') => runner'.at \in {"begin", "context", "last"}
  PROVE  /\ QueueInv' /\ outer' \in Seq({"runner"} \cup Handlers)
         /\ Range(outer) \subseteq Range(outer')
         /\ \A c \in {"runner"} \cup Handlers : Asks(c) => Range(outer') = Range(outer) \cup {c}
<1>1. /\ outer' \in Seq({"runner"} \cup Handlers) /\ Distinct(outer')
      /\ Range(outer) \subseteq Range(outer')
      /\ \A c : first(outer, c) => first(outer', c)
  <2>1. CASE UNCHANGED outer
    BY <2>1 DEF SurfaceTypeOK, QueueInv
  <2>2. CASE \E c \in {"runner"} \cup Handlers : Asks(c)
    <3>1. PICK c \in {"runner"} \cup Handlers : Asks(c)
      BY <2>2
    <3>2. outer \in Seq({"runner"} \cup Handlers) /\ Distinct(outer)
      BY DEF SurfaceTypeOK, QueueInv
    <3> QED
      BY <3>1, <3>2, AppendFacts DEF Asks
  <2> QED
    BY <2>1, <2>2
<1>2. \A c \in {"runner"} \cup Handlers : Asks(c) => Range(outer') = Range(outer) \cup {c}
  <2>1. outer \in Seq({"runner"} \cup Handlers)
    BY DEF SurfaceTypeOK
  <2> QED
    BY <2>1, AppendRange DEF Asks
<1>3. QueueInv'
  <2>1. Distinct(inner)' /\ Distinct(outer)'
    BY <1>1 DEF QueueInv
  <2>2. (\A c \in Range(inner) : c \in Flushes \/ first(outer, c))'
    BY <1>1 DEF QueueInv
  <2>3. (\A f \in Flushes : f \in Range(inner) <=> flush[f].at = "render")'
    BY DEF QueueInv
  <2>4. (\A c \in Callers : view[c] # None => first(inner, c) /\ card)'
    BY DEF QueueInv
  <2> QED
    BY <2>1, <2>2, <2>3, <2>4 DEF QueueInv
<1> QED
  BY <1>1, <1>2, <1>3

\* While the service is open the record's state tells where the runner is.
LEMMA StageFacts ==
  ASSUME SurfaceTypeOK, RunnerInv, ~is_closed, task # None
  PROVE  /\ task \in Record /\ task.state \in StatesAt(runner.at)
         /\ Settled <=> runner.at \in {"none", "enrich", "last"}
<1>1. task \in Record /\ task.state \in StatesAt(runner.at) /\ runner.at \in RunnerStages
  BY DEF SurfaceTypeOK, RunnerInv, Runner
<1> QED
  BY <1>1 DEF StatesAt, Settled, is_active, ACTIVE_STATES, RunnerStages

\* Without a runner the task is settled.
LEMMA NoRunnerFacts ==
  /\ NoRunner \in Runner /\ NoRunner.at = "none"
  /\ \A stage \in {"new", "recovering", "sending"}, b \in BOOLEAN :
       /\ spawned(stage, b) \in Runner
       /\ spawned(stage, b).at = stage /\ spawned(stage, b).inputs = b
BY DEF NoRunner, spawned, Runner, RunnerStages

----------------------------------------------------------------------------
(* Handlers and the card.                                                  *)

\* What a handler may do to the task while the service is open: start it, claim its stop, change
\* it once it is settled, begin another attempt, or forget it.
Starts ==
  /\ ~is_closed /\ created = None /\ created' \in Triggers
  /\ task' \in Record /\ task'.state = "starting"
  /\ \E b \in BOOLEAN : runner' = spawned("new", b)

Stops ==
  /\ ~is_closed /\ task # None /\ task.state \in {"recovering", "starting", "running"}
  /\ task' \in Record /\ task'.state = "stopping"
  /\ task'.attempt = task.attempt /\ task'.revision = task.revision + 1
  /\ UNCHANGED <<runner, created>>

Edits ==
  /\ ~is_closed /\ Settled /\ task' \in Record /\ task'.revision = task.revision + 1 /\ Settled'
  /\ UNCHANGED <<runner, created>>

Retries ==
  /\ ~is_closed /\ Settled /\ task' \in Record /\ task'.revision = task.revision + 1
  /\ runner = NoRunner
  /\ \/ task'.state = "recovering" /\ runner' = spawned("recovering", FALSE)
     \/ task'.state = "delivering" /\ runner' = spawned("sending", FALSE)
  /\ UNCHANGED created

Forgets == ~is_closed /\ Settled /\ task' = None /\ UNCHANGED <<runner, created>>

\* Every way in which a handler takes part in the life of the task and its card.
HandlerEffect(h) ==
  /\ UNCHANGED <<displayVars, closing>> /\ faults' \in {faults, faults + 1}
  /\ \A g \in Handlers : g # h => handler'[g] = handler[g]
  /\ \/ /\ Asks(h) /\ handler'[h].at \in {"render", "refresh"}
        /\ UNCHANGED <<task, runner, created>> \/ Edits \/ Retries
     \/ /\ UNCHANGED outer /\ h \notin Range(outer)
        /\ UNCHANGED <<task, runner, created>> \/ Starts \/ Stops \/ Forgets

\* What the invariant says of the card, its edits and the coordinator.
CardInv ==
  /\ QueueInv /\ RunnerInv /\ ProgressInv /\ AttemptInv /\ NewestInv /\ FinalInv /\ OrderInv

\* A handler keeps it.
LEMMA HandlerKeepsCard ==
  ASSUME SurfaceTypeOK, CardInv, NEW h \in Handlers, HandlerEffect(h),
         handler' \in [Handlers -> Event],
         StagingTypeOK'
  PROVE  (SurfaceTypeOK /\ CardInv)'
<1> USE DEF displayVars
<1>1. UNCHANGED <<displayVars, closing>> /\ is_closed' = is_closed
  BY DEF HandlerEffect, is_closed
<1>2. QueueInv' /\ outer' \in Seq({"runner"} \cup Handlers) /\ Range(outer) \subseteq Range(outer')
      /\ (Asks(h) => Range(outer') = Range(outer) \cup {h})
  <2>1. \/ UNCHANGED outer
        \/ \E c \in {"runner"} \cup Handlers : Asks(c)
    BY DEF HandlerEffect
  <2>2. outer \in Seq({"runner"} \cup Handlers) /\ h # "runner"
    BY MessengerAssumption DEF SurfaceTypeOK
  <2>3. \/ UNCHANGED outer /\ h \notin Range(outer)
        \/ Range(outer') = Range(outer) \cup {h} /\ handler'[h].at \in {"render", "refresh"}
    <3>1. Asks(h) => Range(outer') = Range(outer) \cup {h}
      BY <2>2, AppendRange DEF Asks
    <3> QED
      BY <3>1 DEF HandlerEffect
  <2>4. ASSUME NEW g \in Handlers, g \in Range(outer')
        PROVE  handler'[g].at \in {"render", "refresh"}
    <3>1. CASE g = h
      BY <2>3, <2>4, <3>1
    <3>2. CASE g # h
      BY <2>3, <2>4, <3>2 DEF HandlerEffect, CardInv, QueueInv
    <3> QED
      BY <3>1, <3>2
  <2>5. "runner" \in Range(outer') => runner'.at \in {"begin", "context", "last"}
    <3>1. "runner" \in Range(outer') => "runner" \in Range(outer)
      BY <2>2, <2>3
    <3>2. "runner" \in Range(outer) => UNCHANGED runner
      BY NoRunnerFacts DEF HandlerEffect, CardInv, QueueInv, RunnerInv, Starts, Stops, Edits,
        Retries, Forgets
    <3> QED
      BY <3>1, <3>2 DEF CardInv, QueueInv
  <2> QED
    BY <1>1, <2>1, <2>4, <2>5, QueuesKeep DEF CardInv
<1>3. SurfaceTypeOK'
  <2>1. faults' \in Nat
    BY DEF HandlerEffect, SurfaceTypeOK
  <2>2. task' \in Record \cup {None} /\ created' \in Triggers \cup {None} /\ runner' \in Runner
    BY NoRunnerFacts DEF HandlerEffect, SurfaceTypeOK, Starts, Stops, Edits, Retries, Forgets
  <2> QED
    BY <1>1, <1>2, <2>1, <2>2 DEF SurfaceTypeOK
<1>4. RunnerInv'
  <2> USE DEF RunnerInv, CardInv
  <2>1. CASE UNCHANGED <<task, runner, created>>
    BY <1>1, <2>1
  <2>2. CASE Edits
    <3>1. runner.at \in {"none", "enrich", "last"}
      BY <2>2, StageFacts DEF Settled, Edits
    <3>2. task'.state \in States \ ACTIVE_STATES
      BY <2>2 DEF Settled, is_active, Record, Edits
    <3> QED
      BY <1>1, <2>2, <3>1, <3>2 DEF StatesAt, Settled, Edits
  <2>3. CASE Retries
    <3>1. runner'.at \in {"recovering", "sending"} /\ task'.state \in StatesAt(runner'.at)
      BY <2>3, NoRunnerFacts DEF StatesAt, Retries
    <3>2. task' # None
      BY <2>3, AbsenceAssumption DEF Retries
    <3> QED
      BY <1>1, <2>3, <3>1, <3>2 DEF Settled, Retries
  <2>4. CASE Starts
    <3>1. runner'.at = "new" /\ task'.state \in StatesAt(runner'.at)
      BY <2>4, NoRunnerFacts DEF StatesAt, Starts
    <3>2. task' # None /\ created' # None
      BY <2>4, AbsenceAssumption, SurfaceAssumption DEF Starts
    <3>3. entry = None /\ ~card
      BY <2>4 DEF Starts
    <3>4. ASSUME NEW f \in Flushes PROVE flush[f] = NoFlush
      <4>1. f \in Callers
        BY DEF Callers
      <4> QED
        BY <3>3, <4>1 DEF ProgressInv, Current, Outlived, QueueInv
    <3> QED
      BY <1>1, <2>4, <3>1, <3>2, <3>3, <3>4 DEF Starts
  <2>5. CASE Forgets
    <3>1. runner.at \in {"none", "enrich", "last"}
      BY <2>5, StageFacts DEF Settled, Forgets
    <3> QED
      BY <1>1, <2>5, <3>1 DEF Settled, Forgets
  <2>6. CASE Stops
    <3>1. task.state \in StatesAt(runner.at) /\ task \in Record
      BY <2>6, StageFacts DEF Stops
    <3>2. "stopping" \in StatesAt(runner.at)
      BY <2>6, <3>1 DEF StatesAt, SurfaceTypeOK, Runner, RunnerStages, ACTIVE_STATES, Stops
    <3>3. task' # None
      BY <2>6, AbsenceAssumption DEF Stops
    <3>4. runner.at = "create" => runner.read \in Record /\ runner.read.revision <= task'.revision
      BY <2>6, <3>1 DEF Record, Stops
    <3> QED
      BY <1>1, <2>6, <3>2, <3>3, <3>4 DEF Stops
  <2> QED
    BY <2>1, <2>2, <2>3, <2>4, <2>5, <2>6 DEF HandlerEffect
<1>5. QuietStep
  <2>1. faults' >= faults
    BY DEF HandlerEffect, SurfaceTypeOK
  <2>2. Asks(h) => h \in Range(outer') /\ view[h] = None
    <3>1. Asks(h) => ~first(outer, h)
      BY TailFacts DEF Asks, first, CardInv, QueueInv, SurfaceTypeOK
    <3>2. h \notin Flushes /\ h \in Callers
      BY MessengerAssumption DEF Callers
    <3>3. Asks(h) => view[h] = None
      <4>1. first(inner, h) => h \in Range(inner)
        BY TailFacts DEF first, CardInv, QueueInv, SurfaceTypeOK
      <4> QED
        BY <3>1, <3>2, <4>1 DEF CardInv, QueueInv
    <3> QED
      BY <1>2, <3>3
  <2>3. /\ task' # None => IF task = None THEN ~card ELSE task'.revision >= task.revision
        /\ entry # None /\ task' # None /\ is_active(task') =>
             task # None /\ is_active(task) /\ task'.attempt = task.attempt
        /\ entry # None /\ Settled' /\ ~is_closed =>
             \/ task' = task /\ runner' = runner
             \/ runner'.at = "enrich"
             \/ runner'.at = "last" /\ "runner" \in Range(outer') /\ view["runner"] = None
        /\ runner' = runner \/ runner'.at \notin {"ask", "context"}
        /\ Settled' =>
             \/ task' = task /\ (runner.at = "enrich" => runner'.at = "enrich")
             \/ Asks(h)
    <3>1. task = None \/ task \in Record
      BY DEF SurfaceTypeOK
    <3>2. CASE UNCHANGED <<task, runner, created>>
      BY <3>1, <3>2 DEF Record
    <3>3. CASE Edits /\ Asks(h)
      BY <1>2, <3>1, <3>3 DEF Edits, Record, Settled, CardInv, ProgressInv
    <3>4. CASE Retries
      <4>1. entry = None
        BY <3>4, NoRunnerFacts DEF Retries, CardInv, ProgressInv
      <4>2. ~Settled' /\ runner'.at \in {"recovering", "sending"}
        BY <3>4, NoRunnerFacts DEF Retries, Settled, is_active, ACTIVE_STATES
      <4>3. task # None /\ task'.revision >= task.revision
        BY <3>1, <3>4 DEF Retries, Settled, Record
      <4> QED
        BY <4>1, <4>2, <4>3
    <3>5. CASE Starts
      BY <3>1, <3>5, NoRunnerFacts DEF Starts, CardInv, RunnerInv, Settled, is_active, ACTIVE_STATES
    <3>6. CASE Forgets
      BY <3>6 DEF Forgets, Settled
    <3>7. CASE Stops
      BY <3>1, <3>7 DEF Stops, Record, Settled, is_active, ACTIVE_STATES
    <3> QED
      BY <3>2, <3>3, <3>4, <3>5, <3>6, <3>7 DEF HandlerEffect
  <2>4. h \in Callers
    BY DEF Callers
  <2> QED
    BY <1>1, <1>2, <2>1, <2>2, <2>3, <2>4 DEF QuietStep
<1> QED
  BY <1>2, <1>3, <1>4, <1>5, QuietKeeps DEF CardInv

----------------------------------------------------------------------------
(* Files and threads.                                                      *)

\* One handler joins or leaves a set.
LEMMA OneMore ==
  ASSUME NEW S, IsFiniteSet(S), NEW T, NEW h, S \ {h} = T \ {h}
  PROVE  /\ IsFiniteSet(T) /\ Cardinality(S) \in Nat /\ Cardinality(T) \in Nat
         /\ Cardinality(T) - one(h \in T) = Cardinality(S) - one(h \in S)
<1> DEFINE R == S \ {h}
<1>1. IsFiniteSet(R)
  BY FS_Subset
<1>2. Cardinality(S) \in Nat /\ Cardinality(R) \in Nat
  BY <1>1, FS_CardinalityType
<1>3. IsFiniteSet(R \cup {h}) /\ Cardinality(R \cup {h}) = Cardinality(R) + 1
  BY <1>1, FS_AddElement
<1>4. S = IF h \in S THEN R \cup {h} ELSE R
  OBVIOUS
<1>5. T = IF h \in T THEN R \cup {h} ELSE R
  OBVIOUS
<1>9. h \notin R
  OBVIOUS
<1> HIDE DEF R
<1>6. ASSUME NEW X, X = IF h \in X THEN R \cup {h} ELSE R
      PROVE  IsFiniteSet(X) /\ Cardinality(X) \in Nat /\ Cardinality(X) - one(h \in X) = Cardinality(R)
  <2>1. CASE h \in X
    <3>1. X = R \cup {h}
      BY <1>6, <2>1
    <3>2. IsFiniteSet(X) /\ Cardinality(X) = Cardinality(R) + 1
      BY <1>3, <3>1, Zenon
    <3> QED
      BY <1>2, <2>1, <3>2 DEF one
  <2>2. CASE h \notin X
    <3>1. X = R
      BY <1>6, <2>2
    <3>2. IsFiniteSet(X) /\ Cardinality(X) = Cardinality(R)
      BY <1>1, <3>1
    <3> QED
      BY <1>2, <2>2, <3>2 DEF one
  <2> QED
    BY <2>1, <2>2
<1>7. Cardinality(S) - one(h \in S) = Cardinality(R)
  BY <1>4, <1>6, Zenon
<1>8. /\ IsFiniteSet(T) /\ Cardinality(T) \in Nat
      /\ Cardinality(T) - one(h \in T) = Cardinality(R)
  BY <1>5, <1>6, Zenon
<1> QED
  BY <1>2, <1>7, <1>8

\* A handler's part of the invariant.
owns_thread(e) == e.what \in {"slash", "context"} /\ e.at # "thread"

Orderly(e) ==
  /\ e.inputs => /\ e.at \in {"stage", "remove", "steering"}
                 /\ e.what \in {"start", "steer", "context"}
  /\ e.what \in {"slash", "context"} => e.at \in {"thread", "stage", "remove"}
  /\ e.at = "remove" => e.what \in {"slash", "context"}
  /\ e.at \in {"thread", "stage"} => e.trigger # None

\* What a handler takes or hands over is balanced by what exists.
Balance(h) ==
  /\ (onDisk - pending - stranded - one(runner.inputs) - one(handler[h].inputs))' =
       onDisk - pending - stranded - one(runner.inputs) - one(handler[h].inputs)
  /\ (threads - left - one(owns_thread(handler[h])))' =
       threads - left - one(owns_thread(handler[h]))

\* Nothing is left behind by a handler that balances.
LEMMA HandlerKeepsOwners ==
  ASSUME HandlerInv, StagingTypeOK, StagingTypeOK', NEW h \in Handlers,
         \A g \in Handlers : g # h => handler'[g] = handler[g],
         Orderly(handler'[h]), Balance(h)
  PROVE  HandlerInv'
<1>1. InputOwners \ {h} = InputOwners' \ {h} /\ ThreadOwners \ {h} = ThreadOwners' \ {h}
  BY DEF InputOwners, ThreadOwners, dedicated
<1>2. /\ IsFiniteSet(InputOwners)' /\ IsFiniteSet(ThreadOwners)'
      /\ Cardinality(InputOwners) \in Nat /\ Cardinality(ThreadOwners) \in Nat
      /\ Cardinality(InputOwners)' \in Nat /\ Cardinality(ThreadOwners)' \in Nat
      /\ Cardinality(InputOwners)' - one(h \in InputOwners')
           = Cardinality(InputOwners) - one(h \in InputOwners)
      /\ Cardinality(ThreadOwners)' - one(h \in ThreadOwners')
           = Cardinality(ThreadOwners) - one(h \in ThreadOwners)
  <2>1. IsFiniteSet(InputOwners) /\ IsFiniteSet(ThreadOwners)
    BY DEF HandlerInv
  <2> QED
    BY <1>1, <2>1, OneMore
<1>3. /\ one(h \in InputOwners) = one(handler[h].inputs)
      /\ one(h \in ThreadOwners) = one(owns_thread(handler[h]))
  BY DEF InputOwners, ThreadOwners, owns_thread, dedicated, one
<1>4. /\ one(h \in InputOwners') = one(handler[h].inputs)'
      /\ one(h \in ThreadOwners') = one(owns_thread(handler[h]))'
  BY DEF InputOwners, ThreadOwners, owns_thread, dedicated, one
<1>5. /\ onDisk = Cardinality(InputOwners) + one(runner.inputs) + pending + stranded
      /\ threads = Cardinality(ThreadOwners) + left
  BY DEF HandlerInv, NothingLeftBehind, InputsHaveOwner, ThreadsHaveTasks, InputOwners, ThreadOwners
<1> DEFINE i == one(handler[h].inputs)
           r == one(runner.inputs)
           o == one(owns_thread(handler[h]))
           c == Cardinality(InputOwners)
           d == Cardinality(ThreadOwners)
<1>6. /\ {i, r, o, c, d} \subseteq Int /\ {i, r, o, c, d}' \subseteq Int
      /\ c' - i' = c - i /\ d' - o' = d - o
      /\ onDisk = c + r + pending + stranded /\ threads = d + left
  BY <1>2, <1>3, <1>4, <1>5 DEF one
<1>11. /\ onDisk' - pending' - stranded' - r' - i' = onDisk - pending - stranded - r - i
       /\ threads' - left' - o' = threads - left - o
  BY DEF Balance
<1> HIDE DEF i, r, o, c, d
<1>12. onDisk' = c' + r' + pending' + stranded' /\ threads' = d' + left'
  BY <1>6, <1>11 DEF StagingTypeOK
<1> USE DEF i, r, o, c, d
<1>7. onDisk' = Cardinality(InputOwners)' + one(runner.inputs)' + pending' + stranded'
  BY <1>12
<1>8. threads' = Cardinality(ThreadOwners)' + left'
  BY <1>12
<1>9. NothingLeftBehind'
  BY <1>7, <1>8 DEF NothingLeftBehind, InputsHaveOwner, ThreadsHaveTasks, InputOwners, ThreadOwners
<1>10. \A g \in Handlers : Orderly(handler[g])'
  <2>1. \A g \in Handlers : Orderly(handler[g])
    BY DEF HandlerInv, Orderly, dedicated
  <2>2. \A g \in Handlers : g # h => Orderly(handler'[g])
    BY <2>1
  <2> QED
    BY <2>2
<1> QED
  BY <1>2, <1>9, <1>10 DEF HandlerInv, Orderly, dedicated

----------------------------------------------------------------------------
(* What the handlers' building blocks do.                                  *)

\* A handler that is not at its render is not in the queue.
LEMMA NotQueued ==
  ASSUME QueueInv, NEW h \in Handlers,
         handler[h].at \notin {"render", "refresh"} \/ ~rendering(h)
  PROVE  h \notin Range(outer)
BY DEF QueueInv, rendering

\* A handler goes on to another await.
LEMMA GoesFacts ==
  ASSUME SurfaceTypeOK, NEW h \in Handlers, NEW stage \in HandlerStages, goes(h, stage)
  PROVE  /\ handler' \in [Handlers -> Event]
         /\ \A g \in Handlers : g # h => handler'[g] = handler[g]
         /\ handler'[h].at = stage /\ handler'[h].what = handler[h].what
         /\ handler'[h].inputs = handler[h].inputs
         /\ handler'[h].trigger = handler[h].trigger
BY DEF SurfaceTypeOK, goes, Event

\* A coroutine that is not there owns nothing.
LEMMA NoEventFacts ==
  /\ NoEvent \in Event /\ Orderly(NoEvent) /\ ~NoEvent.inputs /\ ~owns_thread(NoEvent)
  /\ NoEvent.at = "none" /\ NoEvent.what = None
<1>1. None \notin {"slash", "context"}
  BY SurfaceAssumption
<1> QED
  BY <1>1 DEF NoEvent, Event, Orderly, owns_thread, HandlerStages

\* A handler ends.
LEMMA EndsFacts ==
  ASSUME SurfaceTypeOK, NEW h \in Handlers, ends(h)
  PROVE  /\ handler' \in [Handlers -> Event]
         /\ \A g \in Handlers : g # h => handler'[g] = handler[g]
         /\ handler'[h] = NoEvent
BY NoEventFacts DEF SurfaceTypeOK, ends

\* A request that has failed gives its thread to the removal.
LEMMA GivenUpFacts ==
  ASSUME SurfaceTypeOK, NEW h \in Handlers, NEW b \in BOOLEAN, given_up(h, b),
         handler[h].what \in {"slash", "context"} \/ ~b
  PROVE  /\ handler' \in [Handlers -> Event]
         /\ \A g \in Handlers : g # h => handler'[g] = handler[g]
         /\ handler'[h].inputs = b
         /\ owns_thread(handler'[h]) <=> dedicated(h)
         /\ handler[h].what \in {"start", "steer", "context"} \/ ~b => Orderly(handler'[h])
<1>1. CASE dedicated(h)
  <2>1. handler' = [handler EXCEPT ![h].at = "remove", ![h].inputs = b]
    BY <1>1 DEF given_up
  <2>2. /\ handler' \in [Handlers -> Event]
        /\ \A g \in Handlers : g # h => handler'[g] = handler[g]
        /\ handler'[h].inputs = b /\ handler'[h].at = "remove"
        /\ handler'[h].what = handler[h].what
    BY <2>1 DEF SurfaceTypeOK, Event, HandlerStages
  <2> QED
    BY <1>1, <2>2 DEF dedicated, owns_thread, Orderly
<1>2. CASE ~dedicated(h)
  <2>1. ends(h)
    BY <1>2 DEF given_up
  <2> QED
    <3>1. b = FALSE
      BY <1>2 DEF dedicated
    <3>2. handler'[h] = NoEvent /\ NoEvent.inputs = FALSE
      BY <2>1, EndsFacts DEF NoEvent
    <3> QED
      BY <1>2, <2>1, <3>1, <3>2, EndsFacts, NoEventFacts
<1> QED
  BY <1>1, <1>2

\* A cleanup hands what it cannot remove over to the registry.
LEMMA CleanupFacts ==
  ASSUME StagingTypeOK, faults \in Nat, NEW b \in BOOLEAN, cleanup(b)
  PROVE  /\ onDisk' \in Int /\ pending' \in Nat
         /\ onDisk' - pending' = onDisk - pending - one(b)
         /\ faults' \in {faults, faults + 1}
         /\ raised => b
BY DEF StagingTypeOK, cleanup, one, raised

\* The request's task is a record.
LEMMA NewTask ==
  ASSUME NEW h, handler[h].trigger \in Triggers
  PROVE  new_task(h) \in Record /\ new_task(h).state = "starting"
<1>1. (CHOOSE o \in Owners : TRUE) \in Owners /\ (CHOOSE c \in Channels : TRUE) \in Channels
  BY SurfaceAssumption
<1> QED
  BY <1>1 DEF new_task, Record, States

----------------------------------------------------------------------------
(* The handlers' steps.                                                    *)

\* What is shown of each of them.
Keeps(h) ==
  /\ HandlerEffect(h) /\ handler' \in [Handlers -> Event] /\ StagingTypeOK'
  /\ Orderly(handler'[h]) /\ Balance(h)

\* A handler of which this is shown keeps the whole invariant.
LEMMA HandlerKeeps ==
  ASSUME SurfaceInv, NEW h \in Handlers, Keeps(h)
  PROVE  SurfaceInv'
<1>1. SurfaceTypeOK /\ CardInv /\ StagingTypeOK /\ HandlerInv
  BY DEF SurfaceInv, CardInv, SurfaceTypeOK
<1>2. (SurfaceTypeOK /\ CardInv)'
  BY <1>1, HandlerKeepsCard DEF Keeps
<1>3. HandlerInv'
  BY <1>1, HandlerKeepsOwners DEF Keeps, HandlerEffect
<1> QED
  BY <1>2, <1>3 DEF SurfaceInv, CardInv

\* What is known of a handler before its step.
LEMMA HandlerFacts ==
  ASSUME SurfaceInv, NEW h \in Handlers
  PROVE  /\ SurfaceTypeOK /\ StagingTypeOK /\ CardInv /\ QueueInv /\ RunnerInv
         /\ handler[h] \in Event /\ Orderly(handler[h]) /\ faults \in Nat
         /\ handler[h].inputs \in BOOLEAN
         /\ handler[h].at \in {"thread", "stage"} => handler[h].trigger \in Triggers
<1>1. SurfaceTypeOK /\ StagingTypeOK /\ CardInv /\ QueueInv /\ RunnerInv /\ HandlerInv
  BY DEF SurfaceInv, CardInv, SurfaceTypeOK
<1>2. handler[h] \in Event /\ Orderly(handler[h])
  BY <1>1 DEF SurfaceTypeOK, HandlerInv, Orderly, dedicated
<1> QED
  BY <1>1, <1>2 DEF SurfaceTypeOK, Event, Orderly

\* A new event is taken up.
LEMMA ArrivalKeeps ==
  ASSUME SurfaceInv, NEW h \in Handlers, handler[h] = NoEvent,
         NEW e \in Event, handler' = [handler EXCEPT ![h] = e], Orderly(e), ~owns_thread(e),
         onDisk' = onDisk + one(e.inputs),
         UNCHANGED <<cardVars, created, runner, closing, pending, stranded, threads, left>>
  PROVE  Keeps(h)
<1>1. /\ SurfaceTypeOK /\ StagingTypeOK /\ QueueInv
      /\ handler' \in [Handlers -> Event] /\ handler'[h] = e
      /\ \A g \in Handlers : g # h => handler'[g] = handler[g]
  BY HandlerFacts DEF SurfaceTypeOK
<1>2. HandlerEffect(h)
  BY <1>1, NotQueued, NoEventFacts DEF HandlerEffect, cardVars, displayVars
<1>3. StagingTypeOK'
  BY <1>1 DEF StagingTypeOK, one
<1>4. Balance(h)
  BY <1>1, NoEventFacts DEF Balance, StagingTypeOK, one
<1> QED
  BY <1>1, <1>2, <1>3, <1>4 DEF Keeps

\* A mention is taken up: its files are staged, and the handler owns them.
LEMMA MentionKeeps ==
  ASSUME SurfaceInv, NEW h \in Handlers, NEW m \in Messages, NEW what \in {"start", "steer"},
         NEW attached \in BOOLEAN, Mention(h, m, what, attached)
  PROVE  Keeps(h)
<1> DEFINE e == [at |-> "stage", what |-> what, trigger |-> m, inputs |-> attached]
<1>1. m \in Triggers /\ m # None
  BY SurfaceAssumption
<1>2. e \in Event /\ Orderly(e) /\ ~owns_thread(e) /\ e.inputs = attached
  BY <1>1 DEF Event, Orderly, owns_thread, HandlerStages, Works
<1> HIDE DEF e
<1>3. /\ handler[h] = NoEvent /\ handler' = [handler EXCEPT ![h] = e]
      /\ onDisk' = onDisk + one(e.inputs)
      /\ UNCHANGED <<cardVars, created, runner, closing, pending, stranded, threads, left>>
  BY <1>2 DEF Mention, arrives, staging, e
<1> QED
  BY <1>2, <1>3, ArrivalKeeps

\* A cancel prompt is taken up; nothing is stopped yet.
LEMMA MentionStopKeeps ==
  ASSUME SurfaceInv, NEW h \in Handlers, NEW m \in Messages, MentionStop(h, m)
  PROVE  Keeps(h)
<1> DEFINE e == [NoEvent EXCEPT !.at = "access", !.what = "halt"]
<1>1. e \in Event /\ Orderly(e) /\ ~owns_thread(e) /\ ~e.inputs
  BY NoEventFacts DEF NoEvent, Event, Orderly, owns_thread, HandlerStages, Works
<1> HIDE DEF e
<1>2. /\ handler[h] = NoEvent /\ handler' = [handler EXCEPT ![h] = e]
      /\ onDisk' = onDisk + one(e.inputs)
      /\ UNCHANGED <<cardVars, created, runner, closing, pending, stranded, threads, left>>
  BY <1>1, HandlerFacts DEF MentionStop, arrives, stagingVars, one, e, StagingTypeOK
<1> QED
  BY <1>1, <1>2, ArrivalKeeps

\* A command is taken up: its thread is asked for, and does not exist yet.
LEMMA CommandKeeps ==
  ASSUME SurfaceInv, NEW h \in Handlers, NEW what \in {"slash", "context"}, NEW i \in Requests,
         Command(h, what, i)
  PROVE  Keeps(h)
<1> DEFINE e == [NoEvent EXCEPT !.at = "thread", !.what = what, !.trigger = i]
<1>1. i \in Triggers /\ i # None
  BY SurfaceAssumption
<1>2. e \in Event /\ Orderly(e) /\ ~owns_thread(e) /\ ~e.inputs
  BY <1>1 DEF NoEvent, Event, Orderly, owns_thread, HandlerStages, Works
<1> HIDE DEF e
<1>3. /\ handler[h] = NoEvent /\ handler' = [handler EXCEPT ![h] = e]
      /\ onDisk' = onDisk + one(e.inputs)
      /\ UNCHANGED <<cardVars, created, runner, closing, pending, stranded, threads, left>>
  BY <1>2, HandlerFacts DEF Command, arrives, stagingVars, one, e, StagingTypeOK
<1> QED
  BY <1>2, <1>3, ArrivalKeeps

\* A press of a button is taken up; access is resolved next.
LEMMA ClickKeeps ==
  ASSUME SurfaceInv, NEW h \in Handlers,
         NEW what \in {"stop", "retry", "why", "add_context", "continue", "forget"},
         Click(h, what)
  PROVE  Keeps(h)
<1> DEFINE e == [NoEvent EXCEPT !.at = "access", !.what = what]
<1>1. e \in Event /\ Orderly(e) /\ ~owns_thread(e) /\ ~e.inputs
  BY NoEventFacts DEF NoEvent, Event, Orderly, owns_thread, HandlerStages, Works
<1> HIDE DEF e
<1>2. /\ handler[h] = NoEvent /\ handler' = [handler EXCEPT ![h] = e]
      /\ onDisk' = onDisk + one(e.inputs)
      /\ UNCHANGED <<cardVars, created, runner, closing, pending, stranded, threads, left>>
  BY <1>1, HandlerFacts DEF Click, arrives, stagingVars, one, e, StagingTypeOK
<1> QED
  BY <1>1, <1>2, ArrivalKeeps

\* A request that is over without a task: its files are cleaned up and its thread is to be removed.
LEMMA FailureKeeps ==
  ASSUME SurfaceInv, NEW h \in Handlers, h \notin Range(outer), NEW n \in Int,
         n = threads + one(dedicated(h)) - one(owns_thread(handler[h])),
         cleanup(handler[h].inputs), given_up(h, FALSE), threads' = n,
         UNCHANGED <<displayVars, task, outer, created, runner, closing, stranded, left>>
  PROVE  Keeps(h)
<1>1. /\ StagingTypeOK /\ faults \in Nat /\ handler[h].inputs \in BOOLEAN /\ SurfaceTypeOK
      /\ handler[h] \in Event
  BY HandlerFacts
<1>2. /\ handler' \in [Handlers -> Event]
      /\ \A g \in Handlers : g # h => handler'[g] = handler[g]
      /\ ~handler'[h].inputs
      /\ owns_thread(handler'[h]) <=> dedicated(h)
      /\ Orderly(handler'[h])
  BY <1>1, GivenUpFacts
<1>3. /\ onDisk' \in Int /\ pending' \in Nat
      /\ onDisk' - pending' = onDisk - pending - one(handler[h].inputs)
      /\ faults' \in {faults, faults + 1}
  BY <1>1, CleanupFacts
<1>4. HandlerEffect(h)
  BY <1>2, <1>3 DEF HandlerEffect
<1>5. StagingTypeOK'
  BY <1>1, <1>3 DEF StagingTypeOK
<1>6. Balance(h)
  <2>1. one(handler'[h].inputs) = 0 /\ one(owns_thread(handler'[h])) = one(dedicated(h))
    BY <1>2 DEF one
  <2>2. \A b : one(b) \in Int
    BY DEF one
  <2> HIDE DEF one
  <2> QED
    BY <1>1, <1>3, <2>1, <2>2 DEF Balance, StagingTypeOK
<1> QED
  BY <1>2, <1>4, <1>5, <1>6 DEF Keeps

\* DiscordTaskService.start keeps the task's files and threads owned, whichever way it ends.
LEMMA StartKeeps ==
  ASSUME SurfaceInv, NEW h \in Handlers, handler[h].at \in {"thread", "stage"}, NEW n \in Int,
         n = threads + one(dedicated(h)) - one(owns_thread(handler[h])), start(h, n),
         UNCHANGED <<displayVars, outer, closing, stranded>>
  PROVE  Keeps(h)
<1>1. /\ StagingTypeOK /\ faults \in Nat /\ handler[h].inputs \in BOOLEAN /\ SurfaceTypeOK
      /\ QueueInv /\ RunnerInv /\ handler[h] \in Event /\ handler[h].trigger \in Triggers
  BY HandlerFacts
<1>2. h \notin Range(outer)
  BY <1>1, NotQueued
<1> DEFINE e == handler[h]
<1>3. CASE cleanup(e.inputs) /\ given_up(h, FALSE) /\ threads' = n
           /\ UNCHANGED <<task, created, runner, left>>
  BY <1>2, <1>3, FailureKeeps
<1>4. CASE /\ cleanup(e.inputs) /\ ends(h) /\ threads' = n
           /\ left' = left + one(dedicated(h))
           /\ UNCHANGED <<task, created, runner>>
  <2>1. /\ handler' \in [Handlers -> Event]
        /\ \A g \in Handlers : g # h => handler'[g] = handler[g]
        /\ ~handler'[h].inputs /\ ~owns_thread(handler'[h]) /\ Orderly(handler'[h])
    BY <1>1, <1>4, EndsFacts, NoEventFacts
  <2>2. /\ onDisk' \in Int /\ pending' \in Nat
        /\ onDisk' - pending' = onDisk - pending - one(e.inputs)
        /\ faults' \in {faults, faults + 1}
    BY <1>1, <1>4, CleanupFacts
  <2>3. one(handler'[h].inputs) = 0 /\ one(owns_thread(handler'[h])) = 0
    BY <2>1 DEF one
  <2>4. \A b : one(b) \in Nat
    BY DEF one
  <2>5. StagingTypeOK'
    BY <1>1, <1>4, <2>2, <2>4 DEF StagingTypeOK
  <2>6. Balance(h)
    BY <1>1, <1>4, <2>2, <2>3, <2>4 DEF Balance, StagingTypeOK
  <2>7. HandlerEffect(h)
    BY <1>2, <1>4, <2>1, <2>2 DEF HandlerEffect
  <2> QED
    BY <2>1, <2>5, <2>6, <2>7 DEF Keeps
<1>5. CASE /\ ~is_closed /\ ends(h)
           /\ threads' = n - one(dedicated(h))
           /\ UNCHANGED <<pending, faults, left>>
           /\ IF created = None
                THEN /\ created' = e.trigger
                     /\ task' = new_task(h)
                     /\ runner' = spawned("new", e.inputs)
                     /\ UNCHANGED onDisk
                ELSE /\ onDisk' = onDisk - one(e.inputs)
                     /\ UNCHANGED <<created, task, runner>>
  <2>1. /\ handler' \in [Handlers -> Event]
        /\ \A g \in Handlers : g # h => handler'[g] = handler[g]
        /\ ~handler'[h].inputs /\ ~owns_thread(handler'[h]) /\ Orderly(handler'[h])
    BY <1>1, <1>5, EndsFacts, NoEventFacts
  <2>2. one(handler'[h].inputs) = 0 /\ one(owns_thread(handler'[h])) = 0
    BY <2>1 DEF one
  <2>3. \A b : one(b) \in Nat
    BY DEF one
  <2>4. /\ onDisk' \in Int
        /\ onDisk' - one(runner.inputs)' = onDisk - one(runner.inputs) - one(e.inputs)
    <3>1. CASE created = None
      <4>1. runner.inputs = FALSE
        BY <1>1, <3>1 DEF RunnerInv, NoRunner
      <4>2. runner'.inputs = e.inputs /\ onDisk' = onDisk
        BY <1>1, <1>5, <3>1, NoRunnerFacts
      <4> QED
        BY <1>1, <4>1, <4>2 DEF StagingTypeOK, one
    <3>2. CASE created # None
      BY <1>1, <1>5, <3>2, <2>3 DEF StagingTypeOK
    <3> QED
      BY <3>1, <3>2
  <2>5. StagingTypeOK'
    BY <1>1, <1>5, <2>3, <2>4 DEF StagingTypeOK
  <2>6. Balance(h)
    BY <1>1, <1>5, <2>2, <2>3, <2>4 DEF Balance, StagingTypeOK
  <2>7. UNCHANGED <<task, runner, created>> \/ Starts
    BY <1>1, <1>5, NewTask DEF Starts
  <2>8. HandlerEffect(h)
    BY <1>1, <1>2, <1>5, <2>1, <2>7 DEF HandlerEffect
  <2> QED
    BY <2>1, <2>5, <2>6, <2>8 DEF Keeps
<1> QED
  BY <1>3, <1>4, <1>5 DEF start

\* A handler that goes on, or ends, and leaves the task, the files and the threads alone.
LEMMA GoingKeeps ==
  ASSUME SurfaceInv, NEW h \in Handlers, h \notin Range(outer), ~handler[h].inputs,
         handler[h].what \notin {"slash", "context"},
         ends(h) \/ \E stage \in HandlerStages \ {"thread", "stage", "remove"} : goes(h, stage),
         UNCHANGED <<displayVars, task, outer, created, runner, closing, stagingVars, faults,
                     threads, left>>
  PROVE  Keeps(h)
<1>1. /\ StagingTypeOK /\ SurfaceTypeOK /\ handler[h] \in Event
  BY HandlerFacts
<1>2. /\ handler' \in [Handlers -> Event]
      /\ \A g \in Handlers : g # h => handler'[g] = handler[g]
      /\ ~handler'[h].inputs /\ ~owns_thread(handler'[h]) /\ Orderly(handler'[h])
  <2>1. CASE ends(h)
    BY <1>1, <2>1, EndsFacts, NoEventFacts
  <2>2. CASE \E stage \in HandlerStages \ {"thread", "stage", "remove"} : goes(h, stage)
    BY <1>1, <2>2, GoesFacts DEF Orderly, owns_thread
  <2> QED
    BY <2>1, <2>2
<1>3. one(handler'[h].inputs) = one(handler[h].inputs)
      /\ one(owns_thread(handler'[h])) = one(owns_thread(handler[h]))
  BY <1>2 DEF one, owns_thread
<1>4. StagingTypeOK' /\ Balance(h)
  BY <1>1, <1>3 DEF StagingTypeOK, Balance, stagingVars
<1>5. HandlerEffect(h)
  BY <1>1, <1>2 DEF HandlerEffect, SurfaceTypeOK
<1> QED
  BY <1>2, <1>4, <1>5 DEF Keeps

\* The thread exists: its task starts, its files are staged, or it is left or to be removed.
LEMMA ThreadCreatedKeeps ==
  ASSUME SurfaceInv, NEW h \in Handlers, ThreadCreated(h)
  PROVE  Keeps(h)
<1>1. /\ StagingTypeOK /\ faults \in Nat /\ SurfaceTypeOK /\ QueueInv
      /\ handler[h] \in Event /\ Orderly(handler[h]) /\ handler[h].at = "thread"
      /\ handler[h].trigger \in Triggers
  BY HandlerFacts DEF ThreadCreated
<1>2. h \notin Range(outer) /\ ~owns_thread(handler[h]) /\ ~handler[h].inputs
  BY <1>1, NotQueued DEF owns_thread, Orderly
<1>3. /\ UNCHANGED <<displayVars, outer, closing, stranded>>
      /\ threads \in Int /\ left \in Nat /\ onDisk \in Int /\ pending \in Nat /\ stranded \in Nat
  BY <1>1 DEF ThreadCreated, StagingTypeOK
<1>4. CASE handler[h].what = "slash" /\ start(h, threads + 1)
  <2>1. threads + 1 = threads + one(dedicated(h)) - one(owns_thread(handler[h]))
    BY <1>2, <1>3, <1>4 DEF one, dedicated
  <2> QED
    BY <1>1, <1>3, <1>4, <2>1, StartKeeps
<1>5. CASE /\ ends(h) /\ threads' = threads + 1 /\ left' = left + 1
           /\ UNCHANGED <<task, created, started, runner, onDisk, pending, faults>>
  <2>1. /\ handler' \in [Handlers -> Event]
        /\ \A g \in Handlers : g # h => handler'[g] = handler[g]
        /\ ~handler'[h].inputs /\ ~owns_thread(handler'[h]) /\ Orderly(handler'[h])
    BY <1>1, <1>5, EndsFacts, NoEventFacts
  <2>2. StagingTypeOK' /\ Balance(h)
    BY <1>2, <1>3, <1>5, <2>1 DEF StagingTypeOK, Balance, one
  <2>3. HandlerEffect(h)
    BY <1>1, <1>2, <1>3, <1>5, <2>1 DEF HandlerEffect
  <2> QED
    BY <2>1, <2>2, <2>3 DEF Keeps
<1>6. ASSUME NEW attached \in BOOLEAN, handler[h].what = "context",
             handler' = [handler EXCEPT ![h].at = "stage", ![h].inputs = attached],
             threads' = threads + 1, staging(attached),
             UNCHANGED <<task, created, started, runner, pending, faults, left>>
      PROVE  Keeps(h)
  <2>1. /\ handler' \in [Handlers -> Event]
        /\ \A g \in Handlers : g # h => handler'[g] = handler[g]
        /\ handler'[h].inputs = attached /\ handler'[h].at = "stage"
        /\ handler'[h].what = "context" /\ handler'[h].trigger = handler[h].trigger
    BY <1>1, <1>6 DEF SurfaceTypeOK, Event, HandlerStages
  <2>2. Orderly(handler'[h]) /\ owns_thread(handler'[h])
    BY <1>1, <2>1 DEF Orderly, owns_thread
  <2>3. StagingTypeOK' /\ Balance(h)
    BY <1>2, <1>3, <1>6, <2>1, <2>2 DEF StagingTypeOK, Balance, staging, one
  <2>4. HandlerEffect(h)
    BY <1>1, <1>2, <1>3, <1>6, <2>1 DEF HandlerEffect
  <2> QED
    BY <2>1, <2>2, <2>3, <2>4 DEF Keeps
<1> QED
  BY <1>4, <1>5, <1>6 DEF ThreadCreated

\* Discord refuses the thread, or makes one that nobody knows how to use.
LEMMA ThreadRefusedKeeps ==
  ASSUME SurfaceInv, NEW h \in Handlers, ThreadRefused(h)
  PROVE  Keeps(h)
<1>1. /\ StagingTypeOK /\ faults \in Nat /\ SurfaceTypeOK /\ QueueInv
      /\ handler[h] \in Event /\ Orderly(handler[h]) /\ handler[h].at = "thread"
  BY HandlerFacts DEF ThreadRefused
<1>2. h \notin Range(outer) /\ ~owns_thread(handler[h]) /\ ~handler[h].inputs
  BY <1>1, NotQueued DEF owns_thread, Orderly
<1>3. /\ handler' \in [Handlers -> Event]
      /\ \A g \in Handlers : g # h => handler'[g] = handler[g]
      /\ ~handler'[h].inputs /\ ~owns_thread(handler'[h]) /\ Orderly(handler'[h])
  BY <1>1, EndsFacts, NoEventFacts DEF ThreadRefused
<1>4. /\ onDisk' = onDisk /\ pending' = pending /\ stranded' = stranded /\ runner' = runner
      /\ \/ threads' = threads /\ left' = left
         \/ threads' = threads + 1 /\ left' = left + 1
  BY DEF ThreadRefused, stagingVars
<1>5. StagingTypeOK' /\ Balance(h)
  BY <1>1, <1>2, <1>3, <1>4 DEF StagingTypeOK, Balance, one
<1>6. HandlerEffect(h)
  BY <1>1, <1>2, <1>3 DEF HandlerEffect, ThreadRefused, cardVars, displayVars
<1> QED
  BY <1>3, <1>5, <1>6 DEF Keeps

\* A follow-up is on its way to the agent with its files, or refused and cleaned up.
LEMMA SteerKeeps ==
  ASSUME SurfaceInv, NEW h \in Handlers, handler[h].at \in {"stage", "modal"},
         handler[h].what \notin {"slash", "context"}, steer(h),
         UNCHANGED <<displayVars, outer, closing, stranded>>
  PROVE  Keeps(h)
<1>1. /\ StagingTypeOK /\ faults \in Nat /\ SurfaceTypeOK /\ QueueInv
      /\ handler[h] \in Event /\ Orderly(handler[h]) /\ handler[h].inputs \in BOOLEAN
  BY HandlerFacts
<1>2. h \notin Range(outer) /\ ~owns_thread(handler[h]) /\ ~dedicated(h)
  BY <1>1, NotQueued DEF owns_thread, dedicated
<1>3. CASE goes(h, "steering") /\ UNCHANGED <<onDisk, pending, faults>>
  <2>1. "steering" \in HandlerStages
    BY DEF HandlerStages
  <2>2. /\ handler' \in [Handlers -> Event]
        /\ \A g \in Handlers : g # h => handler'[g] = handler[g]
        /\ handler'[h].inputs = handler[h].inputs /\ ~owns_thread(handler'[h])
        /\ Orderly(handler'[h])
    BY <1>1, <1>2, <1>3, <2>1, GoesFacts DEF Orderly, owns_thread
  <2>3. StagingTypeOK' /\ Balance(h)
    BY <1>1, <1>2, <1>3, <2>2 DEF StagingTypeOK, Balance, one, steer
  <2>4. HandlerEffect(h)
    BY <1>1, <1>2, <1>3, <2>2 DEF HandlerEffect, steer
  <2> QED
    BY <2>2, <2>3, <2>4 DEF Keeps
<1>4. CASE cleanup(handler[h].inputs) /\ ends(h)
  <2>1. given_up(h, FALSE)
    BY <1>2, <1>4 DEF given_up
  <2>2. threads \in Int /\ threads = threads + one(dedicated(h)) - one(owns_thread(handler[h]))
    BY <1>1, <1>2 DEF one, StagingTypeOK
  <2> QED
    BY <1>2, <1>4, <2>1, <2>2, FailureKeeps DEF steer
<1> QED
  BY <1>3, <1>4 DEF steer

\* The staged files go on to the task that is started, or along with the follow-up.
LEMMA StagedKeeps ==
  ASSUME SurfaceInv, NEW h \in Handlers, Staged(h)
  PROVE  Keeps(h)
<1>1. /\ handler[h].at = "stage"
      /\ UNCHANGED <<displayVars, outer, closing, stranded>>
      /\ IF handler[h].what = "steer" THEN steer(h) ELSE start(h, threads)
  BY DEF Staged
<1>2. CASE handler[h].what = "steer"
  BY <1>1, <1>2, SteerKeeps
<1>3. CASE handler[h].what # "steer"
  <2>1. threads \in Int /\ threads = threads + one(dedicated(h)) - one(owns_thread(handler[h]))
    BY <1>1, HandlerFacts DEF one, StagingTypeOK, dedicated, owns_thread
  <2> QED
    BY <1>1, <1>3, <2>1, StartKeeps
<1> QED
  BY <1>2, <1>3

\* What was staged for a request that fails is cleaned up, and its thread is to be removed.
LEMMA StageFailsKeeps ==
  ASSUME SurfaceInv, NEW h \in Handlers, StageFails(h)
  PROVE  Keeps(h)
<1>1. /\ QueueInv /\ StagingTypeOK /\ handler[h].at = "stage"
      /\ handler[h].inputs = TRUE
  BY HandlerFacts DEF StageFails
<1>2. threads \in Int /\ threads = threads + one(dedicated(h)) - one(owns_thread(handler[h]))
  BY <1>1 DEF one, StagingTypeOK, dedicated, owns_thread
<1>3. h \notin Range(outer)
  BY <1>1, NotQueued
<1> QED
  BY <1>1, <1>2, <1>3, FailureKeeps DEF StageFails

\* An invalid request cleans its files up at once, or takes them along to the removal of its
\* thread.
LEMMA RequestInvalidKeeps ==
  ASSUME SurfaceInv, NEW h \in Handlers, RequestInvalid(h)
  PROVE  Keeps(h)
<1>1. /\ QueueInv /\ StagingTypeOK /\ SurfaceTypeOK /\ handler[h].at = "stage"
      /\ handler[h].inputs \in BOOLEAN /\ handler[h] \in Event /\ faults \in Nat
      /\ Orderly(handler[h])
  BY HandlerFacts DEF RequestInvalid
<1>2. threads \in Int /\ threads = threads + one(dedicated(h)) - one(owns_thread(handler[h]))
  BY <1>1 DEF one, StagingTypeOK, dedicated, owns_thread
<1>3. h \notin Range(outer)
  BY <1>1, NotQueued
<1>4. CASE dedicated(h)
  <2>1. given_up(h, handler[h].inputs) /\ UNCHANGED <<onDisk, pending, faults>>
    BY <1>4 DEF RequestInvalid
  <2>2. handler[h].what \in {"slash", "context"}
    BY <1>4 DEF dedicated
  <2>3. handler[h].what \in {"start", "steer", "context"} \/ ~handler[h].inputs
    BY <1>1 DEF Orderly
  <2>4. /\ handler' \in [Handlers -> Event]
        /\ \A g \in Handlers : g # h => handler'[g] = handler[g]
        /\ handler'[h].inputs = handler[h].inputs
        /\ owns_thread(handler'[h]) /\ Orderly(handler'[h])
    BY <1>1, <1>4, <2>1, <2>2, <2>3, GivenUpFacts
  <2>5. owns_thread(handler[h])
    BY <1>1, <2>2 DEF owns_thread
  <2>6. StagingTypeOK' /\ Balance(h)
    BY <1>1, <2>1, <2>4, <2>5 DEF StagingTypeOK, Balance, one, RequestInvalid
  <2>7. HandlerEffect(h)
    BY <1>1, <1>3, <2>1, <2>4 DEF HandlerEffect, RequestInvalid
  <2> QED
    BY <2>4, <2>6, <2>7 DEF Keeps
<1>5. CASE ~dedicated(h)
  <2>1. cleanup(handler[h].inputs) /\ given_up(h, FALSE)
    BY <1>5 DEF RequestInvalid, given_up
  <2> QED
    BY <1>2, <1>3, <2>1, FailureKeeps DEF RequestInvalid
<1> QED
  BY <1>4, <1>5

\* With the removal of its thread a request is over, whether Discord removes it or not.
LEMMA ThreadRemovedKeeps ==
  ASSUME SurfaceInv, NEW h \in Handlers, ThreadRemoved(h)
  PROVE  Keeps(h)
<1>1. /\ QueueInv /\ StagingTypeOK /\ SurfaceTypeOK /\ handler[h].at = "remove"
      /\ handler[h].inputs \in BOOLEAN /\ handler[h] \in Event /\ faults \in Nat
      /\ Orderly(handler[h])
  BY HandlerFacts DEF ThreadRemoved
<1>2. h \notin Range(outer)
  BY <1>1, NotQueued
<1>3. /\ handler' \in [Handlers -> Event]
      /\ \A g \in Handlers : g # h => handler'[g] = handler[g]
      /\ ~handler'[h].inputs /\ ~owns_thread(handler'[h]) /\ Orderly(handler'[h])
  BY <1>1, EndsFacts, NoEventFacts DEF ThreadRemoved
<1>4. /\ onDisk' \in Int /\ pending' \in Nat
      /\ onDisk' - pending' = onDisk - pending - one(handler[h].inputs)
      /\ faults' \in {faults, faults + 1}
  BY <1>1, CleanupFacts DEF ThreadRemoved
<1>5. owns_thread(handler[h])
  BY <1>1 DEF owns_thread, Orderly
<1>6. /\ UNCHANGED <<displayVars, task, outer, created, runner, closing, stranded>>
      /\ \/ threads' = threads - 1 /\ left' = left
         \/ left' = left + 1 /\ threads' = threads
  BY DEF ThreadRemoved
<1>7. one(handler'[h].inputs) = 0 /\ one(owns_thread(handler'[h])) = 0
      /\ one(owns_thread(handler[h])) = 1
  BY <1>3, <1>5 DEF one
<1>8. \A b : one(b) \in Nat
  BY DEF one
<1>9. StagingTypeOK' /\ Balance(h)
  BY <1>1, <1>4, <1>6, <1>7, <1>8 DEF StagingTypeOK, Balance
<1>10. HandlerEffect(h)
  BY <1>2, <1>3, <1>4, <1>6 DEF HandlerEffect
<1> QED
  BY <1>3, <1>9, <1>10 DEF Keeps

\* A handler that asks for a render, after what it may have done to the task.
LEMMA RenderKeeps ==
  ASSUME SurfaceInv, NEW h \in Handlers, h \notin Range(outer), ~handler[h].inputs,
         handler[h].what \notin {"slash", "context"},
         NEW stage \in {"render", "refresh"}, goes(h, stage), render(h),
         UNCHANGED <<task, runner, created>> \/ Edits \/ Retries,
         UNCHANGED <<displayVars, closing, stagingVars, faults, threads, left>>
  PROVE  Keeps(h)
<1>1. /\ StagingTypeOK /\ SurfaceTypeOK /\ handler[h] \in Event /\ stage \in HandlerStages
  BY HandlerFacts DEF HandlerStages
<1>2. /\ handler' \in [Handlers -> Event]
      /\ \A g \in Handlers : g # h => handler'[g] = handler[g]
      /\ handler'[h].at = stage
      /\ ~handler'[h].inputs /\ ~owns_thread(handler'[h]) /\ Orderly(handler'[h])
  BY <1>1, GoesFacts DEF Orderly, owns_thread
<1>3. one(handler'[h].inputs) = one(handler[h].inputs)
      /\ one(owns_thread(handler'[h])) = one(owns_thread(handler[h]))
  BY <1>2 DEF one, owns_thread
<1>4. one(runner'.inputs) = one(runner.inputs)
  <2>1. CASE Retries
    <3>1. ~runner.inputs /\ ~runner'.inputs
      BY <2>1, NoRunnerFacts DEF Retries, NoRunner
    <3> QED
      BY <3>1 DEF one
  <2> QED
    BY <2>1 DEF Edits
<1>5. StagingTypeOK' /\ Balance(h)
  BY <1>1, <1>3, <1>4 DEF StagingTypeOK, Balance, stagingVars
<1>6. HandlerEffect(h)
  BY <1>1, <1>2 DEF HandlerEffect, SurfaceTypeOK, Asks, render
<1> QED
  BY <1>2, <1>5, <1>6 DEF Keeps

\* A handler that has done its work asks for a render or ends.
LEMMA RefreshKeeps ==
  ASSUME SurfaceInv, NEW h \in Handlers, h \notin Range(outer), ~handler[h].inputs,
         handler[h].what \notin {"slash", "context"}, refresh(h),
         UNCHANGED <<task, runner, created>>,
         UNCHANGED <<displayVars, closing, stagingVars, faults, threads, left>>
  PROVE  Keeps(h)
<1>1. \/ ends(h) /\ UNCHANGED outer
      \/ goes(h, "refresh") /\ render(h)
  BY DEF refresh
<1> QED
  BY <1>1, GoingKeeps, RenderKeeps

\* The agent has the follow-up, and its files are cleaned up.
LEMMA SteeredKeeps ==
  ASSUME SurfaceInv, NEW h \in Handlers, Steered(h)
  PROVE  Keeps(h)
<1>1. /\ QueueInv /\ StagingTypeOK /\ handler[h].at = "steering"
      /\ handler[h].inputs \in BOOLEAN /\ Orderly(handler[h])
      /\ UNCHANGED <<displayVars, task, created, runner, closing, stranded, threads, left>>
  BY HandlerFacts DEF Steered
<1>2. h \notin Range(outer) /\ ~dedicated(h) /\ ~owns_thread(handler[h])
  BY <1>1, NotQueued DEF Orderly, dedicated, owns_thread
<1>3. CASE ends(h) /\ UNCHANGED outer
  <2>1. cleanup(handler[h].inputs) /\ given_up(h, FALSE)
    BY <1>2, <1>3 DEF Steered, given_up
  <2>2. threads \in Int /\ threads = threads + one(dedicated(h)) - one(owns_thread(handler[h]))
    BY <1>1, <1>2 DEF one, StagingTypeOK
  <2> QED
    BY <1>1, <1>2, <1>3, <2>1, <2>2, FailureKeeps
<1>4. CASE goes(h, "refresh") /\ render(h) /\ handler[h].what \notin {"start", "steer", "halt"}
  <2>1. ~handler[h].inputs /\ handler[h].what \notin {"slash", "context"}
    BY <1>1, <1>4 DEF Orderly
  <2>2. UNCHANGED <<stagingVars, faults>>
    BY <1>1, <2>1 DEF Steered, cleanup, one, StagingTypeOK, stagingVars
  <2> QED
    BY <1>1, <1>2, <1>4, <2>1, <2>2, RenderKeeps
<1> QED
  BY <1>3, <1>4 DEF Steered, refresh

\* DiscordTaskActions.stop claims the task or leaves it.
LEMMA StopKeeps ==
  ASSUME SurfaceInv, NEW h \in Handlers, handler[h].at = "access", stop(h),
         UNCHANGED <<displayVars, outer, faults, created, runner, closing, stagingVars, threads,
                     left>>
  PROVE  Keeps(h)
<1>1. /\ StagingTypeOK /\ SurfaceTypeOK /\ QueueInv /\ handler[h] \in Event
      /\ Orderly(handler[h])
      /\ {"interrupt", "interrupt_again"} \subseteq HandlerStages \ {"thread", "stage", "remove"}
  BY HandlerFacts DEF HandlerStages
<1>2. h \notin Range(outer) /\ ~handler[h].inputs /\ handler[h].what \notin {"slash", "context"}
  BY <1>1, NotQueued DEF Orderly
<1>3. CASE UNCHANGED task /\ goes(h, "interrupt_again")
  BY <1>1, <1>2, <1>3, GoingKeeps
<1>4. CASE /\ ~is_closed /\ task # None /\ task.state \in {"recovering", "starting", "running"}
           /\ persist(claim_stop(task, 0)) /\ goes(h, "interrupt")
  <2>1. /\ handler' \in [Handlers -> Event]
        /\ \A g \in Handlers : g # h => handler'[g] = handler[g]
        /\ ~handler'[h].inputs /\ ~owns_thread(handler'[h]) /\ Orderly(handler'[h])
    BY <1>1, <1>2, <1>4, GoesFacts DEF Orderly, owns_thread
  <2>2. one(handler'[h].inputs) = one(handler[h].inputs)
        /\ one(owns_thread(handler'[h])) = one(owns_thread(handler[h]))
    BY <1>2, <2>1 DEF one, owns_thread
  <2>3. StagingTypeOK' /\ Balance(h)
    BY <1>1, <2>2 DEF StagingTypeOK, Balance, stagingVars
  <2>4. Stops
    <3>1. task \in Record /\ is_active(task)
      BY <1>1, <1>4 DEF SurfaceTypeOK, is_active, ACTIVE_STATES
    <3>2. task.revision + 1 \in Nat
      BY <3>1 DEF Record
    <3> DEFINE c == claim_stop(task, 0)
    <3>3. c \in Record /\ c.state = "stopping" /\ c.attempt = task.attempt
      BY <3>1, ActiveUpdates
    <3>4. task' = [c EXCEPT !.revision = task.revision + 1]
      BY <1>4 DEF persist
    <3> HIDE DEF c
    <3> QED
      BY <1>4, <3>2, <3>3, <3>4, Revised DEF Stops
  <2>5. HandlerEffect(h)
    BY <1>1, <1>2, <2>1, <2>4 DEF HandlerEffect, SurfaceTypeOK
  <2> QED
    BY <2>1, <2>3, <2>5 DEF Keeps
<1> QED
  BY <1>3, <1>4 DEF stop

\* What a button does once access is resolved: a stop, a retry that waits, or nothing yet.
LEMMA AccessedKeeps ==
  ASSUME SurfaceInv, NEW h \in Handlers, Accessed(h)
  PROVE  Keeps(h)
<1>1. /\ StagingTypeOK /\ SurfaceTypeOK /\ QueueInv /\ handler[h] \in Event
      /\ Orderly(handler[h]) /\ handler[h].at = "access"
      /\ {"idle", "modal"} \subseteq HandlerStages \ {"thread", "stage", "remove"}
      /\ UNCHANGED <<displayVars, faults, created, runner, closing, stagingVars, threads, left>>
  BY HandlerFacts DEF Accessed, HandlerStages
<1>2. h \notin Range(outer) /\ ~handler[h].inputs /\ handler[h].what \notin {"slash", "context"}
  BY <1>1, NotQueued DEF Orderly
<1>3. CASE stop(h) /\ UNCHANGED outer
  BY <1>1, <1>3, StopKeeps
<1>4. CASE refresh(h) /\ UNCHANGED task
  BY <1>1, <1>2, <1>4, RefreshKeeps
<1>5. CASE /\ goes(h, "idle") \/ goes(h, "modal") \/ ends(h)
           /\ UNCHANGED <<task, outer>>
  BY <1>1, <1>2, <1>5, GoingKeeps
<1>6. CASE forget(h) /\ UNCHANGED outer
  <2>1. ends(h) /\ Forgets
    BY <1>1, <1>6 DEF forget, Forgets, Settled
  <2>2. /\ handler' \in [Handlers -> Event]
        /\ \A g \in Handlers : g # h => handler'[g] = handler[g]
        /\ ~handler'[h].inputs /\ ~owns_thread(handler'[h]) /\ Orderly(handler'[h])
    BY <1>1, <2>1, EndsFacts, NoEventFacts
  <2>3. one(handler'[h].inputs) = one(handler[h].inputs)
        /\ one(owns_thread(handler'[h])) = one(owns_thread(handler[h]))
    BY <1>2, <2>2 DEF one, owns_thread
  <2>4. StagingTypeOK' /\ Balance(h)
    BY <1>1, <2>3 DEF StagingTypeOK, Balance, stagingVars
  <2>5. HandlerEffect(h)
    BY <1>1, <1>2, <1>6, <2>1, <2>2 DEF HandlerEffect, SurfaceTypeOK
  <2> QED
    BY <2>2, <2>4, <2>5 DEF Keeps
<1> QED
  BY <1>3, <1>4, <1>5, <1>6 DEF Accessed, refused

\* The modal's instruction goes to the agent, or to another task.
LEMMA ModalSubmittedKeeps ==
  ASSUME SurfaceInv, NEW h \in Handlers, ModalSubmitted(h)
  PROVE  Keeps(h)
<1>1. /\ StagingTypeOK /\ SurfaceTypeOK /\ QueueInv /\ handler[h] \in Event
      /\ Orderly(handler[h]) /\ handler[h].at = "modal"
      /\ UNCHANGED <<displayVars, closing, stranded>>
  BY HandlerFacts DEF ModalSubmitted
<1>2. h \notin Range(outer) /\ ~handler[h].inputs /\ handler[h].what \notin {"slash", "context"}
  BY <1>1, NotQueued DEF Orderly
<1>3. CASE steer(h) /\ UNCHANGED outer
  BY <1>1, <1>2, <1>3, SteerKeeps
<1>4. CASE /\ continue_task(h)
           /\ UNCHANGED <<created, started, runner, onDisk, pending, faults, threads, left>>
  <2>1. /\ ~is_closed /\ task # None /\ task.state = "completed"
        /\ persist([task EXCEPT !.to = 2])
        /\ goes(h, "render") /\ render(h)
    BY <1>4 DEF continue_task
  <2>2. task \in Record /\ task.revision + 1 \in Nat
    BY <1>1, <2>1 DEF SurfaceTypeOK, Record
  <2> DEFINE c == [task EXCEPT !.to = 2]
  <2>3. c \in Record /\ c.state = "completed"
    BY <2>1, <2>2, SameStateUpdates
  <2>4. task' = [c EXCEPT !.revision = task.revision + 1]
    BY <2>1 DEF persist
  <2> HIDE DEF c
  <2>5. task' \in Record /\ task'.state = "completed" /\ task'.revision = task.revision + 1
    BY <2>2, <2>3, <2>4, Revised
  <2>6. task' # None
    BY <2>5, AbsenceAssumption
  <2>7. Edits
    BY <1>4, <2>1, <2>5, <2>6 DEF Edits, Settled, is_active, ACTIVE_STATES
  <2> QED
    BY <1>1, <1>2, <1>4, <2>1, <2>7, RenderKeeps DEF stagingVars
<1>5. CASE /\ refused(h)
           /\ UNCHANGED <<created, started, runner, onDisk, pending, faults, threads, left>>
  BY <1>1, <1>2, <1>5, GoingKeeps DEF refused, stagingVars
<1> QED
  BY <1>3, <1>4, <1>5 DEF ModalSubmitted

\* The stop has reached the agent, and the card is rendered.
LEMMA InterruptedKeeps ==
  ASSUME SurfaceInv, NEW h \in Handlers, Interrupted(h)
  PROVE  Keeps(h)
<1>1. /\ QueueInv /\ Orderly(handler[h]) /\ handler[h].at \in {"interrupt", "interrupt_again"}
      /\ UNCHANGED <<displayVars, task, faults, created, runner, closing, stagingVars, threads,
                     left>>
  BY HandlerFacts DEF Interrupted
<1>2. h \notin Range(outer) /\ ~handler[h].inputs /\ handler[h].what \notin {"slash", "context"}
  BY <1>1, NotQueued DEF Orderly
<1>3. CASE goes(h, "render") /\ render(h)
  BY <1>1, <1>2, <1>3, RenderKeeps
<1>4. CASE refresh(h)
  BY <1>1, <1>2, <1>4, RefreshKeeps
<1>5. CASE ends(h) /\ UNCHANGED outer
  BY <1>1, <1>2, <1>5, GoingKeeps
<1> QED
  BY <1>3, <1>4, <1>5 DEF Interrupted

\* A retry begins when the runner before it is gone, so nothing of the coordinator's is left;
\* one that is refused changes nothing.
LEMMA RetryIdleKeeps ==
  ASSUME SurfaceInv, NEW h \in Handlers, RetryIdle(h)
  PROVE  Keeps(h)
<1>1. /\ SurfaceTypeOK /\ RunnerInv
      /\ QueueInv /\ Orderly(handler[h]) /\ handler[h].at = "idle"
      /\ UNCHANGED <<displayVars, faults, created, closing, stagingVars, threads, left>>
  BY HandlerFacts DEF RetryIdle
<1>2. h \notin Range(outer) /\ ~handler[h].inputs /\ handler[h].what \notin {"slash", "context"}
  BY <1>1, NotQueued DEF Orderly
<1>3. CASE ends(h) /\ UNCHANGED <<task, runner, outer>>
  BY <1>1, <1>2, <1>3, GoingKeeps
<1>4. CASE /\ runner = NoRunner /\ ~is_closed /\ task # None /\ task.failure # None
           /\ retry_delivery \/ retry_session
           /\ goes(h, "render") /\ render(h)
  <2>1. task \in Record /\ task.revision + 1 \in Nat /\ Settled
    BY <1>1, <1>4, StageFacts, NoRunnerFacts DEF SurfaceTypeOK, Record
  <2>2. ASSUME NEW c \in Record, persist(c)
        PROVE  /\ task' \in Record /\ task'.revision = task.revision + 1
               /\ task'.state = c.state /\ task' # None
    BY <2>1, <2>2, Revised, AbsenceAssumption DEF persist
  <2>3. Edits \/ Retries
    <3>1. CASE persist(advance(task, "delivering", 0)) /\ runner' = spawned("sending", FALSE)
      <4>1. advance(task, "delivering", 0) \in Record
            /\ advance(task, "delivering", 0).state = "delivering"
        BY <2>1, RetryUpdates
      <4> QED
        BY <1>1, <1>4, <2>1, <2>2, <3>1, <4>1 DEF Retries
    <3>2. CASE persist(with_failure(task, classify_delivery_failure(FALSE), 0)) /\ UNCHANGED runner
      <4>1. with_failure(task, classify_delivery_failure(FALSE), 0) \in Record
            /\ with_failure(task, classify_delivery_failure(FALSE), 0).state = task.state
        BY <2>1, FailureTypes, SameStateUpdates
      <4>2. Edits
        BY <1>1, <1>4, <2>1, <2>2, <3>2, <4>1 DEF Edits, Settled, is_active
      <4> QED
        BY <4>2
    <3>3. CASE persist(advance(task, "recovering", 0)) /\ runner' = spawned("recovering", FALSE)
      <4>1. advance(task, "recovering", 0) \in Record
            /\ advance(task, "recovering", 0).state = "recovering"
        BY <2>1, RetryUpdates
      <4> QED
        BY <1>1, <1>4, <2>1, <2>2, <3>3, <4>1 DEF Retries
    <3> QED
      BY <1>4, <3>1, <3>2, <3>3 DEF retry_delivery, retry_session
  <2> QED
    BY <1>1, <1>2, <1>4, <2>3, RenderKeeps
<1> QED
  BY <1>3, <1>4 DEF RetryIdle

\* A render that a handler waits for is over: it asks for the next one or ends.
LEMMA RenderedKeeps ==
  ASSUME SurfaceInv, NEW h \in Handlers, Rendered(h)
  PROVE  Keeps(h)
<1>1. /\ QueueInv /\ Orderly(handler[h]) /\ handler[h].at \in {"render", "refresh"}
      /\ ~rendering(h)
      /\ UNCHANGED <<displayVars, task, faults, created, runner, closing, stagingVars, threads,
                     left>>
  BY HandlerFacts DEF Rendered
<1>2. h \notin Range(outer) /\ ~handler[h].inputs /\ handler[h].what \notin {"slash", "context"}
  BY <1>1, NotQueued DEF Orderly
<1>3. CASE refresh(h)
  BY <1>1, <1>2, <1>3, RefreshKeeps
<1>4. CASE ends(h) /\ UNCHANGED outer
  BY <1>1, <1>2, <1>4, GoingKeeps
<1> QED
  BY <1>3, <1>4 DEF Rendered

\* Handlers keep the invariant, and the card as it is.
LEMMA HandlerStepKeeps ==
  ASSUME SurfaceInv, NEW h \in Handlers, HandlerStep(h)
  PROVE  SurfaceInv' /\ shown' = shown
<1>1. Keeps(h)
  BY MentionKeeps, MentionStopKeeps, CommandKeeps, ClickKeeps, ThreadCreatedKeeps,
     ThreadRefusedKeeps, StagedKeeps, StageFailsKeeps, RequestInvalidKeeps, ThreadRemovedKeeps,
     SteeredKeeps, AccessedKeeps, ModalSubmittedKeeps, InterruptedKeeps, RetryIdleKeeps,
     RenderedKeeps, Zenon DEF HandlerStep
<1> QED
  BY <1>1, HandlerKeeps DEF Keeps, HandlerEffect, displayVars

----------------------------------------------------------------------------
(* The runner's steps.                                                     *)

\* The owners of files and threads stay the same.
LEMMA OwnersStay ==
  ASSUME HandlerInv, UNCHANGED <<handler, threads, left>>, runner'.inputs = runner.inputs,
         UNCHANGED stagingVars
  PROVE  HandlerInv'
BY DEF HandlerInv, NothingLeftBehind, InputsHaveOwner, ThreadsHaveTasks, InputOwners,
   ThreadOwners, dedicated, stagingVars

\* A caller that does not stand in the runtime's queue edits nothing.
LEMMA NotEditing ==
  ASSUME SurfaceTypeOK, QueueInv, NEW c \in {"runner"} \cup Handlers, c \notin Range(outer)
  PROVE  c \notin Range(inner) /\ view[c] = None /\ c \in Callers
<1>1. ~first(outer, c)
  BY TailFacts DEF first, QueueInv, SurfaceTypeOK
<1>2. c \notin Flushes /\ c \in Callers
  BY MessengerAssumption DEF Callers
<1>3. c \notin Range(inner)
  BY <1>1, <1>2 DEF QueueInv
<1>4. first(inner, c) => c \in Range(inner)
  BY TailFacts DEF first, QueueInv, SurfaceTypeOK
<1> QED
  BY <1>2, <1>3, <1>4 DEF QueueInv

\* The runner leaves the record in a state that belongs to its next await, and asks for a render
\* of a record that it has settled.
Runs ==
  /\ UNCHANGED <<displayVars, closing, faults, created, handler, stagingVars, threads, left>>
  /\ runner.at # "none" /\ "runner" \notin Range(outer)
  /\ runner' \in Runner /\ runner'.inputs = runner.inputs
  /\ \/ task' = task
     \/ /\ task \in Record /\ task' \in Record /\ task'.revision >= task.revision
        /\ is_active(task') => is_active(task) /\ task'.attempt = task.attempt
  /\ task' # None => task'.state \in StatesAt(runner'.at)
  /\ \/ UNCHANGED outer
     \/ Asks("runner") /\ runner'.at \in {"begin", "context", "last"}
  /\ runner'.at \notin {"none", "new"}
  /\ runner'.at \notin {"enrich", "last"} => task' # None
  /\ runner'.at \in {"create", "begin"} => runner.at \in {"new", "create"}
  /\ runner'.at = "create" => /\ ~card /\ runner'.read \in Record
                              /\ runner'.read.revision <= task'.revision
  /\ runner'.at = "enrich" => runner'.error \in Errors
  /\ runner'.at = "ask" => runner.at = "context"
  /\ runner'.at = "context" => Asks("runner")
  /\ Settled' => \/ runner'.at = "enrich"
                 \/ runner'.at = "last" /\ Asks("runner")

\* Then the invariant is kept.
LEMMA RunsKeep ==
  ASSUME SurfaceInv, Runs
  PROVE  SurfaceInv'
<1>1. /\ SurfaceTypeOK /\ QueueInv /\ RunnerInv /\ HandlerInv /\ ProgressInv /\ AttemptInv
      /\ NewestInv /\ FinalInv /\ OrderInv
  BY DEF SurfaceInv
<1>2. UNCHANGED <<displayVars, closing>> /\ is_closed' = is_closed /\ ~is_closed
  BY <1>1, NoRunnerFacts DEF Runs, is_closed, RunnerInv
<1>3. /\ QueueInv' /\ outer' \in Seq({"runner"} \cup Handlers)
      /\ Range(outer) \subseteq Range(outer')
      /\ Asks("runner") => Range(outer') = Range(outer) \cup {"runner"}
  <2>1. \/ UNCHANGED outer
        \/ \E c \in {"runner"} \cup Handlers : Asks(c)
    BY DEF Runs
  <2>2. \/ UNCHANGED outer
        \/ Range(outer') = Range(outer) \cup {"runner"} /\ runner'.at \in {"begin", "context", "last"}
    <3>1. outer \in Seq({"runner"} \cup Handlers)
      BY <1>1 DEF SurfaceTypeOK
    <3>2. Asks("runner") => Range(outer') = Range(outer) \cup {"runner"}
      BY <3>1, AppendRange DEF Asks
    <3> QED
      BY <3>2 DEF Runs
  <2>3. ASSUME NEW g \in Handlers, g \in Range(outer')
        PROVE  handler'[g].at \in {"render", "refresh"}
    <3>1. g # "runner"
      BY MessengerAssumption
    <3>2. g \in Range(outer)
      BY <2>2, <2>3, <3>1
    <3> QED
      BY <1>1, <3>2 DEF Runs, QueueInv
  <2>4. "runner" \in Range(outer') => runner'.at \in {"begin", "context", "last"}
    BY <2>2 DEF Runs
  <2> QED
    BY <1>1, <1>2, <2>1, <2>3, <2>4, QueuesKeep DEF displayVars
<1>4. SurfaceTypeOK'
  BY <1>1, <1>2, <1>3 DEF Runs, SurfaceTypeOK, StagingTypeOK, stagingVars, displayVars
<1>5. RunnerInv'
  <2>1. created # None
    BY <1>1, NoRunnerFacts DEF Runs, RunnerInv
  <2>2. runner'.at \in {"new", "create", "begin"} =>
          entry = None /\ \A f \in Flushes : flush[f] = NoFlush
    BY <1>1 DEF Runs, RunnerInv
  <2>3. ~card => shown = None /\ entry = None
    BY <1>1 DEF RunnerInv
  <2> QED
    BY <1>2, <2>1, <2>2, <2>3 DEF Runs, RunnerInv, displayVars
<1>6. QuietStep
  <2>1. view["runner"] = None /\ "runner" \in Callers
    BY <1>1, NotEditing DEF Runs
  <2>2. task' # None => IF task = None THEN ~card ELSE task'.revision >= task.revision
    <3>1. task = task' \/ task \in Record
      BY DEF Runs
    <3>2. task = None => task' = None
      BY <3>1, AbsenceAssumption DEF Runs
    <3>3. task # None => task \in Record
      BY <1>1 DEF SurfaceTypeOK
    <3> QED
      BY <3>1, <3>2, <3>3 DEF Runs, Record
  <2>3. faults' >= faults
    BY <1>1 DEF Runs, SurfaceTypeOK
  <2>4. entry # None /\ task' # None /\ is_active(task') =>
          task # None /\ is_active(task) /\ task'.attempt = task.attempt
    BY AbsenceAssumption DEF Runs
  <2>5. Settled' => \/ runner'.at = "enrich"
                    \/ runner'.at = "last" /\ "runner" \in Range(outer')
    BY <1>3 DEF Runs
  <2>6. /\ runner'.at = "ask" => runner.at = "context" /\ "runner" \notin Range(outer)
        /\ runner'.at = "context" => "runner" \in Range(outer')
    BY <1>3 DEF Runs
  <2> QED
    BY <1>2, <1>3, <2>1, <2>2, <2>3, <2>4, <2>5, <2>6 DEF QuietStep
<1>7. (ProgressInv /\ AttemptInv /\ NewestInv /\ FinalInv /\ OrderInv)'
  BY <1>1, <1>4, <1>6, QuietKeeps
<1>8. HandlerInv'
  BY <1>1, OwnersStay DEF Runs
<1> QED
  BY <1>3, <1>4, <1>5, <1>7, <1>8 DEF SurfaceInv

\* What is left alone by every step of the runner but the creation of the card.
Beside == UNCHANGED <<displayVars, closing, faults, created, handler, stagingVars, threads, left>>

\* What is known of the runner before its step.
LEMMA RunnerFacts ==
  ASSUME SurfaceInv, runner.at # "none"
  PROVE  /\ SurfaceTypeOK /\ QueueInv /\ RunnerInv /\ runner \in Runner /\ ~is_closed
         /\ runner.at \notin {"enrich", "last"} => task # None
         /\ task # None => /\ task \in Record /\ task.revision \in Nat
                           /\ task.state \in StatesAt(runner.at)
         /\ runner.at \notin {"begin", "context", "last"} \/ ~rendering("runner") =>
              "runner" \notin Range(outer)
<1>1. /\ SurfaceTypeOK /\ QueueInv /\ RunnerInv
  BY DEF SurfaceInv
<1>2. runner \in Runner /\ ~is_closed
  BY <1>1, NoRunnerFacts DEF SurfaceTypeOK, RunnerInv
<1>3. task # None => task \in Record /\ task.revision \in Nat /\ task.state \in StatesAt(runner.at)
  BY <1>1, <1>2 DEF SurfaceTypeOK, RunnerInv, Record
<1> QED
  BY <1>1, <1>2, <1>3 DEF RunnerInv, QueueInv, rendering

\* The runner goes on to its next await.
LEMMA ReachesFacts ==
  ASSUME runner \in Runner, NEW stage \in RunnerStages, reaches(stage)
  PROVE  runner' \in Runner /\ runner'.at = stage /\ runner'.inputs = runner.inputs
BY DEF reaches, Runner

\* The store's record after an update.
LEMMA PersistFacts ==
  ASSUME task \in Record, NEW c \in Record, persist(c)
  PROVE  /\ task' \in Record /\ task' # None /\ task'.revision = task.revision + 1
         /\ task'.revision >= task.revision
         /\ task'.state = c.state /\ task'.attempt = c.attempt
<1>1. task.revision \in Nat /\ task.revision + 1 \in Nat
  BY DEF Record
<1> QED
  BY <1>1, Revised, AbsenceAssumption DEF persist

\* A settled record is rendered a last time.
LEMMA SettlesRuns ==
  ASSUME SurfaceInv, runner.at # "none", "runner" \notin Range(outer), Beside,
         task # None, NEW c \in Record, c.state \in States \ ACTIVE_STATES, settles(c)
  PROVE  Runs
<1>1. /\ runner \in Runner /\ task \in Record
      /\ "last" \in RunnerStages
  BY RunnerFacts DEF RunnerStages
<1>2. runner' \in Runner /\ runner'.at = "last" /\ runner'.inputs = runner.inputs
  BY <1>1, ReachesFacts DEF settles
<1>3. /\ task' \in Record /\ task' # None /\ task'.revision >= task.revision
      /\ task'.state \in States \ ACTIVE_STATES
  BY <1>1, PersistFacts DEF settles
<1>4. Asks("runner")
  BY DEF settles, render, Asks
<1> QED
  BY <1>1, <1>2, <1>3, <1>4 DEF Runs, Beside, StatesAt, is_active

\* A stop ends what the runner was about to do.
LEMMA StoppedRuns ==
  ASSUME SurfaceInv, runner.at # "none", "runner" \notin Range(outer), Beside,
         task # None, task.state = "stopping", settles(advance(task, "stopped", 0))
  PROVE  Runs
<1>1. task \in Record /\ is_active(task)
  BY RunnerFacts DEF is_active, ACTIVE_STATES
<1>2. "stopped" \in States \ ACTIVE_STATES
  BY DEF States, ACTIVE_STATES
<1>3. advance(task, "stopped", 0) \in Record /\ advance(task, "stopped", 0).state = "stopped"
  BY <1>1, <1>2, ActiveUpdates
<1> QED
  BY <1>2, <1>3, SettlesRuns

\* The runner takes its first step, from the record as it was stored.
LEMMA RunnerStartsRuns ==
  ASSUME SurfaceInv, RunnerStarts, Beside
  PROVE  Runs
<1>1. runner.at \in {"new", "recovering", "sending"}
  BY DEF RunnerStarts, unstarted
<1>2. /\ runner \in Runner /\ RunnerInv /\ task \in Record /\ task # None
      /\ task.state \in StatesAt(runner.at) /\ "runner" \notin Range(outer)
      /\ task.revision \in Nat
  BY <1>1, RunnerFacts
<1>3. UNCHANGED <<task, outer>>
  BY DEF RunnerStarts
<1>4. /\ runner' \in Runner /\ runner'.inputs = runner.inputs
      /\ \/ runner.at = "new" /\ runner'.at = "create" /\ runner'.read = task
         \/ runner.at = "recovering" /\ runner'.at = "recover"
         \/ runner.at = "sending" /\ runner'.at = "send"
  BY <1>1, <1>2 DEF RunnerStarts, Runner, RunnerStages
<1>5. task'.state \in StatesAt(runner'.at)
  BY <1>2, <1>3, <1>4 DEF StatesAt
<1>6. runner.at = "new" => ~card
  BY <1>2 DEF RunnerInv
<1>7. ~Settled'
  BY <1>3, <1>4, <1>5 DEF StatesAt, Settled, is_active, ACTIVE_STATES
<1>8. runner'.at = "create" => /\ ~card /\ runner'.read \in Record
                               /\ runner'.read.revision <= task'.revision
  <2>1. task'.revision = task.revision /\ task.revision <= task.revision
    BY <1>2, <1>3
  <2> QED
    BY <1>2, <1>4, <1>6, <2>1
<1>9. runner'.at \in {"create", "recover", "send"}
  BY <1>4
<1>10. runner'.at \in {"create", "begin"} => runner.at \in {"new", "create"}
  BY <1>4
<1>11. runner.at # "none"
  BY <1>1
<1>12. runner' \in Runner /\ runner'.inputs = runner.inputs
  BY <1>4
<1>13. task' # None /\ task' = task /\ "runner" \notin Range(outer)
  BY <1>2, <1>3
<1> QED
  BY <1>3, <1>5, <1>7, <1>8, <1>9, <1>10, <1>11, <1>12, <1>13 DEF Runs, Beside

\* There will be no card; the task goes on.
LEMMA CardFailsRuns ==
  ASSUME SurfaceInv, CardFails, Beside
  PROVE  Runs
<1>1. /\ runner.at = "create" /\ UNCHANGED <<task, outer>> /\ reaches("begin")
      /\ "begin" \in RunnerStages
  BY DEF CardFails, RunnerStages
<1>2. /\ runner \in Runner /\ task \in Record /\ task # None
      /\ task.state \in StatesAt(runner.at) /\ "runner" \notin Range(outer)
  BY <1>1, RunnerFacts
<1>3. runner' \in Runner /\ runner'.at = "begin" /\ runner'.inputs = runner.inputs
  BY <1>1, <1>2, ReachesFacts
<1>4. task'.state \in StatesAt(runner'.at) /\ ~Settled'
  BY <1>1, <1>2, <1>3 DEF StatesAt, Settled, is_active, ACTIVE_STATES
<1> QED
  BY <1>1, <1>2, <1>3, <1>4 DEF Runs, Beside

\* An active record moves on with its runner.
LEMMA AdvancesRuns ==
  ASSUME SurfaceInv, "runner" \notin Range(outer), Beside, task # None, is_active(task),
         NEW target \in States, NEW stage \in {"context", "send"},
         target = IF stage = "send" THEN "delivering" ELSE "running",
         task' \in Record, task'.revision >= task.revision, task'.state = target,
         task'.attempt = task.attempt,
         runner.at # "none", runner' \in Runner, runner'.inputs = runner.inputs,
         runner'.at = stage,
         IF stage = "send" THEN UNCHANGED outer ELSE Asks("runner")
  PROVE  Runs
<1>1. task \in Record /\ task' # None
  BY RunnerFacts, AbsenceAssumption
<1>2. task'.state \in StatesAt(runner'.at) /\ ~Settled'
  BY DEF StatesAt, Settled, is_active, ACTIVE_STATES
<1> QED
  BY <1>1, <1>2 DEF Runs, Beside

\* The task is running and will be shown so, unless it was stopped meanwhile.
LEMMA BeginRuns ==
  ASSUME SurfaceInv, Begin, Beside
  PROVE  Runs
<1>1. runner.at = "begin" /\ ~rendering("runner")
  BY DEF Begin
<1>2. /\ runner \in Runner /\ task \in Record /\ task # None /\ task.revision \in Nat
      /\ task.state \in {"starting", "stopping"} /\ "runner" \notin Range(outer)
      /\ {"running"} \subseteq States /\ "context" \in RunnerStages
  BY <1>1, RunnerFacts DEF StatesAt, States, RunnerStages
<1>3. CASE task.state = "stopping"
  BY <1>1, <1>2, <1>3, StoppedRuns DEF Begin, unless_stopped
<1>4. CASE task.state = "starting"
  <2>1. persist(advance(task, "running", 0)) /\ render("runner") /\ reaches("context")
    BY <1>4 DEF Begin, unless_stopped
  <2>2. is_active(task)
    BY <1>4 DEF is_active, ACTIVE_STATES
  <2>3. /\ advance(task, "running", 0) \in Record /\ advance(task, "running", 0).state = "running"
        /\ advance(task, "running", 0).attempt = task.attempt
    BY <1>2, <2>2, ActiveUpdates
  <2>4. /\ task' \in Record /\ task'.revision >= task.revision /\ task'.state = "running"
        /\ task'.attempt = task.attempt
    BY <1>2, <2>1, <2>3, PersistFacts
  <2>5. runner' \in Runner /\ runner'.at = "context" /\ runner'.inputs = runner.inputs
    BY <1>2, <2>1, ReachesFacts
  <2>6. Asks("runner")
    BY <1>2, <2>1 DEF Asks, render
  <2> QED
    BY <1>1, <1>2, <2>2, <2>4, <2>5, <2>6, AdvancesRuns
<1> QED
  BY <1>2, <1>3, <1>4

\* The session is back, and the task runs again, two revisions on.
LEMMA RecoveredRuns ==
  ASSUME SurfaceInv, Recovered, Beside
  PROVE  Runs
<1>1. runner.at = "recover"
  BY DEF Recovered
<1>2. /\ runner \in Runner /\ task \in Record /\ task # None /\ task.revision \in Nat
      /\ task.state \in {"recovering", "stopping"} /\ "runner" \notin Range(outer)
      /\ {"starting", "running"} \subseteq States /\ "context" \in RunnerStages
  BY <1>1, RunnerFacts DEF StatesAt, States, RunnerStages
<1>3. CASE task.state = "stopping"
  BY <1>1, <1>2, <1>3, StoppedRuns DEF Recovered, unless_stopped
<1>4. CASE task.state = "recovering"
  <2> DEFINE s == advance(task, "starting", 0)
             r == advance(s, "running", 0)
  <2>1. /\ task' = [r EXCEPT !.revision = task.revision + 2]
        /\ render("runner") /\ reaches("context")
    BY <1>4 DEF Recovered, unless_stopped
  <2>2. is_active(task)
    BY <1>4 DEF is_active, ACTIVE_STATES
  <2>3. s \in Record /\ s.state = "starting" /\ s.attempt = task.attempt
    BY <1>2, <2>2, ActiveUpdates
  <2>4. is_active(s)
    BY <2>3 DEF is_active, ACTIVE_STATES
  <2> HIDE DEF s
  <2>5. r \in Record /\ r.state = "running" /\ r.attempt = s.attempt
    BY <1>2, <2>3, <2>4, ActiveUpdates
  <2> HIDE DEF r
  <2>6. task.revision + 2 \in Nat
    BY <1>2
  <2>7. /\ task' \in Record /\ task'.revision = task.revision + 2 /\ task'.state = "running"
        /\ task'.attempt = task.attempt
    BY <2>1, <2>3, <2>5, <2>6, Revised
  <2>8. task'.revision >= task.revision
    BY <1>2, <2>7
  <2>9. runner' \in Runner /\ runner'.at = "context" /\ runner'.inputs = runner.inputs
    BY <1>2, <2>1, ReachesFacts
  <2>10. Asks("runner")
    BY <1>2, <2>1 DEF Asks, render
  <2> QED
    BY <1>1, <1>2, <2>2, <2>7, <2>8, <2>9, <2>10, AdvancesRuns
<1> QED
  BY <1>2, <1>3, <1>4

\* The agent is asked once the render of the running task is over.
LEMMA AskedRuns ==
  ASSUME SurfaceInv, Asked, Beside
  PROVE  Runs
<1>1. /\ runner.at = "context" /\ ~rendering("runner") /\ reaches("ask")
      /\ UNCHANGED <<task, outer>> /\ "ask" \in RunnerStages
  BY DEF Asked, RunnerStages
<1>2. /\ runner \in Runner /\ task \in Record /\ task # None
      /\ task.state \in {"running", "stopping"} /\ "runner" \notin Range(outer)
  BY <1>1, RunnerFacts DEF StatesAt
<1>3. runner' \in Runner /\ runner'.at = "ask" /\ runner'.inputs = runner.inputs
  BY <1>1, <1>2, ReachesFacts
<1>4. task'.state \in StatesAt(runner'.at) /\ ~Settled'
  BY <1>1, <1>2, <1>3 DEF StatesAt, Settled, is_active, ACTIVE_STATES
<1> QED
  BY <1>1, <1>2, <1>3, <1>4 DEF Runs, Beside

\* The answer is to be delivered, unless the task was stopped meanwhile.
LEMMA RepliedRuns ==
  ASSUME SurfaceInv, Replied, Beside
  PROVE  Runs
<1>1. runner.at = "ask"
  BY DEF Replied
<1>2. /\ runner \in Runner /\ task \in Record /\ task # None /\ task.revision \in Nat
      /\ task.state \in {"running", "stopping"} /\ "runner" \notin Range(outer)
      /\ {"delivering"} \subseteq States /\ "send" \in RunnerStages
  BY <1>1, RunnerFacts DEF StatesAt, States, RunnerStages
<1>3. CASE task.state = "stopping"
  BY <1>1, <1>2, <1>3, StoppedRuns DEF Replied, unless_stopped
<1>4. CASE task.state = "running"
  <2>1. persist(advance(task, "delivering", 0)) /\ reaches("send") /\ UNCHANGED outer
    BY <1>4 DEF Replied, unless_stopped
  <2>2. is_active(task)
    BY <1>4 DEF is_active, ACTIVE_STATES
  <2>3. /\ advance(task, "delivering", 0) \in Record
        /\ advance(task, "delivering", 0).state = "delivering"
        /\ advance(task, "delivering", 0).attempt = task.attempt
    BY <1>2, <2>2, ActiveUpdates
  <2>4. /\ task' \in Record /\ task'.revision >= task.revision /\ task'.state = "delivering"
        /\ task'.attempt = task.attempt
    BY <1>2, <2>1, <2>3, PersistFacts
  <2>5. runner' \in Runner /\ runner'.at = "send" /\ runner'.inputs = runner.inputs
    BY <1>2, <2>1, ReachesFacts
  <2> QED
    BY <1>1, <1>2, <2>1, <2>2, <2>4, <2>5, AdvancesRuns
<1> QED
  BY <1>2, <1>3, <1>4

\* The failure of the agent settles the task, and either its cause is looked up or it is rendered.
LEMMA AgentFailsRuns ==
  ASSUME SurfaceInv, NEW error \in Errors, AgentFails(error), Beside
  PROVE  Runs
<1>1. runner.at \in {"recover", "context", "ask"} /\ ~rendering("runner")
      /\ record_agent_failure(error)
  BY DEF AgentFails
<1>2. /\ runner \in Runner /\ task \in Record /\ task # None /\ task.revision \in Nat
      /\ task.state \in {"recovering", "running", "stopping"} /\ "runner" \notin Range(outer)
  BY <1>1, RunnerFacts DEF StatesAt
<1>3. CASE task.state = "stopping"
  BY <1>1, <1>2, <1>3, StoppedRuns DEF record_agent_failure, unless_stopped
<1>4. CASE task.state # "stopping"
  <2>1. /\ fail(task, error, 0) \in Record
        /\ fail(task, error, 0).state \in States \ ACTIVE_STATES
        /\ failure_target(task, error) # None
    BY <1>2, <1>4, FailUpdate
  <2>2. CASE settles(fail(task, error, 0))
    BY <1>1, <1>2, <2>1, <2>2, SettlesRuns
  <2>3. CASE /\ persist(fail(task, error, 0))
             /\ runner' = [runner EXCEPT !.at = "enrich", !.error = error, !.read = task']
             /\ UNCHANGED outer
    <3>1. /\ task' \in Record /\ task' # None /\ task'.revision >= task.revision
          /\ task'.state \in States \ ACTIVE_STATES
      BY <1>2, <2>1, <2>3, PersistFacts
    <3>2. /\ runner' \in Runner /\ runner'.at = "enrich" /\ runner'.inputs = runner.inputs
          /\ runner'.error \in Errors
      BY <1>2, <2>3, <3>1 DEF Runner, RunnerStages
    <3>3. task'.state \in StatesAt(runner'.at) /\ ~is_active(task')
      BY <3>1, <3>2 DEF StatesAt, is_active
    <3>4. runner.at # "none"
      BY <1>1
    <3> QED
      BY <1>2, <2>3, <3>1, <3>2, <3>3, <3>4 DEF Runs, Beside
  <2> QED
    BY <1>1, <1>4, <2>1, <2>2, <2>3 DEF record_agent_failure, unless_stopped
<1> QED
  BY <1>3, <1>4

\* The failure is filled in, if nobody changed the record since, and rendered a last time.
LEMMA EnrichedRuns ==
  ASSUME SurfaceInv, Enriched, Beside
  PROVE  Runs
<1>1. runner.at = "enrich"
  BY DEF Enriched
<1>2. /\ runner \in Runner /\ "runner" \notin Range(outer) /\ RunnerInv
      /\ "last" \in RunnerStages
  BY <1>1, RunnerFacts DEF RunnerStages
<1>3. runner.error \in Errors
  BY <1>1, <1>2 DEF RunnerInv
<1>4. CASE task = None
  <2>1. reaches("last") /\ UNCHANGED <<task, outer>>
    BY <1>4 DEF Enriched, returns
  <2>2. runner' \in Runner /\ runner'.at = "last" /\ runner'.inputs = runner.inputs
    BY <1>2, <2>1, ReachesFacts
  <2>3. task' = None /\ ~Settled'
    BY <1>4, <2>1 DEF Settled
  <2> QED
    BY <1>1, <1>2, <2>1, <2>2, <2>3 DEF Runs, Beside
<1>5. CASE task # None
  <2>1. /\ task \in Record /\ task.state \in States \ ACTIVE_STATES
        /\ task.revision \in Nat
    BY <1>1, <1>5, RunnerFacts DEF StatesAt
  <2>2. /\ render("runner") /\ reaches("last")
        /\ \/ UNCHANGED task
           \/ \E resumable \in BOOLEAN :
                persist(with_failure(task, classify_agent_failure(runner.error, resumable), 0))
    BY <1>5 DEF Enriched
  <2>3. /\ task' \in Record /\ task' # None /\ task'.revision >= task.revision
        /\ task'.state = task.state
    <3>1. CASE UNCHANGED task
      BY <1>5, <2>1, <3>1
    <3>2. ASSUME NEW resumable \in BOOLEAN,
                 persist(with_failure(task, classify_agent_failure(runner.error, resumable), 0))
          PROVE  /\ task' \in Record /\ task' # None /\ task'.revision >= task.revision
                 /\ task'.state = task.state
      <4> DEFINE why == classify_agent_failure(runner.error, resumable)
      <4>1. why \in Failure
        BY <1>3, FailureTypes, ErrorsAssumption
      <4> HIDE DEF why
      <4>2. with_failure(task, why, 0) \in Record /\ with_failure(task, why, 0).state = task.state
        BY <2>1, <4>1, SameStateUpdates
      <4> QED
        BY <2>1, <3>2, <4>2, PersistFacts DEF why
    <3> QED
      BY <2>2, <3>1, <3>2
  <2>4. runner' \in Runner /\ runner'.at = "last" /\ runner'.inputs = runner.inputs
    BY <1>2, <2>2, ReachesFacts
  <2>5. Asks("runner")
    BY <1>2, <2>2 DEF Asks, render
  <2>6. task'.state \in StatesAt(runner'.at) /\ ~is_active(task')
    BY <2>1, <2>3, <2>4 DEF StatesAt, is_active
  <2> QED
    BY <1>1, <1>2, <2>1, <2>3, <2>4, <2>5, <2>6 DEF Runs, Beside
<1> QED
  BY <1>4, <1>5

\* The delivery settles the task, one way or the other.
LEMMA SentRuns ==
  ASSUME SurfaceInv, Sent, Beside
  PROVE  Runs
<1>1. runner.at = "send"
  BY DEF Sent
<1>2. /\ task \in Record /\ task # None /\ task.state = "delivering"
      /\ "runner" \notin Range(outer)
  BY <1>1, RunnerFacts DEF StatesAt
<1>3. is_active(task) /\ {"completed", "delivery_failed"} \subseteq States \ ACTIVE_STATES
  BY <1>2 DEF is_active, ACTIVE_STATES, States
<1>4. CASE settles(complete(task, 0))
  <2>1. complete(task, 0) \in Record /\ complete(task, 0).state \in States \ ACTIVE_STATES
    BY <1>2, <1>3, ActiveUpdates
  <2> QED
    BY <1>1, <1>2, <1>4, <2>1, SettlesRuns
<1>5. ASSUME NEW definitive \in BOOLEAN, settles(delivery_failed(task, definitive, 0))
      PROVE  Runs
  <2>1. /\ delivery_failed(task, definitive, 0) \in Record
        /\ delivery_failed(task, definitive, 0).state \in States \ ACTIVE_STATES
    BY <1>2, <1>3, ActiveUpdates
  <2> QED
    BY <1>1, <1>2, <1>5, <2>1, SettlesRuns
<1> QED
  BY <1>4, <1>5 DEF Sent

\* The card appears, before anything was reported.
LEMMA CardCreatedKeeps ==
  ASSUME SurfaceInv, CardCreated,
         UNCHANGED <<inner, view, entry, flush, silent, updates_made, faults, created, handler,
                     closing, stagingVars, threads, left>>
  PROVE  SurfaceInv' /\ shown = None
<1>1. /\ runner.at = "create" /\ persist(attach_card(task, 0)) /\ reaches("begin")
      /\ shown' = card_of(runner.read, None) /\ unshown' = FALSE /\ card' = TRUE
      /\ Asks("runner") /\ "begin" \in RunnerStages /\ "runner" \notin Range(outer)
  BY RunnerFacts DEF CardCreated, RunnerStages, Asks, render
<1>2. /\ SurfaceTypeOK /\ QueueInv /\ RunnerInv /\ ~is_closed /\ runner \in Runner
      /\ task \in Record /\ task # None /\ task.revision \in Nat
      /\ task.state \in {"starting", "stopping"} /\ HandlerInv
  BY <1>1, RunnerFacts DEF StatesAt, SurfaceInv
<1>3. /\ ~card /\ shown = None /\ entry = None /\ \A f \in Flushes : flush[f] = NoFlush
      /\ runner.read \in Record /\ runner.read.revision <= task.revision
      /\ created # None
  BY <1>1, <1>2, NoRunnerFacts DEF RunnerInv
<1>4. \A c \in Callers : view[c] = None
  BY <1>2, <1>3 DEF QueueInv
<1>5. /\ task' \in Record /\ task' # None /\ task'.revision = task.revision + 1
      /\ task'.state = task.state
  BY <1>1, <1>2, SameStateUpdates, PersistFacts
<1>6. runner' \in Runner /\ runner'.at = "begin" /\ runner'.inputs = runner.inputs
  BY <1>1, <1>2, ReachesFacts
<1>7. /\ shown' \in Card /\ shown'.record = runner.read /\ shown'.progress = None
  BY <1>1, <1>3, CardFacts
<1>8. /\ QueueInv' /\ outer' \in Seq({"runner"} \cup Handlers)
  <2>1. outer \in Seq({"runner"} \cup Handlers)
    BY <1>2 DEF SurfaceTypeOK
  <2>2. Range(outer') = Range(outer) \cup {"runner"}
    BY <1>1, <2>1, AppendRange DEF Asks
  <2>3. ASSUME NEW g \in Handlers, g \in Range(outer')
        PROVE  handler'[g].at \in {"render", "refresh"}
    <3>1. g # "runner"
      BY MessengerAssumption
    <3> QED
      BY <1>2, <2>2, <2>3, <3>1 DEF QueueInv
  <2> QED
    BY <1>1, <1>2, <1>6, <2>3, QueuesKeep
<1>9. SurfaceTypeOK'
  BY <1>1, <1>2, <1>5, <1>6, <1>7, <1>8 DEF SurfaceTypeOK, StagingTypeOK, stagingVars
<1>10. RunnerInv'
  BY <1>1, <1>2, <1>3, <1>5, <1>6 DEF RunnerInv, StatesAt, is_closed
<1>11. ~Settled'
  BY <1>2, <1>5 DEF Settled, is_active, ACTIVE_STATES
<1>12. ProgressInv'
  BY <1>3 DEF ProgressInv, NoFlush
<1>13. AttemptInv'
  BY <1>4, <1>7 DEF AttemptInv, OfAttempt
<1>14. NewestInv' /\ FinalInv'
  BY <1>3, <1>11 DEF NewestInv, FinalInv
<1>15. OrderInv'
  <2>1. shown'.record.revision <= task'.revision
    BY <1>2, <1>3, <1>5, <1>7 DEF Record
  <2> QED
    BY <1>4, <2>1 DEF OrderInv
<1>16. HandlerInv'
  BY <1>2, <1>6, OwnersStay
<1> QED
  BY <1>3, <1>8, <1>9, <1>10, <1>12, <1>13, <1>14, <1>15, <1>16 DEF SurfaceInv

\* Every step of the runner but its last keeps the invariant, and none but the creation of the
\* card changes what is shown.
LEMMA RunnerStepKeeps ==
  ASSUME SurfaceInv, RunnerStep
  PROVE  SurfaceInv' /\ (shown # None => shown' = shown)
<1>1. UNCHANGED <<inner, view, entry, flush, silent, updates_made, faults, created, handler,
                  closing, stagingVars, threads, left>>
  BY DEF RunnerStep
<1>2. CASE CardCreated
  BY <1>1, <1>2, CardCreatedKeeps
<1>3. CASE RunnerStarts \/ CardFails \/ Begin \/ Recovered \/ Asked \/ Replied \/ Enriched \/ Sent
           \/ \E error \in Errors : AgentFails(error)
  <2>1. Beside
    BY <1>1, <1>3 DEF Beside, displayVars, RunnerStarts, CardFails, Begin, Recovered, Asked, Replied,
      Enriched, Sent, AgentFails
  <2>2. Runs
    BY <1>3, <2>1, RunnerStartsRuns, CardFailsRuns, BeginRuns, RecoveredRuns, AskedRuns, RepliedRuns,
      EnrichedRuns, SentRuns, AgentFailsRuns
  <2>3. shown' = shown
    BY <2>1 DEF Beside, displayVars
  <2> QED
    BY <2>2, <2>3, RunsKeep
<1> QED
  BY <1>2, <1>3 DEF RunnerStep

\* The runner ends after its last render, and hands over the files that it cannot remove.
LEMMA RunnerDoneKeeps ==
  ASSUME SurfaceInv, RunnerDone
  PROVE  SurfaceInv' /\ shown' = shown
<1>1. /\ runner.at = "last" /\ ~rendering("runner") /\ runner' = NoRunner
      /\ cleanup(runner.inputs)
      /\ UNCHANGED <<displayVars, task, outer, created, handler, closing, stranded, threads, left>>
  BY DEF RunnerDone
<1>2. /\ SurfaceTypeOK /\ QueueInv /\ RunnerInv /\ ~is_closed /\ runner \in Runner
      /\ "runner" \notin Range(outer) /\ HandlerInv /\ ProgressInv /\ AttemptInv /\ NewestInv
      /\ FinalInv /\ OrderInv
  BY <1>1, RunnerFacts DEF SurfaceInv
<1>3. task # None => task.state \in StatesAt("none")
  BY <1>1, RunnerFacts DEF StatesAt
<1>4. /\ onDisk' \in Int /\ pending' \in Nat
      /\ onDisk' - pending' = onDisk - pending - one(runner.inputs)
      /\ faults' \in {faults, faults + 1}
  BY <1>1, <1>2, CleanupFacts DEF SurfaceTypeOK, Runner
<1>5. QueueInv'
  BY <1>1, <1>2, QueuesKeep DEF displayVars, QueueInv
<1>6. SurfaceTypeOK'
  BY <1>1, <1>2, <1>4, NoRunnerFacts DEF SurfaceTypeOK, StagingTypeOK, displayVars
<1>7. RunnerInv'
  BY <1>1, <1>2, <1>3, NoRunnerFacts DEF RunnerInv, displayVars, is_closed
<1>8. QuietStep
  <2>1. faults' >= faults
    BY <1>2, <1>4 DEF SurfaceTypeOK
  <2>2. entry # None /\ Settled' /\ ~is_closed => FALSE
    BY <1>1, <1>2 DEF ProgressInv, Settled, displayVars
  <2>3. entry # None /\ task' # None /\ is_active(task') =>
          task # None /\ is_active(task) /\ task'.attempt = task.attempt
    BY <1>1
  <2>4. task' # None => IF task = None THEN ~card ELSE task'.revision >= task.revision
    BY <1>1, <1>2 DEF SurfaceTypeOK, Record
  <2>5. runner'.at \notin {"ask", "context"}
    BY <1>1, NoRunnerFacts
  <2> QED
    BY <1>1, <2>1, <2>2, <2>3, <2>4, <2>5 DEF QuietStep
<1>9. (ProgressInv /\ AttemptInv /\ NewestInv /\ FinalInv /\ OrderInv)'
  BY <1>2, <1>6, <1>8, QuietKeeps
<1>10. HandlerInv'
  <2> DEFINE c == Cardinality(InputOwners)
  <2>1. c \in Nat /\ onDisk = c + one(runner.inputs) + pending + stranded
    BY <1>2, FS_CardinalityType DEF HandlerInv, NothingLeftBehind, InputsHaveOwner, InputOwners
  <2>2. c' = c
    BY <1>1 DEF InputOwners
  <2>3. one(runner'.inputs) = 0 /\ one(runner.inputs) \in Nat
    BY <1>1 DEF NoRunner, one
  <2>4. onDisk' = c' + one(runner'.inputs) + pending' + stranded'
    <3> DEFINE i == one(runner.inputs)
    <3>1. /\ i \in Int /\ c \in Int /\ onDisk \in Int /\ pending \in Int /\ stranded \in Int
          /\ onDisk' \in Int /\ pending' \in Int
      BY <1>2, <1>4, <2>1, <2>3 DEF SurfaceTypeOK, StagingTypeOK
    <3>2. /\ onDisk' - pending' - stranded' - i' = onDisk - pending - stranded - i
          /\ onDisk = c + i + pending + stranded
      BY <1>1, <1>4, <2>1, <2>3, <3>1
    <3>3. {i, c, onDisk, pending, stranded}' \subseteq Int /\ c' = c
      BY <1>1, <1>4, <2>1, <2>2, <2>3, <3>1
    <3> HIDE DEF c, i
    <3>5. onDisk' = c' + i' + pending' + stranded'
      BY <3>1, <3>2, <3>3
    <3> QED
      BY <3>5 DEF i
  <2> QED
    BY <1>1, <1>2, <2>4 DEF HandlerInv, NothingLeftBehind, InputsHaveOwner, ThreadsHaveTasks,
      InputOwners, ThreadOwners, dedicated
<1> QED
  BY <1>1, <1>5, <1>6, <1>7, <1>9, <1>10 DEF SurfaceInv, displayVars

----------------------------------------------------------------------------
(* The renders' steps.                                                     *)

\* A step of a render leaves the record, the runner and the handlers alone.
Shows == UNCHANGED <<task, card, silent, updates_made, surfaceVars>>

\* What else a step of a render has to keep.
LEMMA ShowsKeep ==
  ASSUME SurfaceInv, Shows, QueueInv', ProgressInv', AttemptInv', NewestInv', FinalInv', OrderInv',
         shown' \in Card \cup {None}, unshown' \in BOOLEAN,
         outer' \in Seq({"runner"} \cup Handlers), inner' \in Seq(Callers),
         view' \in [Callers -> Card \cup {None}], entry' \in Entry \cup {None},
         flush' \in [Flushes -> Flush], faults' \in Nat,
         ~card => shown' = None, entry = None => entry' = None,
         (\A f \in Flushes : flush[f] = NoFlush) => flush' = flush
  PROVE  SurfaceInv'
<1>1. SurfaceTypeOK'
  BY DEF SurfaceInv, SurfaceTypeOK, Shows, surfaceVars, stagingVars, StagingTypeOK
<1>2. RunnerInv'
  <2>1. RunnerInv /\ UNCHANGED <<task, card, runner, closing, created>>
    BY DEF SurfaceInv, Shows, surfaceVars
  <2>2. (~card => shown = None /\ entry = None)'
    BY <2>1 DEF RunnerInv
  <2>3. (runner.at \in {"new", "create", "begin"} => entry = None /\ \A f \in Flushes : flush[f] = NoFlush)'
    BY <2>1 DEF RunnerInv
  <2> QED
    BY <2>1, <2>2, <2>3 DEF RunnerInv, is_closed
<1>3. HandlerInv'
  BY OwnersStay DEF SurfaceInv, Shows, surfaceVars
<1> QED
  BY <1>1, <1>2, <1>3 DEF SurfaceInv

\* Only the first of the messenger's queue has read a card, and he is the first of the runtime's
\* queue or a flush.
LEMMA FirstFacts ==
  ASSUME SurfaceInv, NEW c \in Callers, inner # <<>>, Head(inner) = c
  PROVE  /\ c \in Range(inner) /\ Range(Tail(inner)) = Range(inner) \ {c}
         /\ Tail(inner) \in Seq(Callers) /\ Distinct(Tail(inner))
         /\ \A d \in Callers : d # c => view[d] = None
         /\ c \in Flushes => c \notin {"runner"} \cup Handlers /\ c # None /\ flush[c].at = "render"
         /\ c \notin Flushes => /\ outer # <<>> /\ Head(outer) = c
                                /\ Range(Tail(outer)) = Range(outer) \ {c}
                                /\ Tail(outer) \in Seq({"runner"} \cup Handlers)
                                /\ Distinct(Tail(outer))
<1>1. /\ inner \in Seq(Callers) /\ outer \in Seq({"runner"} \cup Handlers)
      /\ Distinct(inner) /\ Distinct(outer) /\ QueueInv
  BY DEF SurfaceInv, SurfaceTypeOK, QueueInv
<1>2. /\ c \in Range(inner) /\ Range(Tail(inner)) = Range(inner) \ {c}
      /\ Tail(inner) \in Seq(Callers) /\ Distinct(Tail(inner))
  BY <1>1, TailFacts
<1>3. \A d \in Callers : d # c => view[d] = None
  BY <1>1 DEF QueueInv, first
<1>4. c \in Flushes => c \notin {"runner"} \cup Handlers /\ c # None /\ flush[c].at = "render"
  BY <1>1, <1>2, MessengerAssumption DEF QueueInv
<1>5. c \notin Flushes => outer # <<>> /\ Head(outer) = c
  BY <1>1, <1>2 DEF QueueInv, first
<1>6. c \notin Flushes => /\ Range(Tail(outer)) = Range(outer) \ {c}
                          /\ Tail(outer) \in Seq({"runner"} \cup Handlers)
                          /\ Distinct(Tail(outer))
  BY <1>1, <1>5, TailFacts
<1> QED
  BY <1>2, <1>3, <1>4, <1>5, <1>6

\* A flush that stands in the messenger's queue ends, sleeps again if there is news, or has
\* outlived its entry.
LEMMA FlushEnds ==
  ASSUME SurfaceInv, NEW c \in Flushes, inner # <<>>, Head(inner) = c, flush_ends(c)
  PROVE  /\ entry' \in Entry \cup {None} /\ flush' \in [Flushes -> Flush]
         /\ flush'[c].at # "render"
         /\ \A f \in Flushes \ {c} : flush[f] = NoFlush /\ flush'[f] = NoFlush
         /\ \/ /\ entry # None /\ entry.flush = c /\ entry' = entry
               /\ flush'[c].at = "sleep" /\ flush'[c].entry = entry.id
            \/ /\ entry # None /\ entry.flush = c /\ entry' = [entry EXCEPT !.flush = None]
               /\ flush'[c] = NoFlush
               /\ view[c] # None => view[c].progress = entry.progress
            \/ entry = None /\ entry' = None /\ flush'[c] = NoFlush
<1>1. /\ c \in Callers /\ c # None /\ c \in Flushes /\ flush[c].at = "render"
      /\ \A d \in Callers : d # c => view[d] = None
      /\ entry \in Entry \cup {None} /\ flush \in [Flushes -> Flush] /\ ProgressInv
      /\ Flushes \subseteq Callers
  BY FirstFacts DEF Callers, SurfaceInv, SurfaceTypeOK
<1>2. entry # None => Current(c) /\ ~silent
  BY <1>1 DEF ProgressInv, Outlived
<1>3. \A f \in Flushes \ {c} : flush[f] = NoFlush
  <2> SUFFICES ASSUME NEW f \in Flushes, f # c PROVE flush[f] = NoFlush
    OBVIOUS
  <2>1. ~Outlived(f)
    BY <1>1 DEF Outlived
  <2>2. ~Current(f)
    BY <1>2, <1>1 DEF Current
  <2> QED
    BY <1>1, <2>1, <2>2 DEF ProgressInv
<1>4. NoFlush \in Flush /\ NoFlush.at = "none"
  BY DEF NoFlush, Flush
<1>5. CASE entry = None
  <2>1. entry' = None /\ flush' = [flush EXCEPT ![c] = NoFlush]
    BY <1>5 DEF flush_ends
  <2> QED
    BY <1>1, <1>3, <1>4, <1>5, <2>1
<1>6. CASE entry # None
  <2>1. /\ entry.id = flush[c].entry /\ entry.flush = c /\ ~silent /\ entry \in Entry
        /\ flush[c].version = entry.version => flush[c].progress = entry.progress
        /\ view[c] # None => view[c].progress = flush[c].progress
    BY <1>1, <1>2, <1>6 DEF Current
  <2>2. CASE entry.version # flush[c].version
    <3>1. flush' = [flush EXCEPT ![c] = sleeping(entry.id)] /\ entry' = entry
      BY <1>6, <2>1, <2>2 DEF flush_ends
    <3>2. /\ sleeping(entry.id) \in Flush /\ sleeping(entry.id).at = "sleep"
          /\ sleeping(entry.id).entry = entry.id
      BY <2>1 DEF sleeping, NoFlush, Flush, Entry
    <3> QED
      BY <1>1, <1>3, <1>6, <2>1, <3>1, <3>2
  <2>3. CASE entry.version = flush[c].version
    <3>1. flush' = [flush EXCEPT ![c] = NoFlush] /\ entry' = [entry EXCEPT !.flush = None]
      BY <1>6, <2>1, <2>3 DEF flush_ends
    <3>2. [entry EXCEPT !.flush = None] \in Entry
      BY <2>1 DEF Entry
    <3> QED
      BY <1>1, <1>3, <1>4, <1>6, <2>1, <2>3, <3>1, <3>2
  <2> QED
    BY <2>2, <2>3
<1> QED
  BY <1>5, <1>6

\* Whoever leaves has given up both locks; nobody edits the card then.
LEMMA LeaveFacts ==
  ASSUME SurfaceInv, Shows, NEW c \in Callers, inner # <<>>, Head(inner) = c, leave(c)
  PROVE  /\ outer' \in Seq({"runner"} \cup Handlers) /\ inner' \in Seq(Callers)
         /\ view' \in [Callers -> Card \cup {None}] /\ \A d \in Callers : view'[d] = None
         /\ entry' \in Entry \cup {None} /\ flush' \in [Flushes -> Flush]
         /\ entry = None => entry' = None
         /\ (\A f \in Flushes : flush[f] = NoFlush) => flush' = flush
         /\ Range(outer') = IF c \in Flushes THEN Range(outer) ELSE Range(outer) \ {c}
         /\ QueueInv'
<1>1. /\ SurfaceTypeOK /\ QueueInv /\ Flushes \subseteq Callers
      /\ \A d \in Callers : d # c => view[d] = None
      /\ UNCHANGED <<card, handler, runner>>
  BY FirstFacts DEF SurfaceInv, Callers, Shows, surfaceVars
<1>2. /\ inner' = Tail(inner) /\ inner' \in Seq(Callers) /\ Distinct(inner')
      /\ c \in Range(inner) /\ Range(inner') = Range(inner) \ {c}
  BY FirstFacts DEF leave
<1>3. view' \in [Callers -> Card \cup {None}] /\ \A d \in Callers : view'[d] = None
  BY <1>1 DEF leave, SurfaceTypeOK
<1>4. CASE c \in Flushes
  <2>1. UNCHANGED outer /\ flush_ends(c) /\ flush[c].at = "render"
    BY <1>4, FirstFacts DEF leave
  <2>2. /\ entry' \in Entry \cup {None} /\ flush' \in [Flushes -> Flush]
        /\ entry = None => entry' = None
        /\ flush'[c].at # "render"
        /\ \A f \in Flushes \ {c} : flush[f] = NoFlush /\ flush'[f] = NoFlush
    BY <1>4, <2>1, FlushEnds, Zenon
  <2>3. ~ \A f \in Flushes : flush[f] = NoFlush
    BY <1>4, <2>1 DEF NoFlush
  <2>4. QueueInv'
    <3>1. (\A d \in Range(inner) : d \in Flushes \/ first(outer, d))'
      BY <1>1, <1>2, <2>1 DEF QueueInv
    <3>2. (\A f \in Flushes : f \in Range(inner) <=> flush[f].at = "render")'
      BY <1>1, <1>2, <2>2 DEF QueueInv
    <3> QED
      BY <1>1, <1>2, <1>3, <2>1, <3>1, <3>2 DEF QueueInv
  <2> QED
    BY <1>1, <1>2, <1>3, <1>4, <2>1, <2>2, <2>3, <2>4 DEF SurfaceTypeOK
<1>5. CASE c \notin Flushes
  <2>1. /\ outer' = Tail(outer) /\ UNCHANGED <<entry, flush>>
        /\ outer' \in Seq({"runner"} \cup Handlers) /\ Distinct(outer')
        /\ outer # <<>> /\ Head(outer) = c /\ Range(outer') = Range(outer) \ {c}
    BY <1>5, FirstFacts DEF leave
  <2>2. QueueInv'
    <3>1. (\A d \in Range(inner) : d \in Flushes \/ first(outer, d))'
      BY <1>1, <1>2, <2>1 DEF QueueInv, first
    <3>2. (\A f \in Flushes : f \in Range(inner) <=> flush[f].at = "render")'
      BY <1>1, <1>2, <1>5, <2>1 DEF QueueInv
    <3> QED
      BY <1>1, <1>2, <1>3, <2>1, <3>1, <3>2 DEF QueueInv
  <2> QED
    BY <1>1, <1>2, <1>3, <1>5, <2>1, <2>2 DEF SurfaceTypeOK
<1> QED
  BY <1>4, <1>5

\* The coordinator stays as it should be when somebody leaves who edited the card, or found none.
LEMMA LeaveProgress ==
  ASSUME SurfaceInv, Shows, NEW c \in Callers, inner # <<>>, Head(inner) = c, leave(c),
         view[c] # None \/ task = None \/ ~card
  PROVE  /\ ProgressInv'
         /\ entry' # None /\ entry'.flush = None /\ active_task /\ ~is_closed /\ faults = 0
              /\ view[c] # None => entry'.progress = view[c].progress
<1>1. /\ SurfaceTypeOK /\ QueueInv /\ RunnerInv /\ ProgressInv /\ NewestInv
      /\ UNCHANGED <<task, silent, closing, runner>>
  BY DEF SurfaceInv, Shows, surfaceVars
<1>2. \A d \in Callers : view'[d] = None
  BY LeaveFacts
<1>3. "runner" \in Callers /\ Flushes \subseteq Callers /\ None \notin Flushes
  BY MessengerAssumption DEF Callers
<1>4. CASE c \in Flushes
  <2>1. /\ flush_ends(c) /\ UNCHANGED outer
    BY <1>4 DEF leave
  <2>2. /\ flush'[c].at # "render"
        /\ \A f \in Flushes \ {c} : flush'[f] = NoFlush
        /\ \/ /\ entry # None /\ entry.flush = c /\ entry' = entry
              /\ flush'[c].at = "sleep" /\ flush'[c].entry = entry.id
           \/ /\ entry # None /\ entry.flush = c /\ entry' = [entry EXCEPT !.flush = None]
              /\ flush'[c] = NoFlush
              /\ view[c] # None => view[c].progress = entry.progress
           \/ entry = None /\ entry' = None /\ flush'[c] = NoFlush
    BY <1>4, <2>1, FlushEnds, Zenon
  <2>3. entry' # None => entry # None /\ entry'.progress = entry.progress
    BY <2>2, <1>1 DEF SurfaceTypeOK, Entry
  <2>4. (entry # None /\ task # None /\ is_active(task) => entry.progress.attempt = task.attempt)'
    BY <1>1, <2>3 DEF ProgressInv
  <2>5. (entry # None /\ Settled /\ ~is_closed =>
           \/ runner.at = "enrich"
           \/ runner.at = "last" /\ "runner" \in Range(outer) /\ view["runner"] = None)'
    BY <1>1, <1>2, <1>3, <2>1, <2>3 DEF ProgressInv, Settled, is_closed
  <2>6. (entry # None /\ entry.flush # None => flush[entry.flush].at # "none")'
    BY <1>1, <2>2 DEF SurfaceTypeOK, Entry
  <2>7. (silent => entry = None)'
    BY <1>1, <2>3 DEF ProgressInv
  <2>8. ASSUME NEW f \in Flushes
        PROVE  (IF flush[f].at = "none" THEN flush[f] = NoFlush ELSE Current(f) \/ Outlived(f))'
    <3>1. flush'[f].at # "none" => f = c /\ Current(f)'
      BY <2>2 DEF NoFlush, Current
    <3> QED
      BY <2>2, <3>1 DEF NoFlush
  <2>9. ProgressInv'
    BY <2>4, <2>5, <2>6, <2>7, <2>8 DEF ProgressInv
  <2>10. entry' # None /\ entry'.flush = None /\ view[c] # None => entry'.progress = view[c].progress
    BY <1>3, <1>4, <2>2, <2>3
  <2> QED
    BY <2>9, <2>10
<1>5. CASE c \notin Flushes
  <2>1. /\ outer' = Tail(outer) /\ UNCHANGED <<entry, flush>>
        /\ Range(outer') = Range(outer) \ {c}
        /\ \A d \in Callers : d # c => view[d] = None
    BY <1>5, FirstFacts DEF leave
  <2>2. (entry # None /\ Settled /\ ~is_closed =>
           \/ runner.at = "enrich"
           \/ runner.at = "last" /\ "runner" \in Range(outer) /\ view["runner"] = None)'
    BY <1>1, <1>2, <1>3, <2>1 DEF ProgressInv, RunnerInv, Settled, is_closed
  <2>3. ASSUME NEW f \in Flushes
        PROVE  (IF flush[f].at = "none" THEN flush[f] = NoFlush ELSE Current(f) \/ Outlived(f))'
    <3>1. ~Outlived(f)
      BY <1>3, <1>5, <2>1 DEF Outlived
    <3>2. Current(f) => Current(f)'
      BY <1>2, <1>3, <2>1 DEF Current
    <3> QED
      BY <1>1, <2>1, <3>1, <3>2 DEF ProgressInv
  <2>4. ProgressInv'
    <3>1. (entry # None /\ task # None /\ is_active(task) => entry.progress.attempt = task.attempt)'
      BY <1>1, <2>1 DEF ProgressInv
    <3>2. (entry # None /\ entry.flush # None => flush[entry.flush].at # "none")'
      BY <1>1, <2>1 DEF ProgressInv
    <3>3. (silent => entry = None)'
      BY <1>1, <2>1 DEF ProgressInv
    <3> QED
      BY <2>2, <2>3, <3>1, <3>2, <3>3 DEF ProgressInv
  <2> QED
    BY <1>1, <2>1, <2>4 DEF NewestInv
<1> QED
  BY <1>4, <1>5

\* The card is edited: what it shows then was read under the lock, after what it showed before.
LEMMA EditDoneKeeps ==
  ASSUME SurfaceInv, UNCHANGED surfaceVars, NEW c \in Callers, EditDone(c)
  PROVE  SurfaceInv' /\ (shown # None => shown'.record.revision >= shown.record.revision)
<1>1. /\ view[c] # None /\ inner # <<>> /\ Head(inner) = c
      /\ shown' = view[c] /\ unshown' = FALSE /\ leave(c) /\ Shows /\ faults' = faults
  BY DEF EditDone, editing, Shows
<1>2. /\ outer' \in Seq({"runner"} \cup Handlers) /\ inner' \in Seq(Callers)
      /\ view' \in [Callers -> Card \cup {None}] /\ \A d \in Callers : view'[d] = None
      /\ entry' \in Entry \cup {None} /\ flush' \in [Flushes -> Flush]
      /\ entry = None => entry' = None
      /\ (\A f \in Flushes : flush[f] = NoFlush) => flush' = flush
      /\ Range(outer') = IF c \in Flushes THEN Range(outer) ELSE Range(outer) \ {c}
      /\ QueueInv'
  BY <1>1, LeaveFacts
<1>3. ProgressInv' /\ NewestInv'
  <2>1. /\ ProgressInv'
        /\ entry' # None /\ entry'.flush = None /\ active_task /\ ~is_closed /\ faults = 0
              /\ view[c] # None => entry'.progress = view[c].progress
    BY <1>1, LeaveProgress
  <2> QED
    BY <1>1, <1>2, <2>1 DEF NewestInv, Shows, surfaceVars, active_task, is_closed
<1>4. /\ SurfaceTypeOK /\ QueueInv /\ RunnerInv /\ AttemptInv /\ FinalInv /\ OrderInv
      /\ UNCHANGED <<task, card, runner, closing>> /\ Flushes \subseteq Callers
  BY <1>1 DEF SurfaceInv, Shows, surfaceVars, Callers
<1>5. view[c] \in Card /\ view[c].record.revision \in Nat /\ card
  BY <1>1, <1>4 DEF SurfaceTypeOK, Card, Record, QueueInv
<1>6. AttemptInv'
  BY <1>1, <1>2, <1>4 DEF AttemptInv, OfAttempt
<1>7. FinalInv'
  <2> SUFFICES ASSUME Settled, card, ~is_closed
               PROVE  \/ runner.at = "enrich"
                      \/ \E d \in Range(outer') : view'[d] = None
                      \/ shown' = card_of(task, None)
    BY <1>2, <1>4 DEF FinalInv, Settled, is_closed
  <2>1. CASE runner.at = "enrich"
    BY <2>1
  <2>2. CASE \E d \in Range(outer) : view[d] = None
    <3>1. PICK d \in Range(outer) : view[d] = None
      BY <2>2
    <3>2. d \in Callers
      BY <1>4, <3>1 DEF SurfaceTypeOK, Range, Callers
    <3>3. d \in Range(outer') /\ view'[d] = None
      BY <1>1, <1>2, <3>1, <3>2
    <3> QED
      BY <3>3
  <2>3. CASE view[c] \in {None, card_of(task, None)}
    BY <1>1, <2>3
  <2> QED
    BY <1>4, <2>1, <2>2, <2>3 DEF FinalInv
<1>8. OrderInv'
  BY <1>1, <1>2, <1>4 DEF OrderInv
<1>9. SurfaceInv'
  <2>1. /\ shown' \in Card \cup {None} /\ unshown' \in BOOLEAN /\ faults' \in Nat
        /\ ~card => shown' = None
    BY <1>1, <1>4, <1>5 DEF SurfaceTypeOK
  <2> QED
    BY <1>1, <1>2, <1>3, <1>6, <1>7, <1>8, <2>1, ShowsKeep
<1> QED
  BY <1>1, <1>4, <1>9 DEF OrderInv

\* The edit is lost: the card stays as it was, and is marked.
LEMMA EditFailsKeeps ==
  ASSUME SurfaceInv, UNCHANGED surfaceVars, NEW c \in Callers, EditFails(c)
  PROVE  SurfaceInv' /\ shown' = shown
<1>1. /\ view[c] # None /\ inner # <<>> /\ Head(inner) = c
      /\ shown' = shown /\ unshown' = TRUE /\ leave(c) /\ Shows /\ faults' = faults + 1
  BY DEF EditFails, editing, Shows
<1>2. /\ outer' \in Seq({"runner"} \cup Handlers) /\ inner' \in Seq(Callers)
      /\ view' \in [Callers -> Card \cup {None}] /\ \A d \in Callers : view'[d] = None
      /\ entry' \in Entry \cup {None} /\ flush' \in [Flushes -> Flush]
      /\ entry = None => entry' = None
      /\ (\A f \in Flushes : flush[f] = NoFlush) => flush' = flush
      /\ Range(outer') = IF c \in Flushes THEN Range(outer) ELSE Range(outer) \ {c}
      /\ QueueInv'
  BY <1>1, LeaveFacts
<1>4. /\ SurfaceTypeOK /\ QueueInv /\ RunnerInv /\ AttemptInv /\ FinalInv /\ OrderInv
      /\ UNCHANGED <<task, card, runner, closing>>
      /\ faults' \in Nat /\ faults' # 0
  BY <1>1 DEF SurfaceInv, Shows, surfaceVars, SurfaceTypeOK
<1>3. ProgressInv' /\ NewestInv'
  <2>1. ProgressInv'
    BY <1>1, LeaveProgress
  <2> QED
    BY <1>4, <2>1 DEF NewestInv
<1>6. AttemptInv'
  BY <1>1, <1>2, <1>4 DEF AttemptInv, OfAttempt
<1>7. FinalInv'
  <2> SUFFICES ASSUME Settled, card, ~is_closed, runner.at # "enrich"
               PROVE  (\E d \in Range(outer') : view'[d] = None) \/ unshown'
    BY <1>2, <1>4 DEF FinalInv, Settled, is_closed
  <2> QED
    BY <1>1
<1>8. OrderInv'
  BY <1>1, <1>2, <1>4 DEF OrderInv
<1>9. shown' \in Card \cup {None} /\ (~card => shown' = None)
  BY <1>1, <1>4 DEF SurfaceTypeOK, RunnerInv
<1> QED
  BY <1>1, <1>2, <1>3, <1>4, <1>6, <1>7, <1>8, <1>9, ShowsKeep

\* There is nothing to edit.
LEMMA NothingToShow ==
  ASSUME SurfaceInv, Shows, UNCHANGED <<shown, unshown, faults>>, NEW c \in Callers,
         inner # <<>>, Head(inner) = c, leave(c), task = None \/ ~card
  PROVE  SurfaceInv'
<1>2. /\ outer' \in Seq({"runner"} \cup Handlers) /\ inner' \in Seq(Callers)
      /\ view' \in [Callers -> Card \cup {None}] /\ \A d \in Callers : view'[d] = None
      /\ entry' \in Entry \cup {None} /\ flush' \in [Flushes -> Flush]
      /\ entry = None => entry' = None
      /\ (\A f \in Flushes : flush[f] = NoFlush) => flush' = flush
      /\ QueueInv'
  BY LeaveFacts
<1>3. ProgressInv'
  BY LeaveProgress
<1>4. /\ SurfaceTypeOK /\ RunnerInv /\ AttemptInv /\ OrderInv
      /\ UNCHANGED <<task, card>>
  BY DEF SurfaceInv, Shows
<1>5. NewestInv' /\ FinalInv'
  BY <1>2, <1>4 DEF NewestInv, FinalInv, active_task, Settled, RunnerInv
<1>6. AttemptInv' /\ OrderInv'
  BY <1>2, <1>4 DEF AttemptInv, OfAttempt, OrderInv
<1>7. /\ shown' \in Card \cup {None} /\ unshown' \in BOOLEAN /\ faults' \in Nat
      /\ ~card => shown' = None
  BY <1>4 DEF SurfaceTypeOK, RunnerInv
<1> QED
  BY <1>2, <1>3, <1>5, <1>6, <1>7, ShowsKeep

\* An active record is read, with the progress that the reader brings along or finds.
LEMMA ReadActive ==
  ASSUME SurfaceInv, Shows, UNCHANGED <<shown, unshown, faults, outer, inner, entry, flush>>,
         NEW c \in Callers, inner # <<>>, Head(inner) = c, view[c] = None,
         task # None, card, is_active(task),
         view' = [view EXCEPT ![c] = card_of(task, progress_for(c))]
  PROVE  SurfaceInv'
<1>1. /\ SurfaceTypeOK /\ QueueInv /\ RunnerInv /\ ProgressInv /\ AttemptInv /\ NewestInv
      /\ FinalInv /\ OrderInv /\ UNCHANGED <<task, card, runner, closing, silent>>
      /\ \A d \in Callers : view[d] = None
      /\ Flushes \subseteq Callers /\ None \notin Flushes
      /\ task \in Record /\ task.revision \in Nat
  BY ZenonT(60), FirstFacts, MessengerAssumption
  DEF SurfaceInv, Shows, surfaceVars, Callers, SurfaceTypeOK, Record
<1>3. /\ progress_for(c) \in AgentProgress \cup {None}
      /\ progress_for(c) # None => progress_for(c).attempt = task.attempt
      /\ entry # None /\ entry.flush = None => progress_for(c) = entry.progress
      /\ c \in Flushes => progress_for(c) = flush[c].progress
  <2>1. CASE c \in Flushes
    <3>1. flush[c].at = "render"
      BY <2>1, FirstFacts
    <3>2. Current(c)
      BY <1>1, <2>1, <3>1 DEF ProgressInv, Outlived
    <3> QED
      BY <1>1, <2>1, <3>1, <3>2 DEF Current, progress_for, ProgressInv
  <2>2. CASE c \notin Flushes
    BY <1>1, <2>2 DEF progress_for, ProgressInv, SurfaceTypeOK, Entry
  <2> QED
    BY <2>1, <2>2
<1> DEFINE v == card_of(task, progress_for(c))
<1>4. /\ v \in Card /\ v # None /\ v.record = task /\ v.progress = progress_for(c)
      /\ view' = [view EXCEPT ![c] = v]
  BY <1>1, <1>3, CardFacts
<1> HIDE DEF v
<1>5. /\ view' \in [Callers -> Card \cup {None}] /\ view'[c] = v
      /\ \A d \in Callers : d # c => view'[d] = None
  BY <1>1, <1>4 DEF SurfaceTypeOK
<1>6. QueueInv'
  BY <1>1, <1>5 DEF QueueInv, first, Shows, surfaceVars
<1>7. ProgressInv'
  <2>1. ~Settled'
    BY <1>1 DEF Settled
  <2>2. (entry # None /\ task # None /\ is_active(task) => entry.progress.attempt = task.attempt)'
    BY <1>1 DEF ProgressInv
  <2>3. (entry # None /\ entry.flush # None => flush[entry.flush].at # "none")'
    BY <1>1 DEF ProgressInv
  <2>4. (silent => entry = None)'
    BY <1>1 DEF ProgressInv
  <2>5. ASSUME NEW f \in Flushes
        PROVE  (IF flush[f].at = "none" THEN flush[f] = NoFlush ELSE Current(f) \/ Outlived(f))'
    <3>1. ~Outlived(f)
      BY <1>1 DEF Outlived
    <3>2. Current(f) => Current(f)'
      BY <1>1, <1>3, <1>4, <1>5 DEF Current
    <3> QED
      BY <1>1, <3>1, <3>2 DEF ProgressInv
  <2> QED
    BY <2>1, <2>2, <2>3, <2>4, <2>5 DEF ProgressInv
<1>8. AttemptInv'
  BY <1>1, <1>3, <1>4, <1>5 DEF AttemptInv, OfAttempt
<1>9. NewestInv' /\ FinalInv'
  BY <1>1, <1>3, <1>4, <1>5 DEF NewestInv, FinalInv, active_task, Settled, is_closed
<1>10. OrderInv'
  BY <1>1, <1>4, <1>5 DEF OrderInv
<1>11. /\ shown' \in Card \cup {None} /\ unshown' \in BOOLEAN /\ faults' \in Nat
       /\ outer' \in Seq({"runner"} \cup Handlers) /\ inner' \in Seq(Callers)
       /\ entry' \in Entry \cup {None} /\ flush' \in [Flushes -> Flush]
       /\ ~card => shown' = None
  BY <1>1 DEF SurfaceTypeOK, RunnerInv
<1> QED
  BY <1>5, <1>6, <1>7, <1>8, <1>9, <1>10, <1>11, ShowsKeep

\* A settled record is read and the coordinator's entry dropped; only the reader may outlive it.
LEMMA ReadSettled ==
  ASSUME SurfaceInv, Shows, UNCHANGED <<shown, unshown, faults, outer>>,
         NEW c \in Callers, inner # <<>>, Head(inner) = c, view[c] = None,
         Settled, card, finish(c), view' = [view EXCEPT ![c] = card_of(task, None)]
  PROVE  SurfaceInv'
<1>1. /\ SurfaceTypeOK /\ QueueInv /\ RunnerInv /\ ProgressInv /\ AttemptInv /\ NewestInv
      /\ FinalInv /\ OrderInv /\ UNCHANGED <<task, card, runner, closing, silent, handler>>
      /\ \A d \in Callers : view[d] = None
      /\ Flushes \subseteq Callers /\ None \notin Flushes
      /\ task \in Record /\ task.revision \in Nat /\ ~is_active(task) /\ task # None
  BY FirstFacts, MessengerAssumption DEF SurfaceInv, Shows, surfaceVars, Callers, SurfaceTypeOK,
    Record, Settled
<1> DEFINE v == card_of(task, None)
<1>2. /\ v \in Card /\ v # None /\ v.record = task /\ v.progress = None
      /\ view' = [view EXCEPT ![c] = v]
  BY <1>1, CardFacts
<1>3. /\ view' \in [Callers -> Card \cup {None}] /\ view'[c] = v
      /\ \A d \in Callers : d # c => view'[d] = None
  <2> HIDE DEF v
  <2> QED
    BY <1>1, <1>2 DEF SurfaceTypeOK
<1>4. entry' = None /\ (entry = None => flush' = flush /\ inner' = inner)
  BY DEF finish
<1>5. runner.at \notin {"new", "create", "begin", "ask", "context"}
  <2>1. is_closed => runner.at = "none"
    BY <1>1, NoRunnerFacts DEF RunnerInv
  <2>2. ~is_closed => task.state \in StatesAt(runner.at) /\ task.state \notin ACTIVE_STATES
    BY <1>1 DEF RunnerInv, is_active
  <2> QED
    BY <2>1, <2>2 DEF StatesAt, ACTIVE_STATES
<1>6. \A f \in Flushes : flush[f] # NoFlush => entry # None /\ entry.flush = f
  <2> SUFFICES ASSUME NEW f \in Flushes, flush[f] # NoFlush PROVE entry # None /\ entry.flush = f
    OBVIOUS
  <2>1. ~Outlived(f)
    BY <1>1 DEF Outlived
  <2>2. Current(f)
    BY <1>1, <2>1 DEF ProgressInv
  <2> QED
    BY <2>2 DEF Current
<1>7. NoFlush.at = "none" /\ NoFlush \in Flush
  BY DEF NoFlush, Flush
<1>8. /\ flush' \in [Flushes -> Flush]
      /\ \A f \in Flushes : flush'[f] = IF f = c THEN flush[f] ELSE NoFlush
      /\ \/ inner' = inner /\ \A f \in Flushes \ {c} : flush[f] = NoFlush
         \/ \E f \in Flushes \ {c} : /\ inner' = drop(inner, {f})
                                     /\ \A g \in Flushes \ {f} : flush[g] = NoFlush
  <2>1. CASE entry # None /\ entry.flush \notin {None, c}
    <3>1. /\ flush' = [flush EXCEPT ![entry.flush] = NoFlush]
          /\ inner' = drop(inner, {entry.flush})
      BY <2>1 DEF finish
    <3>2. entry.flush \in Flushes \ {c}
      BY <1>1, <2>1 DEF SurfaceTypeOK, Entry
    <3> QED
      BY <1>1, <1>6, <1>7, <2>1, <3>1, <3>2 DEF SurfaceTypeOK
  <2>2. CASE ~ (entry # None /\ entry.flush \notin {None, c})
    <3>1. flush' = flush /\ inner' = inner
      BY <2>2 DEF finish
    <3> QED
      BY <1>1, <1>6, <2>2, <3>1 DEF SurfaceTypeOK
  <2> QED
    BY <2>1, <2>2
<1>9. QueueInv' /\ inner' \in Seq(Callers)
  <2>1. inner \in Seq(Callers) /\ Distinct(inner) /\ first(inner, c)
    BY <1>1 DEF SurfaceTypeOK, QueueInv, first
  <2>2. /\ inner' \in Seq(Callers) /\ Distinct(inner') /\ first(inner', c)
        /\ Range(inner') \subseteq Range(inner)
        /\ \A f \in Flushes : f \in Range(inner') <=> flush'[f].at = "render"
    <3>1. CASE inner' = inner /\ \A f \in Flushes \ {c} : flush[f] = NoFlush
      BY <1>1, <1>7, <1>8, <2>1, <3>1 DEF QueueInv
    <3>2. CASE \E f \in Flushes \ {c} : /\ inner' = drop(inner, {f})
                                        /\ \A g \in Flushes \ {f} : flush[g] = NoFlush
      <4>1. PICK f \in Flushes \ {c} : /\ inner' = drop(inner, {f})
                                       /\ \A g \in Flushes \ {f} : flush[g] = NoFlush
        BY <3>2
      <4>2. /\ drop(inner, {f}) \in Seq(Callers) /\ Distinct(drop(inner, {f}))
            /\ Range(drop(inner, {f})) = Range(inner) \ {f}
            /\ first(drop(inner, {f}), c)
        BY <2>1, DropFacts
      <4>3. \A g \in Flushes : g \in Range(inner') <=> flush'[g].at = "render"
        <5>1. \A g \in Flushes : g \in Range(inner) <=> flush[g].at = "render"
          BY <1>1 DEF QueueInv
        <5> QED
          BY <1>7, <1>8, <4>1, <4>2, <5>1
      <4> QED
        BY <4>1, <4>2, <4>3
    <3> QED
      BY <1>8, <3>1, <3>2
  <2>3. (\A d \in Range(inner) : d \in Flushes \/ first(outer, d))'
    BY <1>1, <2>2 DEF QueueInv, first
  <2>4. (\A d \in Callers : view[d] # None => first(inner, d) /\ card)'
    BY <1>1, <1>3, <2>2
  <2> QED
    BY <1>1, <2>2, <2>3, <2>4 DEF QueueInv
<1>10. ProgressInv'
  <2>1. ASSUME NEW f \in Flushes
        PROVE  (IF flush[f].at = "none" THEN flush[f] = NoFlush ELSE Current(f) \/ Outlived(f))'
    <3>1. CASE f # c
      BY <1>7, <1>8, <3>1
    <3>2. CASE f = c
      <4>1. flush'[f].at = "render"
        BY <1>8, <3>2, FirstFacts
      <4>2. Outlived(f)'
        BY <1>1, <1>2, <1>3, <1>4, <1>5, <3>2, <4>1 DEF Outlived
      <4> QED
        BY <4>1, <4>2
    <3> QED
      BY <3>1, <3>2
  <2> QED
    BY <1>4, <2>1 DEF ProgressInv
<1>11. AttemptInv'
  BY <1>1, <1>2, <1>3 DEF AttemptInv, OfAttempt
<1>12. NewestInv' /\ FinalInv'
  BY <1>1, <1>2, <1>3, <1>4 DEF NewestInv, FinalInv, Settled
<1>13. OrderInv'
  BY <1>1, <1>2, <1>3 DEF OrderInv
<1>14. /\ shown' \in Card \cup {None} /\ unshown' \in BOOLEAN /\ faults' \in Nat
       /\ outer' \in Seq({"runner"} \cup Handlers)
       /\ entry' \in Entry \cup {None}
       /\ ~card => shown' = None
       /\ (\A f \in Flushes : flush[f] = NoFlush) => flush' = flush
  <2>1. (\A f \in Flushes : flush[f] = NoFlush) => flush' = flush
    BY <1>1, <1>8 DEF SurfaceTypeOK
  <2> QED
    BY <1>1, <1>4, <2>1 DEF SurfaceTypeOK, RunnerInv
<1> QED
  BY <1>3, <1>4, <1>8, <1>9, <1>10, <1>11, <1>12, <1>13, <1>14, ShowsKeep

\* A step that changes the queues alone leaves the coordinator and the edits as they are.
LEMMA QueueStepKeeps ==
  ASSUME SurfaceInv, Shows, UNCHANGED <<shown, unshown, view, entry, flush, faults>>, QueueInv',
         outer' \in Seq({"runner"} \cup Handlers), inner' \in Seq(Callers),
         task # None => UNCHANGED outer
  PROVE  SurfaceInv'
<1>1. /\ SurfaceTypeOK /\ RunnerInv /\ ProgressInv /\ AttemptInv /\ NewestInv
      /\ FinalInv /\ OrderInv /\ UNCHANGED <<task, card, runner, closing, silent>>
  BY DEF SurfaceInv, Shows, surfaceVars
<1>2. runner.at = "context" => task # None
  BY <1>1 DEF RunnerInv
<1>3. ProgressInv'
  <2>1. ASSUME NEW f \in Flushes
        PROVE  (IF flush[f].at = "none" THEN flush[f] = NoFlush ELSE Current(f) \/ Outlived(f))'
    <3>1. Current(f) => Current(f)'
      BY <1>1 DEF Current
    <3>2. Outlived(f) => Outlived(f)'
      BY <1>1, <1>2 DEF Outlived
    <3> QED
      BY <1>1, <3>1, <3>2 DEF ProgressInv
  <2>2. (entry # None /\ Settled /\ ~is_closed =>
           \/ runner.at = "enrich"
           \/ runner.at = "last" /\ "runner" \in Range(outer) /\ view["runner"] = None)'
    BY <1>1 DEF ProgressInv, Settled, is_closed
  <2> QED
    BY <1>1, <2>1, <2>2 DEF ProgressInv
<1>4. AttemptInv' /\ NewestInv' /\ FinalInv' /\ OrderInv'
  <2>1. FinalInv'
    BY <1>1 DEF FinalInv, Settled, is_closed
  <2>2. AttemptInv' /\ NewestInv' /\ OrderInv'
    BY <1>1 DEF AttemptInv, OfAttempt, NewestInv, OrderInv, active_task, is_closed
  <2> QED
    BY <2>1, <2>2
<1>5. /\ shown' \in Card \cup {None} /\ unshown' \in BOOLEAN /\ faults' \in Nat
      /\ view' \in [Callers -> Card \cup {None}]
      /\ entry' \in Entry \cup {None} /\ flush' \in [Flushes -> Flush]
      /\ ~card => shown' = None
  BY <1>1 DEF SurfaceTypeOK, RunnerInv
<1> QED
  BY <1>3, <1>4, <1>5, ShowsKeep

\* The holder of the runtime's lock goes on to the messenger's, if there is a record.
LEMMA RenderCardKeeps ==
  ASSUME SurfaceInv, UNCHANGED surfaceVars, NEW c \in Callers, RenderCard(c)
  PROVE  SurfaceInv' /\ shown' = shown
<1>1. /\ SurfaceTypeOK /\ QueueInv /\ Shows
      /\ UNCHANGED <<task, card, runner, handler, shown, unshown, view, entry, flush, faults>>
      /\ outer # <<>> /\ Head(outer) = c /\ c \notin Range(inner)
      /\ outer \in Seq({"runner"} \cup Handlers) /\ Distinct(outer)
      /\ inner \in Seq(Callers) /\ Distinct(inner)
  BY DEF RenderCard, SurfaceInv, Shows, surfaceVars, SurfaceTypeOK, QueueInv
<1>2. /\ Tail(outer) \in Seq({"runner"} \cup Handlers) /\ Distinct(Tail(outer))
      /\ Range(Tail(outer)) = Range(outer) \ {c} /\ c \in Range(outer)
  BY <1>1, TailFacts
<1>3. c \notin Flushes
  <2>1. c \in {"runner"} \cup Handlers
    BY <1>1
  <2> QED
    BY <2>1, MessengerAssumption
<1>4. CASE task = None
  <2>1. outer' = Tail(outer) /\ UNCHANGED inner
    BY <1>4 DEF RenderCard
  <2>2. (\A d \in Range(inner) : d \in Flushes \/ first(outer, d))'
    BY <1>1, <2>1 DEF QueueInv, first
  <2>3. QueueInv'
    BY <1>1, <1>2, <2>1, <2>2 DEF QueueInv
  <2> QED
    BY <1>1, <1>2, <1>4, <2>1, <2>3, QueueStepKeeps
<1>5. CASE task # None
  <2>1. inner' = Append(inner, c) /\ UNCHANGED outer
    BY <1>5 DEF RenderCard
  <2>2. /\ inner' \in Seq(Callers) /\ Distinct(inner') /\ Range(inner') = Range(inner) \cup {c}
        /\ \A d : first(inner, d) => first(inner', d)
    BY <1>1, <2>1, AppendFacts
  <2>3. (\A d \in Range(inner) : d \in Flushes \/ first(outer, d))'
    BY <1>1, <2>1, <2>2 DEF QueueInv, first
  <2>4. (\A f \in Flushes : f \in Range(inner) <=> flush[f].at = "render")'
    BY <1>1, <1>3, <2>2 DEF QueueInv
  <2>5. (\A d \in Callers : view[d] # None => first(inner, d) /\ card)'
    BY <1>1, <2>2 DEF QueueInv
  <2>6. QueueInv'
    BY <1>1, <2>1, <2>2, <2>3, <2>4, <2>5 DEF QueueInv
  <2> QED
    BY <1>1, <2>1, <2>2, <2>6, QueueStepKeeps
<1> QED
  BY <1>4, <1>5

\* A flush takes the newest progress to the messenger's lock.
LEMMA FlushWakesKeeps ==
  ASSUME SurfaceInv, UNCHANGED surfaceVars, NEW f \in Flushes, FlushWakes(f)
  PROVE  SurfaceInv' /\ shown' = shown
<1>1. /\ SurfaceTypeOK /\ QueueInv /\ RunnerInv /\ ProgressInv /\ AttemptInv /\ NewestInv
      /\ FinalInv /\ OrderInv /\ Shows
      /\ UNCHANGED <<task, card, runner, handler, closing, shown, unshown, view, entry, outer,
                     silent, faults>>
      /\ flush[f].at = "sleep"
      /\ inner \in Seq(Callers) /\ Distinct(inner) /\ f \in Callers
      /\ flush \in [Flushes -> Flush]
  BY DEF FlushWakes, SurfaceInv, Shows, surfaceVars, SurfaceTypeOK, QueueInv, Callers
<1>2. Current(f) /\ ~silent /\ entry \in Entry
  <2>1. ~Outlived(f)
    BY <1>1 DEF Outlived
  <2>2. Current(f)
    BY <1>1, <2>1 DEF ProgressInv
  <2> QED
    BY <1>1, <2>2 DEF Current, ProgressInv, SurfaceTypeOK
<1> DEFINE woken == [at |-> "render", entry |-> entry.id, version |-> entry.version,
                     progress |-> entry.progress]
<1>3. flush' = [flush EXCEPT ![f] = woken] /\ inner' = Append(inner, f)
  BY <1>2 DEF FlushWakes, Current
<1>4. /\ woken \in Flush /\ woken.at = "render" /\ woken.entry = entry.id
      /\ woken.version = entry.version /\ woken.progress = entry.progress
      /\ entry.version \in Nat /\ entry.progress \in AgentProgress
  BY <1>2 DEF Flush, Entry
<1> HIDE DEF woken
<1>5. /\ flush' \in [Flushes -> Flush] /\ flush'[f] = woken
      /\ \A g \in Flushes : g # f => flush'[g] = flush[g]
  BY <1>1, <1>3, <1>4
<1>6. f \notin Range(inner)
  BY <1>1 DEF QueueInv
<1>7. /\ inner' \in Seq(Callers) /\ Distinct(inner') /\ Range(inner') = Range(inner) \cup {f}
      /\ \A d : first(inner, d) => first(inner', d)
  BY <1>1, <1>3, <1>6, AppendFacts
<1>8. QueueInv'
  <2>1. (\A d \in Range(inner) : d \in Flushes \/ first(outer, d))'
    BY <1>1, <1>7 DEF QueueInv
  <2>2. (\A g \in Flushes : g \in Range(inner) <=> flush[g].at = "render")'
    BY <1>1, <1>4, <1>5, <1>7 DEF QueueInv
  <2>3. (\A d \in Callers : view[d] # None => first(inner, d) /\ card)'
    BY <1>1, <1>7 DEF QueueInv
  <2> QED
    BY <1>1, <1>7, <2>1, <2>2, <2>3 DEF QueueInv
<1>9. view[f] = None
  <2>1. first(inner, f) => f \in Range(inner)
    BY <1>1, TailFacts DEF first
  <2> QED
    BY <1>1, <1>6, <2>1 DEF QueueInv
<1>10. ProgressInv'
  <2>1. ASSUME NEW g \in Flushes
        PROVE  (IF flush[g].at = "none" THEN flush[g] = NoFlush ELSE Current(g) \/ Outlived(g))'
    <3>1. CASE g = f
      <4>1. Current(f)'
        BY <1>1, <1>2, <1>4, <1>5, <1>9 DEF Current
      <4> QED
        BY <1>4, <1>5, <3>1, <4>1
    <3>2. CASE g # f
      <4>1. flush'[g] = flush[g]
        BY <1>5, <3>2
      <4>2. (Current(g) => Current(g)') /\ (Outlived(g) => Outlived(g)')
        BY <1>1, <4>1 DEF Current, Outlived
      <4> QED
        BY <1>1, <4>1, <4>2 DEF ProgressInv
    <3> QED
      BY <3>1, <3>2
  <2>2. (entry # None /\ Settled /\ ~is_closed =>
           \/ runner.at = "enrich"
           \/ runner.at = "last" /\ "runner" \in Range(outer) /\ view["runner"] = None)'
    BY <1>1 DEF ProgressInv, Settled, is_closed
  <2>3. (entry # None /\ entry.flush # None => flush[entry.flush].at # "none")'
    BY <1>1, <1>2, <1>4, <1>5 DEF Current
  <2> QED
    BY <1>1, <2>1, <2>2, <2>3 DEF ProgressInv
<1>11. AttemptInv' /\ NewestInv' /\ FinalInv' /\ OrderInv'
  <2>1. FinalInv'
    BY <1>1 DEF FinalInv, Settled, is_closed
  <2>2. AttemptInv' /\ NewestInv' /\ OrderInv'
    BY <1>1 DEF AttemptInv, OfAttempt, NewestInv, OrderInv, active_task, is_closed
  <2> QED
    BY <2>1, <2>2
<1>12. /\ shown' \in Card \cup {None} /\ unshown' \in BOOLEAN /\ faults' \in Nat
       /\ outer' \in Seq({"runner"} \cup Handlers)
       /\ view' \in [Callers -> Card \cup {None}] /\ entry' \in Entry \cup {None}
       /\ ~card => shown' = None
  BY <1>1 DEF SurfaceTypeOK, RunnerInv
<1>13. ~ \A g \in Flushes : flush[g] = NoFlush
  BY <1>1 DEF NoFlush
<1>14. SurfaceInv'
  BY <1>1, <1>5, <1>7, <1>8, <1>10, <1>11, <1>12, <1>13, ShowsKeep
<1> QED
  BY <1>1, <1>14

\* Every step of a render keeps the invariant, and the card does not go back.
LEMMA RendersKeep ==
  ASSUME SurfaceInv, Renders
  PROVE  SurfaceInv' /\ (shown # None => shown'.record.revision >= shown.record.revision)
<1>1. PICK c \in Callers : RenderStep(c)
  BY DEF Renders
<1>2. UNCHANGED surfaceVars
  BY DEF Renders
<1>3. shown # None /\ shown' = shown => shown'.record.revision >= shown.record.revision
  BY DEF SurfaceInv, SurfaceTypeOK, Card, Record
<1>4. CASE RenderCard(c)
  BY <1>2, <1>3, <1>4, RenderCardKeeps
<1>5. CASE ReadCurrent(c)
  <2>1. /\ inner # <<>> /\ Head(inner) = c /\ view[c] = None /\ Shows
        /\ UNCHANGED <<shown, unshown, faults>>
    BY <1>2, <1>5 DEF ReadCurrent, Shows
  <2>2. CASE (task = None \/ ~card) /\ leave(c)
    BY <1>3, <2>1, <2>2, NothingToShow
  <2>3. CASE /\ task # None /\ card /\ is_active(task)
             /\ view' = [view EXCEPT ![c] = card_of(task, progress_for(c))]
             /\ UNCHANGED <<outer, inner, entry, flush>>
    BY <1>3, <2>1, <2>3, ReadActive
  <2>4. CASE /\ task # None /\ card /\ ~is_active(task)
             /\ finish(c)
             /\ view' = [view EXCEPT ![c] = card_of(task, None)]
             /\ UNCHANGED outer
    BY <1>3, <2>1, <2>4, ReadSettled DEF Settled
  <2> QED
    BY <1>5, <2>2, <2>3, <2>4 DEF ReadCurrent
<1>6. CASE EditDone(c)
  BY <1>2, <1>6, EditDoneKeeps
<1>7. CASE EditFails(c)
  BY <1>2, <1>3, <1>7, EditFailsKeeps
<1> QED
  BY <1>1, <1>4, <1>5, <1>6, <1>7 DEF RenderStep

----------------------------------------------------------------------------
(* Reports of progress.                                                    *)

\* Reports of progress are well formed, and so is what they are merged into.
LEMMA ProgressTypes ==
  ASSUME NEW attempt \in Nat, NEW parts, NEW n \in Nat
  PROVE  /\ progress_of(attempt, parts, n) \in AgentProgress
         /\ progress_of(attempt, parts, n).attempt = attempt
         /\ \A p \in AgentProgress :
              /\ merge(p, progress_of(attempt, parts, n)) \in AgentProgress
              /\ merge(p, progress_of(attempt, parts, n)).attempt = attempt
<1>1. [q \in Parts |-> IF q \in parts THEN n ELSE 0] \in [Parts -> Nat]
  OBVIOUS
<1>2. /\ progress_of(attempt, parts, n) \in AgentProgress
      /\ progress_of(attempt, parts, n).attempt = attempt
  BY <1>1 DEF progress_of, AgentProgress
<1> DEFINE u == progress_of(attempt, parts, n)
<1> HIDE DEF u
<1>3. u \in AgentProgress /\ u.attempt = attempt
  BY <1>2 DEF u
<1>6. ASSUME NEW p \in AgentProgress
      PROVE  merge(p, u) \in AgentProgress /\ merge(p, u).attempt = attempt
  <2>1. u.value \in [Parts -> Nat] /\ p.value \in [Parts -> Nat]
    BY <1>3 DEF AgentProgress
  <2>2. [q \in Parts |-> IF u.value[q] # 0 THEN u.value[q] ELSE p.value[q]] \in [Parts -> Nat]
    BY <2>1
  <2> QED
    BY <1>3, <2>2 DEF merge, AgentProgress
<1> QED
  BY <1>2, <1>6 DEF u

\* A report joins the entry of its attempt, or opens one, and a flush is due.
LEMMA UpdateFacts ==
  ASSUME SurfaceInv, NEW p \in AgentProgress, NEW n \in Nat, update(p, n),
         entry # None => merge(entry.progress, p) \in AgentProgress,
         entry # None => merge(entry.progress, p).attempt = p.attempt,
         runner.at = "ask", task # None, is_active(task), p.attempt = task.attempt
  PROVE  /\ entry' \in Entry /\ entry' # None /\ entry'.progress.attempt = p.attempt
         /\ entry'.flush \in Flushes
         /\ flush' \in [Flushes -> Flush]
         /\ \A f \in Flushes : f # entry'.flush => flush[f] = NoFlush /\ flush'[f] = NoFlush
         /\ LET f == entry'.flush
            IN  \/ /\ flush[f] = NoFlush
                   /\ flush'[f].at = "sleep" /\ flush'[f].entry = entry'.id
                \/ /\ Current(f) /\ flush'[f] = flush[f] /\ flush[f].at # "none"
                   /\ entry'.id = entry.id /\ entry'.version = entry.version + 1
<1> DEFINE merged == IF entry = None
                       THEN [id |-> n, version |-> 1, progress |-> p, flush |-> None]
                       ELSE [entry EXCEPT !.progress = merge(@, p), !.version = @ + 1]
<1>1. /\ entry \in Entry \cup {None} /\ flush \in [Flushes -> Flush] /\ ProgressInv
      /\ None \notin Flushes
  BY MessengerAssumption DEF SurfaceInv, SurfaceTypeOK
<1>2. /\ merged \in Entry /\ merged.progress.attempt = p.attempt
      /\ entry = None => merged.flush = None
      /\ entry # None => /\ merged.flush = entry.flush /\ merged.id = entry.id
                         /\ merged.version = entry.version + 1
  <2>1. CASE entry = None
    <3>1. merged = [id |-> n, version |-> 1, progress |-> p, flush |-> None]
      BY <2>1
    <3> HIDE DEF merged
    <3> QED
      BY <2>1, <3>1 DEF Entry
  <2>2. CASE entry # None
    <3> DEFINE m == merge(entry.progress, p)
    <3>1. /\ entry \in Entry /\ m \in AgentProgress /\ m.attempt = p.attempt
          /\ entry.version + 1 \in Nat
      BY <1>1, <2>2 DEF Entry
    <3>2. merged = [entry EXCEPT !.progress = m, !.version = entry.version + 1]
      BY <2>2, <3>1 DEF Entry
    <3> HIDE DEF merged, m
    <3> QED
      BY <2>2, <3>1, <3>2 DEF Entry
  <2> QED
    BY <2>1, <2>2
<1>3. IF merged.flush = None
        THEN \E f \in Flushes :
               /\ flush[f] = NoFlush
               /\ flush' = [flush EXCEPT ![f] = sleeping(merged.id)]
               /\ entry' = [merged EXCEPT !.flush = f]
        ELSE entry' = merged /\ UNCHANGED flush
  BY DEF update
<1> HIDE DEF merged
<1>4. \A f \in Flushes : flush[f] # NoFlush => entry # None /\ entry.flush = f /\ Current(f)
  <2> SUFFICES ASSUME NEW f \in Flushes, flush[f] # NoFlush
               PROVE  entry # None /\ entry.flush = f /\ Current(f)
    OBVIOUS
  <2>1. ~Outlived(f)
    BY DEF Outlived
  <2>2. Current(f)
    BY <1>1, <2>1 DEF ProgressInv
  <2> QED
    BY <2>2 DEF Current
<1>5. CASE merged.flush = None
  <2>1. PICK f \in Flushes : /\ flush[f] = NoFlush
                             /\ flush' = [flush EXCEPT ![f] = sleeping(merged.id)]
                             /\ entry' = [merged EXCEPT !.flush = f]
    BY <1>3, <1>5
  <2>2. /\ sleeping(merged.id) \in Flush /\ sleeping(merged.id).at = "sleep"
        /\ sleeping(merged.id).entry = merged.id
    BY <1>2 DEF sleeping, NoFlush, Flush, Entry
  <2>3. /\ entry' \in Entry /\ entry'.flush = f /\ entry'.id = merged.id
        /\ entry'.progress = merged.progress
    BY <1>2, <2>1 DEF Entry
  <2>4. \A g \in Flushes : flush[g] = NoFlush
    BY <1>1, <1>2, <1>4, <1>5
  <2> QED
    BY <1>1, <1>2, <2>1, <2>2, <2>3, <2>4, AbsenceAssumption
<1>6. CASE merged.flush # None
  <2>1. entry' = merged /\ flush' = flush /\ entry # None /\ merged.flush = entry.flush
    BY <1>2, <1>3, <1>6
  <2>2. entry.flush \in Flushes /\ flush[entry.flush].at # "none"
    BY <1>1, <1>2, <1>6, <2>1 DEF ProgressInv, Entry
  <2>3. flush[entry.flush] # NoFlush
    BY <2>2 DEF NoFlush
  <2> QED
    BY <1>1, <1>2, <1>4, <2>1, <2>2, <2>3, AbsenceAssumption
<1> QED
  BY <1>5, <1>6

\* The sink keeps the invariant.
LEMMA ProgressKeeps ==
  ASSUME SurfaceInv, NEW parts, Progress(parts)
  PROVE  SurfaceInv' /\ shown' = shown
<1>1. /\ SurfaceTypeOK /\ QueueInv /\ RunnerInv /\ ProgressInv /\ AttemptInv /\ NewestInv
      /\ FinalInv /\ OrderInv /\ HandlerInv
      /\ UNCHANGED <<task, card, shown, unshown, outer, inner, view, silent, faults, surfaceVars>>
      /\ UNCHANGED <<runner, handler, closing, created>>
      /\ runner.at = "ask" /\ updates_made' = updates_made + 1 /\ updates_made' \in Nat
  BY DEF Progress, sink, surfaceVars, SurfaceInv, SurfaceTypeOK
<1>2. CASE UNCHANGED <<entry, flush>>
  <2>1. SurfaceTypeOK'
    BY <1>1, <1>2 DEF SurfaceTypeOK, StagingTypeOK, surfaceVars, stagingVars
  <2>2. QueueInv' /\ RunnerInv'
    BY <1>1, <1>2 DEF QueueInv, RunnerInv, is_closed
  <2>3. ProgressInv'
    BY <1>1, <1>2 DEF ProgressInv, Settled, is_closed, Current, Outlived
  <2>4. AttemptInv' /\ NewestInv' /\ OrderInv' /\ FinalInv'
    BY <1>1, <1>2 DEF AttemptInv, OfAttempt, NewestInv, OrderInv, FinalInv, Settled, active_task,
      is_closed
  <2>5. HandlerInv'
    BY <1>1, OwnersStay DEF surfaceVars
  <2> QED
    BY <1>1, <2>1, <2>2, <2>3, <2>4, <2>5 DEF SurfaceInv
<1>3. CASE ~ UNCHANGED <<entry, flush>>
  <2> DEFINE n == updates_made + 1
             p == progress_of(task.attempt, parts, n)
  <2>1. task # None /\ is_active(task) /\ card /\ ~silent /\ update(p, n)
    BY <1>3 DEF Progress, sink
  <2>2. task.attempt \in Nat /\ n \in Nat /\ task \in Record
    BY <1>1, <2>1 DEF SurfaceTypeOK, Record
  <2>3. /\ p \in AgentProgress /\ p.attempt = task.attempt
        /\ entry # None => /\ merge(entry.progress, p) \in AgentProgress
                           /\ merge(entry.progress, p).attempt = task.attempt
    <3>1. entry # None => entry.progress \in AgentProgress
      BY <1>1 DEF SurfaceTypeOK, Entry
    <3> QED
      BY <2>2, <3>1, ProgressTypes
  <2> HIDE DEF n, p
  <2>4. /\ entry' \in Entry /\ entry' # None /\ entry'.progress.attempt = p.attempt
        /\ entry'.flush \in Flushes
        /\ flush' \in [Flushes -> Flush]
        /\ \A f \in Flushes : f # entry'.flush => flush[f] = NoFlush /\ flush'[f] = NoFlush
        /\ LET f == entry'.flush
           IN  \/ /\ flush[f] = NoFlush
                  /\ flush'[f].at = "sleep" /\ flush'[f].entry = entry'.id
               \/ /\ Current(f) /\ flush'[f] = flush[f] /\ flush[f].at # "none"
                  /\ entry'.id = entry.id /\ entry'.version = entry.version + 1
    BY <1>1, <2>1, <2>2, <2>3, UpdateFacts
  <2>5. SurfaceTypeOK'
    BY <1>1, <2>4 DEF SurfaceTypeOK, StagingTypeOK, surfaceVars, stagingVars
  <2>6. \A f \in Flushes : flush'[f].at = "render" <=> flush[f].at = "render"
    <3>1. NoFlush.at = "none"
      BY DEF NoFlush
    <3> QED
      BY <2>4, <3>1
  <2>7. QueueInv'
    BY <1>1, <2>6 DEF QueueInv
  <2>8. RunnerInv'
    BY <1>1, <2>1 DEF RunnerInv, is_closed
  <2>9. ProgressInv'
    <3>1. ~Settled' /\ ~silent'
      BY <1>1, <2>1 DEF Settled
    <3>2. entry'.progress.attempt = task'.attempt
      BY <1>1, <2>3, <2>4
    <3>3. ASSUME NEW f \in Flushes
          PROVE  (IF flush[f].at = "none" THEN flush[f] = NoFlush ELSE Current(f))'
      <4>1. CASE f # entry'.flush
        BY <2>4, <4>1 DEF NoFlush
      <4>2. CASE f = entry'.flush
        <5>1. CASE flush'[f].at = "sleep" /\ flush'[f].entry = entry'.id
          BY <2>4, <4>2, <5>1 DEF Current
        <5>2. CASE /\ Current(f) /\ flush'[f] = flush[f] /\ flush[f].at # "none"
                   /\ entry'.id = entry.id /\ entry'.version = entry.version + 1
          <6>1. flush[f] \in Flush /\ entry \in Entry
            BY <1>1, <5>2 DEF SurfaceTypeOK, Current
          <6>2. flush[f].version \in Nat /\ entry.version \in Nat
            BY <6>1 DEF Flush, Entry
          <6>3. entry.progress.attempt = task.attempt
            BY <1>1, <2>1, <5>2 DEF ProgressInv, Current
          <6>4. /\ entry' # None /\ entry'.flush = f /\ entry'.id = flush'[f].entry
                /\ entry'.progress.attempt = entry.progress.attempt
            BY <1>1, <2>3, <2>4, <4>2, <5>2, <6>3 DEF Current
          <6>5. flush[f].at = "render" => /\ flush[f].version <= entry'.version
                                          /\ flush[f].version # entry'.version
            BY <5>2, <6>2 DEF Current
          <6>6. Current(f)'
            BY <1>1, <5>2, <6>4, <6>5 DEF Current
          <6> QED
            BY <5>2, <6>6
        <5> QED
          BY <2>4, <4>2, <5>1, <5>2
      <4> QED
        BY <4>1, <4>2
    <3>4. flush'[entry'.flush].at # "none"
      BY <2>4
    <3> QED
      BY <3>1, <3>2, <3>3, <3>4 DEF ProgressInv
  <2>10. entry'.flush # None
    BY <2>4, MessengerAssumption
  <2>11. AttemptInv' /\ NewestInv' /\ OrderInv' /\ FinalInv'
    BY <1>1, <2>1, <2>10 DEF AttemptInv, OfAttempt, NewestInv, OrderInv, FinalInv, Settled
  <2>12. HandlerInv'
    BY <1>1, OwnersStay DEF surfaceVars
  <2> QED
    BY <1>1, <2>5, <2>7, <2>8, <2>9, <2>11, <2>12 DEF SurfaceInv
<1> QED
  BY <1>1, <1>2, <1>3

----------------------------------------------------------------------------
(* The close.                                                              *)

\* Callers that are cancelled leave the queues; an edit of theirs that was on its way may have
\* arrived.
LEMMA CancelFacts ==
  ASSUME SurfaceInv, NEW cancelled \in SUBSET Callers, cancel_renders(cancelled),
         UNCHANGED <<task, card>>
  PROVE  /\ outer' \in Seq({"runner"} \cup Handlers) /\ Distinct(outer')
         /\ inner' \in Seq(Callers) /\ Distinct(inner')
         /\ Range(outer') = Range(outer) \ cancelled /\ Range(inner') = Range(inner) \ cancelled
         /\ \A c \in Callers \ cancelled :
              /\ first(outer, c) => first(outer', c)
              /\ first(inner, c) => first(inner', c)
         /\ view' \in [Callers -> Card \cup {None}]
         /\ \A c \in Callers : view'[c] = IF c \in cancelled THEN None ELSE view[c]
         /\ shown' \in Card \cup {None} /\ unshown' \in BOOLEAN
         /\ ~card => shown' = None
         /\ AttemptInv' /\ OrderInv'
         /\ shown # None => shown'.record.revision >= shown.record.revision
<1>1. /\ outer \in Seq({"runner"} \cup Handlers) /\ Distinct(outer)
      /\ inner \in Seq(Callers) /\ Distinct(inner)
      /\ view \in [Callers -> Card \cup {None}] /\ shown \in Card \cup {None}
      /\ unshown \in BOOLEAN /\ {"runner"} \cup Handlers \subseteq Callers
      /\ QueueInv /\ RunnerInv /\ AttemptInv /\ OrderInv
  BY DEF SurfaceInv, SurfaceTypeOK, QueueInv, Callers
<1>2. outer' = drop(outer, cancelled) /\ inner' = drop(inner, cancelled)
  BY DEF cancel_renders
<1>3. /\ outer' \in Seq({"runner"} \cup Handlers) /\ Distinct(outer')
      /\ Range(outer') = Range(outer) \ cancelled
      /\ \A c \in ({"runner"} \cup Handlers) \ cancelled : first(outer, c) => first(outer', c)
  BY <1>1, <1>2, DropFacts
<1>4. /\ inner' \in Seq(Callers) /\ Distinct(inner')
      /\ Range(inner') = Range(inner) \ cancelled
      /\ \A c \in Callers \ cancelled : first(inner, c) => first(inner', c)
  BY <1>1, <1>2, DropFacts
<1>5. \A c : first(outer, c) => c \in {"runner"} \cup Handlers
  BY <1>1 DEF first
<1>6. /\ view' \in [Callers -> Card \cup {None}]
      /\ \A c \in Callers : view'[c] = IF c \in cancelled THEN None ELSE view[c]
  BY <1>1 DEF cancel_renders
<1>7. CASE \E c \in {d \in cancelled : editing(d)} : shown' = view[c] /\ unshown' = FALSE
  <2>1. PICK c \in cancelled : editing(c) /\ shown' = view[c] /\ unshown' = FALSE
    BY <1>7
  <2>2. /\ c \in Callers /\ view[c] # None /\ inner # <<>> /\ Head(inner) = c
        /\ view[c] \in Card /\ card
    BY <1>1, <2>1 DEF editing, QueueInv
  <2>3. \A d \in Callers : d # c => view[d] = None
    BY <2>2, FirstFacts
  <2>4. \A d \in Callers : view'[d] = None
    BY <1>6, <2>1, <2>3
  <2>5. AttemptInv' /\ OrderInv'
    BY <1>1, <2>1, <2>2, <2>4 DEF AttemptInv, OfAttempt, OrderInv
  <2>6. shown # None => shown'.record.revision >= shown.record.revision
    <3>1. shown # None => shown.record.revision <= view[c].record.revision
      BY <1>1, <2>2 DEF OrderInv
    <3>2. view[c].record.revision \in Nat /\ (shown # None => shown.record.revision \in Nat)
      BY <1>1, <2>2 DEF Card, Record
    <3> QED
      BY <2>1, <3>1, <3>2
  <2> QED
    BY <1>1, <1>3, <1>4, <1>5, <1>6, <2>1, <2>2, <2>5, <2>6
<1>8. CASE /\ UNCHANGED shown
           /\ unshown' = (unshown \/ cancelled \cap (Range(outer) \cup Range(inner)) # {})
  <2>1. unshown' \in BOOLEAN
    BY <1>8
  <2>2. AttemptInv' /\ OrderInv'
    BY <1>1, <1>6, <1>8 DEF AttemptInv, OfAttempt, OrderInv
  <2>3. shown # None => shown'.record.revision >= shown.record.revision
    BY <1>1, <1>8 DEF Card, Record
  <2> QED
    BY <1>1, <1>3, <1>4, <1>5, <1>6, <1>8, <2>1, <2>2, <2>3 DEF RunnerInv
<1> QED
  BY <1>7, <1>8 DEF cancel_renders

\* The runner is cancelled: its files are removed, registered or, if it has not run yet, stranded.
LEMMA CloseRunnersKeeps ==
  ASSUME SurfaceInv, CloseRunners
  PROVE  SurfaceInv' /\ (shown # None => shown'.record.revision >= shown.record.revision)
<1>1. /\ SurfaceTypeOK /\ QueueInv /\ RunnerInv /\ ProgressInv /\ HandlerInv
      /\ UNCHANGED <<task, card, entry, flush, silent, updates_made, created, handler, threads, left>>
      /\ closing' = "runners" /\ runner' = NoRunner /\ cancel_renders({"runner"})
      /\ is_closed'
  BY DEF CloseRunners, SurfaceInv, is_closed
<1>2. /\ "runner" \in Callers /\ "runner" \notin Flushes /\ "runner" \notin Handlers
      /\ Flushes \subseteq Callers
  BY MessengerAssumption, <1>1 DEF Callers
<1>3. /\ outer' \in Seq({"runner"} \cup Handlers) /\ Distinct(outer')
      /\ inner' \in Seq(Callers) /\ Distinct(inner')
      /\ Range(outer') = Range(outer) \ {"runner"} /\ Range(inner') = Range(inner) \ {"runner"}
      /\ \A c \in Callers \ {"runner"} :
           /\ first(outer, c) => first(outer', c)
           /\ first(inner, c) => first(inner', c)
      /\ view' \in [Callers -> Card \cup {None}]
      /\ \A c \in Callers : view'[c] = IF c \in {"runner"} THEN None ELSE view[c]
      /\ shown' \in Card \cup {None} /\ unshown' \in BOOLEAN
      /\ ~card => shown' = None
      /\ AttemptInv' /\ OrderInv'
      /\ shown # None => shown'.record.revision >= shown.record.revision
  <2>1. {"runner"} \in SUBSET Callers
    BY <1>2
  <2> QED
    BY <1>1, <2>1, CancelFacts
<1>4. /\ onDisk' \in Int /\ pending' \in Nat /\ stranded' \in Nat /\ faults' \in Nat
      /\ onDisk' - pending' - stranded' = onDisk - pending - stranded - one(runner.inputs)
  <2>1. /\ runner.inputs \in BOOLEAN /\ faults \in Nat /\ StagingTypeOK
        /\ one(runner.inputs) \in Nat
    BY <1>1 DEF SurfaceTypeOK, Runner, one
  <2>2. CASE unstarted
    <3>1. stranded' = stranded + one(runner.inputs) /\ UNCHANGED <<onDisk, pending, faults>>
      BY <2>2 DEF CloseRunners
    <3> DEFINE i == one(runner.inputs)
    <3> HIDE DEF i
    <3>2. i \in Nat /\ stranded' = stranded + i
      BY <2>1, <3>1 DEF i
    <3>3. onDisk' - pending' - stranded' = onDisk - pending - stranded - i
      BY <2>1, <3>1, <3>2 DEF StagingTypeOK
    <3> QED
      BY <2>1, <3>1, <3>2, <3>3 DEF StagingTypeOK, i
  <2>3. CASE ~unstarted
    <3>1. cleanup(runner.inputs) /\ UNCHANGED stranded
      BY <2>3 DEF CloseRunners
    <3>2. /\ onDisk' \in Int /\ pending' \in Nat
          /\ onDisk' - pending' = onDisk - pending - one(runner.inputs)
          /\ faults' \in {faults, faults + 1}
      BY <2>1, <3>1, CleanupFacts
    <3> DEFINE i == one(runner.inputs)
    <3> HIDE DEF i
    <3>3. i \in Nat /\ onDisk' - pending' = onDisk - pending - i
      BY <2>1, <3>2 DEF i
    <3>4. /\ {onDisk, pending, stranded, i} \subseteq Int
          /\ {onDisk, pending, stranded}' \subseteq Int
      BY <2>1, <3>1, <3>2, <3>3 DEF StagingTypeOK
    <3>5. onDisk' - pending' - stranded' = onDisk - pending - stranded - i
      BY <3>1, <3>3, <3>4
    <3> QED
      BY <2>1, <3>1, <3>2, <3>5 DEF StagingTypeOK, i
  <2> QED
    BY <2>2, <2>3
<1>5. SurfaceTypeOK'
  BY <1>1, <1>3, <1>4, NoRunnerFacts DEF SurfaceTypeOK, StagingTypeOK
<1>6. QueueInv'
  <2>1. (\A c \in Range(inner) : c \in Flushes \/ first(outer, c))'
    <3>1. ASSUME NEW c \in Range(inner') PROVE c \in Flushes \/ first(outer', c)
      <4>1. c \in Callers \ {"runner"} /\ c \in Range(inner)
        <5>1. c \in Range(inner) /\ c # "runner" /\ inner \in Seq(Callers)
          BY <1>1, <1>3 DEF SurfaceTypeOK
        <5>2. \E k \in DOMAIN inner : inner[k] = c
          BY <5>1 DEF Range
        <5> QED
          BY <5>1, <5>2
      <4> QED
        BY <1>1, <1>3, <4>1 DEF QueueInv
    <3> QED
      BY <3>1
  <2>2. (\A f \in Flushes : f \in Range(inner) <=> flush[f].at = "render")'
    BY <1>1, <1>2, <1>3 DEF QueueInv
  <2>3. (\A c \in Callers : view[c] # None => first(inner, c) /\ card)'
    BY <1>1, <1>3 DEF QueueInv
  <2> QED
    BY <1>1, <1>2, <1>3, <2>1, <2>2, <2>3 DEF QueueInv
<1>7. RunnerInv'
  BY <1>1, <1>3, NoRunnerFacts DEF RunnerInv
<1>8. ProgressInv'
  <2>1. ASSUME NEW f \in Flushes
        PROVE  (IF flush[f].at = "none" THEN flush[f] = NoFlush ELSE Current(f) \/ Outlived(f))'
    <3>1. view'[f] = view[f]
      BY <1>2, <1>3
    <3>2. (Current(f) => Current(f)') /\ (Outlived(f) => Outlived(f)')
      BY <1>1, <3>1, NoRunnerFacts DEF Current, Outlived
    <3> QED
      BY <1>1, <3>2 DEF ProgressInv
  <2> QED
    BY <1>1, <2>1 DEF ProgressInv
<1>9. NewestInv' /\ FinalInv'
  BY <1>1 DEF NewestInv, FinalInv
<1>10. HandlerInv'
  <2> DEFINE c == Cardinality(InputOwners)
             i == one(runner.inputs)
  <2>1. c \in Nat /\ onDisk = c + i + pending + stranded /\ i \in Nat
    BY <1>1, FS_CardinalityType DEF HandlerInv, NothingLeftBehind, InputsHaveOwner, InputOwners, one
  <2>2. c' = c
    BY <1>1 DEF InputOwners
  <2>3. i' = 0
    BY <1>1 DEF NoRunner, one
  <2>4. onDisk' - pending' - stranded' - i' = onDisk - pending - stranded - i
    <3>1. onDisk' - pending' - stranded' = onDisk - pending - stranded - i
      BY <1>4
    <3> HIDE DEF i
    <3> QED
      BY <1>4, <2>3, <3>1
  <2>5. /\ {i, c, onDisk, pending, stranded} \subseteq Int
        /\ {i, c, onDisk, pending, stranded}' \subseteq Int
    BY <1>1, <1>4, <2>1, <2>2, <2>3 DEF SurfaceTypeOK, StagingTypeOK
  <2> HIDE DEF c, i
  <2>6. onDisk' = c' + i' + pending' + stranded'
    BY <2>1, <2>2, <2>4, <2>5
  <2>7. onDisk' = c' + one(runner'.inputs) + pending' + stranded'
    BY <2>6 DEF i
  <2> QED
    BY <1>1, <2>7 DEF c, HandlerInv, NothingLeftBehind, InputsHaveOwner, ThreadsHaveTasks,
      InputOwners, ThreadOwners, dedicated
<1> QED
  BY <1>3, <1>5, <1>6, <1>7, <1>8, <1>9, <1>10 DEF SurfaceInv

\* The coordinator is closed: no flush and no entry is left.
LEMMA ClosePresentationKeeps ==
  ASSUME SurfaceInv, ClosePresentation
  PROVE  SurfaceInv' /\ (shown # None => shown'.record.revision >= shown.record.revision)
<1>1. /\ SurfaceTypeOK /\ QueueInv /\ RunnerInv /\ HandlerInv
      /\ UNCHANGED <<task, card, updates_made, faults, created, runner, handler, stagingVars,
                     threads, left>>
      /\ is_closed /\ is_closed' /\ cancel_renders(Flushes)
      /\ entry' = None /\ flush' = [f \in Flushes |-> NoFlush]
      /\ Flushes \in SUBSET Callers
  BY DEF ClosePresentation, close_progress, SurfaceInv, is_closed, Callers
<1>3. /\ outer' \in Seq({"runner"} \cup Handlers) /\ Distinct(outer')
      /\ inner' \in Seq(Callers) /\ Distinct(inner')
      /\ Range(outer') = Range(outer) \ Flushes /\ Range(inner') = Range(inner) \ Flushes
      /\ \A c \in Callers \ Flushes :
           /\ first(outer, c) => first(outer', c)
           /\ first(inner, c) => first(inner', c)
      /\ view' \in [Callers -> Card \cup {None}]
      /\ \A c \in Callers : view'[c] = IF c \in Flushes THEN None ELSE view[c]
      /\ shown' \in Card \cup {None} /\ unshown' \in BOOLEAN
      /\ ~card => shown' = None
      /\ AttemptInv' /\ OrderInv'
      /\ shown # None => shown'.record.revision >= shown.record.revision
  BY <1>1, CancelFacts
<1>4. /\ NoFlush \in Flush /\ NoFlush.at = "none" /\ flush' \in [Flushes -> Flush]
      /\ \A f \in Flushes : flush'[f] = NoFlush
  BY <1>1 DEF NoFlush, Flush
<1>5. SurfaceTypeOK'
  BY <1>1, <1>3, <1>4 DEF SurfaceTypeOK, StagingTypeOK, stagingVars
<1>6. QueueInv'
  <2>1. (\A c \in Range(inner) : c \in Flushes \/ first(outer, c))'
    <3>1. ASSUME NEW c \in Range(inner') PROVE c \in Flushes \/ first(outer', c)
      <4>1. c \in Callers \ Flushes /\ c \in Range(inner)
        <5>1. c \in Range(inner) /\ c \notin Flushes /\ inner \in Seq(Callers)
          BY <1>1, <1>3 DEF SurfaceTypeOK
        <5>2. \E k \in DOMAIN inner : inner[k] = c
          BY <5>1 DEF Range
        <5> QED
          BY <5>1, <5>2
      <4> QED
        BY <1>1, <1>3, <4>1 DEF QueueInv
    <3> QED
      BY <3>1
  <2>2. (\A f \in Flushes : f \in Range(inner) <=> flush[f].at = "render")'
    BY <1>3, <1>4
  <2>3. (\A c \in Callers : view[c] # None => first(inner, c) /\ card)'
    BY <1>1, <1>3 DEF QueueInv
  <2> QED
    BY <1>1, <1>3, <2>1, <2>2, <2>3 DEF QueueInv
<1>7. RunnerInv'
  BY <1>1, <1>3, <1>4 DEF RunnerInv
<1>8. ProgressInv'
  BY <1>1, <1>4 DEF ProgressInv
<1>9. NewestInv' /\ FinalInv'
  BY <1>1 DEF NewestInv, FinalInv
<1>10. HandlerInv'
  BY <1>1, OwnersStay
<1> QED
  BY <1>3, <1>5, <1>6, <1>7, <1>8, <1>9, <1>10 DEF SurfaceInv

\* The registry removes what it can: what it no longer lists does not exist any more.
LEMMA CloseStagingKeeps ==
  ASSUME SurfaceInv, CloseStaging
  PROVE  SurfaceInv' /\ shown' = shown
<1>1. /\ SurfaceTypeOK /\ QueueInv /\ RunnerInv /\ ProgressInv /\ AttemptInv /\ NewestInv
      /\ FinalInv /\ OrderInv /\ HandlerInv
      /\ UNCHANGED <<cardVars, created, runner, handler, stranded, threads, left>>
      /\ is_closed /\ is_closed'
  BY DEF CloseStaging, SurfaceInv, is_closed
<1>2. /\ onDisk' \in Int /\ pending' \in Nat
      /\ onDisk' - pending' = onDisk - pending
  <2>1. onDisk \in Int /\ pending \in Nat
    BY <1>1 DEF SurfaceTypeOK, StagingTypeOK
  <2>2. CASE onDisk' = onDisk - pending /\ pending' = 0
    BY <2>1, <2>2
  <2>3. CASE pending > 0 /\ \E n \in 0 .. pending - 1 : onDisk' = onDisk - n /\ pending' = pending - n
    <3>1. PICK n \in 0 .. pending - 1 : onDisk' = onDisk - n /\ pending' = pending - n
      BY <2>3
    <3>2. n \in Nat /\ n < pending
      BY <2>1, <3>1
    <3> QED
      BY <2>1, <3>1, <3>2
  <2> QED
    BY <2>2, <2>3 DEF CloseStaging
<1>3. SurfaceTypeOK'
  BY <1>1, <1>2 DEF SurfaceTypeOK, StagingTypeOK, cardVars
<1>4. QueueInv' /\ RunnerInv'
  BY <1>1 DEF QueueInv, RunnerInv, cardVars
<1>5. ProgressInv'
  BY <1>1 DEF ProgressInv, Current, Outlived, cardVars
<1>6. AttemptInv' /\ NewestInv' /\ FinalInv' /\ OrderInv'
  BY <1>1 DEF AttemptInv, OfAttempt, NewestInv, FinalInv, OrderInv, cardVars
<1>7. HandlerInv'
  <2> DEFINE c == Cardinality(InputOwners)
             i == one(runner.inputs)
  <2>1. c \in Nat /\ onDisk = c + i + pending + stranded /\ i \in Nat
    BY <1>1, FS_CardinalityType DEF HandlerInv, NothingLeftBehind, InputsHaveOwner, InputOwners, one
  <2>2. c' = c /\ i' = i
    BY <1>1 DEF InputOwners
  <2>3. /\ {i, c, onDisk, pending, stranded} \subseteq Int
        /\ {i, c, onDisk, pending, stranded}' \subseteq Int
    BY <1>1, <1>2, <2>1, <2>2 DEF SurfaceTypeOK, StagingTypeOK
  <2>4. onDisk' - pending' - stranded' - i' = onDisk - pending - stranded - i
    <3> HIDE DEF i, c
    <3> QED
      BY <1>1, <1>2, <2>2, <2>3
  <2> HIDE DEF c, i
  <2>5. onDisk' = c' + i' + pending' + stranded'
    BY <2>1, <2>2, <2>3, <2>4
  <2>6. onDisk' = c' + one(runner'.inputs) + pending' + stranded'
    BY <2>5 DEF i
  <2> QED
    BY <1>1, <2>6 DEF c, HandlerInv, NothingLeftBehind, InputsHaveOwner, ThreadsHaveTasks,
      InputOwners, ThreadOwners, dedicated
<1> QED
  BY <1>1, <1>3, <1>4, <1>5, <1>6, <1>7 DEF SurfaceInv, cardVars

----------------------------------------------------------------------------
(* Theorems.                                                               *)

\* The invariant holds at first, when nothing has happened.
LEMMA SurfaceInit == Init => SurfaceInv
<1> SUFFICES ASSUME Init PROVE SurfaceInv
  OBVIOUS
<1> USE DEF Init, CardInit
<1>1. /\ NoFlush \in Flush /\ NoFlush.at = "none"
      /\ NoEvent \in Event /\ NoEvent.at = "none" /\ NoEvent.inputs = FALSE
      /\ NoEvent.what = None
  BY DEF NoFlush, Flush, NoEvent, Event, HandlerStages
<1>2. /\ \A f \in Flushes : flush[f] = NoFlush
      /\ \A c \in Callers : view[c] = None
      /\ \A h \in Handlers : handler[h] = NoEvent
      /\ Range(outer) = {} /\ Range(inner) = {}
  BY DEF Range
<1>3. SurfaceTypeOK
  <2>1. /\ view \in [Callers -> Card \cup {None}] /\ flush \in [Flushes -> Flush]
        /\ handler \in [Handlers -> Event]
    BY <1>1
  <2>2. outer \in Seq({"runner"} \cup Handlers) /\ inner \in Seq(Callers)
    OBVIOUS
  <2>3. StagingTypeOK
    BY DEF StagingTypeOK
  <2> QED
    BY <2>1, <2>2, <2>3, NoRunnerFacts DEF SurfaceTypeOK
<1>4. QueueInv
  BY <1>1, <1>2 DEF QueueInv, Distinct
<1>5. RunnerInv
  BY <1>2, NoRunnerFacts DEF RunnerInv, is_closed
<1>6. ProgressInv /\ AttemptInv /\ NewestInv /\ FinalInv /\ OrderInv
  BY <1>1, <1>2 DEF ProgressInv, AttemptInv, NewestInv, FinalInv, OrderInv, Settled
<1>7. HandlerInv
  <2>1. \A h \in Handlers : ~handler[h].inputs /\ ~dedicated(h) /\ handler[h].at = "none"
    BY <1>1, <1>2, SurfaceAssumption DEF dedicated
  <2>2. InputOwners = {} /\ ThreadOwners = {}
    BY <2>1 DEF InputOwners, ThreadOwners
  <2>3. IsFiniteSet({}) /\ Cardinality({}) = 0
    BY FS_EmptySet
  <2>4. one(runner.inputs) = 0
    BY DEF one, NoRunner
  <2>5. NothingLeftBehind
    <3>1. Cardinality(InputOwners) = 0 /\ Cardinality(ThreadOwners) = 0
      BY <2>2, <2>3
    <3>2. onDisk = Cardinality(InputOwners) + one(runner.inputs) + pending + stranded
      BY <2>4, <3>1
    <3>3. threads = Cardinality(ThreadOwners) + left
      BY <3>1
    <3> QED
      BY <3>2, <3>3 DEF NothingLeftBehind, InputsHaveOwner, ThreadsHaveTasks, InputOwners,
        ThreadOwners
  <2> QED
    BY <2>1, <2>2, <2>3, <2>5 DEF HandlerInv
<1> QED
  BY <1>3, <1>4, <1>5, <1>6, <1>7 DEF SurfaceInv

\* Every step keeps the invariant, and no step takes the card back to an older record.
LEMMA SurfaceNext ==
  ASSUME SurfaceInv, [Next]_vars
  PROVE  SurfaceInv' /\ (shown # None => shown'.record.revision >= shown.record.revision)
<1>1. shown # None /\ shown' = shown => shown'.record.revision >= shown.record.revision
  BY DEF SurfaceInv, SurfaceTypeOK, Card, Record
<1>2. CASE UNCHANGED vars
  <2>1. UNCHANGED <<cardVars, surfaceVars>>
    BY <1>2 DEF vars
  <2>2. SurfaceTypeOK'
    BY <2>1 DEF SurfaceInv, SurfaceTypeOK, StagingTypeOK, cardVars, surfaceVars, stagingVars
  <2>3. QueueInv' /\ RunnerInv'
    BY <2>1 DEF SurfaceInv, QueueInv, RunnerInv, is_closed, cardVars, surfaceVars
  <2>4. ProgressInv'
    BY <2>1 DEF SurfaceInv, ProgressInv, Current, Outlived, Settled, is_closed, cardVars, surfaceVars
  <2>5. AttemptInv' /\ NewestInv' /\ FinalInv' /\ OrderInv'
    BY <2>1 DEF SurfaceInv, AttemptInv, OfAttempt, NewestInv, FinalInv, OrderInv, Settled,
      active_task, is_closed, cardVars, surfaceVars
  <2>6. HandlerInv'
    BY <2>1, OwnersStay DEF SurfaceInv, surfaceVars
  <2>7. shown' = shown
    BY <2>1 DEF cardVars
  <2> QED
    BY <1>1, <2>2, <2>3, <2>4, <2>5, <2>6, <2>7 DEF SurfaceInv
<1>3. CASE \E h \in Handlers : HandlerStep(h)
  BY <1>1, <1>3, HandlerStepKeeps
<1>4. CASE RunnerStep
  BY <1>1, <1>4, RunnerStepKeeps
<1>5. CASE RunnerDone
  BY <1>1, <1>5, RunnerDoneKeeps
<1>6. CASE \E parts \in Notifications : Progress(parts)
  BY <1>1, <1>6, ProgressKeeps
<1>7. CASE Renders
  BY <1>7, RendersKeep
<1>8. CASE \E f \in Flushes : Flushing(f)
  BY <1>1, <1>8, FlushWakesKeeps DEF Flushing
<1>9. CASE CloseRunners
  BY <1>9, CloseRunnersKeeps
<1>10. CASE ClosePresentation
  BY <1>10, ClosePresentationKeeps
<1>11. CASE CloseStaging
  BY <1>1, <1>11, CloseStagingKeeps
<1> QED
  BY <1>2, <1>3, <1>4, <1>5, <1>6, <1>7, <1>8, <1>9, <1>10, <1>11 DEF Next

\* The inductive invariant: how the record, the runner, the locks' queues, the coordinator, its
\* flushes, what is on the card and what is owned hang together.
THEOREM SurfaceInvariant == Spec => []SurfaceInv
<1>1. Init => SurfaceInv
  BY SurfaceInit
<1>2. SurfaceInv /\ [Next]_vars => SurfaceInv'
  BY SurfaceNext
<1> QED
  BY <1>1, <1>2, PTL DEF Spec

\* The card of a settled task that is left alone shows how the task ended, whoever rendered last.
THEOREM CardEndsRight == Spec => []FinalCardShown
<1>1. SurfaceInv => FinalCardShown
  <2> SUFFICES ASSUME SurfaceInv, task # None, ~is_active(task), card, ~is_closed,
                      runner = NoRunner, outer = <<>>, inner = <<>>, ~unshown
               PROVE  shown = card_of(task, None)
    BY DEF FinalCardShown
  <2>1. runner.at # "enrich"
    BY NoRunnerFacts
  <2>2. Range(outer) = {}
    BY DEF Range
  <2>3. \A c \in Callers : view[c] = None
    BY DEF SurfaceInv, QueueInv, first
  <2> QED
    BY <2>1, <2>2, <2>3 DEF SurfaceInv, FinalInv, Settled
<1> QED
  BY <1>1, SurfaceInvariant, PTL

\* The progress on the card is of the attempt it shows and, once no flush is due, the newest.
THEOREM ProgressAlwaysShown == Spec => []ProgressShown
<1>1. SurfaceInv => ProgressShown
  <2> SUFFICES ASSUME SurfaceInv PROVE ProgressOfAttempt /\ NewestProgressShown
    BY DEF ProgressShown
  <2>1. ProgressOfAttempt
    BY DEF SurfaceInv, AttemptInv, OfAttempt, ProgressOfAttempt
  <2>2. NewestProgressShown
    BY DEF SurfaceInv, NewestInv, NewestProgressShown
  <2> QED
    BY <2>1, <2>2
<1> QED
  BY <1>1, SurfaceInvariant, PTL

\* Every staged directory and every dedicated thread has an owner who will see to it.
THEOREM NothingIsLeft == Spec => []NothingLeftBehind
<1>1. SurfaceInv => NothingLeftBehind
  BY DEF SurfaceInv, HandlerInv
<1> QED
  BY <1>1, SurfaceInvariant, PTL

\* Whoever edits the card, and however the edits overlap, it never shows an older record again.
THEOREM CardOnlyAdvances == Spec => CardNeverGoesBack
<1>1. SurfaceInv /\ [Next]_vars =>
        [shown # None => shown'.record.revision >= shown.record.revision]_vars
  BY SurfaceNext
<1> QED
  BY <1>1, SurfaceInvariant, PTL DEF Spec, CardNeverGoesBack
=============================================================================

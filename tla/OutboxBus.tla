----------------------------- MODULE OutboxBus ------------------------------
(***************************************************************************)
(* The event pipeline: the transactional outbox, the drainers that pump it *)
(* to the broker, and the idempotent consumers behind the broker.          *)
(*                                                                         *)
(* An outbox row is durable; a drainer keeps only the batch that           *)
(* list_pending returned and a consumer only the envelope in hand, so a    *)
(* crash loses just those.  The broker may append an envelope and still    *)
(* report failure, and it may deliver an appended envelope any number of   *)
(* times, so a topic is the set of envelopes appended to it.               *)
(***************************************************************************)
EXTENDS Naturals, FiniteSets, Sequences

CONSTANTS
  Events,     \* event ids
  Envelope,   \* Events -> Envelopes: the content recorded under an id
  DedupKey,   \* Events -> Keys: dedup scope and idempotency_key together
  Keys,
  Tenants,
  Drainers, Consumers,
  MaxCrashes  \* bound: process crashes in one behaviour

System == "system-scope"

Envelopes ==
  [context : {"tenant", "system", "aggregate"}, owner : Tenants \cup {System},
   status : {"k_anonymized", "suppressed", "pending_review"},
   cohort : Nat, threshold : Nat,
   integral : BOOLEAN,       \* are the two numbers ints, not floats such as 5.0?
   declared : BOOLEAN]       \* does AsyncAPI declare this topic and producer?

ASSUME OutboxBusAssumption ==
  /\ Envelope \in [Events -> Envelopes]
  /\ DedupKey \in [Events -> Keys]
  /\ IsFiniteSet(Consumers)
  /\ MaxCrashes \in Nat
  /\ \A e \in Events : Envelope[e].context = "tenant" <=> Envelope[e].owner \in Tenants

VARIABLES
  recorded,   \* event ids in the outbox, in recording order
  marked,     \* event ids marked published
  main, dlq,  \* envelopes appended to their main topic / dead-letter topic
  batch,      \* batch[d]: what drainer d has left of its list_pending result
  toMark,     \* toMark[d]: the envelope dealt with whose mark is outstanding
  seen,       \* idempotency keys marked by the consumers
  inHand,     \* inHand[c]: [step, event] of consumer c
  runs,       \* runs[k]: completed handler runs for key k
  crashes

outboxVars == <<recorded, marked>>
topicVars == <<main, dlq>>
drainVars == <<batch, toMark>>
consumerVars == <<seen, inHand, runs>>
vars == <<outboxVars, topicVars, drainVars, consumerVars, crashes>>

Idle == [step |-> "idle", event |-> System]

ConsumerStep == [step : {"idle", "handler", "mark"}, event : Events \cup {System}]

RecordedSet == {recorded[n] : n \in DOMAIN recorded}

TypeOK ==
  /\ recorded \in Seq(Events)
  /\ marked \subseteq Events
  /\ main \subseteq Events
  /\ dlq \subseteq Events
  /\ batch \in [Drainers -> SUBSET Events]
  /\ toMark \in [Drainers -> SUBSET Events]
  /\ seen \subseteq Keys
  /\ inHand \in [Consumers -> ConsumerStep]
  /\ runs \in [Keys -> Nat]
  /\ crashes \in Nat

Init ==
  /\ recorded = <<>> /\ marked = {}
  /\ main = {} /\ dlq = {}
  /\ batch = [d \in Drainers |-> {}] /\ toMark = [d \in Drainers |-> {}]
  /\ seen = {} /\ inHand = [c \in Consumers |-> Idle]
  /\ runs = [k \in Keys |-> 0]
  /\ crashes = 0
-----------------------------------------------------------------------------
(* OutboxPort.record: the same id again is a no-op.                        *)
Record(e) ==
  /\ e \notin RecordedSet
  /\ recorded' = Append(recorded, e)
  /\ UNCHANGED <<marked, topicVars, drainVars, consumerVars, crashes>>

(* Mutant: a cohort exactly at the threshold is refused.                   *)
AnonymousStrict(v) == v.cohort > v.threshold

(* KAnonymityGate.                                                         *)
Anonymous(v) == v.cohort >= v.threshold

(* Mutant: poison is recognised before the privacy guard is consulted.     *)
GuardAfterPoison(v) ==
  IF v.context # "aggregate" \/ ~v.declared \/ Anonymous(v) THEN "pass" ELSE "suppress"

(* guard_aggregate_publish as the drainer sees it: it passes, it raises a  *)
(* PrivacyGuardError, or another exception (the gate insists on ints,      *)
(* which the envelope schema does not).                                    *)
Guard(v) ==
  IF v.context # "aggregate" THEN "pass"
  ELSE IF v.status # "k_anonymized" THEN "suppress"
  ELSE IF ~v.integral THEN "raise"
  ELSE IF Anonymous(v) THEN "pass" ELSE "suppress"

(* list_pending of one tenant's envelopes, or of all.                      *)
InScope(e, scope) == scope = System \/ Envelope[e].owner = scope

ListPending(d, scope) ==
  LET pending == {e \in RecordedSet : e \notin marked /\ InScope(e, scope)} IN
  /\ batch[d] = {}
  /\ pending # {}
  /\ batch' = [batch EXCEPT ![d] = pending]
  /\ UNCHANGED <<outboxVars, topicVars, toMark, consumerVars, crashes>>

(* A batch is worked off in recording order.                               *)
RecordedBefore(e, f) ==
  \E m, n \in DOMAIN recorded : m < n /\ recorded[m] = e /\ recorded[n] = f

AtHead(d, e) ==
  /\ e \in batch[d]
  /\ \A f \in batch[d] : ~RecordedBefore(f, e)
  /\ toMark[d] = {}

(* The drainer moves on to the next envelope of its batch.                 *)
Advance(d, e) ==
  /\ batch' = [batch EXCEPT ![d] = @ \ {e}]
  /\ toMark' = [toMark EXCEPT ![d] = {}]

(* A suppressed aggregate goes nowhere and will be marked.                 *)
Suppress(d, e) ==
  /\ AtHead(d, e)
  /\ Guard(Envelope[e]) = "suppress"
  /\ toMark' = [toMark EXCEPT ![d] = {e}]
  /\ UNCHANGED <<outboxVars, topicVars, batch, consumerVars, crashes>>

(* Any other exception of the guard leaves drain_once.                     *)
AbortDrain(d, e) ==
  /\ AtHead(d, e)
  /\ Guard(Envelope[e]) = "raise"
  /\ batch' = [batch EXCEPT ![d] = {}]
  /\ UNCHANGED <<outboxVars, topicVars, toMark, consumerVars, crashes>>

(* The topic an envelope belongs to: poison goes to the dead-letter topic. *)
AppendTopic(e) ==
  IF Envelope[e].declared
  THEN main' = main \cup {e} /\ dlq' = dlq
  ELSE dlq' = dlq \cup {e} /\ main' = main

Publish(d, e) ==
  /\ AtHead(d, e)
  /\ Guard(Envelope[e]) = "pass"
  /\ AppendTopic(e)
  /\ toMark' = [toMark EXCEPT ![d] = {e}]
  /\ UNCHANGED <<outboxVars, batch, consumerVars, crashes>>

(* Mutant: a failed publish is treated like a successful one.              *)
PublishFailMarks(d, e) ==
  /\ AtHead(d, e)
  /\ Guard(Envelope[e]) = "pass"
  /\ toMark' = [toMark EXCEPT ![d] = {e}]
  /\ UNCHANGED <<outboxVars, topicVars, batch, consumerVars, crashes>>

(* PublishFailedError: the row stays pending, appended or not.             *)
PublishFail(d, e) ==
  /\ AtHead(d, e)
  /\ Guard(Envelope[e]) = "pass"
  /\ AppendTopic(e) \/ UNCHANGED topicVars
  /\ Advance(d, e)
  /\ UNCHANGED <<outboxVars, consumerVars, crashes>>

MarkPublished(d, e) ==
  /\ e \in toMark[d]
  /\ marked' = marked \cup {e}
  /\ Advance(d, e)
  /\ UNCHANGED <<recorded, topicVars, consumerVars, crashes>>

CrashDrainer(d) ==
  /\ batch[d] # {}
  /\ crashes < MaxCrashes
  /\ crashes' = crashes + 1
  /\ batch' = [batch EXCEPT ![d] = {}]
  /\ toMark' = [toMark EXCEPT ![d] = {}]
  /\ UNCHANGED <<outboxVars, topicVars, consumerVars>>
-----------------------------------------------------------------------------
(* IdempotentConsumer.process.  A delivery whose key is already marked is  *)
(* skipped and changes nothing.                                            *)

Deliver(c, e) ==
  /\ inHand[c] = Idle
  /\ e \in main
  /\ DedupKey[e] \notin seen
  /\ inHand' = [inHand EXCEPT ![c] = [step |-> "handler", event |-> e]]
  /\ UNCHANGED <<outboxVars, topicVars, drainVars, seen, runs, crashes>>

HandlerDone(c, e) ==
  /\ inHand[c] = [step |-> "handler", event |-> e]
  /\ runs' = [runs EXCEPT ![DedupKey[e]] = @ + 1]
  /\ inHand' = [inHand EXCEPT ![c] = [step |-> "mark", event |-> e]]
  /\ UNCHANGED <<outboxVars, topicVars, drainVars, seen, crashes>>

(* Mutant: the key is marked although the handler raised.                  *)
HandlerRaisesMarked(c) ==
  /\ inHand[c].step = "handler"
  /\ inHand' = [inHand EXCEPT ![c] = Idle]
  /\ seen' = seen \cup {DedupKey[inHand[c].event]}
  /\ UNCHANGED <<outboxVars, topicVars, drainVars, runs, crashes>>

HandlerRaises(c) ==
  /\ inHand[c].step = "handler"
  /\ inHand' = [inHand EXCEPT ![c] = Idle]
  /\ UNCHANGED <<outboxVars, topicVars, drainVars, seen, runs, crashes>>

MarkSeen(c, e) ==
  /\ inHand[c] = [step |-> "mark", event |-> e]
  /\ seen' = seen \cup {DedupKey[e]}
  /\ inHand' = [inHand EXCEPT ![c] = Idle]
  /\ UNCHANGED <<outboxVars, topicVars, drainVars, runs, crashes>>

CrashConsumer(c) ==
  /\ inHand[c] # Idle
  /\ crashes < MaxCrashes
  /\ crashes' = crashes + 1
  /\ inHand' = [inHand EXCEPT ![c] = Idle]
  /\ UNCHANGED <<outboxVars, topicVars, drainVars, seen, runs>>
-----------------------------------------------------------------------------
Drain(d) ==
  \/ \E scope \in Tenants \cup {System} : ListPending(d, scope)
  \/ \E e \in Events : \/ Suppress(d, e) \/ AbortDrain(d, e) \/ Publish(d, e)
                       \/ PublishFail(d, e) \/ MarkPublished(d, e)
  \/ CrashDrainer(d)

Consume(c) ==
  \/ \E e \in Events : Deliver(c, e) \/ HandlerDone(c, e) \/ MarkSeen(c, e)
  \/ HandlerRaises(c) \/ CrashConsumer(c)

Next ==
  \/ \E e \in Events : Record(e)
  \/ \E d \in Drainers : Drain(d)
  \/ \E c \in Consumers : Consume(c)

Spec == Init /\ [][Next]_vars

(* Drainers keep polling the whole outbox and work their batch off, and an *)
(* attempt that is repeated for ever succeeds in the end: the broker comes *)
(* back and delivers, and a handler's failures are transient.              *)
Fairness ==
  /\ \A d \in Drainers :
       /\ WF_vars(ListPending(d, System))
       /\ WF_vars(\E e \in Events :
                    Suppress(d, e) \/ AbortDrain(d, e) \/ MarkPublished(d, e))
  /\ \A c \in Consumers : WF_vars(\E e \in Events : MarkSeen(c, e))
  /\ \A e \in Events :
       /\ SF_vars(\E d \in Drainers : Publish(d, e))
       /\ SF_vars(\E c \in Consumers : Deliver(c, e))
       /\ SF_vars(\E c \in Consumers : HandlerDone(c, e))

LiveSpec == Spec /\ Fairness
-----------------------------------------------------------------------------
(* Properties. *)

Publishable(e) ==
  Envelope[e].context = "aggregate" =>
    Envelope[e].status = "k_anonymized" /\ Envelope[e].cohort >= Envelope[e].threshold

(* An aggregate below its privacy threshold, suppressed or under review    *)
(* reaches no topic, not even the dead-letter one when it is poison too,   *)
(* whatever drainers race, fail or crash.                                  *)
SuppressedGoesNowhere ==
  \A e \in main \cup dlq : Publishable(e)

(* Consumers never meet an envelope whose topic or producer is undeclared. *)
PoisonStaysOffMain == \A e \in main : Envelope[e].declared

(* A row leaves the outbox only after its envelope reached the topic it    *)
(* belongs to, or because it may not be published: nothing is lost between *)
(* publish and mark_published.                                             *)
NothingLost ==
  \A e \in marked : IF Publishable(e)
                    THEN e \in IF Envelope[e].declared THEN main ELSE dlq
                    ELSE e \notin main \cup dlq

(* A key in the dedup store stands for a handler that completed: a raising *)
(* or crashing handler never swallows an envelope.                         *)
SeenWasHandled == \A k \in seen : runs[k] >= 1

(* The handler runs once per key in each consumer that looked the key up   *)
(* before the first mark, and once more per crash, never oftener.          *)
RunsBounded == \A k \in Keys : runs[k] <= Cardinality(Consumers) + crashes

(* Every recorded envelope that may be published is handled in the end,    *)
(* through broker failures, crashes and redeliveries: at least once.       *)
EventuallyHandled ==
  \A e \in Events :
    (/\ e \in RecordedSet
     /\ Publishable(e) /\ Envelope[e].declared /\ Envelope[e].integral)
      ~> (DedupKey[e] \in seen)

(* Poison and suppressed rows do not stay pending for ever.                *)
EventuallyMarked == \A e \in Events : (e \in RecordedSet) ~> (e \in marked)

(* No topic, the dead-letter topic included, gets an aggregate below its   *)
(* threshold, and no main topic gets an envelope it does not declare.      *)
RoutingIsSafe ==
  /\ SuppressedGoesNowhere
  /\ PoisonStaysOffMain

(* A marked key was handled, and a key is handled once but for consumers   *)
(* that have it in hand at the same time and for crashes.                  *)
HandlingIsBounded ==
  /\ SeenWasHandled
  /\ RunsBounded

(* Every row leaves the outbox, and what may be published is handled.      *)
OutboxDrains ==
  /\ EventuallyHandled
  /\ EventuallyMarked
=============================================================================

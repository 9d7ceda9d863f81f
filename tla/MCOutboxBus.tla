---------------------------- MODULE MCOutboxBus -----------------------------
(* Instances of OutboxBus for TLC: an ordinary tenant event, a tenant      *)
(* event on an undeclared topic, an aggregate exactly at its threshold, an *)
(* aggregate one below it that is poison too, and an aggregate whose       *)
(* cohort size is not an int.                                              *)
EXTENDS OutboxBus, TLC

CONSTANTS plain, poison, exact, below, float, t1, d1, d2, c1, c2, k1, k2

Aggregate(cohort, integral, declared) ==
  [context |-> "aggregate", owner |-> System, status |-> "k_anonymized",
   cohort |-> cohort, threshold |-> 3, integral |-> integral, declared |-> declared]

Tenant(declared) ==
  [context |-> "tenant", owner |-> t1, status |-> "suppressed",
   cohort |-> 0, threshold |-> 0, integral |-> TRUE, declared |-> declared]

AllEnvelopes ==
  (plain :> Tenant(TRUE)) @@ (poison :> Tenant(FALSE)) @@
  (exact :> Aggregate(3, TRUE, TRUE)) @@ (below :> Aggregate(2, TRUE, FALSE)) @@
  (float :> Aggregate(3, FALSE, TRUE))

MCEnvelope == [e \in Events |-> AllEnvelopes[e]]

MCDedupKey == [e \in Events |-> IF e = plain THEN k1 ELSE k2]

(* Drainers, and consumers, are interchangeable. *)
Symmetry == Permutations(Drainers) \cup Permutations(Consumers)
=============================================================================

--------------------------- MODULE MCMeasurement ----------------------------
(* Instances of Measurement for TLC.  `good' confirms experiment x1 in     *)
(* time; `other' has the same key and another content; `second' is a       *)
(* second deployment of x1 under its own key; `forged' is not signed by a  *)
(* trusted confirmer; `foreign' carries x1's hash for another tenant.      *)
EXTENDS Measurement, TLC

CONSTANTS good, other, second, forged, foreign, x1, k1, k2, t1, t2, w1, w2

Says(key, tenant, trusted) ==
  [key |-> key, tenant |-> tenant, experiment |-> x1, hash |-> x1, matches |-> TRUE,
   aware |-> TRUE, artifact |-> TRUE, target |-> TRUE, trusted |-> trusted, at |-> 0]

AllClaims ==
  (good :> Says(k1, t1, TRUE)) @@ (other :> [Says(k1, t1, TRUE) EXCEPT !.at = 1]) @@
  (second :> Says(k2, t1, TRUE)) @@ (forged :> Says(k1, t1, FALSE)) @@
  (foreign :> Says(k1, t2, TRUE))

MCClaim == [c \in Confirmations |-> AllClaims[c]]

MCRegistration == [x \in Experiments |-> [tenant |-> t1, created |-> 0, approved |-> 0]]

(* Nothing tells two workers apart. *)
WorkerSymmetry == Permutations(Workers)
=============================================================================

--------------------------- MODULE MCPlanContract ---------------------------
(* Instances of PlanContract for TLC: two spellings of one approver and    *)
(* three people.                                                           *)
EXTENDS PlanContract, TLC

CONSTANTS ann, bob, Bob, cat, p1, p2, w1, w2

MCIds == {ann, bob, cat}

MCCanonicalActorId == (ann :> ann) @@ (bob :> bob) @@ (Bob :> bob) @@ (cat :> cat)

Symmetry == Permutations(Workers)
=============================================================================

---------------------------- MODULE PlanLifecycle ----------------------------
(***************************************************************************)
(* What the plan-contract service promises about one plan, without its     *)
(* handlers: somebody drafts it, it is submitted once, others vote on it,  *)
(* and it settles once, as approved only with the quorum its risk demands. *)
(***************************************************************************)
EXTENDS Naturals, FiniteSets

CONSTANTS Plans, Ids, HighRisk

VARIABLES author, phase, votes

lifeVars == <<author, phase, votes>>

LifeInit ==
  /\ author = [p \in Plans |-> "none"]
  /\ phase = [p \in Plans |-> "none"]
  /\ votes = [p \in Plans |-> [i \in Ids |-> "none"]]

Draft(p, i) ==
  /\ author[p] = "none"
  /\ author' = [author EXCEPT ![p] = i]
  /\ UNCHANGED <<phase, votes>>

Move(p, from, to) ==
  /\ phase[p] = from
  /\ phase' = [phase EXCEPT ![p] = to]
  /\ UNCHANGED <<author, votes>>

Submit(p) == author[p] # "none" /\ Move(p, "none", "waiting_approval")

Vote(p, i, d) ==
  /\ phase[p] = "waiting_approval"
  /\ i # author[p]
  /\ votes[p][i] = "none"
  /\ votes' = [votes EXCEPT ![p][i] = d]
  /\ UNCHANGED <<author, phase>>

Approvers(p) == {i \in Ids \ {author[p]} : votes[p][i] = "approved"}

Approve(p) ==
  /\ Cardinality(Approvers(p)) >= IF p \in HighRisk THEN 2 ELSE 1
  /\ Move(p, "waiting_approval", "approved")

Reject(p) ==
  /\ \E i \in Ids : votes[p][i] = "rejected"
  /\ Move(p, "waiting_approval", "rejected")

Close(p) == \E to \in {"expired", "cancelled"} : Move(p, "waiting_approval", to)

LifeNext ==
  \E p \in Plans :
    \/ \E i \in Ids : Draft(p, i)
    \/ Submit(p)
    \/ \E i \in Ids, d \in {"approved", "rejected"} : Vote(p, i, d)
    \/ Approve(p) \/ Reject(p) \/ Close(p)

LifeSpec == LifeInit /\ [][LifeNext]_lifeVars
=============================================================================

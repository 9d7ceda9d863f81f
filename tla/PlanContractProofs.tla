------------------------- MODULE PlanContractProofs -------------------------
(***************************************************************************)
(* Proofs about PlanContract for every set of plans, actors and workers:   *)
(* type correctness, the finality of decisions, that a settled state and   *)
(* an allowed execution are backed by the decision store, and that a       *)
(* settled state is on record.  For one handler at a time: the outcome is  *)
(* orderly, and the service implements PlanLifecycle.                      *)
(***************************************************************************)
EXTENDS PlanContract, FiniteSetTheorems, TLAPS

DecideSteps == {"get_state", "get_facts", "replay", "gate", "deny", "load", "record"}

(* What a handler about to take step s has in its job j.                   *)
Shape(s, j) ==
  /\ j \in Job
  /\ s # "idle" => j.plan \in Plans
  /\ s \in {"put_plan", "put_facts"} => j.op = "propose"
  /\ s \in DecideSteps => j.op = "decide" /\ j.decision \in Decision
  /\ j.op \in {"propose", "decide"} => j.actor \in Ids
  /\ s \in (DecideSteps \ {"get_state"}) \cup {"put_plan", "set_state", "audit"}
       => j.cur \in PlanState
  /\ s = "put_plan" => j.outcome = "waiting_approval"
  /\ s \in DecideSteps \ {"record"} => j.outcome = None
  /\ s \in {"record", "set_state", "audit"} => j.outcome \in PlanState
  /\ j.op = "decide" /\ j.outcome \notin {None, j.cur} => j.outcome \in Decision
  /\ s = "emit" => j.op = "propose" \/ j.outcome \in Decision

JobsOK == \A w \in Workers : Shape(pc[w], job[w])

TypeInv == TypeOK /\ JobsOK

USE DEF None

LEMMA TypeInit == Init => TypeInv
BY DEF Init, TypeInv, TypeOK, JobsOK, Shape, NoJob, Job, Step, DecideSteps

(* transition() started from WAITING_APPROVAL and leads to a state; one    *)
(* that differs from the state it started in is a decision's.              *)
LEMMA TransitionResult ==
  ASSUME NEW cur, NEW proposer, NEW decs, NEW id, NEW d \in Decision, NEW hr,
         Transition(cur, proposer, decs, id, d, hr) # Refused
  PROVE  /\ cur = "waiting_approval"
         /\ Transition(cur, proposer, decs, id, d, hr) \in PlanState
         /\ Transition(cur, proposer, decs, id, d, hr) # cur =>
              Transition(cur, proposer, decs, id, d, hr) \in Decision
BY DEF Transition, Refused, PlanState, Decision

LEMMA NoJobShape == Shape("idle", NoJob)
BY DEF Shape, NoJob, Job, DecideSteps

(* Storing a well-shaped job keeps all jobs well-shaped.                   *)
LEMMA StoreJob ==
  ASSUME TypeInv, NEW w \in Workers, NEW s \in Step, NEW j, Shape(s, j),
         pc' = [pc EXCEPT ![w] = s], job' = [job EXCEPT ![w] = j]
  PROVE  /\ pc' \in [Workers -> Step]
         /\ job' \in [Workers -> Job]
         /\ JobsOK'
<1>1. pc' \in [Workers -> Step] /\ job' \in [Workers -> Job]
  BY DEF TypeInv, TypeOK, Shape
<1>2. ASSUME NEW v \in Workers PROVE Shape(pc'[v], job'[v])
  <2>1. CASE v = w
    BY <2>1 DEF TypeInv, TypeOK
  <2>2. CASE v # w
    BY <2>2 DEF TypeInv, TypeOK, JobsOK
  <2> QED BY <2>1, <2>2
<1> QED BY <1>1, <1>2 DEF JobsOK

LEMMA RespondType ==
  ASSUME TypeInv, NEW w \in Workers, Respond(w)
  PROVE  /\ pc' \in [Workers -> Step] /\ job' \in [Workers -> Job] /\ JobsOK'
         /\ served' \in Nat /\ proposers' \in [Plans -> SUBSET Ids]
BY StoreJob, NoJobShape DEF Respond, Goto, Step, TypeInv, TypeOK

LEMMA GotoType ==
  ASSUME TypeInv, NEW w \in Workers, NEW s \in Step, NEW j, Shape(s, j), Goto(w, s, j)
  PROVE  /\ pc' \in [Workers -> Step] /\ job' \in [Workers -> Job] /\ JobsOK'
         /\ served' \in Nat /\ proposers' \in [Plans -> SUBSET Ids]
BY StoreJob DEF Goto, TypeInv, TypeOK

LEMMA AcceptType ==
  ASSUME TypeInv, NEW w \in Workers, NEW s \in Step, NEW j, Shape(s, j), Accept(w, s, j)
  PROVE  /\ pc' \in [Workers -> Step] /\ job' \in [Workers -> Job] /\ JobsOK'
         /\ served' \in Nat
<1>1. served' \in Nat
  BY DEF Accept, TypeInv, TypeOK
<1> QED BY <1>1, StoreJob DEF Accept

LEMMA TypeStep == TypeInv /\ [Next]_vars => TypeInv'
<1> SUFFICES ASSUME TypeInv, [Next]_vars PROVE TypeInv'
    OBVIOUS
<1> USE PlanContractAssumption
<1>t. TypeOK /\ JobsOK
  BY DEF TypeInv
<1>0. CASE UNCHANGED vars
  BY <1>0 DEF vars, planVars, TypeInv, TypeOK, JobsOK
<1>1. ASSUME NEW w \in Workers, NewRequest(w) PROVE TypeInv'
  <2>1. ASSUME NEW p \in Plans, NEW a \in Actors, ProposePlan(w, p, a) PROVE TypeInv'
    <3> DEFINE j == [NoJob EXCEPT !.op = "propose", !.plan = p,
                       !.actor = CanonicalActorId[a], !.cur = "proposed",
                       !.outcome = "waiting_approval"]
    <3>1. Shape("put_plan", j)
      BY DEF Shape, NoJob, Job, Op, DecideSteps, PlanState
    <3>2. Accept(w, "put_plan", j)
      BY <2>1 DEF ProposePlan
    <3> QED
      BY <1>t, <2>1, <3>1, <3>2, AcceptType DEF ProposePlan, TypeInv, TypeOK, planVars, Step
  <2>2. ASSUME NEW p \in Plans, NEW a \in Actors, NEW d \in Decision,
               SubmitDecision(w, p, a, d)
        PROVE  TypeInv'
    <3> DEFINE j == [NoJob EXCEPT !.op = "decide", !.plan = p,
                       !.actor = CanonicalActorId[a], !.decision = d]
    <3>1. Shape("get_state", j)
      BY DEF Shape, NoJob, Job, Op, DecideSteps, PlanState
    <3>2. Accept(w, "get_state", j)
      BY <2>2 DEF SubmitDecision
    <3> QED
      BY <1>t, <2>2, <3>1, <3>2, AcceptType
         DEF SubmitDecision, TypeInv, TypeOK, planVars, Step
  <2>3. ASSUME NEW p \in Plans, NEW op \in {"cancel", "expire"},
               NEW to \in {"cancelled", "expired"}, CancelOrExpire(w, p, op, to)
        PROVE  TypeInv'
    <3> DEFINE j == [NoJob EXCEPT !.op = op, !.plan = p, !.cur = states[p],
                                  !.outcome = to]
    <3>0. states[p] \in PlanState
      BY <1>t, <2>3 DEF CancelOrExpire, TypeOK
    <3>1. Shape("set_state", j)
      BY <3>0 DEF Shape, NoJob, Job, Op, DecideSteps, PlanState
    <3>2. Accept(w, "set_state", j)
      BY <2>3 DEF CancelOrExpire
    <3> QED
      BY <1>t, <2>3, <3>1, <3>2, AcceptType
         DEF CancelOrExpire, TypeInv, TypeOK, planVars, Step
  <2>4. ASSUME NEW p \in Plans, ExecutionCheck(w, p) PROVE TypeInv'
    <3> DEFINE j == [NoJob EXCEPT !.op = "check", !.plan = p, !.cur = states[p]]
    <3>1. Shape("get_decisions", j)
      BY <1>t DEF Shape, NoJob, Job, Op, DecideSteps, PlanState, TypeOK
    <3>2. Accept(w, "get_decisions", j)
      BY <2>4 DEF ExecutionCheck
    <3> QED
      BY <1>t, <2>4, <3>1, <3>2, AcceptType
         DEF ExecutionCheck, TypeInv, TypeOK, planVars, Step
  <2> QED
    BY <1>1, <2>1, <2>2, <2>3, <2>4 DEF NewRequest, CancelPlan, ExpirePlan
<1>2. ASSUME NEW w \in Workers, Continue(w) PROVE TypeInv'
  <2> DEFINE j == job[w]
  <2>j. Shape(pc[w], j) /\ j \in Job
    BY <1>t DEF JobsOK, Shape
  <2>1. CASE PutPlan(w)
    <3>1. Shape("set_state", j)
      BY <2>1, <2>j DEF PutPlan, Shape, DecideSteps, PlanState
    <3> QED
      BY <1>t, <2>1, <2>j, <3>1, GotoType DEF PutPlan, TypeInv, TypeOK, Step, Shape
  <2>2. CASE PutFacts(w)
    <3>1. Shape("emit", j)
      BY <2>2, <2>j DEF PutFacts, Shape, DecideSteps, PlanState
    <3> QED
      BY <1>t, <2>2, <2>j, <3>1, GotoType DEF PutFacts, TypeInv, TypeOK, Step, Shape
  <2>3. CASE GetState(w)
    <3>1. CASE Respond(w)
      BY <1>t, <2>3, <3>1, RespondType DEF GetState, TypeInv, TypeOK, planVars
    <3>2. ASSUME states[j.plan] # None,
                 Goto(w, "get_facts", [j EXCEPT !.cur = states[j.plan]])
          PROVE  TypeInv'
      <4>1. Shape("get_facts", [j EXCEPT !.cur = states[j.plan]])
        <5>1. states[j.plan] \in PlanState
          BY <1>t, <2>3, <2>j, <3>2 DEF GetState, Shape, TypeOK
        <5> QED
          BY <2>3, <2>j, <5>1 DEF GetState, Shape, DecideSteps, Job
      <4> QED
        BY <1>t, <2>3, <3>2, <4>1, GotoType DEF GetState, TypeInv, TypeOK, Step, planVars
    <3> QED BY <2>3, <3>1, <3>2 DEF GetState
  <2>4. CASE GetFacts(w)
    <3>1. CASE Respond(w)
      BY <1>t, <2>4, <3>1, RespondType DEF GetFacts, TypeInv, TypeOK, planVars
    <3>2. ASSUME NEW s \in {"replay", "gate"},
                 Goto(w, s, [j EXCEPT !.proposer = facts[j.plan]])
          PROVE  TypeInv'
      <4>1. Shape(s, [j EXCEPT !.proposer = facts[j.plan]])
        BY <1>t, <2>4, <2>j, <3>2 DEF GetFacts, Shape, DecideSteps, PlanState, TypeOK, Job
      <4> QED
        BY <1>t, <2>4, <3>2, <4>1, GotoType DEF GetFacts, TypeInv, TypeOK, Step, planVars
    <3> QED BY <2>4, <3>1, <3>2 DEF GetFacts
  <2>5. CASE Replay(w)
    <3>1. Shape("gate", j)
      BY <2>5, <2>j DEF Replay, Shape, DecideSteps
    <3> QED
      BY <1>t, <2>5, <3>1, RespondType, GotoType DEF Replay, TypeInv, TypeOK, Step, planVars
  <2>6. CASE GateCheck(w)
    <3>1. ASSUME NEW two \in BOOLEAN, Goto(w, "load", [j EXCEPT !.twoPerson = two])
          PROVE  TypeInv'
      <4>1. Shape("load", [j EXCEPT !.twoPerson = two])
        BY <2>6, <2>j DEF GateCheck, Shape, DecideSteps, Job
      <4> QED
        BY <1>t, <2>6, <3>1, <4>1, GotoType DEF GateCheck, TypeInv, TypeOK, Step, planVars
    <3>2. Shape("deny", j)
      BY <2>6, <2>j DEF GateCheck, Shape, DecideSteps
    <3>3. CASE Goto(w, "deny", j)
      BY <1>t, <2>6, <3>2, <3>3, GotoType DEF GateCheck, TypeInv, TypeOK, Step, planVars
    <3>4. CASE Respond(w)
      BY <1>t, <2>6, <3>4, RespondType DEF GateCheck, TypeInv, TypeOK, planVars
    <3> QED BY <2>6, <3>1, <3>3, <3>4 DEF GateCheck
  <2>7. CASE AuditDeny(w)
    <3>1. [from |-> j.cur, to |-> j.cur] \in AuditRecord /\ j.plan \in Plans
      BY <2>7, <2>j DEF AuditDeny, Shape, DecideSteps, AuditRecord
    <3>2. trail' \in [Plans -> Seq(AuditRecord)]
      BY <1>t, <2>7, <3>1 DEF AuditDeny, TypeOK
    <3> QED
      BY <1>t, <2>7, <3>2, RespondType DEF AuditDeny, TypeInv, TypeOK
  <2>8. CASE LoadAndDecide(w)
    <3> DEFINE out == Transition(j.cur, j.proposer, decisions[j.plan], j.actor,
                                 j.decision, j.plan \in HighRisk \/ j.twoPerson)
    <3>1. CASE Respond(w)
      BY <1>t, <2>8, <3>1, RespondType DEF LoadAndDecide, TypeInv, TypeOK, planVars
    <3>2. ASSUME out # Refused, Goto(w, "record", [j EXCEPT !.outcome = out])
          PROVE  TypeInv'
      <4>0. j.decision \in Decision
        BY <2>8, <2>j DEF LoadAndDecide, Shape, DecideSteps
      <4>1. out \in PlanState /\ (out # j.cur => out \in Decision)
        BY <3>2, <4>0, TransitionResult
      <4> HIDE DEF out
      <4>2. Shape("record", [j EXCEPT !.outcome = out])
        BY <2>8, <2>j, <4>1 DEF LoadAndDecide, Shape, DecideSteps, Job
      <4> QED
        BY <1>t, <2>8, <3>2, <4>2, GotoType
           DEF LoadAndDecide, TypeInv, TypeOK, Step, planVars
    <3> QED BY <2>8, <3>1, <3>2 DEF LoadAndDecide
  <2>9. CASE RecordDecision(w)
    <3>1. Shape("set_state", j) /\ j.plan \in Plans /\ j.decision \in Decision
      BY <2>9, <2>j DEF RecordDecision, Shape, DecideSteps
    <3>2. decisions' \in [Plans -> [Ids -> Decision \cup {None}]]
      <4>1. j.actor \in Ids
        BY <2>9, <2>j DEF RecordDecision, Shape, DecideSteps
      <4>2. [decisions[j.plan] EXCEPT ![j.actor] = j.decision]
              \in [Ids -> Decision \cup {None}]
        BY <1>t, <3>1 DEF TypeOK
      <4> QED
        BY <1>t, <2>9, <3>1, <4>1, <4>2 DEF RecordDecision, TypeOK
    <3>3. CASE Goto(w, "set_state", j)
      BY <1>t, <2>9, <3>1, <3>2, <3>3, GotoType DEF RecordDecision, TypeInv, TypeOK, Step
    <3>4. CASE Respond(w)
      BY <1>t, <2>9, <3>2, <3>4, RespondType DEF RecordDecision, TypeInv, TypeOK
    <3> QED BY <2>9, <3>3, <3>4 DEF RecordDecision
  <2>10. CASE SetState(w)
    <3>1. Shape("audit", j) /\ j.plan \in Plans /\ j.outcome \in PlanState
      BY <2>10, <2>j DEF SetState, Shape, DecideSteps
    <3> QED
      BY <1>t, <2>10, <3>1, GotoType DEF SetState, TypeInv, TypeOK, Step
  <2>11. CASE Audit(w)
    <3>1. [from |-> j.cur, to |-> j.outcome] \in AuditRecord /\ j.plan \in Plans
      BY <2>11, <2>j DEF Audit, Shape, DecideSteps, AuditRecord
    <3>2. trail' \in [Plans -> Seq(AuditRecord)]
      BY <1>t, <2>11, <3>1 DEF Audit, TypeOK
    <3>3. CASE j.op = "propose" /\ Goto(w, "put_facts", j)
      <4>1. Shape("put_facts", j)
        BY <2>11, <2>j, <3>3 DEF Audit, Shape, DecideSteps
      <4> QED
        BY <1>t, <2>11, <3>2, <3>3, <4>1, GotoType DEF Audit, TypeInv, TypeOK, Step
    <3>4. CASE Settles(j) /\ Goto(w, "emit", j)
      <4>1. Shape("emit", j)
        BY <2>11, <2>j, <3>4 DEF Audit, Shape, DecideSteps, Settles, PlanState
      <4> QED
        BY <1>t, <2>11, <3>2, <3>4, <4>1, GotoType DEF Audit, TypeInv, TypeOK, Step
    <3>5. CASE Respond(w)
      BY <1>t, <2>11, <3>2, <3>5, RespondType DEF Audit, TypeInv, TypeOK
    <3> QED BY <2>11, <3>3, <3>4, <3>5 DEF Audit
  <2>12. CASE Emit(w)
    <3>1. EventOf(j) \in Event /\ j.plan \in Plans
      BY <2>12, <2>j DEF Emit, Shape, DecideSteps, EventOf, Event
    <3>2. outbox' \in [Plans -> Seq(Event)]
      BY <1>t, <2>12, <3>1 DEF Emit, TypeOK
    <3> QED
      BY <1>t, <2>12, <3>2, RespondType DEF Emit, TypeInv, TypeOK
  <2>13. CASE GuardCheck(w)
    <3>1. Shape("execution_allowed", j)
      BY <2>13, <2>j DEF GuardCheck, Shape, DecideSteps
    <3> QED
      BY <1>t, <2>13, <3>1, RespondType, GotoType
         DEF GuardCheck, TypeInv, TypeOK, Step, planVars
  <2>14. CASE AnswerAllowed(w)
    BY <1>t, <2>14, RespondType DEF AnswerAllowed, TypeInv, TypeOK, planVars
  <2> QED
    BY <1>2, <2>1, <2>2, <2>3, <2>4, <2>5, <2>6, <2>7, <2>8, <2>9, <2>10, <2>11,
       <2>12, <2>13, <2>14 DEF Continue
<1> QED
  BY <1>0, <1>1, <1>2 DEF Next

(* Every state the service reaches is well-typed, and every handler holds  *)
(* what its next call needs.                                               *)
THEOREM TypeCorrect == Spec => []TypeOK
<1>1. Spec => []TypeInv
  BY TypeInit, TypeStep, PTL DEF Spec
<1>2. TypeInv => TypeOK
  BY DEF TypeInv
<1> QED BY <1>1, <1>2, PTL
-----------------------------------------------------------------------------
(* A decision or a proposal once made is never taken back.                 *)

Grows(ds, ps, ds2, ps2) ==
  \A p \in Plans :
    /\ ps[p] \subseteq ps2[p]
    /\ \A i \in Ids : ds[p][i] # None => ds2[p][i] = ds[p][i]

LEMMA StoresGrow ==
  ASSUME TypeInv, [Next]_vars
  PROVE  Grows(decisions, proposers, decisions', proposers')
<1>t. TypeOK /\ JobsOK
  BY DEF TypeInv
<1>0. CASE UNCHANGED <<decisions, proposers>>
  BY <1>0 DEF Grows
<1>1. ASSUME NEW w \in Workers, NEW p \in Plans, NEW a \in Actors, ProposePlan(w, p, a)
      PROVE  Grows(decisions, proposers, decisions', proposers')
  BY <1>t, <1>1 DEF ProposePlan, Grows, planVars, TypeOK
<1>2. ASSUME NEW w \in Workers, RecordDecision(w)
      PROVE  Grows(decisions, proposers, decisions', proposers')
  <2>1. CASE UNCHANGED decisions
    BY <1>2, <2>1, <1>0 DEF RecordDecision, Goto, Respond
  <2>2. CASE ~ UNCHANGED decisions
    <3>1. /\ decisions[job[w].plan][job[w].actor] \in {None, job[w].decision}
          /\ decisions' = [decisions EXCEPT ![job[w].plan][job[w].actor] = job[w].decision]
      BY <1>2, <2>2 DEF RecordDecision
    <3>2. proposers' = proposers
      BY <1>2 DEF RecordDecision, Goto, Respond
    <3>3. ASSUME NEW p \in Plans, NEW i \in Ids, decisions[p][i] # None
          PROVE  decisions'[p][i] = decisions[p][i]
      <4>1. CASE p = job[w].plan /\ i = job[w].actor
        BY <1>t, <3>1, <3>3, <4>1 DEF TypeOK
      <4>2. CASE ~ (p = job[w].plan /\ i = job[w].actor)
        BY <1>t, <3>1, <3>3, <4>2 DEF TypeOK
      <4> QED BY <4>1, <4>2
    <3> QED BY <3>2, <3>3 DEF Grows
  <2> QED BY <2>1, <2>2
<1>3. ASSUME NEW w \in Workers, NewRequest(w)
      PROVE  Grows(decisions, proposers, decisions', proposers')
  BY <1>0, <1>1, <1>3 DEF NewRequest, SubmitDecision, CancelPlan, ExpirePlan,
     CancelOrExpire, ExecutionCheck, planVars
<1>4. ASSUME NEW w \in Workers, Continue(w)
      PROVE  Grows(decisions, proposers, decisions', proposers')
  <2>1. CASE PutPlan(w) \/ PutFacts(w) \/ GetState(w) \/ GetFacts(w) \/ Replay(w)
             \/ GateCheck(w) \/ AuditDeny(w)
    BY <1>0, <2>1 DEF PutPlan, PutFacts, GetState, GetFacts, Replay, GateCheck,
       AuditDeny, Goto, Respond, planVars
  <2>2. CASE LoadAndDecide(w) \/ SetState(w) \/ Audit(w) \/ Emit(w) \/ GuardCheck(w)
             \/ AnswerAllowed(w)
    BY <1>0, <2>2 DEF LoadAndDecide, SetState, Audit, Emit, GuardCheck, AnswerAllowed,
       Goto, Respond, planVars
  <2> QED BY <1>2, <1>4, <2>1, <2>2 DEF Continue
<1>5. CASE UNCHANGED vars
  BY <1>0, <1>5 DEF vars, planVars
<1> QED BY <1>3, <1>4, <1>5 DEF Next

(* A decision that record_decision stored is never replaced or dropped,    *)
(* whatever concurrent handlers do.                                        *)
THEOREM DecisionsAreFinal == Spec => DecisionsStand
<1>1. TypeInv /\ [Next]_vars =>
        [\A p \in Plans, i \in Ids :
           decisions[p][i] # None => decisions'[p][i] = decisions[p][i]]_decisions
  BY StoresGrow DEF Grows
<1>2. Spec => []TypeInv
  BY TypeInit, TypeStep, PTL DEF Spec
<1> QED
  BY <1>1, <1>2, PTL DEF Spec, DecisionsStand
-----------------------------------------------------------------------------
(* The quorum, over given decisions ds and proposers ps.                   *)

Needed(p) == IF p \in HighRisk THEN 2 ELSE 1

QuorumIn(p, ds, ps) ==
  \E q \in ps[p] : Cardinality({i \in Ids \ {q} : ds[p][i] = "approved"}) >= Needed(p)

RejectionIn(p, ds) == \E i \in Ids : ds[p][i] = "rejected"

(* What a job relies on in the stores: the proposer it read did propose,   *)
(* the approvals it counted are recorded except perhaps its own, and from  *)
(* record_decision on the outcome it carries is backed.                    *)
Backed(s, j, ds, ps) ==
  /\ s # "idle" /\ j.op = "propose" => j.actor \in ps[j.plan]
  /\ s \in {"replay", "gate", "deny", "load", "record"} => j.proposer \in ps[j.plan]
  /\ s = "record" /\ j.outcome = "approved" =>
       /\ j.decision = "approved"
       /\ Cardinality({i \in Ids \ {j.proposer} :
                         ds[j.plan][i] = "approved" \/ i = j.actor}) >= Needed(j.plan)
  /\ s = "record" /\ j.outcome = "rejected" => j.decision = "rejected"
  /\ s = "set_state" =>
       /\ j.outcome = "approved" => QuorumIn(j.plan, ds, ps)
       /\ j.outcome = "rejected" => RejectionIn(j.plan, ds)
  /\ s = "get_decisions" /\ j.cur = "approved" => QuorumIn(j.plan, ds, ps)
  /\ s = "execution_allowed" => QuorumIn(j.plan, ds, ps)

JobsBacked == \A w \in Workers : Backed(pc[w], job[w], decisions, proposers)

StatesBacked ==
  \A p \in Plans :
    /\ states[p] = "approved" => QuorumIn(p, decisions, proposers)
    /\ states[p] = "rejected" => RejectionIn(p, decisions)

FactsBacked == \A p \in Plans : facts[p] # None => facts[p] \in proposers[p]

QuorumInv == TypeInv /\ StatesBacked /\ FactsBacked /\ JobsBacked

LEMMA SubsetCardinality ==
  ASSUME NEW S \in SUBSET Ids, NEW T \in SUBSET Ids, S \subseteq T
  PROVE  Cardinality(S) <= Cardinality(T) /\ Cardinality(S) \in Nat /\ Cardinality(T) \in Nat
BY PlanContractAssumption, FS_Subset, FS_CardinalityType

LEMMA QuorumGrows ==
  ASSUME NEW ds, NEW ps, NEW ds2, NEW ps2, Grows(ds, ps, ds2, ps2),
         NEW p \in Plans, QuorumIn(p, ds, ps)
  PROVE  QuorumIn(p, ds2, ps2)
<1>1. PICK q \in ps[p] : Cardinality({i \in Ids \ {q} : ds[p][i] = "approved"}) >= Needed(p)
  BY DEF QuorumIn
<1>2. {i \in Ids \ {q} : ds[p][i] = "approved"} \subseteq
      {i \in Ids \ {q} : ds2[p][i] = "approved"}
  BY DEF Grows
<1> DEFINE S == {i \in Ids \ {q} : ds[p][i] = "approved"}
           T == {i \in Ids \ {q} : ds2[p][i] = "approved"}
<1>3. Cardinality(S) <= Cardinality(T) /\ Cardinality(S) \in Nat /\ Cardinality(T) \in Nat
  BY <1>2, SubsetCardinality
<1>4. Needed(p) \in Nat
  BY DEF Needed
<1>5. Cardinality(T) >= Needed(p)
  <2> HIDE DEF S, T
  <2>1. Cardinality(S) >= Needed(p)
    BY <1>1 DEF S
  <2> QED BY <1>3, <1>4, <2>1
<1> QED BY <1>5 DEF QuorumIn, Grows

LEMMA BackedGrows ==
  ASSUME NEW ds, NEW ps, NEW ds2, NEW ps2, Grows(ds, ps, ds2, ps2),
         NEW s, NEW j, Shape(s, j), Backed(s, j, ds, ps)
  PROVE  Backed(s, j, ds2, ps2)
<1>1. CASE s = "idle"
  BY <1>1 DEF Backed
<1>2. CASE s # "idle"
  <2>1. j.plan \in Plans /\ ps[j.plan] \subseteq ps2[j.plan]
    BY <1>2 DEF Shape, Grows
  <2>2. QuorumIn(j.plan, ds, ps) => QuorumIn(j.plan, ds2, ps2)
    BY <2>1, QuorumGrows
  <2>3. RejectionIn(j.plan, ds) => RejectionIn(j.plan, ds2)
    BY <2>1 DEF RejectionIn, Grows
  <2>4. ASSUME s = "record", j.outcome = "approved"
        PROVE  Cardinality({i \in Ids \ {j.proposer} :
                              ds2[j.plan][i] = "approved" \/ i = j.actor}) >= Needed(j.plan)
    <3> DEFINE S == {i \in Ids \ {j.proposer} : ds[j.plan][i] = "approved" \/ i = j.actor}
               T == {i \in Ids \ {j.proposer} : ds2[j.plan][i] = "approved" \/ i = j.actor}
    <3>1. S \subseteq T
      BY <2>1 DEF Grows
    <3>2. Cardinality(S) <= Cardinality(T) /\ Cardinality(S) \in Nat /\ Cardinality(T) \in Nat
      BY <3>1, SubsetCardinality
    <3>3. Cardinality(S) >= Needed(j.plan) /\ Needed(j.plan) \in Nat
      BY <2>4 DEF Backed, Needed
    <3> HIDE DEF S, T
    <3>4. Cardinality(T) >= Needed(j.plan)
      BY <3>2, <3>3
    <3> QED BY <3>4 DEF T
  <2> QED
    BY <2>1, <2>2, <2>3, <2>4 DEF Backed
<1> QED BY <1>1, <1>2

LEMMA QuorumInit == Init => QuorumInv
<1> SUFFICES ASSUME Init PROVE QuorumInv
    OBVIOUS
<1>1. StatesBacked /\ FactsBacked
  BY DEF Init, StatesBacked, FactsBacked
<1>2. JobsBacked
  BY DEF Init, JobsBacked, Backed
<1> QED BY <1>1, <1>2, TypeInit DEF QuorumInv

(* One step: the jobs of the other workers stay backed because the stores  *)
(* only grow; the job that the step stores must be shown to be.            *)
LEMMA JobsStayBacked ==
  ASSUME QuorumInv, [Next]_vars, NEW w \in Workers, NEW s, NEW j,
         pc' = [pc EXCEPT ![w] = s], job' = [job EXCEPT ![w] = j],
         Backed(s, j, decisions', proposers')
  PROVE  JobsBacked'
<1>1. ASSUME NEW v \in Workers PROVE Backed(pc'[v], job'[v], decisions', proposers')
  <2>1. CASE v = w
    BY <2>1 DEF QuorumInv, TypeInv, TypeOK
  <2>2. CASE v # w
    <3>1. pc'[v] = pc[v] /\ job'[v] = job[v]
      BY <2>2 DEF QuorumInv, TypeInv, TypeOK
    <3>2. Shape(pc[v], job[v]) /\ Backed(pc[v], job[v], decisions, proposers)
      BY DEF QuorumInv, TypeInv, JobsOK, JobsBacked
    <3>3. Grows(decisions, proposers, decisions', proposers')
      BY StoresGrow DEF QuorumInv
    <3> QED BY <3>1, <3>2, <3>3, BackedGrows
  <2> QED BY <2>1, <2>2
<1> QED BY <1>1 DEF JobsBacked

LEMMA StoresStayBacked ==
  ASSUME QuorumInv, [Next]_vars, UNCHANGED <<states, facts>>
  PROVE  StatesBacked' /\ FactsBacked'
<1>1. Grows(decisions, proposers, decisions', proposers')
  BY StoresGrow DEF QuorumInv
<1>2. FactsBacked'
  BY <1>1 DEF QuorumInv, FactsBacked, Grows
<1>3. ASSUME NEW p \in Plans
      PROVE  /\ states'[p] = "approved" => QuorumIn(p, decisions', proposers')
             /\ states'[p] = "rejected" => RejectionIn(p, decisions')
  <2>1. QuorumIn(p, decisions, proposers) => QuorumIn(p, decisions', proposers')
    BY <1>1, QuorumGrows
  <2>2. RejectionIn(p, decisions) => RejectionIn(p, decisions')
    BY <1>1 DEF RejectionIn, Grows
  <2> QED BY <2>1, <2>2 DEF QuorumInv, StatesBacked
<1> QED BY <1>2, <1>3 DEF StatesBacked

(* The policy's quorum is the one the property states, with this           *)
(* approver's decision counted as if it were recorded.                     *)
LEMMA TransitionBacked ==
  ASSUME NEW j, NEW decs \in [Ids -> Decision \cup {None}], j.actor \in Ids,
         j.decision \in Decision, j.plan \in Plans, j.twoPerson \in BOOLEAN,
         NEW out, out = Transition(j.cur, j.proposer, decs, j.actor, j.decision,
                                   j.plan \in HighRisk \/ j.twoPerson)
  PROVE  /\ out = "approved" =>
              /\ j.decision = "approved"
              /\ Cardinality({i \in Ids \ {j.proposer} :
                                decs[i] = "approved" \/ i = j.actor}) >= Needed(j.plan)
         /\ out = "rejected" => j.decision = "rejected"
<1> DEFINE hr == j.plan \in HighRisk \/ j.twoPerson
           new == WithIncoming(decs, j.actor, j.decision)
           S == ValidApprovers(j.proposer, new)
           T == {i \in Ids \ {j.proposer} : decs[i] = "approved" \/ i = j.actor}
<1>1. out = "rejected" => j.decision = "rejected"
  BY DEF Transition, Refused, Decision
<1>2. ASSUME out = "approved" PROVE j.decision = "approved" /\ Cardinality(T) >= Needed(j.plan)
  <2>1. j.decision = "approved" /\ EvaluateH7(j.proposer, new, hr)
    BY <1>2 DEF Transition, Refused, Decision
  <2>2. S \subseteq T /\ S \in SUBSET Ids /\ T \in SUBSET Ids
    BY DEF WithIncoming, ValidApprovers
  <2>3. Cardinality(S) <= Cardinality(T) /\ Cardinality(S) \in Nat /\ Cardinality(T) \in Nat
    <3> HIDE DEF S, T
    <3> QED BY <2>2, SubsetCardinality
  <2>4. Cardinality(S) >= Required(hr)
    BY <2>1 DEF EvaluateH7
  <2>5. Required(hr) >= Needed(j.plan) /\ Required(hr) \in Nat /\ Needed(j.plan) \in Nat
    BY DEF Required, Needed
  <2> HIDE DEF S, T, hr
  <2> QED BY <2>1, <2>3, <2>4, <2>5
<1> QED BY <1>1, <1>2

LEMMA QuorumStep == QuorumInv /\ [Next]_vars => QuorumInv'
<1> SUFFICES ASSUME QuorumInv, [Next]_vars PROVE QuorumInv'
    OBVIOUS
<1> USE PlanContractAssumption
<1>t. TypeOK /\ JobsOK /\ TypeInv /\ StatesBacked /\ FactsBacked /\ JobsBacked
  BY DEF QuorumInv, TypeInv
<1>n. TypeInv'
  BY <1>t, TypeStep
<1>g. Grows(decisions, proposers, decisions', proposers')
  BY <1>t, StoresGrow
<1>0. CASE UNCHANGED vars
  <2>1. StatesBacked' /\ FactsBacked'
    BY <1>0, StoresStayBacked DEF vars, planVars
  <2>2. JobsBacked'
    BY <1>t, <1>0 DEF vars, planVars, JobsBacked
  <2> QED BY <1>n, <2>1, <2>2 DEF QuorumInv
<1>1. ASSUME NEW w \in Workers, NewRequest(w) PROVE QuorumInv'
  <2>0. UNCHANGED <<states, facts>>
    BY <1>1 DEF NewRequest, ProposePlan, SubmitDecision, CancelPlan, ExpirePlan,
       CancelOrExpire, ExecutionCheck, planVars
  <2>1. ASSUME NEW p \in Plans, NEW a \in Actors, ProposePlan(w, p, a) PROVE JobsBacked'
    <3> DEFINE j == [NoJob EXCEPT !.op = "propose", !.plan = p,
                       !.actor = CanonicalActorId[a], !.cur = "proposed",
                       !.outcome = "waiting_approval"]
    <3>1. pc' = [pc EXCEPT ![w] = "put_plan"] /\ job' = [job EXCEPT ![w] = j]
      BY <2>1 DEF ProposePlan, Accept
    <3>2. CanonicalActorId[a] \in proposers'[p]
      BY <1>t, <2>1 DEF ProposePlan, TypeOK
    <3>3. Backed("put_plan", j, decisions', proposers')
      BY <3>2 DEF Backed, NoJob
    <3> QED BY <3>1, <3>3, JobsStayBacked
  <2>2. ASSUME NEW p \in Plans, NEW a \in Actors, NEW d \in Decision,
               SubmitDecision(w, p, a, d)
        PROVE  JobsBacked'
    <3> DEFINE j == [NoJob EXCEPT !.op = "decide", !.plan = p,
                       !.actor = CanonicalActorId[a], !.decision = d]
    <3>1. pc' = [pc EXCEPT ![w] = "get_state"] /\ job' = [job EXCEPT ![w] = j]
      BY <2>2 DEF SubmitDecision, Accept
    <3>2. Backed("get_state", j, decisions', proposers')
      BY DEF Backed, NoJob
    <3> QED BY <3>1, <3>2, JobsStayBacked
  <2>3. ASSUME NEW p \in Plans, NEW op \in {"cancel", "expire"},
               NEW to \in {"cancelled", "expired"}, CancelOrExpire(w, p, op, to)
        PROVE  JobsBacked'
    <3> DEFINE j == [NoJob EXCEPT !.op = op, !.plan = p, !.cur = states[p],
                                  !.outcome = to]
    <3>1. pc' = [pc EXCEPT ![w] = "set_state"] /\ job' = [job EXCEPT ![w] = j]
      BY <2>3 DEF CancelOrExpire, Accept
    <3>2. Backed("set_state", j, decisions', proposers')
      BY DEF Backed, NoJob
    <3> QED BY <3>1, <3>2, JobsStayBacked
  <2>4. ASSUME NEW p \in Plans, ExecutionCheck(w, p) PROVE JobsBacked'
    <3> DEFINE j == [NoJob EXCEPT !.op = "check", !.plan = p, !.cur = states[p]]
    <3>1. pc' = [pc EXCEPT ![w] = "get_decisions"] /\ job' = [job EXCEPT ![w] = j]
      BY <2>4 DEF ExecutionCheck, Accept
    <3>2. states[p] = "approved" => QuorumIn(p, decisions', proposers')
      BY <1>t, <1>g, QuorumGrows DEF StatesBacked
    <3>3. Backed("get_decisions", j, decisions', proposers')
      BY <3>2 DEF Backed, NoJob
    <3> QED BY <3>1, <3>3, JobsStayBacked
  <2>5. JobsBacked'
    BY <1>1, <2>1, <2>2, <2>3, <2>4 DEF NewRequest, CancelPlan, ExpirePlan
  <2> QED BY <1>n, <2>0, <2>5, StoresStayBacked DEF QuorumInv
<1>2. ASSUME NEW w \in Workers, Continue(w) PROVE QuorumInv'
  <2> DEFINE j == job[w]
  <2>j. Shape(pc[w], j) /\ j \in Job /\ Backed(pc[w], j, decisions, proposers)
    BY <1>t DEF JobsOK, Shape, JobsBacked
  <2>i. Respond(w) => JobsBacked'
    <3> SUFFICES ASSUME Respond(w) PROVE JobsBacked'
        OBVIOUS
    <3>1. Backed("idle", NoJob, decisions', proposers')
      BY DEF Backed
    <3> QED BY <3>1, JobsStayBacked DEF Respond, Goto
  <2>1. CASE PutPlan(w)
    <3>1. pc' = [pc EXCEPT ![w] = "set_state"] /\ job' = [job EXCEPT ![w] = j]
          /\ UNCHANGED <<states, facts, decisions, proposers>>
      BY <2>1 DEF PutPlan, Goto
    <3>2. Backed("set_state", j, decisions, proposers)
      BY <2>1, <2>j DEF PutPlan, Backed, Shape
    <3> QED BY <1>n, <3>1, <3>2, JobsStayBacked, StoresStayBacked DEF QuorumInv
  <2>2. CASE PutFacts(w)
    <3>1. pc' = [pc EXCEPT ![w] = "emit"] /\ job' = [job EXCEPT ![w] = j]
          /\ UNCHANGED <<states, decisions, proposers>>
      BY <2>2 DEF PutFacts, Goto
    <3>2. j.plan \in Plans /\ j.actor \in proposers[j.plan]
      BY <2>2, <2>j DEF PutFacts, Backed, Shape
    <3>3. Backed("emit", j, decisions, proposers)
      BY <3>2 DEF Backed
    <3>4. FactsBacked'
      BY <1>t, <2>2, <3>1, <3>2 DEF PutFacts, FactsBacked, TypeOK
    <3>5. StatesBacked'
      BY <1>t, <3>1 DEF StatesBacked
    <3>6. JobsBacked'
      BY <3>1, <3>3, JobsStayBacked
    <3> QED BY <1>n, <3>4, <3>5, <3>6 DEF QuorumInv
  <2>3. CASE GetState(w)
    <3>1. UNCHANGED <<states, facts, decisions, proposers>>
      BY <2>3 DEF GetState, Respond, Goto, planVars
    <3>2. ASSUME NEW c, Goto(w, "get_facts", [j EXCEPT !.cur = c]) PROVE JobsBacked'
      <4>1. [j EXCEPT !.cur = c].op = "decide"
        BY <2>3, <2>j DEF GetState, Shape, DecideSteps, Job
      <4>2. Backed("get_facts", [j EXCEPT !.cur = c], decisions, proposers)
        BY <4>1 DEF Backed
      <4> QED BY <3>1, <3>2, <4>2, JobsStayBacked DEF Goto
    <3>3. JobsBacked'
      BY <2>3, <2>i, <3>2 DEF GetState
    <3> QED BY <1>n, <3>1, <3>3, StoresStayBacked DEF QuorumInv
  <2>4. CASE GetFacts(w)
    <3> DEFINE k == [j EXCEPT !.proposer = facts[j.plan]]
    <3>1. UNCHANGED <<states, facts, decisions, proposers>>
      BY <2>4 DEF GetFacts, Respond, Goto, planVars
    <3>2. ASSUME NEW s \in {"replay", "gate"}, facts[j.plan] # None, Goto(w, s, k)
          PROVE  JobsBacked'
      <4>1. facts[j.plan] \in proposers[j.plan]
        BY <1>t, <2>4, <2>j, <3>2 DEF GetFacts, Shape, FactsBacked
      <4>2. k.op = "decide" /\ k.plan = j.plan /\ k.proposer = facts[j.plan]
        BY <2>4, <2>j DEF GetFacts, Shape, DecideSteps, Job
      <4> HIDE DEF k
      <4>3. Backed(s, k, decisions, proposers)
        BY <4>1, <4>2 DEF Backed
      <4> QED BY <3>1, <3>2, <4>3, JobsStayBacked DEF Goto
    <3>3. JobsBacked'
      BY <2>4, <2>i, <3>2 DEF GetFacts
    <3> QED BY <1>n, <3>1, <3>3, StoresStayBacked DEF QuorumInv
  <2>5. CASE Replay(w)
    <3>1. UNCHANGED <<states, facts, decisions, proposers>>
      BY <2>5 DEF Replay, Respond, Goto, planVars
    <3>2. Backed("gate", j, decisions, proposers)
      BY <2>5, <2>j DEF Replay, Backed, Shape, DecideSteps
    <3>3. JobsBacked'
      BY <2>5, <2>i, <3>1, <3>2, JobsStayBacked DEF Replay, Goto
    <3> QED BY <1>n, <3>1, <3>3, StoresStayBacked DEF QuorumInv
  <2>6. CASE GateCheck(w)
    <3>1. UNCHANGED <<states, facts, decisions, proposers>>
      BY <2>6 DEF GateCheck, Respond, Goto, planVars
    <3>2. j.op = "decide" /\ j.proposer \in proposers[j.plan]
      BY <2>6, <2>j DEF GateCheck, Backed, Shape, DecideSteps
    <3>3. ASSUME NEW two \in BOOLEAN, Goto(w, "load", [j EXCEPT !.twoPerson = two])
          PROVE  JobsBacked'
      <4> DEFINE k == [j EXCEPT !.twoPerson = two]
      <4>1. k.op = "decide" /\ k.plan = j.plan /\ k.proposer = j.proposer
        BY <2>j, <3>2 DEF Job
      <4> HIDE DEF k
      <4>2. Backed("load", k, decisions, proposers)
        BY <3>2, <4>1 DEF Backed
      <4> QED BY <3>1, <3>3, <4>2, JobsStayBacked DEF Goto, k
    <3>4. Backed("deny", j, decisions, proposers)
      BY <3>2 DEF Backed
    <3>5. Goto(w, "deny", j) => JobsBacked'
      BY <3>1, <3>4, JobsStayBacked DEF Goto
    <3>6. JobsBacked'
      BY <2>6, <2>i, <3>3, <3>5 DEF GateCheck
    <3> QED BY <1>n, <3>1, <3>6, StoresStayBacked DEF QuorumInv
  <2>7. CASE AuditDeny(w) \/ Emit(w) \/ AnswerAllowed(w)
    <3>1. UNCHANGED <<states, facts>> /\ JobsBacked'
      BY <2>7, <2>i DEF AuditDeny, Emit, AnswerAllowed, planVars
    <3> QED BY <1>n, <3>1, StoresStayBacked DEF QuorumInv
  <2>8. CASE LoadAndDecide(w)
    <3> DEFINE out == Transition(j.cur, j.proposer, decisions[j.plan], j.actor,
                                 j.decision, j.plan \in HighRisk \/ j.twoPerson)
               k == [j EXCEPT !.outcome = out]
    <3>1. UNCHANGED <<states, facts, decisions, proposers>>
      BY <2>8 DEF LoadAndDecide, Respond, Goto, planVars
    <3>2. /\ j.op = "decide" /\ j.plan \in Plans /\ j.actor \in Ids
          /\ j.decision \in Decision /\ j.proposer \in proposers[j.plan]
          /\ j.twoPerson \in BOOLEAN
      BY <2>8, <2>j DEF LoadAndDecide, Backed, Shape, DecideSteps, Job
    <3>3. decisions[j.plan] \in [Ids -> Decision \cup {None}]
      BY <1>t, <3>2 DEF TypeOK
    <3>4. /\ out = "approved" =>
               /\ j.decision = "approved"
               /\ Cardinality({i \in Ids \ {j.proposer} :
                                 decisions[j.plan][i] = "approved" \/ i = j.actor})
                    >= Needed(j.plan)
          /\ out = "rejected" => j.decision = "rejected"
      BY <3>2, <3>3, TransitionBacked, SMTT(60)
    <3> HIDE DEF out
    <3>5. /\ k.op = "decide" /\ k.plan = j.plan /\ k.actor = j.actor
          /\ k.proposer = j.proposer /\ k.decision = j.decision /\ k.outcome = out
      BY <2>j, <3>2 DEF Job
    <3> HIDE DEF k
    <3>6. Backed("record", k, decisions, proposers)
      BY <3>2, <3>4, <3>5 DEF Backed
    <3>7. Goto(w, "record", k) => JobsBacked'
      BY <3>1, <3>6, JobsStayBacked DEF Goto
    <3>8. JobsBacked'
      BY <2>8, <2>i, <3>7 DEF LoadAndDecide, out, k
    <3> QED BY <1>n, <3>1, <3>8, StoresStayBacked DEF QuorumInv
  <2>9. CASE RecordDecision(w)
    <3>0. UNCHANGED <<states, facts, proposers>>
      BY <2>9 DEF RecordDecision, Respond, Goto
    <3>1. ASSUME decisions' = [decisions EXCEPT ![j.plan][j.actor] = j.decision],
                 Goto(w, "set_state", j)
          PROVE  JobsBacked'
      <4>1. j.plan \in Plans /\ j.actor \in Ids /\ j.op = "decide"
            /\ j.proposer \in proposers[j.plan]
        BY <2>9, <2>j DEF RecordDecision, Shape, DecideSteps, Backed
      <4>2. decisions'[j.plan] = [decisions[j.plan] EXCEPT ![j.actor] = j.decision]
        BY <1>t, <3>1, <4>1 DEF TypeOK
      <4>3. j.outcome = "rejected" => RejectionIn(j.plan, decisions')
        BY <1>t, <2>9, <2>j, <4>1, <4>2 DEF RecordDecision, Backed, RejectionIn, TypeOK
      <4>4. ASSUME j.outcome = "approved" PROVE QuorumIn(j.plan, decisions', proposers')
        <5> DEFINE S == {i \in Ids \ {j.proposer} :
                           decisions[j.plan][i] = "approved" \/ i = j.actor}
                   T == {i \in Ids \ {j.proposer} : decisions'[j.plan][i] = "approved"}
        <5>1. j.decision = "approved" /\ Cardinality(S) >= Needed(j.plan)
          BY <2>9, <2>j, <4>4 DEF RecordDecision, Backed
        <5>2. S = T
          BY <1>t, <4>1, <4>2, <5>1 DEF TypeOK
        <5> QED BY <3>0, <4>1, <5>1, <5>2 DEF QuorumIn
      <4>5. Backed("set_state", j, decisions', proposers')
        BY <4>1, <4>3, <4>4 DEF Backed
      <4> QED BY <3>1, <4>5, JobsStayBacked DEF Goto
    <3>2. JobsBacked'
      BY <2>9, <2>i, <3>1 DEF RecordDecision
    <3> QED BY <1>n, <3>0, <3>2, StoresStayBacked DEF QuorumInv
  <2>10. CASE SetState(w)
    <3>1. pc' = [pc EXCEPT ![w] = "audit"] /\ job' = [job EXCEPT ![w] = j]
          /\ UNCHANGED <<facts, decisions, proposers>>
          /\ states' = [states EXCEPT ![j.plan] = j.outcome]
      BY <2>10 DEF SetState, Goto
    <3>2. /\ j.outcome = "approved" => QuorumIn(j.plan, decisions, proposers)
          /\ j.outcome = "rejected" => RejectionIn(j.plan, decisions)
      BY <2>10, <2>j DEF SetState, Backed
    <3>3. StatesBacked'
      BY <1>t, <3>1, <3>2 DEF StatesBacked, TypeOK
    <3>4. FactsBacked'
      BY <1>t, <3>1 DEF FactsBacked
    <3>5. Backed("audit", j, decisions, proposers)
      BY <2>10, <2>j DEF SetState, Backed
    <3>6. JobsBacked'
      BY <3>1, <3>5, JobsStayBacked
    <3> QED BY <1>n, <3>3, <3>4, <3>6 DEF QuorumInv
  <2>11. CASE Audit(w)
    <3>1. UNCHANGED <<states, facts, decisions, proposers>>
      BY <2>11 DEF Audit, Respond, Goto
    <3>2. Backed("put_facts", j, decisions, proposers) /\ Backed("emit", j, decisions, proposers)
      BY <2>11, <2>j DEF Audit, Backed
    <3>3. Goto(w, "put_facts", j) \/ Goto(w, "emit", j) => JobsBacked'
      BY <3>1, <3>2, JobsStayBacked DEF Goto
    <3>4. JobsBacked'
      BY <2>11, <2>i, <3>3 DEF Audit
    <3> QED BY <1>n, <3>1, <3>4, StoresStayBacked DEF QuorumInv
  <2>12. CASE GuardCheck(w)
    <3>1. UNCHANGED <<states, facts, decisions, proposers>>
      BY <2>12 DEF GuardCheck, Respond, Goto, planVars
    <3>2. ASSUME j.cur = "approved", Goto(w, "execution_allowed", j) PROVE JobsBacked'
      <4>1. Backed("execution_allowed", j, decisions, proposers)
        BY <2>12, <2>j, <3>2 DEF GuardCheck, Backed
      <4> QED BY <3>1, <3>2, <4>1, JobsStayBacked DEF Goto
    <3>3. JobsBacked'
      BY <2>12, <2>i, <3>2 DEF GuardCheck, GuardExecution
    <3> QED BY <1>n, <3>1, <3>3, StoresStayBacked DEF QuorumInv
  <2> QED
    BY <1>2, <2>1, <2>2, <2>3, <2>4, <2>5, <2>6, <2>7, <2>8, <2>9, <2>10, <2>11,
       <2>12 DEF Continue
<1> QED
  BY <1>0, <1>1, <1>2 DEF Next

LEMMA QuorumInvariant == Spec => []QuorumInv
BY QuorumInit, QuorumStep, PTL DEF Spec

(* However handlers interleave, a plan is APPROVED only with its quorum    *)
(* recorded and REJECTED only with a rejection recorded.                   *)
THEOREM SettledStatesAreBacked == Spec => []SettledIsBacked
<1>1. QuorumInv => SettledIsBacked
  BY DEF QuorumInv, StatesBacked, SettledIsBacked, QuorumIn, RejectionIn, QuorumRecorded,
         IndependentApprovals, Needed
<1> QED BY <1>1, QuorumInvariant, PTL

(* execution_check answers execution_allowed only for a plan whose quorum  *)
(* is recorded.                                                            *)
THEOREM ExecutionIsBacked == Spec => []ExecutionAllowedIsBacked
<1>1. QuorumInv => ExecutionAllowedIsBacked
  BY DEF QuorumInv, JobsBacked, Backed, ExecutionAllowedIsBacked, QuorumIn,
         QuorumRecorded, IndependentApprovals, Needed
<1> QED BY <1>1, QuorumInvariant, PTL
-----------------------------------------------------------------------------
(* Settled states are on record.  A handler writes the state first and the *)
(* audit record and the event later, so between the calls the promise is   *)
(* kept by the handler; and a decision that leaves the plan waiting writes *)
(* no record that moves it there, so the proposal's own record must exist. *)

Recorded(p, x) == \E n \in DOMAIN trail[p] : trail[p][n].to = x /\ trail[p][n].from # x

Announced(p, x) == \E n \in DOMAIN outbox[p] : outbox[p][n] = x

(* What the handlers that write a state may write.                         *)
Lawful(s, j) ==
  s \in {"put_plan", "record", "set_state", "audit", "put_facts", "emit"} =>
    \/ j.op = "propose" /\ j.cur = "proposed" /\ j.outcome = "waiting_approval"
    \/ j.op = "decide" /\ j.cur = "waiting_approval" /\ j.outcome \in {"waiting_approval"} \cup Decision
    \/ j.op \in {"cancel", "expire"} /\ j.outcome \in {"cancelled", "expired"} /\ j.cur # j.outcome

(* The handlers that rely on the proposal having been audited.             *)
Relies(s, j) == s = "put_facts" \/ (j.op = "decide" /\ s \notin {"idle", "get_state", "get_facts"})

JobsLawful == \A w \in Workers : Lawful(pc[w], job[w])

ProposalKnown ==
  /\ \A p \in Plans : facts[p] # None => Recorded(p, "waiting_approval")
  /\ \A w \in Workers : Relies(pc[w], job[w]) => Recorded(job[w].plan, "waiting_approval")

(* The handler of w will audit, or announce, the state of its plan.        *)
WillAudit(w, p) == job[w].plan = p /\ job[w].outcome = states[p] /\ pc[w] = "audit"
WillAnnounce(w, p) == job[w].plan = p /\ job[w].outcome = states[p] /\ pc[w] \in {"audit", "emit"}

RecordInv == JobsLawful /\ ProposalKnown /\ SettledIsAnnounced /\ StateIsAudited

LEMMA RecordInit == Init => RecordInv
<1> SUFFICES ASSUME Init PROVE RecordInv
  OBVIOUS
<1>1. \A w \in Workers : pc[w] = "idle" /\ job[w].op = None
  BY DEF Init, NoJob
<1>2. JobsLawful /\ ProposalKnown
  BY <1>1 DEF Init, JobsLawful, ProposalKnown, Lawful, Relies
<1>3. SettledIsAnnounced /\ StateIsAudited
  BY DEF Init, SettledIsAnnounced, StateIsAudited
<1> QED BY <1>2, <1>3 DEF RecordInv

(* A step that leaves the states alone and loses no record or event, of a  *)
(* handler that hands over what it still owed.                             *)
LEMMA RecordKept ==
  ASSUME TypeInv, RecordInv, NEW w \in Workers, NEW s, NEW j,
         pc' = [pc EXCEPT ![w] = s], job' = [job EXCEPT ![w] = j],
         states' = states,
         \A p \in Plans : \A x : Recorded(p, x) => Recorded(p, x)',
         \A p \in Plans : \A x : Announced(p, x) => Announced(p, x)',
         \A p \in Plans : facts'[p] # None => facts[p] # None \/ Recorded(p, "waiting_approval"),
         Lawful(s, j),
         Relies(s, j) => Recorded(j.plan, "waiting_approval")',
         \A p \in Plans : WillAudit(w, p) => Recorded(p, states[p])',
         \A p \in Plans : states[p] \in {"approved", "rejected"} /\ WillAnnounce(w, p) =>
           Announced(p, states[p])' \/ (s \in {"audit", "emit"} /\ j = job[w])
  PROVE  RecordInv'
<1>1. /\ pc'[w] = s /\ job'[w] = j
      /\ \A v \in Workers \ {w} : pc'[v] = pc[v] /\ job'[v] = job[v]
  BY DEF TypeInv, TypeOK
<1>2. JobsLawful'
  BY <1>1 DEF RecordInv, JobsLawful
<1>3. \A v \in Workers : Relies(pc[v], job[v]) => job[v].plan \in Plans
  BY DEF TypeInv, JobsOK, Shape, Relies
<1>4. ProposalKnown'
  <2>1. \A p \in Plans : facts'[p] # None => Recorded(p, "waiting_approval")'
    BY DEF RecordInv, ProposalKnown
  <2>2. \A v \in Workers : (Relies(pc[v], job[v]) => Recorded(job[v].plan, "waiting_approval"))'
    <3> TAKE v \in Workers
    <3>1. CASE v = w
      BY <1>1, <3>1 DEF Recorded
    <3>2. CASE v # w
      BY <1>1, <1>3, <3>2 DEF RecordInv, ProposalKnown, Recorded
    <3> QED BY <3>1, <3>2
  <2> QED BY <2>1, <2>2 DEF ProposalKnown
<1>5. SettledIsAnnounced'
  <2> SUFFICES ASSUME NEW p \in Plans, states[p] \in {"approved", "rejected"}
               PROVE  Announced(p, states[p])' \/ \E v \in Workers : WillAnnounce(v, p)'
    BY DEF SettledIsAnnounced, Announced, WillAnnounce
  <2>1. Announced(p, states[p]) \/ \E v \in Workers : WillAnnounce(v, p)
    BY DEF RecordInv, SettledIsAnnounced, Announced, WillAnnounce
  <2>2. CASE Announced(p, states[p])
    BY <2>2 DEF Announced
  <2>3. CASE WillAnnounce(w, p)
    BY <1>1, <2>3 DEF WillAnnounce
  <2>4. ASSUME NEW v \in Workers \ {w}, WillAnnounce(v, p) PROVE WillAnnounce(v, p)'
    BY <1>1, <2>4 DEF WillAnnounce
  <2> QED BY <2>1, <2>2, <2>3, <2>4
<1>6. StateIsAudited'
  <2> SUFFICES ASSUME NEW p \in Plans, states[p] # None
               PROVE  Recorded(p, states[p])' \/ \E v \in Workers : WillAudit(v, p)'
    BY DEF StateIsAudited, Recorded, WillAudit
  <2>1. Recorded(p, states[p]) \/ \E v \in Workers : WillAudit(v, p)
    BY DEF RecordInv, StateIsAudited, Recorded, WillAudit
  <2>2. CASE Recorded(p, states[p])
    BY <2>2 DEF Recorded
  <2>3. CASE WillAudit(w, p)
    BY <2>3
  <2>4. ASSUME NEW v \in Workers \ {w}, WillAudit(v, p) PROVE WillAudit(v, p)'
    BY <1>1, <2>4 DEF WillAudit
  <2> QED BY <2>1, <2>2, <2>3, <2>4
<1> QED BY <1>2, <1>4, <1>5, <1>6 DEF RecordInv

(* A step that touches no store, of a handler that owes nothing.           *)
LEMMA RecordQuiet ==
  ASSUME TypeInv, RecordInv, NEW w \in Workers, NEW s, NEW j,
         pc' = [pc EXCEPT ![w] = s], job' = [job EXCEPT ![w] = j],
         UNCHANGED <<states, facts, trail, outbox>>,
         pc[w] \notin {"audit", "emit"}, Lawful(s, j),
         Relies(s, j) => Recorded(j.plan, "waiting_approval")
  PROVE  RecordInv'
<1>1. \A p, x : (Recorded(p, x) => Recorded(p, x)') /\ (Announced(p, x) => Announced(p, x)')
  BY DEF Recorded, Announced
<1>2. \A p : ~WillAudit(w, p) /\ ~WillAnnounce(w, p)
  BY DEF WillAudit, WillAnnounce
<1>3. Relies(s, j) => Recorded(j.plan, "waiting_approval")'
  BY DEF Recorded
<1> QED BY <1>1, <1>2, <1>3, RecordKept

LEMMA RecordRespond ==
  ASSUME TypeInv, RecordInv, NEW w \in Workers, Respond(w),
         UNCHANGED <<states, facts, trail, outbox>>, pc[w] \notin {"audit", "emit"}
  PROVE  RecordInv'
<1>1. Lawful("idle", NoJob) /\ ~Relies("idle", NoJob)
  BY DEF Lawful, Relies
<1> QED BY <1>1, RecordQuiet DEF Respond, Goto

(* Appending to a plan's trail loses no record and adds the new one.       *)
LEMMA TrailGrows ==
  ASSUME TypeInv, NEW q \in Plans, NEW r \in AuditRecord,
         trail' = [trail EXCEPT ![q] = Append(@, r)]
  PROVE  /\ \A p \in Plans : \A x : Recorded(p, x) => Recorded(p, x)'
         /\ r.from # r.to => Recorded(q, r.to)'
<1>1. trail[q] \in Seq(AuditRecord) /\ trail'[q] = Append(trail[q], r)
      /\ \A p \in Plans \ {q} : trail'[p] = trail[p]
  BY DEF TypeInv, TypeOK
<1>2. /\ DOMAIN trail'[q] = 1..(Len(trail[q]) + 1) /\ DOMAIN trail[q] = 1..Len(trail[q])
      /\ Len(trail[q]) \in Nat /\ trail'[q][Len(trail[q]) + 1] = r
      /\ \A n \in DOMAIN trail[q] : trail'[q][n] = trail[q][n]
  BY <1>1
<1>3. r.from # r.to => Recorded(q, r.to)'
  <2>1. Len(trail[q]) + 1 \in DOMAIN trail'[q]
    BY <1>2
  <2> QED BY <1>2, <2>1 DEF Recorded
<1>4. \A p \in Plans : \A x : Recorded(p, x) => Recorded(p, x)'
  <2> TAKE p \in Plans
  <2> TAKE x
  <2>1. CASE p = q
    <3>1. \A n \in DOMAIN trail[q] : n \in DOMAIN trail'[q]
      BY <1>2
    <3> QED BY <1>2, <2>1, <3>1 DEF Recorded
  <2>2. CASE p # q
    BY <1>1, <2>2 DEF Recorded
  <2> QED BY <2>1, <2>2
<1> QED BY <1>3, <1>4

LEMMA OutboxGrows ==
  ASSUME TypeInv, NEW q \in Plans, NEW e \in Event,
         outbox' = [outbox EXCEPT ![q] = Append(@, e)]
  PROVE  /\ \A p \in Plans : \A x : Announced(p, x) => Announced(p, x)'
         /\ Announced(q, e)'
<1>1. outbox[q] \in Seq(Event) /\ outbox'[q] = Append(outbox[q], e)
      /\ \A p \in Plans \ {q} : outbox'[p] = outbox[p]
  BY DEF TypeInv, TypeOK
<1>2. /\ DOMAIN outbox'[q] = 1..(Len(outbox[q]) + 1) /\ DOMAIN outbox[q] = 1..Len(outbox[q])
      /\ Len(outbox[q]) \in Nat /\ outbox'[q][Len(outbox[q]) + 1] = e
      /\ \A n \in DOMAIN outbox[q] : outbox'[q][n] = outbox[q][n]
  BY <1>1
<1>3. Announced(q, e)'
  <2>1. Len(outbox[q]) + 1 \in DOMAIN outbox'[q]
    BY <1>2
  <2> QED BY <1>2, <2>1 DEF Announced
<1>4. \A p \in Plans : \A x : Announced(p, x) => Announced(p, x)'
  <2> TAKE p \in Plans
  <2> TAKE x
  <2>1. CASE p = q
    <3>1. \A n \in DOMAIN outbox[q] : n \in DOMAIN outbox'[q]
      BY <1>2
    <3> QED BY <1>2, <2>1, <3>1 DEF Announced
  <2>2. CASE p # q
    BY <1>1, <2>2 DEF Announced
  <2> QED BY <2>1, <2>2
<1> QED BY <1>3, <1>4

(* The handler that writes the state is the one that owes the records.     *)
LEMMA RecordSetState ==
  ASSUME TypeInv, RecordInv, NEW w \in Workers, SetState(w)
  PROVE  RecordInv'
<1> DEFINE j == job[w]
<1>1. /\ pc[w] = "set_state" /\ UNCHANGED <<facts, trail, outbox>>
      /\ states' = [states EXCEPT ![j.plan] = j.outcome] /\ j.plan \in Plans
      /\ pc' = [pc EXCEPT ![w] = "audit"] /\ job' = [job EXCEPT ![w] = j]
  BY DEF SetState, Goto, TypeInv, JobsOK, Shape
<1>2. /\ pc'[w] = "audit" /\ job'[w] = j /\ states'[j.plan] = j.outcome
      /\ \A v \in Workers \ {w} : pc'[v] = pc[v] /\ job'[v] = job[v]
      /\ \A p \in Plans \ {j.plan} : states'[p] = states[p]
  BY <1>1 DEF TypeInv, TypeOK
<1> HIDE DEF j
<1>3. JobsLawful'
  <2>1. Lawful("audit", j)
    BY <1>1 DEF RecordInv, JobsLawful, Lawful, j
  <2> QED BY <1>2, <2>1 DEF RecordInv, JobsLawful
<1>4. ProposalKnown'
  BY <1>1, <1>2 DEF RecordInv, ProposalKnown, Recorded, Relies, j
<1>5. SettledIsAnnounced'
  <2> SUFFICES ASSUME NEW p \in Plans, states'[p] \in {"approved", "rejected"}
               PROVE  Announced(p, states[p])' \/ \E v \in Workers : WillAnnounce(v, p)'
    BY DEF SettledIsAnnounced, Announced, WillAnnounce
  <2>1. CASE p = j.plan
    BY <1>2, <2>1 DEF WillAnnounce
  <2>2. CASE p # j.plan
    <3>1. Announced(p, states[p]) \/ \E v \in Workers : WillAnnounce(v, p)
      BY <1>2, <2>2 DEF RecordInv, SettledIsAnnounced, Announced, WillAnnounce
    <3>2. Announced(p, states[p]) => Announced(p, states[p])'
      BY <1>1, <1>2, <2>2 DEF Announced
    <3>3. ASSUME NEW v \in Workers, WillAnnounce(v, p) PROVE WillAnnounce(v, p)'
      BY <1>1, <1>2, <2>2, <3>3 DEF WillAnnounce, j
    <3> QED BY <3>1, <3>2, <3>3
  <2> QED BY <2>1, <2>2
<1>6. StateIsAudited'
  <2> SUFFICES ASSUME NEW p \in Plans, states'[p] # None
               PROVE  Recorded(p, states[p])' \/ \E v \in Workers : WillAudit(v, p)'
    BY DEF StateIsAudited, Recorded, WillAudit
  <2>1. CASE p = j.plan
    BY <1>2, <2>1 DEF WillAudit
  <2>2. CASE p # j.plan
    <3>1. Recorded(p, states[p]) \/ \E v \in Workers : WillAudit(v, p)
      BY <1>2, <2>2 DEF RecordInv, StateIsAudited, Recorded, WillAudit
    <3>2. Recorded(p, states[p]) => Recorded(p, states[p])'
      BY <1>1, <1>2, <2>2 DEF Recorded
    <3>3. ASSUME NEW v \in Workers, WillAudit(v, p) PROVE WillAudit(v, p)'
      BY <1>1, <1>2, <2>2, <3>3 DEF WillAudit, j
    <3> QED BY <3>1, <3>2, <3>3
  <2> QED BY <2>1, <2>2
<1> QED BY <1>3, <1>4, <1>5, <1>6 DEF RecordInv

LEMMA RecordAudit ==
  ASSUME TypeInv, RecordInv, NEW w \in Workers, NEW j, j = job[w], Audit(w)
  PROVE  RecordInv'
<1> DEFINE r == [from |-> j.cur, to |-> j.outcome]
<1>1. /\ pc[w] = "audit" /\ UNCHANGED <<states, facts, outbox>>
      /\ trail' = [trail EXCEPT ![j.plan] = Append(@, r)]
      /\ j.plan \in Plans /\ j.cur \in PlanState /\ j.outcome \in PlanState
  BY DEF Audit, TypeInv, JobsOK, Shape
<1>2. /\ r \in AuditRecord /\ r.from = j.cur /\ r.to = j.outcome
  BY <1>1 DEF AuditRecord
<1>3. Lawful("audit", j)
  BY <1>1 DEF RecordInv, JobsLawful
<1>4. j.op = "decide" => Recorded(j.plan, "waiting_approval")
  BY <1>1 DEF RecordInv, ProposalKnown, Relies
<1> HIDE DEF r
<1>5. /\ \A p \in Plans : \A x : Recorded(p, x) => Recorded(p, x)'
      /\ j.cur # j.outcome => Recorded(j.plan, j.outcome)'
  BY <1>1, <1>2, TrailGrows
<1>6. Recorded(j.plan, j.outcome)'
  <2>1. CASE j.cur # j.outcome
    BY <1>5, <2>1
  <2>2. CASE j.cur = j.outcome
    <3>1. j.op = "decide" /\ j.outcome = "waiting_approval"
      BY <1>3, <2>2 DEF Lawful, Decision
    <3> QED BY <1>1, <1>4, <1>5, <3>1
  <2> QED BY <2>1, <2>2
<1>7. \A p \in Plans : WillAudit(w, p) => Recorded(p, states[p])'
  BY <1>1, <1>6 DEF WillAudit, Recorded
<1>8. \A p, x : Announced(p, x) => Announced(p, x)'
  BY <1>1 DEF Announced
<1>9. \A p \in Plans : states[p] \in {"approved", "rejected"} /\ WillAnnounce(w, p) => Settles(j)
  <2> SUFFICES ASSUME j.outcome \in {"approved", "rejected"} PROVE Settles(j)
    BY DEF WillAnnounce
  <2> QED BY <1>3 DEF Lawful, Settles
<1>10. CASE j.op = "propose" /\ Goto(w, "put_facts", j)
  <2>1. Lawful("put_facts", j) /\ j.outcome = "waiting_approval" /\ ~Settles(j)
    BY <1>3, <1>10 DEF Lawful, Settles
  <2> QED BY <1>1, <1>5, <1>6, <1>7, <1>8, <1>9, <1>10, <2>1, RecordKept DEF Goto
<1>11. CASE Settles(j) /\ Goto(w, "emit", j)
  <2>1. Lawful("emit", j) /\ (Relies("emit", j) => Recorded(j.plan, "waiting_approval")')
    BY <1>1, <1>3, <1>4, <1>5 DEF Lawful, Relies
  <2> QED BY <1>1, <1>5, <1>7, <1>8, <1>11, <2>1, RecordKept DEF Goto
<1>12. CASE ~Settles(j) /\ Respond(w)
  <2>1. Lawful("idle", NoJob) /\ ~Relies("idle", NoJob)
    BY DEF Lawful, Relies
  <2> QED BY <1>1, <1>5, <1>7, <1>8, <1>9, <1>12, <2>1, RecordKept DEF Respond, Goto
<1> QED BY <1>10, <1>11, <1>12 DEF Audit

LEMMA RecordEmit ==
  ASSUME TypeInv, RecordInv, NEW w \in Workers, NEW j, j = job[w], Emit(w)
  PROVE  RecordInv'
<1> DEFINE e == EventOf(j)
<1>1. /\ pc[w] = "emit" /\ UNCHANGED <<states, facts, trail>> /\ Respond(w)
      /\ outbox' = [outbox EXCEPT ![j.plan] = Append(@, e)]
      /\ j.plan \in Plans /\ e \in Event
  BY DEF Emit, TypeInv, JobsOK, Shape, EventOf, Event
<1>2. j.outcome \in {"approved", "rejected"} => e = j.outcome
  BY <1>1 DEF RecordInv, JobsLawful, Lawful, EventOf
<1> HIDE DEF e
<1>3. (\A p \in Plans : \A x : Announced(p, x) => Announced(p, x)') /\ Announced(j.plan, e)'
  BY <1>1, OutboxGrows
<1>4. \A p, x : Recorded(p, x) => Recorded(p, x)'
  BY <1>1 DEF Recorded
<1>5. \A p \in Plans : ~WillAudit(w, p)
  BY <1>1 DEF WillAudit
<1>6. \A p \in Plans : states[p] \in {"approved", "rejected"} /\ WillAnnounce(w, p) => Announced(p, states[p])'
  <2> TAKE p \in Plans
  <2> HAVE states[p] \in {"approved", "rejected"} /\ WillAnnounce(w, p)
  <2>1. p = j.plan /\ states[p] = e
    BY <1>2 DEF WillAnnounce
  <2> QED BY <1>1, <1>3, <2>1 DEF Announced
<1>7. Lawful("idle", NoJob) /\ ~Relies("idle", NoJob)
  BY DEF Lawful, Relies
<1> QED BY <1>1, <1>3, <1>4, <1>5, <1>6, <1>7, RecordKept DEF Respond, Goto

LEMMA RecordNewRequest ==
  ASSUME TypeInv, RecordInv, NEW w \in Workers, NewRequest(w)
  PROVE  RecordInv'
<1>1. ASSUME NEW p \in Plans, NEW a \in Actors, ProposePlan(w, p, a) PROVE RecordInv'
  <2> DEFINE j == [NoJob EXCEPT !.op = "propose", !.plan = p, !.actor = CanonicalActorId[a],
                     !.cur = "proposed", !.outcome = "waiting_approval"]
  <2>1. Lawful("put_plan", j) /\ ~Relies("put_plan", j)
    BY DEF Lawful, Relies, NoJob
  <2> HIDE DEF j
  <2> QED BY <1>1, <2>1, RecordQuiet DEF ProposePlan, Accept, planVars, j
<1>2. ASSUME NEW p \in Plans, NEW a \in Actors, NEW d \in Decision, SubmitDecision(w, p, a, d) PROVE RecordInv'
  <2> DEFINE j == [NoJob EXCEPT !.op = "decide", !.plan = p, !.actor = CanonicalActorId[a], !.decision = d]
  <2>1. Lawful("get_state", j) /\ ~Relies("get_state", j)
    BY DEF Lawful, Relies
  <2> HIDE DEF j
  <2> QED BY <1>2, <2>1, RecordQuiet DEF SubmitDecision, Accept, planVars, j
<1>3. ASSUME NEW p \in Plans, NEW op \in {"cancel", "expire"},
             NEW to \in {"cancelled", "expired"}, CancelOrExpire(w, p, op, to)
      PROVE  RecordInv'
  <2> DEFINE j == [NoJob EXCEPT !.op = op, !.plan = p, !.cur = states[p], !.outcome = to]
  <2>1. states[p] # to
    BY <1>3 DEF CancelOrExpire, MoveTo, ALLOWED_TRANSITIONS, PlanState
  <2>2. Lawful("set_state", j) /\ ~Relies("set_state", j)
    BY <2>1 DEF Lawful, Relies, NoJob
  <2> HIDE DEF j
  <2> QED BY <1>3, <2>2, RecordQuiet DEF CancelOrExpire, Accept, planVars, j
<1>4. ASSUME NEW p \in Plans, ExecutionCheck(w, p) PROVE RecordInv'
  <2> DEFINE j == [NoJob EXCEPT !.op = "check", !.plan = p, !.cur = states[p]]
  <2>1. Lawful("get_decisions", j) /\ ~Relies("get_decisions", j)
    BY DEF Lawful, Relies, NoJob
  <2> HIDE DEF j
  <2> QED BY <1>4, <2>1, RecordQuiet DEF ExecutionCheck, Accept, planVars, j
<1> QED BY <1>1, <1>2, <1>3, <1>4 DEF NewRequest, CancelPlan, ExpirePlan

LEMMA RecordContinue ==
  ASSUME TypeInv, RecordInv, NEW w \in Workers, NEW j, j = job[w], Continue(w)
  PROVE  RecordInv'
<1>j. /\ Shape(pc[w], j) /\ Lawful(pc[w], j)
      /\ Relies(pc[w], j) => Recorded(j.plan, "waiting_approval")
  BY DEF TypeInv, JobsOK, RecordInv, JobsLawful, ProposalKnown
<1>1. CASE PutPlan(w)
  <2>1. Lawful("set_state", j) /\ ~Relies("set_state", j)
    BY <1>1, <1>j DEF PutPlan, Lawful, Relies, Shape
  <2> QED BY <1>1, <2>1, RecordQuiet DEF PutPlan, Goto
<1>2. CASE PutFacts(w)
  <2>1. Lawful("emit", j) /\ ~Relies("emit", j) /\ Recorded(j.plan, "waiting_approval") /\ j.plan \in Plans
    BY <1>2, <1>j DEF PutFacts, Lawful, Relies, Shape
  <2>2. /\ pc' = [pc EXCEPT ![w] = "emit"] /\ job' = [job EXCEPT ![w] = j] /\ pc[w] = "put_facts"
        /\ UNCHANGED <<states, trail, outbox>> /\ facts' = [facts EXCEPT ![j.plan] = j.actor]
    BY <1>2 DEF PutFacts, Goto
  <2>3. \A p, x : (Recorded(p, x) => Recorded(p, x)') /\ (Announced(p, x) => Announced(p, x)')
    BY <2>2 DEF Recorded, Announced
  <2>4. \A p : ~WillAudit(w, p) /\ ~WillAnnounce(w, p)
    BY <2>2 DEF WillAudit, WillAnnounce
  <2>5. \A p \in Plans : facts'[p] # None => facts[p] # None \/ Recorded(p, "waiting_approval")
    BY <2>1, <2>2 DEF TypeInv, TypeOK
  <2> QED BY <2>1, <2>2, <2>3, <2>4, <2>5, RecordKept
<1>3. CASE GetState(w)
  <2>1. ASSUME Goto(w, "get_facts", [j EXCEPT !.cur = states[j.plan]]) PROVE RecordInv'
    <3> DEFINE k == [j EXCEPT !.cur = states[j.plan]]
    <3>1. Lawful("get_facts", k) /\ ~Relies("get_facts", k)
      BY DEF Lawful, Relies
    <3> HIDE DEF k
    <3> QED BY <1>3, <2>1, <3>1, RecordQuiet DEF GetState, Goto, planVars, k
  <2> QED BY <1>3, <2>1, RecordRespond DEF GetState, planVars
<1>4. CASE GetFacts(w)
  <2>1. ASSUME facts[j.plan] # None, NEW s \in {"replay", "gate"},
               Goto(w, s, [j EXCEPT !.proposer = facts[j.plan]])
        PROVE  RecordInv'
    <3> DEFINE k == [j EXCEPT !.proposer = facts[j.plan]]
    <3>1. Lawful(s, k)
      BY <2>1 DEF Lawful
    <3>2. k.plan = j.plan /\ j.plan \in Plans
      BY <1>4, <1>j DEF GetFacts, Shape, Job
    <3>3. Recorded(k.plan, "waiting_approval")
      BY <2>1, <3>2 DEF RecordInv, ProposalKnown
    <3> HIDE DEF k
    <3> QED BY <1>4, <2>1, <3>1, <3>3, RecordQuiet DEF GetFacts, Goto, planVars, k
  <2> QED BY <1>4, <2>1, RecordRespond DEF GetFacts, planVars
<1>5. CASE Replay(w)
  <2>1. Lawful("gate", j) /\ Recorded(j.plan, "waiting_approval")
    BY <1>5, <1>j DEF Replay, Lawful, Relies, Shape, DecideSteps
  <2> QED BY <1>5, <2>1, RecordQuiet, RecordRespond DEF Replay, Goto, planVars
<1>6. CASE GateCheck(w)
  <2>1. Recorded(j.plan, "waiting_approval")
    BY <1>6, <1>j DEF GateCheck, Relies, Shape, DecideSteps
  <2>2. ASSUME NEW two \in BOOLEAN, Goto(w, "load", [j EXCEPT !.twoPerson = two]) PROVE RecordInv'
    <3> DEFINE k == [j EXCEPT !.twoPerson = two]
    <3>1. Lawful("load", k)
      BY DEF Lawful
    <3>2. k.plan = j.plan
      BY <1>j DEF Shape, Job
    <3> HIDE DEF k
    <3> QED BY <1>6, <2>1, <2>2, <3>1, <3>2, RecordQuiet DEF GateCheck, Goto, planVars, k
  <2>3. Lawful("deny", j)
    BY DEF Lawful
  <2>4. CASE Goto(w, "deny", j)
    BY <1>6, <2>1, <2>3, <2>4, RecordQuiet DEF GateCheck, Goto, planVars
  <2> QED BY <1>6, <2>2, <2>4, RecordRespond DEF GateCheck, planVars
<1>7. CASE AuditDeny(w)
  <2> DEFINE r == [from |-> j.cur, to |-> j.cur]
  <2>1. /\ pc[w] = "deny" /\ UNCHANGED <<states, facts, outbox>> /\ Respond(w)
        /\ trail' = [trail EXCEPT ![j.plan] = Append(@, r)] /\ j.plan \in Plans /\ r \in AuditRecord
    BY <1>7, <1>j DEF AuditDeny, Shape, DecideSteps, AuditRecord
  <2> HIDE DEF r
  <2>2. \A p \in Plans : \A x : Recorded(p, x) => Recorded(p, x)'
    BY <2>1, TrailGrows
  <2>3. \A p, x : Announced(p, x) => Announced(p, x)'
    BY <2>1 DEF Announced
  <2>4. \A p : ~WillAudit(w, p) /\ ~WillAnnounce(w, p)
    BY <2>1 DEF WillAudit, WillAnnounce
  <2>5. Lawful("idle", NoJob) /\ ~Relies("idle", NoJob)
    BY DEF Lawful, Relies
  <2> QED BY <2>1, <2>2, <2>3, <2>4, <2>5, RecordKept DEF Respond, Goto
<1>8. CASE LoadAndDecide(w)
  <2> DEFINE out == Transition(j.cur, j.proposer, decisions[j.plan], j.actor,
                               j.decision, j.plan \in HighRisk \/ j.twoPerson)
  <2>1. ASSUME out # Refused, Goto(w, "record", [j EXCEPT !.outcome = out]) PROVE RecordInv'
    <3>1. j.decision \in Decision /\ j.op = "decide" /\ j \in Job
      BY <1>8, <1>j DEF LoadAndDecide, Shape, DecideSteps
    <3>2. /\ j.cur = "waiting_approval" /\ (out # j.cur => out \in Decision)
      BY <2>1, <3>1, TransitionResult
    <3> HIDE DEF out
    <3> DEFINE k == [j EXCEPT !.outcome = out]
    <3>3. k.op = j.op /\ k.cur = j.cur /\ k.outcome = out /\ k.plan = j.plan
      BY <3>1 DEF Job
    <3> HIDE DEF k
    <3>4. Lawful("record", k)
      BY <3>1, <3>2, <3>3 DEF Lawful
    <3>5. Recorded(k.plan, "waiting_approval")
      BY <1>8, <1>j, <3>1, <3>3 DEF LoadAndDecide, Relies
    <3> QED BY <1>8, <2>1, <3>4, <3>5, RecordQuiet DEF LoadAndDecide, Goto, planVars, k
  <2> QED BY <1>8, <2>1, RecordRespond DEF LoadAndDecide, planVars
<1>9. CASE RecordDecision(w)
  <2>1. Lawful("set_state", j) /\ Recorded(j.plan, "waiting_approval")
    BY <1>9, <1>j DEF RecordDecision, Lawful, Relies, Shape, DecideSteps
  <2> QED BY <1>9, <2>1, RecordQuiet, RecordRespond DEF RecordDecision, Goto
<1>10. CASE SetState(w)
  BY <1>10, RecordSetState
<1>11. CASE Audit(w)
  BY <1>11, RecordAudit
<1>12. CASE Emit(w)
  BY <1>12, RecordEmit
<1>13. CASE GuardCheck(w)
  <2>1. Lawful("execution_allowed", j) /\ (Relies("execution_allowed", j) => Recorded(j.plan, "waiting_approval"))
    BY <1>13, <1>j DEF GuardCheck, Lawful, Relies
  <2> QED BY <1>13, <2>1, RecordQuiet, RecordRespond DEF GuardCheck, Goto, planVars
<1>14. CASE AnswerAllowed(w)
  BY <1>14, RecordRespond DEF AnswerAllowed, planVars
<1> QED
  BY <1>1, <1>2, <1>3, <1>4, <1>5, <1>6, <1>7, <1>8, <1>9, <1>10, <1>11, <1>12, <1>13, <1>14 DEF Continue

LEMMA RecordStep == TypeInv /\ RecordInv /\ [Next]_vars => RecordInv'
<1> SUFFICES ASSUME TypeInv, RecordInv, [Next]_vars PROVE RecordInv'
  OBVIOUS
<1>1. CASE UNCHANGED vars
  BY <1>1 DEF vars, planVars, RecordInv, JobsLawful, ProposalKnown, SettledIsAnnounced, StateIsAudited, Recorded
<1> QED BY <1>1, RecordNewRequest, RecordContinue DEF Next

(* Whatever handlers interleave, the state that is in force has an audit   *)
(* record of the move to it, and a settled one its event, or the handler   *)
(* that wrote the state is still on its way to write them (set_state,      *)
(* audit, _emit of app.py).                                                *)
THEOREM SettledIsAlwaysOnRecord == Spec => []SettledIsOnRecord
<1>1. TypeInv /\ RecordInv => SettledIsOnRecord
  BY DEF RecordInv, SettledIsOnRecord
<1>2. Init => TypeInv /\ RecordInv
  BY TypeInit, RecordInit
<1>3. TypeInv /\ RecordInv /\ [Next]_vars => (TypeInv /\ RecordInv)'
  BY TypeStep, RecordStep
<1> QED BY <1>1, <1>2, <1>3, PTL DEF Spec
-----------------------------------------------------------------------------
(* One handler at a time, and every plan sent once: then what the handler  *)
(* read is still true when it writes.  The invariant is stated over the    *)
(* values the stores hold for one plan: its state st, decisions ds, trail  *)
(* tr, outbox ob and proposers ps, and the step s and job j of the handler. *)

Chained(tr) ==
  /\ tr # <<>> => tr[1].from = "proposed"
  /\ \A n \in 2..Len(tr) : tr[n].from = tr[n - 1].to

EndsIn(tr, st) == tr # <<>> /\ tr[Len(tr)].to = st

Approvals(ds, q) == {i \in Ids \ {q} : ds[i] = "approved"}

Unannounced(ob) == \A n \in DOMAIN ob : ob[n] = "proposed"

AnnouncedOnce(ob) == \A m, n \in DOMAIN ob : ob[m] = ob[n] /\ m # n => ob[m] = "proposed"

Verdict(j, ds) == Transition(j.cur, j.proposer, ds, j.actor, j.decision,
                             j.plan \in HighRisk \/ j.twoPerson)

(* What the stores hold for a plan, and what the handler still owes it.    *)
Orderly(p, st, ds, tr, ob, ps, s, j) ==
  /\ \A q, r \in ps : q = r
  /\ ps = {} => st = None
  /\ st # "proposed"
  /\ st = None => tr = <<>> /\ \A i \in Ids : ds[i] = None
  /\ Chained(tr)
  /\ st # None /\ ~(s = "audit" /\ j.plan = p) => EndsIn(tr, st)
  /\ st = "waiting_approval"
       /\ ~(s = "set_state" /\ j.plan = p /\ j.outcome # "waiting_approval")
       => \A q \in ps : Cardinality(Approvals(ds, q)) < 2
  /\ \/ st \in {None, "waiting_approval"}
     \/ s \in {"audit", "emit"} /\ j.plan = p /\ Settles(j)
     => Unannounced(ob)
  /\ AnnouncedOnce(ob)

(* What the handler read is what its plan has.                             *)
Fresh(s, j, st, ds, tr) ==
  /\ s = "put_plan" \/ (s = "set_state" /\ j.op = "propose") => st = None
  /\ s \in DecideSteps \ {"get_state"} \/ (s = "set_state" /\ j.op # "propose")
       => st = j.cur
  /\ s \in {"audit", "put_facts", "emit"} => st = j.outcome
  /\ s = "audit" => IF j.op = "propose" THEN tr = <<>> ELSE EndsIn(tr, j.cur)
  /\ s = "record" => j.outcome = Verdict(j, ds)
  /\ s = "set_state" /\ j.op \in {"cancel", "expire"} => j.cur = "waiting_approval"

SerialInv(w) ==
  /\ \A p \in Plans : Orderly(p, states[p], decisions[p], trail[p], outbox[p],
                              proposers[p], pc[w], job[w])
  /\ pc[w] # "idle" => Fresh(pc[w], job[w], states[job[w].plan],
                             decisions[job[w].plan], trail[job[w].plan])

LEMMA OrderlyKept ==
  ASSUME NEW p, NEW st, NEW ds, NEW tr, NEW ob, NEW ps, NEW s, NEW j, NEW s2, NEW j2,
         Orderly(p, st, ds, tr, ob, ps, s, j),
         ~(s \in {"audit", "set_state"} /\ j.plan = p),
         ~(s2 \in {"audit", "emit"} /\ j2.plan = p /\ Settles(j2))
  PROVE  Orderly(p, st, ds, tr, ob, ps, s2, j2)
BY DEF Orderly

(* The outcome that leaves a plan waiting was computed from a quorum that  *)
(* is not there, with this decision counted.                               *)
LEMMA WaitingMeansMissing ==
  ASSUME NEW j, NEW ds \in [Ids -> Decision \cup {None}], j.actor \in Ids,
         j.decision \in Decision, ds[j.actor] \in {None, j.decision},
         Verdict(j, ds) = "waiting_approval"
  PROVE  Cardinality(Approvals([ds EXCEPT ![j.actor] = j.decision], j.proposer)) < 2
<1> DEFINE new == [ds EXCEPT ![j.actor] = j.decision]
           hr == j.plan \in HighRisk \/ j.twoPerson
<1>1. WithIncoming(ds, j.actor, j.decision) = new
  BY DEF WithIncoming
<1>2. ~EvaluateH7(j.proposer, new, hr)
  BY <1>1 DEF Verdict, Transition, Refused
<1>3. ValidApprovers(j.proposer, new) = Approvals(new, j.proposer)
  BY DEF ValidApprovers, Approvals
<1>4. Cardinality(Approvals(new, j.proposer)) \in Nat
  BY SubsetCardinality DEF Approvals
<1>5. Required(hr) \in Nat /\ Required(hr) <= 2
  BY DEF Required
<1> HIDE DEF new, hr
<1>6. ~(Cardinality(Approvals(new, j.proposer)) >= Required(hr))
  BY <1>2, <1>3 DEF EvaluateH7
<1>7. Cardinality(Approvals(new, j.proposer)) < 2
  BY <1>4, <1>5, <1>6
<1> QED BY <1>7 DEF new

LEMMA OrderlyRecord ==
  ASSUME NEW p, NEW st, NEW ds \in [Ids -> Decision \cup {None}], NEW tr, NEW ob, NEW ps,
         NEW j, Orderly(p, st, ds, tr, ob, ps, "record", j),
         Lawful("record", j), j.op = "decide", j.plan = p, st = j.cur,
         j.outcome = Verdict(j, ds), j.actor \in Ids, j.decision \in Decision,
         j.proposer \in ps, ds[j.actor] \in {None, j.decision}
  PROVE  Orderly(p, st, [ds EXCEPT ![j.actor] = j.decision], tr, ob, ps, "set_state", j)
<1>1. j.cur = "waiting_approval"
  BY DEF Lawful
<1> DEFINE new == [ds EXCEPT ![j.actor] = j.decision]
<1>2. j.outcome = "waiting_approval" => Cardinality(Approvals(new, j.proposer)) < 2
  BY WaitingMeansMissing
<1>3. \A q \in ps : q = j.proposer
  BY DEF Orderly
<1> HIDE DEF new
<1>4. Orderly(p, st, new, tr, ob, ps, "set_state", j)
  BY <1>1, <1>2, <1>3 DEF Orderly
<1> QED BY <1>4 DEF new

LEMMA OrderlySet ==
  ASSUME NEW p, NEW st, NEW ds, NEW tr, NEW ob, NEW ps, NEW j,
         Orderly(p, st, ds, tr, ob, ps, "set_state", j), ps # {}, j.plan = p,
         Lawful("set_state", j), Fresh("set_state", j, st, ds, tr)
  PROVE  Orderly(p, j.outcome, ds, tr, ob, ps, "audit", j)
<1>1. j.outcome \in PlanState \ {"proposed"} /\ j.outcome # None
  BY DEF Lawful, PlanState, Decision
<1>2. ASSUME j.outcome = "waiting_approval", NEW q \in ps
      PROVE  Cardinality(Approvals(ds, q)) < 2
  <2>1. CASE j.op = "propose"
    <3>1. Approvals(ds, q) = {}
      BY <2>1 DEF Fresh, Orderly, Approvals
    <3> QED BY <3>1, FS_EmptySet
  <2>2. CASE j.op # "propose"
    <3>1. j.op = "decide" /\ st = "waiting_approval"
      BY <1>2, <2>2 DEF Lawful, Fresh
    <3> QED BY <1>2, <3>1 DEF Orderly
  <2> QED BY <2>1, <2>2
<1>3. ASSUME j.outcome = "waiting_approval" \/ Settles(j) PROVE Unannounced(ob)
  <2>1. j.op \in {"propose", "decide"}
    BY <1>3 DEF Lawful, Settles
  <2>2. st \in {None, "waiting_approval"}
    BY <2>1 DEF Lawful, Fresh
  <2> QED BY <2>2 DEF Orderly
<1> QED BY <1>1, <1>2, <1>3 DEF Orderly

(* A record that starts where the trail ends continues the chain.          *)
LEMMA ChainGrows ==
  ASSUME NEW tr \in Seq(AuditRecord), NEW r \in AuditRecord, Chained(tr),
         tr = <<>> => r.from = "proposed", tr # <<>> => EndsIn(tr, r.from)
  PROVE  Chained(Append(tr, r)) /\ EndsIn(Append(tr, r), r.to)
<1> DEFINE new == Append(tr, r)
<1>1. /\ Len(tr) \in Nat /\ Len(new) = Len(tr) + 1 /\ new[Len(tr) + 1] = r
      /\ \A n \in 1..Len(tr) : new[n] = tr[n]
      /\ new # <<>> /\ (tr = <<>> <=> Len(tr) = 0)
  <2>1. /\ Len(tr) \in Nat /\ Len(new) = Len(tr) + 1 /\ new[Len(tr) + 1] = r
        /\ \A n \in 1..Len(tr) : new[n] = tr[n]
    OBVIOUS
  <2>2. tr = <<>> <=> Len(tr) = 0
    OBVIOUS
  <2>3. new # <<>>
    OBVIOUS
  <2> QED BY <2>1, <2>2, <2>3
<1>2. EndsIn(new, r.to)
  BY <1>1 DEF EndsIn
<1>3. new[1].from = "proposed"
  <2>1. CASE tr = <<>>
    BY <1>1, <2>1
  <2>2. CASE tr # <<>>
    <3>1. 1 \in 1..Len(tr)
      BY <1>1, <2>2
    <3> QED BY <1>1, <2>2, <3>1 DEF Chained
  <2> QED BY <2>1, <2>2
<1>4. ASSUME NEW n \in 2..Len(new) PROVE new[n].from = new[n - 1].to
  <2>1. CASE n = Len(tr) + 1
    <3>1. n - 1 = Len(tr) /\ Len(tr) \in 1..Len(tr) /\ tr # <<>>
      BY <1>1, <2>1
    <3> QED BY <1>1, <2>1, <3>1 DEF EndsIn
  <2>2. CASE n # Len(tr) + 1
    <3>1. n \in 2..Len(tr) /\ n \in 1..Len(tr) /\ n - 1 \in 1..Len(tr)
      BY <1>1, <2>2
    <3> QED BY <1>1, <3>1 DEF Chained
  <2> QED BY <2>1, <2>2
<1> QED BY <1>2, <1>3, <1>4 DEF Chained

(* A denial is on the trail and moves nothing.                             *)
LEMMA OrderlyDeny ==
  ASSUME NEW p, NEW st, NEW ds, NEW tr \in Seq(AuditRecord), NEW ob, NEW ps, NEW j, NEW j2,
         NEW r \in AuditRecord, Orderly(p, st, ds, tr, ob, ps, "deny", j), st # None,
         r.to = st, r.from = st
  PROVE  Orderly(p, st, ds, Append(tr, r), ob, ps, "idle", j2)
<1> DEFINE new == Append(tr, r)
<1>1. EndsIn(tr, st) /\ tr # <<>> /\ Chained(tr)
  BY DEF Orderly, EndsIn
<1>2. Chained(new) /\ EndsIn(new, st)
  BY <1>1, ChainGrows
<1> HIDE DEF new
<1>3. Orderly(p, st, ds, new, ob, ps, "idle", j2)
  BY <1>2 DEF Orderly
<1> QED BY <1>3 DEF new

LEMMA OrderlyEmit ==
  ASSUME NEW p, NEW st, NEW ds, NEW tr, NEW ob \in Seq(Event), NEW ps, NEW j, NEW j2,
         Orderly(p, st, ds, tr, ob, ps, "emit", j), j.plan = p, Lawful("emit", j),
         Shape("emit", j), st = j.outcome
  PROVE  Orderly(p, st, ds, tr, Append(ob, EventOf(j)), ps, "idle", j2)
<1> DEFINE e == EventOf(j)
           new == Append(ob, e)
<1>0. e \in Event
  BY DEF EventOf, Event, Shape
<1>1. /\ DOMAIN ob = 1..Len(ob) /\ DOMAIN new = 1..(Len(ob) + 1) /\ Len(ob) \in Nat
      /\ new[Len(ob) + 1] = e /\ \A n \in 1..Len(ob) : new[n] = ob[n]
  BY <1>0
<1>2. \A n \in DOMAIN new : n \in DOMAIN ob \/ n = Len(ob) + 1
  BY <1>1
<1>3. CASE j.op = "propose"
  <2>1. e = "proposed"
    BY <1>3 DEF EventOf
  <2> HIDE DEF e, new
  <2>2. Unannounced(ob) => Unannounced(new)
    BY <1>1, <1>2, <2>1 DEF Unannounced
  <2>3. AnnouncedOnce(ob) => AnnouncedOnce(new)
    BY <1>1, <1>2, <2>1 DEF AnnouncedOnce
  <2>4. Orderly(p, st, ds, tr, new, ps, "idle", j2)
    BY <2>2, <2>3 DEF Orderly
  <2> QED BY <2>4 DEF e, new
<1>4. CASE j.op # "propose"
  <2>1. j.op = "decide" /\ j.outcome \in Decision /\ Settles(j) /\ e = j.outcome
    BY <1>4 DEF Shape, Lawful, Settles, EventOf, Decision
  <2>2. Unannounced(ob) /\ st \notin {None, "waiting_approval"}
    BY <2>1 DEF Orderly, Decision
  <2> HIDE DEF e, new
  <2>3. AnnouncedOnce(new)
    BY <1>1, <1>2, <2>1, <2>2 DEF AnnouncedOnce, Unannounced, Decision
  <2>4. Orderly(p, st, ds, tr, new, ps, "idle", j2)
    BY <2>2, <2>3 DEF Orderly
  <2> QED BY <2>4 DEF e, new
<1> QED BY <1>3, <1>4

(* A step of the one worker that leaves its plan and all others orderly.   *)
LEMMA SerialFromParts ==
  ASSUME TypeInv, NEW w \in Workers, NEW s2, NEW j2,
         pc' = [pc EXCEPT ![w] = s2], job' = [job EXCEPT ![w] = j2],
         \A p \in Plans : Orderly(p, states'[p], decisions'[p], trail'[p], outbox'[p],
                                  proposers'[p], s2, j2),
         s2 # "idle" => Fresh(s2, j2, states'[j2.plan], decisions'[j2.plan], trail'[j2.plan])
  PROVE  SerialInv(w)'
<1>1. pc'[w] = s2 /\ job'[w] = j2
  BY DEF TypeInv, TypeOK
<1> QED BY <1>1 DEF SerialInv

(* A step that writes to no store.                                         *)
LEMMA SerialQuiet ==
  ASSUME TypeInv, NEW w \in Workers, SerialInv(w), NEW s2, NEW j2,
         pc' = [pc EXCEPT ![w] = s2], job' = [job EXCEPT ![w] = j2],
         UNCHANGED <<states, decisions, trail, outbox, proposers>>,
         pc[w] \notin {"audit", "set_state"},
         ~(s2 \in {"audit", "emit"} /\ Settles(j2)),
         s2 # "idle" => Fresh(s2, j2, states[j2.plan], decisions[j2.plan], trail[j2.plan])
  PROVE  SerialInv(w)'
<1>1. ASSUME NEW p \in Plans
      PROVE  Orderly(p, states[p], decisions[p], trail[p], outbox[p], proposers[p], s2, j2)
  <2>1. Orderly(p, states[p], decisions[p], trail[p], outbox[p], proposers[p], pc[w], job[w])
    BY DEF SerialInv
  <2> QED BY <2>1, OrderlyKept
<1> QED BY <1>1, SerialFromParts

LEMMA SerialRespond ==
  ASSUME TypeInv, NEW w \in Workers, SerialInv(w), Respond(w),
         UNCHANGED <<states, decisions, trail, outbox>>,
         pc[w] \notin {"audit", "set_state"}
  PROVE  SerialInv(w)'
BY SerialQuiet DEF Respond, Goto

(* A step that writes to the stores of its own plan only.                  *)
LEMMA SerialWrites ==
  ASSUME TypeInv, NEW w \in Workers, SerialInv(w), NEW s2, NEW j2, NEW q \in Plans,
         pc' = [pc EXCEPT ![w] = s2], job' = [job EXCEPT ![w] = j2],
         \A p \in Plans \ {q} : /\ states'[p] = states[p] /\ decisions'[p] = decisions[p]
                                /\ trail'[p] = trail[p] /\ outbox'[p] = outbox[p]
                                /\ proposers'[p] = proposers[p],
         pc[w] = "idle" \/ job[w].plan = q, s2 = "idle" \/ j2.plan = q,
         Orderly(q, states'[q], decisions'[q], trail'[q], outbox'[q], proposers'[q], s2, j2),
         s2 # "idle" => Fresh(s2, j2, states'[q], decisions'[q], trail'[q])
  PROVE  SerialInv(w)'
<1>1. ASSUME NEW p \in Plans \ {q}
      PROVE  Orderly(p, states'[p], decisions'[p], trail'[p], outbox'[p], proposers'[p], s2, j2)
  <2>1. Orderly(p, states[p], decisions[p], trail[p], outbox[p], proposers[p], pc[w], job[w])
    BY DEF SerialInv
  <2>2. Orderly(p, states[p], decisions[p], trail[p], outbox[p], proposers[p], s2, j2)
    BY <2>1, OrderlyKept
  <2> QED BY <2>2
<1> QED BY <1>1, SerialFromParts

LEMMA SerialNewRequest ==
  ASSUME ~AllowRepropose, TypeInv, NEW w \in Workers, SerialInv(w), NewRequest(w)
  PROVE  SerialInv(w)'
<1>0. pc[w] = "idle"
  BY DEF NewRequest, ProposePlan, SubmitDecision, CancelPlan, ExpirePlan, CancelOrExpire,
         ExecutionCheck, Accept
<1>1. ASSUME NEW p \in Plans, NEW a \in Actors, ProposePlan(w, p, a) PROVE SerialInv(w)'
  <2> DEFINE j == [NoJob EXCEPT !.op = "propose", !.plan = p, !.actor = CanonicalActorId[a],
                     !.cur = "proposed", !.outcome = "waiting_approval"]
  <2>1. /\ pc' = [pc EXCEPT ![w] = "put_plan"] /\ job' = [job EXCEPT ![w] = j]
        /\ UNCHANGED <<states, decisions, trail, outbox>>
        /\ proposers[p] = {} /\ proposers'[p] = {CanonicalActorId[a]}
        /\ \A r \in Plans \ {p} : proposers'[r] = proposers[r]
    BY <1>1 DEF ProposePlan, Accept, planVars, TypeInv, TypeOK
  <2>2. j.plan = p
    BY DEF NoJob
  <2> HIDE DEF j
  <2>3. Orderly(p, states[p], decisions[p], trail[p], outbox[p], {}, pc[w], job[w])
    BY <2>1 DEF SerialInv
  <2>4. states[p] = None
    BY <2>3 DEF Orderly
  <2>5. Orderly(p, states[p], decisions[p], trail[p], outbox[p], {CanonicalActorId[a]}, "put_plan", j)
    BY <2>3, <2>4 DEF Orderly
  <2>6. Fresh("put_plan", j, states[p], decisions[p], trail[p])
    BY <2>4 DEF Fresh, DecideSteps
  <2> QED BY <1>0, <2>1, <2>2, <2>5, <2>6, SerialWrites
<1>2. ASSUME NEW p \in Plans, NEW a \in Actors, NEW d \in Decision, SubmitDecision(w, p, a, d)
      PROVE  SerialInv(w)'
  <2> DEFINE j == [NoJob EXCEPT !.op = "decide", !.plan = p, !.actor = CanonicalActorId[a], !.decision = d]
  <2>1. Fresh("get_state", j, states[j.plan], decisions[j.plan], trail[j.plan])
    BY DEF Fresh, DecideSteps
  <2> HIDE DEF j
  <2> QED BY <1>0, <1>2, <2>1, SerialQuiet DEF SubmitDecision, Accept, planVars, j
<1>3. ASSUME NEW p \in Plans, NEW op \in {"cancel", "expire"},
             NEW to \in {"cancelled", "expired"}, CancelOrExpire(w, p, op, to)
      PROVE  SerialInv(w)'
  <2> DEFINE j == [NoJob EXCEPT !.op = op, !.plan = p, !.cur = states[p], !.outcome = to]
  <2>1. j.op = op /\ j.plan = p /\ j.cur = states[p]
    BY DEF NoJob
  <2> HIDE DEF j
  <2>a. states[p] \in PlanState /\ states[p] # "proposed"
    BY <1>3 DEF CancelOrExpire, TypeInv, TypeOK, SerialInv, Orderly
  <2>b. states[p] = "waiting_approval"
    BY <1>3, <2>a DEF CancelOrExpire, MoveTo, ALLOWED_TRANSITIONS, PlanState
  <2>2. Fresh("set_state", j, states[j.plan], decisions[j.plan], trail[j.plan])
    BY <2>1, <2>b DEF Fresh, DecideSteps
  <2> QED BY <1>0, <1>3, <2>2, SerialQuiet DEF CancelOrExpire, Accept, planVars, j
<1>4. ASSUME NEW p \in Plans, ExecutionCheck(w, p) PROVE SerialInv(w)'
  <2> DEFINE j == [NoJob EXCEPT !.op = "check", !.plan = p, !.cur = states[p]]
  <2>1. Fresh("get_decisions", j, states[j.plan], decisions[j.plan], trail[j.plan])
    BY DEF Fresh, DecideSteps
  <2> HIDE DEF j
  <2> QED BY <1>0, <1>4, <2>1, SerialQuiet DEF ExecutionCheck, Accept, planVars, j
<1> QED BY <1>1, <1>2, <1>3, <1>4 DEF NewRequest, CancelPlan, ExpirePlan

LEMMA SerialContinue ==
  ASSUME QuorumInv, RecordInv, NEW w \in Workers, NEW j, j = job[w], SerialInv(w), Continue(w)
  PROVE  SerialInv(w)'
<1>t. TypeInv /\ TypeOK
  BY DEF QuorumInv, TypeInv
<1>j. /\ pc[w] # "idle" /\ Shape(pc[w], j) /\ Lawful(pc[w], j)
      /\ Backed(pc[w], j, decisions, proposers) /\ j.plan \in Plans /\ j \in Job
      /\ Fresh(pc[w], j, states[j.plan], decisions[j.plan], trail[j.plan])
      /\ Orderly(j.plan, states[j.plan], decisions[j.plan], trail[j.plan], outbox[j.plan],
                 proposers[j.plan], pc[w], j)
  <2>1. pc[w] # "idle"
    BY DEF Continue, PutPlan, PutFacts, GetState, GetFacts, Replay, GateCheck, AuditDeny,
           LoadAndDecide, RecordDecision, SetState, Audit, Emit, GuardCheck, AnswerAllowed
  <2>2. Shape(pc[w], j) /\ Lawful(pc[w], j) /\ Backed(pc[w], j, decisions, proposers)
    BY <1>t DEF TypeInv, JobsOK, RecordInv, JobsLawful, QuorumInv, JobsBacked
  <2>3. j.plan \in Plans /\ j \in Job
    BY <2>1, <2>2 DEF Shape
  <2> QED BY <2>1, <2>2, <2>3 DEF SerialInv
<1>1. CASE PutPlan(w)
  <2>1. Fresh("set_state", j, states[j.plan], decisions[j.plan], trail[j.plan])
    BY <1>1, <1>j DEF PutPlan, Fresh, Shape, DecideSteps
  <2> QED BY <1>t, <1>1, <2>1, SerialQuiet DEF PutPlan, Goto
<1>2. CASE PutFacts(w)
  <2>1. Fresh("emit", j, states[j.plan], decisions[j.plan], trail[j.plan]) /\ ~Settles(j)
    BY <1>2, <1>j DEF PutFacts, Fresh, Shape, DecideSteps, Settles
  <2> QED BY <1>t, <1>2, <2>1, SerialQuiet DEF PutFacts, Goto
<1>3. CASE GetState(w)
  <2>1. ASSUME Goto(w, "get_facts", [j EXCEPT !.cur = states[j.plan]]) PROVE SerialInv(w)'
    <3> DEFINE k == [j EXCEPT !.cur = states[j.plan]]
    <3>1. k.plan = j.plan /\ k.cur = states[j.plan]
      BY <1>j DEF Job
    <3> HIDE DEF k
    <3>2. Fresh("get_facts", k, states[k.plan], decisions[k.plan], trail[k.plan])
      BY <3>1 DEF Fresh
    <3> QED BY <1>t, <1>3, <2>1, <3>2, SerialQuiet DEF GetState, Goto, planVars, k
  <2> QED BY <1>t, <1>3, <2>1, SerialRespond DEF GetState, planVars
<1>4. CASE GetFacts(w)
  <2>1. ASSUME NEW s \in {"replay", "gate"}, Goto(w, s, [j EXCEPT !.proposer = facts[j.plan]])
        PROVE  SerialInv(w)'
    <3> DEFINE k == [j EXCEPT !.proposer = facts[j.plan]]
    <3>1. k.plan = j.plan /\ k.cur = j.cur
      BY <1>j DEF Job
    <3> HIDE DEF k
    <3>2. states[j.plan] = j.cur
      BY <1>4, <1>j DEF GetFacts, Fresh, DecideSteps
    <3>3. Fresh(s, k, states[k.plan], decisions[k.plan], trail[k.plan])
      BY <3>1, <3>2 DEF Fresh
    <3> QED BY <1>t, <1>4, <2>1, <3>3, SerialQuiet DEF GetFacts, Goto, planVars, k
  <2> QED BY <1>t, <1>4, <2>1, SerialRespond DEF GetFacts, planVars
<1>5. CASE Replay(w)
  <2>1. Fresh("gate", j, states[j.plan], decisions[j.plan], trail[j.plan])
    BY <1>5, <1>j DEF Replay, Fresh, DecideSteps
  <2>2. CASE Goto(w, "gate", j)
    BY <1>t, <1>5, <2>1, <2>2, SerialQuiet DEF Replay, Goto, planVars
  <2> QED BY <1>t, <1>5, <2>2, SerialRespond DEF Replay, planVars
<1>6. CASE GateCheck(w)
  <2>0. states[j.plan] = j.cur
    BY <1>6, <1>j DEF GateCheck, Fresh, DecideSteps
  <2>1. ASSUME NEW two \in BOOLEAN, Goto(w, "load", [j EXCEPT !.twoPerson = two]) PROVE SerialInv(w)'
    <3> DEFINE k == [j EXCEPT !.twoPerson = two]
    <3>1. k.plan = j.plan /\ k.cur = j.cur
      BY <1>j DEF Job
    <3> HIDE DEF k
    <3>2. Fresh("load", k, states[k.plan], decisions[k.plan], trail[k.plan])
      BY <2>0, <3>1 DEF Fresh
    <3> QED BY <1>t, <1>6, <2>1, <3>2, SerialQuiet DEF GateCheck, Goto, planVars, k
  <2>2. Fresh("deny", j, states[j.plan], decisions[j.plan], trail[j.plan])
    BY <2>0 DEF Fresh
  <2>3. CASE Goto(w, "deny", j)
    BY <1>t, <1>6, <2>2, <2>3, SerialQuiet DEF GateCheck, Goto, planVars
  <2> QED BY <1>t, <1>6, <2>1, <2>3, SerialRespond DEF GateCheck, planVars
<1>7. CASE LoadAndDecide(w)
  <2> DEFINE out == Transition(j.cur, j.proposer, decisions[j.plan], j.actor,
                               j.decision, j.plan \in HighRisk \/ j.twoPerson)
  <2>1. ASSUME Goto(w, "record", [j EXCEPT !.outcome = out]) PROVE SerialInv(w)'
    <3>0. states[j.plan] = j.cur
      BY <1>7, <1>j DEF LoadAndDecide, Fresh, DecideSteps
    <3> HIDE DEF out
    <3> DEFINE k == [j EXCEPT !.outcome = out]
    <3>1. /\ k.plan = j.plan /\ k.cur = j.cur /\ k.proposer = j.proposer /\ k.actor = j.actor
          /\ k.decision = j.decision /\ k.twoPerson = j.twoPerson /\ k.outcome = out
      BY <1>j DEF Job
    <3> HIDE DEF k
    <3>2. out = Verdict(k, decisions[k.plan])
      BY <3>1 DEF Verdict, out
    <3>3. Fresh("record", k, states[k.plan], decisions[k.plan], trail[k.plan])
      BY <3>0, <3>1, <3>2 DEF Fresh
    <3> QED BY <1>t, <1>7, <2>1, <3>3, SerialQuiet DEF LoadAndDecide, Goto, planVars, k
  <2> QED BY <1>t, <1>7, <2>1, SerialRespond DEF LoadAndDecide, planVars
<1>8. CASE RecordDecision(w)
  <2>1. ASSUME decisions[j.plan][j.actor] \in {None, j.decision},
               decisions' = [decisions EXCEPT ![j.plan][j.actor] = j.decision],
               Goto(w, "set_state", j)
        PROVE  SerialInv(w)'
    <3>1. /\ pc[w] = "record" /\ j.op = "decide" /\ j.actor \in Ids /\ j.decision \in Decision
          /\ j.proposer \in proposers[j.plan]
          /\ states[j.plan] = j.cur /\ j.outcome = Verdict(j, decisions[j.plan])
      BY <1>8, <1>j DEF RecordDecision, Shape, DecideSteps, Backed, Fresh
    <3>2. decisions[j.plan] \in [Ids -> Decision \cup {None}]
      BY <1>t, <1>j DEF TypeOK
    <3>3. /\ decisions'[j.plan] = [decisions[j.plan] EXCEPT ![j.actor] = j.decision]
          /\ \A p \in Plans \ {j.plan} : decisions'[p] = decisions[p]
      BY <1>t, <1>j, <2>1 DEF TypeOK
    <3>4. Orderly(j.plan, states[j.plan], [decisions[j.plan] EXCEPT ![j.actor] = j.decision],
                  trail[j.plan], outbox[j.plan], proposers[j.plan], "set_state", j)
      BY <1>j, <2>1, <3>1, <3>2, OrderlyRecord
    <3>5. Fresh("set_state", j, states[j.plan], decisions'[j.plan], trail[j.plan])
      BY <3>1 DEF Fresh, DecideSteps
    <3>6. /\ pc' = [pc EXCEPT ![w] = "set_state"] /\ job' = [job EXCEPT ![w] = j]
          /\ UNCHANGED <<states, trail, outbox, proposers>>
      BY <1>8, <2>1 DEF RecordDecision, Goto
    <3>7. Orderly(j.plan, states'[j.plan], decisions'[j.plan], trail'[j.plan],
                  outbox'[j.plan], proposers'[j.plan], "set_state", j)
      BY <3>3, <3>4, <3>6
    <3>8. Fresh("set_state", j, states'[j.plan], decisions'[j.plan], trail'[j.plan])
      BY <3>5, <3>6
    <3>9. \A p \in Plans \ {j.plan} :
            /\ states'[p] = states[p] /\ decisions'[p] = decisions[p]
            /\ trail'[p] = trail[p] /\ outbox'[p] = outbox[p]
            /\ proposers'[p] = proposers[p]
      BY <3>3, <3>6
    <3> QED BY <1>t, <1>j, <3>6, <3>7, <3>8, <3>9, SerialWrites
  <2>2. CASE Respond(w) /\ UNCHANGED decisions
    BY <1>t, <1>8, <2>2, SerialRespond DEF RecordDecision
  <2> QED BY <1>8, <2>1, <2>2 DEF RecordDecision
<1>9. CASE SetState(w)
  <2>1. /\ pc[w] = "set_state" /\ pc' = [pc EXCEPT ![w] = "audit"]
        /\ job' = [job EXCEPT ![w] = j] /\ UNCHANGED <<decisions, trail, outbox, proposers>>
        /\ states'[j.plan] = j.outcome /\ \A p \in Plans \ {j.plan} : states'[p] = states[p]
    BY <1>t, <1>j, <1>9 DEF SetState, Goto, TypeOK
  <2>2. /\ j.op = "propose" => states[j.plan] = None
        /\ j.op # "propose" => states[j.plan] = j.cur
        /\ j.cur \in PlanState
    BY <1>j, <2>1 DEF Fresh, Shape
  <2>3. proposers[j.plan] # {}
    <3>1. CASE j.op = "propose"
      BY <1>j, <2>1, <3>1 DEF Backed
    <3>2. CASE j.op # "propose"
      BY <1>j, <2>2, <3>2 DEF Orderly, PlanState
    <3> QED BY <3>1, <3>2
  <2>4. Orderly(j.plan, j.outcome, decisions[j.plan], trail[j.plan], outbox[j.plan],
                proposers[j.plan], "audit", j)
    BY <1>j, <2>1, <2>3, OrderlySet, ZenonT(60)
  <2>5. IF j.op = "propose" THEN trail[j.plan] = <<>> ELSE EndsIn(trail[j.plan], j.cur)
    BY <1>j, <2>1, <2>2 DEF Orderly, PlanState
  <2>6. Fresh("audit", j, j.outcome, decisions[j.plan], trail[j.plan])
    BY <2>5 DEF Fresh, DecideSteps
  <2> QED BY <1>t, <1>j, <2>1, <2>4, <2>6, SerialWrites
<1>10. CASE Audit(w)
  <2> DEFINE r == [from |-> j.cur, to |-> j.outcome]
  <2>1. /\ pc[w] = "audit" /\ UNCHANGED <<states, decisions, outbox, proposers>>
        /\ trail'[j.plan] = Append(trail[j.plan], r)
        /\ \A p \in Plans \ {j.plan} : trail'[p] = trail[p]
    BY <1>t, <1>j, <1>10 DEF Audit, Respond, Goto, TypeOK
  <2>2. /\ r \in AuditRecord /\ r.to = j.outcome /\ states[j.plan] = j.outcome
        /\ j.outcome # None /\ trail[j.plan] \in Seq(AuditRecord)
    BY <1>t, <1>j, <2>1 DEF AuditRecord, Shape, Fresh, TypeOK, PlanState
  <2>3. IF j.op = "propose" THEN trail[j.plan] = <<>> /\ r.from = "proposed"
                            ELSE EndsIn(trail[j.plan], r.from)
    BY <1>j, <2>1 DEF Fresh, Lawful
  <2>4. /\ trail[j.plan] = <<>> => r.from = "proposed"
        /\ trail[j.plan] # <<>> => EndsIn(trail[j.plan], r.from)
    BY <2>3 DEF EndsIn
  <2> HIDE DEF r
  <2>5. ASSUME NEW s2 \in {"put_facts", "emit", "idle"}, NEW j2, s2 = "emit" => j2 = j
        PROVE  Orderly(j.plan, states[j.plan], decisions[j.plan], Append(trail[j.plan], r),
                       outbox[j.plan], proposers[j.plan], s2, j2)
    <3>1. Orderly(j.plan, states[j.plan], decisions[j.plan], trail[j.plan], outbox[j.plan],
                  proposers[j.plan], "audit", j)
      BY <1>j, <2>1
    <3>2. states[j.plan] # None /\ r.to = states[j.plan]
      BY <2>2
    <3>3. Chained(Append(trail[j.plan], r)) /\ EndsIn(Append(trail[j.plan], r), states[j.plan])
      BY <2>2, <2>4, <3>1, <3>2, ChainGrows DEF Orderly
    <3> DEFINE new == Append(trail[j.plan], r)
    <3> HIDE DEF new
    <3>4. Orderly(j.plan, states[j.plan], decisions[j.plan], new,
                  outbox[j.plan], proposers[j.plan], s2, j2)
      BY <2>5, <3>1, <3>2, <3>3 DEF Orderly, new
    <3> QED BY <3>4 DEF new
  <2>6. ASSUME NEW s2 \in {"put_facts", "emit"}, Goto(w, s2, j) PROVE SerialInv(w)'
    <3>1. Fresh(s2, j, states[j.plan], decisions[j.plan], Append(trail[j.plan], r))
      BY <2>2 DEF Fresh, DecideSteps
    <3>2. Orderly(j.plan, states[j.plan], decisions[j.plan], Append(trail[j.plan], r),
                  outbox[j.plan], proposers[j.plan], s2, j)
      BY <2>5
    <3> QED BY <1>t, <1>j, <2>1, <2>6, <3>1, <3>2, SerialWrites DEF Goto
  <2>7. CASE Respond(w)
    <3>1. Orderly(j.plan, states[j.plan], decisions[j.plan], Append(trail[j.plan], r),
                  outbox[j.plan], proposers[j.plan], "idle", NoJob)
      BY <2>5
    <3> QED BY <1>t, <1>j, <2>1, <2>7, <3>1, SerialWrites DEF Respond, Goto
  <2> QED BY <1>10, <2>6, <2>7 DEF Audit
<1>11. CASE AuditDeny(w)
  <2> DEFINE r == [from |-> j.cur, to |-> j.cur]
  <2>1. /\ pc[w] = "deny" /\ UNCHANGED <<states, decisions, outbox, proposers>> /\ Respond(w)
        /\ trail'[j.plan] = Append(trail[j.plan], r)
        /\ \A p \in Plans \ {j.plan} : trail'[p] = trail[p]
    BY <1>t, <1>j, <1>11 DEF AuditDeny, Respond, Goto, TypeOK
  <2>2. /\ r \in AuditRecord /\ r.to = j.cur /\ r.from = j.cur /\ states[j.plan] = j.cur
        /\ j.cur # None /\ trail[j.plan] \in Seq(AuditRecord)
    BY <1>t, <1>j, <2>1 DEF AuditRecord, Shape, Fresh, TypeOK, PlanState, DecideSteps
  <2> HIDE DEF r
  <2>3. Orderly(j.plan, states[j.plan], decisions[j.plan], Append(trail[j.plan], r),
                outbox[j.plan], proposers[j.plan], "idle", NoJob)
    BY <1>j, <2>1, <2>2, OrderlyDeny
  <2> QED BY <1>t, <1>j, <2>1, <2>3, SerialWrites DEF Respond, Goto
<1>12. CASE Emit(w)
  <2>1. /\ pc[w] = "emit" /\ UNCHANGED <<states, decisions, trail, proposers>> /\ Respond(w)
        /\ outbox'[j.plan] = Append(outbox[j.plan], EventOf(j))
        /\ \A p \in Plans \ {j.plan} : outbox'[p] = outbox[p]
    BY <1>t, <1>j, <1>12 DEF Emit, Respond, Goto, TypeOK
  <2>2. outbox[j.plan] \in Seq(Event) /\ states[j.plan] = j.outcome
    BY <1>t, <1>j, <2>1 DEF TypeOK, Fresh
  <2>3. Orderly(j.plan, states[j.plan], decisions[j.plan], trail[j.plan],
                Append(outbox[j.plan], EventOf(j)), proposers[j.plan], "idle", NoJob)
    BY <1>j, <2>1, <2>2, OrderlyEmit
  <2> QED BY <1>t, <1>j, <2>1, <2>3, SerialWrites DEF Respond, Goto
<1>13. CASE GuardCheck(w)
  <2>1. Fresh("execution_allowed", j, states[j.plan], decisions[j.plan], trail[j.plan])
    BY DEF Fresh, DecideSteps
  <2>2. CASE Goto(w, "execution_allowed", j)
    BY <1>t, <1>13, <2>1, <2>2, SerialQuiet DEF GuardCheck, Goto, planVars
  <2> QED BY <1>t, <1>13, <2>2, SerialRespond DEF GuardCheck, planVars
<1>14. CASE AnswerAllowed(w)
  BY <1>t, <1>14, SerialRespond DEF AnswerAllowed, planVars
<1> QED
  BY <1>1, <1>2, <1>3, <1>4, <1>5, <1>6, <1>7, <1>8, <1>9, <1>10, <1>11, <1>12, <1>13, <1>14 DEF Continue

LEMMA SerialInit ==
  ASSUME NEW w \in Workers, Init
  PROVE  SerialInv(w)
<1>1. ASSUME NEW p \in Plans
      PROVE  Orderly(p, states[p], decisions[p], trail[p], outbox[p], proposers[p], pc[w], job[w])
  <2>1. /\ states[p] = None /\ trail[p] = <<>> /\ outbox[p] = <<>> /\ proposers[p] = {}
        /\ \A i \in Ids : decisions[p][i] = None
    BY DEF Init
  <2>2. Chained(<<>>) /\ Unannounced(<<>>) /\ AnnouncedOnce(<<>>)
    BY DEF Chained, Unannounced, AnnouncedOnce
  <2> QED BY <2>1, <2>2 DEF Orderly
<1> QED BY <1>1 DEF SerialInv, Init

(* One worker, and no plan sent twice.                                     *)
OneAtATime(w) == Workers = {w} /\ ~AllowRepropose

LEMMA SerialStep ==
  ASSUME NEW w, OneAtATime(w), QuorumInv, RecordInv, SerialInv(w), [Next]_vars
  PROVE  SerialInv(w)'
<1>1. w \in Workers /\ (\A v \in Workers : v = w) /\ ~AllowRepropose /\ TypeInv
  BY DEF OneAtATime, QuorumInv
<1>2. CASE UNCHANGED vars
  BY <1>2 DEF vars, planVars, SerialInv
<1>3. CASE NewRequest(w)
  BY <1>1, <1>3, SerialNewRequest
<1>4. CASE Continue(w)
  BY <1>1, <1>4, SerialContinue
<1> QED BY <1>1, <1>2, <1>3, <1>4 DEF Next

LEMMA SerialInvariant ==
  ASSUME NEW w, OneAtATime(w)
  PROVE  Spec => [](QuorumInv /\ RecordInv /\ SerialInv(w))
<1>0. w \in Workers
  BY DEF OneAtATime
<1>1. Init => QuorumInv /\ RecordInv /\ SerialInv(w)
  BY <1>0, QuorumInit, RecordInit, SerialInit
<1>2. QuorumInv /\ RecordInv /\ SerialInv(w) /\ [Next]_vars
        => (QuorumInv /\ RecordInv /\ SerialInv(w))'
  BY QuorumStep, RecordStep, SerialStep DEF QuorumInv
<1> QED BY <1>1, <1>2, PTL DEF Spec

(* The decision that is recorded is not the proposer's.                    *)
LEMMA RecordedByOthers ==
  ASSUME NEW w, OneAtATime(w), QuorumInv, RecordInv, SerialInv(w), RecordDecision(w)
  PROVE  /\ job[w].actor \notin proposers[job[w].plan]
         /\ states[job[w].plan] = "waiting_approval"
         /\ job[w].plan \in Plans /\ job[w].actor \in Ids /\ job[w].decision \in Decision
<1> DEFINE j == job[w]
<1>1. pc[w] = "record" /\ w \in Workers
  BY DEF RecordDecision, OneAtATime
<1>2. /\ Lawful("record", j) /\ Backed("record", j, decisions, proposers) /\ Shape("record", j)
      /\ Fresh("record", j, states[j.plan], decisions[j.plan], trail[j.plan])
  BY <1>1 DEF QuorumInv, TypeInv, JobsOK, JobsBacked, RecordInv, JobsLawful, SerialInv
<1>3. /\ j.plan \in Plans /\ j.actor \in Ids /\ j.decision \in Decision /\ j.op = "decide"
      /\ j.proposer \in proposers[j.plan]
  BY <1>2 DEF Shape, DecideSteps, Backed
<1>4. \A q \in proposers[j.plan] : q = j.proposer
  BY <1>3 DEF SerialInv, Orderly
<1>5. /\ states[j.plan] = j.cur /\ j.cur = "waiting_approval"
      /\ j.outcome = Verdict(j, decisions[j.plan]) /\ j.outcome # Refused
  BY <1>2, <1>3 DEF Fresh, Lawful, DecideSteps, Refused, Decision
<1>6. j.actor # j.proposer
  BY <1>5 DEF Verdict, Transition
<1> QED BY <1>3, <1>4, <1>5, <1>6

(* Handled one request at a time and sent once, a plan settles as soon as  *)
(* its quorum is recorded, has one outcome event and an unbroken trail,    *)
(* and its proposer approves nothing (app.py, submit_decision).            *)
THEOREM SerialOutcomeIsOrderly ==
  ASSUME NEW w, OneAtATime(w)
  PROVE  Spec => OutcomeIsOrderly
<1> DEFINE Inv == QuorumInv /\ RecordInv /\ SerialInv(w)
<1>1. Inv => QuorumSettles /\ OneOutcomeEvent /\ TrailIsChain
  <2> SUFFICES ASSUME Inv PROVE QuorumSettles /\ OneOutcomeEvent /\ TrailIsChain
    OBVIOUS
  <2>0. w \in Workers
    BY DEF OneAtATime
  <2>1. \A p \in Plans : Orderly(p, states[p], decisions[p], trail[p], outbox[p],
                                 proposers[p], pc[w], job[w])
    BY DEF SerialInv
  <2>2. QuorumSettles
    BY <2>0, <2>1 DEF QuorumSettles, Quiescent, Orderly, Approvals, IndependentApprovals
  <2>3. OneOutcomeEvent
    BY <2>1 DEF OneOutcomeEvent, Orderly, AnnouncedOnce
  <2>4. TrailIsChain
    BY <2>0, <2>1 DEF TrailIsChain, Quiescent, Orderly, Chained, EndsIn
  <2> QED BY <2>2, <2>3, <2>4
<1>2. Inv /\ [Next]_vars =>
        [\A p \in Plans, i \in Ids :
           decisions[p][i] = None /\ decisions'[p][i] = "approved"
             => i \notin proposers[p]]_decisions
  <2> SUFFICES ASSUME Inv, [Next]_vars, NEW p \in Plans, NEW i \in Ids,
                      decisions[p][i] = None, decisions'[p][i] = "approved"
               PROVE  i \notin proposers[p]
    OBVIOUS
  <2>1. decisions' # decisions
    OBVIOUS
  <2>2. Next
    BY <2>1 DEF vars, planVars
  <2>3. RecordDecision(w)
    <3>1. NewRequest(w) \/ Continue(w)
      BY <2>2 DEF Next, OneAtATime
    <3>2. ~NewRequest(w)
      BY <2>1 DEF NewRequest, ProposePlan, SubmitDecision, CancelPlan, ExpirePlan,
                  CancelOrExpire, ExecutionCheck, planVars
    <3> QED
      BY <2>1, <3>1, <3>2 DEF Continue, PutPlan, PutFacts, GetState, GetFacts, Replay,
         GateCheck, AuditDeny, LoadAndDecide, SetState, Audit, Emit, GuardCheck,
         AnswerAllowed, planVars
  <2>4. p = job[w].plan /\ i = job[w].actor
    <3>1. decisions' = [decisions EXCEPT ![job[w].plan][job[w].actor] = job[w].decision]
      BY <2>1, <2>3 DEF RecordDecision
    <3> QED BY <3>1 DEF QuorumInv, TypeInv, TypeOK
  <2> QED BY <2>3, <2>4, RecordedByOthers
<1>3. Spec => []Inv
  BY SerialInvariant
<1> HIDE DEF Inv
<1> QED BY <1>1, <1>2, <1>3, PTL DEF Spec, OutcomeIsOrderly, NoProposerApproval
-----------------------------------------------------------------------------
(* The refinement: every step of the one worker is a step of the abstract  *)
(* life of its plan, or changes nothing that life speaks of.               *)

LifeVarsKept == UNCHANGED <<states, decisions, proposers>>

LEMMA KeptIsStutter == LifeVarsKept => UNCHANGED Life!lifeVars
BY DEF LifeVarsKept, Life!lifeVars, Author

LEMMA LifeInitial == Init => Life!LifeInit
BY DEF Init, Life!LifeInit, Author, AnyOf

(* The abstract module counts with the same operator.                      *)
LEMMA LifeCardinality == \A S : Life!Cardinality(S) = Cardinality(S)
BY DEF Life!Cardinality, Cardinality

(* The author of a plan is the one who proposed it.                        *)
LEMMA AuthorIsProposer ==
  ASSUME NEW p \in Plans, NEW q \in proposers[p], \A r \in proposers[p] : r = q
  PROVE  Author(p) = q
<1>1. proposers[p] # {} /\ (CHOOSE i \in proposers[p] : TRUE) \in proposers[p]
  OBVIOUS
<1> QED BY <1>1 DEF Author, AnyOf

LEMMA ProposeIsDraft ==
  ASSUME NEW w, OneAtATime(w), TypeInv, NEW p \in Plans, NEW a \in Actors, ProposePlan(w, p, a)
  PROVE  Life!LifeNext
<1> DEFINE q == CanonicalActorId[a]
<1>1. /\ proposers[p] = {} /\ proposers' = [proposers EXCEPT ![p] = {q}]
      /\ UNCHANGED <<states, decisions>> /\ q \in Ids
  BY PlanContractAssumption DEF ProposePlan, planVars, OneAtATime, TypeInv, TypeOK
<1>2. proposers'[p] = {q} /\ \A r \in Plans \ {p} : proposers'[r] = proposers[r]
  BY <1>1 DEF TypeInv, TypeOK
<1>3. Author(p) = None
  BY <1>1 DEF Author, AnyOf
<1> DEFINE new(r) == AnyOf(proposers'[r])
<1>4. new(p) = q
  <2>1. AnyOf({q}) = q
    BY DEF AnyOf
  <2> QED BY <1>2, <2>1
<1>5. [r \in Plans |-> new(r)] = [[r \in Plans |-> Author(r)] EXCEPT ![p] = q]
  <2>1. \A r \in Plans \ {p} : new(r) = Author(r)
    BY <1>2 DEF Author
  <2> HIDE DEF new
  <2> QED BY <1>4, <2>1
<1>6. Life!Draft(p, q)
  BY <1>1, <1>3, <1>5 DEF Life!Draft, Author
<1> QED BY <1>1, <1>6 DEF Life!LifeNext

LEMMA RecordIsVote ==
  ASSUME NEW w, OneAtATime(w), QuorumInv, RecordInv, SerialInv(w), RecordDecision(w)
  PROVE  Life!LifeNext \/ LifeVarsKept
<1> DEFINE p == job[w].plan
           i == job[w].actor
           d == job[w].decision
<1>1. /\ i \notin proposers[p] /\ states[p] = "waiting_approval"
      /\ p \in Plans /\ i \in Ids /\ d \in Decision
  BY RecordedByOthers
<1>2. states' = states /\ proposers' = proposers
  BY DEF RecordDecision, Respond, Goto
<1>3. CASE decisions' = decisions
  BY <1>2, <1>3 DEF LifeVarsKept
<1>4. CASE decisions' # decisions
  <2>1. /\ decisions[p][i] \in {None, d}
        /\ decisions' = [decisions EXCEPT ![p][i] = d]
    BY <1>4 DEF RecordDecision
  <2>2. decisions[p][i] = None
    <3>1. SUFFICES ASSUME decisions[p][i] = d PROVE FALSE
      BY <2>1
    <3>2. decisions[p] \in [Ids -> Decision \cup {None}] /\ decisions \in [Plans -> [Ids -> Decision \cup {None}]]
      BY <1>1 DEF QuorumInv, TypeInv, TypeOK
    <3>3. [decisions[p] EXCEPT ![i] = d] = decisions[p]
      BY <1>1, <3>1, <3>2
    <3>4. decisions' = decisions
      BY <1>1, <2>1, <3>2, <3>3
    <3> QED BY <1>4, <3>4
  <2>3. Author(p) # i
    <3>1. proposers[p] # {}
      BY <1>1 DEF SerialInv, Orderly
    <3>2. PICK q \in proposers[p] : \A r \in proposers[p] : r = q
      BY <1>1, <3>1 DEF SerialInv, Orderly
    <3>3. Author(p) = q
      BY <1>1, <3>2, AuthorIsProposer
    <3> QED BY <1>1, <3>3
  <2>4. UNCHANGED [r \in Plans |-> Author(r)]
    BY <1>2 DEF Author
  <2>5. Life!Vote(p, i, d)
    BY <1>1, <1>2, <2>1, <2>2, <2>3, <2>4 DEF Life!Vote
  <2> QED BY <1>1, <2>5 DEF Life!LifeNext, Decision
<1> QED BY <1>3, <1>4

LEMMA SetStateIsMove ==
  ASSUME NEW w, OneAtATime(w), QuorumInv, RecordInv, SerialInv(w), SetState(w)
  PROVE  Life!LifeNext \/ LifeVarsKept
<1> DEFINE j == job[w]
           p == j.plan
<1>1. /\ pc[w] = "set_state" /\ w \in Workers
      /\ states' = [states EXCEPT ![p] = j.outcome] /\ UNCHANGED <<decisions, proposers>>
  BY DEF SetState, Goto, OneAtATime
<1>2. /\ Lawful("set_state", j) /\ Backed("set_state", j, decisions, proposers)
      /\ Shape("set_state", j)
      /\ Fresh("set_state", j, states[p], decisions[p], trail[p])
  BY <1>1 DEF QuorumInv, TypeInv, JobsOK, JobsBacked, RecordInv, JobsLawful, SerialInv
<1>3. p \in Plans /\ j.cur \in PlanState /\ states \in [Plans -> PlanState \cup {None}]
  BY <1>2 DEF Shape, QuorumInv, TypeInv, TypeOK
<1>4. Orderly(p, states[p], decisions[p], trail[p], outbox[p], proposers[p], pc[w], j)
  BY <1>3 DEF SerialInv
<1>5. /\ j.op = "propose" => states[p] = None
      /\ j.op # "propose" => states[p] = j.cur /\ j.cur # "proposed" /\ j.cur # None
  BY <1>2, <1>3, <1>4 DEF Fresh, Orderly, PlanState
<1>6. UNCHANGED [r \in Plans |-> Author(r)]
  BY <1>1 DEF Author
<1>7. proposers[p] # {}
  <2>1. CASE j.op = "propose"
    BY <1>2, <2>1 DEF Backed
  <2>2. CASE j.op # "propose"
    BY <1>4, <1>5, <2>2 DEF Orderly
  <2> QED BY <2>1, <2>2
<1>8. PICK q \in proposers[p] : \A r \in proposers[p] : r = q
  BY <1>4, <1>7 DEF Orderly
<1>9. Author(p) = q /\ q # None
  <2>1. Author(p) = q
    BY <1>3, <1>8, AuthorIsProposer
  <2>2. q \in Ids
    BY <1>3 DEF QuorumInv, TypeInv, TypeOK
  <2> QED BY <2>1, <2>2, PlanContractAssumption
<1> HIDE DEF p
<1>10. CASE j.op = "propose"
  <2>1. j.outcome = "waiting_approval"
    BY <1>2, <1>10 DEF Lawful
  <2>2. Life!Submit(p)
    BY <1>1, <1>3, <1>5, <1>6, <1>9, <1>10, <2>1 DEF Life!Submit, Life!Move
  <2> QED BY <1>3, <2>2 DEF Life!LifeNext
<1>11. CASE j.op = "decide" /\ j.outcome = "waiting_approval"
  <2>1. states[p] = "waiting_approval"
    BY <1>2, <1>5, <1>11 DEF Lawful
  <2>2. states' = states
    BY <1>1, <1>3, <1>11, <2>1
  <2> QED BY <1>1, <2>2 DEF LifeVarsKept
<1>12. CASE j.op = "decide" /\ j.outcome = "approved"
  <2>1. states[p] = "waiting_approval" /\ QuorumIn(p, decisions, proposers)
    BY <1>2, <1>5, <1>12 DEF Lawful, Backed, p
  <2>2. Cardinality({i \in Ids \ {q} : decisions[p][i] = "approved"}) >= Needed(p)
    BY <1>8, <2>1 DEF QuorumIn
  <2>3. Life!Approvers(p) = {i \in Ids \ {q} : decisions[p][i] = "approved"}
    BY <1>3, <1>9 DEF Life!Approvers
  <2>4. Cardinality(Life!Approvers(p)) >= IF p \in HighRisk THEN 2 ELSE 1
    BY <2>2, <2>3 DEF Needed
  <2>5. Life!Move(p, "waiting_approval", "approved")
    BY <1>1, <1>3, <1>6, <1>12, <2>1 DEF Life!Move
  <2>6. Life!Approve(p)
    BY <2>4, <2>5, LifeCardinality DEF Life!Approve
  <2> QED BY <1>3, <2>6 DEF Life!LifeNext
<1>13. CASE j.op = "decide" /\ j.outcome = "rejected"
  <2>1. states[p] = "waiting_approval" /\ RejectionIn(p, decisions)
    BY <1>2, <1>5, <1>13 DEF Lawful, Backed, p
  <2>2. Life!Reject(p)
    BY <1>1, <1>3, <1>6, <1>13, <2>1 DEF Life!Reject, Life!Move, RejectionIn
  <2> QED BY <1>3, <2>2 DEF Life!LifeNext
<1>14. CASE j.op \in {"cancel", "expire"}
  <2>1. j.outcome \in {"cancelled", "expired"}
    BY <1>2, <1>14 DEF Lawful
  <2>2. states[p] = "waiting_approval"
    BY <1>2, <1>5, <1>14 DEF Fresh
  <2>3. Life!Close(p)
    BY <1>1, <1>3, <1>6, <2>1, <2>2 DEF Life!Close, Life!Move
  <2> QED BY <1>3, <2>3 DEF Life!LifeNext
<1> QED BY <1>2, <1>10, <1>11, <1>12, <1>13, <1>14 DEF Lawful, Decision

LEMMA LifeStep ==
  ASSUME NEW w, OneAtATime(w), QuorumInv, RecordInv, SerialInv(w), [Next]_vars
  PROVE  [Life!LifeNext]_(Life!lifeVars)
<1>1. CASE UNCHANGED vars
  BY <1>1, KeptIsStutter DEF vars, planVars, LifeVarsKept
<1>2. CASE NewRequest(w)
  <2>1. ASSUME NEW p \in Plans, NEW a \in Actors, ProposePlan(w, p, a) PROVE Life!LifeNext
    BY <2>1, ProposeIsDraft DEF QuorumInv
  <2>2. (\E p \in Plans, a \in Actors : ProposePlan(w, p, a)) \/ LifeVarsKept
    BY <1>2 DEF NewRequest, SubmitDecision, CancelPlan, ExpirePlan, CancelOrExpire,
                ExecutionCheck, planVars, LifeVarsKept
  <2> QED BY <2>1, <2>2, KeptIsStutter
<1>3. CASE Continue(w)
  <2>1. RecordDecision(w) \/ SetState(w) \/ LifeVarsKept
    BY <1>3 DEF Continue, PutPlan, PutFacts, GetState, GetFacts, Replay, GateCheck, AuditDeny,
       LoadAndDecide, Audit, Emit, GuardCheck, AnswerAllowed, Respond, Goto, planVars, LifeVarsKept
  <2> QED BY <2>1, RecordIsVote, SetStateIsMove, KeptIsStutter
<1> QED BY <1>1, <1>2, <1>3 DEF Next, OneAtATime

(* The handlers of app.py, run one at a time on plans that are sent once,  *)
(* implement the abstract life of a plan: one submission, one vote each    *)
(* of others than its author while it waits, one settlement, as approved   *)
(* only with the quorum its risk demands.                                  *)
THEOREM SerialFollowsLifecycle ==
  ASSUME NEW w, OneAtATime(w)
  PROVE  Spec => FollowsLifecycle
<1>1. Init => Life!LifeInit
  BY LifeInitial
<1>2. QuorumInv /\ RecordInv /\ SerialInv(w) /\ [Next]_vars => [Life!LifeNext]_(Life!lifeVars)
  BY LifeStep
<1> QED BY <1>1, <1>2, SerialInvariant, PTL DEF Spec, FollowsLifecycle, Life!LifeSpec
=============================================================================

---------------------------- MODULE PlanContract ----------------------------
(***************************************************************************)
(* The plan-contract service.  Its HTTP handlers are synchronous functions *)
(* that a thread pool runs concurrently.  The plan repository, the plan    *)
(* facts, the audit trail and the outbox each hold a lock for the length   *)
(* of one call, and no lock is held between two calls of a handler.  One   *)
(* action below is therefore one such call, and a worker keeps what the    *)
(* handler has read in job[w] until the handler returns.                   *)
(*                                                                         *)
(* One tenant is modelled: the tenant id is part of the hashed plan, so    *)
(* two tenants never share a contract hash.                                *)
(***************************************************************************)
EXTENDS PlanPolicy, Sequences

CONSTANTS
  Plans,            \* contract hashes
  Actors,           \* actor ids as clients spell them
  Ids,              \* canonical actor ids
  CanonicalActorId, \* Actors -> Ids: NFKC, strip and casefold
  HighRisk,         \* the plans with a high-risk hypothesis
  Workers,          \* threads of the pool
  AllowRepropose,   \* may a client send the same plan twice?
  MaxRequests       \* bound: requests accepted in one behaviour

ASSUME PlanContractAssumption ==
  /\ IsFiniteSet(Ids)
  /\ CanonicalActorId \in [Actors -> Ids]
  /\ HighRisk \subseteq Plans
  /\ AllowRepropose \in BOOLEAN
  /\ MaxRequests \in Nat
  /\ None \notin Ids \cup Plans

VARIABLES
  stored,     \* plans in PlanRepository
  states,     \* states[p]: the stored PlanState, None before the first set_state
  decisions,  \* decisions[p][i]: recorded decision of canonical actor i
  facts,      \* facts[p]: canonical proposer in _PlanFacts, None when absent
  trail,      \* trail[p]: audit trail records, oldest first
  outbox,     \* outbox[p]: events recorded for p, oldest first
  pc,         \* pc[w]: the next call of worker w
  job,        \* job[w]: what the handler run by w has read so far
  served,     \* number of requests accepted
  proposers   \* history: canonical ids that have sent p as a proposal

planVars == <<stored, states, decisions, facts, trail, outbox>>
vars == <<planVars, pc, job, served, proposers>>

Op == {"propose", "decide", "cancel", "expire", "check"}

Step == {"idle", "put_plan", "get_state", "get_facts", "replay", "gate", "deny",
         "load", "record", "set_state", "audit", "put_facts", "emit",
         "get_decisions", "execution_allowed"}

(* plan.contract.proposed.v1, and plan.contract.approved.v1 with the       *)
(* decision its payload carries.                                           *)
Event == {"proposed"} \cup Decision

AuditRecord == [from : PlanState, to : PlanState]

Job == [op : Op \cup {None}, plan : Plans \cup {None}, actor : Ids \cup {None},
        decision : Decision \cup {None}, cur : PlanState \cup {None},
        proposer : Ids \cup {None}, twoPerson : BOOLEAN,
        outcome : PlanState \cup {None}]

NoJob == [op |-> None, plan |-> None, actor |-> None, decision |-> None,
          cur |-> None, proposer |-> None, twoPerson |-> FALSE, outcome |-> None]

TypeOK ==
  /\ stored \subseteq Plans
  /\ states \in [Plans -> PlanState \cup {None}]
  /\ decisions \in [Plans -> [Ids -> Decision \cup {None}]]
  /\ facts \in [Plans -> Ids \cup {None}]
  /\ trail \in [Plans -> Seq(AuditRecord)]
  /\ outbox \in [Plans -> Seq(Event)]
  /\ pc \in [Workers -> Step]
  /\ job \in [Workers -> Job]
  /\ served \in Nat
  /\ proposers \in [Plans -> SUBSET Ids]

Init ==
  /\ stored = {}
  /\ states = [p \in Plans |-> None]
  /\ decisions = [p \in Plans |-> [i \in Ids |-> None]]
  /\ facts = [p \in Plans |-> None]
  /\ trail = [p \in Plans |-> <<>>]
  /\ outbox = [p \in Plans |-> <<>>]
  /\ pc = [w \in Workers |-> "idle"]
  /\ job = [w \in Workers |-> NoJob]
  /\ served = 0
  /\ proposers = [p \in Plans |-> {}]
-----------------------------------------------------------------------------
(* A worker takes a request, moves on to its next call, or answers.        *)

Accept(w, step, j) ==
  /\ pc[w] = "idle"
  /\ served < MaxRequests
  /\ served' = served + 1
  /\ pc' = [pc EXCEPT ![w] = step]
  /\ job' = [job EXCEPT ![w] = j]

Goto(w, step, j) ==
  /\ pc' = [pc EXCEPT ![w] = step]
  /\ job' = [job EXCEPT ![w] = j]
  /\ UNCHANGED <<served, proposers>>

Respond(w) == Goto(w, "idle", NoJob)
-----------------------------------------------------------------------------
(* POST /v1/plans.  The schema, H-3 and header checks precede every call;  *)
(* get_plan cannot find other content under the same hash.                 *)

ProposePlan(w, p, a) ==
  /\ AllowRepropose \/ proposers[p] = {}
  /\ Accept(w, "put_plan",
            [NoJob EXCEPT !.op = "propose", !.plan = p, !.actor = CanonicalActorId[a],
                          !.cur = "proposed", !.outcome = "waiting_approval"])
  /\ proposers' = [proposers EXCEPT ![p] = @ \cup {CanonicalActorId[a]}]
  /\ UNCHANGED planVars

PutPlan(w) ==
  /\ pc[w] = "put_plan"
  /\ stored' = stored \cup {job[w].plan}
  /\ Goto(w, "set_state", job[w])
  /\ UNCHANGED <<states, decisions, facts, trail, outbox>>

PutFacts(w) ==
  /\ pc[w] = "put_facts"
  /\ facts' = [facts EXCEPT ![job[w].plan] = job[w].actor]
  /\ Goto(w, "emit", job[w])
  /\ UNCHANGED <<stored, states, decisions, trail, outbox>>
-----------------------------------------------------------------------------
(* POST /v1/plans/{contract_hash}/decisions.  A refusal that touches no    *)
(* store before the first read is not a step.                              *)

SubmitDecision(w, p, a, d) ==
  /\ p \in stored
  /\ Accept(w, "get_state",
            [NoJob EXCEPT !.op = "decide", !.plan = p, !.actor = CanonicalActorId[a],
                          !.decision = d])
  /\ UNCHANGED <<planVars, proposers>>

GetState(w) ==
  LET s == states[job[w].plan] IN
  /\ pc[w] = "get_state"
  /\ \/ s = None /\ Respond(w)
     \/ s # None /\ Goto(w, "get_facts", [job[w] EXCEPT !.cur = s])
  /\ UNCHANGED planVars

GetFacts(w) ==
  LET f == facts[job[w].plan] IN
  /\ pc[w] = "get_facts"
  /\ \/ f = None /\ Respond(w)
     \/ /\ f # None
        /\ Goto(w, IF job[w].cur \in {"approved", "rejected"} THEN "replay" ELSE "gate",
                [job[w] EXCEPT !.proposer = f])
  /\ UNCHANGED planVars

(* The identical decision sent again after the plan settled is answered    *)
(* from the record; anything else goes on to the gate.                     *)
Replay(w) ==
  LET same == decisions[job[w].plan][job[w].actor] = job[w].decision IN
  /\ pc[w] = "replay"
  /\ \/ same /\ Respond(w)
     \/ ~same /\ Goto(w, "gate", job[w])
  /\ UNCHANGED planVars

(* The policy gate answers allow, allow with two persons, or deny; it may  *)
(* also be unreachable, which refuses the request.                         *)
GateCheck(w) ==
  /\ pc[w] = "gate"
  /\ \/ \E two \in BOOLEAN : Goto(w, "load", [job[w] EXCEPT !.twoPerson = two])
     \/ Goto(w, "deny", job[w])
     \/ Respond(w)
  /\ UNCHANGED planVars

AuditDeny(w) ==
  LET p == job[w].plan IN
  /\ pc[w] = "deny"
  /\ trail' = [trail EXCEPT ![p] = Append(@, [from |-> job[w].cur, to |-> job[w].cur])]
  /\ Respond(w)
  /\ UNCHANGED <<stored, states, decisions, facts, outbox>>

(* Load the decisions and evaluate transition() against the state this     *)
(* handler read earlier.                                                   *)
LoadAndDecide(w) ==
  LET j   == job[w]
      out == Transition(j.cur, j.proposer, decisions[j.plan], j.actor, j.decision,
                        j.plan \in HighRisk \/ j.twoPerson)
  IN
  /\ pc[w] = "load"
  /\ \/ out = Refused /\ Respond(w)
     \/ out # Refused /\ Goto(w, "record", [j EXCEPT !.outcome = out])
  /\ UNCHANGED planVars

(* Mutant: the insert overwrites, trusting the check made at load time.    *)
RecordDecisionBlind(w) ==
  /\ pc[w] = "record"
  /\ decisions' = [decisions EXCEPT ![job[w].plan][job[w].actor] = job[w].decision]
  /\ Goto(w, "set_state", job[w])
  /\ UNCHANGED <<stored, states, facts, trail, outbox>>

(* record_decision is one atomic check-and-insert: the first decision of   *)
(* an approver stays, an identical one is a no-op, another is a conflict.  *)
RecordDecision(w) ==
  LET j     == job[w]
      prior == decisions[j.plan][j.actor]
  IN
  /\ pc[w] = "record"
  /\ \/ /\ prior \in {None, j.decision}
        /\ decisions' = [decisions EXCEPT ![j.plan][j.actor] = j.decision]
        /\ Goto(w, "set_state", j)
     \/ /\ prior \notin {None, j.decision}
        /\ Respond(w)
        /\ UNCHANGED decisions
  /\ UNCHANGED <<stored, states, facts, trail, outbox>>
-----------------------------------------------------------------------------
(* The calls propose, decide, cancel and expire have in common.  set_state *)
(* overwrites: it does not compare with the state the handler read.        *)

SetState(w) ==
  /\ pc[w] = "set_state"
  /\ states' = [states EXCEPT ![job[w].plan] = job[w].outcome]
  /\ Goto(w, "audit", job[w])
  /\ UNCHANGED <<stored, decisions, facts, trail, outbox>>

(* Only a decision that settles the plan has an event to record.           *)
Settles(j) == j.op = "decide" /\ j.outcome # j.cur

(* Mutant: only proposals and settling decisions are audited.              *)
AuditSettling(w) ==
  LET j == job[w] IN
  /\ pc[w] = "audit"
  /\ \/ /\ j.op = "propose" \/ Settles(j)
        /\ trail' = [trail EXCEPT ![j.plan] = Append(@, [from |-> j.cur, to |-> j.outcome])]
        /\ Goto(w, IF j.op = "propose" THEN "put_facts" ELSE "emit", j)
     \/ /\ j.op # "propose" /\ ~Settles(j)
        /\ Respond(w)
        /\ UNCHANGED trail
  /\ UNCHANGED <<stored, states, decisions, facts, outbox>>

Audit(w) ==
  LET j == job[w] IN
  /\ pc[w] = "audit"
  /\ trail' = [trail EXCEPT ![j.plan] = Append(@, [from |-> j.cur, to |-> j.outcome])]
  /\ \/ j.op = "propose" /\ Goto(w, "put_facts", j)
     \/ Settles(j) /\ Goto(w, "emit", j)
     \/ j.op # "propose" /\ ~Settles(j) /\ Respond(w)
  /\ UNCHANGED <<stored, states, decisions, facts, outbox>>

EventOf(j) == IF j.op = "propose" THEN "proposed" ELSE j.outcome

Emit(w) ==
  /\ pc[w] = "emit"
  /\ outbox' = [outbox EXCEPT ![job[w].plan] = Append(@, EventOf(job[w]))]
  /\ Respond(w)
  /\ UNCHANGED <<stored, states, decisions, facts, trail>>
-----------------------------------------------------------------------------
(* POST .../cancel and .../expire read the state and check the edge first. *)

CancelOrExpire(w, p, op, to) ==
  /\ states[p] # None
  /\ MoveTo(states[p], to) # Refused
  /\ Accept(w, "set_state", [NoJob EXCEPT !.op = op, !.plan = p, !.cur = states[p],
                                          !.outcome = to])
  /\ UNCHANGED <<planVars, proposers>>

CancelPlan(w, p) == CancelOrExpire(w, p, "cancel", "cancelled")

ExpirePlan(w, p) == CancelOrExpire(w, p, "expire", "expired")

(* POST .../execution-check reads the state, then the decisions.           *)
ExecutionCheck(w, p) ==
  /\ states[p] # None
  /\ Accept(w, "get_decisions", [NoJob EXCEPT !.op = "check", !.plan = p,
                                              !.cur = states[p]])
  /\ UNCHANGED <<planVars, proposers>>

GuardCheck(w) ==
  LET allowed == GuardExecution(job[w].cur, decisions[job[w].plan]) IN
  /\ pc[w] = "get_decisions"
  /\ \/ allowed /\ Goto(w, "execution_allowed", job[w])
     \/ ~allowed /\ Respond(w)
  /\ UNCHANGED planVars

AnswerAllowed(w) ==
  /\ pc[w] = "execution_allowed"
  /\ Respond(w)
  /\ UNCHANGED planVars
-----------------------------------------------------------------------------
NewRequest(w) ==
  \E p \in Plans :
    \/ \E a \in Actors : ProposePlan(w, p, a)
    \/ \E a \in Actors, d \in Decision : SubmitDecision(w, p, a, d)
    \/ CancelPlan(w, p)
    \/ ExpirePlan(w, p)
    \/ ExecutionCheck(w, p)

Continue(w) ==
  \/ PutPlan(w) \/ PutFacts(w) \/ GetState(w) \/ GetFacts(w) \/ Replay(w)
  \/ GateCheck(w) \/ AuditDeny(w) \/ LoadAndDecide(w) \/ RecordDecision(w)
  \/ SetState(w) \/ Audit(w) \/ Emit(w) \/ GuardCheck(w) \/ AnswerAllowed(w)

Next == \E w \in Workers : NewRequest(w) \/ Continue(w)

Spec == Init /\ [][Next]_vars
-----------------------------------------------------------------------------
(* Properties.  The quorum is restated here, independently of PlanPolicy.  *)

IndependentApprovals(p, q) == {i \in Ids \ {q} : decisions[p][i] = "approved"}

QuorumRecorded(p) ==
  \E q \in proposers[p] :
    Cardinality(IndependentApprovals(p, q)) >= IF p \in HighRisk THEN 2 ELSE 1

(* Whatever the interleaving of handlers, a plan is APPROVED only while    *)
(* the decision store itself holds the H-7 quorum of approvers other than  *)
(* a proposer, and REJECTED only while it holds a rejection: submit_decision *)
(* writes a state computed from decisions it read earlier.                 *)
SettledIsBacked ==
  \A p \in Plans :
    /\ states[p] = "approved" => QuorumRecorded(p)
    /\ states[p] = "rejected" => \E i \in Ids : decisions[p][i] = "rejected"

(* execution_check never answers execution_allowed for a plan without a    *)
(* recorded quorum, although it reads state and decisions in two calls.    *)
ExecutionAllowedIsBacked ==
  \A w \in Workers : pc[w] = "execution_allowed" => QuorumRecorded(job[w].plan)

(* A decision of an approver is final: two concurrent submit_decision      *)
(* handlers can neither replace nor drop what record_decision stored.      *)
DecisionsStand ==
  [][\A p \in Plans, i \in Ids :
       decisions[p][i] # None => decisions'[p][i] = decisions[p][i]]_decisions

(* No handler leaves a plan in a settled state without having recorded the *)
(* plan.contract.approved event, or being about to.                        *)
SettledIsAnnounced ==
  \A p \in Plans : states[p] \in {"approved", "rejected"} =>
    \/ \E n \in DOMAIN outbox[p] : outbox[p][n] = states[p]
    \/ \E w \in Workers : /\ job[w].plan = p
                          /\ job[w].outcome = states[p]
                          /\ pc[w] \in {"audit", "emit"}

(* The state in force always has an audit record of the call that set it,  *)
(* written or about to be written by the handler that set it.              *)
StateIsAudited ==
  \A p \in Plans : states[p] # None =>
    \/ \E n \in DOMAIN trail[p] : trail[p][n].to = states[p] /\ trail[p][n].from # states[p]
    \/ \E w \in Workers : job[w].plan = p /\ job[w].outcome = states[p] /\ pc[w] = "audit"

Quiescent(p) == \A w \in Workers : job[w].plan # p

(* The recorded approvals satisfy even the two-person rule, no handler is  *)
(* at work on the plan, and yet it still waits: transition() says that a   *)
(* satisfied quorum approves.                                              *)
QuorumSettles ==
  \A p \in Plans :
    Quiescent(p) /\ states[p] = "waiting_approval" =>
      \A q \in proposers[p] : Cardinality(IndependentApprovals(p, q)) < 2

(* At most one approved and one rejected event per plan: state_changed in  *)
(* submit_decision is what prevents a duplicate.                           *)
OneOutcomeEvent ==
  \A p \in Plans : \A m, n \in DOMAIN outbox[p] :
    outbox[p][m] = outbox[p][n] /\ m # n => outbox[p][m] = "proposed"

(* The audit trail of a plan at rest is a chain from PROPOSED to the state *)
(* in force: each record starts where the one before it ended.             *)
TrailIsChain ==
  \A p \in Plans : Quiescent(p) /\ states[p] # None =>
    /\ trail[p][1].from = "proposed"
    /\ \A n \in 2..Len(trail[p]) : trail[p][n].from = trail[p][n - 1].to
    /\ trail[p][Len(trail[p])].to = states[p]

(* A terminal state has no way out: cancel, expire, decisions and          *)
(* proposals leave a settled plan alone.                                   *)
TerminalIsFinal ==
  [][\A p \in Plans : states[p] \in TERMINAL_STATES => states'[p] = states[p]]_states

(* Self-approval is forbidden for all plans: an approval is never recorded *)
(* from an actor who proposed the plan, under any spelling of the actor.   *)
NoProposerApproval ==
  [][\A p \in Plans, i \in Ids :
       decisions[p][i] = None /\ decisions'[p][i] = "approved"
         => i \notin proposers[p]]_decisions

(* A settled state that the repository holds was written by a handler that *)
(* audits and announces it, whatever other handlers did in between.        *)
SettledIsOnRecord ==
  /\ SettledIsAnnounced
  /\ StateIsAudited

(* Handlers that follow one another settle a plan as soon as the quorum is *)
(* there, announce it once, chain the audit trail and never count the      *)
(* proposer, under any spelling, as an approver.                           *)
OutcomeIsOrderly ==
  /\ [](QuorumSettles /\ OneOutcomeEvent /\ TrailIsChain)
  /\ NoProposerApproval
-----------------------------------------------------------------------------
(* The abstract life of a plan: its author is who sent it first.           *)
AnyOf(S) == IF S = {} THEN None ELSE CHOOSE x \in S : TRUE
Author(p) == AnyOf(proposers[p])

Life == INSTANCE PlanLifecycle WITH
  author <- [p \in Plans |-> Author(p)],
  phase <- states,
  votes <- decisions

(* Handled one request at a time and proposed once, a plan follows the     *)
(* abstract life: one submission, votes by others, one settlement.         *)
FollowsLifecycle == Life!LifeSpec
=============================================================================

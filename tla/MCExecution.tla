---------------------------- MODULE MCExecution ----------------------------
(***************************************************************************)
(* Instances of ExecutionWorkflow and AgentRunner for TLC.  The two parts  *)
(* share no state, so a behaviour exercises one of them.                   *)
(***************************************************************************)
EXTENDS ExecutionWorkflow, AgentRunner, TLC

VARIABLE part

(* Approvals of a high-risk plan proposed by p: by a alone, by a and b, a  *)
(* rejection, one by the proposer, and two that are not in order.          *)
MCActors == {"p", "a", "b"}
Sig(who, decision, approvers) ==
  [approver |-> who, decision |-> decision, proposer |-> "p",
   approvals |-> [x \in MCActors |-> IF x \in approvers THEN "approved" ELSE None],
   highRisk |-> TRUE, same |-> TRUE, intact |-> TRUE]
MCSignal ==
  [a_alone |-> Sig("a", "approved", {"a"}),
   a_and_b |-> Sig("b", "approved", {"a", "b"}),
   a_rejects |-> Sig("a", "rejected", {"b"}),
   own |-> Sig("p", "approved", {"p", "a"}),
   padded |-> Sig("b", "approved", {"b", "p"}),
   forged |-> [Sig("a", "rejected", {}) EXCEPT !.intact = FALSE],
   other |-> [Sig("b", "approved", {"a", "b"}) EXCEPT !.same = FALSE]]

(* Paths: two ordinary ones, a long one, one that is protected although it *)
(* is listed, one outside of the scope, and one behind a link.             *)
P(in, prot, link, n) == [well_formed |-> TRUE, protected |-> prot, in_scope |-> in,
                         inside |-> ~link, lines |-> n]
MCPath == [x |-> P(TRUE, FALSE, FALSE, 1), y |-> P(TRUE, FALSE, FALSE, 1),
           long |-> P(TRUE, FALSE, FALSE, 3), rules |-> P(TRUE, TRUE, FALSE, 1),
           outer |-> P(FALSE, FALSE, FALSE, 1), link |-> P(TRUE, FALSE, TRUE, 1),
           dots |-> [P(TRUE, FALSE, FALSE, 1) EXCEPT !.well_formed = FALSE]]
MCCommand == [build |-> [forbidden |-> FALSE, changes |-> {"y"}],
              push |-> [forbidden |-> TRUE, changes |-> {}],
              test |-> [forbidden |-> FALSE, changes |-> {}]]
MCUnit == [u |-> [files |-> {"x", "y", "long", "rules", "outer", "link", "dots"},
                  allowed |-> {"build", "push"}],
           v |-> [files |-> {"x"}, allowed |-> {"test"}]]

Req(unit, writes, commands) ==
  [unit |-> unit, writes |-> writes, commands |-> commands, worktree |-> "right"]
Fine == [approval |-> [same_contract |-> TRUE, same_run |-> TRUE, approved |-> TRUE,
                       units |-> {"u", "v"}],
         bundle |-> [pin |-> "good", source |-> TRUE, content |-> "pinned"],
         requests |-> <<Req("u", <<"x", "y">>, <<"build">>), Req("v", <<"x">>, <<"test">>)>>]
With(requests) == [Fine EXCEPT !.requests = requests]
MCJob ==
  [fine |-> Fine,
   nothing |-> With(<<>>),
   other_contract |-> [Fine EXCEPT !.approval.same_contract = FALSE],
   other_run |-> [Fine EXCEPT !.approval.same_run = FALSE],
   not_approved |-> [Fine EXCEPT !.approval.approved = FALSE],
   no_pin |-> [Fine EXCEPT !.bundle.pin = "none"],
   no_source |-> [Fine EXCEPT !.bundle.source = FALSE],
   swapped |-> [Fine EXCEPT !.bundle.content = "other"],
   unlisted |-> [With(<<Req("w", <<"x">>, <<>>)>>) EXCEPT !.approval.units = {"w"}],
   half |-> [Fine EXCEPT !.approval.units = {"u"}],
   too_long |-> With(<<Req("u", <<"x", "long">>, <<>>), Req("v", <<>>, <<>>)>>),
   protected |-> With(<<Req("u", <<"x", "rules">>, <<>>)>>),
   outside |-> With(<<Req("u", <<"x", "outer">>, <<>>), Req("u", <<"link">>, <<>>)>>),
   listed |-> With(<<Req("v", <<"x", "y">>, <<>>), Req("u", <<"dots">>, <<>>)>>),
   commands |-> With(<<Req("u", <<"x">>, <<"build", "push">>), Req("v", <<>>, <<"build">>)>>),
   misplaced |-> With(<<[Req("u", <<"x">>, <<>>) EXCEPT !.worktree = "other_tenant"],
                        [Req("u", <<"x">>, <<>>) EXCEPT !.worktree = "other_base"]>>)]

mcVars == <<part, executionVars, runnerVars>>
MCInit == part \in {"workflow", "runner"} /\ ExecutionInit /\ RunnerInit
MCNext ==
  \/ part = "workflow" /\ ExecutionNext /\ UNCHANGED <<part, runnerVars>>
  \/ part = "runner" /\ RunnerNext /\ UNCHANGED <<part, executionVars>>
MCSpec ==
  /\ MCInit /\ [][MCNext]_mcVars
  /\ part = "workflow" => ExecutionFairness
  /\ part = "runner" => WF_runnerVars(RunnerStep)

(* An accepted approval is executed, and a job that began ends.            *)
WorkIsFinished ==
  /\ AcceptedIsExecuted
  /\ JobEnds
=============================================================================

------------------------ MODULE MeasurementPipeline ------------------------
(***************************************************************************)
(* run_measurement: one call takes the inputs of one measurement run       *)
(* through eligibility, binding, confirmation, difference in differences   *)
(* and the gate, seals an evidence bundle and records the outcome in four  *)
(* stores.  Calls run concurrently (the activity that makes them is        *)
(* retried, and several workers run it), and a call may die between any    *)
(* two store calls.  Each store call is one step; the computation between  *)
(* them is local to the call.                                              *)
(*                                                                         *)
(* A manifest hash is modelled by what it commits to, the set of entries   *)
(* of the bundle (the pipeline adds them in a fixed order).                *)
(***************************************************************************)
EXTENDS Confirmation, BGate

CONSTANTS
  Callers,         \* the calls of run_measurement that may be under way
  Runs,            \* run_id
  Inputs,          \* names of the inputs a call may be given
  Input,           \* MeasurementInputs and the policy bundle of each
  MaxCalls         \* bound: calls started in a behaviour

Thresholds == {"min_grs", "min_independent_layers", "max_open_incidents"}

EvidenceGroups == {"baseline_observation", "treatment_observation", "control_observation"}

Repeats == [id : Nat, at : Nat, value : Int, finite : BOOLEAN]

ASSUME PipelineAssumption ==
  /\ MaxCalls \in Nat
  /\ None \notin Inputs
  /\ \A i \in Inputs :
       /\ Input[i].tenant \in Tenants /\ Input[i].experiment \in Experiments
       /\ Input[i].run \in Runs
       /\ Input[i].confirmation \in Confirmations
       /\ Input[i].prior \in Confirmations \cup {None}
       /\ {Input[i].received, Input[i].prior_received, Input[i].at} \subseteq Nat
       /\ Input[i].submission \in [found : BOOLEAN, content : BOOLEAN, intact : BOOLEAN,
                                   metrics : BOOLEAN, cells : BOOLEAN,
                                   observations : {"clean", "contaminated", "other_asset"}]
       /\ Input[i].grs.bundle \in BOOLEAN
       /\ \A t \in Thresholds :
            {Input[i].grs.threshold[t], Input[i].grs.observed[t]} \subseteq Int
       /\ Input[i].evidence \in [EvidenceGroups -> SUBSET Bases]
       /\ \A n \in DOMAIN Input[i].signals :
            LET s == Input[i].signals[n] IN
            /\ s.layer \in OutcomeLayer \cup {0} /\ s.basis \in Bases
            /\ \A name \in CellNames : s.cells[name] \in Seq(Repeats)

VARIABLES
  confirmations,   \* ConfirmationStore, by tenant and idempotency key
  windows,         \* MeasurementWindowStore, by tenant and experiment: the anchor day
  bundles,         \* EvidenceBundleStore, by tenant and manifest hash
  decisions,       \* OutcomeDecisionStore, by tenant, experiment and run
  call,            \* where each call is, and its local state
  started          \* how many calls were started

stores == <<confirmations, windows, bundles, decisions>>
vars == <<confirmations, windows, bundles, decisions, call, started>>

-----------------------------------------------------------------------------
(* The steps of a run, as functions of its inputs.                         *)

(* -1 stands for a threshold or an input that is absent.                   *)
Eligible(grs) ==
  /\ grs.bundle
  /\ \A t \in Thresholds :
       /\ grs.threshold[t] # -1 /\ grs.observed[t] # -1
       /\ IF t = "max_open_incidents" THEN grs.observed[t] <= grs.threshold[t]
                                      ELSE grs.observed[t] >= grs.threshold[t]

(* bind_experiment, as the reason codes _run_binding makes of it.          *)
BindingCodes(s) ==
  IF ~s.found THEN {"identity_mismatch"}
  ELSE IF ~s.content \/ ~s.intact \/ ~s.metrics THEN {"post_registration_metric_mutation"}
  ELSE IF ~s.cells THEN {"cell_mismatch"}
  ELSE IF s.observations = "contaminated" THEN {"treatment_control_contamination"}
  ELSE IF s.observations = "other_asset" THEN {"asset_hash_conflict"}
  ELSE {}

(* _run_window: the confirmation's verdict, the anchor (that of the        *)
(* confirmation accepted before, for a duplicate) and the reason codes.    *)
VerdictOf(i) == Verdict(Input[i].confirmation, Input[i].experiment,
                        Input[i].received, Input[i].prior)
Anchor(i) == IF VerdictOf(i) = "duplicate" THEN Input[i].prior_received ELSE Input[i].received
Confirmed(i) == VerdictOf(i) \in {"accepted", "duplicate"}
HasWindow(i) == Confirmed(i) /\ ~DeploymentLate(Input[i].experiment, Anchor(i))

WindowCodes(i) ==
  IF ~Confirmed(i)
  THEN CASE VerdictOf(i) \in {"cross_tenant_replay", "identity_mismatch"} -> {"identity_mismatch"}
         [] VerdictOf(i) = "conflicting_replay" -> {"conflicting_confirmation"}
         [] OTHER -> {"deployment_unconfirmed"}
  ELSE IF ~HasWindow(i) THEN {"deployment_late"}
  ELSE IF Input[i].at < WindowEnd(Anchor(i)) THEN {"window_incomplete"}
  ELSE {}

Upstream(i) ==
  (IF Eligible(Input[i].grs) THEN {} ELSE {"grs_policy_missing"})
    \cup BindingCodes(Input[i].submission) \cup WindowCodes(i)

(* _run_did; without a window no repeat is late.                           *)
Forever(i) == Max({0} \cup UNION {{Input[i].signals[n].cells[name][m].at :
                     m \in DOMAIN Input[i].signals[n].cells[name]} :
                     n \in DOMAIN Input[i].signals, name \in CellNames})
Did(i) == ComputeDid(Input[i].signals,
                     IF HasWindow(i) THEN WindowEnd(Anchor(i)) ELSE Forever(i))

GroupOf(name) == CASE name = "post_treatment" -> "treatment_observation"
                   [] name = "post_control" -> "control_observation"
                   [] OTHER -> "baseline_observation"

(* One entry per observed cell whose basis has provenance in its group.    *)
Observations(i) ==
  {<<GroupOf(o[2]), Input[i].signals[o[1]].basis, o[2]>> :
     o \in {p \in (DOMAIN Input[i].signals) \X CellNames :
              /\ Input[i].signals[p[1]].cells[p[2]] # Missing
              /\ Input[i].signals[p[1]].basis \in Input[i].evidence[GroupOf(p[2])]}}

Gate(i, did) == DecideBVerdict(did, Observations(i) # {}, Upstream(i))

-----------------------------------------------------------------------------
(* The sealed bundle and the outcome.                                      *)

RequiredKinds ==
  EvidenceGroups \cup {"registration", "deployment_confirmation", "raw_observation_ref",
                       "did_inputs", "did_outputs", "b_gate_decision", "grs_policy"}

(* The entries of a run with its numbers and its verdict: a conflicting    *)
(* confirmation leaves only a record of the conflict, which names the run. *)
Entries(i, conflicted, did, gate) ==
  LET in == Input[i]
      signals == [n \in DOMAIN in.signals |-> <<in.signals[n].layer, in.signals[n].basis>>]
  IN IF conflicted
     THEN {<<"deployment_confirmation", "conflict", in.experiment, in.run, in.confirmation>>}
     ELSE {<<"grs_policy", in.grs>>, <<"did_inputs", signals>>, <<"did_outputs", did>>,
           <<"b_gate_decision", gate>>}
          \cup Observations(i)
          \cup (IF BindingCodes(in.submission) = {}
                THEN {<<"registration", in.experiment>>} ELSE {})
          \cup (IF Confirmed(i)
                THEN {<<"deployment_confirmation", IF HasWindow(i) THEN "anchored" ELSE "late",
                        Claim[in.confirmation].key, IF HasWindow(i) THEN Anchor(i) ELSE 0>>}
                ELSE {})
          \cup (IF Observations(i) # {}
                THEN {<<"raw_observation_ref", {s[2] : s \in Range(signals)}>>} ELSE {})

MissingKinds(entries) == RequiredKinds \ {e[1] : e \in entries}
Complete(entries) == MissingKinds(entries) = {}

(* _seal_bundle: the manifest hash covers the entries and nothing else.    *)
ManifestHash(entries) ==
  entries \cup (IF Complete(entries) THEN {}
                ELSE {<<"missingness_report", MissingKinds(entries)>>})

(* _final_status: only a pass is held back.                                *)
FinalStatus(i, conflicted, verdict) ==
  IF conflicted THEN "undetermined"
  ELSE IF /\ verdict = "pass"
          /\ \/ ~Eligible(Input[i].grs)
             \/ BindingCodes(Input[i].submission) # {}
             \/ WindowCodes(i) # {}
       THEN "undetermined"
  ELSE verdict

Outcome(i, conflicted, gate, entries) ==
  [status |-> FinalStatus(i, conflicted, gate.verdict),
   codes |-> IF conflicted THEN {"conflicting_confirmation"}
             ELSE Upstream(i) \cup gate.codes,
   layers |-> IF conflicted THEN {} ELSE gate.layers,
   complete |-> Complete(entries),
   ref |-> ManifestHash(entries),
   computed_at |-> Input[i].at]

(* What a run makes of its numbers, and of its inputs.                     *)
Conclude(i, conflicted, did, gate) ==
  Outcome(i, conflicted, gate, Entries(i, conflicted, did, gate))
Judge(i, conflicted, did) == Conclude(i, conflicted, did, Gate(i, did))
OutcomeOf == [i \in Inputs |-> [conflicted \in BOOLEAN |-> Judge(i, conflicted, Did(i))]]

-----------------------------------------------------------------------------
(* The stores: the first content under a key stays.                        *)

PutOutcome(store, key, content) ==
  IF key \notin DOMAIN store THEN "stored"
  ELSE IF store[key] = content THEN "duplicate" ELSE "conflict"

(* Mutant: the last content wins.                                          *)
PutOverwrites(store, key, content) ==
  [k \in DOMAIN store \cup {key} |-> IF k = key THEN content ELSE store[k]]

Put(store, key, content) ==
  IF key \in DOMAIN store THEN store
  ELSE [k \in DOMAIN store \cup {key} |-> IF k = key THEN content ELSE store[k]]

ConfirmationKey(i) == <<Input[i].tenant, Claim[Input[i].confirmation].key>>
WindowKey(i) == <<Input[i].tenant, Input[i].experiment>>
BundleKey(i, outcome) == <<Input[i].tenant, outcome.ref>>
DecisionKey(i) == <<Input[i].tenant, Input[i].experiment, Input[i].run>>

(* A bundle's manifest names its experiment and run besides its entries.   *)
Manifest(i) == <<Input[i].experiment, Input[i].run>>

(* A call: its next step, its inputs, whether its confirmation was refused *)
(* and, once computed, its outcome.                                        *)
At(pc, i, conflicted, outcome) ==
  [pc |-> pc, input |-> i, conflicted |-> conflicted, outcome |-> outcome]
NoOutcome == <<>>
Idle == At("idle", None, FALSE, NoOutcome)

Init ==
  /\ confirmations = <<>>
  /\ windows = <<>>
  /\ bundles = <<>>
  /\ decisions = <<>>
  /\ call = [p \in Callers |-> Idle]
  /\ started = 0

Goto(p, pc) == call' = [call EXCEPT ![p] = At(pc, call[p].input, call[p].conflicted,
                                                      call[p].outcome)]

(* A worker calls run_measurement, anew or to retry.                       *)
Start(p) ==
  /\ call[p].pc = "idle" /\ started < MaxCalls
  /\ started' = started + 1
  /\ \E i \in Inputs : call' = [call EXCEPT ![p] = At("confirm", i, FALSE, NoOutcome)]
  /\ UNCHANGED stores

(* put_confirmation comes before any validation; a conflict skips every    *)
(* measurement step.  The outcome depends on nothing a later step reads.   *)
PutConfirmation(p) ==
  LET i == call[p].input
      key == ConfirmationKey(i)
      conflicted == PutOutcome(confirmations, key, Input[i].confirmation) = "conflict"
  IN /\ call[p].pc = "confirm"
     /\ confirmations' = Put(confirmations, key, Input[i].confirmation)
     /\ call' = [call EXCEPT ![p] =
                   At(IF ~conflicted /\ HasWindow(i) THEN "window" ELSE "evidence",
                      i, conflicted, OutcomeOf[i][conflicted])]
     /\ UNCHANGED <<windows, bundles, decisions, started>>

(* Mutant: a window with other parameters counts as opened.                *)
OpenWindowAnyway(p) ==
  /\ call[p].pc = "window"
  /\ windows' = Put(windows, WindowKey(call[p].input), Anchor(call[p].input))
  /\ Goto(p, "evidence")
  /\ UNCHANGED <<confirmations, bundles, decisions, started>>

(* open_window; nothing catches its IdempotencyConflictError.              *)
OpenWindow(p) ==
  LET i == call[p].input
      key == WindowKey(i)
  IN /\ call[p].pc = "window"
     /\ windows' = Put(windows, key, Anchor(i))
     /\ Goto(p, IF PutOutcome(windows, key, Anchor(i)) = "conflict"
                THEN "raised" ELSE "evidence")
     /\ UNCHANGED <<confirmations, bundles, decisions, started>>

(* Mutant: a hash that is taken counts as stored.                          *)
PutEvidenceAnyway(p) ==
  /\ call[p].pc = "evidence"
  /\ bundles' = Put(bundles, BundleKey(call[p].input, call[p].outcome),
                    Manifest(call[p].input))
  /\ Goto(p, "decide")
  /\ UNCHANGED <<confirmations, windows, decisions, started>>

(* evidence_store.put; nothing catches its EvidenceHashMismatchError.      *)
PutEvidence(p) ==
  LET i == call[p].input
      key == BundleKey(i, call[p].outcome)
  IN /\ call[p].pc = "evidence"
     /\ bundles' = Put(bundles, key, Manifest(i))
     /\ Goto(p, IF PutOutcome(bundles, key, Manifest(i)) = "conflict"
                THEN "raised" ELSE "decide")
     /\ UNCHANGED <<confirmations, windows, decisions, started>>

(* Mutant: a decision that is recorded already is not compared.            *)
AppendDecisionAnyway(p) ==
  LET i == call[p].input IN
  /\ call[p].pc = "decide"
  /\ decisions' = Put(decisions, DecisionKey(i), call[p].outcome)
  /\ Goto(p, "returned")
  /\ UNCHANGED <<confirmations, windows, bundles, started>>

(* append_decision; nothing catches its AppendOnlyViolationError.          *)
AppendDecision(p) ==
  LET i == call[p].input
      outcome == call[p].outcome
  IN /\ call[p].pc = "decide"
     /\ decisions' = Put(decisions, DecisionKey(i), outcome)
     /\ Goto(p, IF PutOutcome(decisions, DecisionKey(i), outcome) = "conflict"
                THEN "raised" ELSE "returned")
     /\ UNCHANGED <<confirmations, windows, bundles, started>>

(* The call ends, or its worker dies wherever it is.                       *)
Leave(p) ==
  /\ call[p].pc # "idle"
  /\ call' = [call EXCEPT ![p] = Idle]
  /\ UNCHANGED <<stores, started>>

Next ==
  \E p \in Callers :
    \/ Start(p) \/ PutConfirmation(p) \/ OpenWindow(p)
    \/ PutEvidence(p) \/ AppendDecision(p) \/ Leave(p)

Spec == Init /\ [][Next]_vars

-----------------------------------------------------------------------------
PCs == {"idle", "confirm", "window", "evidence", "decide", "returned", "raised"}

(* Every store holds well-formed content, and every call under way has its *)
(* inputs.                                                                 *)
TypeOK ==
  /\ DOMAIN confirmations \subseteq StoreKeys
  /\ \A k \in DOMAIN confirmations : confirmations[k] \in Confirmations
  /\ DOMAIN windows \subseteq Tenants \X Experiments
  /\ \A k \in DOMAIN windows : windows[k] \in Nat
  /\ \A k \in DOMAIN bundles : bundles[k] \in Experiments \X Runs
  /\ DOMAIN decisions \subseteq Tenants \X Experiments \X Runs
  /\ started \in 0..MaxCalls
  /\ DOMAIN call = Callers
  /\ \A p \in Callers :
       /\ call[p].pc \in PCs /\ call[p].conflicted \in BOOLEAN
       /\ IF call[p].pc = "idle" THEN call[p].input = None ELSE call[p].input \in Inputs

(* Whatever crashes, a recorded decision refers to a bundle that is stored *)
(* and that was sealed for the decision's own experiment and run           *)
(* (evidence_store.put comes before append_decision and refuses to share   *)
(* a hash between runs).                                                   *)
DecisionIsBacked ==
  \A k \in DOMAIN decisions :
    /\ <<k[1], decisions[k].ref>> \in DOMAIN bundles
    /\ bundles[<<k[1], decisions[k].ref>>] = <<k[2], k[3]>>

(* A call that returns an outcome returns the recorded one, also when      *)
(* another call recorded it or when it is a retry.                         *)
ReturnedIsRecorded ==
  \A p \in Callers :
    call[p].pc = "returned" =>
      LET i == call[p].input IN
      /\ DecisionKey(i) \in DOMAIN decisions
      /\ decisions[DecisionKey(i)] = call[p].outcome

(* The decision of a call that opened a window was taken over the window   *)
(* stored for its experiment: two runs of an experiment never judge two    *)
(* different windows.                                                      *)
OneWindow ==
  \A p \in Callers :
    LET i == call[p].input IN
    call[p].pc = "returned" /\ ~call[p].conflicted /\ HasWindow(i) =>
      WindowKey(i) \in DOMAIN windows /\ windows[WindowKey(i)] = Anchor(i)

(* What a pass claims of its paperwork: the policy bundle grants it, the   *)
(* submission is the registered one, a genuine confirmation came in time   *)
(* and its window is over.                                                 *)
Entitled(i) ==
  LET in == Input[i]
      grs == in.grs
  IN /\ grs.bundle
     /\ grs.observed["min_grs"] >= grs.threshold["min_grs"]
     /\ grs.observed["max_open_incidents"] <= grs.threshold["max_open_incidents"]
     /\ in.submission = [found |-> TRUE, content |-> TRUE, intact |-> TRUE,
                         metrics |-> TRUE, cells |-> TRUE, observations |-> "clean"]
     /\ in.prior = in.confirmation \/ Genuine(in.confirmation, in.experiment, in.received)
     /\ Anchor(i) <= Registration[in.experiment].approved + MaxDeployDelay
     /\ Anchor(i) + WindowDays <= in.at

(* What it claims of its numbers: two signals of different layers and      *)
(* bases improved against their control on enough repeats in the window.   *)
Improved(i) ==
  LET in == Input[i]
      Enough(n) == \A name \in CellNames :
        Cardinality({r \in Range(in.signals[n].cells[name]) :
                       r.finite /\ r.at <= Anchor(i) + WindowDays}) >= MinRepeats
  IN \E m, n \in DOMAIN in.signals :
       /\ Enough(m) /\ Did(i)[m].net > 0 /\ in.signals[m].layer \in OutcomeLayer
       /\ Enough(n) /\ Did(i)[n].net > 0 /\ in.signals[n].layer \in OutcomeLayer
       /\ in.signals[m].layer # in.signals[n].layer
       /\ in.signals[m].basis # in.signals[n].basis

Deserved(i) == Entitled(i) /\ Improved(i)

Deserving == {i \in Inputs : Deserved(i)}

(* An experiment is recorded as passed only when its inputs deserve it.    *)
PassIsDeserved ==
  \A p \in Callers :
    LET i == call[p].input IN
    call[p].pc = "returned" /\ decisions[DecisionKey(i)].status = "pass" =>
      ~call[p].conflicted /\ i \in Deserving

(* The largest number of edges with no layer and no basis in common.       *)
MatchingNumber(edges) ==
  Max({Cardinality(m) : m \in {m \in SUBSET edges :
         \A e, f \in m : e # f => e[1] # f[1] /\ e[2] # f[2]}})

(* The number of independent layers that qualified, for each input.        *)
Independent ==
  [i \in Inputs |->
     MatchingNumber({<<s.layer, s.basis>> :
       s \in {t \in Range(Did(i)) : t.layer \in OutcomeLayer /\ Qualifies(t)}})]

(* The layers a decision counts as independent are as many as can be, so a *)
(* pass never depends on the order of the signals (the matching of         *)
(* _max_independent_layers is maximum).                                    *)
IndependenceIsMaximal ==
  \A p \in Callers :
    LET i == call[p].input IN
    call[p].pc = "returned" /\ ~call[p].conflicted =>
      Cardinality(decisions[DecisionKey(i)].layers) = Independent[i]

(* Nothing that is stored is ever changed or dropped.                      *)
Keeps(old, new) == \A k \in DOMAIN old : k \in DOMAIN new /\ new[k] = old[k]
AppendOnly ==
  [][/\ Keeps(confirmations, confirmations') /\ Keeps(windows, windows')
     /\ Keeps(bundles, bundles') /\ Keeps(decisions, decisions')]_vars

(* Not so in the code: every call ends with an outcome. A second run over  *)
(* the same observations seals a hash that is taken; PipelineSafety.cfg    *)
(* with this property finds it.                                            *)
AlwaysReturns == \A p \in Callers : call[p].pc # "raised"

(* Not so in the code: a pass comes with a complete evidence bundle.       *)
(* Sparse provenance passes; PipelineSafety.cfg with this property finds   *)
(* it.                                                                     *)
PassIsComplete ==
  \A k \in DOMAIN decisions : decisions[k].status = "pass" => decisions[k].complete

(* A pass is deserved, and the layers it counts as independent are as many *)
(* as any assignment of evidence bases would give.                         *)
VerdictIsRight ==
  /\ PassIsDeserved
  /\ IndependenceIsMaximal
=============================================================================

------------------------------- MODULE BGate -------------------------------
(***************************************************************************)
(* The numbers behind a measurement outcome: the difference in differences *)
(* of each signal, and the gate that calls the experiment a success when   *)
(* at least two independent outcome layers improved against the control.   *)
(*                                                                         *)
(* A signal series has four cells (before and after, treatment and         *)
(* control); a cell is the nonempty sequence of its repeats, or Missing.    *)
(* A repeat has an observation id, a day and a value; it is finite when    *)
(* the value is a number of representable size.  Means are kept as a sum   *)
(* and a count, so all arithmetic is exact, as in the code before its last *)
(* rounding.                                                               *)
(***************************************************************************)
EXTENDS Integers, Sequences, FiniteSets, FiniteSetsExt, SequencesExt

CONSTANTS
  Bases,           \* evidence_basis_id: naturals, in their sort order
  MinRepeats       \* DiDPolicy.min_repeats

ASSUME BGateAssumption == Bases \subseteq Nat /\ IsFiniteSet(Bases) /\ MinRepeats \in Nat \ {0}

Missing == <<>>    \* a cell that was never observed

(* OutcomeLayer, numbered in the order of their values: absorption,        *)
(* citation, discovery, prominence, referral.  0 is any other layer name.  *)
OutcomeLayer == 1..5

CellNames == {"baseline_treatment", "post_treatment", "baseline_control", "post_control"}

-----------------------------------------------------------------------------
(* Difference in differences of one signal.                                *)

(* _dedupe_repeats: the first repeat under each observation id counts.     *)
FirstSeen(cell) == {n \in DOMAIN cell : \A m \in 1..(n - 1) : cell[m].id # cell[n].id}

DuplicateConflict(cell) ==
  \E m, n \in DOMAIN cell : cell[m].id = cell[n].id /\ cell[m] # cell[n]

(* _partition_in_window: finite repeats up to the end of the window.       *)
InWindow(cell, end) == {n \in FirstSeen(cell) : cell[n].finite /\ cell[n].at <= end}

Late(cell, end) == {n \in FirstSeen(cell) : cell[n].finite /\ cell[n].at > end}

LateRepeats(cells, end) == MapThenSumSet(LAMBDA name : Cardinality(Late(cells[name], end)), CellNames)

Total(cell, end) == MapThenSumSet(LAMBDA n : cell[n].value, InWindow(cell, end))

(* The reason codes of a signal, and whether each holds.                   *)
Reasons(cell, count) ==
  LET Absent(name) == cell[name] = Missing IN
  [insufficient_repeats |-> \E name \in CellNames : ~Absent(name) /\ count[name] < MinRepeats,
   missing_baseline |-> Absent("baseline_treatment"),
   missing_control |-> Absent("baseline_control") \/ Absent("post_control"),
   missing_post |-> Absent("post_treatment") \/ Absent("post_control"),
   unusable_value |->
     \E name \in CellNames : \E n \in FirstSeen(cell[name]) : ~cell[name][n].finite,
   duplicate_observation_conflict |->
     \E name \in CellNames : DuplicateConflict(cell[name])]

(* _compute_signal, with the deltas of the two arms as fractions.          *)
ComputeSignal(series, end) ==
  LET cell == series.cells
      count == [name \in CellNames |-> Cardinality(InWindow(cell[name], end))]
      sum == [name \in CellNames |-> Total(cell[name], end)]
      Delta(post, base) == sum[post] * count[base] - sum[base] * count[post]
      treatment == Delta("post_treatment", "baseline_treatment")
      control == Delta("post_control", "baseline_control")
      holds == Reasons(cell, count)
  IN [layer |-> series.layer, basis |-> series.basis, count |-> count,
      treatment |-> treatment, control |-> control,
      late |-> LateRepeats(cell, end),
      has_lift |-> \A name \in CellNames : count[name] > 0,
      net |-> treatment * count["post_control"] * count["baseline_control"]
              - control * count["post_treatment"] * count["baseline_treatment"],
      codes |-> {c \in DOMAIN holds : holds[c]}]

(* compute_did over all signals of a run.                                  *)
ComputeDid(signals, end) == [n \in DOMAIN signals |-> ComputeSignal(signals[n], end)]

-----------------------------------------------------------------------------
(* The gate.                                                               *)

(* A call of augment: a layer looks for a basis; match[b] is the layer of  *)
(* basis b, or 0.                                                          *)
Matches == [Bases -> OutcomeLayer \cup {0}]
AugmentCalls == [layer : OutcomeLayer, visited : SUBSET Bases, match : Matches]

(* Mutant: takes the first free basis and moves nobody.                    *)
AugmentGreedy(edges) ==
  [s \in AugmentCalls |->
     LET free == {b \in Bases : <<s.layer, b>> \in edges /\ s.match[b] = 0} IN
     [match |-> IF free = {} THEN s.match ELSE [s.match EXCEPT ![Min(free)] = s.layer]]]

(* augment: find the layer a basis not visited yet, moving the layer that  *)
(* holds it elsewhere if need be; `try' answers its own calls.             *)
AugmentBody(edges, try, s) ==
  LET open == {b \in Bases : <<s.layer, b>> \in edges} \ s.visited IN
  IF open = {} THEN [found |-> FALSE, visited |-> s.visited, match |-> s.match]
  ELSE LET b == Min(open)
           seen == s.visited \cup {b}
           moved == IF s.match[b] = 0
                    THEN [found |-> TRUE, visited |-> seen, match |-> s.match]
                    ELSE try[[layer |-> s.match[b], visited |-> seen, match |-> s.match]]
       IN IF moved.found
          THEN [found |-> TRUE, visited |-> moved.visited,
                match |-> [moved.match EXCEPT ![b] = s.layer]]
          ELSE try[[layer |-> s.layer, visited |-> moved.visited, match |-> moved.match]]
Augment(edges) == LET try[s \in AugmentCalls] == AugmentBody(edges, try, s) IN try

(* _max_independent_layers: the layers that have an edge, in order, each   *)
(* through augment.                                                        *)
NextMatch(edges, match, l) ==
  IF \E b \in Bases : <<l, b>> \in edges
  THEN Augment(edges)[[layer |-> l, visited |-> {}, match |-> match]].match
  ELSE match
MaxIndependentLayers(edges) ==
  LET match[l \in {0} \cup OutcomeLayer] ==
        IF l = 0 THEN [b \in Bases |-> 0] ELSE NextMatch(edges, match[l - 1], l)
  IN {match[5][b] : b \in Bases} \ {0}

(* The reason codes that make a verdict undetermined.                      *)
UndeterminedCodes ==
  {"missing_raw_evidence_ref", "window_incomplete", "deployment_unconfirmed",
   "deployment_late", "treatment_control_contamination", "observation_adapter_drift",
   "missing_baseline", "missing_control", "insufficient_repeats"}

(* A signal that improved against its control on sufficient data.          *)
Qualifies(s) == s.has_lift /\ s.net > 0 /\ s.codes = {}

(* _run_b_gate and decide_b_verdict: `upstream' are the reason codes of    *)
(* the steps before, `raw' says that a raw observation is referenced.      *)
DecideBVerdict(did, raw, upstream) ==
  LET all == Range(did)
      scored == {n \in DOMAIN did : did[n].layer \in OutcomeLayer}
      edges == {<<did[n].layer, did[n].basis>> : n \in {m \in scored : Qualifies(did[m])}}
      layers == MaxIndependentLayers(edges)
      holds ==
        [duplicate_evidence_basis |->
           \E m, n \in scored : m # n /\ did[m].basis = did[n].basis,
         insufficient_repeats |->
           \/ \E n \in scored : did[n].codes # {}
           \/ \E s \in all : "insufficient_repeats" \in s.codes,
         no_control_adjusted_lift |-> \E n \in scored : ~did[n].has_lift,
         negative_or_inconclusive_lift |->
           \E n \in scored : did[n].has_lift /\ did[n].net <= 0,
         missing_raw_evidence_ref |-> ~raw,
         window_incomplete |-> "window_incomplete" \in upstream,
         deployment_unconfirmed |->
           upstream \cap {"deployment_unconfirmed", "deployment_late"} # {},
         deployment_late |-> "deployment_late" \in upstream,
         treatment_control_contamination |-> "treatment_control_contamination" \in upstream,
         observation_adapter_drift |-> scored # DOMAIN did,
         missing_baseline |-> \E s \in all : "missing_baseline" \in s.codes,
         missing_control |-> \E s \in all : "missing_control" \in s.codes]
      codes == {c \in DOMAIN holds : holds[c]}
      verdict == IF codes \cap UndeterminedCodes # {} THEN "undetermined"
                 ELSE IF Cardinality(layers) >= 2 THEN "pass" ELSE "fail"
      single == verdict = "fail" /\ (Cardinality(layers) = 1 \/ codes = {})
  IN [verdict |-> verdict, layers |-> layers,
      codes |-> codes \cup (IF single THEN {"single_layer_only"} ELSE {})]
=============================================================================

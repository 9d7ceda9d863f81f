--------------------- MODULE MeasurementPipelineProofs ---------------------
(***************************************************************************)
(* Proofs about MeasurementPipeline, for any number of calls, any inputs   *)
(* and any bound: first the order of its store calls and what each store   *)
(* refuses, with what a run computes left opaque; then what a pass is      *)
(* worth, down to the matching of outcome layers and evidence bases.       *)
(***************************************************************************)
EXTENDS MeasurementPipeline, TupleLemmas

(* A call about to append its decision has stored its own bundle.          *)
BundleIsStored ==
  \A p \in Callers :
    LET i == call[p].input
        key == BundleKey(i, call[p].outcome)
    IN call[p].pc = "decide" => key \in DOMAIN bundles /\ bundles[key] = Manifest(i)

(* A call past its window step works over the stored window.               *)
WindowIsStored ==
  \A p \in Callers :
    LET i == call[p].input IN
    /\ call[p].pc \in {"evidence", "decide", "returned"}
    /\ ~call[p].conflicted /\ HasWindow(i)
    => WindowKey(i) \in DOMAIN windows /\ windows[WindowKey(i)] = Anchor(i)

IInv == TypeOK /\ DecisionIsBacked /\ ReturnedIsRecorded /\ BundleIsStored /\ WindowIsStored

-----------------------------------------------------------------------------
(* What a put leaves in a store: the key is there, nothing else is new,    *)
(* and what was there stays.                                               *)
LEMMA PutFacts ==
  ASSUME NEW store, NEW key, NEW content
  PROVE  /\ DOMAIN Put(store, key, content) = DOMAIN store \cup {key}
         /\ Keeps(store, Put(store, key, content))
         /\ PutOutcome(store, key, content) # "conflict" =>
              Put(store, key, content)[key] = content
         /\ key \notin DOMAIN store => Put(store, key, content)[key] = content
BY DEF Put, PutOutcome, Keeps

(* The keys and contents of a run are well-formed.                         *)
LEMMA InputTypes ==
  ASSUME NEW i \in Inputs
  PROVE  /\ Input[i].confirmation \in Confirmations
         /\ ConfirmationKey(i) \in StoreKeys
         /\ WindowKey(i) \in Tenants \X Experiments
         /\ DecisionKey(i) \in Tenants \X Experiments \X Runs
         /\ Manifest(i) \in Experiments \X Runs
         /\ Anchor(i) \in Nat
<1>1. /\ Input[i].tenant \in Tenants /\ Input[i].experiment \in Experiments
      /\ Input[i].run \in Runs /\ Input[i].confirmation \in Confirmations
      /\ Input[i].received \in Nat /\ Input[i].prior_received \in Nat
  BY PipelineAssumption
<1>2. Claim[Input[i].confirmation].key \in Keys
  BY <1>1, ConfirmationAssumption DEF Claims
<1> QED
  BY <1>1, <1>2 DEF ConfirmationKey, StoreKeys, WindowKey, DecisionKey, Manifest, Anchor

(* The parts of a decision's key, and the key of its bundle.               *)
LEMMA KeyParts ==
  ASSUME NEW i \in Inputs, NEW outcome
  PROVE  /\ BundleKey(i, outcome) = <<DecisionKey(i)[1], outcome.ref>>
         /\ Manifest(i) = <<DecisionKey(i)[2], DecisionKey(i)[3]>>
BY DEF BundleKey, DecisionKey, Manifest

-----------------------------------------------------------------------------
(* What TypeOK says of one call.                                           *)
WellFormed(p) ==
  /\ call[p].pc \in PCs /\ call[p].conflicted \in BOOLEAN
  /\ IF call[p].pc = "idle" THEN call[p].input = None ELSE call[p].input \in Inputs

(* The invariant holds in the beginning.                                   *)
LEMMA InitIInv == Init => IInv
<1> SUFFICES ASSUME Init PROVE IInv
  OBVIOUS
<1> USE DEF Init
<1>1. DOMAIN <<>> = {}
  OBVIOUS
<1>2. TypeOK
  <2>1. \A p \in Callers : call[p] = Idle
    OBVIOUS
  <2>2. Idle.pc = "idle" /\ Idle.input = None /\ Idle.conflicted = FALSE
    BY DEF Idle, At
  <2>3. \A p \in Callers : WellFormed(p)
    BY <2>1, <2>2 DEF WellFormed, PCs
  <2>4. DOMAIN call = Callers /\ started \in 0..MaxCalls
    BY PipelineAssumption
  <2> QED
    BY <1>1, <2>3, <2>4 DEF TypeOK, WellFormed
<1>3. DecisionIsBacked
  BY <1>1 DEF DecisionIsBacked
<1>4. ReturnedIsRecorded /\ BundleIsStored /\ WindowIsStored
  BY DEF ReturnedIsRecorded, BundleIsStored, WindowIsStored, Idle, At
<1> QED
  BY <1>2, <1>3, <1>4 DEF IInv

(* A call under way has its inputs.                                        *)
LEMMA CallTypes ==
  ASSUME TypeOK, NEW p \in Callers, call[p].pc # "idle"
  PROVE  call[p].input \in Inputs /\ call[p].conflicted \in BOOLEAN
BY DEF TypeOK

(* The other calls stay as they are, and no step changes the inputs of a   *)
(* call under way except to start or end it.                               *)
LEMMA StepIInv == IInv /\ [Next]_vars => IInv'
<1> SUFFICES ASSUME IInv, [Next]_vars PROVE IInv'
  OBVIOUS
<1> USE DEF IInv
<1>1. ASSUME NEW p \in Callers, Start(p) PROVE IInv'
  <2>1. PICK i \in Inputs : call' = [call EXCEPT ![p] = At("confirm", i, FALSE, NoOutcome)]
    BY <1>1, Zenon DEF Start
  <2>2. /\ UNCHANGED <<confirmations, windows, bundles, decisions>>
        /\ started < MaxCalls /\ started' = started + 1
    BY <1>1 DEF Start, stores
  <2>3. /\ call'[p].pc = "confirm" /\ call'[p].input = i /\ call'[p].conflicted = FALSE
        /\ DOMAIN call' = Callers
        /\ \A q \in Callers \ {p} : call'[q] = call[q]
    BY <2>1 DEF TypeOK, At, PCs
  <2>4. TypeOK'
    <3>1. \A q \in Callers : WellFormed(q)'
      BY <2>3, PipelineAssumption DEF TypeOK, WellFormed, PCs
    <3>2. started' \in 0..MaxCalls
      BY <2>2, PipelineAssumption DEF TypeOK
    <3> QED
      BY <2>2, <2>3, <3>1, <3>2 DEF TypeOK, WellFormed
  <2>5. DecisionIsBacked'
    BY <2>2 DEF DecisionIsBacked
  <2>6. ReturnedIsRecorded'
    BY <2>2, <2>3 DEF ReturnedIsRecorded
  <2>7. BundleIsStored'
    BY <2>2, <2>3 DEF BundleIsStored
  <2>8. WindowIsStored'
    BY <2>2, <2>3 DEF WindowIsStored
  <2> QED
    BY <2>4, <2>5, <2>6, <2>7, <2>8
<1>2. ASSUME NEW p \in Callers, Leave(p) PROVE IInv'
  <2> USE <1>2 DEF Leave, stores
  <2>2. DOMAIN call = Callers
    BY DEF TypeOK
  <2>3. /\ call'[p].pc = "idle" /\ call'[p].input = None /\ call'[p].conflicted = FALSE
        /\ DOMAIN call' = Callers
        /\ \A q \in Callers \ {p} : call'[q] = call[q]
    BY <2>2 DEF Idle, At
  <2>4. TypeOK'
    BY <2>2, <2>3 DEF TypeOK, PCs, Idle, At
  <2>5. DecisionIsBacked'
    BY DEF DecisionIsBacked
  <2>6. ReturnedIsRecorded'
    BY <2>3 DEF ReturnedIsRecorded
  <2>7. BundleIsStored'
    BY <2>3 DEF BundleIsStored
  <2>8. WindowIsStored'
    BY <2>3 DEF WindowIsStored
  <2> QED
    BY <2>4, <2>5, <2>6, <2>7, <2>8
<1>3. ASSUME NEW p \in Callers, PutConfirmation(p) PROVE IInv'
  <2> USE <1>3 DEF PutConfirmation
  <2> DEFINE i == call[p].input
             key == ConfirmationKey(i)
             content == Input[i].confirmation
             next == IF ~(PutOutcome(confirmations, key, content) = "conflict") /\ HasWindow(i)
                     THEN "window" ELSE "evidence"
  <2>1. i \in Inputs
    BY CallTypes
  <2>2. DOMAIN call = Callers
    BY DEF TypeOK
  <2>3. /\ call'[p].pc = next /\ call'[p].input = i
        /\ call'[p].conflicted = (PutOutcome(confirmations, key, content) = "conflict")
        /\ DOMAIN call' = Callers
        /\ \A q \in Callers \ {p} : call'[q] = call[q]
    BY <2>2 DEF PCs, At
  <2>4. /\ DOMAIN confirmations' = DOMAIN confirmations \cup {key}
        /\ Keeps(confirmations, confirmations')
        /\ key \notin DOMAIN confirmations => confirmations'[key] = content
    BY PutFacts
  <2>5. TypeOK'
    <3>1. DOMAIN confirmations' \subseteq StoreKeys
      BY <2>1, <2>4, InputTypes DEF TypeOK
    <3>2. \A k \in DOMAIN confirmations' : confirmations'[k] \in Confirmations
      BY <2>1, <2>4, InputTypes DEF TypeOK, Keeps
    <3>3. \A q \in Callers : WellFormed(q)'
      BY <2>1, <2>3, PipelineAssumption DEF TypeOK, WellFormed, PCs
    <3> QED
      BY <2>3, <3>1, <3>2, <3>3 DEF TypeOK, WellFormed
  <2>6. DecisionIsBacked'
    BY DEF DecisionIsBacked
  <2>7. next \in {"window", "evidence"}
    OBVIOUS
  <2>8. ReturnedIsRecorded'
    BY <2>3, <2>7 DEF ReturnedIsRecorded
  <2>9. BundleIsStored'
    BY <2>3, <2>7 DEF BundleIsStored
  <2>10. WindowIsStored'
    BY <2>3 DEF WindowIsStored
  <2> QED
    BY <2>5, <2>6, <2>8, <2>9, <2>10
<1>4. ASSUME NEW p \in Callers, OpenWindow(p) PROVE IInv'
  <2> USE <1>4 DEF OpenWindow, Goto
  <2> DEFINE i == call[p].input
             c == call[p].conflicted
             key == WindowKey(i)
             content == Anchor(i)
             next == IF PutOutcome(windows, key, content) = "conflict" THEN "raised" ELSE "evidence"
  <2>1. i \in Inputs /\ c \in BOOLEAN
    BY CallTypes
  <2>2. DOMAIN call = Callers
    BY DEF TypeOK
  <2>3. /\ call'[p].pc = next /\ call'[p].input = i /\ call'[p].conflicted = c
        /\ call'[p].outcome = call[p].outcome
        /\ DOMAIN call' = Callers
        /\ \A q \in Callers \ {p} : call'[q] = call[q]
    BY <2>2 DEF PCs, At
  <2>4. /\ DOMAIN windows' = DOMAIN windows \cup {key}
        /\ Keeps(windows, windows')
        /\ PutOutcome(windows, key, content) # "conflict" => windows'[key] = content
        /\ key \notin DOMAIN windows => windows'[key] = content
    <3>1. windows' = Put(windows, key, content)
      OBVIOUS
    <3> HIDE DEF key, content
    <3> QED
      BY <3>1 DEF Put, PutOutcome, Keeps
  <2>5. \A q \in Callers : WellFormed(q)'
    BY <2>1, <2>3, PipelineAssumption DEF TypeOK, WellFormed, PCs
  <2>6. TypeOK'
    <3>1. DOMAIN windows' \subseteq Tenants \X Experiments
      BY <2>1, <2>4, InputTypes DEF TypeOK
    <3>2. \A k \in DOMAIN windows' : windows'[k] \in Nat
      BY <2>1, <2>4, InputTypes DEF TypeOK, Keeps
    <3> QED
      BY <2>3, <2>5, <3>1, <3>2 DEF TypeOK, WellFormed
  <2>7. DecisionIsBacked'
    BY DEF DecisionIsBacked
  <2>8. ReturnedIsRecorded'
    BY <2>3 DEF ReturnedIsRecorded
  <2>9. BundleIsStored'
    BY <2>3 DEF BundleIsStored
  <2>10. WindowIsStored'
    BY <2>3, <2>4 DEF WindowIsStored, Keeps
  <2> QED
    BY <2>6, <2>7, <2>8, <2>9, <2>10
<1>5. ASSUME NEW p \in Callers, PutEvidence(p) PROVE IInv'
  <2> USE <1>5 DEF PutEvidence, Goto
  <2> DEFINE i == call[p].input
             c == call[p].conflicted
             key == BundleKey(i, call[p].outcome)
             content == Manifest(i)
             next == IF PutOutcome(bundles, key, content) = "conflict" THEN "raised" ELSE "decide"
  <2>1. i \in Inputs /\ c \in BOOLEAN
    BY CallTypes
  <2>2. DOMAIN call = Callers
    BY DEF TypeOK
  <2>3. /\ call'[p].pc = next /\ call'[p].input = i /\ call'[p].conflicted = c
        /\ call'[p].outcome = call[p].outcome
        /\ DOMAIN call' = Callers
        /\ \A q \in Callers \ {p} : call'[q] = call[q]
    BY <2>2 DEF PCs, At
  <2>4. /\ DOMAIN bundles' = DOMAIN bundles \cup {key}
        /\ Keeps(bundles, bundles')
        /\ PutOutcome(bundles, key, content) # "conflict" => bundles'[key] = content
        /\ key \notin DOMAIN bundles => bundles'[key] = content
    <3>1. bundles' = Put(bundles, key, content)
      OBVIOUS
    <3> HIDE DEF key, content
    <3> QED
      BY <3>1 DEF Put, PutOutcome, Keeps
  <2>5. \A q \in Callers : WellFormed(q)'
    BY <2>1, <2>3, PipelineAssumption DEF TypeOK, WellFormed, PCs
  <2>6. TypeOK'
    <3>1. \A k \in DOMAIN bundles' : bundles'[k] \in Experiments \X Runs
      BY <2>1, <2>4, InputTypes DEF TypeOK, Keeps
    <3> QED
      BY <2>3, <2>5, <3>1 DEF TypeOK, WellFormed
  <2>7. DecisionIsBacked'
    BY <2>4 DEF DecisionIsBacked, Keeps
  <2>8. ReturnedIsRecorded'
    BY <2>3 DEF ReturnedIsRecorded
  <2>9. BundleIsStored'
    BY <2>3, <2>4 DEF BundleIsStored, Keeps
  <2>10. WindowIsStored'
    BY <2>3 DEF WindowIsStored
  <2> QED
    BY <2>6, <2>7, <2>8, <2>9, <2>10
<1>6. ASSUME NEW p \in Callers, AppendDecision(p) PROVE IInv'
  <2> USE <1>6 DEF AppendDecision, Goto
  <2> DEFINE i == call[p].input
             c == call[p].conflicted
             key == DecisionKey(i)
             content == call[p].outcome
             next == IF PutOutcome(decisions, key, content) = "conflict" THEN "raised" ELSE "returned"
  <2>1. i \in Inputs /\ c \in BOOLEAN
    BY CallTypes
  <2>2. DOMAIN call = Callers
    BY DEF TypeOK
  <2>3. /\ call'[p].pc = next /\ call'[p].input = i /\ call'[p].conflicted = c
        /\ call'[p].outcome = call[p].outcome
        /\ DOMAIN call' = Callers
        /\ \A q \in Callers \ {p} : call'[q] = call[q]
    BY <2>2 DEF PCs, At
  <2>4. /\ DOMAIN decisions' = DOMAIN decisions \cup {key}
        /\ Keeps(decisions, decisions')
        /\ PutOutcome(decisions, key, content) # "conflict" => decisions'[key] = content
        /\ key \notin DOMAIN decisions => decisions'[key] = content
    <3>1. decisions' = Put(decisions, key, content)
      OBVIOUS
    <3> HIDE DEF key, content
    <3> QED
      BY <3>1 DEF Put, PutOutcome, Keeps
  <2>5. \A q \in Callers : WellFormed(q)'
    BY <2>1, <2>3, PipelineAssumption DEF TypeOK, WellFormed, PCs
  <2>6. TypeOK'
    <3>1. DOMAIN decisions' \subseteq Tenants \X Experiments \X Runs
      BY <2>1, <2>4, InputTypes DEF TypeOK
    <3> QED
      BY <2>3, <2>5, <3>1 DEF TypeOK, WellFormed
  <2>7. DecisionIsBacked'
    <3> SUFFICES ASSUME NEW k \in DOMAIN decisions'
                 PROVE  /\ <<k[1], decisions'[k].ref>> \in DOMAIN bundles
                        /\ bundles[<<k[1], decisions'[k].ref>>] = <<k[2], k[3]>>
      BY DEF DecisionIsBacked
    <3>1. CASE k \in DOMAIN decisions
      BY <3>1, <2>4 DEF DecisionIsBacked, Keeps
    <3>2. CASE k \notin DOMAIN decisions
      <4>1. k = key /\ decisions'[k] = content
        BY <3>2, <2>4
      <4>2. BundleKey(i, content) \in DOMAIN bundles /\ bundles[BundleKey(i, content)] = Manifest(i)
        BY DEF BundleIsStored
      <4> QED
        BY <2>1, <4>1, <4>2, KeyParts
    <3> QED
      BY <3>1, <3>2
  <2>8. ReturnedIsRecorded'
    BY <2>3, <2>4 DEF ReturnedIsRecorded, Keeps
  <2>9. BundleIsStored'
    BY <2>3 DEF BundleIsStored
  <2>10. WindowIsStored'
    BY <2>3 DEF WindowIsStored
  <2> QED
    BY <2>6, <2>7, <2>8, <2>9, <2>10
<1>7. ASSUME UNCHANGED vars PROVE IInv'
  BY <1>7 DEF vars, TypeOK, DecisionIsBacked, ReturnedIsRecorded, BundleIsStored, WindowIsStored
<1> QED
  BY <1>1, <1>2, <1>3, <1>4, <1>5, <1>6, <1>7 DEF Next

-----------------------------------------------------------------------------
(* IInv is an invariant of the specification.                              *)
LEMMA Invariance == Spec => []IInv
BY InitIInv, StepIInv, PTL DEF Spec

(* Every store holds well-formed content (TypeOK), whatever the calls.     *)
THEOREM TypeCorrect == Spec => []TypeOK
<1>1. IInv => TypeOK
  BY DEF IInv
<1> QED
  BY Invariance, <1>1, PTL

(* A recorded decision refers to a stored bundle of its own run, however   *)
(* the calls of run_measurement interleave and wherever they die.          *)
THEOREM BackedDecisions == Spec => []DecisionIsBacked
<1>1. IInv => DecisionIsBacked
  BY DEF IInv
<1> QED
  BY Invariance, <1>1, PTL

(* A call of run_measurement returns the outcome that is recorded.         *)
THEOREM RecordedOutcomes == Spec => []ReturnedIsRecorded
<1>1. IInv => ReturnedIsRecorded
  BY DEF IInv
<1> QED
  BY Invariance, <1>1, PTL

(* All decisions of an experiment are taken over its one stored window.    *)
THEOREM SharedWindow == Spec => []OneWindow
<1>1. IInv => OneWindow
  BY DEF IInv, WindowIsStored, OneWindow
<1> QED
  BY Invariance, <1>1, PTL

(* No step changes or drops anything that is stored.                       *)
THEOREM StoresAppendOnly == Spec => AppendOnly
<1> DEFINE Kept == /\ Keeps(confirmations, confirmations') /\ Keeps(windows, windows')
                   /\ Keeps(bundles, bundles') /\ Keeps(decisions, decisions')
<1>1. [Next]_vars => [Kept]_vars
  <2> SUFFICES ASSUME Next PROVE Kept
    OBVIOUS
  <2>1. PICK p \in Callers : \/ Start(p) \/ PutConfirmation(p) \/ OpenWindow(p)
                             \/ PutEvidence(p) \/ AppendDecision(p) \/ Leave(p)
    BY DEF Next
  <2>2. \A store : Keeps(store, store)
    BY DEF Keeps
  <2>3. CASE Start(p) \/ Leave(p)
    BY <2>2, <2>3 DEF Start, Leave, stores
  <2>4. CASE PutConfirmation(p)
    BY <2>2, <2>4, PutFacts DEF PutConfirmation
  <2>5. CASE OpenWindow(p)
    BY <2>2, <2>5, PutFacts DEF OpenWindow
  <2>6. CASE PutEvidence(p)
    BY <2>2, <2>6, PutFacts DEF PutEvidence
  <2>7. CASE AppendDecision(p)
    BY <2>2, <2>7, PutFacts DEF AppendDecision
  <2> QED
    BY <2>1, <2>3, <2>4, <2>5, <2>6, <2>7
<1> QED
  BY <1>1, PTL DEF Spec, AppendOnly

-----------------------------------------------------------------------------
(* What a pass is worth: first what the steps before the gate hold back,   *)
(* with the numbers left opaque.                                           *)

(* A call past its first store call carries the outcome of its inputs.     *)
OutcomeIsComputed ==
  \A p \in Callers :
    call[p].pc \in {"window", "evidence", "decide", "returned"} =>
      call[p].outcome = OutcomeOf[call[p].input][call[p].conflicted]

(* A recorded decision is the outcome of inputs of its own run.            *)
DecisionIsComputed ==
  \A k \in DOMAIN decisions :
    \E i \in Inputs, conflicted \in BOOLEAN :
      k = DecisionKey(i) /\ decisions[k] = OutcomeOf[i][conflicted]

ComputedInv == OutcomeIsComputed /\ DecisionIsComputed

(* Nothing is computed or recorded in the beginning.                       *)
LEMMA InitComputed == Init => ComputedInv
<1> SUFFICES ASSUME Init PROVE ComputedInv
  OBVIOUS
<1>1. DOMAIN <<>> = {}
  OBVIOUS
<1>2. \A p \in Callers : call[p].pc = "idle"
  BY DEF Init, Idle, At
<1> QED
  BY <1>1, <1>2 DEF Init, ComputedInv, OutcomeIsComputed, DecisionIsComputed

(* Only put_confirmation computes an outcome, and only append_decision     *)
(* records one.                                                            *)
LEMMA StepComputed == TypeOK /\ ComputedInv /\ [Next]_vars => ComputedInv'
<1> SUFFICES ASSUME TypeOK, ComputedInv, [Next]_vars PROVE ComputedInv'
  OBVIOUS
<1> USE DEF ComputedInv
<1>0. DOMAIN call = Callers
  BY DEF TypeOK
<1>1. ASSUME NEW p \in Callers, Start(p) \/ Leave(p) PROVE ComputedInv'
  <2>1. /\ call'[p].pc \in {"idle", "confirm"} /\ decisions' = decisions
        /\ \A q \in Callers \ {p} : call'[q] = call[q]
    BY <1>0, <1>1 DEF Start, Leave, stores, Idle, At
  <2> QED
    BY <2>1 DEF OutcomeIsComputed, DecisionIsComputed
<1>2. ASSUME NEW p \in Callers, PutConfirmation(p) PROVE ComputedInv'
  <2>1. /\ call'[p].outcome = OutcomeOf[call'[p].input][call'[p].conflicted]
        /\ decisions' = decisions
        /\ \A q \in Callers \ {p} : call'[q] = call[q]
    BY <1>0, <1>2 DEF PutConfirmation, At
  <2> QED
    BY <2>1 DEF OutcomeIsComputed, DecisionIsComputed
<1>3. ASSUME NEW p \in Callers, OpenWindow(p) \/ PutEvidence(p) PROVE ComputedInv'
  <2>1. /\ call'[p].input = call[p].input /\ call'[p].conflicted = call[p].conflicted
        /\ call'[p].outcome = call[p].outcome /\ decisions' = decisions
        /\ call[p].pc \in {"window", "evidence"}
        /\ \A q \in Callers \ {p} : call'[q] = call[q]
    BY <1>0, <1>3 DEF OpenWindow, PutEvidence, Goto, At
  <2> QED
    BY <2>1 DEF OutcomeIsComputed, DecisionIsComputed
<1>4. ASSUME NEW p \in Callers, AppendDecision(p) PROVE ComputedInv'
  <2> DEFINE i == call[p].input
             outcome == call[p].outcome
  <2>1. /\ call'[p].input = i /\ call'[p].conflicted = call[p].conflicted
        /\ call'[p].outcome = outcome /\ call[p].pc = "decide"
        /\ \A q \in Callers \ {p} : call'[q] = call[q]
    BY <1>0, <1>4 DEF AppendDecision, Goto, At
  <2>2. OutcomeIsComputed'
    BY <2>1 DEF OutcomeIsComputed
  <2>3. i \in Inputs /\ call[p].conflicted \in BOOLEAN
    BY <2>1, CallTypes
  <2>4. outcome = OutcomeOf[i][call[p].conflicted]
    BY <2>1 DEF OutcomeIsComputed
  <2>5. decisions' = Put(decisions, DecisionKey(i), outcome)
    BY <1>4 DEF AppendDecision
  <2>6. \A k \in DOMAIN decisions' :
          \/ k \in DOMAIN decisions /\ decisions'[k] = decisions[k]
          \/ k = DecisionKey(i) /\ decisions'[k] = outcome
    <3> HIDE DEF i, outcome
    <3> QED
      BY <2>5 DEF Put
  <2>7. DecisionIsComputed'
    BY <2>3, <2>4, <2>6 DEF DecisionIsComputed
  <2> QED
    BY <2>2, <2>7
<1>5. ASSUME UNCHANGED vars PROVE ComputedInv'
  BY <1>5 DEF vars, OutcomeIsComputed, DecisionIsComputed
<1> QED
  BY <1>1, <1>2, <1>3, <1>4, <1>5 DEF Next

(* An accepted confirmation is genuine, and a duplicate is the one that    *)
(* was accepted before (validate_confirmation).                            *)
LEMMA ConfirmedIsGenuine ==
  ASSUME NEW i \in Inputs, Confirmed(i)
  PROVE  \/ Input[i].prior = Input[i].confirmation
         \/ Genuine(Input[i].confirmation, Input[i].experiment, Input[i].received)
<1> DEFINE c == Input[i].confirmation
           x == Input[i].experiment
           received == Input[i].received
           prior == Input[i].prior
<1>1. CASE VerdictOf(i) = "duplicate"
  BY <1>1 DEF VerdictOf, Verdict
<1>2. CASE VerdictOf(i) = "accepted"
  <2>1. c \in Confirmations /\ x \in Experiments /\ received \in Nat
    BY PipelineAssumption
  <2>2. Claim[c].at \in Nat /\ EarliestValid(x) \in Nat /\ AllowedSkew \in Nat
    BY <2>1, ConfirmationAssumption DEF Claims, EarliestValid
  <2>3. Verdict(c, x, received, prior) = "accepted"
    BY <1>2 DEF VerdictOf
  <2> HIDE DEF c, x, received, prior
  <2>4. Genuine(c, x, received)
    BY <2>2, <2>1, <2>3 DEF Verdict, Genuine
  <2> QED
    BY <2>4 DEF c, x, received
<1> QED
  BY <1>1, <1>2 DEF Confirmed

(* A final pass means that every step before the gate raised nothing.      *)
LEMMA PassIsHeldToIt ==
  ASSUME NEW i \in Inputs, NEW conflicted \in BOOLEAN,
         OutcomeOf[i][conflicted].status = "pass"
  PROVE  /\ ~conflicted /\ Eligible(Input[i].grs)
         /\ BindingCodes(Input[i].submission) = {} /\ WindowCodes(i) = {}
<1> DEFINE gate == Gate(i, Did(i))
<1>1. OutcomeOf[i][conflicted].status = FinalStatus(i, conflicted, gate.verdict)
  BY DEF OutcomeOf, Judge, Conclude, Outcome
<1> HIDE DEF gate
<1>2. FinalStatus(i, conflicted, gate.verdict) = "pass"
  BY <1>1
<1> QED
  BY <1>2 DEF FinalStatus

(* Inputs that raise nothing are entitled to a pass.                       *)
LEMMA NothingRaisedIsEntitled ==
  ASSUME NEW i \in Inputs, Eligible(Input[i].grs),
         BindingCodes(Input[i].submission) = {}, WindowCodes(i) = {}
  PROVE  Entitled(i)
<1>1. /\ Input[i].grs.bundle
      /\ Input[i].grs.observed["min_grs"] >= Input[i].grs.threshold["min_grs"]
      /\ Input[i].grs.observed["max_open_incidents"]
           <= Input[i].grs.threshold["max_open_incidents"]
  BY DEF Eligible, Thresholds
<1>2. Input[i].submission = [found |-> TRUE, content |-> TRUE, intact |-> TRUE,
                             metrics |-> TRUE, cells |-> TRUE, observations |-> "clean"]
  <2> DEFINE s == Input[i].submission
  <2>1. s \in [found : BOOLEAN, content : BOOLEAN, intact : BOOLEAN, metrics : BOOLEAN,
               cells : BOOLEAN, observations : {"clean", "contaminated", "other_asset"}]
    BY PipelineAssumption
  <2> HIDE DEF s
  <2>2. /\ s.found /\ s.content /\ s.intact /\ s.metrics /\ s.cells
        /\ s.observations \notin {"contaminated", "other_asset"}
    BY DEF BindingCodes, s
  <2>3. s = [found |-> TRUE, content |-> TRUE, intact |-> TRUE,
             metrics |-> TRUE, cells |-> TRUE, observations |-> "clean"]
    BY <2>1, <2>2
  <2> QED
    BY <2>3 DEF s
<1>3. Confirmed(i) /\ HasWindow(i) /\ ~(Input[i].at < WindowEnd(Anchor(i)))
  BY DEF WindowCodes
<1>4. \/ Input[i].prior = Input[i].confirmation
      \/ Genuine(Input[i].confirmation, Input[i].experiment, Input[i].received)
  BY <1>3, ConfirmedIsGenuine
<1>5. /\ Anchor(i) \in Nat /\ Input[i].at \in Nat /\ WindowDays \in Nat
      /\ Registration[Input[i].experiment].approved \in Nat /\ MaxDeployDelay \in Nat
  BY InputTypes, PipelineAssumption, ConfirmationAssumption
<1>6. Anchor(i) <= Registration[Input[i].experiment].approved + MaxDeployDelay
  BY <1>3, <1>5 DEF HasWindow, DeploymentLate
<1>7. Anchor(i) + WindowDays <= Input[i].at
  BY <1>3, <1>5 DEF WindowEnd
<1> QED
  BY <1>1, <1>2, <1>4, <1>6, <1>7 DEF Entitled

(* A recorded pass, at any time: its inputs were those of the decision's   *)
(* own experiment and run, and they were entitled to it.                   *)
PassIsEntitled ==
  \A k \in DOMAIN decisions :
    decisions[k].status = "pass" => \E i \in Inputs : k = DecisionKey(i) /\ Entitled(i)

(* However the calls of run_measurement interleave and die, an experiment  *)
(* is recorded as passed only from inputs whose policy, registration,      *)
(* confirmation and window allow it: what _final_status holds back is not  *)
(* undone by a retry, a replay or another run.                             *)
THEOREM RecordedPassIsEntitled == Spec => []PassIsEntitled
<1>1. Spec => []ComputedInv
  BY TypeCorrect, InitComputed, StepComputed, PTL DEF Spec
<1>2. ComputedInv => PassIsEntitled
  <2> SUFFICES ASSUME ComputedInv, NEW k \in DOMAIN decisions, decisions[k].status = "pass"
               PROVE  \E i \in Inputs : k = DecisionKey(i) /\ Entitled(i)
    BY DEF PassIsEntitled
  <2>1. PICK i \in Inputs, conflicted \in BOOLEAN :
          k = DecisionKey(i) /\ decisions[k] = OutcomeOf[i][conflicted]
    BY DEF ComputedInv, DecisionIsComputed
  <2>2. Entitled(i)
    BY <2>1, PassIsHeldToIt, NothingRaisedIsEntitled
  <2> QED
    BY <2>1, <2>2
<1> QED
  BY <1>1, <1>2, PTL

(* A call that returned a pass was not refused its confirmation and its    *)
(* own inputs were entitled: the first half of VerdictIsRight.             *)
ReturnedPassIsEntitled ==
  \A p \in Callers :
    LET i == call[p].input IN
    call[p].pc = "returned" /\ decisions[DecisionKey(i)].status = "pass" =>
      ~call[p].conflicted /\ Entitled(i)

(* The pass a worker gets back from run_measurement is one its own inputs  *)
(* are entitled to, also when another call recorded the decision.          *)
THEOREM ReturnedPassIsOwn == Spec => []ReturnedPassIsEntitled
<1>1. Spec => []ComputedInv
  BY TypeCorrect, InitComputed, StepComputed, PTL DEF Spec
<1>2. IInv /\ ComputedInv => ReturnedPassIsEntitled
  <2> SUFFICES ASSUME IInv, ComputedInv, NEW p \in Callers, call[p].pc = "returned",
                      decisions[DecisionKey(call[p].input)].status = "pass"
               PROVE  ~call[p].conflicted /\ Entitled(call[p].input)
    BY DEF ReturnedPassIsEntitled
  <2>1. call[p].input \in Inputs /\ call[p].conflicted \in BOOLEAN
    BY CallTypes DEF IInv
  <2>2. OutcomeOf[call[p].input][call[p].conflicted].status = "pass"
    BY DEF IInv, ReturnedIsRecorded, ComputedInv, OutcomeIsComputed
  <2> QED
    BY <2>1, <2>2, PassIsHeldToIt, NothingRaisedIsEntitled
<1> QED
  BY <1>1, <1>2, Invariance, PTL

-----------------------------------------------------------------------------
(* The matching of _max_independent_layers.  augment is defined by nested  *)
(* recursion: first that it answers every call, then what it answers; both *)
(* by induction on the number of bases not visited yet.                    *)

(* Min, which the community modules define by a choice, is an element.     *)
LEMMA MinIsIn ==
  ASSUME NEW S, S \subseteq Nat, S # {}
  PROVE  Min(S) \in S
<1>1. \E x \in S : \A y \in S : x <= y
  BY LeastNumber
<1> QED
  BY <1>1 DEF Min

(* The body of augment, case by case.                                      *)
Open(edges, s) == {b \in Bases : <<s.layer, b>> \in edges} \ s.visited
GivesUp(s) == [found |-> FALSE, visited |-> s.visited, match |-> s.match]
Asks(s, b) == [layer |-> s.match[b], visited |-> s.visited \cup {b}, match |-> s.match]
Takes(s, b, v, m) == [found |-> TRUE, visited |-> v, match |-> [m EXCEPT ![b] = s.layer]]
Again(s, r) == [layer |-> s.layer, visited |-> r.visited, match |-> r.match]
IsAugment(edges, f, s, r) ==
  \/ Open(edges, s) = {} /\ r = GivesUp(s)
  \/ \E b \in Open(edges, s) :
       \/ s.match[b] = 0 /\ r = Takes(s, b, s.visited \cup {b}, s.match)
       \/ s.match[b] # 0 /\ f[Asks(s, b)].found /\ r = Takes(s, b, f[Asks(s, b)].visited, f[Asks(s, b)].match)
       \/ s.match[b] # 0 /\ ~f[Asks(s, b)].found /\ r = f[Again(s, f[Asks(s, b)])]

(* AugmentBody has these cases and no other.                               *)
LEMMA BodyIs ==
  ASSUME NEW edges, NEW f, NEW s
  PROVE  IsAugment(edges, f, s, AugmentBody(edges, f, s))
<1> PICK open : open = Open(edges, s)
  OBVIOUS
<1> PICK r : r = AugmentBody(edges, f, s)
  OBVIOUS
<1>1. CASE open = {}
  BY <1>1 DEF AugmentBody, IsAugment, Open, GivesUp
<1>2. CASE open # {}
  <2> PICK b : b = Min(open)
    OBVIOUS
  <2>1. b \in open
    BY <1>2, MinIsIn, BGateAssumption DEF Open
  <2>2. CASE s.match[b] = 0
    <3>1. r = Takes(s, b, s.visited \cup {b}, s.match)
      BY <1>2, <2>2 DEF AugmentBody, Takes, Open
    <3> QED
      BY <2>1, <2>2, <3>1 DEF IsAugment
  <2>3. CASE s.match[b] # 0 /\ f[Asks(s, b)].found
    <3>1. r = Takes(s, b, f[Asks(s, b)].visited, f[Asks(s, b)].match)
      BY <1>2, <2>3 DEF AugmentBody, Takes, Open, Asks
    <3> QED
      BY <2>1, <2>3, <3>1 DEF IsAugment
  <2>4. CASE s.match[b] # 0 /\ ~f[Asks(s, b)].found
    <3>1. r = f[Again(s, f[Asks(s, b)])]
      BY <1>2, <2>4 DEF AugmentBody, Again, Open, Asks
    <3> QED
      BY <2>1, <2>4, <3>1 DEF IsAugment
  <2> QED
    BY <2>2, <2>3, <2>4
<1> QED
  BY <1>1, <1>2

(* The bases a call has not visited yet, and what every answer looks like. *)
Rank(v) == Cardinality(Bases \ v)
Typed(s, r) == /\ r = [found |-> r.found, visited |-> r.visited, match |-> r.match]
               /\ r.found \in BOOLEAN /\ r.visited \subseteq Bases /\ s.visited \subseteq r.visited
               /\ r.match \in Matches

(* A call that visits one more basis has fewer left.                       *)
LEMMA RankFalls ==
  ASSUME NEW v, v \subseteq Bases, NEW w, w \subseteq Bases, v \subseteq w
  PROVE  Rank(v) \in Nat /\ Rank(w) <= Rank(v) /\ (v # w => Rank(w) < Rank(v))
<1>1. IsFiniteSet(Bases \ v) /\ IsFiniteSet(Bases \ w) /\ Bases \ w \in SUBSET (Bases \ v)
  BY BGateAssumption, FS_Difference
<1>2. Rank(v) \in Nat /\ Rank(w) \in Nat
  BY <1>1, FS_CardinalityType DEF Rank
<1>3. Rank(w) <= Rank(v) /\ (Rank(v) = Rank(w) => Bases \ v = Bases \ w)
  BY <1>1, FS_Subset DEF Rank
<1>4. Bases \ v = Bases \ w => v = w
  OBVIOUS
<1> QED
  BY <1>2, <1>3, <1>4

(* 0, for no layer, is not a layer.                                        *)
LEMMA LayersAreNotZero == 0 \notin OutcomeLayer
BY DEF OutcomeLayer

(* The calls a call makes are calls with fewer bases left.                 *)
LEMMA AsksIsCall ==
  ASSUME NEW edges, NEW s \in AugmentCalls, NEW b \in Open(edges, s), s.match[b] # 0, NEW t, t = Asks(s, b)
  PROVE  /\ t \in AugmentCalls /\ Rank(t.visited) < Rank(s.visited)
         /\ t.visited = s.visited \cup {b} /\ t.match = s.match /\ t.layer = s.match[b]
<1>1. /\ s.layer \in OutcomeLayer /\ s.visited \subseteq Bases /\ s.match \in Matches
      /\ b \in Bases /\ b \notin s.visited
  BY DEF AugmentCalls, Open
<1>2. s.match[b] \in OutcomeLayer
  BY <1>1 DEF Matches
<1>3. t \in AugmentCalls
  BY <1>1, <1>2 DEF AugmentCalls, Asks
<1>4. t.visited = s.visited \cup {b} /\ t.match = s.match /\ t.layer = s.match[b]
  BY DEF Asks
<1>5. Rank(s.visited \cup {b}) < Rank(s.visited)
  BY <1>1, RankFalls
<1> QED
  BY <1>3, <1>4, <1>5

(* So is the call that goes on after one that found nothing.               *)
LEMMA AgainIsCall ==
  ASSUME NEW edges, NEW s \in AugmentCalls, NEW b \in Open(edges, s), s.match[b] # 0,
         NEW r, Typed(Asks(s, b), r), NEW u, u = Again(s, r)
  PROVE  /\ u \in AugmentCalls /\ Rank(u.visited) < Rank(s.visited) /\ s.visited \subseteq u.visited
         /\ u.visited = r.visited /\ u.match = r.match /\ u.layer = s.layer
<1> PICK t : t = Asks(s, b)
  OBVIOUS
<1>1. t \in AugmentCalls /\ Rank(t.visited) < Rank(s.visited) /\ t.visited = s.visited \cup {b}
  BY AsksIsCall
<1>2. r.visited \subseteq Bases /\ t.visited \subseteq r.visited /\ r.match \in Matches
  BY DEF Typed
<1>3. s.layer \in OutcomeLayer /\ t.visited \subseteq Bases /\ s.visited \subseteq Bases
  BY <1>1 DEF AugmentCalls
<1>4. u.visited = r.visited /\ u.match = r.match /\ u.layer = s.layer
  BY DEF Again
<1>5. u \in AugmentCalls
  BY <1>2, <1>3 DEF AugmentCalls, Again
<1>6. /\ Rank(r.visited) \in Nat /\ Rank(t.visited) \in Nat /\ Rank(s.visited) \in Nat
      /\ Rank(r.visited) <= Rank(t.visited)
  BY <1>2, <1>3, RankFalls
<1>7. Rank(u.visited) < Rank(s.visited)
  BY <1>1, <1>4, <1>6
<1> QED
  BY <1>1, <1>2, <1>4, <1>5, <1>7

(* What f answers to the calls with fewer bases left than n.               *)
TypedBelow(f, n) == \A t \in AugmentCalls : Rank(t.visited) < n => Typed(t, f[t])
AgreeBelow(f, g, n) == \A t \in AugmentCalls : Rank(t.visited) < n => f[t] = g[t]

(* A call that takes a basis answers with a well-formed matching.          *)
LEMMA TakesIsTyped ==
  ASSUME NEW edges, NEW s \in AugmentCalls, NEW b \in Open(edges, s), NEW v, v \subseteq Bases, s.visited \subseteq v,
         NEW m \in Matches
  PROVE  Typed(s, Takes(s, b, v, m))
<1>1. s.layer \in OutcomeLayer /\ b \in Bases
  BY DEF AugmentCalls, Open
<1>2. [m EXCEPT ![b] = s.layer] \in Matches
  BY <1>1 DEF Matches
<1> QED
  BY <1>2 DEF Typed, Takes

(* Well-formed answers to smaller calls give a well-formed answer.         *)
LEMMA BodyTyped ==
  ASSUME NEW edges, NEW f, NEW s \in AugmentCalls, TypedBelow(f, Rank(s.visited))
  PROVE  Typed(s, AugmentBody(edges, f, s))
<1> PICK r : r = AugmentBody(edges, f, s)
  OBVIOUS
<1>1. IsAugment(edges, f, s, r)
  BY BodyIs
<1>2. s.visited \subseteq Bases /\ s.match \in Matches
  BY DEF AugmentCalls
<1>3. CASE Open(edges, s) = {} /\ r = GivesUp(s)
  BY <1>2, <1>3 DEF Typed, GivesUp
<1>4. ASSUME NEW b \in Open(edges, s), s.match[b] = 0, r = Takes(s, b, s.visited \cup {b}, s.match)
      PROVE  Typed(s, r)
  <2>1. s.visited \cup {b} \subseteq Bases
    BY <1>2 DEF Open
  <2> QED
    BY <1>2, <1>4, <2>1, TakesIsTyped
<1>5. ASSUME NEW b \in Open(edges, s), s.match[b] # 0
      PROVE  Typed(Asks(s, b), f[Asks(s, b)]) /\ s.visited \subseteq f[Asks(s, b)].visited
  <2> PICK t : t = Asks(s, b)
    OBVIOUS
  <2>1. t \in AugmentCalls /\ Rank(t.visited) < Rank(s.visited) /\ t.visited = s.visited \cup {b}
    BY <1>5, AsksIsCall
  <2>2. Typed(t, f[t])
    BY <2>1 DEF TypedBelow
  <2> QED
    BY <2>1, <2>2 DEF Typed
<1>6. ASSUME NEW b \in Open(edges, s), s.match[b] # 0,
             r = Takes(s, b, f[Asks(s, b)].visited, f[Asks(s, b)].match)
      PROVE  Typed(s, r)
  <2> PICK q : q = f[Asks(s, b)]
    OBVIOUS
  <2>1. q.visited \subseteq Bases /\ s.visited \subseteq q.visited /\ q.match \in Matches
    BY <1>5, <1>6 DEF Typed
  <2> QED
    BY <1>6, <2>1, TakesIsTyped
<1>7. ASSUME NEW b \in Open(edges, s), s.match[b] # 0, r = f[Again(s, f[Asks(s, b)])]
      PROVE  Typed(s, r)
  <2> PICK q : q = f[Asks(s, b)]
    OBVIOUS
  <2> PICK u : u = Again(s, q)
    OBVIOUS
  <2>1. Typed(Asks(s, b), q)
    BY <1>5, <1>7
  <2>2. u \in AugmentCalls /\ Rank(u.visited) < Rank(s.visited) /\ s.visited \subseteq u.visited
    BY <1>7, <2>1, AgainIsCall
  <2>3. Typed(u, f[u]) /\ r = f[u]
    BY <1>7, <2>2 DEF TypedBelow
  <2> QED
    BY <2>2, <2>3 DEF Typed
<1> QED
  BY <1>1, <1>3, <1>4, <1>6, <1>7 DEF IsAugment

(* The body depends on the answers to smaller calls only.                  *)
LEMMA BodyAgrees ==
  ASSUME NEW edges, NEW f, NEW g, NEW s \in AugmentCalls,
         TypedBelow(f, Rank(s.visited)), AgreeBelow(f, g, Rank(s.visited))
  PROVE  AugmentBody(edges, f, s) = AugmentBody(edges, g, s)
<1> PICK open : open = Open(edges, s)
  OBVIOUS
<1>1. CASE open = {}
  BY <1>1 DEF AugmentBody, Open
<1>2. CASE open # {}
  <2> PICK b : b = Min(open)
    OBVIOUS
  <2>1. b \in Open(edges, s)
    BY <1>2, MinIsIn, BGateAssumption DEF Open
  <2> PICK t : t = Asks(s, b)
    OBVIOUS
  <2>2. CASE s.match[b] = 0
    BY <1>2, <2>2 DEF AugmentBody, Open
  <2>3. CASE s.match[b] # 0
    <3> PICK u : u = Again(s, f[t])
      OBVIOUS
    <3>1. t \in AugmentCalls /\ Rank(t.visited) < Rank(s.visited)
      BY <2>1, <2>3, AsksIsCall
    <3>2. f[t] = g[t] /\ Typed(t, f[t])
      BY <3>1 DEF TypedBelow, AgreeBelow
    <3>3. u \in AugmentCalls /\ Rank(u.visited) < Rank(s.visited)
      BY <2>1, <2>3, <3>2, AgainIsCall
    <3>4. f[u] = g[u]
      BY <3>3 DEF AgreeBelow
    <3>5. AugmentBody(edges, f, s) = IF f[t].found THEN Takes(s, b, f[t].visited, f[t].match) ELSE f[u]
      BY <1>2, <2>3 DEF AugmentBody, Open, Takes, Again, Asks
    <3>6. AugmentBody(edges, g, s) = IF g[t].found THEN Takes(s, b, g[t].visited, g[t].match) ELSE g[Again(s, g[t])]
      BY <1>2, <2>3 DEF AugmentBody, Open, Takes, Again, Asks
    <3> QED
      BY <3>2, <3>4, <3>5, <3>6
  <2> QED
    BY <2>2, <2>3
<1> QED
  BY <1>1, <1>2

(* There is a function that answers the calls with fewer than n bases left *)
(* the way augment does.                                                   *)
Solves(edges, f, n) ==
  /\ f = [s \in AugmentCalls |-> f[s]] /\ TypedBelow(f, n)
  /\ \A s \in AugmentCalls : Rank(s.visited) < n => f[s] = AugmentBody(edges, f, s)

(* What solves the calls below n can be made to solve those at n.          *)
LEMMA SolvesOneMore ==
  ASSUME NEW edges, NEW n \in Nat, NEW f, Solves(edges, f, n)
  PROVE  \E g : Solves(edges, g, n + 1)
<1> DEFINE g == [s \in AugmentCalls |-> IF Rank(s.visited) < n THEN f[s] ELSE AugmentBody(edges, f, s)]
<1>1. \A s \in AugmentCalls : Rank(s.visited) \in Nat
  BY RankFalls DEF AugmentCalls
<1>2. AgreeBelow(f, g, n) /\ TypedBelow(f, n)
  BY DEF AgreeBelow, Solves
<1>3. ASSUME NEW s \in AugmentCalls, Rank(s.visited) < n + 1
      PROVE  g[s] = AugmentBody(edges, g, s) /\ Typed(s, g[s])
  <2>1. Rank(s.visited) \in Nat /\ Rank(s.visited) <= n
    BY <1>1, <1>3
  <2>2. TypedBelow(f, Rank(s.visited)) /\ AgreeBelow(f, g, Rank(s.visited))
    BY <1>1, <1>2, <2>1 DEF TypedBelow, AgreeBelow
  <2>3. AugmentBody(edges, f, s) = AugmentBody(edges, g, s) /\ Typed(s, AugmentBody(edges, f, s))
    <3> HIDE DEF g
    <3> QED
      BY <2>2, BodyAgrees, BodyTyped
  <2>4. g[s] = AugmentBody(edges, f, s)
    BY DEF Solves
  <2> QED
    BY <2>3, <2>4
<1>4. g = [s \in AugmentCalls |-> g[s]]
  OBVIOUS
<1> HIDE DEF g
<1>5. Solves(edges, g, n + 1)
  BY <1>3, <1>4 DEF Solves, TypedBelow
<1> QED
  BY <1>5

(* So one function solves them all: the recursion is well founded.         *)
LEMMA AugmentExists ==
  ASSUME NEW edges
  PROVE  \E f : f = [s \in AugmentCalls |-> AugmentBody(edges, f, s)]
<1> DEFINE T == {n \in Nat : ~\E f : Solves(edges, f, n)}
<1>1. \A s \in AugmentCalls : Rank(s.visited) \in Nat /\ Rank(s.visited) <= Cardinality(Bases)
  <2> SUFFICES ASSUME NEW s \in AugmentCalls
               PROVE  Rank(s.visited) \in Nat /\ Rank(s.visited) <= Cardinality(Bases)
    OBVIOUS
  <2>1. s.visited \subseteq Bases
    BY DEF AugmentCalls
  <2>2. Rank(s.visited) \in Nat
    BY <2>1, RankFalls
  <2>3. Cardinality(Bases \ s.visited) <= Cardinality(Bases)
    BY BGateAssumption, FS_Subset
  <2> QED
    BY <2>2, <2>3 DEF Rank
<1>2. T = {}
  <2> SUFFICES ASSUME T # {} PROVE FALSE
    OBVIOUS
  <2>1. PICK n \in T : \A y \in T : n <= y
    BY LeastNumber
  <2>2. n # 0
    <3> PICK f : f = [s \in AugmentCalls |-> 0]
      OBVIOUS
    <3>1. Solves(edges, f, 0)
      BY <1>1 DEF Solves, TypedBelow
    <3> QED
      BY <3>1
  <2>3. n - 1 \in Nat /\ n - 1 \notin T
    BY <2>1, <2>2
  <2>4. PICK f : Solves(edges, f, n - 1)
    BY <2>3
  <2>5. \E g : Solves(edges, g, (n - 1) + 1)
    BY <2>3, <2>4, SolvesOneMore
  <2>6. (n - 1) + 1 = n
    BY <2>1
  <2> QED
    BY <2>1, <2>5, <2>6
<1>3. Cardinality(Bases) \in Nat /\ Cardinality(Bases) + 1 \in Nat
  BY BGateAssumption, FS_CardinalityType
<1>4. PICK f : Solves(edges, f, Cardinality(Bases) + 1)
  BY <1>2, <1>3
<1>5. \A s \in AugmentCalls : f[s] = AugmentBody(edges, f, s)
  <2>1. \A s \in AugmentCalls : Rank(s.visited) < Cardinality(Bases) + 1
    BY <1>1, <1>3
  <2> QED
    BY <1>4, <2>1 DEF Solves
<1>6. f = [s \in AugmentCalls |-> f[s]]
  BY <1>4 DEF Solves
<1>7. f = [s \in AugmentCalls |-> AugmentBody(edges, f, s)]
  BY <1>5, <1>6
<1> QED
  BY <1>7

(* augment answers every call by its body, and its answers are typed.      *)
LEMMA AugmentIs ==
  ASSUME NEW edges, NEW s \in AugmentCalls
  PROVE  Augment(edges)[s] = AugmentBody(edges, Augment(edges), s) /\ Typed(s, Augment(edges)[s])
<1> DEFINE D(f) == f = [t \in AugmentCalls |-> AugmentBody(edges, f, t)]
           try == CHOOSE f : D(f)
<1>1. \E f : D(f)
  BY AugmentExists
<1>2. D(try)
  <2> HIDE DEF D
  <2> QED
    BY <1>1
<1>3. Augment(edges) = try
  BY DEF Augment
<1> HIDE DEF try
<1>4. \A t \in AugmentCalls : try[t] = AugmentBody(edges, try, t)
  BY <1>2
<1> HIDE DEF D
<1> DEFINE T == {n \in Nat : \E t \in AugmentCalls : Rank(t.visited) = n /\ ~Typed(t, try[t])}
<1>5. \A t \in AugmentCalls : Rank(t.visited) \in Nat
  BY RankFalls DEF AugmentCalls
<1>6. T = {}
  <2> SUFFICES ASSUME T # {} PROVE FALSE
    OBVIOUS
  <2>1. PICK n \in T : \A y \in T : n <= y
    BY LeastNumber
  <2>2. PICK t \in AugmentCalls : Rank(t.visited) = n /\ ~Typed(t, try[t])
    BY <2>1
  <2>3. TypedBelow(try, n)
    <3> SUFFICES ASSUME NEW u \in AugmentCalls, Rank(u.visited) < n PROVE Typed(u, try[u])
      BY DEF TypedBelow
    <3>1. Rank(u.visited) \in Nat /\ Rank(u.visited) \notin T
      BY <1>5, <2>1
    <3> QED
      BY <3>1
  <2>4. Typed(t, AugmentBody(edges, try, t))
    BY <2>2, <2>3, BodyTyped
  <2> QED
    BY <1>4, <2>2, <2>4
<1>7. Typed(s, try[s])
  BY <1>5, <1>6
<1> QED
  BY <1>3, <1>4, <1>7

-----------------------------------------------------------------------------
(* What augment answers.                                                   *)

BasesOf(edges, l) == {b \in Bases : <<l, b>> \in edges}
Held(m) == {m[b] : b \in Bases} \ {0}
(* A matching: along edges, and no layer holds two bases.                  *)
IsMatch(edges, m) ==
  /\ m \in Matches
  /\ \A b \in Bases : m[b] # 0 => <<m[b], b>> \in edges
  /\ \A b, c \in Bases : m[b] = m[c] /\ m[b] # 0 => b = c

(* A call on behalf of l: a matching where l holds only visited bases.     *)
CallOk(edges, l, v, m) ==
  /\ l \in OutcomeLayer /\ v \subseteq Bases /\ IsMatch(edges, m)
  /\ \A b \in Bases : m[b] = l => b \in v

(* Found: k has one new basis c for layer l outside v, what was visited    *)
(* before is as it was, and a layer holds two bases only if it is l.       *)
FoundAt(edges, l, v, m, k, c) ==
  /\ k \in Matches /\ c \in Bases \ v /\ k[c] = l
  /\ \A b \in Bases : k[b] # 0 => <<k[b], b>> \in edges
  /\ \A b \in v : k[b] = m[b]
  /\ \A b \in Bases \ v : k[b] = l => b = c
  /\ \A b, d \in Bases : k[b] = k[d] /\ k[b] # 0 /\ b # d => k[b] = l
  /\ \A b \in Bases : m[b] # 0 => \E d \in Bases : k[d] = m[b]
  /\ \A b \in Bases : k[b] # 0 /\ k[b] # l => \E d \in Bases : m[d] = k[b]
Found(edges, l, v, m, k) == \E c \in Bases : FoundAt(edges, l, v, m, k, c)

(* Stuck: every basis of l was visited, and the layer of each basis it     *)
(* visited has all its bases among the visited.                            *)
Stuck(edges, l, v, m, w) ==
  /\ v \subseteq w /\ w \subseteq Bases /\ BasesOf(edges, l) \subseteq w
  /\ \A b \in w \ v : m[b] # 0 /\ BasesOf(edges, m[b]) \subseteq w
Answers(edges, s, r) ==
  \/ r.found /\ Found(edges, s.layer, s.visited, s.match, r.match)
  \/ ~r.found /\ r.match = s.match /\ Stuck(edges, s.layer, s.visited, s.match, r.visited)

(* The next basis is free: l takes it.                                     *)
LEMMA FreeBasisFound ==
  ASSUME NEW edges, NEW l, NEW v, NEW m, CallOk(edges, l, v, m), NEW b \in BasesOf(edges, l) \ v, m[b] = 0,
         NEW k, k = [m EXCEPT ![b] = l]
  PROVE  Found(edges, l, v, m, k)
<1>1. /\ l \in OutcomeLayer /\ l # 0 /\ v \subseteq Bases /\ m \in [Bases -> OutcomeLayer \cup {0}]
      /\ b \in Bases /\ b \notin v /\ <<l, b>> \in edges
  BY LayersAreNotZero DEF CallOk, IsMatch, Matches, BasesOf
<1>2. /\ k \in [Bases -> OutcomeLayer \cup {0}] /\ k[b] = l
      /\ \A c \in Bases : c # b => k[c] = m[c]
  BY <1>1
<1>3. \A c \in Bases : k[c] # 0 => <<k[c], c>> \in edges
  BY <1>1, <1>2 DEF CallOk, IsMatch
<1>4. \A c \in v : k[c] = m[c]
  BY <1>1, <1>2
<1>5. \A c \in Bases \ v : k[c] = l => c = b
  BY <1>2 DEF CallOk
<1>6. \A c, d \in Bases : k[c] = k[d] /\ k[c] # 0 /\ c # d => k[c] = l
  BY <1>2 DEF CallOk, IsMatch
<1>7. \A c \in Bases : m[c] # 0 => \E d \in Bases : k[d] = m[c]
  BY <1>2
<1>8. \A c \in Bases : k[c] # 0 /\ k[c] # l => \E d \in Bases : m[d] = k[c]
  BY <1>2
<1>9. FoundAt(edges, l, v, m, k, b)
  BY <1>1, <1>2, <1>3, <1>4, <1>5, <1>6, <1>7, <1>8 DEF FoundAt, Matches
<1> QED
  BY <1>1, <1>9 DEF Found

(* The layer that holds the next basis may ask on its own behalf.          *)
LEMMA AskedIsOk ==
  ASSUME NEW edges, NEW l, NEW v, NEW m, CallOk(edges, l, v, m), NEW b \in BasesOf(edges, l) \ v, m[b] # 0
  PROVE  CallOk(edges, m[b], v \cup {b}, m) /\ m[b] # l
<1>1. b \in Bases /\ b \notin v /\ v \cup {b} \subseteq Bases
  BY DEF BasesOf, CallOk
<1>2. m[b] \in OutcomeLayer
  BY <1>1 DEF CallOk, IsMatch, Matches
<1>3. \A c \in Bases : m[c] = m[b] => c \in v \cup {b}
  BY <1>1 DEF CallOk, IsMatch
<1>4. m[b] # l
  BY <1>1 DEF CallOk
<1> QED
  BY <1>1, <1>2, <1>3, <1>4 DEF CallOk

(* The layer that held b found c: l takes b.                               *)
LEMMA MovedFound ==
  ASSUME NEW edges, NEW l, NEW v, NEW m, CallOk(edges, l, v, m), NEW b \in BasesOf(edges, l) \ v, m[b] # 0,
         NEW n, Found(edges, m[b], v \cup {b}, m, n), NEW k, k = [n EXCEPT ![b] = l]
  PROVE  Found(edges, l, v, m, k)
<1> PICK x : x = m[b]
  OBVIOUS
<1>1. PICK c \in Bases : FoundAt(edges, x, v \cup {b}, m, n, c)
  BY DEF Found
<1>2. /\ l \in OutcomeLayer /\ l # 0 /\ v \subseteq Bases /\ m \in [Bases -> OutcomeLayer \cup {0}]
      /\ b \in Bases /\ b \notin v /\ <<l, b>> \in edges /\ x # l /\ x # 0
  BY LayersAreNotZero, AskedIsOk DEF CallOk, IsMatch, Matches, BasesOf
<1>3. /\ n \in [Bases -> OutcomeLayer \cup {0}] /\ c # b /\ c \notin v /\ n[c] = x /\ n[b] = x
      /\ \A d \in v : n[d] = m[d]
  BY <1>1, <1>2 DEF FoundAt, Matches
<1>4. /\ k \in [Bases -> OutcomeLayer \cup {0}] /\ k[b] = l
      /\ \A d \in Bases : d # b => k[d] = n[d]
  BY <1>2, <1>3
<1>5. \A d \in Bases : k[d] # 0 => <<k[d], d>> \in edges
  BY <1>1, <1>2, <1>4 DEF FoundAt
<1>6. \A d \in v : k[d] = m[d]
  BY <1>2, <1>3, <1>4
<1>7. ASSUME NEW d \in Bases \ v, k[d] = l
      PROVE  d = b
  <2> SUFFICES ASSUME d # b PROVE FALSE
    OBVIOUS
  <2>1. n[d] = l
    BY <1>4, <1>7
  <2>2. PICK e \in Bases : m[e] = l
    BY <1>1, <1>2, <2>1 DEF FoundAt
  <2>3. e \in v
    BY <2>2 DEF CallOk
  <2>4. n[e] = l /\ e # d
    BY <1>3, <2>2, <2>3
  <2> QED
    BY <1>1, <1>2, <2>1, <2>4 DEF FoundAt
<1>8. ASSUME NEW d \in Bases, NEW e \in Bases, k[d] = k[e], k[d] # 0, d # e
      PROVE  k[d] = l
  <2> SUFFICES ASSUME d # b, e # b PROVE FALSE
    BY <1>4, <1>8
  <2>1. n[d] = n[e] /\ n[d] # 0
    BY <1>4, <1>8
  <2>2. n[d] = x /\ n[e] = x
    BY <1>1, <1>8, <2>1 DEF FoundAt
  <2>3. d \notin v /\ e \notin v
    BY <1>2, <1>3, <2>2 DEF CallOk, IsMatch
  <2>4. d = c /\ e = c
    BY <1>1, <2>2, <2>3 DEF FoundAt
  <2> QED
    BY <1>8, <2>4
<1>9. ASSUME NEW d \in Bases, m[d] # 0
      PROVE  \E e \in Bases : k[e] = m[d]
  <2>1. CASE m[d] = x
    BY <1>3, <1>4, <2>1
  <2>2. CASE m[d] # x
    <3>1. PICK e \in Bases : n[e] = m[d]
      BY <1>1, <1>9 DEF FoundAt
    <3>2. e # b
      BY <1>3, <2>2, <3>1
    <3> QED
      BY <1>4, <3>1, <3>2
  <2> QED
    BY <2>1, <2>2
<1>10. ASSUME NEW d \in Bases, k[d] # 0, k[d] # l
       PROVE  \E e \in Bases : m[e] = k[d]
  <2>1. d # b /\ k[d] = n[d]
    BY <1>4, <1>10
  <2>2. CASE n[d] = x
    BY <1>2, <2>1, <2>2
  <2>3. CASE n[d] # x
    BY <1>1, <1>10, <2>1, <2>3 DEF FoundAt
  <2> QED
    BY <2>2, <2>3
<1>11. FoundAt(edges, l, v, m, k, b)
  BY <1>2, <1>4, <1>5, <1>6, <1>7, <1>8, <1>9, <1>10 DEF FoundAt, Matches
<1> QED
  BY <1>2, <1>11 DEF Found

(* The layer that held b is stuck: l goes on with what was visited.        *)
LEMMA AgainIsOk ==
  ASSUME NEW edges, NEW l, NEW v, NEW m, CallOk(edges, l, v, m), NEW w, v \subseteq w, w \subseteq Bases
  PROVE  CallOk(edges, l, w, m)
BY DEF CallOk

(* What l finds after that, it has found from the beginning.               *)
LEMMA AgainFound ==
  ASSUME NEW edges, NEW l, NEW v, NEW m, CallOk(edges, l, v, m), NEW w, v \subseteq w, w \subseteq Bases,
         NEW k, Found(edges, l, w, m, k)
  PROVE  Found(edges, l, v, m, k)
<1>1. PICK c \in Bases : FoundAt(edges, l, w, m, k, c)
  BY DEF Found
<1>2. \A b \in Bases \ v : k[b] = l => b = c
  BY <1>1 DEF FoundAt, CallOk
<1>3. c \notin v /\ \A b \in v : k[b] = m[b]
  BY <1>1 DEF FoundAt
<1>4. FoundAt(edges, l, v, m, k, c)
  BY <1>1, <1>2, <1>3 DEF FoundAt
<1> QED
  BY <1>4 DEF Found

(* And when it is stuck after that, it is stuck from the beginning.        *)
LEMMA AgainStuck ==
  ASSUME NEW edges, NEW l, NEW v, NEW m, NEW b \in BasesOf(edges, l) \ v, m[b] # 0,
         NEW w, Stuck(edges, m[b], v \cup {b}, m, w), NEW z, Stuck(edges, l, w, m, z)
  PROVE  Stuck(edges, l, v, m, z)
<1>1. v \subseteq z /\ z \subseteq Bases /\ BasesOf(edges, l) \subseteq z /\ w \subseteq z
  BY DEF Stuck
<1>2. ASSUME NEW c \in z \ v
      PROVE  m[c] # 0 /\ BasesOf(edges, m[c]) \subseteq z
  <2>1. CASE c \in z \ w
    BY <2>1 DEF Stuck
  <2>2. CASE c = b
    BY <2>2, <1>1 DEF Stuck
  <2>3. CASE c \in w \ (v \cup {b})
    BY <2>3, <1>1 DEF Stuck
  <2> QED
    BY <2>1, <2>2, <2>3
<1> QED
  BY <1>1, <1>2 DEF Stuck

(* The calls with fewer than n bases left are answered right.              *)
CallIsOk(edges, s) == CallOk(edges, s.layer, s.visited, s.match)
AnswersBelow(edges, f, n) ==
  \A t \in AugmentCalls : Rank(t.visited) < n /\ CallIsOk(edges, t) => Answers(edges, t, f[t])

(* Right answers to smaller calls give a right answer.                     *)
LEMMA BodyAnswers ==
  ASSUME NEW edges, NEW f, NEW s \in AugmentCalls, CallIsOk(edges, s),
         AnswersBelow(edges, f, Rank(s.visited)), \A t \in AugmentCalls : Typed(t, f[t])
  PROVE  Answers(edges, s, AugmentBody(edges, f, s))
<1> PICK r : r = AugmentBody(edges, f, s)
  OBVIOUS
<1> PICK l : l = s.layer
  OBVIOUS
<1> PICK v : v = s.visited
  OBVIOUS
<1> PICK m : m = s.match
  OBVIOUS
<1>1. IsAugment(edges, f, s, r)
  BY BodyIs
<1>2. CallOk(edges, l, v, m) /\ Open(edges, s) = BasesOf(edges, l) \ v
  BY DEF CallIsOk, Open, BasesOf
<1>3. ASSUME Open(edges, s) = {}, r = GivesUp(s)
      PROVE  Answers(edges, s, r)
  <2>1. r.found = FALSE /\ r.visited = v /\ r.match = m
    BY <1>3 DEF GivesUp
  <2>2. Stuck(edges, l, v, m, v)
    BY <1>2, <1>3 DEF Stuck, CallOk
  <2> QED
    BY <2>1, <2>2 DEF Answers
<1>4. ASSUME NEW b \in Open(edges, s), s.match[b] = 0, r = Takes(s, b, s.visited \cup {b}, s.match)
      PROVE  Answers(edges, s, r)
  <2>1. r.found = TRUE /\ r.match = [m EXCEPT ![b] = l]
    BY <1>4 DEF Takes
  <2>2. Found(edges, l, v, m, r.match)
    BY <1>2, <1>4, <2>1, FreeBasisFound
  <2> QED
    BY <2>1, <2>2 DEF Answers
<1>5. ASSUME NEW b \in Open(edges, s), s.match[b] # 0
      PROVE  Answers(edges, Asks(s, b), f[Asks(s, b)]) /\ Typed(Asks(s, b), f[Asks(s, b)])
  <2> PICK t : t = Asks(s, b)
    OBVIOUS
  <2>1. /\ t \in AugmentCalls /\ Rank(t.visited) < Rank(s.visited)
        /\ t.visited = v \cup {b} /\ t.match = m /\ t.layer = m[b]
    BY <1>5, AsksIsCall
  <2>2. CallOk(edges, m[b], v \cup {b}, m)
    BY <1>2, <1>5, AskedIsOk
  <2>3. CallIsOk(edges, t)
    BY <2>1, <2>2 DEF CallIsOk
  <2> QED
    BY <2>1, <2>3 DEF AnswersBelow
<1>6. ASSUME NEW b \in Open(edges, s), s.match[b] # 0, f[Asks(s, b)].found,
             r = Takes(s, b, f[Asks(s, b)].visited, f[Asks(s, b)].match)
      PROVE  Answers(edges, s, r)
  <2> PICK q : q = f[Asks(s, b)]
    OBVIOUS
  <2>1. Asks(s, b).layer = m[b] /\ Asks(s, b).visited = v \cup {b} /\ Asks(s, b).match = m
    BY DEF Asks
  <2>2. Found(edges, m[b], v \cup {b}, m, q.match)
    BY <1>5, <1>6, <2>1 DEF Answers
  <2>3. r.found = TRUE /\ r.match = [q.match EXCEPT ![b] = l]
    BY <1>6 DEF Takes
  <2>4. Found(edges, l, v, m, r.match)
    BY <1>2, <1>6, <2>2, <2>3, MovedFound
  <2> QED
    BY <2>3, <2>4 DEF Answers
<1>7. ASSUME NEW b \in Open(edges, s), s.match[b] # 0, ~f[Asks(s, b)].found,
             r = f[Again(s, f[Asks(s, b)])]
      PROVE  Answers(edges, s, r)
  <2> PICK q : q = f[Asks(s, b)]
    OBVIOUS
  <2> PICK u : u = Again(s, q)
    OBVIOUS
  <2> PICK w : w = q.visited
    OBVIOUS
  <2>1. Asks(s, b).layer = m[b] /\ Asks(s, b).visited = v \cup {b} /\ Asks(s, b).match = m
    BY DEF Asks
  <2>2. q.match = m /\ Stuck(edges, m[b], v \cup {b}, m, w)
    BY <1>5, <1>7, <2>1 DEF Answers
  <2>3. v \subseteq w /\ w \subseteq Bases
    BY <2>2 DEF Stuck
  <2>4. /\ u \in AugmentCalls /\ Rank(u.visited) < Rank(s.visited)
        /\ u.visited = w /\ u.match = m /\ u.layer = l
    BY <1>5, <1>7, <2>2, AgainIsCall
  <2>5. CallIsOk(edges, u)
    BY <1>2, <2>3, <2>4, AgainIsOk DEF CallIsOk
  <2>6. Answers(edges, u, r)
    BY <1>7, <2>4, <2>5 DEF AnswersBelow
  <2>7. CASE r.found /\ Found(edges, l, w, m, r.match)
    <3>1. Found(edges, l, v, m, r.match)
      BY <1>2, <2>3, <2>7, AgainFound
    <3> QED
      BY <2>7, <3>1 DEF Answers
  <2>8. CASE ~r.found /\ r.match = m /\ Stuck(edges, l, w, m, r.visited)
    <3>1. Stuck(edges, l, v, m, r.visited)
      BY <1>2, <1>7, <2>2, <2>8, AgainStuck
    <3> QED
      BY <2>8, <3>1 DEF Answers
  <2> QED
    BY <2>4, <2>6, <2>7, <2>8 DEF Answers
<1> QED
  BY <1>1, <1>3, <1>4, <1>6, <1>7 DEF IsAugment

(* augment finds the layer a basis, moving others, or is stuck.            *)
LEMMA AugmentAnswers ==
  ASSUME NEW edges, NEW s \in AugmentCalls, CallIsOk(edges, s)
  PROVE  Answers(edges, s, Augment(edges)[s])
<1> PICK f : f = Augment(edges)
  OBVIOUS
<1>1. \A t \in AugmentCalls : f[t] = AugmentBody(edges, f, t) /\ Typed(t, f[t])
  BY AugmentIs
<1> DEFINE T == {n \in Nat : \E t \in AugmentCalls :
                   Rank(t.visited) = n /\ CallIsOk(edges, t) /\ ~Answers(edges, t, f[t])}
<1>2. \A t \in AugmentCalls : Rank(t.visited) \in Nat
  BY RankFalls DEF AugmentCalls
<1>3. T = {}
  <2> SUFFICES ASSUME T # {} PROVE FALSE
    OBVIOUS
  <2>1. PICK n \in T : \A y \in T : n <= y
    BY LeastNumber
  <2>2. PICK t \in AugmentCalls : Rank(t.visited) = n /\ CallIsOk(edges, t) /\ ~Answers(edges, t, f[t])
    BY <2>1
  <2>3. AnswersBelow(edges, f, n)
    <3> SUFFICES ASSUME NEW u \in AugmentCalls, Rank(u.visited) < n, CallIsOk(edges, u)
                 PROVE  Answers(edges, u, f[u])
      BY DEF AnswersBelow
    <3>1. Rank(u.visited) \in Nat /\ Rank(u.visited) \notin T
      BY <1>2, <2>1
    <3> QED
      BY <3>1
  <2>4. Answers(edges, t, AugmentBody(edges, f, t))
    BY <1>1, <2>2, <2>3, BodyAnswers
  <2> QED
    BY <1>1, <2>2, <2>4
<1> QED
  BY <1>2, <1>3

-----------------------------------------------------------------------------
(* The matching is maximum: after the first l layers there are layers A    *)
(* and bases B, no more of them than layers matched, that touch every edge *)
(* of those layers.                                                        *)

Touches(edges, l, A, B) ==
  /\ A \subseteq 1..l /\ B \subseteq Bases
  /\ \A x \in 1..l : \A b \in BasesOf(edges, x) : x \in A \/ b \in B
IsMaximum(edges, l, m) ==
  \E A, B : Touches(edges, l, A, B) /\ Cardinality(A) + Cardinality(B) <= Cardinality(Held(m))
MatchedThrough(edges, l, m) == IsMatch(edges, m) /\ Held(m) \subseteq 1..l /\ IsMaximum(edges, l, m)

(* The sets a matching is made of are finite.                              *)
LEMMA SomeSets ==
  ASSUME NEW l \in Nat, NEW A, A \subseteq 1..l, NEW B, B \subseteq Bases
  PROVE  /\ IsFiniteSet(A) /\ Cardinality(A) \in Nat
         /\ IsFiniteSet(B) /\ Cardinality(B) \in Nat
<1>1. IsFiniteSet(A)
  <2>1. IsFiniteSet(1..l)
    BY FS_Interval
  <2> QED
    BY <2>1, FS_Subset
<1>2. IsFiniteSet(B)
  BY BGateAssumption, FS_Subset
<1> QED
  BY <1>1, <1>2, FS_CardinalityType

(* augment found a basis for layer l: the layer itself touches its edges.  *)
LEMMA FoundIsMaximum ==
  ASSUME NEW edges, NEW l \in OutcomeLayer, NEW m, MatchedThrough(edges, l - 1, m),
         NEW k, Found(edges, l, {}, m, k)
  PROVE  MatchedThrough(edges, l, k)
<1>1. PICK c \in Bases : FoundAt(edges, l, {}, m, k, c)
  BY DEF Found
<1>2. l \in Nat /\ l - 1 \in Nat /\ l # 0 /\ 1..(l - 1) \subseteq 1..l /\ l \notin 1..(l - 1) /\ l \in 1..l
  BY DEF OutcomeLayer
<1>3. IsMatch(edges, k)
  <2>1. ASSUME NEW b \in Bases, NEW d \in Bases, k[b] = k[d], k[b] # 0
        PROVE  b = d
    <3>1. b # d => k[b] = l
      BY <1>1, <2>1 DEF FoundAt
    <3>2. k[b] = l => b = c /\ d = c
      BY <1>1, <2>1 DEF FoundAt
    <3> QED
      BY <3>1, <3>2
  <2> QED
    BY <1>1, <2>1 DEF FoundAt, IsMatch
<1>4. Held(k) = Held(m) \cup {l}
  <2>1. ASSUME NEW x \in Held(k) PROVE x \in Held(m) \cup {l}
    BY <1>1, <2>1 DEF FoundAt, Held
  <2>2. ASSUME NEW x \in Held(m) PROVE x \in Held(k)
    BY <1>1, <2>2 DEF FoundAt, Held
  <2>3. l \in Held(k)
    BY <1>1, <1>2 DEF FoundAt, Held
  <2> QED
    BY <2>1, <2>2, <2>3
<1>5. Held(m) \subseteq 1..(l - 1) /\ l \notin Held(m) /\ Held(k) \subseteq 1..l
  BY <1>2, <1>4 DEF MatchedThrough
<1>6. IsFiniteSet(Held(m)) /\ Cardinality(Held(m)) \in Nat
  BY <1>2, <1>5, SomeSets
<1>7. Cardinality(Held(k)) = Cardinality(Held(m)) + 1
  BY <1>4, <1>5, <1>6, FS_AddElement
<1>8. PICK A, B : Touches(edges, l - 1, A, B) /\ Cardinality(A) + Cardinality(B) <= Cardinality(Held(m))
  BY DEF MatchedThrough, IsMaximum
<1>9. A \subseteq 1..(l - 1) /\ B \subseteq Bases
  BY <1>8 DEF Touches
<1>10. IsFiniteSet(A) /\ Cardinality(A) \in Nat /\ Cardinality(B) \in Nat
  BY <1>2, <1>9, SomeSets
<1>11. Cardinality(A \cup {l}) = Cardinality(A) + 1
  BY <1>2, <1>9, <1>10, FS_AddElement
<1>12. Touches(edges, l, A \cup {l}, B)
  <2>1. \A x \in 1..l : x = l \/ x \in 1..(l - 1)
    BY <1>2
  <2> QED
    BY <1>2, <1>8, <2>1 DEF Touches
<1>13. Cardinality(A \cup {l}) + Cardinality(B) <= Cardinality(Held(k))
  BY <1>6, <1>7, <1>8, <1>10, <1>11
<1>14. IsMaximum(edges, l, k)
  BY <1>12, <1>13 DEF IsMaximum
<1> QED
  BY <1>3, <1>5, <1>14 DEF MatchedThrough

(* augment is stuck with the bases w: they take the place of the layers    *)
(* that hold them.                                                         *)
LEMMA StuckIsMaximum ==
  ASSUME NEW edges, NEW l \in OutcomeLayer, NEW m, MatchedThrough(edges, l - 1, m),
         NEW w, Stuck(edges, l, {}, m, w)
  PROVE  MatchedThrough(edges, l, m)
<1>1. l \in Nat /\ l - 1 \in Nat /\ l # 0 /\ 1..(l - 1) \subseteq 1..l /\ l \notin 1..(l - 1)
  BY DEF OutcomeLayer
<1>2. PICK A, B : Touches(edges, l - 1, A, B) /\ Cardinality(A) + Cardinality(B) <= Cardinality(Held(m))
  BY DEF MatchedThrough, IsMaximum
<1>3. A \subseteq 1..(l - 1) /\ B \subseteq Bases /\ IsMatch(edges, m) /\ Held(m) \subseteq 1..(l - 1)
  BY <1>2 DEF Touches, MatchedThrough
<1>4. /\ w \subseteq Bases /\ BasesOf(edges, l) \subseteq w
      /\ \A b \in w : m[b] # 0 /\ BasesOf(edges, m[b]) \subseteq w
  BY DEF Stuck
<1> PICK R : R = {m[b] : b \in w} \cup {l}
  OBVIOUS
<1> PICK C : C = A \cap R
  OBVIOUS
<1> PICK D : D = w \ B
  OBVIOUS
<1>5. \A x \in R : BasesOf(edges, x) \subseteq w
  BY <1>4
<1>6. Touches(edges, l, A \ R, B \cup w)
  <2>1. ASSUME NEW x \in 1..l, NEW b \in BasesOf(edges, x)
        PROVE  x \in A \ R \/ b \in B \cup w
    <3>1. CASE x \in R
      BY <1>5, <3>1
    <3>2. CASE x \notin R
      <4>1. x \in 1..(l - 1)
        BY <1>1, <3>2
      <4> QED
        BY <1>2, <3>2, <4>1 DEF Touches
    <3> QED
      BY <3>1, <3>2
  <2> QED
    BY <1>1, <1>3, <1>4, <2>1 DEF Touches
<1>7. /\ IsFiniteSet(A) /\ Cardinality(A) \in Nat /\ IsFiniteSet(B) /\ Cardinality(B) \in Nat
      /\ IsFiniteSet(C) /\ Cardinality(C) \in Nat /\ IsFiniteSet(D) /\ Cardinality(D) \in Nat
      /\ IsFiniteSet(Held(m)) /\ Cardinality(Held(m)) \in Nat
  <2>1. C \subseteq 1..(l - 1) /\ D \subseteq Bases
    BY <1>3, <1>4
  <2> QED
    BY <1>1, <1>3, <2>1, SomeSets
<1>8. Cardinality(D) <= Cardinality(C)
  <2> PICK h : h = [b \in D |-> m[b]]
    OBVIOUS
  <2>1. ASSUME NEW b \in D PROVE m[b] \in C
    <3>1. b \in Bases /\ b \in w /\ b \notin B /\ m[b] # 0
      BY <1>4
    <3>2. b \in BasesOf(edges, m[b])
      BY <1>3, <3>1 DEF IsMatch, BasesOf
    <3>3. m[b] \in 1..(l - 1)
      BY <1>3, <3>1 DEF Held
    <3>4. m[b] \in A
      BY <1>2, <3>1, <3>2, <3>3 DEF Touches
    <3> QED
      BY <3>1, <3>4
  <2>2. h \in Injection(D, C)
    <3>1. h \in [D -> C]
      BY <2>1
    <3>2. \A b, c \in D : h[b] = h[c] => b = c
      BY <1>3, <1>4 DEF IsMatch
    <3> QED
      BY <3>1, <3>2 DEF Injection, IsInjective
  <2> QED
    BY <1>7, <2>2, FS_Injection
<1>9. Cardinality(A \ R) = Cardinality(A) - Cardinality(C)
  BY <1>7, FS_Difference
<1>10. Cardinality(B \cup w) = Cardinality(B) + Cardinality(D)
  <2>1. B \cup w = B \cup D /\ B \cap D = {}
    OBVIOUS
  <2>2. Cardinality(B \cup D) = Cardinality(B) + Cardinality(D) - Cardinality(B \cap D)
    BY <1>7, FS_Union
  <2>3. Cardinality(B \cap D) = 0
    BY <2>1, FS_EmptySet
  <2>4. Cardinality(B \cup D) = Cardinality(B) + Cardinality(D)
    BY <1>7, <2>2, <2>3
  <2> QED
    BY <2>1, <2>4
<1>11. Cardinality(A \ R) + Cardinality(B \cup w) <= Cardinality(Held(m))
  BY <1>2, <1>7, <1>8, <1>9, <1>10
<1>12. IsMaximum(edges, l, m)
  BY <1>6, <1>11 DEF IsMaximum
<1> QED
  BY <1>1, <1>3, <1>12 DEF MatchedThrough

(* One turn of _max_independent_layers keeps the matching maximum.         *)
LEMMA NextMatchIsMaximum ==
  ASSUME NEW edges, NEW l \in OutcomeLayer, NEW m, MatchedThrough(edges, l - 1, m)
  PROVE  MatchedThrough(edges, l, NextMatch(edges, m, l))
<1>1. CASE \E b \in Bases : <<l, b>> \in edges
  <2> PICK s : s = [layer |-> l, visited |-> {}, match |-> m]
    OBVIOUS
  <2> PICK r : r = Augment(edges)[s]
    OBVIOUS
  <2>1. s.layer = l /\ s.visited = {} /\ s.match = m /\ m \in Matches
    BY DEF MatchedThrough, IsMatch
  <2>2. s \in AugmentCalls
    BY <2>1 DEF AugmentCalls
  <2>3. \A b \in Bases : m[b] # l
    <3>1. l \notin Held(m) /\ l # 0
      BY DEF MatchedThrough, OutcomeLayer
    <3> QED
      BY <3>1 DEF Held
  <2>4. CallIsOk(edges, s)
    BY <2>1, <2>3 DEF CallIsOk, CallOk, MatchedThrough
  <2>5. Answers(edges, s, r)
    BY <2>2, <2>4, AugmentAnswers
  <2>6. NextMatch(edges, m, l) = r.match
    BY <1>1 DEF NextMatch
  <2>7. CASE Found(edges, l, {}, m, r.match)
    BY <2>6, <2>7, FoundIsMaximum
  <2>8. CASE r.match = m /\ Stuck(edges, l, {}, m, r.visited)
    BY <2>6, <2>8, StuckIsMaximum
  <2> QED
    BY <2>1, <2>5, <2>7, <2>8 DEF Answers
<1>2. CASE ~\E b \in Bases : <<l, b>> \in edges
  <2>1. NextMatch(edges, m, l) = m
    BY <1>2 DEF NextMatch
  <2>2. Stuck(edges, l, {}, m, {})
    BY <1>2 DEF Stuck, BasesOf
  <2> QED
    BY <2>1, <2>2, StuckIsMaximum
<1> QED
  BY <1>1, <1>2

(* The matching after each layer; there are five.                          *)
MatchesOf(edges, f) ==
  f = [l \in {0} \cup OutcomeLayer |-> IF l = 0 THEN [b \in Bases |-> 0] ELSE NextMatch(edges, f[l - 1], l)]

(* The recursion over the layers has a solution.                           *)
LEMMA MatchesExist ==
  ASSUME NEW edges
  PROVE  \E f : MatchesOf(edges, f)
<1> PICK m0 : m0 = [b \in Bases |-> 0]
  OBVIOUS
<1> PICK m1 : m1 = NextMatch(edges, m0, 1)
  OBVIOUS
<1> PICK m2 : m2 = NextMatch(edges, m1, 2)
  OBVIOUS
<1> PICK m3 : m3 = NextMatch(edges, m2, 3)
  OBVIOUS
<1> PICK m4 : m4 = NextMatch(edges, m3, 4)
  OBVIOUS
<1> PICK m5 : m5 = NextMatch(edges, m4, 5)
  OBVIOUS
<1> PICK f : f = [l \in {0} \cup OutcomeLayer |->
                    IF l = 0 THEN m0 ELSE IF l = 1 THEN m1 ELSE IF l = 2 THEN m2
                    ELSE IF l = 3 THEN m3 ELSE IF l = 4 THEN m4 ELSE m5]
  OBVIOUS
<1>1. {0} \cup OutcomeLayer = {0, 1, 2, 3, 4, 5}
  BY DEF OutcomeLayer
<1>2. f[0] = m0 /\ f[1] = m1 /\ f[2] = m2 /\ f[3] = m3 /\ f[4] = m4 /\ f[5] = m5
  BY <1>1
<1>3. \A l \in {0, 1, 2, 3, 4, 5} :
        f[l] = IF l = 0 THEN [b \in Bases |-> 0] ELSE NextMatch(edges, f[l - 1], l)
  <2> SUFFICES ASSUME NEW l \in {0, 1, 2, 3, 4, 5}, l # 0 PROVE f[l] = NextMatch(edges, f[l - 1], l)
    BY <1>2
  <2>1. /\ l = 1 => l - 1 = 0
        /\ l = 2 => l - 1 = 1
        /\ l = 3 => l - 1 = 2
        /\ l = 4 => l - 1 = 3
        /\ l = 5 => l - 1 = 4
    OBVIOUS
  <2> QED
    BY <1>2, <2>1
<1>4. f = [l \in {0, 1, 2, 3, 4, 5} |-> f[l]]
  BY <1>1
<1>5. MatchesOf(edges, f)
  BY <1>1, <1>3, <1>4 DEF MatchesOf
<1> QED
  BY <1>5

(* _max_independent_layers returns the layers of a maximum matching.       *)
LEMMA LayersAreOfAMaximum ==
  ASSUME NEW edges
  PROVE  \E m : MatchedThrough(edges, 5, m) /\ MaxIndependentLayers(edges) = Held(m)
<1> DEFINE f == CHOOSE g : MatchesOf(edges, g)
<1>1. MatchesOf(edges, f)
  BY MatchesExist
<1>2. MaxIndependentLayers(edges) = {f[5][b] : b \in Bases} \ {0}
  BY DEF MaxIndependentLayers, MatchesOf
<1> HIDE DEF f
<1>3. {0} \cup OutcomeLayer = {0, 1, 2, 3, 4, 5}
  BY DEF OutcomeLayer
<1>4. f[0] = [b \in Bases |-> 0]
  BY <1>1 DEF MatchesOf
<1>5. ASSUME NEW l \in OutcomeLayer PROVE f[l] = NextMatch(edges, f[l - 1], l)
  BY <1>1, LayersAreNotZero DEF MatchesOf
<1>6. MatchedThrough(edges, 0, f[0])
  <2>1. IsMatch(edges, f[0])
    BY <1>4 DEF IsMatch, Matches
  <2>2. Held(f[0]) = {}
    BY <1>4 DEF Held
  <2>3. Touches(edges, 0, {}, {})
    BY DEF Touches
  <2>4. Cardinality({}) = 0
    BY FS_EmptySet
  <2>5. Cardinality({}) + Cardinality({}) <= Cardinality(Held(f[0]))
    BY <2>2, <2>4
  <2>6. IsMaximum(edges, 0, f[0])
    BY <2>3, <2>5 DEF IsMaximum
  <2> QED
    BY <2>1, <2>2, <2>6 DEF MatchedThrough
<1>7. ASSUME NEW l \in OutcomeLayer, MatchedThrough(edges, l - 1, f[l - 1])
      PROVE  MatchedThrough(edges, l, f[l])
  BY <1>5, <1>7, NextMatchIsMaximum
<1>8. 1 \in OutcomeLayer /\ 2 \in OutcomeLayer /\ 3 \in OutcomeLayer /\ 4 \in OutcomeLayer /\ 5 \in OutcomeLayer
  BY DEF OutcomeLayer
<1>9. 1 - 1 = 0 /\ 2 - 1 = 1 /\ 3 - 1 = 2 /\ 4 - 1 = 3 /\ 5 - 1 = 4
  OBVIOUS
<1>10. MatchedThrough(edges, 1, f[1])
  BY <1>6, <1>7, <1>8, <1>9
<1>11. MatchedThrough(edges, 2, f[2])
  BY <1>10, <1>7, <1>8, <1>9
<1>12. MatchedThrough(edges, 3, f[3])
  BY <1>11, <1>7, <1>8, <1>9
<1>13. MatchedThrough(edges, 4, f[4])
  BY <1>12, <1>7, <1>8, <1>9
<1>14. MatchedThrough(edges, 5, f[5])
  BY <1>13, <1>7, <1>8, <1>9
<1> QED
  BY <1>2, <1>14 DEF Held

(* No set of edges without a layer or a basis in common is larger.         *)
Independently(m) == \A e, f \in m : e # f => e[1] # f[1] /\ e[2] # f[2]

LEMMA NoneIsLarger ==
  ASSUME NEW edges, edges \subseteq OutcomeLayer \X Bases, NEW m, MatchedThrough(edges, 5, m),
         NEW M, M \subseteq edges, Independently(M)
  PROVE  Cardinality(M) <= Cardinality(Held(m)) /\ Cardinality(M) \in Nat
<1>1. PICK A, B : Touches(edges, 5, A, B) /\ Cardinality(A) + Cardinality(B) <= Cardinality(Held(m))
  BY DEF MatchedThrough, IsMaximum
<1>2. /\ IsFiniteSet(A) /\ Cardinality(A) \in Nat /\ IsFiniteSet(B) /\ Cardinality(B) \in Nat
      /\ Cardinality(Held(m)) \in Nat
  <2>1. A \subseteq 1..5 /\ B \subseteq Bases /\ Held(m) \subseteq 1..5
    BY <1>1 DEF Touches, MatchedThrough
  <2> QED
    BY <2>1, SomeSets
<1> PICK L : L = {e \in M : e[1] \in A}
  OBVIOUS
<1> PICK K : K = {e \in M : e[2] \in B}
  OBVIOUS
<1>3. IsFiniteSet(L) /\ Cardinality(L) <= Cardinality(A)
  <2> PICK h : h = [e \in L |-> e[1]]
    OBVIOUS
  <2>1. h \in Injection(L, A)
    <3>1. h \in [L -> A] /\ \A e, f \in L : h[e] = h[f] => e = f
      BY DEF Independently
    <3> QED
      BY <3>1 DEF Injection, IsInjective
  <2> QED
    BY <1>2, <2>1, FS_Injection
<1>4. IsFiniteSet(K) /\ Cardinality(K) <= Cardinality(B)
  <2> PICK h : h = [e \in K |-> e[2]]
    OBVIOUS
  <2>1. h \in Injection(K, B)
    <3>1. h \in [K -> B] /\ \A e, f \in K : h[e] = h[f] => e = f
      BY DEF Independently
    <3> QED
      BY <3>1 DEF Injection, IsInjective
  <2> QED
    BY <1>2, <2>1, FS_Injection
<1>5. M = L \cup K
  <2>1. ASSUME NEW e \in M PROVE e \in L \cup K
    <3>1. e[1] \in 1..5 /\ e[2] \in Bases /\ e = <<e[1], e[2]>>
      BY <2>1 DEF OutcomeLayer
    <3>2. e[2] \in BasesOf(edges, e[1])
      BY <2>1, <3>1 DEF BasesOf
    <3> QED
      BY <1>1, <2>1, <3>1, <3>2 DEF Touches
  <2> QED
    BY <2>1
<1>6. IsFiniteSet(L \cup K) /\ Cardinality(L \cup K) = Cardinality(L) + Cardinality(K) - Cardinality(L \cap K)
  BY <1>3, <1>4, FS_Union
<1>7. /\ Cardinality(L) \in Nat /\ Cardinality(K) \in Nat /\ Cardinality(L \cap K) \in Nat
      /\ Cardinality(M) \in Nat
  <2>1. IsFiniteSet(L \cap K) /\ IsFiniteSet(M)
    BY <1>3, <1>5, <1>6, FS_Intersection
  <2> QED
    BY <1>3, <1>4, <2>1, FS_CardinalityType
<1>8. Cardinality(M) = Cardinality(L) + Cardinality(K) - Cardinality(L \cap K)
  BY <1>5, <1>6
<1> QED
  BY <1>1, <1>2, <1>3, <1>4, <1>7, <1>8

(* The edges of a matching are such a set, as large as its layers.         *)
LEMMA MatchIsIndependent ==
  ASSUME NEW edges, NEW m, IsMatch(edges, m), Held(m) \subseteq 1..5
  PROVE  \E M \in SUBSET edges : Independently(M) /\ Cardinality(M) = Cardinality(Held(m))
<1> PICK P : P = {b \in Bases : m[b] # 0}
  OBVIOUS
<1> PICK M : M = {<<m[b], b>> : b \in P}
  OBVIOUS
<1>1. M \subseteq edges
  BY DEF IsMatch
<1>2. Independently(M)
  <2> SUFFICES ASSUME NEW b \in P, NEW c \in P, <<m[b], b>> # <<m[c], c>> PROVE m[b] # m[c] /\ b # c
    BY DEF Independently
  <2>1. b # c
    OBVIOUS
  <2> QED
    BY <2>1 DEF IsMatch
<1>3. Cardinality(M) = Cardinality(Held(m))
  <2> PICK h : h = [e \in M |-> e[1]]
    OBVIOUS
  <2>1. h \in [M -> Held(m)]
    BY DEF Held
  <2>2. \A e, f \in M : h[e] = h[f] => e = f
    BY <1>2 DEF Independently
  <2>3. \A x \in Held(m) : \E e \in M : h[e] = x
    <3> SUFFICES ASSUME NEW x \in Held(m) PROVE \E e \in M : h[e] = x
      OBVIOUS
    <3>1. PICK b \in P : m[b] = x
      BY DEF Held
    <3>2. <<x, b>> \in M /\ h[<<x, b>>] = x
      BY <3>1
    <3> QED
      BY <3>2
  <2>4. IsFiniteSet(Held(m))
    BY SomeSets
  <2>5. h \in Injection(M, Held(m))
    <3>1. DOMAIN h = M
      BY <2>1, Zenon
    <3>2. IsInjective(h)
      BY <2>2, <3>1, Zenon DEF IsInjective
    <3> QED
      BY <2>1, <3>2, Zenon DEF Injection
  <2>6. h \in Surjection(M, Held(m))
    BY <2>1, <2>3 DEF Surjection
  <2> QED
    BY <2>4, <2>5, <2>6, FS_Injection
<1> QED
  BY <1>1, <1>2, <1>3

(* The number of layers the gate counts is the matching number.            *)
LEMMA LayersAreMaximal ==
  ASSUME NEW edges, edges \subseteq OutcomeLayer \X Bases
  PROVE  Cardinality(MaxIndependentLayers(edges)) = MatchingNumber(edges)
<1>1. PICK m : MatchedThrough(edges, 5, m) /\ MaxIndependentLayers(edges) = Held(m)
  BY LayersAreOfAMaximum
<1> PICK n : n = Cardinality(Held(m))
  OBVIOUS
<1> PICK S : S = {Cardinality(M) : M \in {M \in SUBSET edges : Independently(M)}}
  OBVIOUS
<1>2. n \in S
  BY <1>1, MatchIsIndependent DEF MatchedThrough
<1>3. \A k \in S : k <= n /\ k \in Nat
  BY <1>1, NoneIsLarger
<1>4. MatchingNumber(edges) = Max(S)
  BY DEF MatchingNumber, Independently
<1>5. \A x \in S : (\A y \in S : x >= y) => x = n
  BY <1>2, <1>3
<1>6. \E x \in S : \A y \in S : x >= y
  BY <1>2, <1>3
<1>7. Max(S) = n
  BY <1>5, <1>6 DEF Max
<1> QED
  BY <1>1, <1>4, <1>7

-----------------------------------------------------------------------------
(* What the gate makes of the signals.                                     *)

(* The edges _run_b_gate builds from the signals that qualify.             *)
EdgesOf(did) ==
  {<<did[n].layer, did[n].basis>> : n \in {m \in DOMAIN did : did[m].layer \in OutcomeLayer /\ Qualifies(did[m])}}

(* The gate counts the independent layers of these; two make a pass.       *)
LEMMA GateIs ==
  ASSUME NEW did, NEW raw, NEW upstream
  PROVE  LET g == DecideBVerdict(did, raw, upstream) IN
         /\ g.layers = MaxIndependentLayers(EdgesOf(did))
         /\ g.verdict = "pass" => Cardinality(g.layers) >= 2
<1> PICK edges : edges = EdgesOf(did)
  OBVIOUS
<1> PICK g : g = DecideBVerdict(did, raw, upstream)
  OBVIOUS
<1>1. edges = {<<did[n].layer, did[n].basis>> : n \in {m \in {k \in DOMAIN did : did[k].layer \in OutcomeLayer} : Qualifies(did[m])}}
  BY DEF EdgesOf
<1>2. g.layers = MaxIndependentLayers(edges)
  BY <1>1 DEF DecideBVerdict
<1>3. g.verdict = "pass" => Cardinality(g.layers) >= 2
  BY DEF DecideBVerdict
<1> QED
  BY <1>2, <1>3

(* A signal that qualifies has repeats in every cell, and enough.          *)
LEMMA SignalIs ==
  ASSUME NEW series, NEW end, NEW s, s = ComputeSignal(series, end), Qualifies(s), NEW name \in CellNames
  PROVE  Cardinality(InWindow(series.cells[name], end)) > 0
         /\ (series.cells[name] = Missing \/ ~(Cardinality(InWindow(series.cells[name], end)) < MinRepeats))
<1> PICK count : count = [c \in CellNames |-> Cardinality(InWindow(series.cells[c], end))]
  OBVIOUS
<1> PICK holds : holds = Reasons(series.cells, count)
  OBVIOUS
<1>1. s.has_lift /\ s.codes = {}
  BY DEF Qualifies
<1>2. Cardinality(InWindow(series.cells[name], end)) > 0
  BY <1>1 DEF ComputeSignal
<1>3. s.codes = {c \in DOMAIN holds : holds[c]}
  BY DEF ComputeSignal
<1>4. "insufficient_repeats" \in DOMAIN holds
  BY DEF Reasons
<1>5. ~holds["insufficient_repeats"]
  BY <1>1, <1>3, <1>4
<1>6. holds["insufficient_repeats"] = (\E c \in CellNames : ~(series.cells[c] = Missing) /\ count[c] < MinRepeats)
  BY DEF Reasons
<1>7. series.cells[name] = Missing \/ ~(count[name] < MinRepeats)
  BY <1>5, <1>6
<1> QED
  BY <1>2, <1>7

(* Repeats that count are as many different repeats.                       *)
LEMMA RepeatsAreCounted ==
  ASSUME NEW cell \in Seq(Repeats), NEW end
  PROVE  LET T == {r \in Range(cell) : r.finite /\ r.at <= end} IN
         /\ Cardinality(InWindow(cell, end)) \in Nat /\ Cardinality(T) \in Nat
         /\ Cardinality(InWindow(cell, end)) <= Cardinality(T)
<1> PICK T : T = {r \in Range(cell) : r.finite /\ r.at <= end}
  OBVIOUS
<1> PICK S : S = InWindow(cell, end)
  OBVIOUS
<1> PICK h : h = [n \in S |-> cell[n]]
  OBVIOUS
<1>1. DOMAIN cell = 1..Len(cell) /\ Len(cell) \in Nat
  OBVIOUS
<1>2. S \subseteq DOMAIN cell /\ \A n \in S : cell[n].finite /\ cell[n].at <= end
  BY DEF InWindow, FirstSeen
<1>3. h \in [S -> T]
  BY <1>2 DEF Range
<1>4. ASSUME NEW m \in S, NEW n \in S, m < n
      PROVE  cell[m] # cell[n]
  <2>1. m \in 1..(n - 1)
    BY <1>1, <1>2, <1>4
  <2>2. cell[m].id # cell[n].id
    BY <2>1 DEF InWindow, FirstSeen
  <2> QED
    BY <2>2
<1>5. \A m, n \in S : h[m] = h[n] => m = n
  <2> SUFFICES ASSUME NEW m \in S, NEW n \in S, cell[m] = cell[n] PROVE m = n
    OBVIOUS
  <2>1. m \in Nat /\ n \in Nat
    BY <1>1, <1>2
  <2>2. ~(m < n) /\ ~(n < m)
    BY <1>4
  <2> QED
    BY <2>1, <2>2
<1>6. IsFiniteSet(T)
  <2> PICK c : c = [n \in DOMAIN cell |-> cell[n]]
    OBVIOUS
  <2>1. IsFiniteSet(DOMAIN cell)
    BY <1>1, FS_Interval
  <2>2. c \in Surjection(DOMAIN cell, Range(cell))
    BY DEF Surjection, Range
  <2>3. IsFiniteSet(Range(cell))
    BY <2>1, <2>2, FS_Surjection
  <2> QED
    BY <2>3, FS_Subset
<1>7. h \in Injection(S, T)
  BY <1>3, <1>5 DEF Injection, IsInjective
<1>8. IsFiniteSet(S) /\ Cardinality(S) <= Cardinality(T)
  BY <1>6, <1>7, FS_Injection
<1>9. Cardinality(S) \in Nat /\ Cardinality(T) \in Nat
  BY <1>6, <1>8, FS_CardinalityType
<1> QED
  BY <1>8, <1>9

(* A set of two or more has two different elements.                        *)
LEMMA TwoElements ==
  ASSUME NEW S, IsFiniteSet(S), Cardinality(S) >= 2
  PROVE  \E x, y \in S : x # y
<1>1. Cardinality(S) \in Nat
  BY FS_CardinalityType
<1>2. S # {}
  BY <1>1, FS_EmptySet
<1>3. PICK x \in S : TRUE
  BY <1>2
<1>4. S # {x}
  BY <1>1, FS_Singleton
<1> QED
  BY <1>3, <1>4

(* Two independent layers are two signals of different layer and basis.    *)
LEMMA TwoSignals ==
  ASSUME NEW did, EdgesOf(did) \subseteq OutcomeLayer \X Bases,
         Cardinality(MaxIndependentLayers(EdgesOf(did))) >= 2
  PROVE  \E m, n \in DOMAIN did :
           /\ Qualifies(did[m]) /\ did[m].layer \in OutcomeLayer
           /\ Qualifies(did[n]) /\ did[n].layer \in OutcomeLayer
           /\ did[m].layer # did[n].layer /\ did[m].basis # did[n].basis
<1> PICK edges : edges = EdgesOf(did)
  OBVIOUS
<1>1. PICK k : MatchedThrough(edges, 5, k) /\ MaxIndependentLayers(edges) = Held(k)
  BY LayersAreOfAMaximum
<1>2. IsFiniteSet(Held(k))
  BY <1>1, SomeSets DEF MatchedThrough
<1>3. PICK x \in Held(k), y \in Held(k) : x # y
  BY <1>1, <1>2, TwoElements
<1>4. PICK b \in Bases : k[b] = x /\ x # 0
  BY DEF Held
<1>5. PICK c \in Bases : k[c] = y /\ y # 0
  BY DEF Held
<1>6. <<x, b>> \in edges /\ <<y, c>> \in edges /\ b # c
  BY <1>1, <1>3, <1>4, <1>5 DEF MatchedThrough, IsMatch
<1>7. PICK m \in DOMAIN did : /\ did[m].layer \in OutcomeLayer /\ Qualifies(did[m])
                              /\ did[m].layer = x /\ did[m].basis = b
  BY <1>6 DEF EdgesOf
<1>8. PICK n \in DOMAIN did : /\ did[n].layer \in OutcomeLayer /\ Qualifies(did[n])
                              /\ did[n].layer = y /\ did[n].basis = c
  BY <1>6 DEF EdgesOf
<1> QED
  BY <1>3, <1>6, <1>7, <1>8

-----------------------------------------------------------------------------
(* What a run's own signals come to.                                       *)

(* The window's end a run computes its differences with.                   *)
EndOf(i) == IF HasWindow(i) THEN WindowEnd(Anchor(i)) ELSE Forever(i)

(* Each signal keeps its layer and its basis.                              *)
LEMMA DidIs ==
  ASSUME NEW i \in Inputs
  PROVE  /\ DOMAIN Did(i) = DOMAIN Input[i].signals
         /\ \A n \in DOMAIN Input[i].signals :
              /\ Did(i)[n] = ComputeSignal(Input[i].signals[n], EndOf(i))
              /\ Did(i)[n].layer = Input[i].signals[n].layer
              /\ Did(i)[n].basis = Input[i].signals[n].basis
<1> PICK signals : signals = Input[i].signals
  OBVIOUS
<1> PICK end : end = EndOf(i)
  OBVIOUS
<1>1. Did(i) = [n \in DOMAIN signals |-> ComputeSignal(signals[n], end)]
  BY DEF Did, ComputeDid, EndOf
<1>2. ASSUME NEW n \in DOMAIN signals
      PROVE  /\ ComputeSignal(signals[n], end).layer = signals[n].layer
             /\ ComputeSignal(signals[n], end).basis = signals[n].basis
  BY DEF ComputeSignal
<1> QED
  BY <1>1, <1>2

(* A run's edges join outcome layers and evidence bases.                   *)
LEMMA EdgesAreTyped ==
  ASSUME NEW i \in Inputs
  PROVE  EdgesOf(Did(i)) \subseteq OutcomeLayer \X Bases
<1> PICK did : did = Did(i)
  OBVIOUS
<1>1. \A n \in DOMAIN did : did[n].basis \in Bases
  BY DidIs, PipelineAssumption
<1> QED
  BY <1>1 DEF EdgesOf

(* The same edges, counted from the set of signals.                        *)
LEMMA IndependentIs ==
  ASSUME NEW i \in Inputs
  PROVE  Independent[i] = Cardinality(MaxIndependentLayers(EdgesOf(Did(i))))
<1> PICK did : did = Did(i)
  OBVIOUS
<1> PICK edges : edges = {<<s.layer, s.basis>> : s \in {t \in Range(did) : t.layer \in OutcomeLayer /\ Qualifies(t)}}
  OBVIOUS
<1>1. Independent[i] = MatchingNumber(edges)
  BY DEF Independent
<1>2. edges = EdgesOf(did)
  <2>1. \A n \in DOMAIN did : did[n] \in Range(did)
    BY DEF Range
  <2>2. \A s \in Range(did) : \E n \in DOMAIN did : did[n] = s
    BY DEF Range
  <2>3. edges \subseteq EdgesOf(did)
    BY <2>2 DEF EdgesOf
  <2>4. EdgesOf(did) \subseteq edges
    BY <2>1 DEF EdgesOf
  <2> QED
    BY <2>3, <2>4
<1> QED
  BY <1>1, <1>2, EdgesAreTyped, LayersAreMaximal

(* A signal that qualifies in a window has enough different repeats there. *)
LEMMA QualifiedIsEnough ==
  ASSUME NEW i \in Inputs, NEW n \in DOMAIN Input[i].signals, NEW name \in CellNames,
         HasWindow(i), Qualifies(Did(i)[n])
  PROVE  Cardinality({r \in Range(Input[i].signals[n].cells[name]) :
                        r.finite /\ r.at <= Anchor(i) + WindowDays}) >= MinRepeats
<1> PICK series : series = Input[i].signals[n]
  OBVIOUS
<1> PICK cell : cell = series.cells[name]
  OBVIOUS
<1> PICK end : end = Anchor(i) + WindowDays
  OBVIOUS
<1> PICK T : T = {r \in Range(cell) : r.finite /\ r.at <= end}
  OBVIOUS
<1> PICK k : k = Cardinality(InWindow(cell, end))
  OBVIOUS
<1>1. cell \in Seq(Repeats)
  BY PipelineAssumption
<1>2. EndOf(i) = end
  BY DEF EndOf, WindowEnd
<1>3. k > 0 /\ (cell = Missing \/ ~(k < MinRepeats))
  BY <1>2, DidIs, SignalIs
<1>4. k \in Nat /\ Cardinality(T) \in Nat /\ k <= Cardinality(T)
  BY <1>1, RepeatsAreCounted
<1>5. cell # Missing
  <2> SUFFICES ASSUME cell = <<>> PROVE FALSE
    BY DEF Missing
  <2>1. InWindow(cell, end) = {}
    BY DEF InWindow, FirstSeen
  <2>2. k = Cardinality({}) /\ Cardinality({}) = 0
    BY <2>1, FS_EmptySet, Zenon
  <2> QED
    BY <2>2, <1>3
<1>6. MinRepeats \in Nat
  BY BGateAssumption
<1>7. Cardinality(T) >= MinRepeats
  BY <1>3, <1>4, <1>5, <1>6
<1> QED
  BY <1>7

(* What the gate's verdict and layers are in an outcome.                   *)
LEMMA OutcomeIs ==
  ASSUME NEW i \in Inputs, NEW conflicted \in BOOLEAN, ~conflicted
  PROVE  /\ OutcomeOf[i][conflicted].layers = MaxIndependentLayers(EdgesOf(Did(i)))
         /\ OutcomeOf[i][conflicted].status = "pass" =>
              Cardinality(MaxIndependentLayers(EdgesOf(Did(i)))) >= 2
<1> PICK did : did = Did(i)
  OBVIOUS
<1> PICK gate : gate = Gate(i, did)
  OBVIOUS
<1>1. gate.layers = MaxIndependentLayers(EdgesOf(did)) /\ (gate.verdict = "pass" => Cardinality(gate.layers) >= 2)
  BY GateIs DEF Gate
<1>2. /\ OutcomeOf[i][conflicted].layers = gate.layers
      /\ OutcomeOf[i][conflicted].status = FinalStatus(i, conflicted, gate.verdict)
  BY DEF OutcomeOf, Judge, Conclude, Outcome
<1>3. OutcomeOf[i][conflicted].status = "pass" => gate.verdict = "pass"
  BY <1>2 DEF FinalStatus
<1> QED
  BY <1>1, <1>2, <1>3

(* An outcome that is a pass is deserved: its paperwork and its numbers.   *)
LEMMA PassDeserves ==
  ASSUME NEW i \in Inputs, NEW conflicted \in BOOLEAN,
         OutcomeOf[i][conflicted].status = "pass"
  PROVE  ~conflicted /\ i \in Deserving
<1>1. /\ ~conflicted /\ Eligible(Input[i].grs)
      /\ BindingCodes(Input[i].submission) = {} /\ WindowCodes(i) = {}
  BY PassIsHeldToIt
<1>2. HasWindow(i)
  BY <1>1 DEF WindowCodes
<1>3. PICK m \in DOMAIN Did(i), n \in DOMAIN Did(i) :
        /\ Qualifies(Did(i)[m]) /\ Did(i)[m].layer \in OutcomeLayer
        /\ Qualifies(Did(i)[n]) /\ Did(i)[n].layer \in OutcomeLayer
        /\ Did(i)[m].layer # Did(i)[n].layer /\ Did(i)[m].basis # Did(i)[n].basis
  BY <1>1, OutcomeIs, EdgesAreTyped, TwoSignals
<1>4. m \in DOMAIN Input[i].signals /\ n \in DOMAIN Input[i].signals
  BY <1>3, DidIs
<1>5. /\ Input[i].signals[m].layer \in OutcomeLayer
      /\ Input[i].signals[n].layer \in OutcomeLayer
      /\ Input[i].signals[m].layer # Input[i].signals[n].layer
      /\ Input[i].signals[m].basis # Input[i].signals[n].basis
  BY <1>3, <1>4, DidIs
<1>6. Did(i)[m].net > 0 /\ Did(i)[n].net > 0
  BY <1>3 DEF Qualifies
<1>7. ASSUME NEW name \in CellNames
      PROVE  /\ Cardinality({r \in Range(Input[i].signals[m].cells[name]) :
                               r.finite /\ r.at <= Anchor(i) + WindowDays}) >= MinRepeats
             /\ Cardinality({r \in Range(Input[i].signals[n].cells[name]) :
                               r.finite /\ r.at <= Anchor(i) + WindowDays}) >= MinRepeats
  BY <1>2, <1>3, <1>4, QualifiedIsEnough
<1>8. Improved(i)
  BY <1>4, <1>5, <1>6, <1>7, Zenon DEF Improved
<1>9. Entitled(i)
  BY <1>1, NothingRaisedIsEntitled
<1> QED
  BY <1>1, <1>8, <1>9 DEF Deserving, Deserved

(* However the calls of run_measurement interleave, retry and die, a pass  *)
(* that a call returns is deserved by the call's own inputs, paperwork and *)
(* numbers both, and the layers its decision counts as independent are as  *)
(* many as any assignment of evidence bases to layers gives: the search    *)
(* for augmenting paths in _max_independent_layers is complete.            *)
THEOREM VerdictIsAlwaysRight == Spec => []VerdictIsRight
<1>1. Spec => []ComputedInv
  BY TypeCorrect, InitComputed, StepComputed, PTL DEF Spec
<1>2. IInv /\ ComputedInv => VerdictIsRight
  <2> SUFFICES ASSUME IInv, ComputedInv PROVE VerdictIsRight
    OBVIOUS
  <2>1. ASSUME NEW p \in Callers, call[p].pc = "returned"
        PROVE  /\ call[p].input \in Inputs /\ call[p].conflicted \in BOOLEAN
               /\ decisions[DecisionKey(call[p].input)] = OutcomeOf[call[p].input][call[p].conflicted]
    BY <2>1, CallTypes DEF IInv, ReturnedIsRecorded, ComputedInv, OutcomeIsComputed
  <2>2. PassIsDeserved
    BY <2>1, PassDeserves DEF PassIsDeserved
  <2>3. IndependenceIsMaximal
    BY <2>1, OutcomeIs, IndependentIs DEF IndependenceIsMaximal
  <2> QED
    BY <2>2, <2>3 DEF VerdictIsRight
<1> QED
  BY <1>1, <1>2, Invariance, PTL
=============================================================================

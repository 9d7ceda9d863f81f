---------------------------- MODULE Confirmation ----------------------------
(***************************************************************************)
(* Validation of deployment confirmations and derivation of the            *)
(* measurement window: the pure part shared by the confirmation consumer,  *)
(* the measurement workflow and the measurement pipeline.  A confirmation  *)
(* stands for its content: two confirmations are equal when they are       *)
(* byte-identical.  Times are days.                                        *)
(***************************************************************************)
EXTENDS Naturals

CONSTANTS
  Confirmations, Keys, Experiments, Tenants,
  Claim,            \* what each confirmation says
  Registration,     \* the registered view of each experiment
  MaxDeployDelay,   \* MeasurementPolicy.max_deploy_delay_days
  WindowDays,       \* MeasurementPolicy.window_days
  AllowedSkew       \* allowed_skew_seconds

None == "none"

Claims ==
  [key : Keys, tenant : Tenants, experiment : Experiments,
   hash : Experiments \cup {None},   \* the experiment whose registration hash it carries
   matches : BOOLEAN,                \* run, project and site are the registered ones
   aware : BOOLEAN,                  \* its timestamp has a time zone
   artifact : BOOLEAN,               \* names a commit or an artifact hash
   target : BOOLEAN,                 \* names a deployment target
   trusted : BOOLEAN,                \* the verifier answers True
   at : Nat]                         \* confirmed_at, the claimed day

ASSUME ConfirmationAssumption ==
  /\ Claim \in [Confirmations -> Claims]
  /\ Registration \in [Experiments -> [tenant : Tenants, created : Nat, approved : Nat]]
  /\ None \notin Confirmations
  /\ MaxDeployDelay \in Nat /\ AllowedSkew \in Nat
  /\ WindowDays \in Nat \ {0}

(* Confirmations are stored under their tenant and idempotency key.        *)
StoreKeys == Tenants \X Keys
KeyOf(c) == <<Claim[c].tenant, Claim[c].key>>
ExperimentOf(c) == Claim[c].experiment

(* The registration may not be younger than the claim.                     *)
EarliestValid(x) ==
  IF Registration[x].created < Registration[x].approved
  THEN Registration[x].created ELSE Registration[x].approved

(* validate_confirmation against the view of experiment x, with `prior'    *)
(* the confirmation accepted earlier under the same key.                   *)
Verdict(c, x, received, prior) ==
  LET v == Claim[c] IN
  IF ~v.aware THEN "naive_timestamp"
  ELSE IF v.tenant # Registration[x].tenant THEN "cross_tenant_replay"
  ELSE IF ~v.matches \/ v.experiment # x THEN "identity_mismatch"
  ELSE IF prior = c THEN "duplicate"
  ELSE IF prior # None THEN "conflicting_replay"
  ELSE IF v.hash # x THEN "unknown_registration"
  ELSE IF ~v.artifact THEN "missing_deploy_artifact"
  ELSE IF ~v.target THEN "missing_deployment_target"
  ELSE IF ~v.trusted THEN "confirmer_verification_failed"
  ELSE IF v.at < EarliestValid(x) THEN "backdated_confirmation"
  ELSE IF v.at > received + AllowedSkew THEN "future_confirmation"
  ELSE "accepted"

(* start_measurement_window: no window for a deployment past its deadline. *)
DeploymentLate(x, anchor) == anchor > Registration[x].approved + MaxDeployDelay

WindowEnd(anchor) == anchor + WindowDays

(* A confirmation that says what its experiment registered, signed by a    *)
(* trusted confirmer, received on the given day.                           *)
Genuine(c, x, received) ==
  LET v == Claim[c] IN
  /\ v.tenant = Registration[x].tenant
  /\ v.experiment = x /\ v.hash = x
  /\ v.matches /\ v.aware /\ v.artifact /\ v.target /\ v.trusted
  /\ EarliestValid(x) <= v.at /\ v.at <= received + AllowedSkew
=============================================================================

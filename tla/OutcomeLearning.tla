-------------------------- MODULE OutcomeLearning --------------------------
(***************************************************************************)
(* From a sealed evidence bundle to the strategy skill bank: the evidence  *)
(* manifest (saena_domain.measurement.evidence), the publisher of          *)
(* experiment.outcome.observed, and the guard in front of the bank's       *)
(* candidate pools.  A hash is the value it is computed from.  A payload   *)
(* is the set of its leaves, each with the field names on the way to it.   *)
(* The evidence is that of registered experiments, so the module extends   *)
(* their ledger; the two share no state.                                   *)
(***************************************************************************)
EXTENDS ExperimentLedger

CONSTANTS
  Bundles,             \* entry tuples a caller may seal
  NameMark,            \* what the denylists make of a field name
  OutcomeRequests,     \* decisions handed to publish()
  CardPayloads,        \* payloads handed to evaluate_payload()
  MaxSealed, MaxPublished, MaxCards       \* bounds: calls of each kind

(* EvidenceBundleManifest.entries is a tuple.                              *)
ASSUME BundlesAreTuples == \A b \in Bundles : b \in Seq({b[i] : i \in DOMAIN b})

VARIABLES
  vault,               \* one tenant's stored manifests, as ManifestLookup finds them by hash
  altered,             \* whether something has changed the vault
  outcomes,            \* publish(), call by call
  cards                \* evaluate_payload(), call by call
learningVars == <<vault, altered, outcomes, cards>>

NoCommitment == <<>>
NoBundle == [manifest_hash |-> "no bundle"]
MIN_INDEPENDENT_LAYERS == 2
ObservationKinds == {"baseline_observation", "treatment_observation", "control_observation"}

(* guard_evidence_fields: no forbidden or non-ASCII name on the way to a   *)
(* leaf, and no leaf that is too long or looks like a secret.              *)
GuardEvidenceFields(leaves) ==
  \A l \in leaves :
    /\ \A i \in DOMAIN l.path : NameMark[l.path[i]] \notin {"raw", "non_ascii"}
    /\ l.shape = "plain"

(* EvidenceEntry: an observation says when, with which client and on which *)
(* asset it was made, and whether it was cited.                            *)
EntryOk(e) ==
  /\ GuardEvidenceFields(e.leaves)
  /\ e.kind \in ObservationKinds =>
       /\ {"timestamp", "client_version", "asset_hash"} \subseteq e.given
       /\ e.given \cap {"citation", "citation_present"} # {}

(* Mutant: a commitment does not cover the one before it.                  *)
ComputeCommitmentAlone(prev, entry, index) == <<entry, index>>

ComputeCommitment(prev, entry, index) == <<prev, entry, index>>
ComputeEntryCommitments(entries) ==
  LET chain[i \in DOMAIN entries] ==
        ComputeCommitment(IF i = 1 THEN NoCommitment ELSE chain[i - 1], entries[i], i)
  IN [i \in DOMAIN entries |-> chain[i]]
ChainHead(commitments) == IF commitments = <<>> THEN NoCommitment ELSE commitments[Len(commitments)]
ComputeManifestHash(entries) == ChainHead(ComputeEntryCommitments(entries))
Seal(entries) ==
  [entries |-> entries, entry_commitments |-> ComputeEntryCommitments(entries),
   manifest_hash |-> ComputeManifestHash(entries)]

(* verify_manifest: intact, or the place of the first divergence (0: only  *)
(* the stored head diverges).                                              *)
VerifyManifest(m) ==
  LET again == ComputeEntryCommitments(m.entries)
      sealed == m.entry_commitments
      both == DOMAIN again \cap DOMAIN sealed
      bad == {i \in both : again[i] # sealed[i]} IN
  IF again = sealed /\ ChainHead(again) = m.manifest_hash THEN [intact |-> TRUE, at |-> 0]
  ELSE [intact |-> FALSE,
        at |-> IF bad # {} THEN CHOOSE i \in bad : \A j \in bad : i <= j
               ELSE IF Len(again) # Len(sealed) THEN Cardinality(both) + 1 ELSE 0]

LearningInit == vault = <<>> /\ altered = FALSE /\ outcomes = <<>> /\ cards = <<>>

(* EvidenceBundleManifest.seal, and the store that keeps it by its hash.   *)
SealBundle(entries) ==
  LET m == Seal(entries) IN
  /\ Len(vault) < MaxSealed /\ ~altered
  /\ \A i \in DOMAIN entries : EntryOk(entries[i])
  /\ \A k \in DOMAIN vault : vault[k].hash # m.manifest_hash
  /\ vault' = Append(vault, [hash |-> m.manifest_hash, manifest |-> m, origin |-> entries])
  /\ UNCHANGED <<altered, outcomes, cards>>

(* What may happen to a stored manifest: its entries change under the      *)
(* sealed chain, its head changes, or another sealed manifest takes its    *)
(* place under the old hash.                                               *)
AlterVault(k) ==
  LET m == vault[k].manifest
      es == m.entries
      n == Len(es)
      Stored(x) == vault' = [vault EXCEPT ![k].manifest = x] IN
  /\ ~altered /\ altered' = TRUE
  /\ \/ \E i, j \in DOMAIN es :
          es[i] # es[j] /\ i < j /\ Stored([m EXCEPT !.entries = [es EXCEPT ![i] = es[j], ![j] = es[i]]])
     \/ n > 0 /\ Stored([m EXCEPT !.entries = SubSeq(es, 1, n - 1)])
     \/ n > 0 /\ Stored([m EXCEPT !.entries = Append(es, es[1])])
     \/ n > 0 /\ Stored([m EXCEPT !.manifest_hash = NoCommitment])
     \/ \E other \in Bundles :
          other # es /\ (\A i \in DOMAIN other : EntryOk(other[i])) /\ Stored(Seal(other))
  /\ UNCHANGED <<outcomes, cards>>

(* ManifestLookup.lookup.                                                  *)
Lookup(hash) ==
  IF \E k \in DOMAIN vault : vault[k].hash = hash
  THEN vault[CHOOSE k \in DOMAIN vault : vault[k].hash = hash].manifest ELSE NoBundle

-----------------------------------------------------------------------------
(* OutcomePublisher.                                                       *)
EnforcePassPolicyGate(req, m) ==
  /\ req.layers >= MIN_INDEPENDENT_LAYERS
  /\ m # NoBundle /\ VerifyManifest(m).intact
  /\ req.provenance \in {"production", "test_fixture"}
  /\ req.is_production = (req.provenance = "production")

(* A delta that could not be computed is sent as zero.                     *)
PerSignalResult(signal) ==
  [lift |-> IF signal.lift = <<>> THEN 0 ELSE signal.lift[1], insufficient |-> signal.insufficient]

(* publish: refused for another engine, refused when a pass is not backed, *)
(* an error when the payload breaks its contract, which wants a hash.      *)
Publish(req, hash) ==
  LET m == Lookup(hash)
      answer(kind, results) ==
        outcomes' = Append(outcomes, [kind |-> kind, req |-> req, hash |-> hash, seen |-> m, results |-> results]) IN
  /\ Len(outcomes) < MaxPublished
  /\ \/ req.engine # "chatgpt-search" /\ answer("EngineNotPermitted", {})
     \/ /\ req.engine = "chatgpt-search" /\ req.verdict = "pass" /\ ~EnforcePassPolicyGate(req, m)
        /\ answer("PublishRefused", {})
     \/ /\ req.engine = "chatgpt-search"
        /\ req.verdict = "pass" => EnforcePassPolicyGate(req, m)
        /\ IF hash = NoCommitment THEN answer("ValidationError", {})
           ELSE answer("published", {PerSignalResult(s) : s \in req.signals})
  /\ UNCHANGED <<vault, altered, cards>>

-----------------------------------------------------------------------------
(* IntakeGuard.                                                            *)
(* _guard_value: the first marked name on the way decides the reason, and  *)
(* only under unmarked names is the value looked at.                       *)
GuardValue(l) ==
  LET marked == {i \in DOMAIN l.path : NameMark[l.path[i]] # "plain"} IN
  IF marked = {} THEN (IF l.shape = "plain" THEN {} ELSE {"raw_content_field"})
  ELSE LET first == CHOOSE i \in marked : \A j \in marked : i <= j IN
       IF NameMark[l.path[first]] = "raw" THEN {"raw_content_field"} ELSE {"tenant_identifying_field"}

EvidenceReasons(m, hash) ==
  IF m = NoBundle THEN {"unverifiable_evidence"}
  ELSE IF ~VerifyManifest(m).intact THEN {"tampered_evidence"}
  ELSE IF m.manifest_hash # hash THEN {"unverifiable_evidence"} ELSE {}

(* What evaluate_payload hands on to be scanned: the reference and every   *)
(* other field at the top; of source_outcome the verdict and the hash are  *)
(* read, and the rest of it is dropped unseen.                             *)
ScannedLeaves(card) == {l \in card.leaves : l.path[1] # "source_outcome"}

(* Every gate that fails gives its reason; none of them stops the others.  *)
RejectReasons(card, hash, m) ==
  (IF card.verdict = "pass" THEN {} ELSE {"not_b_verified"})
  \cup EvidenceReasons(m, hash)
  \cup UNION {GuardValue(l) : l \in ScannedLeaves(card)}

(* evaluate_payload: what is not even a candidate misses a field.          *)
IsCandidate(card, hash) ==
  card.whole /\ card.verdict \in {"pass", "fail", "undetermined"} /\ hash # NoCommitment
EvaluatePayload(card, hash, m) ==
  LET reasons == IF IsCandidate(card, hash) THEN RejectReasons(card, hash, m) ELSE {"missing_required_field"} IN
  [card |-> card, hash |-> hash, seen |-> m, reasons |-> reasons,
   pool |-> IF reasons # {} THEN "none" ELSE IF card.provenance = "production" THEN "production" ELSE "test"]

(* The caller attaches a manifest it holds, the right one or another.      *)
EvaluateCard(card, hash, m) ==
  /\ Len(cards) < MaxCards
  /\ cards' = Append(cards, EvaluatePayload(card, hash, m))
  /\ UNCHANGED <<vault, altered, outcomes>>

KnownHashes == {vault[k].hash : k \in DOMAIN vault} \cup {<<"unknown">>}
HeldManifests == {vault[k].manifest : k \in DOMAIN vault} \cup {NoBundle}
LearningNext ==
  \/ \E entries \in Bundles : SealBundle(entries)
  \/ \E k \in DOMAIN vault : AlterVault(k)
  \/ \E req \in OutcomeRequests, hash \in KnownHashes : Publish(req, hash)
  \/ \E card \in CardPayloads, hash \in KnownHashes, m \in HeldManifests : EvaluateCard(card, hash, m)

-----------------------------------------------------------------------------
LearningTypeOK ==
  /\ \A k \in DOMAIN vault : DOMAIN vault[k].manifest = {"entries", "entry_commitments", "manifest_hash"}
  /\ \A n \in DOMAIN outcomes :
       outcomes[n].kind \in {"EngineNotPermitted", "PublishRefused", "ValidationError", "published"}
  /\ \A n \in DOMAIN cards : cards[n].pool \in {"none", "production", "test"}

(* A change of a stored manifest is found, at the first place where the    *)
(* entries differ from the sealed ones; what verifies under the hash it    *)
(* was stored by is what was sealed (verify_manifest).  A manifest sealed  *)
(* anew verifies, under another hash.                                      *)
AlterationsAreFound ==
  \A k \in DOMAIN vault :
    LET m == vault[k].manifest
        origin == vault[k].origin
        v == VerifyManifest(m)
        Same(i) == i \in DOMAIN origin /\ i \in DOMAIN m.entries /\ origin[i] = m.entries[i] IN
    /\ v.intact /\ m.manifest_hash = vault[k].hash => m.entries = origin
    /\ ~v.intact /\ v.at > 0 => ~Same(v.at) /\ \A i \in 1..(v.at - 1) : Same(i)
    /\ ~v.intact /\ v.at = 0 => m.entries = origin

(* A published pass had two layers, a production mark that its policy      *)
(* earned, and a manifest on file that verified when it was published:     *)
(* every entry of it is admissible, and if it is the manifest of the cited *)
(* hash, it holds what was sealed under that hash, whatever was changed    *)
(* meanwhile.  That it is the manifest of the cited hash is up to the      *)
(* look-up: see PassCitesItsEvidence.  Other verdicts need nothing         *)
(* (_enforce_pass_policy_gate).                                            *)
PassIsBacked ==
  \A n \in DOMAIN outcomes :
    LET o == outcomes[n] IN
    o.kind = "published" /\ o.req.verdict = "pass" =>
      /\ o.req.layers >= 2 /\ o.seen # NoBundle
      /\ \A i \in DOMAIN o.seen.entries : EntryOk(o.seen.entries[i])
      /\ o.seen.manifest_hash = ComputeManifestHash(o.seen.entries)
      /\ o.seen.manifest_hash = o.hash =>
           \E k \in DOMAIN vault : vault[k].hash = o.hash /\ vault[k].origin = o.seen.entries
      /\ o.req.is_production => o.req.provenance = "production"

(* Not so in the code: a published pass cites the hash of the manifest     *)
(* that was verified for it.  _enforce_pass_policy_gate verifies what the  *)
(* look-up returns and never compares its hash with the cited one, so a    *)
(* whole manifest that was sealed anew or mixed up under the key is taken. *)
PassCitesItsEvidence ==
  \A n \in DOMAIN outcomes :
    outcomes[n].kind = "published" /\ outcomes[n].req.verdict = "pass" =>
      outcomes[n].seen.manifest_hash = outcomes[n].hash

(* What the bank takes is proven, whatever was altered or mixed up on the  *)
(* way: the manifest in hand holds exactly the entries that were sealed    *)
(* under the claimed hash, the verdict is a pass, no field of the payload  *)
(* that is scanned is raw or names a tenant, and a fixture never lands in  *)
(* the production pool (IntakeGuard.evaluate).                             *)
AdmittedIsProven ==
  \A n \in DOMAIN cards :
    LET c == cards[n] IN
    c.pool # "none" =>
      /\ c.card.whole /\ c.card.verdict = "pass"
      /\ c.seen # NoBundle
      /\ \E k \in DOMAIN vault : vault[k].hash = c.hash /\ vault[k].origin = c.seen.entries
      /\ \A l \in ScannedLeaves(c.card) :
           l.shape = "plain" /\ \A i \in DOMAIN l.path : NameMark[l.path[i]] = "plain"
      /\ c.pool = "production" <=> c.card.provenance = "production"

(* Not so in the code: nothing in an admitted payload is raw or names a    *)
(* tenant.  A further name below source_outcome is neither refused, as the *)
(* closed models of the candidate suggest, nor scanned: evaluate_payload   *)
(* picks two fields out of source_outcome before it builds the candidate.  *)
AdmittedIsCleanThroughout ==
  \A n \in DOMAIN cards :
    cards[n].pool # "none" =>
      \A l \in cards[n].card.leaves :
        l.shape = "plain" /\ \A i \in DOMAIN l.path : NameMark[l.path[i]] = "plain"

(* Evidence that was changed after it was sealed is found out, by whoever  *)
(* verifies it.  A published pass rests on a manifest that verified, a     *)
(* card in the skill bank on the very entries sealed under the hash it     *)
(* cites, so a whole manifest in the wrong place convinces the publisher   *)
(* but not the bank (verify_manifest, _enforce_pass_policy_gate,           *)
(* IntakeGuard.evaluate).                                                  *)
LearningIsBacked ==
  /\ LearningTypeOK
  /\ AlterationsAreFound
  /\ PassIsBacked
  /\ AdmittedIsProven

(* The experiment ledger and the way of the evidence, side by side.        *)
EvidenceNext ==
  \/ ExperimentNext /\ UNCHANGED learningVars
  \/ LearningNext /\ UNCHANGED experimentVars
EvidenceSpec ==
  ExperimentInit /\ LearningInit /\ [][EvidenceNext]_<<experimentVars, learningVars>>

(* What experiments rest on stands: registered designs stay as they were;  *)
(* evidence changed under its seal is found out and convinces nobody; and  *)
(* the skill bank takes a card only with the evidence sealed under the     *)
(* hash it cites, which the publisher of a pass does not ask for           *)
(* (register, verify_ledger, verify_manifest, publish,                     *)
(* IntakeGuard.evaluate).                                                  *)
EvidenceStands ==
  /\ DesignsAreFixed
  /\ LearningIsBacked
=============================================================================

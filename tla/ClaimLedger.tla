---------------------------- MODULE ClaimLedger ----------------------------
(***************************************************************************)
(* claim-evidence: the append-only ledger of claims and evidence of each   *)
(* tenant, the publishability it records for a claim whenever evidence or  *)
(* a link status changes, and the graph projection folded from it.         *)
(* The store's lock makes each operation one step; time passes between.    *)
(***************************************************************************)
EXTENDS Integers, Sequences, FiniteSets, SequencesExt

CONSTANTS
  LedgerTenants,
  ClaimRecords,     \* claims that may be appended: [tenant, id, entity, text]
  EvidenceRecords,  \* evidence that may be appended: [tenant, id, claim, checked_at, text]
  MaxAgeSeconds,    \* max_age_seconds of the freshness policy
  MaxLedgerClock,   \* bound: how far time is followed
  MaxEntries        \* bound: entries of a ledger

ASSUME MaxAgeAssumption == MaxAgeSeconds \in Nat \ {0}
ASSUME EvidenceIsDated == \A e \in EvidenceRecords : e.checked_at \in Int

VARIABLES
  ledger,           \* per tenant: its entries
  link_statuses,    \* per tenant: link status by evidence id
  ledger_clock,
  answered,         \* how the last call was answered
  evaluated_at      \* history: when a claim was last evaluated
ledgerVars == <<ledger, link_statuses, ledger_clock, answered, evaluated_at>>

GENESIS == <<>>
NoClaim == [tenant |-> "none", id |-> "none", entity |-> "none", text |-> "none"]
NoEvidence == [tenant |-> "none", id |-> "none", claim |-> "none", checked_at |-> 0, text |-> "none"]
NotEvaluated == [publishable |-> FALSE, reasons |-> {}, supporting |-> {}]

(* What the hash of an entry is taken over: the claim or the evidence, not *)
(* the publishability.                                                     *)
ClaimMaterial(c) == <<"claim", c>>
EvidenceMaterial(e) == <<"evidence", e>>
MaterialOf(entry) == IF entry.kind = "claim" THEN ClaimMaterial(entry.claim) ELSE EvidenceMaterial(entry.evidence)
LastHash(l) == IF l = <<>> THEN GENESIS ELSE l[Len(l)].canonical_hash

ClaimEntry(l, claim, publishability) ==
  [kind |-> "claim", tenant |-> claim.tenant, claim |-> claim, evidence |-> NoEvidence,
   publishability |-> publishability, canonical_hash |-> ClaimMaterial(claim), previous_hash |-> LastHash(l)]
EvidenceEntry(l, e) ==
  [kind |-> "evidence", tenant |-> e.tenant, claim |-> NoClaim, evidence |-> e,
   publishability |-> NotEvaluated, canonical_hash |-> EvidenceMaterial(e), previous_hash |-> LastHash(l)]

EntriesOfClaim(l, id) == {i \in DOMAIN l : l[i].kind = "claim" /\ l[i].claim.id = id}
LatestClaim(l, id) == l[CHOOSE i \in EntriesOfClaim(l, id) : \A k \in EntriesOfClaim(l, id) : k <= i]
EvidenceWithId(l, id) == {i \in DOMAIN l : l[i].kind = "evidence" /\ l[i].evidence.id = id}
AllEvidenceForClaim(l, id) ==
  {l[i].evidence : i \in {k \in DOMAIN l : l[k].kind = "evidence" /\ l[k].evidence.claim = id}}

-----------------------------------------------------------------------------
(* evaluation.py: evidence of the future is not fresh; a missing link      *)
(* status blocks.  The ids that support a claim are in the order of the    *)
(* ledger, which only grows: the set of them says it all.                  *)
IsEvidenceFresh(e, now) == now - e.checked_at \in 0..MaxAgeSeconds
LinkStatus(links, id) == IF id \in DOMAIN links THEN links[id] ELSE "blocked"
EvaluateClaimPublishability(evidence, links, now) ==
  LET linked == {e \in evidence : LinkStatus(links, e.id) # "blocked"}
      good == {e \in linked : IsEvidenceFresh(e, now)}
      reasons == {IF e \in linked THEN "stale" ELSE "blocked" : e \in evidence \ good} IN
  [publishable |-> good # {}, supporting |-> {e.id : e \in good},
   reasons |-> IF good # {} THEN {} ELSE IF evidence = {} THEN {"no_evidence"} ELSE reasons]

(* Mutant: the claim is updated in place.                                  *)
ReevaluateInPlace(l, id, links, now) ==
  LET p == EvaluateClaimPublishability(AllEvidenceForClaim(l, id), links, now) IN
  [i \in DOMAIN l |-> IF i \in EntriesOfClaim(l, id) THEN [l[i] EXCEPT !.publishability = p] ELSE l[i]]

(* _reevaluate: a new version of the claim if its publishability changed.  *)
Reevaluate(l, id, links, now) ==
  LET current == LatestClaim(l, id)
      p == EvaluateClaimPublishability(AllEvidenceForClaim(l, id), links, now) IN
  IF current.publishability = p THEN l ELSE Append(l, ClaimEntry(l, current.claim, p))

LedgerTypeOK ==
  /\ \A t \in LedgerTenants : \A i \in DOMAIN ledger[t] : ledger[t][i].kind \in {"claim", "evidence"}
  /\ \A t \in LedgerTenants : \A id \in DOMAIN link_statuses[t] :
       EvidenceWithId(ledger[t], id) # {} /\ link_statuses[t][id] \in {"linked", "blocked"}
  /\ answered \in {"none", "entry", "cross_tenant", "duplicate_claim", "claim_mismatch",
                   "duplicate_evidence", "unknown_evidence"}

LedgerInit ==
  /\ ledger = [t \in LedgerTenants |-> <<>>] /\ link_statuses = [t \in LedgerTenants |-> <<>>]
  /\ ledger_clock = 0 /\ answered = "none" /\ evaluated_at = [t \in LedgerTenants |-> <<>>]

At1(f, k, v) == [x \in DOMAIN f \cup {k} |-> IF x = k THEN v ELSE f[x]]
SetDefault(f, k, v) == IF k \in DOMAIN f THEN f ELSE At1(f, k, v)
Answered(how) == answered' = how /\ UNCHANGED ledger_clock
Refused(how) == Answered(how) /\ UNCHANGED <<ledger, link_statuses, evaluated_at>>

AppendClaim(t, claim) ==
  LET l == ledger[t]  known == EntriesOfClaim(l, claim.id) IN
  \/ t # claim.tenant /\ Refused("cross_tenant")
  \/ t = claim.tenant /\ known # {} /\ LatestClaim(l, claim.id).claim = claim /\ Refused("entry")
  \/ t = claim.tenant /\ known # {} /\ LatestClaim(l, claim.id).claim # claim /\ Refused("duplicate_claim")
  \/ /\ t = claim.tenant /\ known = {}
     /\ ledger' = [ledger EXCEPT ![t] =
          Append(l, ClaimEntry(l, claim, EvaluateClaimPublishability({}, <<>>, 0)))]
     /\ evaluated_at' = [evaluated_at EXCEPT ![t] = At1(evaluated_at[t], claim.id, ledger_clock)]
     /\ Answered("entry") /\ UNCHANGED link_statuses

AppendEvidence(t, e) ==
  LET l == ledger[t]
      same == EvidenceWithId(l, e.id)
      links == SetDefault(link_statuses[t], e.id, "linked") IN
  \/ t # e.tenant /\ Refused("cross_tenant")
  \/ t = e.tenant /\ EntriesOfClaim(l, e.claim) = {} /\ Refused("claim_mismatch")
  \/ /\ t = e.tenant /\ EntriesOfClaim(l, e.claim) # {} /\ same # {}
     /\ Refused(IF \E i \in same : l[i].evidence = e THEN "entry" ELSE "duplicate_evidence")
  \/ /\ t = e.tenant /\ EntriesOfClaim(l, e.claim) # {} /\ same = {}
     /\ link_statuses' = [link_statuses EXCEPT ![t] = links]
     /\ ledger' = [ledger EXCEPT ![t] = Reevaluate(Append(l, EvidenceEntry(l, e)), e.claim, links, ledger_clock)]
     /\ evaluated_at' = [evaluated_at EXCEPT ![t] = At1(evaluated_at[t], e.claim, ledger_clock)]
     /\ Answered("entry")

SetEvidenceLinkStatus(t, id, status) ==
  LET l == ledger[t]
      links == At1(link_statuses[t], id, status)
      owner == l[CHOOSE i \in EvidenceWithId(l, id) : TRUE].evidence.claim IN
  \/ EvidenceWithId(l, id) = {} /\ Refused("unknown_evidence")
  \/ /\ EvidenceWithId(l, id) # {}
     /\ link_statuses' = [link_statuses EXCEPT ![t] = links]
     /\ ledger' = [ledger EXCEPT ![t] = Reevaluate(l, owner, links, ledger_clock)]
     /\ evaluated_at' = [evaluated_at EXCEPT ![t] = At1(evaluated_at[t], owner, ledger_clock)]
     /\ Answered("entry")

LedgerTick ==
  /\ ledger_clock < MaxLedgerClock /\ ledger_clock' = ledger_clock + 1
  /\ UNCHANGED <<ledger, link_statuses, answered, evaluated_at>>

HasRoom(t) == Len(ledger[t]) + 1 < MaxEntries
LedgerNext ==
  \/ LedgerTick
  \/ \E t \in LedgerTenants : HasRoom(t) /\
       \/ \E c \in ClaimRecords : AppendClaim(t, c)
       \/ \E e \in EvidenceRecords : AppendEvidence(t, e)
       \/ \E e \in EvidenceRecords, status \in {"linked", "blocked"} : SetEvidenceLinkStatus(t, e.id, status)
LedgerSpec == LedgerInit /\ [][LedgerNext]_ledgerVars

-----------------------------------------------------------------------------
(* verify_ledger_chain: the index of the first broken entry, 0 if none.    *)
Broken(l, i) ==
  \/ l[i].previous_hash # LastHash(SubSeq(l, 1, i - 1))
  \/ l[i].canonical_hash # MaterialOf(l[i])
VerifyLedgerChain(l) ==
  LET broken == {i \in DOMAIN l : Broken(l, i)} IN
  IF broken = {} THEN 0 ELSE CHOOSE i \in broken : \A k \in broken : i <= k

GetClaimPublishability(t, id) == LatestClaim(ledger[t], id).publishability

(* The projection: claims with their publishability and evidence, and the  *)
(* claims of each entity.  Evidence of a claim not yet projected would     *)
(* raise: here it is an application outside of the claims' domain.         *)
EmptyProjection == [claims |-> <<>>, entity_claims |-> <<>>]
Of(f, k) == IF k \in DOMAIN f THEN f[k] ELSE <<>>
Removed(ids, id) == SelectSeq(ids, LAMBDA x : x # id)
ApplyClaimFact(state, entry) ==
  LET c == entry.claim
      known == c.id \in DOMAIN state.claims
      old == IF known THEN state.claims[c.id].entity ELSE c.entity
      was == Of(state.entity_claims, old)
      left == IF old # c.entity /\ \E i \in DOMAIN was : was[i] = c.id
              THEN At1(state.entity_claims, old, Removed(was, c.id)) ELSE state.entity_claims
      now == Of(left, c.entity) IN
  [claims |-> At1(state.claims, c.id,
                  [entity |-> c.entity, publishability |-> entry.publishability,
                   evidence_ids |-> IF known THEN state.claims[c.id].evidence_ids ELSE <<>>]),
   entity_claims |-> IF \E i \in DOMAIN now : now[i] = c.id THEN left ELSE At1(left, c.entity, Append(now, c.id))]
ApplyEvidenceFact(state, entry) ==
  LET e == entry.evidence  view == state.claims[e.claim] IN
  IF \E i \in DOMAIN view.evidence_ids : view.evidence_ids[i] = e.id THEN state
  ELSE [claims |-> At1(state.claims, e.claim,
                       [entity |-> view.entity, publishability |-> view.publishability,
                        evidence_ids |-> Append(view.evidence_ids, e.id)]),
        entity_claims |-> state.entity_claims]
ApplyFact(t, state, entry) ==
  IF entry.tenant # t THEN state
  ELSE IF entry.kind = "claim" THEN ApplyClaimFact(state, entry) ELSE ApplyEvidenceFact(state, entry)
ProjectionOf(t, l) ==
  LET state[n \in 0..Len(l)] == IF n = 0 THEN EmptyProjection ELSE ApplyFact(t, state[n - 1], l[n])
  IN state[Len(l)]
BuildQeegProjection(t) == ProjectionOf(t, ledger[t])
SummarizeLedger(t) ==
  <<Cardinality({ledger[t][i].claim.id : i \in {k \in DOMAIN ledger[t] : ledger[t][k].kind = "claim"}}),
    Cardinality({ledger[t][i].evidence.id : i \in {k \in DOMAIN ledger[t] : ledger[t][k].kind = "evidence"}})>>

(* The chain verifies after every operation, the versions an operation     *)
(* adds behind its own entry included, and holds its tenant's records only *)
(* (verify_ledger_chain over append_claim, append_evidence and             *)
(* set_evidence_link_status).                                              *)
LedgerVerifies ==
  \A t \in LedgerTenants :
    /\ VerifyLedgerChain(ledger[t]) = 0
    /\ \A i \in DOMAIN ledger[t] : ledger[t][i].tenant = t

(* The publishability a reader gets is that of the links as they are now,  *)
(* at the time the claim was last evaluated: a claim is publishable only   *)
(* with evidence that is still linked and was fresh then, and is withheld  *)
(* only if there was none (_reevaluate, get_claim_publishability).         *)
PublishabilityIsCurrent ==
  \A t \in LedgerTenants : \A id \in DOMAIN evaluated_at[t] :
    LET good == {ledger[t][i].evidence.id : i \in
                   {k \in DOMAIN ledger[t] : /\ ledger[t][k].kind = "evidence" /\ ledger[t][k].evidence.claim = id
                                             /\ link_statuses[t][ledger[t][k].evidence.id] = "linked"
                                             /\ evaluated_at[t][id] - MaxAgeSeconds <= ledger[t][k].evidence.checked_at
                                             /\ ledger[t][k].evidence.checked_at <= evaluated_at[t][id]}}
        p == GetClaimPublishability(t, id) IN
    /\ p.publishable = (good # {})
    /\ p.supporting = good
    /\ p.publishable = (p.reasons = {})

(* The projection rebuilt from the ledger says of every claim what the     *)
(* ledger says last, lists each of its evidence once and in the order of   *)
(* the ledger, and the claim once, under its entity and no other; the      *)
(* summary counts the same claims and evidence (build_qeeg_projection,     *)
(* summarize_ledger).                                                      *)
ListsEvidence(l, id, ids) ==
  /\ Range(ids) = {e.id : e \in AllEvidenceForClaim(l, id)}
  /\ \A i, k \in DOMAIN ids :
       i < k => \A a \in EvidenceWithId(l, ids[i]), b \in EvidenceWithId(l, ids[k]) : a < b
ListsClaim(p, id) ==
  /\ p.claims[id].entity \in DOMAIN p.entity_claims
  /\ \A entity \in DOMAIN p.entity_claims :
       Cardinality({i \in DOMAIN p.entity_claims[entity] : p.entity_claims[entity][i] = id}) =
         IF entity = p.claims[id].entity THEN 1 ELSE 0
ProjectionAgrees ==
  \A t \in LedgerTenants :
    LET p == BuildQeegProjection(t) IN
    /\ DOMAIN p.claims = DOMAIN evaluated_at[t] /\ SummarizeLedger(t)[1] = Cardinality(DOMAIN p.claims)
    /\ \A id \in DOMAIN p.claims :
         /\ p.claims[id].publishability = GetClaimPublishability(t, id)
         /\ p.claims[id].entity = LatestClaim(ledger[t], id).claim.entity
         /\ ListsEvidence(ledger[t], id, p.claims[id].evidence_ids) /\ ListsClaim(p, id)
    /\ Cardinality(DOMAIN link_statuses[t]) = SummarizeLedger(t)[2]

(* Entries are only ever added at the end, and a call that was refused or  *)
(* repeated adds none.                                                     *)
LedgerAppendsOnly ==
  [][\A t \in LedgerTenants :
       /\ IsPrefix(ledger[t], ledger'[t])
       /\ answered' \notin {"entry", "none"} => ledger'[t] = ledger[t]
       /\ \A i, k \in DOMAIN ledger'[t] :
            /\ ledger'[t][i].kind = "evidence" /\ ledger'[t][k].kind = "evidence" /\ i # k
            => ledger'[t][i].evidence.id # ledger'[t][k].evidence.id]_ledgerVars

(* The ledger verifies and only grows, and a publishable claim rests on    *)
(* evidence linked now.                                                    *)
LedgerHolds == [](LedgerTypeOK /\ LedgerVerifies /\ PublishabilityIsCurrent) /\ LedgerAppendsOnly

(* That, and the projection agrees with the ledger.                        *)
ClaimsAreCurrent == LedgerHolds /\ []ProjectionAgrees
=============================================================================

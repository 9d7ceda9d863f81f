--------------------------- MODULE EvidenceProofs ---------------------------
(***************************************************************************)
(* Proofs about the stores of what was learnt: the experiment ledger, the  *)
(* way of evidence from a sealed manifest to the skill bank, the vector    *)
(* store, the claim ledger and the analytics store, for any registrations, *)
(* bundles, requests, payloads, programs, claims and workloads.            *)
(* Commitments are computed by recursion along the entries, so what they   *)
(* say of the entries is proved by induction; each induction looks at the  *)
(* least number for which the claim would fail.                            *)
(***************************************************************************)
EXTENDS OutcomeLearning, ClaimLedger, VectorStore, AnalyticsStore, TupleLemmas

-----------------------------------------------------------------------------
(* Commitments.                                                            *)

Link(f, es, i) == ComputeCommitment(IF i = 1 THEN NoCommitment ELSE f[i - 1], es[i], i)

(* compute_entry_commitments is defined, whatever the entries.             *)
LEMMA ChainExists ==
  ASSUME NEW es, NEW n \in Nat
  PROVE  \E f : f = [i \in 1..n |-> Link(f, es, i)]
<1> DEFINE P(m) == \E f : f = [i \in 1..m |-> Link(f, es, i)]
           T == {m \in Nat : ~P(m)}
<1> SUFFICES ASSUME T # {} PROVE FALSE
  OBVIOUS
<1>1. PICK m \in T : \A y \in T : m <= y
  BY LeastNumber
<1>2. m # 0
  <2>1. <<>> = [i \in 1..0 |-> Link(<<>>, es, i)]
    OBVIOUS
  <2>2. P(0)
    BY <2>1
  <2> QED
    BY <2>2
<1>3. m - 1 \in Nat /\ m - 1 \notin T
  BY <1>1, <1>2
<1>4. PICK f : f = [i \in 1..(m - 1) |-> Link(f, es, i)]
  BY <1>3
<1> DEFINE g == [i \in 1..m |-> IF i = m THEN Link(f, es, i) ELSE f[i]]
<1>5. \A i \in 1..m : g[i] = Link(g, es, i)
  BY <1>3, <1>4 DEF Link
<1>6. DOMAIN g = 1..m /\ g = [i \in 1..m |-> g[i]]
  OBVIOUS
<1>7. g = [i \in 1..m |-> Link(g, es, i)]
  <2> HIDE DEF g
  <2> QED
    BY <1>5, <1>6
<1>8. P(m)
  BY <1>7
<1> QED
  BY <1>8

(* One commitment per entry, over the entry and the commitment before it.  *)
LEMMA Commitments ==
  ASSUME NEW es, IsTuple(es)
  PROVE  LET c == ComputeEntryCommitments(es) IN
         /\ IsTuple(c) /\ Len(c) = Len(es)
         /\ \A i \in 1..Len(es) : c[i] = Link(c, es, i)
<1> DEFINE D(f) == f = [i \in 1..Len(es) |-> Link(f, es, i)]
           chain == CHOOSE f : D(f)
           c == ComputeEntryCommitments(es)
<1>1. Len(es) \in Nat /\ DOMAIN es = 1..Len(es)
  BY TupleType
<1>2. \E f : D(f)
  BY <1>1, ChainExists
<1>3. D(chain)
  <2> HIDE DEF D
  <2> QED
    BY <1>2
<1>4. c = [i \in 1..Len(es) |-> chain[i]]
  BY <1>1 DEF ComputeEntryCommitments, Link
<1> HIDE DEF chain
<1>5. \A i \in 1..Len(es) : c[i] = chain[i] /\ (i # 1 => c[i - 1] = chain[i - 1])
  BY <1>1, <1>4
<1>6. \A i \in 1..Len(es) : c[i] = Link(c, es, i)
  BY <1>3, <1>5 DEF Link
<1> HIDE DEF c
<1>7. c = [i \in 1..Len(es) |-> c[i]]
  BY <1>4
<1>8. IsTuple(c) /\ Len(c) = Len(es)
  BY <1>1, <1>7, FunctionTuple
<1> QED
  BY <1>6, <1>8 DEF c

(* A commitment says what it commits to, and is not the empty one.         *)
LEMMA CommitmentMeans ==
  ASSUME NEW p, NEW e, NEW i, NEW q, NEW f, NEW j
  PROVE  /\ ComputeCommitment(p, e, i) # NoCommitment
         /\ ComputeCommitment(p, e, i) # <<"unknown">>
         /\ ComputeCommitment(p, e, i) = ComputeCommitment(q, f, j) => p = q /\ e = f /\ i = j
BY DEF ComputeCommitment, NoCommitment

(* A commitment determines every entry up to its own.                      *)
LEMMA CommitmentsDetermine ==
  ASSUME NEW es, IsTuple(es), NEW fs, IsTuple(fs),
         NEW n \in Nat, n <= Len(es), n <= Len(fs),
         n # 0 => ComputeEntryCommitments(es)[n] = ComputeEntryCommitments(fs)[n]
  PROVE  \A i \in 1..n : es[i] = fs[i] /\ ComputeEntryCommitments(es)[i] = ComputeEntryCommitments(fs)[i]
<1> DEFINE c == ComputeEntryCommitments(es)
           d == ComputeEntryCommitments(fs)
           T == {k \in Nat : k < n /\ ~(c[n - k] = d[n - k] /\ es[n - k] = fs[n - k])}
<1>1. Len(es) \in Nat /\ Len(fs) \in Nat
  BY TupleType
<1>2. \A i \in 1..n : c[i] = Link(c, es, i) /\ d[i] = Link(d, fs, i)
  BY <1>1, Commitments
<1> HIDE DEF c, d
<1>3. \A i \in 1..n : c[i] = d[i] => es[i] = fs[i] /\ (i # 1 => c[i - 1] = d[i - 1])
  BY <1>2, CommitmentMeans DEF Link
<1>4. T = {}
  <2> SUFFICES ASSUME T # {} PROVE FALSE
    OBVIOUS
  <2>1. PICK k \in T : \A y \in T : k <= y
    BY LeastNumber
  <2>2. CASE k = 0
    <3>1. n # 0 /\ c[n] = d[n] /\ n \in 1..n
      BY <2>1, <2>2 DEF c, d
    <3> QED
      BY <2>1, <2>2, <3>1, <1>3
  <2>3. CASE k # 0
    <3>1. k - 1 \in Nat /\ k - 1 \notin T /\ k - 1 < n
      BY <2>1, <2>3, SMTT(60)
    <3>2. c[n - (k - 1)] = d[n - (k - 1)]
      BY <3>1
    <3>3. n - (k - 1) \in 1..n /\ n - (k - 1) # 1 /\ (n - (k - 1)) - 1 = n - k /\ n - k \in 1..n
      BY <2>1, <2>3
    <3>4. c[(n - (k - 1)) - 1] = d[(n - (k - 1)) - 1]
      BY <1>3, <3>2, <3>3
    <3>5. c[n - k] = d[n - k]
      BY <3>3, <3>4
    <3> QED
      BY <1>3, <2>1, <3>3, <3>5
  <2> QED
    BY <2>2, <2>3
<1>5. ASSUME NEW i \in 1..n PROVE es[i] = fs[i] /\ c[i] = d[i]
  <2>1. n - i \in Nat /\ n - i < n /\ n - (n - i) = i
    OBVIOUS
  <2> QED
    BY <1>4, <2>1
<1> QED
  BY <1>5 DEF c, d

(* Equal entries up to a place have equal commitments up to there.         *)
LEMMA EntriesDetermine ==
  ASSUME NEW es, IsTuple(es), NEW fs, IsTuple(fs),
         NEW n \in Nat, n <= Len(es), n <= Len(fs), \A i \in 1..n : es[i] = fs[i]
  PROVE  \A i \in 1..n : ComputeEntryCommitments(es)[i] = ComputeEntryCommitments(fs)[i]
<1> DEFINE c == ComputeEntryCommitments(es)
           d == ComputeEntryCommitments(fs)
           T == {i \in 1..n : c[i] # d[i]}
<1> SUFFICES ASSUME T # {} PROVE FALSE
  OBVIOUS
<1>1. Len(es) \in Nat /\ Len(fs) \in Nat
  BY TupleType
<1>2. \A i \in 1..n : c[i] = Link(c, es, i) /\ d[i] = Link(d, fs, i)
  BY <1>1, Commitments
<1> HIDE DEF c, d
<1>3. PICK i \in T : \A j \in T : i <= j
  <2>1. T \subseteq Nat
    OBVIOUS
  <2> QED
    BY <2>1, LeastNumber
<1>4. ASSUME i # 1 PROVE c[i - 1] = d[i - 1]
  <2>1. i - 1 \in 1..n /\ ~(i <= i - 1)
    BY <1>3, <1>4
  <2>2. i - 1 \notin T
    BY <1>3, <2>1
  <2> QED
    BY <2>1, <2>2
<1> QED
  BY <1>2, <1>3, <1>4 DEF Link

(* The head of a bundle is empty, or commits to its last entry.            *)
LEMMA HeadFacts ==
  ASSUME NEW es, IsTuple(es)
  PROVE  /\ Len(es) = 0 => ComputeManifestHash(es) = NoCommitment
         /\ Len(es) # 0 =>
              /\ ComputeManifestHash(es) = ComputeEntryCommitments(es)[Len(es)]
              /\ \E p : ComputeManifestHash(es) = ComputeCommitment(p, es[Len(es)], Len(es))
<1> DEFINE c == ComputeEntryCommitments(es)
           hash == ComputeManifestHash(es)
<1>1. IsTuple(c) /\ Len(c) = Len(es) /\ \A i \in 1..Len(es) : c[i] = Link(c, es, i)
  BY Commitments
<1>2. hash = IF c = <<>> THEN NoCommitment ELSE c[Len(c)]
  BY DEF ComputeManifestHash, ChainHead
<1> HIDE DEF c, hash
<1>3. Len(es) \in Nat
  BY TupleType
<1>4. Len(es) = 0 => c = <<>>
  <2> SUFFICES ASSUME Len(es) = 0 PROVE c = <<>>
    OBVIOUS
  <2> QED
    BY <1>1, EmptyTuple, TupleEqual
<1>5. Len(es) # 0 => c # <<>>
  BY <1>1, EmptyTuple
<1>6. ASSUME Len(es) # 0 PROVE \E p : c[Len(es)] = ComputeCommitment(p, es[Len(es)], Len(es))
  <2>1. Len(es) \in 1..Len(es)
    BY <1>3, <1>6
  <2>2. c[Len(es)] = Link(c, es, Len(es))
    BY <1>1, <2>1
  <2> QED
    BY <2>2 DEF Link
<1>7. /\ Len(es) = 0 => hash = NoCommitment
      /\ Len(es) # 0 => hash = c[Len(es)]
  BY <1>1, <1>2, <1>4, <1>5
<1> QED
  BY <1>6, <1>7 DEF c, hash

(* The manifest hash determines the entries, and is never the unknown one. *)
LEMMA HashDetermines ==
  ASSUME NEW es, IsTuple(es)
  PROVE  /\ ComputeManifestHash(es) # <<"unknown">>
         /\ \A fs : /\ IsTuple(fs)
                    /\ ComputeManifestHash(es) = ComputeManifestHash(fs)
                    => es = fs
<1>0. Len(es) \in Nat
  BY TupleType
<1>1. ComputeManifestHash(es) # <<"unknown">>
  <2>1. NoCommitment # <<"unknown">>
    BY DEF NoCommitment
  <2> QED
    BY <2>1, HeadFacts, CommitmentMeans
<1>2. ASSUME NEW fs, IsTuple(fs), ComputeManifestHash(es) = ComputeManifestHash(fs)
      PROVE  es = fs
  <2>0. Len(fs) \in Nat
    BY <1>2, TupleType
  <2>1. Len(es) = 0 <=> Len(fs) = 0
    BY <1>2, HeadFacts, CommitmentMeans
  <2>2. CASE Len(es) = 0
    BY <1>2, <2>1, <2>2, TupleEqual
  <2>3. CASE Len(es) # 0
    <3>1. PICK p, q : /\ ComputeManifestHash(es) = ComputeCommitment(p, es[Len(es)], Len(es))
                      /\ ComputeManifestHash(fs) = ComputeCommitment(q, fs[Len(fs)], Len(fs))
      BY <1>2, <2>1, <2>3, HeadFacts
    <3>2. Len(es) = Len(fs)
      <4> DEFINE e == es[Len(es)]
                 f == fs[Len(fs)]
      <4>1. ComputeCommitment(p, e, Len(es)) = ComputeCommitment(q, f, Len(fs))
        BY <1>2, <3>1
      <4> HIDE DEF e, f
      <4> QED
        BY <4>1, CommitmentMeans
    <3>3. ComputeEntryCommitments(es)[Len(es)] = ComputeEntryCommitments(fs)[Len(es)]
      BY <1>2, <2>1, <2>3, <3>2, HeadFacts
    <3>4. \A i \in 1..Len(es) : es[i] = fs[i]
      BY <1>0, <1>2, <3>2, <3>3, CommitmentsDetermine
    <3> QED
      BY <1>2, <3>2, <3>4, TupleEqual
  <2> QED
    BY <2>2, <2>3
<1> QED
  BY <1>1, <1>2

-----------------------------------------------------------------------------
(* verify_manifest.                                                        *)

(* What it calls intact has the hash of its entries.                       *)
LEMMA IntactMeans ==
  ASSUME NEW m, VerifyManifest(m).intact
  PROVE  m.manifest_hash = ComputeManifestHash(m.entries)
<1> DEFINE again == ComputeEntryCommitments(m.entries)
<1>1. again = m.entry_commitments /\ ChainHead(again) = m.manifest_hash
  BY DEF VerifyManifest
<1> QED
  BY <1>1 DEF ComputeManifestHash

(* A manifest as sealed is intact.                                         *)
LEMMA SealedIsIntact ==
  ASSUME NEW es PROVE VerifyManifest(Seal(es)).intact
BY DEF VerifyManifest, Seal, ComputeManifestHash

(* It names the first place where the entries differ from the sealed ones. *)
LEMMA VerifyFinds ==
  ASSUME NEW m, NEW origin, IsTuple(m.entries), IsTuple(origin),
         m.entry_commitments = ComputeEntryCommitments(origin), ~VerifyManifest(m).intact
  PROVE  LET v == VerifyManifest(m)
             Same(i) == i \in DOMAIN origin /\ i \in DOMAIN m.entries /\ origin[i] = m.entries[i]
         IN /\ v.at > 0 => ~Same(v.at) /\ \A i \in 1..(v.at - 1) : Same(i)
            /\ v.at = 0 => m.entries = origin
<1> DEFINE es == m.entries
           again == ComputeEntryCommitments(es)
           sealed == ComputeEntryCommitments(origin)
           both == DOMAIN again \cap DOMAIN sealed
           bad == {i \in both : again[i] # sealed[i]}
           v == VerifyManifest(m)
           Same(i) == i \in DOMAIN origin /\ i \in DOMAIN es /\ origin[i] = es[i]
<1>1. /\ Len(es) \in Nat /\ DOMAIN es = 1..Len(es)
      /\ Len(origin) \in Nat /\ DOMAIN origin = 1..Len(origin)
  BY TupleType
<1>2. /\ IsTuple(again) /\ Len(again) = Len(es) /\ DOMAIN again = 1..Len(es)
      /\ IsTuple(sealed) /\ Len(sealed) = Len(origin) /\ DOMAIN sealed = 1..Len(origin)
  BY Commitments, TupleType
<1>3. v.at = IF bad # {} THEN CHOOSE i \in bad : \A j \in bad : i <= j
             ELSE IF Len(again) # Len(sealed) THEN Cardinality(both) + 1 ELSE 0
  BY DEF VerifyManifest
<1>4. ASSUME NEW n \in Nat, n <= Len(es), n <= Len(origin), n # 0 => again[n] = sealed[n]
      PROVE  \A i \in 1..n : es[i] = origin[i]
  BY <1>4, CommitmentsDetermine
<1>5. ASSUME NEW n \in Nat, n # 0, n <= Len(es), n <= Len(origin), \A i \in 1..n : es[i] = origin[i]
      PROVE  again[n] = sealed[n]
  <2>1. n \in 1..n
    BY <1>5
  <2> QED
    BY <1>5, <2>1, EntriesDetermine
<1> HIDE DEF again, sealed, v
<1>6. CASE bad # {}
  <2>1. bad \subseteq Nat
    BY <1>1, <1>2
  <2>2. PICK i \in bad : \A j \in bad : i <= j
    BY <1>6, <2>1, LeastNumber
  <2>3. i = CHOOSE k \in bad : \A j \in bad : k <= j
    <3>1. \A k \in bad : (\A j \in bad : k <= j) => k = i
      BY <2>1, <2>2
    <3> HIDE DEF bad
    <3> QED
      BY <2>2, <3>1
  <2>4. v.at = i
    BY <1>3, <1>6, <2>3
  <2>5. i \in Nat /\ i # 0 /\ i <= Len(es) /\ i <= Len(origin) /\ again[i] # sealed[i]
    BY <1>1, <1>2
  <2>6. \A j \in 1..(i - 1) : es[j] = origin[j]
    <3>1. CASE i = 1
      BY <3>1
    <3>2. CASE i # 1
      <4>1. i - 1 \in both /\ i - 1 \notin bad /\ i - 1 \in Nat
        BY <1>1, <1>2, <2>2, <2>5, <3>2
      <4>2. again[i - 1] = sealed[i - 1]
        BY <4>1
      <4> QED
        BY <1>4, <2>5, <4>1, <4>2
    <3> QED
      BY <3>1, <3>2
  <2>7. ~Same(i)
    <3> SUFFICES ASSUME es[i] = origin[i] PROVE FALSE
      OBVIOUS
    <3>1. \A j \in 1..i : es[j] = origin[j]
      BY <2>5, <2>6
    <3> QED
      BY <1>5, <2>5, <3>1
  <2>8. \A j \in 1..(i - 1) : Same(j)
    BY <1>1, <2>5, <2>6
  <2> QED
    BY <2>4, <2>5, <2>7, <2>8 DEF v
<1>7. CASE bad = {} /\ Len(es) # Len(origin)
  <2> DEFINE k == IF Len(es) < Len(origin) THEN Len(es) ELSE Len(origin)
  <2>1. k \in Nat /\ k <= Len(es) /\ k <= Len(origin) /\ ~(k + 1 <= Len(es) /\ k + 1 <= Len(origin))
    BY <1>1, <1>7
  <2>2. both = 1..k
    BY <1>1, <1>2
  <2> HIDE DEF k
  <2>3. Cardinality(both) = k
    <3>1. Cardinality(1..k) = IF 1 > k THEN 0 ELSE k - 1 + 1
      BY <2>1, FS_Interval
    <3>2. Cardinality(1..k) = k
      BY <2>1, <3>1
    <3> HIDE DEF both
    <3> QED
      BY <2>2, <3>2
  <2>4. v.at = k + 1
    BY <1>2, <1>3, <1>7, <2>3
  <2>5. k # 0 => again[k] = sealed[k]
    BY <1>7, <2>1, <2>2
  <2>6. \A j \in 1..k : es[j] = origin[j]
    BY <1>4, <2>1, <2>5
  <2>7. \A j \in 1..k : Same(j)
    BY <1>1, <2>1, <2>6
  <2>8. ~Same(k + 1)
    BY <1>1, <2>1
  <2>9. v.at - 1 = k /\ v.at # 0
    BY <2>1, <2>4
  <2> QED
    BY <2>4, <2>7, <2>8, <2>9 DEF v
<1>8. CASE bad = {} /\ Len(es) = Len(origin)
  <2>1. v.at = 0
    BY <1>2, <1>3, <1>8
  <2>2. Len(es) # 0 => again[Len(es)] = sealed[Len(es)]
    BY <1>1, <1>2, <1>8
  <2>3. \A j \in 1..Len(es) : es[j] = origin[j]
    BY <1>1, <1>4, <1>8, <2>2
  <2>4. es = origin
    BY <1>8, <2>3, TupleEqual
  <2> QED
    BY <2>1, <2>4 DEF v
<1> QED
  BY <1>6, <1>7, <1>8

-----------------------------------------------------------------------------
(* The inductive invariant of the way of evidence.                         *)

ManifestFields == {"entries", "entry_commitments", "manifest_hash"}

(* A stored manifest: kept by the hash of what was sealed; altered or not, *)
(* its chain is the sealed one or it is a manifest sealed anew.            *)
StoredOK(v) ==
  /\ DOMAIN v = {"hash", "manifest", "origin"} /\ DOMAIN v.manifest = ManifestFields
  /\ IsTuple(v.origin) /\ IsTuple(v.manifest.entries)
  /\ v.hash = ComputeManifestHash(v.origin)
  /\ \A i \in DOMAIN v.manifest.entries : EntryOk(v.manifest.entries[i])
  /\ \/ v.manifest.entry_commitments = ComputeEntryCommitments(v.origin)
     \/ v.manifest = Seal(v.manifest.entries)

(* What PassIsBacked and AdmittedIsProven say of one answer.               *)
SealedAs(hash, entries) == \E k \in DOMAIN vault : vault[k].hash = hash /\ vault[k].origin = entries
PublishFits(o) ==
  /\ o.kind \in {"EngineNotPermitted", "PublishRefused", "ValidationError", "published"}
  /\ o.kind = "published" /\ o.req.verdict = "pass" =>
       /\ o.req.layers >= 2 /\ o.seen # NoBundle
       /\ \A i \in DOMAIN o.seen.entries : EntryOk(o.seen.entries[i])
       /\ o.seen.manifest_hash = ComputeManifestHash(o.seen.entries)
       /\ o.req.is_production => o.req.provenance = "production"
PublishedOK(o) ==
  /\ PublishFits(o)
  /\ o.kind = "published" /\ o.req.verdict = "pass" /\ o.seen.manifest_hash = o.hash
       => SealedAs(o.hash, o.seen.entries)

CardFits(c) ==
  /\ c.card.whole /\ c.card.verdict = "pass"
  /\ c.seen # NoBundle
  /\ \A l \in ScannedLeaves(c.card) :
       l.shape = "plain" /\ \A i \in DOMAIN l.path : NameMark[l.path[i]] = "plain"
  /\ c.pool = "production" <=> c.card.provenance = "production"
CardOK(c) ==
  /\ c.pool \in {"none", "production", "test"}
  /\ c.pool # "none" => CardFits(c) /\ SealedAs(c.hash, c.seen.entries)

LearningInv ==
  /\ IsTuple(vault) /\ \A k \in DOMAIN vault : StoredOK(vault[k])
  /\ ~altered => \A k \in DOMAIN vault :
       vault[k].manifest.entry_commitments = ComputeEntryCommitments(vault[k].origin)
  /\ IsTuple(outcomes) /\ \A n \in DOMAIN outcomes : PublishedOK(outcomes[n])
  /\ IsTuple(cards) /\ \A n \in DOMAIN cards : CardOK(cards[n])

(* The invariant is enough.                                                *)
LEMMA LearningInvSuffices == LearningInv => LearningIsBacked
<1> SUFFICES ASSUME LearningInv PROVE LearningIsBacked
  OBVIOUS
<1>1. LearningTypeOK
  BY DEF LearningInv, LearningTypeOK, StoredOK, ManifestFields, PublishedOK, PublishFits, CardOK
<1>2. AlterationsAreFound
  <2> SUFFICES ASSUME NEW k \in DOMAIN vault
      PROVE  LET m == vault[k].manifest
                 origin == vault[k].origin
                 v == VerifyManifest(m)
                 Same(i) == i \in DOMAIN origin /\ i \in DOMAIN m.entries /\ origin[i] = m.entries[i]
             IN /\ v.intact /\ m.manifest_hash = vault[k].hash => m.entries = origin
                /\ ~v.intact /\ v.at > 0 => ~Same(v.at) /\ \A i \in 1..(v.at - 1) : Same(i)
                /\ ~v.intact /\ v.at = 0 => m.entries = origin
    BY DEF AlterationsAreFound
  <2> DEFINE m == vault[k].manifest
             origin == vault[k].origin
  <2>1. StoredOK(vault[k])
    BY DEF LearningInv
  <2>2. /\ IsTuple(origin) /\ IsTuple(m.entries) /\ vault[k].hash = ComputeManifestHash(origin)
        /\ m.entry_commitments = ComputeEntryCommitments(origin) \/ m = Seal(m.entries)
    BY <2>1 DEF StoredOK
  <2> HIDE DEF m, origin
  <2>3. VerifyManifest(m).intact /\ m.manifest_hash = vault[k].hash => m.entries = origin
    BY <2>2, IntactMeans, HashDetermines
  <2>4. ~VerifyManifest(m).intact => m.entry_commitments = ComputeEntryCommitments(origin)
    <3>1. m = Seal(m.entries) => VerifyManifest(m).intact
      BY SealedIsIntact
    <3> QED
      BY <2>2, <3>1
  <2>5. ~VerifyManifest(m).intact =>
          LET v == VerifyManifest(m)
              Same(i) == i \in DOMAIN origin /\ i \in DOMAIN m.entries /\ origin[i] = m.entries[i]
          IN /\ v.at > 0 => ~Same(v.at) /\ \A i \in 1..(v.at - 1) : Same(i)
             /\ v.at = 0 => m.entries = origin
    <3> SUFFICES ASSUME ~VerifyManifest(m).intact
                 PROVE  LET v == VerifyManifest(m)
              Same(i) == i \in DOMAIN origin /\ i \in DOMAIN m.entries /\ origin[i] = m.entries[i]
          IN /\ v.at > 0 => ~Same(v.at) /\ \A i \in 1..(v.at - 1) : Same(i)
             /\ v.at = 0 => m.entries = origin
      OBVIOUS
    <3> QED
      BY <2>2, <2>4, VerifyFinds
  <2> QED
    BY <2>3, <2>5 DEF m, origin
<1>3. PassIsBacked
  BY DEF LearningInv, PublishedOK, PublishFits, SealedAs, PassIsBacked
<1>4. AdmittedIsProven
  BY DEF LearningInv, CardOK, CardFits, SealedAs, AdmittedIsProven
<1> QED
  BY <1>1, <1>2, <1>3, <1>4 DEF LearningIsBacked

LEMMA LearningInitInv == LearningInit => LearningInv
BY EmptyTuple DEF LearningInit, LearningInv

-----------------------------------------------------------------------------
(* The steps.                                                              *)

(* An entry of the vault keeps its hash and origin, so what was published  *)
(* and admitted stays as well founded as it was.                           *)
LEMMA SealedStays ==
  ASSUME \A k \in DOMAIN vault : /\ k \in DOMAIN vault'
                                 /\ vault'[k].hash = vault[k].hash
                                 /\ vault'[k].origin = vault[k].origin,
         NEW hash, NEW entries, SealedAs(hash, entries)
  PROVE  \E k \in DOMAIN vault' : vault'[k].hash = hash /\ vault'[k].origin = entries
BY DEF SealedAs

LEMMA CardsStay ==
  ASSUME LearningInv,
         \A k \in DOMAIN vault : /\ k \in DOMAIN vault'
                                 /\ vault'[k].hash = vault[k].hash
                                 /\ vault'[k].origin = vault[k].origin,
         UNCHANGED cards
  PROVE  \A n \in DOMAIN cards' : CardOK(cards[n])'
<1> SUFFICES ASSUME NEW n \in DOMAIN cards PROVE CardOK(cards[n])'
  OBVIOUS
<1>1. CardOK(cards[n]) /\ cards'[n] = cards[n]
  BY DEF LearningInv
<1> DEFINE c == cards[n]
<1>2. CASE c.pool = "none"
  BY <1>1, <1>2 DEF CardOK
<1>3. CASE c.pool # "none"
  <2>1. CardFits(c) /\ SealedAs(c.hash, c.seen.entries)
    BY <1>1, <1>3 DEF CardOK
  <2>2. \E k \in DOMAIN vault' : vault'[k].hash = c.hash /\ vault'[k].origin = c.seen.entries
    BY <2>1, SealedStays
  <2> QED
    BY <1>1, <2>1, <2>2 DEF CardOK, CardFits, SealedAs
<1> QED
  BY <1>2, <1>3

LEMMA OutcomesStay ==
  ASSUME LearningInv,
         \A k \in DOMAIN vault : /\ k \in DOMAIN vault'
                                 /\ vault'[k].hash = vault[k].hash
                                 /\ vault'[k].origin = vault[k].origin,
         UNCHANGED outcomes
  PROVE  \A n \in DOMAIN outcomes' : PublishedOK(outcomes[n])'
<1> SUFFICES ASSUME NEW n \in DOMAIN outcomes PROVE PublishedOK(outcomes[n])'
  OBVIOUS
<1>1. PublishedOK(outcomes[n]) /\ outcomes'[n] = outcomes[n]
  BY DEF LearningInv
<1> DEFINE o == outcomes[n]
           own == o.kind = "published" /\ o.req.verdict = "pass" /\ o.seen.manifest_hash = o.hash
<1>2. PublishFits(o)'
  BY <1>1 DEF PublishedOK, PublishFits
<1>3. own => \E k \in DOMAIN vault' : vault'[k].hash = o.hash /\ vault'[k].origin = o.seen.entries
  <2> SUFFICES ASSUME own PROVE \E k \in DOMAIN vault' : vault'[k].hash = o.hash /\ vault'[k].origin = o.seen.entries
    OBVIOUS
  <2>1. SealedAs(o.hash, o.seen.entries)
    BY <1>1 DEF PublishedOK
  <2> QED
    BY <2>1, SealedStays
<1> QED
  BY <1>1, <1>2, <1>3 DEF PublishedOK, SealedAs

(* What a bundle that passes its checks is sealed into.                    *)
LEMMA SealFacts ==
  ASSUME NEW es
  PROVE  /\ DOMAIN Seal(es) = ManifestFields /\ Seal(es).entries = es
         /\ Seal(es).entry_commitments = ComputeEntryCommitments(es)
         /\ Seal(es).manifest_hash = ComputeManifestHash(es)
BY DEF Seal, ManifestFields

LEMMA SealBundleStep ==
  ASSUME LearningInv, NEW es \in Bundles, SealBundle(es)
  PROVE  LearningInv'
<1> DEFINE m == Seal(es)
           v == [hash |-> m.manifest_hash, manifest |-> m, origin |-> es]
<1>1. vault' = Append(vault, v) /\ UNCHANGED <<altered, outcomes, cards>> /\ \A i \in DOMAIN es : EntryOk(es[i])
  BY DEF SealBundle
<1>2. IsTuple(es)
  BY BundlesAreTuples DEF IsTuple
<1>3. StoredOK(v) /\ v.manifest.entry_commitments = ComputeEntryCommitments(v.origin)
  BY <1>1, <1>2, SealFacts DEF StoredOK
<1> HIDE DEF v
<1>4. IsTuple(vault) /\ Len(vault) \in Nat /\ DOMAIN vault = 1..Len(vault)
  BY TupleType DEF LearningInv
<1>5. /\ IsTuple(vault') /\ Len(vault') = Len(vault) + 1 /\ vault'[Len(vault) + 1] = v
      /\ \A k \in 1..Len(vault) : vault'[k] = vault[k]
  BY <1>1, <1>4, TupleAppend
<1>6. DOMAIN vault' = 1..(Len(vault) + 1)
  BY <1>5, TupleType
<1>7. /\ \A k \in DOMAIN vault' : StoredOK(vault'[k])
      /\ ~altered => \A k \in DOMAIN vault' :
           vault'[k].manifest.entry_commitments = ComputeEntryCommitments(vault'[k].origin)
  BY <1>3, <1>4, <1>5, <1>6 DEF LearningInv
<1>8. /\ \A n \in DOMAIN cards' : CardOK(cards[n])'
      /\ \A n \in DOMAIN outcomes' : PublishedOK(outcomes[n])'
  BY <1>1, <1>4, <1>5, <1>6, CardsStay, OutcomesStay
<1> QED
  BY <1>1, <1>5, <1>7, <1>8 DEF LearningInv

(* Other entries, all of them valid, under the sealed chain.               *)
LEMMA OtherEntries ==
  ASSUME NEW v, StoredOK(v), v.manifest.entry_commitments = ComputeEntryCommitments(v.origin),
         NEW es, IsTuple(es), \A i \in DOMAIN es : EntryOk(es[i])
  PROVE  StoredOK([v EXCEPT !.manifest = [v.manifest EXCEPT !.entries = es]])
<1> DEFINE x == [v.manifest EXCEPT !.entries = es]
           w == [v EXCEPT !.manifest = x]
<1>1. /\ DOMAIN x = ManifestFields /\ x.entries = es
      /\ x.entry_commitments = v.manifest.entry_commitments
  BY DEF StoredOK, ManifestFields
<1>2. DOMAIN w = DOMAIN v /\ w.hash = v.hash /\ w.origin = v.origin /\ w.manifest = x
  <2> HIDE DEF x
  <2> QED
    BY DEF StoredOK
<1> HIDE DEF x, w
<1>3. StoredOK(w)
  BY <1>1, <1>2 DEF StoredOK
<1> QED
  BY <1>3 DEF w, x

(* The alterations of one stored manifest that AlterVault makes.           *)
LEMMA AlterationOK ==
  ASSUME NEW v, StoredOK(v), v.manifest.entry_commitments = ComputeEntryCommitments(v.origin), NEW x,
         LET m == v.manifest
             es == m.entries
             n == Len(es)
         IN \/ \E i, j \in DOMAIN es :
                 x = [m EXCEPT !.entries = [es EXCEPT ![i] = es[j], ![j] = es[i]]]
            \/ n > 0 /\ x = [m EXCEPT !.entries = SubSeq(es, 1, n - 1)]
            \/ n > 0 /\ x = [m EXCEPT !.entries = Append(es, es[1])]
            \/ n > 0 /\ x = [m EXCEPT !.manifest_hash = NoCommitment]
            \/ \E other \in Bundles :
                 (\A i \in DOMAIN other : EntryOk(other[i])) /\ x = Seal(other)
  PROVE  StoredOK([v EXCEPT !.manifest = x])
<1> DEFINE m == v.manifest
           es == m.entries
           n == Len(es)
           w == [v EXCEPT !.manifest = x]
<1>1. n \in Nat /\ DOMAIN es = 1..n /\ IsTuple(es) /\ es = [i \in 1..n |-> es[i]]
  BY TupleType DEF StoredOK
<1>2. \A i \in 1..n : EntryOk(es[i])
  BY <1>1 DEF StoredOK
<1>3. DOMAIN w = DOMAIN v /\ w.hash = v.hash /\ w.origin = v.origin /\ w.manifest = x
  BY DEF StoredOK
<1>4. CASE \E i, j \in DOMAIN es :
             x = [m EXCEPT !.entries = [es EXCEPT ![i] = es[j], ![j] = es[i]]]
  <2>1. PICK i, j \in 1..n : x = [m EXCEPT !.entries = [es EXCEPT ![i] = es[j], ![j] = es[i]]]
    BY <1>1, <1>4
  <2> DEFINE fs == [es EXCEPT ![i] = es[j], ![j] = es[i]]
  <2> HIDE DEF es, n
  <2>2. DOMAIN fs = 1..n /\ fs = [l \in 1..n |-> fs[l]]
    BY <1>1
  <2>3. \A l \in 1..n : \E k \in 1..n : fs[l] = es[k]
    BY <1>1
  <2> HIDE DEF fs
  <2>4. IsTuple(fs) /\ \A l \in DOMAIN fs : EntryOk(fs[l])
    BY <1>1, <1>2, <2>2, <2>3, FunctionTuple
  <2>5. x = [v.manifest EXCEPT !.entries = fs]
    BY <2>1 DEF fs, es
  <2> QED
    BY <2>4, <2>5, OtherEntries
<1>5. CASE n > 0 /\ x = [m EXCEPT !.entries = SubSeq(es, 1, n - 1)]
  <2> DEFINE fs == SubSeq(es, 1, n - 1)
  <2>1. /\ fs \in Seq({es[i] : i \in DOMAIN es}) /\ Len(fs) = n - 1
        /\ \A l \in 1..(n - 1) : fs[l] = es[l]
    <3> HIDE DEF es
    <3> QED
      BY <1>1, <1>5 DEF IsTuple
  <2> HIDE DEF fs, es, n
  <2>2. DOMAIN fs = 1..(n - 1) /\ fs = [l \in 1..(n - 1) |-> fs[l]] /\ n - 1 \in Nat
    BY <1>1, <1>5, <2>1
  <2>3. IsTuple(fs) /\ \A l \in DOMAIN fs : EntryOk(fs[l])
    BY <1>1, <1>2, <2>1, <2>2, FunctionTuple
  <2>4. x = [v.manifest EXCEPT !.entries = fs]
    BY <1>5 DEF fs, es, n
  <2> QED
    BY <2>3, <2>4, OtherEntries
<1>6. CASE n > 0 /\ x = [m EXCEPT !.entries = Append(es, es[1])]
  <2> DEFINE fs == Append(es, es[1])
  <2>1. /\ IsTuple(fs) /\ Len(fs) = n + 1 /\ fs[n + 1] = es[1]
        /\ \A l \in 1..n : fs[l] = es[l]
    BY <1>1, TupleAppend
  <2> HIDE DEF fs, es, n
  <2>2. DOMAIN fs = 1..(n + 1)
    BY <2>1, TupleType
  <2>3. \A l \in DOMAIN fs : EntryOk(fs[l])
    BY <1>1, <1>2, <1>6, <2>1, <2>2
  <2>4. x = [v.manifest EXCEPT !.entries = fs]
    BY <1>6 DEF fs, es, n
  <2> QED
    BY <2>1, <2>3, <2>4, OtherEntries
<1>7. CASE n > 0 /\ x = [m EXCEPT !.manifest_hash = NoCommitment]
  <2>1. DOMAIN x = ManifestFields /\ x.entries = es /\ x.entry_commitments = m.entry_commitments
    BY <1>7 DEF StoredOK, ManifestFields
  <2> HIDE DEF w
  <2> QED
    BY <1>3, <2>1 DEF StoredOK, w
<1>8. CASE \E other \in Bundles : (\A i \in DOMAIN other : EntryOk(other[i])) /\ x = Seal(other)
  <2>1. PICK other \in Bundles : (\A i \in DOMAIN other : EntryOk(other[i])) /\ x = Seal(other)
    BY <1>8
  <2>2. IsTuple(other)
    BY BundlesAreTuples DEF IsTuple
  <2>3. DOMAIN x = ManifestFields /\ x.entries = other /\ x = Seal(x.entries)
    BY <2>1, SealFacts
  <2> HIDE DEF w
  <2> QED
    BY <1>3, <2>1, <2>2, <2>3 DEF StoredOK, w
<1> QED
  BY <1>4, <1>5, <1>6, <1>7, <1>8

LEMMA AlterVaultStep ==
  ASSUME LearningInv, NEW k \in DOMAIN vault, AlterVault(k)
  PROVE  LearningInv'
<1> DEFINE v == vault[k]
           m == v.manifest
           es == m.entries
           n == Len(es)
<1>1. altered' = TRUE /\ UNCHANGED <<outcomes, cards>>
      /\ StoredOK(v) /\ m.entry_commitments = ComputeEntryCommitments(v.origin)
  BY DEF AlterVault, LearningInv
<1>2. PICK x : /\ vault' = [vault EXCEPT ![k].manifest = x]
               /\ \/ \E i, j \in DOMAIN es :
                       x = [m EXCEPT !.entries = [es EXCEPT ![i] = es[j], ![j] = es[i]]]
                  \/ n > 0 /\ x = [m EXCEPT !.entries = SubSeq(es, 1, n - 1)]
                  \/ n > 0 /\ x = [m EXCEPT !.entries = Append(es, es[1])]
                  \/ n > 0 /\ x = [m EXCEPT !.manifest_hash = NoCommitment]
                  \/ \E other \in Bundles :
                       (\A i \in DOMAIN other : EntryOk(other[i])) /\ x = Seal(other)
  BY Zenon DEF AlterVault
<1>3. StoredOK([v EXCEPT !.manifest = x])
  BY <1>1, <1>2, AlterationOK
<1>4. /\ IsTuple(vault) /\ Len(vault) \in Nat /\ DOMAIN vault = 1..Len(vault)
  BY TupleType DEF LearningInv
<1>5. /\ DOMAIN vault' = DOMAIN vault /\ vault' = [l \in 1..Len(vault) |-> vault'[l]]
      /\ vault'[k] = [v EXCEPT !.manifest = x]
      /\ \A l \in DOMAIN vault \ {k} : vault'[l] = vault[l]
  BY <1>2, <1>4
<1>6. IsTuple(vault')
  BY <1>4, <1>5, FunctionTuple
<1>7. \A l \in DOMAIN vault' : StoredOK(vault'[l])
  BY <1>3, <1>5 DEF LearningInv
<1>8. vault'[k].hash = v.hash /\ vault'[k].origin = v.origin
  BY <1>1, <1>5 DEF StoredOK
<1>9. /\ \A l \in DOMAIN cards' : CardOK(cards[l])'
      /\ \A l \in DOMAIN outcomes' : PublishedOK(outcomes[l])'
  BY <1>1, <1>5, <1>8, CardsStay, OutcomesStay
<1> QED
  BY <1>1, <1>6, <1>7, <1>9 DEF LearningInv

(* What the publisher finds is a stored manifest.                          *)
LEMMA LookupFinds ==
  ASSUME NEW hash, Lookup(hash) # NoBundle
  PROVE  \E k \in DOMAIN vault : vault[k].hash = hash /\ Lookup(hash) = vault[k].manifest
BY DEF Lookup

LEMMA PublishStep ==
  ASSUME LearningInv, NEW req \in OutcomeRequests, NEW hash \in KnownHashes, Publish(req, hash)
  PROVE  LearningInv'
<1> DEFINE m == Lookup(hash)
           O(kind, results) == [kind |-> kind, req |-> req, hash |-> hash, seen |-> m, results |-> results]
<1>1. UNCHANGED <<vault, altered, cards>>
  BY DEF Publish
<1>2. PICK kind, results :
        /\ outcomes' = Append(outcomes, O(kind, results))
        /\ kind \in {"EngineNotPermitted", "PublishRefused", "ValidationError", "published"}
        /\ kind = "published" /\ req.verdict = "pass" => EnforcePassPolicyGate(req, m)
  <2> HIDE DEF m, O
  <2>1. CASE req.engine # "chatgpt-search" /\ outcomes' = Append(outcomes, O("EngineNotPermitted", {}))
    BY <2>1
  <2>2. CASE outcomes' = Append(outcomes, O("PublishRefused", {}))
    BY <2>2
  <2>3. CASE /\ req.verdict = "pass" => EnforcePassPolicyGate(req, m)
             /\ IF hash = NoCommitment THEN outcomes' = Append(outcomes, O("ValidationError", {}))
                ELSE outcomes' = Append(outcomes, O("published", {PerSignalResult(s) : s \in req.signals}))
    BY <2>3
  <2> QED
    BY <2>1, <2>2, <2>3 DEF Publish, m, O
<1> DEFINE o == O(kind, results)
<1>3. o.kind = kind /\ o.req = req /\ o.seen = m /\ o.hash = hash
  OBVIOUS
<1> HIDE DEF o, m
<1>4. ASSUME EnforcePassPolicyGate(req, m)
      PROVE  /\ req.layers >= 2 /\ m # NoBundle
             /\ \A i \in DOMAIN m.entries : EntryOk(m.entries[i])
             /\ m.manifest_hash = ComputeManifestHash(m.entries)
             /\ req.is_production => req.provenance = "production"
             /\ m.manifest_hash = hash => SealedAs(hash, m.entries)
  <2>1. /\ req.layers >= 2 /\ m # NoBundle /\ VerifyManifest(m).intact
        /\ req.is_production => req.provenance = "production"
    BY <1>4 DEF EnforcePassPolicyGate, MIN_INDEPENDENT_LAYERS
  <2>2. PICK k \in DOMAIN vault : m = vault[k].manifest /\ vault[k].hash = hash
    BY <2>1, LookupFinds DEF m
  <2>3. /\ \A i \in DOMAIN m.entries : EntryOk(m.entries[i])
        /\ IsTuple(m.entries) /\ IsTuple(vault[k].origin) /\ hash = ComputeManifestHash(vault[k].origin)
    BY <2>2 DEF LearningInv, StoredOK
  <2>4. m.manifest_hash = ComputeManifestHash(m.entries)
    BY <2>1, <2>3, IntactMeans
  <2>5. m.manifest_hash = hash => vault[k].origin = m.entries
    BY <2>3, <2>4, HashDetermines
  <2> QED
    BY <2>1, <2>2, <2>3, <2>4, <2>5 DEF SealedAs
<1>5. PublishedOK(o)
  BY <1>2, <1>3, <1>4 DEF PublishedOK, PublishFits
<1>6. IsTuple(outcomes) /\ Len(outcomes) \in Nat /\ DOMAIN outcomes = 1..Len(outcomes)
  BY TupleType DEF LearningInv
<1>7. /\ IsTuple(outcomes') /\ Len(outcomes') = Len(outcomes) + 1 /\ outcomes'[Len(outcomes) + 1] = o
      /\ \A n \in 1..Len(outcomes) : outcomes'[n] = outcomes[n]
  BY <1>2, <1>6, TupleAppend DEF o, m
<1>8. DOMAIN outcomes' = 1..(Len(outcomes) + 1)
  BY <1>7, TupleType
<1>9. \A n \in DOMAIN outcomes' : PublishedOK(outcomes'[n])
  BY <1>5, <1>6, <1>7, <1>8 DEF LearningInv
<1>10. \A n \in DOMAIN cards' : CardOK(cards[n])'
  BY <1>1, CardsStay
<1>11. \A n \in DOMAIN outcomes' : PublishedOK(outcomes[n])'
  BY <1>1, <1>9 DEF PublishedOK, PublishFits, SealedAs
<1> QED
  BY <1>1, <1>7, <1>10, <1>11 DEF LearningInv

(* A payload without a reason against it is clean.                         *)
LEMMA NoReason ==
  ASSUME NEW card, NEW hash, NEW m, RejectReasons(card, hash, m) = {}
  PROVE  /\ card.verdict = "pass" /\ EvidenceReasons(m, hash) = {}
         /\ \A l \in ScannedLeaves(card) :
              l.shape = "plain" /\ \A i \in DOMAIN l.path : NameMark[l.path[i]] = "plain"
<1>1. /\ card.verdict = "pass" /\ EvidenceReasons(m, hash) = {}
      /\ \A l \in ScannedLeaves(card) : GuardValue(l) = {}
  BY DEF RejectReasons
<1>2. ASSUME NEW l \in ScannedLeaves(card)
      PROVE  l.shape = "plain" /\ \A i \in DOMAIN l.path : NameMark[l.path[i]] = "plain"
  <2> DEFINE marked == {i \in DOMAIN l.path : NameMark[l.path[i]] # "plain"}
  <2>1. marked = {} /\ l.shape = "plain"
    BY <1>1 DEF GuardValue
  <2> QED
    BY <2>1
<1> QED
  BY <1>1, <1>2

LEMMA EvaluateCardStep ==
  ASSUME LearningInv, NEW card \in CardPayloads, NEW hash \in KnownHashes,
         NEW m \in HeldManifests, EvaluateCard(card, hash, m)
  PROVE  LearningInv'
<1> DEFINE c == EvaluatePayload(card, hash, m)
           reasons == IF IsCandidate(card, hash) THEN RejectReasons(card, hash, m)
                                                 ELSE {"missing_required_field"}
<1>1. UNCHANGED <<vault, altered, outcomes>> /\ cards' = Append(cards, c)
  BY DEF EvaluateCard
<1>2. /\ c.card = card /\ c.hash = hash /\ c.seen = m
      /\ c.pool = IF reasons # {} THEN "none"
                  ELSE IF card.provenance = "production" THEN "production" ELSE "test"
  BY DEF EvaluatePayload
<1> HIDE DEF c
<1>3. ASSUME c.pool = "none" PROVE CardOK(c)
  BY <1>3 DEF CardOK
<1>4. ASSUME c.pool # "none" PROVE CardOK(c)
  <2>1. card.whole /\ RejectReasons(card, hash, m) = {}
    BY <1>2, <1>4 DEF IsCandidate
  <2>2. /\ card.verdict = "pass" /\ EvidenceReasons(m, hash) = {}
        /\ \A l \in ScannedLeaves(card) :
             l.shape = "plain" /\ \A i \in DOMAIN l.path : NameMark[l.path[i]] = "plain"
    BY <2>1, NoReason
  <2>3. m # NoBundle /\ VerifyManifest(m).intact /\ m.manifest_hash = hash
    BY <2>2 DEF EvidenceReasons
  <2>4. PICK j \in DOMAIN vault : m = vault[j].manifest
    BY <2>3 DEF HeldManifests
  <2>5. IsTuple(m.entries) /\ hash = ComputeManifestHash(m.entries)
    BY <2>3, <2>4, IntactMeans DEF LearningInv, StoredOK
  <2>6. hash # <<"unknown">>
    BY <2>5, HashDetermines
  <2>7. PICK k \in DOMAIN vault : vault[k].hash = hash
    BY <2>6 DEF KnownHashes
  <2>8. IsTuple(vault[k].origin) /\ vault[k].hash = ComputeManifestHash(vault[k].origin)
    BY DEF LearningInv, StoredOK
  <2>9. vault[k].origin = m.entries
    BY <2>5, <2>7, <2>8, HashDetermines
  <2>10. CardFits(c)
    BY <1>2, <1>4, <2>1, <2>2, <2>3 DEF CardFits
  <2> QED
    BY <1>2, <1>4, <2>7, <2>9, <2>10 DEF CardOK, SealedAs
<1>5. CardOK(c)
  BY <1>3, <1>4
<1>6. IsTuple(cards) /\ Len(cards) \in Nat /\ DOMAIN cards = 1..Len(cards)
  BY TupleType DEF LearningInv
<1>7. /\ IsTuple(cards') /\ Len(cards') = Len(cards) + 1 /\ cards'[Len(cards) + 1] = c
      /\ \A n \in 1..Len(cards) : cards'[n] = cards[n]
  BY <1>1, <1>6, TupleAppend
<1>8. DOMAIN cards' = 1..(Len(cards) + 1)
  BY <1>7, TupleType
<1>9. \A n \in DOMAIN cards' : CardOK(cards'[n])
  BY <1>5, <1>6, <1>7, <1>8 DEF LearningInv
<1>10. \A n \in DOMAIN cards' : CardOK(cards[n])'
  BY <1>1, <1>9 DEF CardOK, CardFits, SealedAs
<1>11. \A n \in DOMAIN outcomes' : PublishedOK(outcomes[n])'
  BY <1>1, OutcomesStay
<1> QED
  BY <1>1, <1>7, <1>10, <1>11 DEF LearningInv

LEMMA LearningStep == LearningInv /\ [LearningNext]_learningVars => LearningInv'
<1>1. ASSUME LearningInv, UNCHANGED learningVars PROVE LearningInv'
  BY <1>1 DEF LearningInv, learningVars, CardOK, CardFits, PublishedOK, PublishFits, SealedAs, StoredOK
<1> QED
  BY <1>1, SealBundleStep, AlterVaultStep, PublishStep, EvaluateCardStep DEF LearningNext

-----------------------------------------------------------------------------
(* The experiment ledger.                                                  *)

Previous(l, i) == IF i = 1 THEN NoPrevious ELSE l[i - 1].canonical_hash

(* A ledger as register builds it: every entry is linked to the one before *)
(* it, and no experiment has two.                                          *)
Linked(l) ==
  /\ IsTuple(l)
  /\ \A i \in DOMAIN l : l[i].reg \in Registrations /\ l[i] = Entry(l[i].reg, Previous(l, i))
  /\ \A i, j \in DOMAIN l : l[i].reg.experiment_id = l[j].reg.experiment_id => i = j

(* What EditsAreFound says of a copy c of ledger l.                        *)
SameAt(c, l, i) == i \in DOMAIN l /\ SameEntry(c[i], l[i])
Found(c, l) ==
  LET v == VerifyLedger(c) IN
  /\ v = 0 => \A i \in DOMAIN c : SameAt(c, l, i)
  /\ v # 0 => ~SameAt(c, l, v) /\ \A i \in 1..(v - 1) : SameAt(c, l, i)

AnswerOK(l, a) ==
  /\ a.kind \in {"stored", "rejected", "conflict"} /\ a.at \in DOMAIN l
  /\ a.kind = "stored" <=> l[a.at].reg = a.reg
  /\ a.kind = "conflict" => \A f \in DesignFields : l[a.at].reg[f] = a.reg[f]

ExperimentInv ==
  /\ Linked(exp_ledger)
  /\ IsTuple(exp_answers) /\ \A n \in DOMAIN exp_answers : AnswerOK(exp_ledger, exp_answers[n])
  /\ exp_edited \in BOOLEAN /\ (~exp_edited => exp_copy = exp_ledger)
  /\ Found(exp_copy, exp_ledger)

(* The fields of an entry, and what a hash says.                           *)
LEMMA EntryFields ==
  ASSUME NEW r, NEW p
  PROVE  /\ Entry(r, p).reg = r /\ Entry(r, p).previous_hash = p
         /\ Entry(r, p).canonical_hash = ExperimentHash(r, p)
         /\ Entry(r, p).content_fingerprint = ContentFingerprint(r)
         /\ [Entry(r, p) EXCEPT !.previous_hash = p] = Entry(r, p)
BY DEF Entry

LEMMA HashMeans ==
  ASSUME NEW r, NEW p, NEW s, NEW q
  PROVE  /\ ExperimentHash(r, p) # NoPrevious
         /\ ExperimentHash(r, p) = ExperimentHash(s, q) => r = s /\ p = q
BY DEF ExperimentHash, ContentFingerprint, NoPrevious

LEMMA LinkedFacts ==
  ASSUME NEW l, Linked(l), NEW i \in DOMAIN l
  PROVE  /\ l[i].previous_hash = Previous(l, i)
         /\ l[i].canonical_hash = ExperimentHash(l[i].reg, Previous(l, i))
         /\ l[i].content_fingerprint = ContentFingerprint(l[i].reg)
         /\ [l[i] EXCEPT !.previous_hash = Previous(l, i)] = l[i]
<1>1. l[i] = Entry(l[i].reg, Previous(l, i))
  BY DEF Linked
<1> DEFINE r == l[i].reg
           p == Previous(l, i)
<1>2. l[i] = Entry(r, p)
  BY <1>1
<1> HIDE DEF r, p
<1>3. /\ l[i].previous_hash = p /\ l[i].canonical_hash = ExperimentHash(r, p)
      /\ l[i].content_fingerprint = ContentFingerprint(r)
      /\ [l[i] EXCEPT !.previous_hash = p] = l[i]
  BY <1>2, EntryFields
<1> QED
  BY <1>3 DEF r, p

(* verify_ledger names the first entry that is not intact.                 *)
LEMMA VerifyNames ==
  ASSUME NEW c, IsTuple(c)
  PROVE  /\ (\A i \in DOMAIN c : Intact(c, i)) => VerifyLedger(c) = 0
         /\ \A n \in DOMAIN c :
              ~Intact(c, n) /\ (\A j \in 1..(n - 1) : Intact(c, j)) => VerifyLedger(c) = n
<1>1. (\A i \in DOMAIN c : Intact(c, i)) => VerifyLedger(c) = 0
  BY DEF VerifyLedger
<1>2. ASSUME NEW n \in DOMAIN c, ~Intact(c, n), \A j \in 1..(n - 1) : Intact(c, j)
      PROVE  VerifyLedger(c) = n
  <2> DEFINE First(i) == ~Intact(c, i) /\ \A j \in 1..(i - 1) : Intact(c, j)
  <2>1. Len(c) \in Nat /\ DOMAIN c = 1..Len(c)
    BY TupleType
  <2>2. First(n)
    BY <1>2
  <2>3. \A i \in DOMAIN c : First(i) => i = n
    BY <1>2, <2>1
  <2>4. VerifyLedger(c) = CHOOSE i \in DOMAIN c : First(i)
    BY <1>2 DEF VerifyLedger
  <2> HIDE DEF First
  <2> QED
    BY <2>2, <2>3, <2>4
<1> QED
  BY <1>1, <1>2

(* A linked ledger verifies, and so does any part of it from the start.    *)
LEMMA LinkedIsIntact ==
  ASSUME NEW l, Linked(l), NEW c, NEW n \in Nat,
         \A k \in 1..n : k \in DOMAIN l /\ SameEntry(c[k], l[k])
  PROVE  \A k \in 1..n : Intact(c, k)
<1> SUFFICES ASSUME NEW k \in 1..n PROVE Intact(c, k)
  OBVIOUS
<1>1. SameEntry(c[k], l[k]) /\ k \in DOMAIN l /\ (k # 1 => SameEntry(c[k - 1], l[k - 1]))
  OBVIOUS
<1>2. Previous(l, k) = IF k = 1 THEN NoPrevious ELSE c[k - 1].canonical_hash
  BY <1>1 DEF Previous, SameEntry
<1> QED
  BY <1>1, <1>2, LinkedFacts DEF Intact, SameEntry

(* A copy that agrees with the ledger before place n and ends there, or    *)
(* whose entry there is not intact and not the ledger's, is found out.     *)
LEMMA EditFound ==
  ASSUME NEW l, Linked(l), NEW c, IsTuple(c), NEW n \in Nat \ {0},
         \A k \in 1..(n - 1) : k \in DOMAIN l /\ SameEntry(c[k], l[k]),
         \/ DOMAIN c = 1..(n - 1)
         \/ n \in DOMAIN c /\ ~Intact(c, n) /\ ~SameAt(c, l, n)
  PROVE  Found(c, l)
<1>1. \A k \in 1..(n - 1) : Intact(c, k)
  <2>1. PICK p \in Nat : p = n - 1
    OBVIOUS
  <2>2. \A k \in 1..p : k \in DOMAIN l /\ SameEntry(c[k], l[k])
    BY <2>1
  <2>3. \A k \in 1..p : Intact(c, k)
    BY <2>2, LinkedIsIntact
  <2> QED
    BY <2>1, <2>3
<1>2. CASE DOMAIN c = 1..(n - 1)
  <2>1. VerifyLedger(c) = 0
    BY <1>1, <1>2, VerifyNames
  <2> QED
    BY <1>2, <2>1 DEF Found, SameAt
<1>3. CASE n \in DOMAIN c /\ ~Intact(c, n) /\ ~SameAt(c, l, n)
  <2>1. VerifyLedger(c) = n
    BY <1>1, <1>3, VerifyNames
  <2> QED
    BY <1>3, <2>1 DEF Found, SameAt
<1> QED
  BY <1>2, <1>3

(* An entry does not verify at an earlier place.                           *)
LEMMA WrongPlace ==
  ASSUME NEW l, Linked(l), NEW i \in DOMAIN l, NEW j \in DOMAIN l, i < j
  PROVE  l[j].canonical_hash # ExperimentHash(l[j].reg, Previous(l, i))
<1>0. Len(l) \in Nat /\ DOMAIN l = 1..Len(l)
  BY TupleType DEF Linked
<1>1. l[j].canonical_hash = ExperimentHash(l[j].reg, Previous(l, j))
  BY LinkedFacts
<1>2. Previous(l, i) # Previous(l, j)
  <2>1. j # 1 /\ j - 1 \in DOMAIN l /\ Previous(l, j) = l[j - 1].canonical_hash
    BY <1>0 DEF Previous
  <2>2. l[j - 1].canonical_hash = ExperimentHash(l[j - 1].reg, Previous(l, j - 1))
    BY <2>1, LinkedFacts
  <2>3. CASE i = 1
    BY <2>1, <2>2, <2>3, HashMeans DEF Previous
  <2>4. CASE i # 1
    <3>1. i - 1 \in DOMAIN l /\ Previous(l, i) = l[i - 1].canonical_hash /\ i - 1 # j - 1
      BY <1>0, <2>4 DEF Previous
    <3>2. l[i - 1].canonical_hash = ExperimentHash(l[i - 1].reg, Previous(l, i - 1))
      BY <3>1, LinkedFacts
    <3>3. l[i - 1].reg # l[j - 1].reg
      BY <2>1, <3>1 DEF Linked
    <3> QED
      BY <2>1, <2>2, <3>1, <3>2, <3>3, HashMeans
  <2> QED
    BY <2>3, <2>4
<1> QED
  BY <1>1, <1>2, HashMeans

(* Entries put in another order or some of them left out, with the links   *)
(* redone: the first entry that is not at its own place comes from further *)
(* on in the ledger, and does not verify.                                  *)
LEMMA RelinkFound ==
  ASSUME NEW l, Linked(l), NEW d, IsTuple(d), NEW n \in DOMAIN l,
         \A k \in 1..(n - 1) : k \in DOMAIN d /\ d[k] = l[k],
         \/ DOMAIN d = 1..(n - 1)
         \/ n \in DOMAIN d /\ \E j \in DOMAIN l : n < j /\ d[n] = l[j]
  PROVE  Found(Relink(d), l)
<1> DEFINE c == Relink(d)
<1>0. /\ Len(l) \in Nat /\ DOMAIN l = 1..Len(l) /\ n \in Nat \ {0}
      /\ Len(d) \in Nat /\ DOMAIN d = 1..Len(d)
  BY TupleType DEF Linked
<1>1. /\ c = [k \in 1..Len(d) |-> c[k]] /\ DOMAIN c = DOMAIN d
      /\ \A k \in 1..Len(d) :
           c[k] = [d[k] EXCEPT !.previous_hash = IF k = 1 THEN NoPrevious ELSE d[k - 1].canonical_hash]
  BY <1>0 DEF Relink
<1> HIDE DEF c
<1>2. IsTuple(c)
  BY <1>0, <1>1, FunctionTuple
<1>3. ASSUME NEW k \in 1..n, k \in DOMAIN d
      PROVE  c[k] = [d[k] EXCEPT !.previous_hash = Previous(l, k)]
  <2>1. k # 1 => d[k - 1] = l[k - 1]
    BY <1>0
  <2> QED
    BY <1>0, <1>1, <1>3, <2>1 DEF Previous
<1>4. ASSUME NEW k \in 1..(n - 1) PROVE k \in DOMAIN l /\ c[k] = l[k]
  <2>1. k \in 1..n /\ k \in DOMAIN d /\ k \in DOMAIN l /\ d[k] = l[k]
    BY <1>0
  <2> QED
    BY <1>3, <2>1, LinkedFacts
<1>7. \A k \in 1..(n - 1) : k \in DOMAIN l /\ SameEntry(c[k], l[k])
  BY <1>4 DEF SameEntry
<1>5. CASE DOMAIN d = 1..(n - 1)
  BY <1>0, <1>1, <1>2, <1>7, <1>5, EditFound DEF c
<1>6. CASE n \in DOMAIN d /\ \E j \in DOMAIN l : n < j /\ d[n] = l[j]
  <2>1. PICK j \in DOMAIN l : n < j /\ d[n] = l[j]
    BY <1>6
  <2>2. c[n] = [l[j] EXCEPT !.previous_hash = Previous(l, n)]
    BY <1>0, <1>3, <1>6, <2>1
  <2>3. l[j] = Entry(l[j].reg, Previous(l, j))
    BY DEF Linked
  <2>4. /\ c[n].reg = l[j].reg /\ c[n].canonical_hash = l[j].canonical_hash
        /\ c[n].previous_hash = Previous(l, n)
    <3> DEFINE e == l[j]
               p == Previous(l, n)
               r == l[j].reg
               q == Previous(l, j)
    <3>1. e = Entry(r, q) /\ c[n] = [e EXCEPT !.previous_hash = p]
      BY <2>2, <2>3
    <3> HIDE DEF e, p, r, q
    <3>2. c[n].reg = e.reg /\ c[n].canonical_hash = e.canonical_hash /\ c[n].previous_hash = p
      BY <3>1 DEF Entry
    <3> QED
      BY <3>2 DEF e, p
  <2>5. ~Intact(c, n)
    <3>1. l[j].canonical_hash # ExperimentHash(l[j].reg, Previous(l, n))
      BY <2>1, WrongPlace
    <3> QED
      BY <2>4, <3>1 DEF Intact
  <2>6. ~SameAt(c, l, n)
    BY <1>0, <2>1, <2>4 DEF SameAt, SameEntry, Linked
  <2> QED
    BY <1>0, <1>1, <1>2, <1>7, <1>6, <2>5, <2>6, EditFound DEF c
<1> QED
  BY <1>5, <1>6

LEMMA EditStep ==
  ASSUME ExperimentInv, Edit
  PROVE  ExperimentInv'
<1> DEFINE l == exp_ledger
<1>1. /\ Linked(l) /\ exp_copy = l /\ exp_edited' = TRUE /\ UNCHANGED <<exp_ledger, exp_answers>>
  BY DEF ExperimentInv, Edit
<1>2. IsTuple(l) /\ Len(l) \in Nat /\ DOMAIN l = 1..Len(l)
  BY <1>1, TupleType DEF Linked
<1>3. \/ \E i, j \in DOMAIN l : i < j /\ exp_copy' = Relink([l EXCEPT ![i] = l[j], ![j] = l[i]])
      \/ \E i \in DOMAIN l : exp_copy' = Relink(SubSeq(l, 1, i - 1) \o SubSeq(l, i + 1, Len(l)))
      \/ \E i \in DOMAIN l, reg \in Registrations :
           reg # l[i].reg /\ exp_copy' = [l EXCEPT ![i].reg = reg]
      \/ \E i \in DOMAIN l : exp_copy' = [l EXCEPT ![i].content_fingerprint = NoPrevious]
  BY <1>1 DEF Edit
<1> HIDE DEF l
<1>4. ASSUME NEW i \in DOMAIN l, NEW j \in DOMAIN l, i < j,
             exp_copy' = Relink([l EXCEPT ![i] = l[j], ![j] = l[i]])
      PROVE  Found(exp_copy', l)
  <2> DEFINE d == [l EXCEPT ![i] = l[j], ![j] = l[i]]
  <2>1. DOMAIN d = DOMAIN l /\ d[i] = l[j] /\ d = [k \in 1..Len(l) |-> d[k]]
    BY <1>2, <1>4
  <2>2. \A k \in 1..(i - 1) : k \in DOMAIN d /\ d[k] = l[k]
    BY <1>2, <1>4
  <2> HIDE DEF d
  <2>3. IsTuple(d)
    BY <1>2, <2>1, FunctionTuple
  <2>4. Found(Relink(d), l)
    BY <1>1, <1>4, <2>1, <2>2, <2>3, RelinkFound
  <2> QED
    BY <1>4, <2>4 DEF d
<1>5. ASSUME NEW i \in DOMAIN l,
             exp_copy' = Relink(SubSeq(l, 1, i - 1) \o SubSeq(l, i + 1, Len(l)))
      PROVE  Found(exp_copy', l)
  <2> DEFINE a == SubSeq(l, 1, i - 1)
             b == SubSeq(l, i + 1, Len(l))
             d == a \o b
             T == {l[k] : k \in DOMAIN l}
  <2>1. l \in Seq(T)
    BY <1>2 DEF IsTuple
  <2>2. a \in Seq(T) /\ Len(a) = i - 1 /\ \A k \in 1..(i - 1) : a[k] = l[k]
    <3> HIDE DEF T
    <3> QED
      BY <1>2, <2>1
  <2>3. b \in Seq(T) /\ Len(b) = Len(l) - i /\ \A k \in 1..(Len(l) - i) : b[k] = l[i + k]
    <3> HIDE DEF T
    <3> QED
      BY <1>2, <2>1
  <2> HIDE DEF a, b, T
  <2>4. /\ d \in Seq(T) /\ Len(d) = Len(l) - 1 /\ DOMAIN d = 1..(Len(l) - 1)
        /\ \A k \in 1..(i - 1) : d[k] = l[k]
    <3>0. a \in Seq(T) /\ b \in Seq(T)
      BY <2>2, <2>3
    <3>1. d \in Seq(T) /\ Len(d) = Len(a) + Len(b) /\ \A k \in 1..Len(a) : d[k] = a[k]
      BY <3>0
    <3>2. Len(a) + Len(b) = Len(l) - 1
      BY <1>2, <2>2, <2>3
    <3> HIDE DEF d
    <3>3. Len(d) = Len(l) - 1 /\ DOMAIN d = 1..(Len(l) - 1)
      BY <3>1, <3>2
    <3> QED
      BY <2>2, <3>1, <3>3
  <2>5. ASSUME i < Len(l) PROVE i \in DOMAIN d /\ d[i] = l[i + 1] /\ i + 1 \in DOMAIN l
    <3>1. i \in 1..(Len(l) - 1) /\ i > Len(a) /\ i - Len(a) = 1 /\ 1 \in 1..(Len(l) - i)
      BY <1>2, <2>2, <2>5
    <3>2. d[i] = b[1]
      BY <1>2, <2>2, <2>3, <3>1
    <3>3. b[1] = l[i + 1] /\ i + 1 \in DOMAIN l
      BY <1>2, <2>3, <3>1
    <3> HIDE DEF d
    <3> QED
      BY <2>4, <3>1, <3>2, <3>3
  <2> HIDE DEF d
  <2>6. IsTuple(d)
    <3>1. d = [k \in 1..(Len(l) - 1) |-> d[k]] /\ Len(l) - 1 \in Nat
      BY <1>2, <2>4
    <3> QED
      BY <3>1, FunctionTuple
  <2>7. \A k \in 1..(i - 1) : k \in DOMAIN d /\ d[k] = l[k]
    BY <1>2, <2>4
  <2>8. \/ DOMAIN d = 1..(i - 1)
        \/ i \in DOMAIN d /\ \E j \in DOMAIN l : i < j /\ d[i] = l[j]
    <3>1. CASE i = Len(l)
      BY <2>4, <3>1
    <3>2. CASE i # Len(l)
      BY <1>2, <2>5, <3>2
    <3> QED
      BY <3>1, <3>2
  <2>9. Found(Relink(d), l)
    BY <1>1, <2>6, <2>7, <2>8, RelinkFound
  <2> QED
    BY <1>5, <2>9 DEF d, a, b
<1>6. ASSUME NEW i \in DOMAIN l, NEW reg \in Registrations, reg # l[i].reg,
             exp_copy' = [l EXCEPT ![i].reg = reg]
      PROVE  Found(exp_copy', l)
  <2> DEFINE c == exp_copy'
  <2>1. /\ DOMAIN c = DOMAIN l /\ c[i] = [l[i] EXCEPT !.reg = reg] /\ c = [k \in 1..Len(l) |-> c[k]]
        /\ \A k \in DOMAIN l \ {i} : c[k] = l[k]
    BY <1>2, <1>6
  <2> HIDE DEF c
  <2>2. IsTuple(c)
    BY <1>2, <2>1, FunctionTuple
  <2>3. l[i] = Entry(l[i].reg, Previous(l, i))
    BY <1>1 DEF Linked
  <2>4. /\ c[i].reg = reg /\ c[i].canonical_hash = l[i].canonical_hash
        /\ c[i].previous_hash = l[i].previous_hash
    <3> DEFINE e == l[i]
               r == l[i].reg
               q == Previous(l, i)
    <3>1. e = Entry(r, q) /\ c[i] = [e EXCEPT !.reg = reg]
      BY <2>1, <2>3
    <3> HIDE DEF e, r, q
    <3>2. c[i].reg = reg /\ c[i].canonical_hash = e.canonical_hash /\ c[i].previous_hash = e.previous_hash
      BY <3>1 DEF Entry
    <3> QED
      BY <3>2 DEF e
  <2>5. ~Intact(c, i)
    <3>1. l[i].canonical_hash = ExperimentHash(l[i].reg, Previous(l, i)) /\ l[i].previous_hash = Previous(l, i)
      BY <1>1, LinkedFacts
    <3> QED
      BY <1>6, <2>4, <3>1, HashMeans DEF Intact
  <2>6. ~SameAt(c, l, i)
    BY <1>6, <2>4 DEF SameAt, SameEntry
  <2>7. \A k \in 1..(i - 1) : k \in DOMAIN l /\ SameEntry(c[k], l[k])
    BY <1>2, <2>1 DEF SameEntry
  <2> QED
    BY <1>1, <1>2, <2>1, <2>2, <2>5, <2>6, <2>7, EditFound DEF c
<1>7. ASSUME NEW i \in DOMAIN l, exp_copy' = [l EXCEPT ![i].content_fingerprint = NoPrevious]
      PROVE  Found(exp_copy', l)
  <2> DEFINE c == exp_copy'
  <2>1. /\ DOMAIN c = DOMAIN l /\ c[i] = [l[i] EXCEPT !.content_fingerprint = NoPrevious]
        /\ c = [k \in 1..Len(l) |-> c[k]] /\ \A k \in DOMAIN l \ {i} : c[k] = l[k]
    BY <1>2, <1>7
  <2> HIDE DEF c
  <2>2. IsTuple(c)
    BY <1>2, <2>1, FunctionTuple
  <2>3. SameEntry(c[i], l[i])
    <3> DEFINE e == l[i]
               r == l[i].reg
               q == Previous(l, i)
    <3>1. e = Entry(r, q) /\ c[i] = [e EXCEPT !.content_fingerprint = NoPrevious]
      BY <1>1, <2>1 DEF Linked
    <3> HIDE DEF e, r, q
    <3>2. SameEntry(c[i], e)
      BY <3>1 DEF Entry, SameEntry
    <3> QED
      BY <3>2 DEF e
  <2>4. \A k \in 1..Len(l) : k \in DOMAIN l /\ SameEntry(c[k], l[k])
    BY <1>2, <2>1, <2>3 DEF SameEntry
  <2>5. DOMAIN c = 1..((Len(l) + 1) - 1) /\ Len(l) + 1 \in Nat \ {0} /\ (Len(l) + 1) - 1 = Len(l)
    BY <1>2, <2>1
  <2> QED
    BY <1>1, <2>2, <2>4, <2>5, EditFound DEF c
<1>8. Found(exp_copy', l)
  BY <1>3, <1>4, <1>5, <1>6, <1>7
<1> QED
  BY <1>1, <1>8 DEF ExperimentInv, l

(* A new entry keeps the ledger linked.                                    *)
LEMMA AppendLinked ==
  ASSUME NEW l, Linked(l), NEW reg \in Registrations,
         \A i \in DOMAIN l : l[i].reg.experiment_id # reg.experiment_id
  PROVE  LET m == Append(l, Entry(reg, TailHash(l))) IN
         /\ Linked(m) /\ Len(m) = Len(l) + 1 /\ m[Len(l) + 1].reg = reg
         /\ \A i \in DOMAIN l : i \in DOMAIN m /\ m[i] = l[i]
<1> DEFINE e == Entry(reg, TailHash(l))
           m == Append(l, e)
           n == Len(l) + 1
<1>1. IsTuple(l) /\ Len(l) \in Nat /\ DOMAIN l = 1..Len(l)
  BY TupleType DEF Linked
<1> HIDE DEF e
<1>2. IsTuple(m) /\ Len(m) = n /\ m[n] = e /\ \A i \in 1..Len(l) : m[i] = l[i]
  BY <1>1, TupleAppend
<1> HIDE DEF m
<1>3. DOMAIN m = 1..n
  BY <1>2, TupleType
<1>4. TailHash(l) = Previous(m, n)
  <2>1. CASE Len(l) = 0
    <3>1. l = <<>>
      BY <1>1, <2>1, EmptyTuple, TupleEqual
    <3> QED
      BY <2>1, <3>1 DEF TailHash, Previous
  <2>2. CASE Len(l) # 0
    <3>1. l # <<>> /\ n # 1 /\ n - 1 = Len(l) /\ m[Len(l)] = l[Len(l)]
      BY <1>1, <1>2, <2>2, EmptyTuple
    <3> QED
      BY <3>1 DEF TailHash, Previous
  <2> QED
    BY <2>1, <2>2
<1>5. m[n].reg = reg /\ m[n] = Entry(m[n].reg, Previous(m, n))
  BY <1>2, <1>4, EntryFields DEF e
<1>6. ASSUME NEW i \in 1..Len(l) PROVE m[i].reg \in Registrations /\ m[i] = Entry(m[i].reg, Previous(m, i))
  <2>1. m[i] = l[i] /\ (i # 1 => m[i - 1] = l[i - 1])
    BY <1>1, <1>2
  <2>2. Previous(m, i) = Previous(l, i)
    BY <2>1 DEF Previous
  <2> QED
    BY <1>1, <2>1, <2>2 DEF Linked
<1>7. \A i \in DOMAIN m : m[i].reg \in Registrations /\ m[i] = Entry(m[i].reg, Previous(m, i))
  BY <1>1, <1>3, <1>5, <1>6
<1>8. \A i, j \in DOMAIN m : m[i].reg.experiment_id = m[j].reg.experiment_id => i = j
  <2>1. \A i, j \in 1..Len(l) : m[i].reg.experiment_id = m[j].reg.experiment_id => i = j
    BY <1>1, <1>2 DEF Linked
  <2>2. \A i \in 1..Len(l) : m[i].reg.experiment_id # m[n].reg.experiment_id
    BY <1>1, <1>2, <1>5
  <2> QED
    BY <1>1, <1>3, <2>1, <2>2
<1>9. Linked(m)
  BY <1>2, <1>7, <1>8 DEF Linked
<1> QED
  BY <1>1, <1>2, <1>3, <1>5, <1>9 DEF m, e

(* A linked ledger is its own copy.                                        *)
LEMMA LedgerIsFound ==
  ASSUME NEW l, Linked(l)
  PROVE  VerifyLedger(l) = 0 /\ Found(l, l)
<1>1. IsTuple(l) /\ Len(l) \in Nat /\ DOMAIN l = 1..Len(l)
  BY TupleType DEF Linked
<1>2. \A i \in DOMAIN l : Intact(l, i)
  <2>1. \A k \in 1..Len(l) : k \in DOMAIN l /\ SameEntry(l[k], l[k])
    BY <1>1 DEF SameEntry
  <2> QED
    BY <1>1, <2>1, LinkedIsIntact
<1>3. VerifyLedger(l) = 0
  BY <1>1, <1>2, VerifyNames
<1> QED
  BY <1>3 DEF Found, SameAt, SameEntry

(* One more answer, over the same ledger or one with more entries.         *)
LEMMA AnswerStep ==
  ASSUME NEW l, NEW m, NEW s, NEW a, IsTuple(s), \A n \in DOMAIN s : AnswerOK(l, s[n]),
         \A i \in DOMAIN l : i \in DOMAIN m /\ m[i] = l[i], AnswerOK(m, a)
  PROVE  /\ IsTuple(Append(s, a))
         /\ \A n \in DOMAIN Append(s, a) : AnswerOK(m, Append(s, a)[n])
<1> DEFINE t == Append(s, a)
<1>1. Len(s) \in Nat /\ DOMAIN s = 1..Len(s)
  BY TupleType
<1>2. IsTuple(t) /\ Len(t) = Len(s) + 1 /\ t[Len(s) + 1] = a /\ \A n \in 1..Len(s) : t[n] = s[n]
  BY TupleAppend
<1> HIDE DEF t
<1>3. DOMAIN t = 1..(Len(s) + 1)
  BY <1>2, TupleType
<1>4. \A n \in 1..Len(s) : AnswerOK(m, t[n])
  BY <1>1, <1>2 DEF AnswerOK
<1>5. \A n \in DOMAIN t : AnswerOK(m, t[n])
  BY <1>1, <1>2, <1>3, <1>4
<1> QED
  BY <1>2, <1>5 DEF t

LEMMA RegisterStep ==
  ASSUME ExperimentInv, NEW reg \in Registrations, Register(reg)
  PROVE  ExperimentInv'
<1> DEFINE l == exp_ledger
           same == {i \in DOMAIN l : l[i].reg.experiment_id = reg.experiment_id}
           entry == Entry(reg, TailHash(l))
           A(kind, i) == [kind |-> kind, reg |-> reg, at |-> i]
<1>1. /\ Linked(l) /\ IsTuple(exp_answers) /\ exp_edited = FALSE /\ exp_edited' = FALSE
      /\ exp_copy = l /\ \A n \in DOMAIN exp_answers : AnswerOK(l, exp_answers[n])
  BY DEF ExperimentInv, Register
<1>2. Len(l) \in Nat /\ DOMAIN l = 1..Len(l)
  BY <1>1, TupleType DEF Linked
<1>3. CASE /\ same = {} /\ exp_ledger' = Append(l, entry) /\ exp_copy' = exp_ledger'
           /\ exp_answers' = Append(exp_answers, A("stored", Len(l) + 1))
  <2>1. /\ Linked(exp_ledger') /\ Len(exp_ledger') = Len(l) + 1 /\ exp_ledger'[Len(l) + 1].reg = reg
        /\ \A i \in DOMAIN l : i \in DOMAIN exp_ledger' /\ exp_ledger'[i] = l[i]
    BY <1>1, <1>3, AppendLinked
  <2>2. Len(l) + 1 \in DOMAIN exp_ledger'
    BY <1>2, <2>1, TupleType DEF Linked
  <2>3. AnswerOK(exp_ledger', A("stored", Len(l) + 1))
    BY <2>1, <2>2 DEF AnswerOK
  <2>4. IsTuple(exp_answers') /\ \A n \in DOMAIN exp_answers' : AnswerOK(exp_ledger', exp_answers'[n])
    <3> DEFINE a == A("stored", Len(l) + 1)
    <3> HIDE DEF a
    <3>1. exp_answers' = Append(exp_answers, a)
      BY <1>3 DEF a
    <3>2. AnswerOK(exp_ledger', a)
      BY <2>3 DEF a
    <3> QED
      BY <1>1, <2>1, <3>1, <3>2, AnswerStep
  <2> QED
    BY <1>1, <1>3, <2>1, <2>4, LedgerIsFound DEF ExperimentInv
<1>4. CASE \E i \in same :
             /\ \/ /\ ContentFingerprint(l[i].reg) = ContentFingerprint(reg)
                   /\ exp_answers' = Append(exp_answers, A("stored", i))
                \/ /\ ContentFingerprint(l[i].reg) # ContentFingerprint(reg)
                   /\ exp_answers' = Append(exp_answers,
                        A(IF DesignChanged(l[i].reg, reg) THEN "rejected" ELSE "conflict", i))
             /\ UNCHANGED <<exp_ledger, exp_copy>>
  <2>1. PICK i \in same, kind \in {"stored", "rejected", "conflict"} :
          /\ kind = "stored" <=> ContentFingerprint(l[i].reg) = ContentFingerprint(reg)
          /\ kind = "conflict" => ~DesignChanged(l[i].reg, reg)
          /\ exp_answers' = Append(exp_answers, A(kind, i))
    <3> HIDE DEF same, A, l
    <3> QED
      BY <1>4
  <2>2. exp_ledger' = l /\ exp_copy' = l
    BY <1>1, <1>4
  <2>3. ContentFingerprint(l[i].reg) = ContentFingerprint(reg) <=> l[i].reg = reg
    BY DEF ContentFingerprint
  <2>4. kind = "conflict" => \A f \in DesignFields : l[i].reg[f] = reg[f]
    BY <2>1 DEF DesignChanged
  <2> DEFINE a == A(kind, i)
  <2>5. AnswerOK(l, a)
    BY <2>1, <2>3, <2>4 DEF AnswerOK
  <2>6. exp_answers' = Append(exp_answers, a)
    BY <2>1
  <2> HIDE DEF a, l
  <2>7. IsTuple(exp_answers') /\ \A n \in DOMAIN exp_answers' : AnswerOK(l, exp_answers'[n])
    BY <1>1, <2>5, <2>6, AnswerStep
  <2> QED
    BY <1>1, <2>2, <2>7, LedgerIsFound DEF ExperimentInv
<1> QED
  BY <1>3, <1>4 DEF Register

LEMMA ExperimentInitInv == ExperimentInit => ExperimentInv
<1> SUFFICES ASSUME ExperimentInit PROVE ExperimentInv
  OBVIOUS
<1>1. Linked(<<>>)
  BY EmptyTuple DEF Linked
<1> QED
  BY <1>1, EmptyTuple, LedgerIsFound DEF ExperimentInit, ExperimentInv

LEMMA ExperimentStep == ExperimentInv /\ [ExperimentNext]_experimentVars => ExperimentInv'
<1>1. ASSUME ExperimentInv, UNCHANGED experimentVars PROVE ExperimentInv'
  BY <1>1 DEF ExperimentInv, experimentVars
<1> QED
  BY <1>1, RegisterStep, EditStep DEF ExperimentNext

LEMMA ExperimentInvSuffices == ExperimentInv => DesignsAreFixed
<1> SUFFICES ASSUME ExperimentInv PROVE DesignsAreFixed
  OBVIOUS
<1>1. ExperimentTypeOK
  BY LinkedFacts DEF ExperimentInv, ExperimentTypeOK, Linked, AnswerOK
<1>2. DesignIsFixed
  BY LedgerIsFound DEF ExperimentInv, DesignIsFixed, Linked, AnswerOK
<1>3. EditsAreFound
  BY DEF ExperimentInv, EditsAreFound, Found, SameAt
<1> QED
  BY <1>1, <1>2, <1>3 DEF DesignsAreFixed

-----------------------------------------------------------------------------
(* A registered design stays as it was, whatever is registered again, and  *)
(* verify_ledger names an edit of a stored copy no later than where it is, *)
(* also when the links were redone; no altered manifest verifies under its *)
(* hash; a published pass rests on a manifest that verified, an admitted   *)
(* card on the entries sealed under the hash it cites.  For any            *)
(* registrations, bundles, decisions and payloads; of a published pass it  *)
(* does not say that the manifest is the one cited (PassCitesItsEvidence). *)
THEOREM EvidenceAlwaysStands == EvidenceSpec => []EvidenceStands
<1>1. ExperimentInit /\ LearningInit => ExperimentInv /\ LearningInv
  BY ExperimentInitInv, LearningInitInv
<1>2. ExperimentInv /\ LearningInv /\ [EvidenceNext]_<<experimentVars, learningVars>>
        => ExperimentInv' /\ LearningInv'
  BY ExperimentStep, LearningStep DEF EvidenceNext
<1>3. ExperimentInv /\ LearningInv => EvidenceStands
  BY ExperimentInvSuffices, LearningInvSuffices DEF EvidenceStands
<1> QED
  BY <1>1, <1>2, <1>3, PTL DEF EvidenceSpec

(***************************************************************************)
(* The vector store: what any number of clients, at any statement of their *)
(* calls, leave in the table.                                              *)
(***************************************************************************)
(* The rows of the table, by value: ids given out so far and one row for   *)
(* each, none of them gone; a record's active row is its newest.           *)
IsRow(r, n) ==
  /\ r = [id |-> r.id, key |-> r.key, hash |-> r.hash, superseded |-> r.superseded, by |-> r.by, gone |-> r.gone]
  /\ r.id \in 1..(n - 1) /\ r.superseded \in BOOLEAN /\ r.gone \in BOOLEAN
OneRowPerId(rs) == \A r, q \in rs : r.id = q.id => r = q
NewestActive(rs) == \A r, q \in rs : r.key = q.key /\ ~r.superseded => q.id <= r.id
RowsOK(rs, n) ==
  /\ \A r \in rs : IsRow(r, n) /\ ~r.gone
  /\ OneRowPerId(rs) /\ NewestActive(rs)

(* A transaction t and what it sees over the rows rs (View).               *)
Seen(rs, t) == {r \in {q \in rs : \A w \in t.writes : w.id # q.id} \cup t.writes : ~r.gone}
Stages == {"idle", "lock", "select", "update", "insert", "scan", "commit"}
IsTx(t) == t = [at |-> t.at, rec |-> t.rec, todo |-> t.todo, writes |-> t.writes, held |-> t.held, fresh |-> t.fresh]
TxShape(t, n) ==
  /\ IsTx(t)
  /\ t.at \in Stages /\ t.rec \in Nat /\ t.fresh \subseteq 1..(n - 1)
  /\ \A w \in t.writes : IsRow(w, n)
  /\ OneRowPerId(t.writes)

(* What it wrote: a row it changed is a committed one, superseded or gone  *)
(* by now, and only a delete makes a row go; a row it inserted has an id   *)
(* of its own and a key it holds the advisory lock of, and is the newest   *)
(* of its record, with all older ones superseded.                          *)
Retires(rs, t, call) ==
  \A w \in t.writes :
    /\ w.id \notin t.fresh =>
         /\ w.superseded \/ w.gone
         /\ \E r \in rs : r.id = w.id /\ r.key = w.key /\ r.hash = w.hash /\ (r.superseded => w.gone)
    /\ w.gone => call.op = "delete" /\ DeleteMatches(call, w)
Inserts(rs, t) ==
  /\ \A r \in rs : r.id \notin t.fresh
  /\ \A w \in t.writes : w.id \in t.fresh =>
       /\ w.key \in t.held
       /\ \A r \in Seen(rs, t) : r.key = w.key /\ r.id < w.id => r.superseded
       /\ \A r \in rs : r.key = w.key => r.id < w.id

(* Who works on a record holds its lock; the rows still to supersede are   *)
(* all on the list, and none is left at the insert.                        *)
StageOK(rs, t, key) ==
  /\ t.at \in {"select", "update", "insert"} => key \in t.held
  /\ t.at = "update" => \A r \in Seen(rs, t) : r.key = key /\ ~r.superseded => r.id \in t.todo
  /\ t.at = "insert" => \A r \in Seen(rs, t) : r.key = key => r.superseded
KeyAt(call, t) == KeyOf(call.records[t.rec])
TxOK(rs, t, call, n) ==
  TxShape(t, n) /\ Retires(rs, t, call) /\ Inserts(rs, t) /\ StageOK(rs, t, KeyAt(call, t))

(* Two transactions: locks, ids and changed rows are one's or the other's. *)
Apart(t, u) ==
  /\ t.held \cap u.held = {} /\ t.fresh \cap u.fresh = {}
  /\ \A w \in t.writes, v \in u.writes : w.id # v.id

CallsOK ==
  /\ program \in Programs
  /\ ended \in [Clients -> Seq([how : {"committed", "refused", "deadlock", "lost"}, mem_ok : BOOLEAN])]
  /\ \A c \in Clients :
       /\ tx[c].at = "idle" => tx[c] = Rest
       /\ Len(ended[c]) <= Len(program[c])
       /\ tx[c].at # "idle" => Len(ended[c]) < Len(program[c])

(* The inductive invariant of the vector store.                            *)
VectorInv ==
  /\ next_id \in Nat \ {0} /\ DOMAIN tx = Clients
  /\ CallsOK
  /\ RowsOK(vrows, next_id)
  /\ \A c \in Clients : TxOK(vrows, tx[c], CallOf(c), next_id)
  /\ \A c, d \in Clients : c # d => Apart(tx[c], tx[d])

LEMMA RestIsOK ==
  ASSUME NEW rs, NEW call, NEW n \in Nat \ {0}
  PROVE  TxOK(rs, Rest, call, n)
<1>1. /\ Rest.at = "idle" /\ Rest.rec = 1 /\ Rest.writes = {} /\ Rest.fresh = {}
      /\ IsTx(Rest)
  BY DEF Rest, IsTx
<1>2. TxShape(Rest, n)
  BY <1>1 DEF TxShape, Stages, OneRowPerId
<1>3. Retires(rs, Rest, call) /\ Inserts(rs, Rest) /\ StageOK(rs, Rest, KeyAt(call, Rest))
  BY <1>1 DEF Retires, Inserts, StageOK
<1> QED BY <1>2, <1>3 DEF TxOK

LEMMA MoreIds ==
  ASSUME NEW rs, NEW n \in Nat \ {0}
  PROVE  /\ RowsOK(rs, n) => RowsOK(rs, n + 1)
         /\ \A t, call : TxOK(rs, t, call, n) => TxOK(rs, t, call, n + 1)
<1>1. \A r : IsRow(r, n) => IsRow(r, n + 1)
  BY DEF IsRow
<1>2. \A t : TxShape(t, n) => TxShape(t, n + 1)
  BY <1>1 DEF TxShape
<1> QED BY <1>1, <1>2 DEF RowsOK, TxOK

(* A transaction commits what it sees.                                     *)
LEMMA CommitKeepsRows ==
  ASSUME NEW rs, NEW t, NEW call, NEW n \in Nat \ {0}, RowsOK(rs, n), TxOK(rs, t, call, n)
  PROVE  RowsOK(Seen(rs, t), n)
<1> DEFINE kept == {q \in rs : \A w \in t.writes : w.id # q.id}
<1>1. \A r \in Seen(rs, t) : r \in kept \/ r \in t.writes
  BY DEF Seen
<1>2. \A r \in Seen(rs, t) : IsRow(r, n) /\ ~r.gone
  BY DEF Seen, RowsOK, TxOK, TxShape
<1>3. OneRowPerId(Seen(rs, t))
  BY DEF Seen, RowsOK, TxOK, TxShape, OneRowPerId
<1>4. ASSUME NEW r \in Seen(rs, t), NEW q \in Seen(rs, t), r.key = q.key, ~r.superseded
      PROVE  q.id <= r.id
  <2>0. r.id \in Nat /\ q.id \in Nat
    BY <1>2 DEF IsRow
  <2>1. CASE r \in t.writes
    <3>1. r.id \in t.fresh
      BY <2>1, <1>2, <1>4 DEF TxOK, Retires
    <3>2. CASE q \in t.writes /\ q.id \in t.fresh
      <4>1. r.id < q.id => r.superseded
        BY <3>2, <1>4 DEF TxOK, Inserts
      <4> QED BY <4>1, <2>0, <1>4
    <3>3. \A b \in rs : b.key = r.key => b.id < r.id
      BY <2>1, <3>1 DEF TxOK, Inserts
    <3>4. CASE q \in t.writes /\ q.id \notin t.fresh
      <4>1. PICK b \in rs : b.id = q.id /\ b.key = q.key
        BY <3>4 DEF TxOK, Retires
      <4> QED BY <4>1, <3>3, <1>4, <2>0
    <3>5. CASE q \in kept
      BY <3>5, <3>3, <1>4, <2>0
    <3> QED BY <3>2, <3>4, <3>5, <1>1
  <2>2. CASE r \in kept
    <3>1. CASE q \in t.writes /\ q.id \in t.fresh
      <4>1. r.id < q.id
        BY <3>1, <2>2, <1>4 DEF TxOK, Inserts
      <4>2. r.superseded
        BY <4>1, <3>1, <1>4 DEF TxOK, Inserts
      <4> QED BY <4>2, <1>4
    <3>2. CASE q \in t.writes /\ q.id \notin t.fresh
      <4>1. PICK b \in rs : b.id = q.id /\ b.key = q.key
        BY <3>2 DEF TxOK, Retires
      <4> QED BY <4>1, <2>2, <1>4 DEF RowsOK, NewestActive
    <3>3. CASE q \in kept
      BY <3>3, <2>2, <1>4 DEF RowsOK, NewestActive
    <3> QED BY <3>1, <3>2, <3>3, <1>1
  <2> QED BY <2>1, <2>2, <1>1
<1> QED BY <1>2, <1>3, <1>4 DEF RowsOK, NewestActive

(* What a commit of t leaves of a record that another transaction locks:   *)
(* the rows that were there, some retired or gone.                         *)
LEMMA CommitOfAnother ==
  ASSUME NEW rs, NEW t, NEW callt, NEW u, NEW n \in Nat \ {0}, RowsOK(rs, n),
         TxOK(rs, t, callt, n), TxShape(u, n), Apart(t, u)
  PROVE  /\ \A r \in Seen(rs, t) : r.key \in u.held =>
               \/ r \in rs
               \/ r.superseded /\ \E b \in rs : b.id = r.id /\ b.key = r.key
         /\ \A r \in rs : (\E w \in u.writes : w.id = r.id) => r \in Seen(rs, t)
         /\ \A r \in Seen(rs, t) : r.id \in t.fresh \/ \E b \in rs : b.id = r.id
<1>1. ASSUME NEW r \in Seen(rs, t)
      PROVE  /\ r.key \in u.held => \/ r \in rs
                                    \/ r.superseded /\ \E b \in rs : b.id = r.id /\ b.key = r.key
             /\ r.id \in t.fresh \/ \E b \in rs : b.id = r.id
  <2>1. CASE r \in rs
    BY <2>1
  <2>2. CASE r \in t.writes /\ r.id \in t.fresh
    <3>1. r.key \in t.held
      BY <2>2 DEF TxOK, Inserts
    <3> QED BY <3>1, <2>2 DEF Apart
  <2>3. CASE r \in t.writes /\ r.id \notin t.fresh
    <3>1. r.superseded \/ r.gone
      BY <2>3 DEF TxOK, Retires
    <3>2. ~r.gone
      BY DEF Seen
    <3>3. \E b \in rs : b.id = r.id /\ b.key = r.key
      BY <2>3 DEF TxOK, Retires
    <3> QED BY <3>1, <3>2, <3>3
  <2> QED BY <2>1, <2>2, <2>3 DEF Seen
<1>2. ASSUME NEW r \in rs, NEW w \in u.writes, w.id = r.id
      PROVE  r \in Seen(rs, t)
  <2>1. \A v \in t.writes : v.id # r.id
    BY <1>2 DEF Apart
  <2> QED BY <2>1 DEF Seen, RowsOK
<1> QED BY <1>1, <1>2

LEMMA CommitKeepsOthers ==
  ASSUME NEW rs, NEW t, NEW callt, NEW u, NEW callu, NEW n \in Nat \ {0}, RowsOK(rs, n),
         TxOK(rs, t, callt, n), TxOK(rs, u, callu, n), Apart(t, u)
  PROVE  TxOK(Seen(rs, t), u, callu, n)
<1> DEFINE new == Seen(rs, t)
<1>0. TxShape(u, n) /\ Retires(rs, u, callu) /\ Inserts(rs, u) /\ StageOK(rs, u, KeyAt(callu, u))
  BY DEF TxOK
<1>1. /\ \A r \in new : r.key \in u.held =>
               \/ r \in rs
               \/ r.superseded /\ \E b \in rs : b.id = r.id /\ b.key = r.key
      /\ \A r \in rs : (\E w \in u.writes : w.id = r.id) => r \in new
      /\ \A r \in new : r.id \in t.fresh \/ \E b \in rs : b.id = r.id
  BY <1>0, CommitOfAnother
<1> HIDE DEF new
<1>2. Retires(new, u, callu)
  BY <1>0, <1>1 DEF Retires
<1>3. ASSUME NEW r \in Seen(new, u), r.key \in u.held
      PROVE  r \in Seen(rs, u) \/ r.superseded
  BY <1>1, <1>3 DEF Seen
<1>4. \A r \in new : r.id \notin u.fresh
  BY <1>0, <1>1 DEF Apart, Inserts
<1>5. ASSUME NEW w \in u.writes, w.id \in u.fresh
      PROVE  /\ w.key \in u.held
             /\ \A r \in Seen(new, u) : r.key = w.key /\ r.id < w.id => r.superseded
             /\ \A r \in new : r.key = w.key => r.id < w.id
  <2>1. w.key \in u.held
    BY <1>0, <1>5 DEF Inserts
  <2>2. \A r \in Seen(new, u) : r.key = w.key /\ r.id < w.id => r.superseded
    BY <1>0, <1>3, <1>5, <2>1 DEF Inserts
  <2>3. \A r \in new : r.key = w.key => r.id < w.id
    BY <1>0, <1>1, <1>5, <2>1 DEF Inserts
  <2> QED BY <2>1, <2>2, <2>3
<1>6. Inserts(new, u)
  BY <1>4, <1>5 DEF Inserts
<1>7. StageOK(new, u, KeyAt(callu, u))
  BY <1>0, <1>3 DEF StageOK
<1> QED BY <1>0, <1>2, <1>6, <1>7 DEF TxOK, new

(* Rows a statement changes: each takes the place of a row that was seen,  *)
(* with its key and hash, superseded or gone.                              *)
ChangesRows(still, changed, i, call) ==
  \A x \in changed : \E r \in still :
    /\ r.id = i /\ x.id = i /\ x.key = r.key /\ x.hash = r.hash
    /\ x.superseded \in BOOLEAN /\ x.gone \in BOOLEAN
    /\ x = [id |-> x.id, key |-> x.key, hash |-> x.hash, superseded |-> x.superseded, by |-> x.by, gone |-> x.gone]
    /\ x.superseded \/ x.gone
    /\ r.superseded => x.superseded /\ x.gone
    /\ x.gone => call.op = "delete" /\ DeleteMatches(call, x)

LEMMA RowsChange ==
  ASSUME NEW rs, NEW t, NEW call, NEW n \in Nat \ {0}, RowsOK(rs, n), TxOK(rs, t, call, n),
         t.at \in {"update", "scan"}, NEW i, NEW still, NEW changed,
         still \subseteq {r \in Seen(rs, t) : r.id = i}, ChangesRows(still, changed, i, call),
         still = {} => changed = {}, still # {} => changed # {},
         \A x, y \in changed : x = y,
         t.at = "update" => \A r \in Seen(rs, t) : r.id = i /\ r.key = KeyAt(call, t) /\ ~r.superseded => r \in still,
         NEW s, s = WithRow(t, i, still, changed)
  PROVE  /\ TxOK(rs, s, call, n)
         /\ s.at = t.at /\ s.rec = t.rec /\ s.held = t.held /\ s.fresh = t.fresh
         /\ \A x \in s.writes : x \in t.writes \/ x.id = i
<1>0. TxShape(t, n) /\ Retires(rs, t, call) /\ Inserts(rs, t) /\ StageOK(rs, t, KeyAt(call, t))
  BY DEF TxOK
<1>1. /\ s.at = t.at /\ s.rec = t.rec /\ s.held = t.held /\ s.fresh = t.fresh
      /\ s.todo = t.todo \ {i} /\ s.writes = {w \in t.writes : still = {} \/ w.id # i} \cup changed
      /\ IsTx(s)
  BY <1>0 DEF TxShape, IsTx, WithRow
<1>2. \A r \in Seen(rs, t) : IsRow(r, n) /\ ~r.gone
  BY <1>0 DEF Seen, RowsOK, TxShape
<1>3. \A x \in changed : x.id = i /\ IsRow(x, n)
  BY <1>2 DEF ChangesRows, IsRow
<1>4. TxShape(s, n)
  <2>1. \A w \in s.writes : IsRow(w, n)
    BY <1>0, <1>1, <1>3 DEF TxShape
  <2>2. OneRowPerId(s.writes)
    <3>1. CASE still = {}
      BY <3>1, <1>0, <1>1 DEF TxShape, OneRowPerId
    <3>2. CASE still # {}
      BY <3>2, <1>0, <1>1, <1>3 DEF TxShape, OneRowPerId
    <3> QED BY <3>1, <3>2
  <2> QED BY <1>0, <1>1, <2>1, <2>2 DEF TxShape
<1>5. Retires(rs, s, call)
  <2> SUFFICES ASSUME NEW w \in s.writes
               PROVE  /\ w.id \notin t.fresh =>
                           /\ w.superseded \/ w.gone
                           /\ \E r \in rs : r.id = w.id /\ r.key = w.key /\ r.hash = w.hash /\ (r.superseded => w.gone)
                      /\ w.gone => call.op = "delete" /\ DeleteMatches(call, w)
    BY <1>1 DEF Retires
  <2>1. CASE w \in t.writes
    BY <2>1, <1>0 DEF Retires
  <2>2. CASE w \in changed
    <3>1. PICK r \in still : /\ r.id = i /\ w.id = i /\ w.key = r.key /\ w.hash = r.hash
                             /\ w.superseded \/ w.gone
                             /\ r.superseded => w.superseded /\ w.gone
                             /\ w.gone => call.op = "delete" /\ DeleteMatches(call, w)
      BY <2>2 DEF ChangesRows
    <3>2. r \in Seen(rs, t)
      OBVIOUS
    <3>3. CASE r \in t.writes
      <4>1. ASSUME w.id \notin t.fresh
            PROVE \E b \in rs : b.id = r.id /\ b.key = r.key /\ b.hash = r.hash /\ (b.superseded => r.gone)
        BY <3>1, <3>3, <4>1, <1>0 DEF Retires
      <4>2. ~r.gone
        BY <3>2, <1>2
      <4> QED BY <3>1, <4>1, <4>2
    <3>4. CASE r \in rs
      BY <3>1, <3>4
    <3> QED BY <3>2, <3>3, <3>4 DEF Seen
  <2> QED BY <2>1, <2>2, <1>1
<1>6. ASSUME NEW x \in Seen(rs, s)
      PROVE  \E r \in Seen(rs, t) : /\ x.id = r.id /\ x.key = r.key
                                    /\ r.superseded => x.superseded
                                    /\ x = r \/ x.superseded
                                    /\ r \in still => x.superseded
  <2>1. CASE x \in changed
    <3>1. ~x.gone
      BY DEF Seen
    <3> QED BY <2>1, <3>1 DEF ChangesRows
  <2>2. CASE x \in rs /\ x \notin changed /\ \A w \in s.writes : w.id # x.id
    <3>1. CASE still = {}
      BY <3>1, <2>2, <1>1 DEF Seen
    <3>2. CASE still # {}
      <4>1. x.id # i
        BY <3>2, <2>2, <1>1, <1>3
      <4>2. \A w \in t.writes : w.id # x.id
        BY <4>1, <2>2, <1>1
      <4> QED BY <2>2, <4>1, <4>2, <1>2 DEF Seen
    <3> QED BY <3>1, <3>2
  <2>3. CASE x \in t.writes /\ x \notin changed /\ x \in s.writes
    <3>1. x \in Seen(rs, t)
      BY <2>3 DEF Seen
    <3>2. x \notin still
      BY <2>3, <1>1
    <3> QED BY <3>1, <3>2
  <2> QED BY <2>1, <2>2, <2>3, <1>1 DEF Seen
<1>7. Inserts(rs, s)
  <2> SUFFICES ASSUME NEW w \in s.writes, w.id \in t.fresh
               PROVE  /\ w.key \in t.held
                      /\ \A r \in Seen(rs, s) : r.key = w.key /\ r.id < w.id => r.superseded
                      /\ \A r \in rs : r.key = w.key => r.id < w.id
    BY <1>0, <1>1 DEF Inserts
  <2>1. PICK v \in t.writes : v.id = w.id /\ v.key = w.key
    <3>1. CASE w \in t.writes
      BY <3>1
    <3>2. CASE w \in changed
      <4>1. PICK r \in still : r.id = w.id /\ w.key = r.key
        BY <3>2 DEF ChangesRows
      <4>2. r \notin rs
        BY <4>1, <1>0 DEF Inserts
      <4> QED BY <4>1, <4>2 DEF Seen
    <3> QED BY <3>1, <3>2, <1>1
  <2>2. /\ v.key \in t.held
        /\ \A r \in Seen(rs, t) : r.key = v.key /\ r.id < v.id => r.superseded
        /\ \A r \in rs : r.key = v.key => r.id < v.id
    BY <2>1, <1>0 DEF Inserts
  <2>3. ASSUME NEW x \in Seen(rs, s), x.key = w.key, x.id < w.id
        PROVE  x.superseded
    <3>1. PICK r \in Seen(rs, t) : x.id = r.id /\ x.key = r.key /\ (r.superseded => x.superseded)
      BY <1>6
    <3>2. r.superseded
      BY <2>1, <2>2, <2>3, <3>1
    <3> QED BY <3>1, <3>2
  <2> QED BY <2>1, <2>2, <2>3
<1>8. StageOK(rs, s, KeyAt(call, s))
  <2>1. KeyAt(call, s) = KeyAt(call, t)
    BY <1>1 DEF KeyAt
  <2>2. ASSUME t.at = "update", NEW x \in Seen(rs, s), x.key = KeyAt(call, t), ~x.superseded
        PROVE  x.id \in t.todo \ {i}
    <3>1. PICK r \in Seen(rs, t) : x.id = r.id /\ x.key = r.key /\ (r.superseded => x.superseded) /\ (x = r \/ x.superseded)
                                   /\ (r \in still => x.superseded)
      BY <1>6
    <3>2. r.id \in t.todo
      BY <3>1, <2>2, <1>0 DEF StageOK
    <3>3. r.id # i
      BY <3>1, <2>2
    <3> QED BY <3>1, <3>2, <3>3
  <2>3. t.at = "update" => KeyAt(call, t) \in t.held
    BY <1>0 DEF StageOK
  <2> QED BY <1>1, <2>1, <2>2, <2>3 DEF StageOK
<1>9. \A x \in s.writes : x \in t.writes \/ x.id = i
  BY <1>1, <1>3
<1> QED BY <1>1, <1>4, <1>5, <1>7, <1>8, <1>9 DEF TxOK

(* An insert when every version seen is superseded.                        *)
LEMMA RowInserted ==
  ASSUME NEW rs, NEW t, NEW call, NEW n \in Nat \ {0}, RowsOK(rs, n), TxOK(rs, t, call, n), t.at = "insert",
         NEW row, row.id = n, row.key = KeyAt(call, t), row.superseded = FALSE, row.gone = FALSE,
         row = [id |-> row.id, key |-> row.key, hash |-> row.hash, superseded |-> row.superseded, by |-> row.by,
                gone |-> row.gone],
         NEW s, IsTx(s), s.at \in {"lock", "commit"}, s.rec \in Nat, s.writes = t.writes \cup {row},
         s.held = t.held, s.fresh = t.fresh \cup {n}
  PROVE  TxOK(rs, s, call, n + 1)
<1>0. TxShape(t, n) /\ Retires(rs, t, call) /\ Inserts(rs, t) /\ StageOK(rs, t, KeyAt(call, t))
  BY DEF TxOK
<1>2. \A r : IsRow(r, n) => IsRow(r, n + 1) /\ r.id < n /\ r.id # n
  BY DEF IsRow
<1>3. \A w \in t.writes : IsRow(w, n)
  BY <1>0 DEF TxShape
<1>4. \A r \in rs : IsRow(r, n) /\ ~r.gone
  BY DEF RowsOK
<1>5. TxShape(s, n + 1)
  <2>1. IsRow(row, n + 1)
    <3>1. row.id \in 1..((n + 1) - 1)
      OBVIOUS
    <3>2. row.superseded \in BOOLEAN /\ row.gone \in BOOLEAN
      OBVIOUS
    <3> QED BY ONLY <3>1, <3>2, row = [id |-> row.id, key |-> row.key, hash |-> row.hash,
                                       superseded |-> row.superseded, by |-> row.by, gone |-> row.gone] DEF IsRow
  <2>2. \A w \in s.writes : IsRow(w, n + 1)
    BY <1>2, <1>3, <2>1
  <2>3. OneRowPerId(s.writes)
    BY <1>0, <1>2, <1>3 DEF TxShape, OneRowPerId
  <2>4. s.fresh \subseteq 1..n
    BY <1>0 DEF TxShape
  <2> QED BY <2>2, <2>3, <2>4 DEF TxShape, Stages
<1>6. Retires(rs, s, call)
  BY <1>0 DEF Retires
<1>7. \A x \in Seen(rs, s) : x = row \/ x \in Seen(rs, t)
  BY DEF Seen
<1>8. Inserts(rs, s)
  <2>1. \A r \in rs : r.id \notin s.fresh
    BY <1>0, <1>2, <1>4 DEF Inserts
  <2>2. ASSUME NEW w \in t.writes, w.id \in s.fresh
        PROVE  /\ w.key \in s.held
               /\ \A r \in Seen(rs, s) : r.key = w.key /\ r.id < w.id => r.superseded
               /\ \A r \in rs : r.key = w.key => r.id < w.id
    <3>1. w.id \in t.fresh /\ w.id < n /\ w.id \in Int
      BY <2>2, <1>2, <1>3 DEF IsRow
    <3>2. ~(row.id < w.id)
      BY <3>1
    <3> QED BY <3>1, <3>2, <1>0, <1>7 DEF Inserts
  <2>3. /\ row.key \in s.held
        /\ \A r \in Seen(rs, s) : r.key = row.key /\ r.id < row.id => r.superseded
        /\ \A r \in rs : r.key = row.key => r.id < row.id
    <3>1. row.key \in t.held /\ \A r \in Seen(rs, t) : r.key = row.key => r.superseded
      BY <1>0 DEF StageOK
    <3>2. ~(row.id < row.id)
      OBVIOUS
    <3> QED BY <3>1, <3>2, <1>2, <1>4, <1>7
  <2> QED BY <2>1, <2>2, <2>3 DEF Inserts
<1>9. StageOK(rs, s, KeyAt(call, s))
  BY DEF StageOK
<1> QED BY <1>5, <1>6, <1>8, <1>9 DEF TxOK

(* What a client sees is what its transaction sees.                        *)
LEMMA ViewIsSeen == \A c \in Clients : View(c) = Seen(vrows, tx[c])
BY DEF View, Seen

(* A statement of client c that leaves the table and the calls alone.      *)
LEMMA StatementStep ==
  ASSUME VectorInv, NEW c \in Clients, NEW s, UnchangedIn(c, s), UNCHANGED program,
         Len(ended[c]) < Len(program[c]), s.at # "idle",
         next_id' \in {next_id, next_id + 1}, TxOK(vrows, s, CallOf(c), next_id'),
         \A d \in Clients : d # c => Apart(s, tx[d]) /\ Apart(tx[d], s)
  PROVE  VectorInv'
<1>1. /\ tx'[c] = s /\ \A d \in Clients : d # c => tx'[d] = tx[d]
      /\ DOMAIN tx' = Clients
      /\ vrows' = vrows /\ ended' = ended /\ program' = program
  BY DEF UnchangedIn, VectorInv
<1>2. next_id' \in Nat \ {0}
  BY DEF VectorInv
<1>3. \A d \in Clients : CallOf(d)' = CallOf(d)
  BY <1>1 DEF CallOf
<1>4. RowsOK(vrows, next_id')
  BY MoreIds DEF VectorInv
<1>5. \A d \in Clients : d # c => TxOK(vrows, tx[d], CallOf(d), next_id')
  BY MoreIds DEF VectorInv
<1>6. \A d \in Clients : TxOK(vrows', tx'[d], CallOf(d)', next_id')
  BY <1>1, <1>3, <1>5
<1>7. CallsOK'
  BY <1>1 DEF VectorInv, CallsOK
<1>8. \A d, e \in Clients : d # e => Apart(tx'[d], tx'[e])
  BY <1>1 DEF VectorInv
<1> QED BY <1>1, <1>2, <1>4, <1>6, <1>7, <1>8 DEF VectorInv

(* A call that ends leaves the client at rest, and its answer on the list. *)
LEMMA CallEnds ==
  ASSUME VectorInv, NEW c \in Clients, NEW how \in {"committed", "refused", "deadlock", "lost"}, EndCall(c, how),
         tx[c].at # "idle", UNCHANGED program
  PROVE  /\ tx'[c] = Rest /\ \A d \in Clients : d # c => tx'[d] = tx[d]
         /\ DOMAIN tx' = Clients
         /\ CallsOK'
         /\ \A d \in Clients : d # c => CallOf(d)' = CallOf(d)
         /\ Len(ended'[c]) = Len(ended[c]) + 1
<1> DEFINE e == [how |-> how, mem_ok |-> Alone => MemApply(CallOf(c)).ok]
           Answers == [how : {"committed", "refused", "deadlock", "lost"}, mem_ok : BOOLEAN]
<1>1. tx' = [tx EXCEPT ![c] = Rest] /\ ended' = [ended EXCEPT ![c] = Append(ended[c], e)]
  BY DEF EndCall
<1>2. e \in Answers
  OBVIOUS
<1> HIDE DEF e
<1>3. ended[c] \in Seq(Answers) /\ ended \in [Clients -> Seq(Answers)] /\ program \in Programs
  BY DEF VectorInv, CallsOK
<1>4. Append(ended[c], e) \in Seq(Answers) /\ Len(Append(ended[c], e)) = Len(ended[c]) + 1
  BY <1>2, <1>3
<1>5. /\ tx'[c] = Rest /\ \A d \in Clients : d # c => tx'[d] = tx[d]
      /\ DOMAIN tx' = Clients
  BY <1>1 DEF VectorInv
<1>6. /\ ended' \in [Clients -> Seq(Answers)] /\ Len(ended'[c]) = Len(ended[c]) + 1
      /\ \A d \in Clients : d # c => ended'[d] = ended[d]
  BY <1>1, <1>3, <1>4
<1>7. program[c] \in Seq(Calls)
  BY <1>3, VectorAssumption
<1>8. Len(program[c]) \in Nat /\ Len(ended[c]) \in Nat
  BY <1>3, <1>7
<1>9. Len(ended[c]) < Len(program[c])
  BY DEF VectorInv, CallsOK
<1>10. Rest.at = "idle"
  BY DEF Rest
<1>11. CallsOK'
  <2>1. ASSUME NEW d \in Clients
        PROVE  /\ tx'[d].at = "idle" => tx'[d] = Rest
               /\ Len(ended'[d]) <= Len(program'[d])
               /\ tx'[d].at # "idle" => Len(ended'[d]) < Len(program'[d])
    <3>1. CASE d = c
      <4>1. Len(ended[c]) + 1 <= Len(program[c])
        BY <1>8, <1>9
      <4> QED BY <4>1, <3>1, <1>5, <1>6, <1>10
    <3>2. CASE d # c
      BY <3>2, <1>5, <1>6 DEF VectorInv, CallsOK
    <3> QED BY <3>1, <3>2
  <2> QED BY <2>1, <1>3, <1>6 DEF CallsOK
<1> QED BY <1>5, <1>6, <1>11 DEF CallOf

LEMMA RollbackStep ==
  ASSUME VectorInv, NEW c \in Clients, NEW how \in {"refused", "deadlock", "lost"}, Rollback(c, how),
         tx[c].at # "idle", UNCHANGED <<program, next_id>>
  PROVE  VectorInv'
<1>1. EndCall(c, how) /\ vrows' = vrows
  BY DEF Rollback
<1>2. /\ tx'[c] = Rest /\ \A d \in Clients : d # c => tx'[d] = tx[d]
      /\ DOMAIN tx' = Clients
      /\ CallsOK'
      /\ \A d \in Clients : d # c => CallOf(d)' = CallOf(d)
  BY <1>1, CallEnds
<1>3. next_id \in Nat \ {0} /\ RowsOK(vrows, next_id)
  BY DEF VectorInv
<1>4. TxOK(vrows, Rest, CallOf(c)', next_id)
  BY <1>3, RestIsOK
<1>5. \A d \in Clients : TxOK(vrows, tx'[d], CallOf(d)', next_id)
  BY <1>2, <1>4 DEF VectorInv
<1>6. \A u : Apart(Rest, u) /\ Apart(u, Rest)
  BY DEF Apart, Rest
<1>7. \A d, e \in Clients : d # e => Apart(tx'[d], tx'[e])
  BY <1>2, <1>6 DEF VectorInv
<1> QED BY <1>1, <1>2, <1>3, <1>5, <1>7 DEF VectorInv

LEMMA CommitStep ==
  ASSUME VectorInv, NEW c \in Clients, Commit(c)
  PROVE  VectorInv' /\ vrows' = Seen(vrows, tx[c])
<1>1. tx[c].at = "commit" /\ EndCall(c, "committed") /\ UNCHANGED <<program, next_id>>
  BY DEF Commit
<1>2. /\ tx'[c] = Rest /\ \A d \in Clients : d # c => tx'[d] = tx[d]
      /\ DOMAIN tx' = Clients
      /\ CallsOK'
      /\ \A d \in Clients : d # c => CallOf(d)' = CallOf(d)
  BY <1>1, CallEnds
<1>3. next_id \in Nat \ {0} /\ RowsOK(vrows, next_id) /\ TxOK(vrows, tx[c], CallOf(c), next_id)
  BY DEF VectorInv
<1>4. vrows' = Seen(vrows, tx[c])
  BY <1>3 DEF Commit, Seen, RowsOK
<1>5. RowsOK(vrows', next_id)
  BY <1>3, <1>4, CommitKeepsRows
<1>6. TxOK(vrows', Rest, CallOf(c)', next_id)
  BY <1>3, RestIsOK
<1>7. ASSUME NEW d \in Clients, d # c
      PROVE  TxOK(vrows', tx[d], CallOf(d), next_id)
  <2>1. TxOK(vrows, tx[d], CallOf(d), next_id) /\ Apart(tx[c], tx[d])
    BY <1>7 DEF VectorInv
  <2> QED BY <2>1, <1>3, <1>4, CommitKeepsOthers
<1>8. \A d \in Clients : TxOK(vrows', tx'[d], CallOf(d)', next_id)
  BY <1>2, <1>6, <1>7
<1>9. \A u : Apart(Rest, u) /\ Apart(u, Rest)
  BY DEF Apart, Rest
<1>10. \A d, e \in Clients : d # e => Apart(tx'[d], tx'[e])
  BY <1>2, <1>9 DEF VectorInv
<1> QED BY <1>1, <1>2, <1>3, <1>4, <1>5, <1>8, <1>10 DEF VectorInv

(* A transaction that moves on to a stage it is fit for, its writes as     *)
(* they were.                                                              *)
LEMMA StageMoves ==
  ASSUME NEW rs, NEW t, NEW call, NEW n \in Nat \ {0}, TxOK(rs, t, call, n),
         NEW s, IsTx(s), s.at \in Stages, s.rec \in Nat, t.held \subseteq s.held, s.writes = t.writes, s.fresh = t.fresh,
         s.at \in {"select", "update", "insert"} => KeyAt(call, s) \in s.held,
         s.at = "update" => \A r \in Seen(rs, t) : r.key = KeyAt(call, s) /\ ~r.superseded => r.id \in s.todo,
         s.at = "insert" => \A r \in Seen(rs, t) : r.key = KeyAt(call, s) => r.superseded
  PROVE  TxOK(rs, s, call, n)
<1>0. TxShape(t, n) /\ Retires(rs, t, call) /\ Inserts(rs, t)
  BY DEF TxOK
<1>2. TxShape(s, n)
  BY <1>0 DEF TxShape
<1>3. Seen(rs, s) = Seen(rs, t)
  BY DEF Seen
<1>4. Retires(rs, s, call)
  BY <1>0 DEF Retires
<1>5. Inserts(rs, s)
  BY <1>0, <1>3 DEF Inserts
<1>6. StageOK(rs, s, KeyAt(call, s))
  BY <1>3 DEF StageOK
<1> QED BY <1>2, <1>4, <1>5, <1>6 DEF TxOK

LEMMA TxFacts ==
  ASSUME VectorInv, NEW c \in Clients
  PROVE  /\ next_id \in Nat \ {0} /\ RowsOK(vrows, next_id)
         /\ TxOK(vrows, tx[c], CallOf(c), next_id)
         /\ IsTx(tx[c]) /\ tx[c].rec \in Nat
         /\ tx[c].at # "idle" => Len(ended[c]) < Len(program[c])
         /\ KeyAt(CallOf(c), tx[c]) = KeyOf(RecordOf(c))
         /\ \A d \in Clients : d # c => Apart(tx[c], tx[d]) /\ Apart(tx[d], tx[c])
<1>1. TxOK(vrows, tx[c], CallOf(c), next_id) /\ next_id \in Nat \ {0} /\ RowsOK(vrows, next_id)
  BY DEF VectorInv
<1>2. TxShape(tx[c], next_id)
  BY <1>1 DEF TxOK
<1>3. KeyAt(CallOf(c), tx[c]) = KeyOf(RecordOf(c))
  BY DEF KeyAt, RecordOf
<1> QED BY <1>1, <1>2, <1>3 DEF TxShape, VectorInv, CallsOK

(* A statement that changes neither rows nor locks of its transaction.     *)
LEMMA MoveOn ==
  ASSUME VectorInv, NEW c \in Clients, tx[c].at # "idle", UNCHANGED <<program, next_id>>, NEW s, UnchangedIn(c, s),
         IsTx(s), s.at \in Stages \ {"idle"}, s.rec \in Nat, s.held = tx[c].held, s.writes = tx[c].writes,
         s.fresh = tx[c].fresh,
         s.at \in {"select", "update", "insert"} => KeyAt(CallOf(c), s) \in s.held,
         s.at = "update" =>
           \A r \in View(c) : r.key = KeyAt(CallOf(c), s) /\ ~r.superseded => r.id \in s.todo,
         s.at = "insert" => \A r \in View(c) : r.key = KeyAt(CallOf(c), s) => r.superseded
  PROVE  VectorInv'
<1>0. View(c) = Seen(vrows, tx[c])
  BY ViewIsSeen
<1>1. next_id \in Nat \ {0} /\ TxOK(vrows, tx[c], CallOf(c), next_id)
  BY TxFacts
<1>2. PICK call : call = CallOf(c)
  OBVIOUS
<1>3. TxOK(vrows, s, call, next_id)
  BY <1>0, <1>1, <1>2, StageMoves
<1>4. \A d \in Clients : d # c => Apart(s, tx[d]) /\ Apart(tx[d], s)
  BY TxFacts DEF Apart
<1>5. Len(ended[c]) < Len(program[c])
  BY TxFacts
<1> QED BY <1>2, <1>3, <1>4, <1>5, StatementStep

LEMMA BeginCallStep == ASSUME VectorInv, NEW c \in Clients, BeginCall(c) PROVE VectorInv'
<1>1. PICK s : /\ IsTx(s) /\ s.at \in {"commit", "lock", "scan"} /\ s.rec = 1
               /\ s.writes = {} /\ s.held = {} /\ s.fresh = {}
               /\ UnchangedIn(c, s)
  <2>1. CASE CallOf(c).op = "upsert"
    <3>1. PICK at \in {"commit", "lock"} : UnchangedIn(c, [Rest EXCEPT !.at = at])
      BY <2>1 DEF BeginCall
    <3>2. PICK s : s = [Rest EXCEPT !.at = at]
      OBVIOUS
    <3>3. IsTx(s) /\ s.at = at /\ s.rec = 1 /\ s.writes = {} /\ s.held = {} /\ s.fresh = {}
      BY <3>2 DEF Rest, IsTx
    <3> QED BY <3>1, <3>2, <3>3
  <2>2. CASE CallOf(c).op # "upsert"
    <3>1. PICK todo : UnchangedIn(c, [Rest EXCEPT !.at = "scan", !.todo = todo])
      BY <2>2 DEF BeginCall
    <3>2. PICK s : s = [Rest EXCEPT !.at = "scan", !.todo = todo]
      OBVIOUS
    <3>3. IsTx(s) /\ s.at = "scan" /\ s.rec = 1 /\ s.writes = {} /\ s.held = {} /\ s.fresh = {}
      BY <3>2 DEF Rest, IsTx
    <3> QED BY <3>1, <3>2, <3>3
  <2> QED BY <2>1, <2>2
<1>3. Rest.writes = {} /\ Rest.fresh = {} /\ Rest.held = {}
  BY DEF Rest
<1>4. next_id \in Nat \ {0} /\ UNCHANGED <<program, next_id>> /\ Len(ended[c]) < Len(program[c])
  BY DEF VectorInv, BeginCall
<1>5. PICK call : call = CallOf(c)
  OBVIOUS
<1>6. TxOK(vrows, Rest, call, next_id)
  BY <1>4, RestIsOK
<1>7. TxOK(vrows, s, call, next_id)
  <2>1. s.at \in Stages /\ s.rec \in Nat /\ s.at \notin {"select", "update", "insert"} /\ Rest.held \subseteq s.held
    BY <1>1, <1>3 DEF Stages
  <2>2. s.writes = Rest.writes /\ s.fresh = Rest.fresh
    BY <1>1, <1>3
  <2> QED BY <1>1, <1>4, <1>6, <2>1, <2>2, StageMoves
<1>8. s.at # "idle" /\ \A u : Apart(s, u) /\ Apart(u, s)
  BY <1>1 DEF Apart
<1> QED BY <1>1, <1>4, <1>5, <1>7, <1>8, StatementStep

LEMMA AcquireStep == ASSUME VectorInv, NEW c \in Clients, AcquireUpsertLock(c) PROVE VectorInv'
<1>1. tx[c].at = "lock" /\ UNCHANGED <<program, next_id>>
  BY DEF AcquireUpsertLock
<1>2. CASE ~CallerOwnsRecord(CallOf(c).tenant, RecordOf(c))
  BY <1>1, <1>2, RollbackStep DEF AcquireUpsertLock
<1>3. CASE CallerOwnsRecord(CallOf(c).tenant, RecordOf(c))
  <2>1. PICK held : held = tx[c].held \cup {KeyOf(RecordOf(c))}
    OBVIOUS
  <2>2. LockHolders(c) = {} /\ UnchangedIn(c, [tx[c] EXCEPT !.at = "select", !.held = held])
    BY <1>3, <2>1 DEF AcquireUpsertLock
  <2>3. PICK t, s : t = tx[c] /\ s = [t EXCEPT !.at = "select", !.held = held]
    OBVIOUS
  <2>4. IsTx(t)
    BY <2>3, TxFacts
  <2>5. /\ IsTx(s) /\ s.at = "select" /\ s.rec = t.rec /\ s.writes = t.writes /\ s.held = held
        /\ s.fresh = t.fresh
    BY ONLY <2>3, <2>4 DEF IsTx
  <2>6. TxOK(vrows, s, CallOf(c), next_id)
    <3>1. PICK call : call = CallOf(c)
      OBVIOUS
    <3>2. KeyAt(call, s) = KeyOf(RecordOf(c))
      BY <2>3, <2>5, <3>1 DEF KeyAt, RecordOf
    <3>3. next_id \in Nat \ {0} /\ TxOK(vrows, t, call, next_id) /\ t.rec \in Nat
      BY <2>3, <3>1, TxFacts
    <3>4. s.at \in Stages /\ s.rec \in Nat /\ t.held \subseteq s.held /\ KeyAt(call, s) \in s.held
      BY <2>1, <2>3, <2>5, <3>2, <3>3 DEF Stages
    <3>5. TxOK(vrows, s, call, next_id)
      BY <2>5, <3>3, <3>4, StageMoves
    <3> QED BY <3>1, <3>5
  <2>7. ASSUME NEW d \in Clients, d # c PROVE Apart(s, tx[d]) /\ Apart(tx[d], s)
    <3>1. KeyOf(RecordOf(c)) \notin tx[d].held
      BY <2>2, <2>7 DEF LockHolders
    <3>2. Apart(tx[c], tx[d])
      BY <2>7 DEF VectorInv
    <3> QED BY <2>1, <2>3, <2>5, <3>1, <3>2 DEF Apart
  <2>8. Len(ended[c]) < Len(program[c]) /\ s.at # "idle" /\ UnchangedIn(c, s)
    BY <1>1, <2>2, <2>3, <2>5, TxFacts
  <2> QED BY <1>1, <2>6, <2>7, <2>8, StatementStep
<1> QED BY <1>2, <1>3

(* The transaction goes on to the next record, or to its commit.           *)
LEMMA NextRecordIs ==
  ASSUME NEW c, NEW t, IsTx(t), t.rec \in Nat
  PROVE  \A s : s = NextRecord(c, t) =>
         /\ IsTx(s) /\ s.at \in {"lock", "commit"} /\ s.rec \in Nat
         /\ s.writes = t.writes /\ s.held = t.held /\ s.fresh = t.fresh
<1> TAKE s
<1>1. HAVE s = NextRecord(c, t)
<1>2. CASE t.rec < Len(CallOf(c).records)
  <2>1. s = [t EXCEPT !.at = "lock", !.rec = t.rec + 1]
    BY <1>1, <1>2 DEF NextRecord
  <2>2. /\ IsTx(s) /\ s.at = "lock" /\ s.rec = t.rec + 1
        /\ s.writes = t.writes /\ s.held = t.held /\ s.fresh = t.fresh
    BY <2>1 DEF IsTx
  <2> QED BY <1>1, <2>2
<1>3. CASE ~(t.rec < Len(CallOf(c).records))
  <2>1. s = [t EXCEPT !.at = "commit"]
    BY <1>1, <1>3 DEF NextRecord
  <2>2. /\ IsTx(s) /\ s.at = "commit" /\ s.rec = t.rec
        /\ s.writes = t.writes /\ s.held = t.held /\ s.fresh = t.fresh
    BY <2>1 DEF IsTx
  <2> QED BY <1>1, <2>2
<1> QED BY <1>2, <1>3

LEMMA SelectStep == ASSUME VectorInv, NEW c \in Clients, SelectActive(c) PROVE VectorInv'
<1> DEFINE key == KeyOf(RecordOf(c))
           active == Active(View(c), key)
<1>1. tx[c].at = "select" /\ tx[c].at # "idle" /\ UNCHANGED <<program, next_id>>
  BY DEF SelectActive
<1>2. key \in tx[c].held
  BY <1>1, TxFacts DEF TxOK, StageOK
<1>3. PICK t : t = tx[c] /\ IsTx(t) /\ t.rec \in Nat
  BY TxFacts
<1>4. CASE \E a \in active : a.hash = RecordOf(c).hash
  <2>1. PICK s : s = NextRecord(c, t)
    OBVIOUS
  <2>2. UnchangedIn(c, s)
    BY <1>3, <1>4, <2>1 DEF SelectActive
  <2>3. /\ IsTx(s) /\ s.at \in {"lock", "commit"} /\ s.rec \in Nat
        /\ s.writes = t.writes /\ s.held = t.held /\ s.fresh = t.fresh
    BY <1>3, <2>1, NextRecordIs
  <2>4. s.at \in Stages \ {"idle"} /\ s.at \notin {"select", "update", "insert"}
    BY <2>3 DEF Stages
  <2> QED BY <1>1, <1>3, <2>2, <2>3, <2>4, MoveOn
<1>5. CASE ~(\E a \in active : a.hash = RecordOf(c).hash) /\ active = {}
  <2>1. PICK s : s = [t EXCEPT !.at = "insert"]
    OBVIOUS
  <2>2. UnchangedIn(c, s)
    BY <1>3, <1>5, <2>1 DEF SelectActive
  <2>3. IsTx(s) /\ s.at = "insert" /\ s.rec = t.rec /\ s.writes = t.writes /\ s.held = t.held /\ s.fresh = t.fresh
    BY <1>3, <2>1 DEF IsTx
  <2>4. KeyAt(CallOf(c), s) = key
    BY <1>3, <2>3 DEF KeyAt, RecordOf
  <2>5. \A r \in View(c) : r.key = KeyAt(CallOf(c), s) => r.superseded
    BY <1>5, <2>4 DEF Active, OfKey
  <2>6. s.at \in Stages \ {"idle"}
    BY <2>3 DEF Stages
  <2> QED BY <1>1, <1>2, <1>3, <2>2, <2>3, <2>4, <2>5, <2>6, MoveOn
<1>6. CASE ~(\E a \in active : a.hash = RecordOf(c).hash) /\ active # {}
  <2>1. PICK todo : todo = {a.id : a \in active}
    OBVIOUS
  <2>2. PICK s : s = [t EXCEPT !.at = "update", !.todo = todo]
    OBVIOUS
  <2>3. UnchangedIn(c, s)
    BY <1>3, <1>6, <2>1, <2>2 DEF SelectActive
  <2>4. /\ IsTx(s) /\ s.at = "update" /\ s.rec = t.rec /\ s.writes = t.writes /\ s.held = t.held /\ s.fresh = t.fresh
        /\ s.todo = todo
    BY <1>3, <2>2 DEF IsTx
  <2>5. KeyAt(CallOf(c), s) = key
    BY <1>3, <2>4 DEF KeyAt, RecordOf
  <2>6. \A r \in View(c) : r.key = KeyAt(CallOf(c), s) /\ ~r.superseded => r.id \in s.todo
    BY <2>1, <2>4, <2>5 DEF Active, OfKey
  <2>7. s.at \in Stages \ {"idle"}
    BY <2>4 DEF Stages
  <2> QED BY <1>1, <1>2, <1>3, <2>3, <2>4, <2>5, <2>6, <2>7, MoveOn
<1> QED BY <1>4, <1>5, <1>6

LEMMA RowsDoneStep == ASSUME VectorInv, NEW c \in Clients, RowsDone(c) PROVE VectorInv'
<1>1. PICK t : t = tx[c] /\ IsTx(t) /\ t.rec \in Nat
  BY TxFacts
<1>2. t.at \in {"update", "scan"} /\ t.todo = {} /\ tx[c].at # "idle" /\ UNCHANGED <<program, next_id>>
  BY <1>1 DEF RowsDone
<1>3. PICK at : at = IF t.at = "update" THEN "insert" ELSE "commit"
  OBVIOUS
<1>4. PICK s : s = [t EXCEPT !.at = at]
  OBVIOUS
<1>5. UnchangedIn(c, s)
  BY <1>1, <1>3, <1>4 DEF RowsDone
<1>6. IsTx(s) /\ s.at = at /\ s.rec = t.rec /\ s.writes = t.writes /\ s.held = t.held /\ s.fresh = t.fresh
  BY <1>1, <1>4 DEF IsTx
<1>7. s.at \in Stages \ {"idle"} /\ s.at \in {"insert", "commit"} /\ (s.at = "insert" => t.at = "update")
  BY <1>2, <1>3, <1>6 DEF Stages
<1>8. KeyAt(CallOf(c), s) = KeyAt(CallOf(c), t)
  BY <1>6 DEF KeyAt
<1>9. ASSUME t.at = "update"
      PROVE  KeyAt(CallOf(c), t) \in t.held /\ \A r \in View(c) : r.key = KeyAt(CallOf(c), t) => r.superseded
  <2>1. StageOK(vrows, t, KeyAt(CallOf(c), t)) /\ View(c) = Seen(vrows, t)
    BY <1>1, TxFacts, ViewIsSeen DEF TxOK
  <2> QED BY <2>1, <1>2, <1>9 DEF StageOK
<1>10. s.at \in {"select", "update", "insert"} => KeyAt(CallOf(c), s) \in s.held
  BY <1>6, <1>7, <1>8, <1>9
<1>11. s.at = "insert" => \A r \in View(c) : r.key = KeyAt(CallOf(c), s) => r.superseded
  BY <1>7, <1>8, <1>9
<1> QED BY <1>1, <1>2, <1>5, <1>6, <1>7, <1>10, <1>11, MoveOn

(* A statement that changes the next row on its list.                      *)
LEMMA ChangeRowStep ==
  ASSUME VectorInv, NEW c \in Clients, tx[c].at \in {"update", "scan"}, NEW still, NEW changed,
         ChangeRow(c, still, changed),
         still \subseteq {r \in View(c) : r.id = NextRow(c)}, ChangesRows(still, changed, NextRow(c), CallOf(c)),
         still = {} => changed = {}, still # {} => changed # {},
         \A x, y \in changed : x = y,
         tx[c].at = "update" =>
           \A r \in View(c) : r.id = NextRow(c) /\ r.key = KeyAt(CallOf(c), tx[c]) /\ ~r.superseded => r \in still
  PROVE  VectorInv'
<1>1. PICK t, i, call, s :
        /\ t = tx[c] /\ i = NextRow(c) /\ call = CallOf(c)
        /\ s = WithRow(t, i, still, changed)
  OBVIOUS
<1>2. UnchangedIn(c, s) /\ UNCHANGED <<program, next_id>> /\ WriterOf(i) \subseteq {c}
  BY <1>1 DEF ChangeRow
<1>3. View(c) = Seen(vrows, t)
  BY <1>1, ViewIsSeen
<1>4. next_id \in Nat \ {0} /\ RowsOK(vrows, next_id) /\ TxOK(vrows, t, call, next_id)
  BY <1>1, TxFacts
<1>5. /\ TxOK(vrows, s, call, next_id)
      /\ s.at = t.at /\ s.rec = t.rec /\ s.held = t.held /\ s.fresh = t.fresh
      /\ \A x \in s.writes : x \in t.writes \/ x.id = i
  <2>1. /\ still \subseteq {r \in Seen(vrows, t) : r.id = i} /\ ChangesRows(still, changed, i, call)
        /\ t.at \in {"update", "scan"}
    BY <1>1, <1>3
  <2>2. t.at = "update" =>
          \A r \in Seen(vrows, t) : r.id = i /\ r.key = KeyAt(call, t) /\ ~r.superseded => r \in still
    BY <1>1, <1>3
  <2>3. PICK n, rs : n = next_id /\ rs = vrows
    OBVIOUS
  <2>4. n \in Nat \ {0} /\ RowsOK(rs, n) /\ TxOK(rs, t, call, n)
    BY <1>4, <2>3
  <2>5. s = WithRow(t, i, still, changed)
    BY <1>1
  <2> HIDE <1>1
  <2>6. /\ TxOK(rs, s, call, n)
        /\ s.at = t.at /\ s.rec = t.rec /\ s.held = t.held /\ s.fresh = t.fresh
        /\ \A x \in s.writes : x \in t.writes \/ x.id = i
    BY <2>1, <2>2, <2>3, <2>4, <2>5, RowsChange
  <2> QED BY <2>3, <2>6
<1>6. ASSUME NEW d \in Clients, d # c PROVE Apart(s, tx[d]) /\ Apart(tx[d], s)
  <2>1. Apart(t, tx[d])
    BY <1>1, <1>6 DEF VectorInv
  <2>2. \A v \in tx[d].writes : v.id # i
    BY <1>2, <1>6 DEF WriterOf
  <2> QED BY <2>1, <2>2, <1>5 DEF Apart
<1>7. Len(ended[c]) < Len(program[c]) /\ s.at # "idle"
  BY <1>1, <1>5, TxFacts
<1> QED BY <1>1, <1>2, <1>5, <1>6, <1>7, StatementStep

(* The rows of one id that a client sees are one row at most.              *)
LEMMA SeenOnce ==
  ASSUME VectorInv, NEW c \in Clients
  PROVE  /\ \A r, q \in View(c) : r.id = q.id => r = q
         /\ \A r \in View(c) : IsRow(r, next_id) /\ ~r.gone
<1>1. View(c) = Seen(vrows, tx[c])
  BY ViewIsSeen
<1>2. next_id \in Nat \ {0} /\ RowsOK(vrows, next_id) /\ TxOK(vrows, tx[c], CallOf(c), next_id)
  BY TxFacts
<1>3. RowsOK(Seen(vrows, tx[c]), next_id)
  BY <1>2, CommitKeepsRows
<1> QED BY <1>1, <1>3 DEF RowsOK, OneRowPerId

LEMMA SupersedeStep == ASSUME VectorInv, NEW c \in Clients, SupersedeActive(c) PROVE VectorInv'
<1>1. PICK still, hash, changed :
        /\ still = {r \in View(c) : r.id = NextRow(c) /\ r.key = KeyOf(RecordOf(c)) /\ ~r.superseded}
        /\ hash = RecordOf(c).hash /\ changed = {Supersede(r, hash) : r \in still}
  OBVIOUS
<1>2. tx[c].at = "update" /\ ChangeRow(c, still, changed)
  BY <1>1 DEF SupersedeActive
<1>3. still \subseteq {r \in View(c) : r.id = NextRow(c)}
  BY <1>1
<1>4. \A r, q \in still : r = q
  BY <1>3, SeenOnce
<1>5. \A r \in still : IsRow(r, next_id) /\ ~r.gone /\ ~r.superseded
  BY <1>1, SeenOnce
<1>6. ChangesRows(still, changed, NextRow(c), CallOf(c))
  <2> SUFFICES ASSUME NEW r \in still, NEW x, x = Supersede(r, hash)
               PROVE  /\ r.id = NextRow(c) /\ x.id = NextRow(c) /\ x.key = r.key /\ x.hash = r.hash
                      /\ x.superseded \in BOOLEAN /\ x.gone \in BOOLEAN
                      /\ x = [id |-> x.id, key |-> x.key, hash |-> x.hash, superseded |-> x.superseded, by |-> x.by,
                              gone |-> x.gone]
                      /\ x.superseded \/ x.gone
                      /\ r.superseded => x.superseded /\ x.gone
                      /\ x.gone => CallOf(c).op = "delete" /\ DeleteMatches(CallOf(c), x)
    BY <1>1 DEF ChangesRows
  <2>1. IsRow(r, next_id) /\ ~r.gone /\ ~r.superseded /\ r.id = NextRow(c)
    BY <1>3, <1>5
  <2>2. /\ x.id = r.id /\ x.key = r.key /\ x.hash = r.hash /\ x.superseded = TRUE /\ x.gone = r.gone
        /\ x = [id |-> x.id, key |-> x.key, hash |-> x.hash, superseded |-> x.superseded, by |-> x.by, gone |-> x.gone]
    BY <2>1 DEF IsRow, Supersede
  <2>3. r.gone \in BOOLEAN
    BY <2>1 DEF IsRow
  <2> QED BY <2>1, <2>2, <2>3
<1>7. KeyAt(CallOf(c), tx[c]) = KeyOf(RecordOf(c))
  BY TxFacts
<1>8. \A r \in View(c) : r.id = NextRow(c) /\ r.key = KeyAt(CallOf(c), tx[c]) /\ ~r.superseded => r \in still
  BY <1>1, <1>7
<1>9. (still = {} => changed = {}) /\ (still # {} => changed # {}) /\ \A x, y \in changed : x = y
  BY <1>1, <1>4
<1> QED BY <1>2, <1>3, <1>6, <1>8, <1>9, ChangeRowStep

LEMMA ScanStep == ASSUME VectorInv, NEW c \in Clients, ScanRow(c) PROVE VectorInv'
<1>1. PICK call, still, changed :
        /\ call = CallOf(c)
        /\ still = {r \in View(c) : r.id = NextRow(c) /\ Matches(call, r)}
        /\ changed = {Changed(call, r) : r \in still}
  OBVIOUS
<1>2. tx[c].at = "scan" /\ ChangeRow(c, still, changed)
  BY <1>1 DEF ScanRow
<1>3. still \subseteq {r \in View(c) : r.id = NextRow(c)}
  BY <1>1
<1>4. \A r, q \in still : r = q
  BY <1>3, SeenOnce
<1>5. \A r \in still : IsRow(r, next_id) /\ ~r.gone /\ Matches(call, r) /\ r.id = NextRow(c)
  BY <1>1, SeenOnce
<1>6. ChangesRows(still, changed, NextRow(c), call)
  <2> SUFFICES ASSUME NEW r \in still, NEW x, x = Changed(call, r)
               PROVE  /\ r.id = NextRow(c) /\ x.id = NextRow(c) /\ x.key = r.key /\ x.hash = r.hash
                      /\ x.superseded \in BOOLEAN /\ x.gone \in BOOLEAN
                      /\ x = [id |-> x.id, key |-> x.key, hash |-> x.hash, superseded |-> x.superseded, by |-> x.by,
                              gone |-> x.gone]
                      /\ x.superseded \/ x.gone
                      /\ r.superseded => x.superseded /\ x.gone
                      /\ x.gone => call.op = "delete" /\ DeleteMatches(call, x)
    BY <1>1 DEF ChangesRows
  <2>1. IsRow(r, next_id) /\ ~r.gone /\ r.id = NextRow(c) /\ Matches(call, r)
    BY <1>5
  <2>2. r.superseded \in BOOLEAN /\ r.gone \in BOOLEAN
    BY <2>1 DEF IsRow
  <2>3. CASE call.op = "delete"
    <3>1. x = [r EXCEPT !.gone = TRUE] /\ DeleteMatches(call, r)
      BY <2>1, <2>3 DEF Changed, Matches
    <3>2. /\ x.id = r.id /\ x.key = r.key /\ x.hash = r.hash /\ x.superseded = r.superseded /\ x.gone = TRUE
          /\ x = [id |-> x.id, key |-> x.key, hash |-> x.hash, superseded |-> x.superseded, by |-> x.by, gone |-> x.gone]
      BY <2>1, <3>1 DEF IsRow
    <3>3. DeleteMatches(call, x)
      BY <3>1, <3>2 DEF DeleteMatches
    <3> QED BY <2>1, <2>2, <2>3, <3>2, <3>3
  <2>4. CASE call.op # "delete"
    <3>1. PICK hash : hash = call.by
      OBVIOUS
    <3>2. x = Supersede(r, hash) /\ ~r.superseded
      BY <2>1, <2>4, <3>1 DEF Changed, Matches, InvalidateMatches
    <3>3. /\ x.id = r.id /\ x.key = r.key /\ x.hash = r.hash /\ x.superseded = TRUE /\ x.gone = r.gone
          /\ x = [id |-> x.id, key |-> x.key, hash |-> x.hash, superseded |-> x.superseded, by |-> x.by, gone |-> x.gone]
      BY <2>1, <3>2 DEF IsRow, Supersede
    <3> QED BY <2>1, <2>2, <3>2, <3>3
  <2> QED BY <2>3, <2>4
<1>9. (still = {} => changed = {}) /\ (still # {} => changed # {}) /\ \A x, y \in changed : x = y
  BY <1>1, <1>4
<1> QED BY <1>1, <1>2, <1>3, <1>6, <1>9, ChangeRowStep

(* At the insert no active row of the record is in sight: the unique index *)
(* has nothing to refuse.                                                  *)
LEMMA InsertFindsNoActive ==
  ASSUME VectorInv, NEW c \in Clients, tx[c].at = "insert"
  PROVE  Active(View(c), KeyOf(RecordOf(c))) = {}
<1>1. View(c) = Seen(vrows, tx[c])
  BY ViewIsSeen
<1>2. \A r \in Seen(vrows, tx[c]) : r.key = KeyOf(RecordOf(c)) => r.superseded
  BY TxFacts DEF TxOK, StageOK
<1> QED BY <1>1, <1>2 DEF Active, OfKey

LEMMA InsertStep == ASSUME VectorInv, NEW c \in Clients, InsertRow(c) PROVE VectorInv'
<1>1. tx[c].at = "insert" /\ UNCHANGED program
  BY DEF InsertRow
<1>2. CASE RecordOf(c).dimension # TableDimension
  BY <1>1, <1>2, RollbackStep DEF InsertRow
<1>3. CASE RecordOf(c).dimension = TableDimension
  <2>1. PICK t, call, row, s0, s :
          /\ t = tx[c] /\ call = CallOf(c)
          /\ row = [id |-> next_id, key |-> KeyOf(RecordOf(c)), hash |-> RecordOf(c).hash, superseded |-> FALSE,
                    by |-> NoHash, gone |-> FALSE]
          /\ s0 = [t EXCEPT !.writes = t.writes \cup {row}, !.fresh = t.fresh \cup {next_id}]
          /\ s = NextRecord(c, s0)
    OBVIOUS
  <2>10. s = NextRecord(c, s0)
    BY <2>1
  <2>2. UnchangedIn(c, s) /\ next_id' = next_id + 1
    BY <1>1, <1>3, <2>1, InsertFindsNoActive DEF InsertRow
  <2>3. /\ next_id \in Nat \ {0} /\ RowsOK(vrows, next_id) /\ TxOK(vrows, t, call, next_id)
        /\ IsTx(t) /\ t.rec \in Nat /\ t.at = "insert" /\ KeyAt(call, t) = KeyOf(RecordOf(c))
    BY <1>1, <2>1, TxFacts
  <2>4. /\ IsTx(s0) /\ s0.rec = t.rec /\ s0.writes = t.writes \cup {row} /\ s0.held = t.held
        /\ s0.fresh = t.fresh \cup {next_id}
    BY <2>1, <2>3 DEF IsTx
  <2>5. /\ IsTx(s) /\ s.at \in {"lock", "commit"} /\ s.rec \in Nat
        /\ s.writes = t.writes \cup {row} /\ s.held = t.held /\ s.fresh = t.fresh \cup {next_id}
    <3>1. s0.rec \in Nat
      BY <2>3, <2>4
    <3>2. /\ IsTx(s) /\ s.at \in {"lock", "commit"} /\ s.rec \in Nat
          /\ s.writes = s0.writes /\ s.held = s0.held /\ s.fresh = s0.fresh
      BY ONLY <2>10, <2>4, <3>1, NextRecordIs
    <3> QED BY <2>4, <3>2
  <2>6. /\ row.id = next_id /\ row.key = KeyAt(call, t) /\ row.superseded = FALSE /\ row.gone = FALSE
        /\ row = [id |-> row.id, key |-> row.key, hash |-> row.hash, superseded |-> row.superseded, by |-> row.by,
                  gone |-> row.gone]
    BY <2>1, <2>3
  <2>7. TxOK(vrows, s, call, next_id + 1)
    BY <2>3, <2>5, <2>6, RowInserted
  <2>8. ASSUME NEW d \in Clients, d # c PROVE Apart(s, tx[d]) /\ Apart(tx[d], s)
    <3>1. Apart(t, tx[d]) /\ TxShape(tx[d], next_id)
      BY <2>1, <2>8 DEF VectorInv, TxOK
    <3>2. next_id \notin tx[d].fresh /\ \A v \in tx[d].writes : v.id # next_id
      BY <2>3, <3>1 DEF TxShape, IsRow
    <3> QED BY <2>5, <2>6, <3>1, <3>2 DEF Apart
  <2>9. Len(ended[c]) < Len(program[c]) /\ s.at # "idle"
    BY <1>1, <2>5, TxFacts
  <2> QED BY <1>1, <2>1, <2>2, <2>7, <2>8, <2>9, StatementStep
<1> QED BY <1>2, <1>3

LEMMA VectorInitOK == VectorInit => VectorInv
<1> SUFFICES ASSUME VectorInit PROVE VectorInv
  OBVIOUS
<1>1. /\ \A c \in Clients : tx[c] = Rest /\ ended[c] = <<>>
      /\ DOMAIN tx = Clients /\ program \in Programs /\ vrows = {} /\ next_id = 1
  BY DEF VectorInit
<1>2. Rest.at = "idle"
  BY DEF Rest
<1>3. CallsOK
  <2>1. \A c \in Clients : Len(program[c]) \in Nat
    BY <1>1, VectorAssumption
  <2>2. \A c \in Clients : Len(ended[c]) = 0
    BY <1>1
  <2>3. ended \in [Clients -> Seq([how : {"committed", "refused", "deadlock", "lost"}, mem_ok : BOOLEAN])]
    BY DEF VectorInit
  <2> QED BY <1>1, <1>2, <2>1, <2>2, <2>3 DEF CallsOK
<1>4. RowsOK(vrows, next_id)
  BY <1>1 DEF RowsOK, OneRowPerId, NewestActive
<1>5. \A c \in Clients : TxOK(vrows, tx[c], CallOf(c), next_id)
  BY <1>1, RestIsOK
<1>6. \A c, d \in Clients : Apart(tx[c], tx[d])
  BY <1>1 DEF Apart, Rest
<1> QED BY <1>1, <1>3, <1>4, <1>5, <1>6 DEF VectorInv

LEMMA VectorStep == VectorInv /\ [VectorNext]_vectorVars => VectorInv'
<1> SUFFICES ASSUME VectorInv, [VectorNext]_vectorVars PROVE VectorInv'
  OBVIOUS
<1>1. ASSUME NEW c \in Clients, BreakDeadlock(c) PROVE VectorInv'
  <2>1. tx[c].at # "idle"
    BY <1>1 DEF BreakDeadlock, InCycle, WaitsFor
  <2> QED BY <1>1, <2>1, RollbackStep DEF BreakDeadlock
<1>2. ASSUME NEW c \in Clients, LoseConnection(c) PROVE VectorInv'
  BY <1>2, RollbackStep DEF LoseConnection
<1>3. CASE UNCHANGED vectorVars
  BY <1>3 DEF vectorVars, VectorInv, CallsOK, CallOf
<1> QED BY <1>1, <1>2, <1>3, BeginCallStep, AcquireStep, SelectStep, SupersedeStep, ScanStep, RowsDoneStep, InsertStep,
           CommitStep DEF VectorNext

(* What a step does to the committed rows: nothing, or a commit of some    *)
(* client's call, whose rows are then the table.                           *)
LEMMA RowsChangeByCommit ==
  ASSUME VectorInv, VectorNext
  PROVE  \/ vrows' = vrows
         \/ \E c \in Clients : /\ vrows' = Seen(vrows, tx[c])
                               /\ Len(ended'[c]) = Len(ended[c]) + 1
<1>1. PICK c \in Clients :
        \/ BeginCall(c) \/ AcquireUpsertLock(c) \/ SelectActive(c) \/ SupersedeActive(c) \/ ScanRow(c)
        \/ RowsDone(c) \/ InsertRow(c) \/ Commit(c) \/ BreakDeadlock(c) \/ LoseConnection(c)
  BY DEF VectorNext
<1>2. CASE Commit(c)
  <2>1. vrows' = Seen(vrows, tx[c])
    BY <1>2, CommitStep
  <2>2. tx[c].at # "idle" /\ EndCall(c, "committed") /\ UNCHANGED program
    BY <1>2 DEF Commit
  <2>3. Len(ended'[c]) = Len(ended[c]) + 1
    BY <2>2, CallEnds
  <2> QED BY <2>1, <2>3
<1>3. CASE BeginCall(c) \/ SelectActive(c) \/ RowsDone(c)
  BY <1>3 DEF BeginCall, SelectActive, RowsDone, UnchangedIn
<1>4. CASE AcquireUpsertLock(c) \/ InsertRow(c)
  BY <1>4 DEF AcquireUpsertLock, InsertRow, Rollback, UnchangedIn
<1>5. CASE SupersedeActive(c) \/ ScanRow(c)
  BY <1>5 DEF SupersedeActive, ScanRow, ChangeRow, UnchangedIn
<1>6. CASE BreakDeadlock(c) \/ LoseConnection(c)
  BY <1>6 DEF BreakDeadlock, LoseConnection, Rollback
<1> QED BY <1>1, <1>2, <1>3, <1>4, <1>5, <1>6

LEMMA HistoryStep ==
  ASSUME VectorInv, VectorNext
  PROVE  /\ \A r \in vrows, q \in vrows' :
              r.id = q.id => /\ r.hash = q.hash /\ r.key = q.key
                             /\ r.superseded => q = r
         /\ \A r \in vrows : (\A q \in vrows' : q.id # r.id) =>
              \E c \in Clients : /\ Len(ended'[c]) > Len(ended[c])
                                 /\ CallOf(c).op = "delete" /\ DeleteMatches(CallOf(c), r)
<1>1. CASE vrows' = vrows
  BY <1>1 DEF VectorInv, RowsOK, OneRowPerId
<1>2. ASSUME NEW c \in Clients, vrows' = Seen(vrows, tx[c]), Len(ended'[c]) = Len(ended[c]) + 1
      PROVE  /\ \A r \in vrows, q \in vrows' :
                  r.id = q.id => /\ r.hash = q.hash /\ r.key = q.key
                                 /\ r.superseded => q = r
             /\ \A r \in vrows : (\A q \in vrows' : q.id # r.id) =>
                  \E d \in Clients : /\ Len(ended'[d]) > Len(ended[d])
                                     /\ CallOf(d).op = "delete" /\ DeleteMatches(CallOf(d), r)
  <2>1. PICK t, call : t = tx[c] /\ call = CallOf(c)
    OBVIOUS
  <2>2. RowsOK(vrows, next_id) /\ TxOK(vrows, t, call, next_id)
    BY <2>1, TxFacts
  <2>3. Retires(vrows, t, call) /\ OneRowPerId(vrows) /\ \A r \in vrows : r.id \notin t.fresh /\ ~r.gone
    BY <2>2 DEF TxOK, Inserts, RowsOK
  <2>4. ASSUME NEW r \in vrows, NEW q \in Seen(vrows, t), r.id = q.id
        PROVE  r.hash = q.hash /\ r.key = q.key /\ (r.superseded => q = r)
    <3>1. CASE q \in vrows
      BY <3>1, <2>3, <2>4 DEF OneRowPerId
    <3>2. CASE q \in t.writes
      <4>1. PICK b \in vrows : b.id = q.id /\ b.key = q.key /\ b.hash = q.hash /\ (b.superseded => q.gone)
        BY <3>2, <2>3, <2>4 DEF Retires
      <4>2. b = r /\ ~q.gone
        BY <4>1, <2>3, <2>4 DEF OneRowPerId, Seen
      <4> QED BY <4>1, <4>2
    <3> QED BY <3>1, <3>2 DEF Seen
  <2>5. ASSUME NEW r \in vrows, \A q \in Seen(vrows, t) : q.id # r.id
        PROVE  call.op = "delete" /\ DeleteMatches(call, r)
    <3>1. r \notin Seen(vrows, t)
      BY <2>5
    <3>2. PICK w \in t.writes : w.id = r.id
      BY <3>1, <2>3 DEF Seen
    <3>3. w.gone
      BY <3>2, <2>5 DEF Seen
    <3>4. call.op = "delete" /\ DeleteMatches(call, w)
      BY <3>2, <3>3, <2>3 DEF Retires
    <3>5. PICK b \in vrows : b.id = w.id /\ b.key = w.key
      BY <3>2, <2>3 DEF Retires
    <3>6. r.key = w.key
      BY <3>2, <3>5, <2>3 DEF OneRowPerId
    <3> QED BY <3>4, <3>6 DEF DeleteMatches
  <2>6. Len(ended[c]) \in Nat
    BY DEF VectorInv, CallsOK
  <2>7. Len(ended'[c]) > Len(ended[c])
    BY <1>2, <2>6
  <2> QED BY <1>2, <2>1, <2>4, <2>5, <2>7
<1> QED BY <1>1, <1>2, RowsChangeByCommit

LEMMA VectorInvImplies == VectorInv => VectorTypeOK /\ ActiveIsNewest /\ UpsertsNeverCollide
<1> SUFFICES ASSUME VectorInv PROVE VectorTypeOK /\ ActiveIsNewest /\ UpsertsNeverCollide
  OBVIOUS
<1>0. RowsOK(vrows, next_id) /\ CallsOK
  BY DEF VectorInv
<1>1. VectorTypeOK
  <2>1. \A c \in Clients : tx[c].at \in Stages
    BY DEF VectorInv, TxOK, TxShape
  <2>2. \A r \in vrows : r.id \in 1..(next_id - 1) /\ ~r.gone
    BY <1>0 DEF RowsOK, IsRow
  <2> QED BY <1>0, <2>1, <2>2 DEF VectorTypeOK, CallsOK, Stages
<1>2. ActiveIsNewest
  <2> SUFFICES ASSUME NEW r \in vrows, ~r.superseded
               PROVE  Get(vrows, r.key) = {r}
    BY DEF ActiveIsNewest, Search
  <2>1. \A q \in vrows : q.key = r.key => q.id <= r.id
    BY <1>0 DEF RowsOK, NewestActive
  <2>2. r \in Get(vrows, r.key)
    BY <2>1 DEF Get, OfKey
  <2>3. ASSUME NEW q \in Get(vrows, r.key) PROVE q = r
    <3>1. q \in vrows /\ q.key = r.key /\ r.id <= q.id
      BY DEF Get, OfKey
    <3>2. q.id <= r.id /\ q.id \in Int /\ r.id \in Int
      BY <2>1, <3>1, <1>0 DEF RowsOK, IsRow
    <3>3. q.id = r.id
      BY <3>1, <3>2
    <3> QED BY <3>1, <3>3, <1>0 DEF RowsOK, OneRowPerId
  <2> QED BY <2>2, <2>3
<1>3. UpsertsNeverCollide
  <2>1. ASSUME NEW c \in Clients, NEW i \in DOMAIN ended[c] PROVE ended[c][i].how # "collided"
    <3> DEFINE Answers == [how : {"committed", "refused", "deadlock", "lost"}, mem_ok : BOOLEAN]
    <3>1. ended[c] \in Seq(Answers)
      BY <1>0 DEF CallsOK
    <3>2. \A a \in Answers : a.how # "collided"
      OBVIOUS
    <3> HIDE DEF Answers
    <3>3. ended[c][i] \in Answers
      BY <3>1
    <3> QED BY <3>2, <3>3
  <2> QED BY <2>1 DEF UpsertsNeverCollide
<1> QED BY <1>1, <1>2, <1>3

(* For any number of clients, any programs and any interleaving of their   *)
(* statements, with broken cycles and lost connections: the active version *)
(* of a record is its newest one, the advisory lock leaves the unique      *)
(* index nothing to refuse, and history only grows (PgVectorStore.upsert,  *)
(* delete, invalidate_snapshot).                                           *)
THEOREM VersionsAlwaysHold == VectorSpec => VersionsHold
<1>1. VectorInv /\ [VectorNext]_vectorVars =>
        [/\ \A r \in vrows, q \in vrows' :
              r.id = q.id => /\ r.hash = q.hash /\ r.key = q.key
                             /\ r.superseded => q = r
         /\ \A r \in vrows : (\A q \in vrows' : q.id # r.id) =>
              \E c \in Clients : /\ Len(ended'[c]) > Len(ended[c])
                                 /\ CallOf(c).op = "delete" /\ DeleteMatches(CallOf(c), r)]_vectorVars
  BY HistoryStep
<1> QED BY VectorInitOK, VectorStep, VectorInvImplies, <1>1, PTL DEF VectorSpec, VersionsHold, HistoryOnlyGrows

(***************************************************************************)
(* The vector store and the in-memory store: a client that is alone cannot *)
(* tell them apart.  The in-memory store makes a call at once, Postgres    *)
(* statement by statement, so the invariant says at every statement how    *)
(* far the in-memory store would have come.                                *)
(***************************************************************************)
(* What the in-memory store holds: a collection with a history has its     *)
(* dimension on record, and a dimension other than the table's is bad.     *)
DimsKnown(m, dims) ==
  \A key \in DOMAIN m : m[key] # <<>> => \E d \in dims : d[1] = <<key[1], key[2]>>
Bad(dims) == \E d \in dims : d[2] # TableDimension
AccOK(acc) ==
  /\ acc = [ok |-> acc.ok, mem |-> acc.mem, dims |-> acc.dims] /\ acc.ok \in BOOLEAN
  /\ DimsKnown(acc.mem, acc.dims)
Replayed(m, r) ==
  LET h == MemHistory(m, KeyOf(r)) IN h # <<>> /\ ~h[Len(h)].superseded /\ h[Len(h)].hash = r.hash
Upserted(m, r) ==
  MemSet(m, KeyOf(r), Append(Superseding(MemHistory(m, KeyOf(r)), r.hash),
                             [hash |-> r.hash, superseded |-> FALSE, by |-> NoHash]))
Established(dims, tenant, r) == {d \in dims : d[1] = <<tenant, r.collection>>}

(* One record: refused, a replay, or a new version.                        *)
LEMMA UpsertOneIs ==
  ASSUME NEW tenant, NEW acc, NEW r, AccOK(acc)
  PROVE  LET after == MemUpsertOne(tenant, acc, r)
             known == Established(acc.dims, tenant, r)
             refused == r.tenant # tenant \/ \E d \in known : d[2] # r.dimension IN
         /\ ~acc.ok => after = acc
         /\ acc.ok /\ refused => after = [ok |-> FALSE, mem |-> acc.mem, dims |-> acc.dims]
         /\ acc.ok /\ ~refused /\ Replayed(acc.mem, r) => after = acc
         /\ acc.ok /\ ~refused /\ ~Replayed(acc.mem, r) =>
              after = [ok |-> TRUE, mem |-> Upserted(acc.mem, r),
                       dims |-> (acc.dims \ known) \cup {<<<<tenant, r.collection>>, r.dimension>>}]
<1> DEFINE known == Established(acc.dims, tenant, r)
           refused == r.tenant # tenant \/ \E d \in known : d[2] # r.dimension
<1>1. MemUpsertOne(tenant, acc, r) =
        IF ~acc.ok THEN acc
        ELSE IF refused THEN [acc EXCEPT !.ok = FALSE]
        ELSE IF Replayed(acc.mem, r) THEN acc
        ELSE [ok |-> TRUE, mem |-> Upserted(acc.mem, r),
              dims |-> (acc.dims \ known) \cup {<<<<tenant, r.collection>>, r.dimension>>}]
  BY DEF MemUpsertOne, CallerOwnsRecord, Established, Replayed, Upserted
<1>2. [acc EXCEPT !.ok = FALSE] = [ok |-> FALSE, mem |-> acc.mem, dims |-> acc.dims]
  <2>1. acc = [ok |-> acc.ok, mem |-> acc.mem, dims |-> acc.dims]
    BY DEF AccOK
  <2>2. PICK no : no = FALSE
    OBVIOUS
  <2>3. [acc EXCEPT !.ok = no] = [ok |-> no, mem |-> acc.mem, dims |-> acc.dims]
    BY ONLY <2>1
  <2> QED BY <2>2, <2>3
<1> HIDE DEF known, refused
<1>3. /\ ~acc.ok => MemUpsertOne(tenant, acc, r) = acc
      /\ acc.ok /\ refused => MemUpsertOne(tenant, acc, r) = [ok |-> FALSE, mem |-> acc.mem, dims |-> acc.dims]
      /\ acc.ok /\ ~refused /\ Replayed(acc.mem, r) => MemUpsertOne(tenant, acc, r) = acc
      /\ acc.ok /\ ~refused /\ ~Replayed(acc.mem, r) =>
           MemUpsertOne(tenant, acc, r) =
             [ok |-> TRUE, mem |-> Upserted(acc.mem, r),
              dims |-> (acc.dims \ known) \cup {<<<<tenant, r.collection>>, r.dimension>>}]
  BY <1>1, <1>2, Zenon
<1> QED BY <1>3, Zenon DEF known, refused

LEMMA UpsertOneOK ==
  ASSUME NEW tenant, NEW acc, NEW r, AccOK(acc)
  PROVE  LET after == MemUpsertOne(tenant, acc, r) IN
         /\ AccOK(after)
         /\ ~acc.ok => ~after.ok
         /\ Bad(acc.dims) => Bad(after.dims)
         /\ r.tenant # tenant => ~after.ok
         /\ r.dimension # TableDimension /\ ~Bad(after.dims) => ~after.ok
         /\ acc.ok /\ r.tenant = tenant /\ r.dimension = TableDimension /\ ~Bad(acc.dims) =>
              /\ after.ok /\ ~Bad(after.dims)
              /\ Replayed(acc.mem, r) => after.mem = acc.mem
              /\ ~Replayed(acc.mem, r) => after.mem = Upserted(acc.mem, r)
<1> DEFINE after == MemUpsertOne(tenant, acc, r)
           known == Established(acc.dims, tenant, r)
           refused == r.tenant # tenant \/ \E d \in known : d[2] # r.dimension
           pair == <<<<tenant, r.collection>>, r.dimension>>
<1>1. /\ ~acc.ok => after = acc
      /\ acc.ok /\ refused => after = [ok |-> FALSE, mem |-> acc.mem, dims |-> acc.dims]
      /\ acc.ok /\ ~refused /\ Replayed(acc.mem, r) => after = acc
      /\ acc.ok /\ ~refused /\ ~Replayed(acc.mem, r) =>
           after = [ok |-> TRUE, mem |-> Upserted(acc.mem, r), dims |-> (acc.dims \ known) \cup {pair}]
  BY UpsertOneIs
<1> HIDE DEF after
<1>2. acc.ok \in BOOLEAN /\ DimsKnown(acc.mem, acc.dims)
  BY DEF AccOK
<1>3. pair[1] = <<tenant, r.collection>> /\ pair[2] = r.dimension
  OBVIOUS
<1> HIDE DEF pair
<1>4. \A d \in known : d \in acc.dims /\ d[1] = <<tenant, r.collection>>
  BY DEF Established
<1>5. KeyOf(r) = <<r.tenant, r.collection, r.record_id>> /\ KeyOf(r)[1] = r.tenant /\ KeyOf(r)[2] = r.collection
  BY DEF KeyOf
<1>6. CASE ~acc.ok
  <2>1. after = acc
    BY <1>1, <1>6
  <2> QED BY <2>1, <1>6 DEF after
<1>7. CASE acc.ok /\ refused
  <2>1. after = [ok |-> FALSE, mem |-> acc.mem, dims |-> acc.dims]
    BY <1>1, <1>7
  <2>2. after.ok = FALSE /\ after.mem = acc.mem /\ after.dims = acc.dims
        /\ after = [ok |-> after.ok, mem |-> after.mem, dims |-> after.dims]
    BY <2>1
  <2>3. AccOK(after)
    BY <2>2, <1>2 DEF AccOK
  <2>4. r.tenant = tenant /\ r.dimension = TableDimension /\ ~Bad(acc.dims) => FALSE
    BY <1>4, <1>7 DEF Bad
  <2> QED BY <2>2, <2>3, <2>4 DEF after
<1>8. CASE acc.ok /\ ~refused /\ Replayed(acc.mem, r)
  <2>1. after = acc
    BY <1>1, <1>8
  <2>2. KeyOf(r) \in DOMAIN acc.mem /\ acc.mem[KeyOf(r)] # <<>>
    BY <1>8 DEF Replayed, MemHistory
  <2>3. PICK d \in acc.dims : d[1] = <<KeyOf(r)[1], KeyOf(r)[2]>>
    BY <1>2, <2>2 DEF DimsKnown
  <2>4. d \in known
    BY <2>3, <1>5, <1>8 DEF Established
  <2>5. d[2] = r.dimension
    BY <2>4, <1>8
  <2>6. r.dimension # TableDimension => Bad(acc.dims)
    BY <2>3, <2>5 DEF Bad
  <2>7. r.tenant = tenant
    BY <1>8
  <2> QED BY <2>1, <2>6, <2>7, <1>8 DEF after
<1>9. CASE acc.ok /\ ~refused /\ ~Replayed(acc.mem, r)
  <2>1. after = [ok |-> TRUE, mem |-> Upserted(acc.mem, r), dims |-> (acc.dims \ known) \cup {pair}]
    BY <1>1, <1>9
  <2>2. after.ok = TRUE /\ after.mem = Upserted(acc.mem, r) /\ after.dims = (acc.dims \ known) \cup {pair}
        /\ after = [ok |-> after.ok, mem |-> after.mem, dims |-> after.dims]
    BY <2>1
  <2>3. r.tenant = tenant /\ \A d \in known : d[2] = r.dimension
    BY <1>9
  <2>4. Bad(acc.dims) => Bad(after.dims)
    BY <2>2, <2>3, <1>3 DEF Bad
  <2>5. r.dimension # TableDimension => Bad(after.dims)
    BY <2>2, <1>3 DEF Bad
  <2>6. r.dimension = TableDimension /\ ~Bad(acc.dims) => ~Bad(after.dims)
    BY <2>2, <1>3 DEF Bad
  <2>7. DimsKnown(after.mem, after.dims)
    <3>1. ASSUME NEW key \in DOMAIN after.mem, after.mem[key] # <<>>
          PROVE  \E d \in after.dims : d[1] = <<key[1], key[2]>>
      <4>1. CASE key = KeyOf(r)
        <5>1. pair \in after.dims
          BY <2>2
        <5> QED BY <4>1, <5>1, <1>3, <1>5, <2>3
      <4>2. CASE key # KeyOf(r)
        <5>1. key \in DOMAIN acc.mem /\ acc.mem[key] # <<>>
          BY <2>2, <3>1, <4>2 DEF Upserted, MemSet
        <5>2. PICK d \in acc.dims : d[1] = <<key[1], key[2]>>
          BY <1>2, <5>1 DEF DimsKnown
        <5>3. CASE d \in known
          BY <5>2, <5>3, <1>3, <1>4, <2>2
        <5>4. CASE d \notin known
          BY <5>2, <5>4, <2>2
        <5> QED BY <5>3, <5>4
      <4> QED BY <4>1, <4>2
    <3> QED BY <3>1 DEF DimsKnown
  <2>8. AccOK(after)
    BY <2>2, <2>7 DEF AccOK
  <2> QED BY <1>9, <2>2, <2>3, <2>4, <2>5, <2>6, <2>8 DEF after
<1> QED BY <1>2, <1>6, <1>7, <1>8, <1>9

(* The in-memory store along the records of a batch.                       *)
Along(start, call, f, n) == IF n = 0 THEN start ELSE MemUpsertOne(call.tenant, f[n - 1], call.records[n])
IsAlong(f, start, call) == f = [n \in 0..Len(call.records) |-> Along(start, call, f, n)]
After(start, call) == CHOOSE f : IsAlong(f, start, call)

LEMMA AlongExists ==
  ASSUME NEW start, NEW call, NEW n \in Nat
  PROVE  \E f : f = [i \in 0..n |-> Along(start, call, f, i)]
<1> DEFINE P(m) == \E f : f = [i \in 0..m |-> Along(start, call, f, i)]
           T == {m \in Nat : ~P(m)}
<1> SUFFICES ASSUME T # {} PROVE FALSE
  OBVIOUS
<1>1. PICK m \in T : \A y \in T : m <= y
  BY LeastNumber
<1>2. m # 0
  <2> DEFINE g == [i \in 0..0 |-> start]
  <2>1. \A i \in 0..0 : g[i] = Along(start, call, g, i)
    BY DEF Along
  <2>2. g = [i \in 0..0 |-> g[i]]
    OBVIOUS
  <2>3. g = [i \in 0..0 |-> Along(start, call, g, i)]
    <3> HIDE DEF g
    <3> QED BY <2>1, <2>2
  <2>4. P(0)
    BY <2>3
  <2> QED BY <2>4
<1>3. m - 1 \in Nat /\ m - 1 \notin T
  BY <1>1, <1>2
<1>4. PICK f : f = [i \in 0..(m - 1) |-> Along(start, call, f, i)]
  BY <1>3
<1> DEFINE g == [i \in 0..m |-> IF i = m THEN Along(start, call, f, i) ELSE f[i]]
<1>5. ASSUME NEW i \in 0..m PROVE g[i] = Along(start, call, g, i)
  <2>1. i # 0 => i - 1 \in 0..m /\ i - 1 # m
    BY <1>3
  <2>2. Along(start, call, g, i) = Along(start, call, f, i)
    <3>1. i # 0 => g[i - 1] = f[i - 1]
      BY <2>1
    <3> HIDE DEF g
    <3> QED BY <3>1 DEF Along
  <2>3. i # m => f[i] = Along(start, call, f, i)
    <3>1. i # m => i \in 0..(m - 1)
      BY <1>3
    <3> QED BY <3>1, <1>4
  <2> QED BY <2>2, <2>3
<1>6. DOMAIN g = 0..m /\ g = [i \in 0..m |-> g[i]]
  OBVIOUS
<1>7. g = [i \in 0..m |-> Along(start, call, g, i)]
  <2> HIDE DEF g
  <2> QED BY <1>5, <1>6
<1>8. P(m)
  BY <1>7
<1> QED BY <1>8

LEMMA AfterIs ==
  ASSUME NEW start, NEW call, Len(call.records) \in Nat
  PROVE  /\ After(start, call)[0] = start
         /\ \A n \in 1..Len(call.records) :
              After(start, call)[n] = MemUpsertOne(call.tenant, After(start, call)[n - 1], call.records[n])
         /\ MemUpsert(start, call) = After(start, call)[Len(call.records)]
<1> DEFINE D(f) == f = [n \in 0..Len(call.records) |->
                          IF n = 0 THEN start ELSE MemUpsertOne(call.tenant, f[n - 1], call.records[n])]
           after == CHOOSE f : D(f)
<1>1. \A f : IsAlong(f, start, call) <=> D(f)
  BY Zenon DEF IsAlong, Along
<1>2. \E f : IsAlong(f, start, call)
  BY AlongExists DEF IsAlong
<1>3. IsAlong(After(start, call), start, call)
  BY <1>2 DEF After
<1>4. MemUpsert(start, call) = after[Len(call.records)]
  BY DEF MemUpsert
<1>5. after = After(start, call)
  BY Zenon DEF After, IsAlong, Along
<1> HIDE DEF after
<1>6. MemUpsert(start, call) = After(start, call)[Len(call.records)]
  BY <1>4, <1>5
<1>7. PICK f : f = After(start, call)
  OBVIOUS
<1>8. f = [n \in 0..Len(call.records) |-> Along(start, call, f, n)]
  BY <1>3, <1>7 DEF IsAlong
<1>9. f[0] = start
  BY <1>8 DEF Along
<1>10. ASSUME NEW n \in 1..Len(call.records)
       PROVE  f[n] = MemUpsertOne(call.tenant, f[n - 1], call.records[n])
  <2>1. n \in 0..Len(call.records) /\ n # 0
    OBVIOUS
  <2>2. f[n] = Along(start, call, f, n)
    BY <1>8, <2>1
  <2> QED BY <2>1, <2>2 DEF Along
<1> QED BY <1>6, <1>7, <1>9, <1>10

(* Along a batch the store stays in order; what was refused stays refused, *)
(* and a bad dimension stays on record.                                    *)
LEMMA AfterOK ==
  ASSUME NEW start, NEW call, Len(call.records) \in Nat, AccOK(start)
  PROVE  \A n \in 0..Len(call.records) : AccOK(After(start, call)[n])
<1>1. PICK f, N : f = After(start, call) /\ N = Len(call.records)
  OBVIOUS
<1>2. f[0] = start /\ N \in Nat /\ \A n \in 1..N : f[n] = MemUpsertOne(call.tenant, f[n - 1], call.records[n])
  BY <1>1, AfterIs
<1>3. PICK S : S = {n \in 0..N : AccOK(f[n])}
  OBVIOUS
<1>4. 0 \in S
  BY <1>2, <1>3
<1>5. ASSUME NEW i \in 0..N, i < N, i \in S PROVE i + 1 \in S
  <2>1. i + 1 \in 1..N /\ i + 1 \in 0..N /\ (i + 1) - 1 = i
    BY <1>2, <1>5
  <2>2. f[i + 1] = MemUpsertOne(call.tenant, f[i], call.records[i + 1]) /\ AccOK(f[i])
    BY <1>2, <1>3, <1>5, <2>1
  <2>3. AccOK(f[i + 1])
    BY <2>2, UpsertOneOK
  <2> QED BY <2>1, <2>3, <1>3
<1>6. \A i \in 0..N : i \in S
  BY <1>2, <1>4, <1>5, UpTo
<1> QED BY <1>1, <1>3, <1>6

LEMMA AfterStays ==
  ASSUME NEW start, NEW call, Len(call.records) \in Nat, AccOK(start),
         NEW k \in 0..Len(call.records)
  PROVE  LET f == After(start, call)  N == Len(call.records) IN
         /\ ~f[k].ok => ~f[N].ok
         /\ Bad(f[k].dims) => Bad(f[N].dims)
<1>1. PICK f, N : f = After(start, call) /\ N = Len(call.records)
  OBVIOUS
<1>2. N \in Nat /\ k \in 0..N /\ \A n \in 1..N : f[n] = MemUpsertOne(call.tenant, f[n - 1], call.records[n])
  BY <1>1, AfterIs
<1>3. \A n \in 0..N : AccOK(f[n])
  BY <1>1, AfterOK
<1>4. PICK S : S = {n \in 0..N : (~f[k].ok => ~f[n].ok) /\ (Bad(f[k].dims) => Bad(f[n].dims))}
  OBVIOUS
<1>5. k \in S
  BY <1>2, <1>4
<1>6. ASSUME NEW i \in k..N, i < N, i \in S PROVE i + 1 \in S
  <2>1. i \in 0..N /\ i + 1 \in 1..N /\ i + 1 \in 0..N /\ (i + 1) - 1 = i
    BY <1>2, <1>6
  <2>2. f[i + 1] = MemUpsertOne(call.tenant, f[i], call.records[i + 1]) /\ AccOK(f[i])
    BY <1>2, <1>3, <2>1
  <2>3. (~f[i].ok => ~f[i + 1].ok) /\ (Bad(f[i].dims) => Bad(f[i + 1].dims))
    BY <2>2, UpsertOneOK
  <2> QED BY <2>1, <2>3, <1>4, <1>6
<1>9. k \in Nat /\ N \in Nat
  BY <1>2
<1>7. \A i \in k..N : i \in S
  BY <1>5, <1>6, <1>9, UpTo
<1>8. N \in S
  BY <1>2, <1>7
<1> QED BY <1>1, <1>4, <1>8

(* A record that is not the caller's, or has another dimension than the    *)
(* table, ends the call in refusal.                                        *)
LEMMA AfterRefused ==
  ASSUME NEW start, NEW call, Len(call.records) \in Nat, AccOK(start),
         NEW k \in 1..Len(call.records),
         \/ call.records[k].tenant # call.tenant
         \/ call.records[k].dimension # TableDimension /\ ~Bad(After(start, call)[Len(call.records)].dims)
  PROVE  ~After(start, call)[Len(call.records)].ok
<1>1. PICK f, N : f = After(start, call) /\ N = Len(call.records)
  OBVIOUS
<1>2. N \in Nat /\ k \in 1..N /\ \A n \in 1..N : f[n] = MemUpsertOne(call.tenant, f[n - 1], call.records[n])
  BY <1>1, AfterIs
<1>3. k \in 0..N /\ k - 1 \in 0..N
  BY <1>2
<1>4. AccOK(f[k - 1]) /\ f[k] = MemUpsertOne(call.tenant, f[k - 1], call.records[k])
  BY <1>1, <1>2, <1>3, AfterOK
<1>5. /\ call.records[k].tenant # call.tenant => ~f[k].ok
      /\ call.records[k].dimension # TableDimension /\ ~Bad(f[k].dims) => ~f[k].ok
  BY <1>4, UpsertOneOK
<1>6. (~f[k].ok => ~f[N].ok) /\ (Bad(f[k].dims) => Bad(f[N].dims))
  BY <1>1, <1>3, AfterStays
<1> QED BY <1>1, <1>5, <1>6

(* Records that are the caller's and fit the table are taken.              *)
LEMMA AfterTaken ==
  ASSUME NEW start, NEW call, Len(call.records) \in Nat, AccOK(start), start.ok, ~Bad(start.dims),
         NEW k \in 0..Len(call.records),
         \A j \in 1..k : call.records[j].tenant = call.tenant /\ call.records[j].dimension = TableDimension
  PROVE  \A n \in 0..k : After(start, call)[n].ok /\ ~Bad(After(start, call)[n].dims)
<1>1. PICK f, N : f = After(start, call) /\ N = Len(call.records)
  OBVIOUS
<1>2. /\ f[0] = start /\ N \in Nat /\ k \in 0..N
      /\ \A n \in 1..N : f[n] = MemUpsertOne(call.tenant, f[n - 1], call.records[n])
  BY <1>1, AfterIs
<1>3. \A n \in 0..N : AccOK(f[n])
  BY <1>1, AfterOK
<1>4. PICK S : S = {n \in 0..N : f[n].ok /\ ~Bad(f[n].dims)}
  OBVIOUS
<1>5. 0 \in S
  BY <1>2, <1>4
<1>6. ASSUME NEW i \in 0..k, i < k, i \in S PROVE i + 1 \in S
  <2>1. i \in 0..N /\ i + 1 \in 1..N /\ i + 1 \in 0..N /\ (i + 1) - 1 = i /\ i + 1 \in 1..k
    BY <1>2, <1>6
  <2>2. f[i + 1] = MemUpsertOne(call.tenant, f[i], call.records[i + 1]) /\ AccOK(f[i])
    BY <1>2, <1>3, <2>1
  <2>3. call.records[i + 1].tenant = call.tenant /\ call.records[i + 1].dimension = TableDimension
    BY <2>1
  <2>4. f[i].ok /\ ~Bad(f[i].dims)
    BY <1>4, <1>6
  <2>5. f[i + 1].ok /\ ~Bad(f[i + 1].dims)
    BY <2>2, <2>3, <2>4, UpsertOneOK
  <2> QED BY <2>1, <2>5, <1>4
<1>7. k \in Nat
  BY <1>2
<1>8. \A i \in 0..k : i \in S
  BY <1>5, <1>6, <1>7, UpTo
<1> QED BY <1>1, <1>4, <1>8

(* A history of the in-memory store, and rows of one record in a table: by *)
(* id, the rows say what the history says.                                 *)
IsHistory(h) ==
  /\ IsTuple(h)
  /\ \A i \in 1..Len(h) :
       /\ h[i] = [hash |-> h[i].hash, superseded |-> h[i].superseded, by |-> h[i].by]
       /\ h[i].superseded \in BOOLEAN
Lists(s, own, h) ==
  /\ s \in [1..Len(h) -> own]
  /\ \A r \in own : \E i \in 1..Len(h) : s[i] = r
  /\ \A i, j \in 1..Len(h) : i < j => s[i].id < s[j].id
  /\ \A i \in 1..Len(h) : s[i].hash = h[i].hash /\ s[i].superseded = h[i].superseded /\ s[i].by = h[i].by
Tells(own, h) == IsHistory(h) /\ \E s : Lists(s, own, h)
OwnRows(own) ==
  /\ \A r \in own : r.id \in Int /\ r.superseded \in BOOLEAN
  /\ \A r, q \in own : r.id = q.id => r = q
  /\ \A r, q \in own : ~r.superseded => q.id <= r.id

LEMMA NothingToTell == Tells({}, <<>>)
<1> DEFINE s == [i \in 1..0 |-> {}]
<1>1. IsHistory(<<>>)
  BY EmptyTuple DEF IsHistory
<1>2. s \in [1..0 -> {}] /\ 1..0 = {}
  OBVIOUS
<1>3. Len(<<>>) = 0
  BY EmptyTuple
<1> HIDE DEF s
<1>4. Lists(s, {}, <<>>)
  BY <1>2, <1>3 DEF Lists
<1> QED BY <1>1, <1>4 DEF Tells

LEMMA NoRows ==
  ASSUME NEW h, Tells({}, h)
  PROVE  h = <<>>
<1>1. PICK s : Lists(s, {}, h)
  BY DEF Tells
<1>2. IsTuple(h) /\ Len(h) \in Nat
  BY TupleType DEF Tells, IsHistory
<1>3. 1..Len(h) = {}
  BY <1>1 DEF Lists
<1>4. Len(h) = 0
  BY <1>2, <1>3
<1>5. IsTuple(<<>>) /\ Len(<<>>) = 0
  BY EmptyTuple
<1> QED BY <1>2, <1>4, <1>5, TupleEqual

(* The newest row is the last of the history.                              *)
LEMMA NewestIsLast ==
  ASSUME NEW own, NEW h, NEW s, IsHistory(h), Lists(s, own, h), OwnRows(own), NEW r \in own, ~r.superseded
  PROVE  Len(h) \in 1..Len(h) /\ s[Len(h)] = r /\ h # <<>>
<1>1. Len(h) \in Nat
  BY TupleType DEF IsHistory
<1>2. PICK i \in 1..Len(h) : s[i] = r
  BY DEF Lists
<1>3. Len(h) \in 1..Len(h) /\ s[Len(h)] \in own
  BY <1>1, <1>2 DEF Lists
<1>4. s[Len(h)].id <= r.id /\ r.id \in Int /\ s[Len(h)].id \in Int
  BY <1>3 DEF OwnRows
<1>5. ~(i < Len(h))
  <2>1. ASSUME i < Len(h) PROVE FALSE
    <3>1. s[i].id < s[Len(h)].id
      BY <2>1, <1>2, <1>3 DEF Lists
    <3> QED BY <3>1, <1>2, <1>4
  <2> QED BY <2>1
<1>6. i = Len(h)
  BY <1>1, <1>2, <1>5
<1>7. h # <<>>
  BY <1>1, <1>2, EmptyTuple
<1> QED BY <1>2, <1>3, <1>6, <1>7

(* Superseding the last version.                                           *)
LEMMA SupersedingIs ==
  ASSUME NEW h, IsHistory(h), NEW hash
  PROVE  LET g == Superseding(h, hash) IN
         /\ IsHistory(g) /\ Len(g) = Len(h)
         /\ \A i \in 1..Len(h) : i # Len(h) => g[i] = h[i]
         /\ \A i \in 1..Len(h) : g[i].hash = h[i].hash
         /\ h = <<>> \/ h[Len(h)].superseded => g = h
         /\ h # <<>> /\ ~h[Len(h)].superseded => g[Len(h)].superseded /\ g[Len(h)].by = hash
<1> DEFINE g == Superseding(h, hash)
<1>1. IsTuple(h) /\ Len(h) \in Nat /\ DOMAIN h = 1..Len(h) /\ h = [i \in 1..Len(h) |-> h[i]]
  BY TupleType DEF IsHistory
<1>2. CASE h = <<>> \/ h[Len(h)].superseded
  <2>1. g = h
    BY <1>2 DEF Superseding
  <2> QED BY <1>2, <2>1 DEF g
<1>3. CASE ~(h = <<>> \/ h[Len(h)].superseded)
  <2>0. g = [h EXCEPT ![Len(h)].superseded = TRUE, ![Len(h)].by = hash]
    BY <1>3 DEF Superseding
  <2> HIDE DEF g
  <2>1. Len(h) \in 1..Len(h)
    <3>1. Len(h) # 0
      BY <1>1, <1>3, EmptyTuple, TupleEqual
    <3> QED BY <3>1, <1>1
  <2>2. PICK n, last, yes : n = Len(h) /\ last = h[n] /\ yes = TRUE
    OBVIOUS
  <2>3. last = [hash |-> last.hash, superseded |-> last.superseded, by |-> last.by]
    BY <2>1, <2>2 DEF IsHistory
  <2>4. PICK new : new = [hash |-> last.hash, superseded |-> yes, by |-> hash]
    OBVIOUS
  <2>5. new = [last EXCEPT !.superseded = yes, !.by = hash]
    <3>1. PICK mid : mid = [last EXCEPT !.superseded = yes]
      OBVIOUS
    <3>2. mid = [hash |-> last.hash, superseded |-> yes, by |-> last.by]
      BY ONLY <2>3, <3>1
    <3>3. [mid EXCEPT !.by = hash] = new
      BY ONLY <2>4, <3>2
    <3>4. [mid EXCEPT !.by = hash] = [last EXCEPT !.superseded = yes, !.by = hash]
      BY ONLY <3>1
    <3> QED BY <3>3, <3>4
  <2>6. g = [h EXCEPT ![n] = new]
    <3>1. g = [h EXCEPT ![n].superseded = yes, ![n].by = hash]
      BY <2>0, <2>2
    <3>2. h = [i \in 1..n |-> h[i]] /\ n \in 1..n /\ last = h[n]
      BY <1>1, <2>1, <2>2
    <3> QED BY ONLY <3>1, <3>2, <2>5
  <2>7. g = [i \in 1..n |-> IF i = n THEN new ELSE h[i]]
    BY <1>1, <2>2, <2>6
  <2>8. g = [i \in 1..n |-> g[i]] /\ \A i \in 1..n : g[i] = IF i = n THEN new ELSE h[i]
    BY <2>7
  <2>9. IsTuple(g) /\ Len(g) = n
    BY <1>1, <2>2, <2>8, FunctionTuple
  <2>10. /\ new.hash = last.hash /\ new.superseded = TRUE /\ new.by = hash
         /\ new = [hash |-> new.hash, superseded |-> new.superseded, by |-> new.by]
    BY <2>2, <2>4
  <2>11. IsHistory(g)
    <3>1. ASSUME NEW i \in 1..n
          PROVE  /\ g[i] = [hash |-> g[i].hash, superseded |-> g[i].superseded, by |-> g[i].by]
                 /\ g[i].superseded \in BOOLEAN
      <4>1. CASE i = n
        BY <4>1, <2>8, <2>10
      <4>2. CASE i # n
        <5>1. g[i] = h[i]
          BY <4>2, <2>8
        <5> QED BY <5>1, <2>2 DEF IsHistory
      <4> QED BY <4>1, <4>2
    <3> QED BY <3>1, <2>9 DEF IsHistory
  <2>12. g[n] = new /\ \A i \in 1..n : (i # n => g[i] = h[i]) /\ g[i].hash = h[i].hash
    BY <2>1, <2>2, <2>8, <2>10
  <2> QED BY <1>3, <2>2, <2>9, <2>10, <2>11, <2>12 DEF g
<1> QED BY <1>2, <1>3

LEMMA TellsNewest ==
  ASSUME NEW own, NEW h, Tells(own, h), OwnRows(own), NEW row, row.id \in Int,
         \A q \in own : q.id < row.id, row.superseded \in BOOLEAN,
         NEW e, e = [hash |-> row.hash, superseded |-> row.superseded, by |-> row.by]
  PROVE  Tells(own \cup {row}, Append(h, e))
<1>1. PICK s : Lists(s, own, h)
  BY DEF Tells
<1>2. PICK g, n : g = Append(h, e) /\ n = Len(h)
  OBVIOUS
<1>3. IsTuple(h) /\ n \in Nat
  BY <1>2, TupleType DEF Tells, IsHistory
<1>4. IsTuple(g) /\ Len(g) = n + 1 /\ g[n + 1] = e /\ \A i \in 1..n : g[i] = h[i]
  BY <1>2, <1>3, TupleAppend
<1>5. /\ e.hash = row.hash /\ e.superseded = row.superseded /\ e.by = row.by
      /\ e = [hash |-> e.hash, superseded |-> e.superseded, by |-> e.by]
  OBVIOUS
<1>6. \A i \in 1..(n + 1) : i \in 1..n \/ i = n + 1
  BY <1>3
<1>7. IsHistory(g)
  <2>1. \A i \in 1..n : /\ h[i] = [hash |-> h[i].hash, superseded |-> h[i].superseded, by |-> h[i].by]
                        /\ h[i].superseded \in BOOLEAN
    BY <1>2 DEF Tells, IsHistory
  <2>2. ASSUME NEW i \in 1..Len(g)
        PROVE  /\ g[i] = [hash |-> g[i].hash, superseded |-> g[i].superseded, by |-> g[i].by]
               /\ g[i].superseded \in BOOLEAN
    <3>1. CASE i \in 1..n
      BY <2>1, <3>1, <1>4
    <3>2. CASE i = n + 1
      BY <3>2, <1>4, <1>5
    <3> QED BY <1>4, <1>6, <3>1, <3>2
  <2> QED BY <1>4, <2>2 DEF IsHistory
<1> DEFINE u == [i \in 1..(n + 1) |-> IF i = n + 1 THEN row ELSE s[i]]
<1>8. s \in [1..n -> own] /\ n + 1 \in 1..(n + 1) /\ n + 1 \notin 1..n /\ \A i \in 1..n : i \in 1..(n + 1)
  BY <1>1, <1>2, <1>3 DEF Lists
<1>9. u[n + 1] = row /\ (\A i \in 1..n : u[i] = s[i]) /\ u \in [1..(n + 1) -> own \cup {row}]
  BY <1>6, <1>8
<1> HIDE DEF u
<1>10. ASSUME NEW i \in 1..(n + 1), NEW j \in 1..(n + 1), i < j PROVE u[i].id < u[j].id
  <2>1. i \in 1..n
    BY <1>3, <1>10
  <2>2. CASE j \in 1..n
    BY <2>1, <2>2, <1>1, <1>2, <1>9, <1>10 DEF Lists
  <2>3. CASE j = n + 1
    <3>1. s[i] \in own
      BY <1>8, <2>1
    <3> QED BY <3>1, <2>1, <2>3, <1>9
  <2> QED BY <1>6, <2>2, <2>3
<1>11. \A r \in own \cup {row} : \E i \in 1..(n + 1) : u[i] = r
  <2>1. \A r \in own : \E i \in 1..n : s[i] = r
    BY <1>1, <1>2 DEF Lists
  <2> QED BY <2>1, <1>8, <1>9
<1>12. ASSUME NEW i \in 1..(n + 1)
       PROVE  u[i].hash = g[i].hash /\ u[i].superseded = g[i].superseded /\ u[i].by = g[i].by
  <2>1. CASE i \in 1..n
    BY <2>1, <1>1, <1>2, <1>4, <1>9 DEF Lists
  <2>2. CASE i = n + 1
    BY <2>2, <1>4, <1>5, <1>9
  <2> QED BY <1>6, <2>1, <2>2
<1>13. Lists(u, own \cup {row}, g)
  BY <1>4, <1>9, <1>10, <1>11, <1>12 DEF Lists
<1> QED BY <1>2, <1>7, <1>13 DEF Tells

(* The newest row superseded, in the table and in the history.             *)
LEMMA TellsSupersede ==
  ASSUME NEW own, NEW h, Tells(own, h), OwnRows(own), NEW r \in own, ~r.superseded, NEW hash,
         NEW x, x.id = r.id, x.hash = r.hash, x.superseded = TRUE, x.by = hash
  PROVE  Tells((own \ {r}) \cup {x}, Superseding(h, hash))
<1>0. IsHistory(h)
  BY DEF Tells
<1>1. PICK s : Lists(s, own, h)
  BY DEF Tells
<1>2. PICK g, n : g = Superseding(h, hash) /\ n = Len(h)
  OBVIOUS
<1>3. n \in 1..n /\ s[n] = r /\ h # <<>>
  BY <1>0, <1>1, <1>2, NewestIsLast
<1>4. h[n].superseded = r.superseded /\ ~h[n].superseded
  BY <1>1, <1>2, <1>3 DEF Lists
<1>5. /\ IsHistory(g) /\ Len(g) = n /\ g[n].superseded /\ g[n].by = hash
      /\ \A i \in 1..n : (i # n => g[i] = h[i]) /\ g[i].hash = h[i].hash
  BY <1>0, <1>2, <1>3, <1>4, SupersedingIs
<1>6. g[n].superseded = TRUE
  BY <1>3, <1>5 DEF IsHistory
<1>7. /\ s \in [1..n -> own] /\ \A q \in own : \E i \in 1..n : s[i] = q
      /\ \A i, j \in 1..n : i < j => s[i].id < s[j].id
      /\ \A i \in 1..n : s[i].hash = h[i].hash /\ s[i].superseded = h[i].superseded /\ s[i].by = h[i].by
  BY <1>1, <1>2 DEF Lists
<1>8. \A i \in 1..n : i # n => s[i] \in own \ {r}
  <2>1. ASSUME NEW i \in 1..n, i # n PROVE s[i] # r
    <3>1. i < n /\ s[i].id < s[n].id /\ s[i].id \in Int /\ s[n].id \in Int
      BY <2>1, <1>3, <1>7 DEF OwnRows
    <3> QED BY <3>1, <1>3
  <2> QED BY <2>1, <1>7
<1> DEFINE new == (own \ {r}) \cup {x}
           u == [i \in 1..n |-> IF i = n THEN x ELSE s[i]]
<1>9. u[n] = x /\ (\A i \in 1..n : i # n => u[i] = s[i]) /\ u \in [1..n -> new]
  BY <1>3, <1>8
<1> HIDE DEF u
<1>10. \A q \in new : \E i \in 1..n : u[i] = q
  BY <1>3, <1>7, <1>9
<1>11. \A i \in 1..n : u[i].id = s[i].id
  BY <1>3, <1>9
<1>12. \A i, j \in 1..n : i < j => u[i].id < u[j].id
  BY <1>7, <1>11
<1>13. ASSUME NEW i \in 1..n
       PROVE  u[i].hash = g[i].hash /\ u[i].superseded = g[i].superseded /\ u[i].by = g[i].by
  <2>1. CASE i = n
    <3>1. s[n].hash = h[n].hash /\ g[n].hash = h[n].hash
      BY <1>3, <1>5, <1>7
    <3> QED BY <2>1, <3>1, <1>3, <1>5, <1>6, <1>9
  <2>2. CASE i # n
    BY <2>2, <1>5, <1>7, <1>9
  <2> QED BY <2>1, <2>2
<1>14. Lists(u, new, g)
  BY <1>5, <1>9, <1>10, <1>12, <1>13 DEF Lists
<1> QED BY <1>2, <1>5, <1>14 DEF Tells

(* On the way to it: the history as it was, or the last version superseded.*)
Half(own, h, hash) == IsHistory(h) /\ (Tells(own, h) \/ Tells(own, Superseding(h, hash)))

LEMMA HalfLast ==
  ASSUME NEW own, NEW h, NEW hash, Half(own, h, hash), OwnRows(own), NEW r \in own, ~r.superseded
  PROVE  Tells(own, h) /\ h # <<>> /\ h[Len(h)].hash = r.hash
<1>1. Tells(own, h)
  <2>1. PICK g : g = Superseding(h, hash)
    OBVIOUS
  <2>2. ASSUME Tells(own, g) PROVE g = h
    <3>1. IsHistory(g) /\ IsHistory(h)
      BY <2>2 DEF Tells, Half
    <3>2. PICK s : Lists(s, own, g)
      BY <2>2 DEF Tells
    <3>3. Len(g) \in 1..Len(g) /\ s[Len(g)] = r /\ g # <<>>
      BY <3>1, <3>2, NewestIsLast
    <3>4. ~g[Len(g)].superseded
      BY <3>2, <3>3 DEF Lists
    <3> QED BY <2>1, <3>1, <3>4, SupersedingIs
  <2> QED BY <2>1, <2>2 DEF Half
<1>2. PICK s : Lists(s, own, h)
  BY <1>1 DEF Tells
<1>3. Len(h) \in 1..Len(h) /\ s[Len(h)] = r /\ h # <<>>
  BY <1>2, NewestIsLast DEF Half
<1>4. h[Len(h)].hash = r.hash
  BY <1>2, <1>3 DEF Lists
<1> QED BY <1>1, <1>3, <1>4

LEMMA HalfSupersedes ==
  ASSUME NEW own, NEW h, NEW hash, Half(own, h, hash), OwnRows(own), NEW r \in own, ~r.superseded,
         NEW x, x.id = r.id, x.hash = r.hash, x.superseded = TRUE, x.by = hash
  PROVE  Tells((own \ {r}) \cup {x}, Superseding(h, hash))
<1>1. Tells(own, h)
  BY HalfLast
<1> QED BY <1>1, TellsSupersede

LEMMA HalfDone ==
  ASSUME NEW own, NEW h, NEW hash, Half(own, h, hash),
         \A r \in own : h # <<>> /\ r.hash = h[Len(h)].hash => r.superseded
  PROVE  Tells(own, Superseding(h, hash))
<1>1. CASE Tells(own, Superseding(h, hash))
  BY <1>1
<1>2. CASE Tells(own, h)
  <2>1. IsHistory(h) /\ Len(h) \in Nat
    BY TupleType DEF Half, IsHistory
  <2>2. PICK s : Lists(s, own, h)
    BY <1>2 DEF Tells
  <2>3. h = <<>> \/ h[Len(h)].superseded
    <3>1. ASSUME h # <<>> PROVE h[Len(h)].superseded
      <4>1. Len(h) # 0
        BY <2>1, <3>1, EmptyTuple, TupleEqual DEF IsHistory
      <4>2. Len(h) \in 1..Len(h)
        BY <2>1, <4>1
      <4>3. s[Len(h)] \in own /\ s[Len(h)].hash = h[Len(h)].hash /\ s[Len(h)].superseded = h[Len(h)].superseded
        BY <2>2, <4>2 DEF Lists
      <4>4. s[Len(h)].superseded
        BY <3>1, <4>3
      <4> QED BY <4>3, <4>4
    <3> QED BY <3>1
  <2>4. Superseding(h, hash) = h
    BY <2>3 DEF Superseding
  <2> QED BY <1>2, <2>4
<1> QED BY <1>1, <1>2 DEF Half

(* A replay is seen as one by both.                                        *)
LEMMA ReplayIsSeen ==
  ASSUME NEW own, NEW h, Tells(own, h), OwnRows(own), NEW hash
  PROVE  (\E a \in own : ~a.superseded /\ a.hash = hash) <=>
           (h # <<>> /\ ~h[Len(h)].superseded /\ h[Len(h)].hash = hash)
<1>1. IsHistory(h) /\ Len(h) \in Nat
  BY TupleType DEF Tells, IsHistory
<1>2. PICK s : Lists(s, own, h)
  BY DEF Tells
<1>3. ASSUME NEW a \in own, ~a.superseded, a.hash = hash
      PROVE  h # <<>> /\ ~h[Len(h)].superseded /\ h[Len(h)].hash = hash
  <2>1. Len(h) \in 1..Len(h) /\ s[Len(h)] = a /\ h # <<>>
    BY <1>1, <1>2, <1>3, NewestIsLast
  <2> QED BY <1>2, <1>3, <2>1 DEF Lists
<1>4. ASSUME h # <<>>, ~h[Len(h)].superseded, h[Len(h)].hash = hash
      PROVE  \E a \in own : ~a.superseded /\ a.hash = hash
  <2>1. Len(h) # 0
    BY <1>1, <1>4, EmptyTuple, TupleEqual DEF IsHistory
  <2>2. Len(h) \in 1..Len(h)
    BY <1>1, <2>1
  <2>3. s[Len(h)] \in own /\ s[Len(h)].hash = hash /\ ~s[Len(h)].superseded
    BY <1>2, <1>4, <2>2 DEF Lists
  <2> QED BY <2>3
<1> QED BY <1>3, <1>4

(* list_versions answers what the history says.                            *)
LEMMA ListVersionsTell ==
  ASSUME NEW rs, NEW key, NEW h, IsHistory(h), NEW s, Lists(s, OfKey(rs, key), h), OwnRows(OfKey(rs, key))
  PROVE  /\ DOMAIN ListVersions(rs, key) = 1..Len(h) /\ Len(ListVersions(rs, key)) = Len(h)
         /\ \A n \in 1..Len(h) : ListVersions(rs, key)[n] = s[n]
<1>1. PICK own, N : own = OfKey(rs, key) /\ N = Len(h)
  OBVIOUS
<1>2. /\ N \in Nat /\ s \in [1..N -> own] /\ \A q \in own : \E i \in 1..N : s[i] = q
      /\ \A i, j \in 1..N : i < j => s[i].id < s[j].id
  BY <1>1, TupleType DEF Lists, IsHistory
<1>3. \A i \in 1..N : s[i].id \in Int
  BY <1>1, <1>2 DEF OwnRows
<1>4. \A i, j \in 1..N : s[i].id < s[j].id <=> i < j
  <2>1. ASSUME NEW i \in 1..N, NEW j \in 1..N, s[i].id < s[j].id PROVE i < j
    <3>1. ~(j < i) /\ i # j
      BY <2>1, <1>2, <1>3
    <3> QED BY <3>1, <1>2
  <2> QED BY <2>1, <1>2
<1>5. \A i, j \in 1..N : s[i] = s[j] => i = j
  <2>1. ASSUME NEW i \in 1..N, NEW j \in 1..N, s[i] = s[j] PROVE i = j
    <3>1. ~(i < j) /\ ~(j < i)
      BY <2>1, <1>3, <1>4
    <3> QED BY <3>1, <1>2
  <2> QED BY <2>1
<1>6. IsFiniteSet(1..N) /\ Cardinality(1..N) = N
  BY <1>2, FS_Interval
<1>7. Cardinality(own) = N
  BY <1>2, <1>5, <1>6, SameSize
<1>8. ASSUME NEW n \in 1..N PROVE Cardinality({q \in own : q.id < s[n].id}) = n - 1
  <2> DEFINE S == 1..(n - 1)
             T == {q \in own : q.id < s[n].id}
             f == [i \in S |-> s[i]]
  <2>1. n - 1 \in Nat /\ \A i \in S : i \in 1..N /\ i < n
    BY <1>2
  <2>2. IsFiniteSet(S) /\ Cardinality(S) = n - 1
    BY <2>1, FS_Interval
  <2>3. f \in [S -> T]
    BY <2>1, <1>2, <1>4
  <2>4. \A a, b \in S : f[a] = f[b] => a = b
    BY <2>1, <1>5
  <2>5. \A t \in T : \E a \in S : f[a] = t
    <3>1. ASSUME NEW t \in T PROVE \E a \in S : f[a] = t
      <4>1. PICK i \in 1..N : s[i] = t
        BY <1>2
      <4>2. i < n
        BY <4>1, <1>4
      <4>3. i \in S
        BY <4>1, <4>2, <1>2
      <4> QED BY <4>1, <4>3
    <3> QED BY <3>1
  <2> HIDE DEF S, T, f
  <2>6. Cardinality(T) = Cardinality(S)
    BY <2>2, <2>3, <2>4, <2>5, SameSize
  <2> QED BY <2>2, <2>6 DEF T
<1> DEFINE Nth(n) == CHOOSE r \in own : Cardinality({q \in own : q.id < r.id}) = n - 1
           v == [n \in 1..N |-> Nth(n)]
<1>9. ListVersions(rs, key) = v
  BY <1>1, <1>7 DEF ListVersions
<1>10. ASSUME NEW n \in 1..N PROVE Nth(n) = s[n]
  <2> DEFINE P(r) == Cardinality({q \in own : q.id < r.id}) = n - 1
  <2>1. s[n] \in own /\ P(s[n])
    BY <1>2, <1>8
  <2>2. \A r \in own : P(r) => r = s[n]
    <3>1. ASSUME NEW r \in own, P(r) PROVE r = s[n]
      <4>1. PICK i \in 1..N : s[i] = r
        BY <1>2
      <4>2. Cardinality({q \in own : q.id < s[i].id}) = i - 1
        BY <1>8
      <4>3. i - 1 = n - 1
        BY <3>1, <4>1, <4>2
      <4>4. i = n
        BY <4>3, <1>2
      <4> QED BY <4>1, <4>4
    <3> QED BY <3>1
  <2>3. Nth(n) = CHOOSE r \in own : P(r)
    OBVIOUS
  <2> HIDE DEF P
  <2> QED BY <2>1, <2>2, <2>3
<1> HIDE DEF Nth
<1>11. v = [n \in 1..N |-> v[n]] /\ DOMAIN v = 1..N /\ \A n \in 1..N : v[n] = Nth(n)
  OBVIOUS
<1> HIDE DEF v
<1>12. Len(v) = N
  BY <1>2, <1>11, FunctionTuple
<1> QED BY <1>1, <1>9, <1>10, <1>11, <1>12

(* The table and the in-memory store agree on every record.                *)
TableAgrees(rs, m) == \A key : Tells(OfKey(rs, key), MemHistory(m, key))

(* In the course of a call: a record whose last version is being           *)
(* superseded to make room, rows still to delete, rows still to supersede. *)
HalfWay(rs, m, r) ==
  /\ ~Replayed(m, r)
  /\ \A key : key # KeyOf(r) => Tells(OfKey(rs, key), MemHistory(m, key))
  /\ Half(OfKey(rs, KeyOf(r)), MemHistory(m, KeyOf(r)), r.hash)
Deletes(call, key) == key \in {<<call.tenant, call.collection, i>> : i \in call.ids}
Deleting(rs, m, call, todo) ==
  /\ \A r \in rs : DeleteMatches(call, r) => r.id \in todo
  /\ \A key : ~Deletes(call, key) => Tells(OfKey(rs, key), MemHistory(m, key))
Invalidates(m, call, key) ==
  LET h == MemHistory(m, key) IN
  key[1] = call.tenant /\ key[2] = call.collection /\ h # <<>> /\ h[Len(h)].hash = call.hash
Invalidating(rs, m, call, todo) ==
  /\ \A r \in rs : InvalidateMatches(call, r) => r.id \in todo
  /\ \A key : IF Invalidates(m, call, key) THEN Half(OfKey(rs, key), MemHistory(m, key), call.by)
              ELSE Tells(OfKey(rs, key), MemHistory(m, key))

LEMMA RecordRows ==
  ASSUME NEW rs, NEW n, RowsOK(rs, n), n \in Nat
  PROVE  \A key : OwnRows(OfKey(rs, key))
<1>1. \A r \in rs : r.id \in Int /\ r.superseded \in BOOLEAN
  BY DEF RowsOK, IsRow
<1> QED BY <1>1 DEF RowsOK, OneRowPerId, NewestActive, OwnRows, OfKey

LEMMA NothingAgrees == TableAgrees({}, <<>>)
<1>1. \A key : OfKey({}, key) = {} /\ MemHistory(<<>>, key) = <<>>
  BY DEF OfKey, MemHistory
<1> QED BY <1>1, NothingToTell DEF TableAgrees

LEMMA HistorySet ==
  ASSUME NEW m, NEW key, NEW h
  PROVE  \A k : MemHistory(MemSet(m, key, h), k) = IF k = key THEN h ELSE MemHistory(m, k)
BY DEF MemHistory, MemSet

LEMMA HistoryDeleted ==
  ASSUME NEW m, NEW call
  PROVE  \A k : MemHistory(MemDelete(m, call), k) = IF Deletes(call, k) THEN <<>> ELSE MemHistory(m, k)
<1>1. PICK D : D = {<<call.tenant, call.collection, i>> : i \in call.ids}
  OBVIOUS
<1>2. MemDelete(m, call) = [k \in {k \in DOMAIN m : k \notin D} |-> m[k]]
  BY <1>1 DEF MemDelete
<1>3. \A k : Deletes(call, k) <=> k \in D
  BY <1>1 DEF Deletes
<1> QED BY <1>2, <1>3 DEF MemHistory

LEMMA HistoryInvalidated ==
  ASSUME NEW m, NEW call
  PROVE  \A k : MemHistory(MemInvalidate(m, call), k) =
                  IF Invalidates(m, call, k) THEN Superseding(MemHistory(m, k), call.by) ELSE MemHistory(m, k)
<1>1. ASSUME NEW k
      PROVE  MemHistory(MemInvalidate(m, call), k) =
               IF Invalidates(m, call, k) THEN Superseding(MemHistory(m, k), call.by) ELSE MemHistory(m, k)
  <2>1. CASE k \in DOMAIN m
    <3>1. MemHistory(m, k) = m[k] /\ MemHistory(MemInvalidate(m, call), k) = MemInvalidate(m, call)[k]
      BY <2>1 DEF MemHistory, MemInvalidate
    <3>2. MemInvalidate(m, call)[k] = IF /\ k[1] = call.tenant /\ k[2] = call.collection /\ m[k] # <<>>
                                         /\ m[k][Len(m[k])].hash = call.hash
                                      THEN Superseding(m[k], call.by) ELSE m[k]
      BY <2>1 DEF MemInvalidate
    <3> QED BY <3>1, <3>2 DEF Invalidates
  <2>2. CASE k \notin DOMAIN m
    <3>1. MemHistory(m, k) = <<>> /\ MemHistory(MemInvalidate(m, call), k) = <<>>
      BY <2>2 DEF MemHistory, MemInvalidate
    <3> QED BY <3>1 DEF Invalidates
  <2> QED BY <2>1, <2>2
<1> QED BY <1>1

(* The other records when a row goes.                                      *)
LEMMA RowRemoved ==
  ASSUME NEW rs, NEW r \in rs
  PROVE  \A k : k # r.key => OfKey(rs \ {r}, k) = OfKey(rs, k)
BY DEF OfKey

(* _upsert_one of both stores.                                             *)
LEMMA SelectAgrees ==
  ASSUME NEW rs, NEW m, TableAgrees(rs, m), NEW n \in Nat, RowsOK(rs, n), NEW r
  PROVE  /\ (\E a \in Active(rs, KeyOf(r)) : a.hash = r.hash) <=> Replayed(m, r)
         /\ ~Replayed(m, r) => HalfWay(rs, m, r)
<1>1. PICK own, h : own = OfKey(rs, KeyOf(r)) /\ h = MemHistory(m, KeyOf(r))
  OBVIOUS
<1>2. Tells(own, h) /\ OwnRows(own)
  BY <1>1, RecordRows DEF TableAgrees
<1>3. (\E a \in own : ~a.superseded /\ a.hash = r.hash) <=>
         (h # <<>> /\ ~h[Len(h)].superseded /\ h[Len(h)].hash = r.hash)
  <2>1. PICK hash : hash = r.hash
    OBVIOUS
  <2>2. (\E a \in own : ~a.superseded /\ a.hash = hash) <=>
           (h # <<>> /\ ~h[Len(h)].superseded /\ h[Len(h)].hash = hash)
    BY ONLY <1>2, ReplayIsSeen, SMTT(60)
  <2> QED BY ONLY <2>1, <2>2
<1>4. (\E a \in Active(rs, KeyOf(r)) : a.hash = r.hash) <=> Replayed(m, r)
  BY <1>1, <1>3 DEF Active, Replayed
<1>5. Half(own, h, r.hash)
  BY <1>2 DEF Half, Tells
<1>6. ~Replayed(m, r) => HalfWay(rs, m, r)
  BY <1>1, <1>5 DEF HalfWay, TableAgrees
<1> QED BY <1>4, <1>6

LEMMA SupersedeHalfWay ==
  ASSUME NEW rs, NEW m, NEW r, HalfWay(rs, m, r), NEW n \in Nat, RowsOK(rs, n),
         NEW a \in rs, a.key = KeyOf(r), ~a.superseded,
         NEW x, x.id = a.id, x.key = a.key, x.hash = a.hash, x.superseded = TRUE, x.by = r.hash
  PROVE  HalfWay((rs \ {a}) \cup {x}, m, r)
<1>1. PICK key, own, h, hash, new :
        /\ key = KeyOf(r) /\ own = OfKey(rs, key) /\ h = MemHistory(m, key) /\ hash = r.hash
        /\ new = (rs \ {a}) \cup {x}
  OBVIOUS
<1>2. Half(own, h, hash) /\ OwnRows(own) /\ a \in own
  BY <1>1, RecordRows DEF HalfWay, OfKey
<1>3. Tells((own \ {a}) \cup {x}, Superseding(h, hash)) /\ IsHistory(h)
  BY <1>1, <1>2, HalfSupersedes DEF Half
<1>4. OfKey(new, key) = (own \ {a}) \cup {x} /\ \A k : k # key => OfKey(new, k) = OfKey(rs, k)
  <2>1. new = (rs \ {a}) \cup {x} /\ own = OfKey(rs, key) /\ key = a.key
    BY <1>1
  <2>2. OfKey(new, key) = (own \ {a}) \cup {x}
    BY ONLY <2>1, x.key = a.key, a \in rs DEF OfKey
  <2>3. \A k : k # key => OfKey(new, k) = OfKey(rs, k)
    BY ONLY <2>1, x.key = a.key, a \in rs DEF OfKey
  <2> QED BY <2>2, <2>3
<1>5. Half(OfKey(new, key), h, hash)
  BY <1>3, <1>4 DEF Half
<1>6. \A k : k # key => Tells(OfKey(new, k), MemHistory(m, k))
  BY <1>1, <1>4 DEF HalfWay
<1> QED BY <1>1, <1>5, <1>6 DEF HalfWay

LEMMA InsertAgrees ==
  ASSUME NEW rs, NEW m, NEW r, HalfWay(rs, m, r), NEW n \in Nat, RowsOK(rs, n),
         \A a \in rs : a.key = KeyOf(r) => a.superseded,
         NEW row, row.id = n, row.key = KeyOf(r), row.hash = r.hash, row.superseded = FALSE, row.by = NoHash
  PROVE  TableAgrees(rs \cup {row}, Upserted(m, r))
<1>1. PICK key, own, h, hash, new, e, g :
        /\ key = KeyOf(r) /\ own = OfKey(rs, key) /\ h = MemHistory(m, key) /\ hash = r.hash
        /\ new = rs \cup {row} /\ e = [hash |-> row.hash, superseded |-> row.superseded, by |-> row.by]
        /\ g = Superseding(h, hash)
  OBVIOUS
<1>2. Half(own, h, hash) /\ OwnRows(own)
  BY <1>1, RecordRows DEF HalfWay
<1>3. \A a \in own : a.superseded
  BY <1>1 DEF OfKey
<1>4. Tells(own, g)
  BY <1>1, <1>2, <1>3, HalfDone
<1>5. row.id \in Int /\ (\A q \in own : q.id < row.id) /\ row.superseded \in BOOLEAN
  <2>1. \A q \in rs : q.id \in 1..(n - 1)
    BY DEF RowsOK, IsRow
  <2>2. \A q \in own : q \in rs
    BY <1>1 DEF OfKey
  <2>3. \A q \in own : q.id < n
    BY <2>1, <2>2
  <2>4. row.superseded \in BOOLEAN
    OBVIOUS
  <2> QED BY <2>3, <2>4
<1>6. e = [hash |-> row.hash, superseded |-> row.superseded, by |-> row.by]
  BY <1>1
<1>7. Tells(own \cup {row}, Append(g, e))
  BY <1>2, <1>4, <1>5, <1>6, TellsNewest
<1>8. Upserted(m, r) = MemSet(m, key, Append(g, e))
  <2>1. e = [hash |-> r.hash, superseded |-> FALSE, by |-> NoHash]
    BY <1>1
  <2> QED BY <1>1, <2>1 DEF Upserted
<1>9. \A k : MemHistory(Upserted(m, r), k) = IF k = key THEN Append(g, e) ELSE MemHistory(m, k)
  <2>1. PICK u, new_h : u = Upserted(m, r) /\ new_h = Append(g, e)
    OBVIOUS
  <2>2. u = MemSet(m, key, new_h)
    BY <1>8, <2>1
  <2>3. \A k : MemHistory(u, k) = IF k = key THEN new_h ELSE MemHistory(m, k)
    BY ONLY <2>2, HistorySet
  <2> QED BY <2>1, <2>3
<1>10. \A k : OfKey(new, k) = IF k = key THEN own \cup {row} ELSE OfKey(rs, k)
  <2>1. new = rs \cup {row} /\ own = OfKey(rs, key) /\ key = row.key
    BY <1>1
  <2> QED BY ONLY <2>1 DEF OfKey
<1>11. \A k : k # key => Tells(OfKey(rs, k), MemHistory(m, k))
  BY <1>1 DEF HalfWay
<1>12. TableAgrees(new, Upserted(m, r))
  BY <1>7, <1>9, <1>10, <1>11 DEF TableAgrees
<1> QED BY <1>1, <1>12

(* delete of both stores.                                                  *)
LEMMA DeleteRow ==
  ASSUME NEW rs, NEW m, NEW call, NEW todo, Deleting(rs, m, call, todo), NEW n, RowsOK(rs, n),
         NEW r \in rs, DeleteMatches(call, r)
  PROVE  Deleting(rs \ {r}, m, call, todo \ {r.id})
<1>1. Deletes(call, r.key)
  BY DEF Deletes, DeleteMatches
<1>2. \A k : ~Deletes(call, k) => OfKey(rs \ {r}, k) = OfKey(rs, k)
  BY <1>1, RowRemoved
<1>3. \A q \in rs \ {r} : DeleteMatches(call, q) => q.id \in todo \ {r.id}
  BY DEF Deleting, RowsOK, OneRowPerId
<1> QED BY <1>2, <1>3 DEF Deleting

LEMMA DeleteDone ==
  ASSUME NEW rs, NEW m, NEW call, Deleting(rs, m, call, {})
  PROVE  TableAgrees(rs, MemDelete(m, call))
<1>1. ASSUME NEW k PROVE Tells(OfKey(rs, k), MemHistory(MemDelete(m, call), k))
  <2>1. CASE Deletes(call, k)
    <3>1. OfKey(rs, k) = {}
      BY <2>1 DEF Deleting, OfKey, DeleteMatches, Deletes
    <3>2. MemHistory(MemDelete(m, call), k) = <<>>
      BY <2>1, HistoryDeleted
    <3> QED BY <3>1, <3>2, NothingToTell
  <2>2. CASE ~Deletes(call, k)
    <3>1. MemHistory(MemDelete(m, call), k) = MemHistory(m, k)
      BY <2>2, HistoryDeleted
    <3> QED BY <2>2, <3>1 DEF Deleting
  <2> QED BY <2>1, <2>2
<1> QED BY <1>1 DEF TableAgrees

(* invalidate_snapshot of both stores.                                     *)
LEMMA InvalidateRow ==
  ASSUME NEW rs, NEW m, NEW call, NEW todo, Invalidating(rs, m, call, todo), NEW n \in Nat, RowsOK(rs, n),
         NEW a \in rs, InvalidateMatches(call, a),
         NEW x, x.id = a.id, x.key = a.key, x.hash = a.hash, x.superseded = TRUE, x.by = call.by
  PROVE  Invalidating((rs \ {a}) \cup {x}, m, call, todo \ {a.id})
<1>1. PICK key, own, h, hash, new :
        /\ key = a.key /\ own = OfKey(rs, key) /\ h = MemHistory(m, key) /\ hash = call.by
        /\ new = (rs \ {a}) \cup {x}
  OBVIOUS
<1>2. /\ a.hash = call.hash /\ ~a.superseded /\ a \in own /\ OwnRows(own)
      /\ key[1] = call.tenant /\ key[2] = call.collection
  <2>1. a.hash = call.hash /\ ~a.superseded /\ key[1] = call.tenant /\ key[2] = call.collection
    BY <1>1 DEF InvalidateMatches
  <2>2. a \in own
    BY <1>1 DEF OfKey
  <2>3. OwnRows(own)
    BY <1>1, RecordRows
  <2> QED BY <2>1, <2>2, <2>3
<1>3. Half(own, h, hash)
  <2>1. CASE Invalidates(m, call, key)
    BY <1>1, <2>1 DEF Invalidating
  <2>2. CASE ~Invalidates(m, call, key)
    <3>1. Tells(own, h)
      BY <1>1, <2>2 DEF Invalidating
    <3> QED BY <3>1 DEF Half, Tells
  <2> QED BY <2>1, <2>2
<1>4. Tells((own \ {a}) \cup {x}, Superseding(h, hash)) /\ h # <<>> /\ h[Len(h)].hash = a.hash /\ IsHistory(h)
  <2>1. x.by = hash
    BY <1>1
  <2>2. a \in own /\ OwnRows(own) /\ ~a.superseded
    BY <1>2
  <2>3. IsHistory(h)
    BY <1>3 DEF Half
  <2>4. x.id = a.id /\ x.hash = a.hash /\ x.superseded = TRUE
    OBVIOUS
  <2>5. Tells((own \ {a}) \cup {x}, Superseding(h, hash))
    BY <1>3, <2>1, <2>2, <2>4, HalfSupersedes
  <2>6. h # <<>> /\ h[Len(h)].hash = a.hash
    BY <1>3, <2>2, HalfLast
  <2> QED BY <2>3, <2>5, <2>6
<1>5. OfKey(new, key) = (own \ {a}) \cup {x} /\ \A k : k # key => OfKey(new, k) = OfKey(rs, k)
  <2>1. new = (rs \ {a}) \cup {x} /\ own = OfKey(rs, key) /\ key = a.key
    BY <1>1
  <2>2. OfKey(new, key) = (own \ {a}) \cup {x}
    BY ONLY <2>1, x.key = a.key, a \in rs DEF OfKey
  <2>3. \A k : k # key => OfKey(new, k) = OfKey(rs, k)
    BY ONLY <2>1, x.key = a.key, a \in rs DEF OfKey
  <2> QED BY <2>2, <2>3
<1>6. Half(OfKey(new, key), h, hash)
  BY <1>4, <1>5 DEF Half
<1>7. Invalidates(m, call, key)
  BY <1>1, <1>2, <1>4 DEF Invalidates
<1>8. ASSUME NEW k
      PROVE  IF Invalidates(m, call, k) THEN Half(OfKey(new, k), MemHistory(m, k), call.by)
             ELSE Tells(OfKey(new, k), MemHistory(m, k))
  <2>1. CASE k = key
    BY <2>1, <1>1, <1>6, <1>7
  <2>2. CASE k # key
    BY <2>2, <1>5 DEF Invalidating
  <2> QED BY <2>1, <2>2
<1>9. \A q \in new : InvalidateMatches(call, q) => q.id \in todo \ {a.id}
  <2>1. ~InvalidateMatches(call, x)
    BY DEF InvalidateMatches
  <2>2. \A q \in rs : q # a => q.id # a.id
    BY DEF RowsOK, OneRowPerId
  <2> QED BY <1>1, <2>1, <2>2 DEF Invalidating
<1>10. Invalidating(new, m, call, todo \ {a.id})
  BY <1>8, <1>9 DEF Invalidating
<1> QED BY <1>1, <1>10

LEMMA InvalidateDone ==
  ASSUME NEW rs, NEW m, NEW call, Invalidating(rs, m, call, {})
  PROVE  TableAgrees(rs, MemInvalidate(m, call))
<1>1. ASSUME NEW k PROVE Tells(OfKey(rs, k), MemHistory(MemInvalidate(m, call), k))
  <2>1. CASE Invalidates(m, call, k)
    <3>1. PICK own, h : own = OfKey(rs, k) /\ h = MemHistory(m, k)
      OBVIOUS
    <3>2. Half(own, h, call.by)
      BY <2>1, <3>1 DEF Invalidating
    <3>3. h[Len(h)].hash = call.hash /\ k[1] = call.tenant /\ k[2] = call.collection
      BY <2>1, <3>1 DEF Invalidates
    <3>4. \A r \in own : h # <<>> /\ r.hash = h[Len(h)].hash => r.superseded
      BY <3>1, <3>3 DEF Invalidating, InvalidateMatches, OfKey
    <3>5. Tells(own, Superseding(h, call.by))
      BY <3>2, <3>4, HalfDone
    <3> QED BY <2>1, <3>1, <3>5, HistoryInvalidated
  <2>2. CASE ~Invalidates(m, call, k)
    <3>1. MemHistory(MemInvalidate(m, call), k) = MemHistory(m, k)
      BY <2>2, HistoryInvalidated
    <3> QED BY <2>2, <3>1 DEF Invalidating
  <2> QED BY <2>1, <2>2
<1> QED BY <1>1 DEF TableAgrees

(* A client that is alone, and where in its call it is: the records it     *)
(* went past are the caller's, no row is left to change at the commit.     *)
Lone(c) == program[c] # <<>> /\ \A d \in Clients \ {c} : program[d] = <<>>
Start == [ok |-> TRUE, mem |-> versions, dims |-> dimensions]
Owned(call, k) == \A j \in 1..k : call.records[j].tenant = call.tenant
Place(t, call) ==
  /\ call.op = "upsert" =>
       /\ t.at \in {"lock", "select", "update", "insert", "commit"}
       /\ t.at # "commit" => t.rec \in 1..Len(call.records)
       /\ t.at = "lock" => Owned(call, t.rec - 1)
       /\ t.at \in {"select", "update", "insert"} => Owned(call, t.rec)
       /\ t.at = "commit" => Owned(call, Len(call.records))
  /\ call.op # "upsert" => t.at \in {"scan", "commit"} /\ (t.at = "commit" => t.todo = {})

(* What it sees and what the in-memory store has come to by then.          *)
Stage(rs, t, call, start) ==
  /\ call.op = "upsert" /\ t.at \in {"lock", "select"} => TableAgrees(rs, After(start, call)[t.rec - 1].mem)
  /\ call.op = "upsert" /\ t.at \in {"update", "insert"} =>
       HalfWay(rs, After(start, call)[t.rec - 1].mem, call.records[t.rec])
  /\ call.op = "upsert" /\ t.at = "commit" => TableAgrees(rs, After(start, call)[Len(call.records)].mem)
  /\ call.op = "delete" => Deleting(rs, start.mem, call, t.todo)
  /\ call.op = "invalidate" => Invalidating(rs, start.mem, call, t.todo)

AllTaken(c) == \A i \in DOMAIN ended[c] : ended[c][i].how = "committed" /\ FitsTable(program[c][i])
AnsweredAlike(c) ==
  \A i \in DOMAIN ended[c] :
    /\ ended[c][i].how = "refused" => ~ended[c][i].mem_ok
    /\ ended[c][i].how = "committed" /\ FitsTable(program[c][i]) => ended[c][i].mem_ok
Comparable(c) == ~Bad(dimensions) /\ AllTaken(c)
Solo(c) ==
  /\ DimsKnown(versions, dimensions)
  /\ tx[c].at # "idle" => Place(tx[c], CallOf(c))
  /\ ~Bad(dimensions) => AnsweredAlike(c)
  /\ Comparable(c) => TableAgrees(vrows, versions)
  /\ Comparable(c) /\ tx[c].at # "idle" /\ FitsTable(CallOf(c)) => Stage(View(c), tx[c], CallOf(c), Start)
SoloInv == \A c \in Clients : Lone(c) => Solo(c)

LEMMA CallFacts ==
  ASSUME VectorInv, NEW c \in Clients, Len(ended[c]) < Len(program[c])
  PROVE  /\ CallOf(c).op \in {"upsert", "delete", "invalidate"}
         /\ CallOf(c).op = "upsert" => /\ IsTuple(CallOf(c).records) /\ Len(CallOf(c).records) \in Nat
                                       /\ DOMAIN CallOf(c).records = 1..Len(CallOf(c).records)
<1>1. program \in Programs /\ program[c] \in Seq(Calls) /\ Len(ended[c]) \in Nat
  BY VectorAssumption DEF VectorInv, CallsOK
<1>2. Len(ended[c]) + 1 \in DOMAIN program[c]
  BY <1>1
<1>3. CallOf(c) \in Calls
  BY <1>1, <1>2 DEF CallOf
<1>4. CallOf(c).op \in {"upsert", "delete", "invalidate"}
  BY <1>3, VectorAssumption
<1>5. CallOf(c).op = "upsert" => IsTuple(CallOf(c).records)
  BY <1>3, VectorAssumption DEF IsTuple
<1> QED BY <1>4, <1>5, TupleType

LEMMA StartIsOK ==
  ASSUME DimsKnown(versions, dimensions)
  PROVE  AccOK(Start) /\ Start.ok = TRUE /\ Start.mem = versions /\ Start.dims = dimensions
BY DEF AccOK, Start

(* The whole call in the in-memory store.                                  *)
LEMMA MemApplyIs ==
  ASSUME NEW call, call.op \in {"upsert", "delete", "invalidate"}, call.op = "upsert" => Len(call.records) \in Nat
  PROVE  /\ call.op = "upsert" => MemApply(call) = After(Start, call)[Len(call.records)]
         /\ call.op = "delete" => MemApply(call) = [ok |-> TRUE, mem |-> MemDelete(versions, call), dims |-> dimensions]
         /\ call.op = "invalidate" =>
              MemApply(call) = [ok |-> TRUE, mem |-> MemInvalidate(versions, call), dims |-> dimensions]
<1>1. MemApply(call) = IF call.op = "upsert" THEN MemUpsert(Start, call)
        ELSE [Start EXCEPT !.mem = IF call.op = "delete" THEN MemDelete(versions, call) ELSE MemInvalidate(versions, call)]
  BY DEF MemApply, Start
<1>2. \A m : [Start EXCEPT !.mem = m] = [ok |-> TRUE, mem |-> m, dims |-> dimensions]
  <2>1. PICK yes : yes = TRUE
    OBVIOUS
  <2>2. Start = [ok |-> yes, mem |-> versions, dims |-> dimensions]
    BY <2>1 DEF Start
  <2>3. \A m : [Start EXCEPT !.mem = m] = [ok |-> yes, mem |-> m, dims |-> dimensions]
    BY ONLY <2>2
  <2> QED BY <2>1, <2>3
<1>3. CASE call.op = "upsert"
  <2>1. MemApply(call) = MemUpsert(Start, call)
    BY <1>1, <1>3
  <2> QED BY <1>3, <2>1, AfterIs
<1>4. CASE call.op = "delete"
  <2>1. MemApply(call) = [Start EXCEPT !.mem = MemDelete(versions, call)]
    BY <1>1, <1>4
  <2> QED BY <1>4, <2>1, <1>2
<1>5. CASE call.op = "invalidate"
  <2>1. MemApply(call) = [Start EXCEPT !.mem = MemInvalidate(versions, call)]
    BY <1>1, <1>5
  <2> QED BY <1>5, <2>1, <1>2
<1> QED BY <1>3, <1>4, <1>5

LEMMA MemApplyKeeps ==
  ASSUME NEW call, call.op \in {"upsert", "delete", "invalidate"}, call.op = "upsert" => Len(call.records) \in Nat,
         DimsKnown(versions, dimensions)
  PROVE  /\ DimsKnown(MemApply(call).mem, MemApply(call).dims) /\ MemApply(call).ok \in BOOLEAN
         /\ Bad(dimensions) => Bad(MemApply(call).dims)
<1>1. CASE call.op = "upsert"
  <2>1. PICK N : N = Len(call.records) /\ N \in Nat /\ N \in 0..N /\ 0 \in 0..N
    BY <1>1
  <2>2. AccOK(After(Start, call)[N]) /\ (Bad(After(Start, call)[0].dims) => Bad(After(Start, call)[N].dims))
    BY <2>1, StartIsOK, AfterOK, AfterStays
  <2>3. After(Start, call)[0].dims = dimensions
    BY <2>1, AfterIs, StartIsOK
  <2>4. MemApply(call) = After(Start, call)[N]
    BY <1>1, <2>1, MemApplyIs
  <2> QED BY <2>2, <2>3, <2>4 DEF AccOK
<1>2. CASE call.op = "delete"
  <2>1. MemApply(call).ok = TRUE /\ MemApply(call).mem = MemDelete(versions, call) /\ MemApply(call).dims = dimensions
    BY <1>2, MemApplyIs
  <2>2. DimsKnown(MemDelete(versions, call), dimensions)
    BY DEF DimsKnown, MemDelete
  <2> QED BY <2>1, <2>2
<1>3. CASE call.op = "invalidate"
  <2>1. MemApply(call).ok = TRUE /\ MemApply(call).mem = MemInvalidate(versions, call) /\ MemApply(call).dims = dimensions
    BY <1>3, MemApplyIs
  <2>2. ASSUME NEW k \in DOMAIN MemInvalidate(versions, call), MemInvalidate(versions, call)[k] # <<>>
        PROVE  k \in DOMAIN versions /\ versions[k] # <<>>
    <3>1. k \in DOMAIN versions
      BY DEF MemInvalidate
    <3>2. MemInvalidate(versions, call)[k] \in {Superseding(versions[k], call.by), versions[k]}
      BY <3>1 DEF MemInvalidate
    <3>3. versions[k] = <<>> => Superseding(versions[k], call.by) = versions[k]
      BY DEF Superseding
    <3> QED BY <2>2, <3>1, <3>2, <3>3
  <2>3. DimsKnown(MemInvalidate(versions, call), dimensions)
    BY <2>2 DEF DimsKnown
  <2> QED BY <2>1, <2>3
<1> QED BY <1>1, <1>2, <1>3

(* A statement of the client.                                              *)
LEMMA StatementSolo ==
  ASSUME VectorInv, NEW c \in Clients, Solo(c), NEW s, UnchangedIn(c, s), UNCHANGED program, s.at # "idle",
         Place(s, CallOf(c)),
         Comparable(c) /\ FitsTable(CallOf(c)) => Stage(Seen(vrows, s), s, CallOf(c), Start)
  PROVE  Solo(c)'
<1>1. /\ tx'[c] = s /\ vrows' = vrows /\ ended' = ended /\ program' = program
      /\ versions' = versions /\ dimensions' = dimensions
  BY DEF UnchangedIn, VectorInv
<1>2. CallOf(c)' = CallOf(c) /\ Start' = Start
  BY <1>1 DEF CallOf, Start
<1>3. View(c)' = Seen(vrows, s)
  BY <1>1 DEF View, Seen
<1>4. (Comparable(c)' <=> Comparable(c)) /\ (AnsweredAlike(c)' <=> AnsweredAlike(c))
  BY <1>1 DEF Comparable, AllTaken, AnsweredAlike
<1>5. ~Bad(dimensions) => AnsweredAlike(c)
  BY DEF Solo
<1>6. DimsKnown(versions, dimensions) /\ (Comparable(c) => TableAgrees(vrows, versions))
  BY DEF Solo
<1> QED BY <1>1, <1>2, <1>3, <1>4, <1>5, <1>6 DEF Solo

(* The end of a call.                                                      *)
LEMMA EndSolo ==
  ASSUME VectorInv, NEW c \in Clients, Lone(c), Solo(c), tx[c].at # "idle", UNCHANGED program,
         NEW how \in {"committed", "refused", "deadlock", "lost"}, EndCall(c, how),
         how = "refused" /\ ~Bad(MemApply(CallOf(c)).dims) => ~MemApply(CallOf(c)).ok,
         how = "committed" /\ ~Bad(dimensions) /\ FitsTable(CallOf(c)) => MemApply(CallOf(c)).ok,
         how = "committed" /\ Comparable(c) /\ FitsTable(CallOf(c)) => TableAgrees(vrows', MemApply(CallOf(c)).mem)
  PROVE  Solo(c)'
<1>1. PICK call, m, n : call = CallOf(c) /\ m = MemApply(call) /\ n = Len(ended[c])
  OBVIOUS
<1>2. Alone
  BY DEF Alone, Lone
<1>3. Len(ended[c]) < Len(program[c])
  BY TxFacts
<1>4. /\ DimsKnown(versions, dimensions) /\ DimsKnown(m.mem, m.dims) /\ m.ok \in BOOLEAN
      /\ Bad(dimensions) => Bad(m.dims)
  BY <1>1, <1>3, CallFacts, MemApplyKeeps DEF Solo
<1>5. PICK e : e = [how |-> how, mem_ok |-> Alone => m.ok]
  OBVIOUS
<1>6. e.how = how /\ e.mem_ok = m.ok
  BY <1>2, <1>4, <1>5
<1>7. /\ tx'[c] = Rest /\ ended'[c] = Append(ended[c], e)
      /\ how # "lost" => versions' = m.mem /\ dimensions' = m.dims
      /\ how = "lost" => versions' = versions /\ dimensions' = dimensions
  BY <1>1, <1>2, <1>5 DEF EndCall, VectorInv, CallsOK
<1>8. DimsKnown(versions', dimensions') /\ (~Bad(dimensions') => ~Bad(dimensions))
  BY <1>4, <1>7
<1>9. Rest.at = "idle"
  BY DEF Rest
<1>10. n \in Nat /\ IsTuple(ended[c]) /\ DOMAIN ended[c] = 1..n
  <2>1. \E A : ended[c] \in Seq(A)
    BY DEF VectorInv, CallsOK
  <2>2. IsTuple(ended[c])
    BY <2>1 DEF IsTuple
  <2> QED BY <1>1, <2>2, TupleType
<1>11. /\ DOMAIN ended'[c] = 1..(n + 1) /\ ended'[c][n + 1] = e
       /\ \A i \in 1..n : ended'[c][i] = ended[c][i]
  BY <1>1, <1>7, <1>10, TupleAppend, TupleType
<1>12. program' = program /\ program[c][n + 1] = call /\ n + 1 \in 1..(n + 1)
       /\ \A i \in 1..(n + 1) : i = n + 1 \/ i \in 1..n
  BY <1>1, <1>10 DEF CallOf
<1>13. ASSUME ~Bad(dimensions') PROVE AnsweredAlike(c)'
  <2>1. ~Bad(dimensions) /\ AnsweredAlike(c)
    BY <1>8, <1>13 DEF Solo
  <2>2. how = "refused" => ~e.mem_ok
    BY <1>1, <1>6, <1>7, <1>13
  <2>3. how = "committed" /\ FitsTable(call) => e.mem_ok
    BY <1>1, <1>6, <2>1
  <2>4. ASSUME NEW i \in DOMAIN ended'[c]
        PROVE  /\ ended'[c][i].how = "refused" => ~ended'[c][i].mem_ok
               /\ ended'[c][i].how = "committed" /\ FitsTable(program'[c][i]) => ended'[c][i].mem_ok
    <3>1. CASE i = n + 1
      BY <3>1, <2>2, <2>3, <1>6, <1>11, <1>12
    <3>2. CASE i \in 1..n
      BY <3>2, <2>1, <1>10, <1>11, <1>12 DEF AnsweredAlike
    <3> QED BY <3>1, <3>2, <1>11, <1>12
  <2> QED BY <2>4 DEF AnsweredAlike, FitsTable
<1>14. ASSUME Comparable(c)' PROVE TableAgrees(vrows', versions')
  <2>1. ~Bad(dimensions') /\ \A i \in DOMAIN ended'[c] : ended'[c][i].how = "committed" /\ FitsTable(program'[c][i])
    BY <1>14 DEF Comparable, AllTaken, FitsTable, Bad
  <2>2. e.how = "committed" /\ FitsTable(call)
    BY <2>1, <1>11, <1>12
  <2>3. AllTaken(c)
    BY <2>1, <1>10, <1>11, <1>12 DEF AllTaken
  <2>4. Comparable(c)
    BY <2>1, <2>3, <1>8 DEF Comparable
  <2> QED BY <2>2, <2>4, <1>1, <1>6, <1>7
<1>15. tx'[c].at = "idle"
  BY <1>7, <1>9
<1> QED BY <1>8, <1>13, <1>14, <1>15 DEF Solo, Bad

(* A record that the store takes: a replay changes nothing, anything else  *)
(* is a new version.                                                       *)
LEMMA RecordTaken ==
  ASSUME DimsKnown(versions, dimensions), ~Bad(dimensions), NEW call, call.op = "upsert", Len(call.records) \in Nat,
         FitsTable(call), DOMAIN call.records = 1..Len(call.records),
         NEW k \in 1..Len(call.records), Owned(call, k)
  PROVE  LET m == After(Start, call)[k - 1].mem  r == call.records[k] IN
         After(Start, call)[k].mem = IF Replayed(m, r) THEN m ELSE Upserted(m, r)
<1>1. PICK f, N, r : f = After(Start, call) /\ N = Len(call.records) /\ r = call.records[k]
  OBVIOUS
<1>2. AccOK(Start) /\ Start.ok /\ ~Bad(Start.dims)
  BY StartIsOK
<1>3. N \in Nat /\ k \in 1..N /\ k - 1 \in 0..N /\ k - 1 \in 0..(k - 1)
  BY <1>1
<1>4. \A j \in 1..k : call.records[j].tenant = call.tenant /\ call.records[j].dimension = TableDimension
  BY <1>1, <1>3 DEF Owned, FitsTable
<1>5. \A j \in 1..(k - 1) : call.records[j].tenant = call.tenant /\ call.records[j].dimension = TableDimension
  BY <1>3, <1>4
<1>6. f[k - 1].ok /\ ~Bad(f[k - 1].dims)
  BY <1>1, <1>2, <1>3, <1>5, AfterTaken
<1>7. AccOK(f[k - 1]) /\ f[k] = MemUpsertOne(call.tenant, f[k - 1], r)
  BY <1>1, <1>2, <1>3, AfterOK, AfterIs
<1>8. r.tenant = call.tenant /\ r.dimension = TableDimension
  BY <1>1, <1>3, <1>4
<1>9. /\ Replayed(f[k - 1].mem, r) => f[k].mem = f[k - 1].mem
      /\ ~Replayed(f[k - 1].mem, r) => f[k].mem = Upserted(f[k - 1].mem, r)
  BY <1>6, <1>7, <1>8, UpsertOneOK
<1> QED BY <1>1, <1>9

(* On to the next record, or to the commit.                                *)
LEMMA NextPlace ==
  ASSUME NEW c, NEW call, call = CallOf(c), call.op = "upsert", Len(call.records) \in Nat,
         NEW t, IsTx(t), t.rec \in 1..Len(call.records), Owned(call, t.rec),
         NEW s, s = NextRecord(c, t), NEW rs, NEW start
  PROVE  /\ Place(s, call)
         /\ TableAgrees(rs, After(start, call)[t.rec].mem) => Stage(rs, s, call, start)
<1>1. CASE t.rec < Len(call.records)
  <2>1. s = [t EXCEPT !.at = "lock", !.rec = t.rec + 1]
    BY <1>1 DEF NextRecord
  <2>2. s.at = "lock" /\ s.rec = t.rec + 1
    BY <2>1 DEF IsTx
  <2>3. s.rec \in 1..Len(call.records) /\ s.rec - 1 = t.rec
    BY <1>1, <2>2
  <2> QED BY <2>2, <2>3 DEF Place, Stage
<1>2. CASE ~(t.rec < Len(call.records))
  <2>1. s = [t EXCEPT !.at = "commit"]
    BY <1>2 DEF NextRecord
  <2>2. s.at = "commit"
    BY <2>1 DEF IsTx
  <2>3. t.rec = Len(call.records)
    BY <1>2
  <2> QED BY <2>2, <2>3 DEF Place, Stage
<1> QED BY <1>1, <1>2

LEMMA BeginSolo ==
  ASSUME VectorInv, NEW c \in Clients, Solo(c), BeginCall(c)
  PROVE  Solo(c)'
<1>1. PICK call : call = CallOf(c)
  OBVIOUS
<1>2. tx[c].at = "idle" /\ Len(ended[c]) < Len(program[c]) /\ UNCHANGED program /\ tx[c] = Rest
  BY DEF BeginCall, VectorInv, CallsOK
<1>3. /\ call.op \in {"upsert", "delete", "invalidate"}
      /\ call.op = "upsert" => IsTuple(call.records) /\ Len(call.records) \in Nat
  BY <1>1, <1>2, CallFacts
<1>4. Rest.writes = {} /\ View(c) = vrows
  <2>1. Rest.writes = {}
    BY DEF Rest
  <2>2. \A r \in vrows : ~r.gone
    BY DEF VectorInv, RowsOK
  <2> QED BY <1>2, <2>1, <2>2 DEF View
<1>5. Comparable(c) => TableAgrees(vrows, versions)
  BY <1>2 DEF Solo
<1>6. Start.mem = versions /\ DimsKnown(versions, dimensions)
  BY DEF Start, Solo
<1>7. CASE call.op = "upsert"
  <2>1. PICK s : s = [Rest EXCEPT !.at = IF call.records = <<>> THEN "commit" ELSE "lock"]
    OBVIOUS
  <2>2. UnchangedIn(c, s)
    BY <1>1, <1>7, <2>1 DEF BeginCall
  <2>3. /\ s.at = (IF call.records = <<>> THEN "commit" ELSE "lock") /\ s.rec = 1 /\ s.writes = {}
    BY <2>1 DEF Rest
  <2>4. Seen(vrows, s) = vrows
    <3>1. \A r \in vrows : ~r.gone
      BY DEF VectorInv, RowsOK
    <3> QED BY <2>3, <3>1 DEF Seen
  <2>5. After(Start, call)[0].mem = versions
    BY <1>3, <1>6, <1>7, AfterIs
  <2>6. CASE call.records = <<>>
    <3>1. s.at = "commit" /\ Len(call.records) = 0
      BY <2>3, <2>6, EmptyTuple
    <3>2. Place(s, call)
      BY <1>7, <3>1 DEF Place, Owned
    <3>3. Comparable(c) => Stage(Seen(vrows, s), s, call, Start)
      BY <1>5, <1>7, <2>4, <2>5, <3>1 DEF Stage
    <3> QED BY <1>1, <1>2, <2>2, <3>1, <3>2, <3>3, StatementSolo
  <2>7. CASE call.records # <<>>
    <3>1. Len(call.records) # 0
      BY <1>3, <1>7, <2>7, EmptyTuple, TupleEqual
    <3>2. s.at = "lock" /\ s.rec \in 1..Len(call.records) /\ s.rec - 1 = 0
      BY <1>3, <1>7, <2>3, <2>7, <3>1
    <3>3. Place(s, call)
      BY <1>7, <3>2 DEF Place, Owned
    <3>4. Comparable(c) => Stage(Seen(vrows, s), s, call, Start)
      BY <1>5, <1>7, <2>4, <2>5, <3>2 DEF Stage
    <3> QED BY <1>1, <1>2, <2>2, <3>2, <3>3, <3>4, StatementSolo
  <2> QED BY <2>6, <2>7
<1>8. CASE call.op # "upsert"
  <2>1. PICK todo, s : /\ todo = {r.id : r \in {q \in vrows : Matches(call, q)}}
                       /\ s = [Rest EXCEPT !.at = "scan", !.todo = todo]
    OBVIOUS
  <2>2. UnchangedIn(c, s)
    BY <1>1, <1>4, <1>8, <2>1 DEF BeginCall
  <2>3. s.at = "scan" /\ s.todo = todo /\ s.writes = {}
    BY <2>1 DEF Rest
  <2>4. Seen(vrows, s) = vrows
    <3>1. \A r \in vrows : ~r.gone
      BY DEF VectorInv, RowsOK
    <3> QED BY <2>3, <3>1 DEF Seen
  <2>5. Place(s, call)
    BY <1>8, <2>3 DEF Place
  <2>6. \A r \in vrows : Matches(call, r) => r.id \in todo
    BY <2>1
  <2>7. ASSUME Comparable(c) PROVE Stage(vrows, s, call, Start)
    <3>1. CASE call.op = "delete"
      <4>1. Deleting(vrows, versions, call, todo)
        BY <1>5, <2>6, <2>7, <3>1 DEF Deleting, TableAgrees, Matches
      <4> QED BY <1>6, <2>3, <3>1, <4>1 DEF Stage
    <3>2. CASE call.op = "invalidate"
      <4>1. \A key : Half(OfKey(vrows, key), MemHistory(versions, key), call.by)
        BY <1>5, <2>7 DEF TableAgrees, Half, Tells
      <4>2. Invalidating(vrows, versions, call, todo)
        BY <1>5, <2>6, <2>7, <3>2, <4>1 DEF Invalidating, TableAgrees, Matches
      <4> QED BY <1>6, <2>3, <3>2, <4>2 DEF Stage
    <3> QED BY <1>3, <1>8, <3>1, <3>2
  <2> QED BY <1>1, <1>2, <2>2, <2>3, <2>4, <2>5, <2>7, StatementSolo
<1> QED BY <1>7, <1>8

LEMMA AcquireSolo ==
  ASSUME VectorInv, NEW c \in Clients, Lone(c), Solo(c), AcquireUpsertLock(c)
  PROVE  Solo(c)'
<1>1. PICK call, t, r : call = CallOf(c) /\ t = tx[c] /\ r = call.records[t.rec] /\ r = RecordOf(c)
  BY DEF RecordOf
<1>2. t.at = "lock" /\ UNCHANGED program /\ IsTx(t) /\ Len(ended[c]) < Len(program[c])
  BY <1>1, TxFacts DEF AcquireUpsertLock
<1>3. Place(t, call) /\ DimsKnown(versions, dimensions)
  BY <1>1, <1>2 DEF Solo
<1>4. call.op \in {"upsert", "delete", "invalidate"} /\ (call.op = "upsert" => Len(call.records) \in Nat)
  BY <1>1, <1>2, CallFacts
<1>5. call.op = "upsert" /\ t.rec \in 1..Len(call.records) /\ Owned(call, t.rec - 1)
  BY <1>2, <1>3 DEF Place
<1>6. CASE ~CallerOwnsRecord(call.tenant, r)
  <2>1. EndCall(c, "refused")
    BY <1>1, <1>6 DEF AcquireUpsertLock, Rollback
  <2>2. r.tenant # call.tenant
    BY <1>6 DEF CallerOwnsRecord
  <2>3. ~After(Start, call)[Len(call.records)].ok
    BY <1>1, <1>3, <1>4, <1>5, <2>2, StartIsOK, AfterRefused
  <2>4. ~MemApply(call).ok
    BY <1>4, <1>5, <2>3, MemApplyIs
  <2> QED BY <1>1, <1>2, <2>1, <2>4, EndSolo
<1>7. CASE CallerOwnsRecord(call.tenant, r)
  <2>1. PICK s : s = [t EXCEPT !.at = "select", !.held = t.held \cup {KeyOf(r)}]
    OBVIOUS
  <2>2. UnchangedIn(c, s)
    BY <1>1, <1>7, <2>1 DEF AcquireUpsertLock
  <2>3. s.at = "select" /\ s.rec = t.rec /\ s.writes = t.writes /\ s.todo = t.todo
    BY ONLY <1>2, <2>1 DEF IsTx
  <2>4. Owned(call, t.rec)
    <3>1. \A j \in 1..t.rec : j \in 1..(t.rec - 1) \/ j = t.rec
      BY <1>4, <1>5
    <3>2. call.records[t.rec].tenant = call.tenant
      BY <1>1, <1>7 DEF CallerOwnsRecord
    <3> QED BY <1>5, <3>1, <3>2 DEF Owned
  <2>5. Place(s, call)
    BY <1>5, <2>3, <2>4 DEF Place
  <2>6. Seen(vrows, s) = Seen(vrows, t) /\ View(c) = Seen(vrows, t)
    BY <1>1, <2>3, ViewIsSeen DEF Seen
  <2>7. Comparable(c) /\ FitsTable(call) => TableAgrees(View(c), After(Start, call)[t.rec - 1].mem)
    BY <1>1, <1>2, <1>5 DEF Solo, Stage
  <2>8. Comparable(c) /\ FitsTable(call) => Stage(Seen(vrows, s), s, call, Start)
    BY <1>5, <2>3, <2>6, <2>7 DEF Stage
  <2> QED BY <1>1, <1>2, <2>2, <2>3, <2>5, <2>8, StatementSolo
<1> QED BY <1>6, <1>7

(* Where a statement of an upsert finds its transaction.                   *)
LEMMA UpsertFacts ==
  ASSUME VectorInv, NEW c \in Clients, Solo(c), tx[c].at \in {"select", "update", "insert"}
  PROVE  LET call == CallOf(c)  t == tx[c] IN
         /\ call.op = "upsert" /\ Len(call.records) \in Nat /\ DOMAIN call.records = 1..Len(call.records)
         /\ t.rec \in 1..Len(call.records) /\ Owned(call, t.rec) /\ DimsKnown(versions, dimensions)
         /\ IsTx(t) /\ View(c) = Seen(vrows, t) /\ RowsOK(View(c), next_id) /\ next_id \in Nat
         /\ Comparable(c) /\ FitsTable(call) => Stage(View(c), t, call, Start)
<1>1. PICK call, t : call = CallOf(c) /\ t = tx[c]
  OBVIOUS
<1>2. /\ Place(t, call) /\ DimsKnown(versions, dimensions)
      /\ Comparable(c) /\ FitsTable(call) => Stage(View(c), t, call, Start)
  BY <1>1 DEF Solo
<1>3. call.op = "upsert" /\ t.rec \in 1..Len(call.records) /\ Owned(call, t.rec)
  BY <1>1, <1>2 DEF Place
<1>4. IsTx(t) /\ Len(ended[c]) < Len(program[c]) /\ next_id \in Nat \ {0} /\ RowsOK(vrows, next_id)
      /\ TxOK(vrows, t, call, next_id)
  BY <1>1, TxFacts
<1>5. Len(call.records) \in Nat /\ DOMAIN call.records = 1..Len(call.records)
  BY <1>1, <1>3, <1>4, CallFacts
<1>6. View(c) = Seen(vrows, t) /\ RowsOK(View(c), next_id)
  BY <1>1, <1>4, ViewIsSeen, CommitKeepsRows
<1> QED BY <1>1, <1>2, <1>3, <1>4, <1>5, <1>6

LEMMA SelectSolo ==
  ASSUME VectorInv, NEW c \in Clients, Solo(c), SelectActive(c)
  PROVE  Solo(c)'
<1>1. PICK call, t, r, N :
        /\ call = CallOf(c) /\ t = tx[c] /\ r = call.records[t.rec] /\ r = RecordOf(c)
        /\ N = Len(call.records)
  BY DEF RecordOf
<1>2. t.at = "select" /\ UNCHANGED program
  BY <1>1 DEF SelectActive
<1>3. /\ call.op = "upsert" /\ N \in Nat /\ DOMAIN call.records = 1..N
      /\ t.rec \in 1..N /\ Owned(call, t.rec) /\ DimsKnown(versions, dimensions)
      /\ IsTx(t) /\ View(c) = Seen(vrows, t) /\ RowsOK(View(c), next_id) /\ next_id \in Nat
      /\ Comparable(c) /\ FitsTable(call) => Stage(View(c), t, call, Start)
  BY <1>1, <1>2, UpsertFacts
<1>4. PICK m, active : m = After(Start, call)[t.rec - 1].mem /\ active = Active(View(c), KeyOf(r))
  OBVIOUS
<1>5. ASSUME Comparable(c), FitsTable(call)
      PROVE  /\ TableAgrees(View(c), m)
             /\ (\E a \in active : a.hash = r.hash) <=> Replayed(m, r)
             /\ ~Replayed(m, r) => HalfWay(View(c), m, r)
             /\ Replayed(m, r) => After(Start, call)[t.rec].mem = m
  <2>1. TableAgrees(View(c), m)
    BY <1>2, <1>3, <1>4, <1>5 DEF Stage
  <2>2. /\ (\E a \in active : a.hash = r.hash) <=> Replayed(m, r)
        /\ ~Replayed(m, r) => HalfWay(View(c), m, r)
    BY <1>3, <1>4, <2>1, SelectAgrees
  <2>3. ~Bad(dimensions)
    BY <1>5 DEF Comparable
  <2>4. After(Start, call)[t.rec].mem = IF Replayed(m, r) THEN m ELSE Upserted(m, r)
    BY <1>1, <1>3, <1>4, <1>5, <2>3, RecordTaken
  <2> QED BY <2>1, <2>2, <2>4
<1>6. CASE \E a \in active : a.hash = r.hash
  <2>1. PICK s : s = NextRecord(c, t)
    OBVIOUS
  <2>2. UnchangedIn(c, s)
    BY <1>1, <1>4, <1>6, <2>1 DEF SelectActive
  <2>3. s.at \in {"lock", "commit"} /\ s.writes = t.writes
    BY <1>3, <2>1, NextRecordIs
  <2>4. /\ Place(s, call)
        /\ TableAgrees(View(c), After(Start, call)[t.rec].mem) => Stage(View(c), s, call, Start)
    BY <1>1, <1>3, <2>1, NextPlace
  <2>5. Seen(vrows, s) = View(c)
    BY <1>3, <2>3 DEF Seen
  <2>6. Comparable(c) /\ FitsTable(call) => Stage(Seen(vrows, s), s, call, Start)
    BY <1>5, <1>6, <2>4, <2>5
  <2> QED BY <1>1, <1>2, <2>2, <2>3, <2>4, <2>6, StatementSolo
<1>7. CASE ~\E a \in active : a.hash = r.hash
  <2>1. PICK s : /\ UnchangedIn(c, s) /\ s.at \in {"insert", "update"} /\ s.rec = t.rec /\ s.writes = t.writes
    <3>1. CASE active = {}
      <4>1. UnchangedIn(c, [t EXCEPT !.at = "insert"])
        BY <1>1, <1>4, <1>7, <3>1 DEF SelectActive
      <4>2. PICK s : s = [t EXCEPT !.at = "insert"]
        OBVIOUS
      <4>3. s.at = "insert" /\ s.rec = t.rec /\ s.writes = t.writes
        BY <1>3, <4>2 DEF IsTx
      <4> QED BY <4>1, <4>2, <4>3
    <3>2. CASE active # {}
      <4>1. PICK todo : todo = {a.id : a \in active}
        OBVIOUS
      <4>2. PICK s : s = [t EXCEPT !.at = "update", !.todo = todo]
        OBVIOUS
      <4>3. UnchangedIn(c, s)
        BY <1>1, <1>4, <1>7, <3>2, <4>1, <4>2 DEF SelectActive
      <4>4. s.at = "update" /\ s.rec = t.rec /\ s.writes = t.writes
        BY <1>3, <4>2 DEF IsTx
      <4> QED BY <4>3, <4>4
    <3> QED BY <3>1, <3>2
  <2>2. Place(s, call)
    BY <1>1, <1>3, <2>1 DEF Place
  <2>3. Seen(vrows, s) = View(c)
    BY <1>3, <2>1 DEF Seen
  <2>4. Comparable(c) /\ FitsTable(call) => Stage(Seen(vrows, s), s, call, Start)
    BY <1>1, <1>3, <1>4, <1>5, <1>7, <2>1, <2>3 DEF Stage
  <2> QED BY <1>1, <1>2, <2>1, <2>2, <2>4, StatementSolo
<1> QED BY <1>6, <1>7

(* What a client sees once its statement changed a row.                    *)
LEMMA RowChangeSeen ==
  ASSUME NEW rs, NEW t, IsTx(t), NEW i, NEW still, NEW changed, NEW s, s = WithRow(t, i, still, changed)
  PROVE  /\ s.at = t.at /\ s.rec = t.rec /\ s.todo = t.todo \ {i}
         /\ still = {} /\ changed = {} => Seen(rs, s) = Seen(rs, t)
         /\ \A a, x : /\ still = {a} /\ changed = {x} /\ a \in Seen(rs, t) /\ a.id = i /\ x.id = i
                      /\ \A q \in Seen(rs, t) : q.id = i => q = a
                      => /\ x.gone => Seen(rs, s) = Seen(rs, t) \ {a}
                         /\ ~x.gone => Seen(rs, s) = (Seen(rs, t) \ {a}) \cup {x}
<1>1. PICK w : w = {v \in t.writes : still = {} \/ v.id # i} \cup changed
  OBVIOUS
<1>2. s = [t EXCEPT !.todo = t.todo \ {i}, !.writes = w]
  BY <1>1 DEF WithRow
<1>3. s.at = t.at /\ s.rec = t.rec /\ s.todo = t.todo \ {i} /\ s.writes = w
  BY ONLY <1>2, IsTx(t) DEF IsTx
<1>4. still = {} /\ changed = {} => Seen(rs, s) = Seen(rs, t)
  BY <1>1, <1>3 DEF Seen
<1>5. ASSUME NEW a, NEW x, still = {a}, changed = {x}, a \in Seen(rs, t), a.id = i, x.id = i,
             \A q \in Seen(rs, t) : q.id = i => q = a
      PROVE  /\ x.gone => Seen(rs, s) = Seen(rs, t) \ {a}
             /\ ~x.gone => Seen(rs, s) = (Seen(rs, t) \ {a}) \cup {x}
  <2>1. \A v : v \in s.writes <=> (v \in t.writes /\ v.id # i) \/ v = x
    BY <1>1, <1>3, <1>5
  <2>2. \A q : q \in Seen(rs, s) <=> \/ q \in Seen(rs, t) /\ q.id # i
                                     \/ q = x /\ ~x.gone
    BY <1>5, <2>1 DEF Seen
  <2>3. \A q : q \in Seen(rs, t) /\ q.id # i <=> q \in Seen(rs, t) \ {a}
    BY <1>5
  <2> QED BY <2>2, <2>3
<1> QED BY <1>3, <1>4, <1>5

LEMMA SupersedeSolo ==
  ASSUME VectorInv, NEW c \in Clients, Solo(c), SupersedeActive(c)
  PROVE  Solo(c)'
<1>1. PICK call, t, r, i, still, hash, changed :
        /\ call = CallOf(c) /\ t = tx[c] /\ r = call.records[t.rec] /\ r = RecordOf(c) /\ i = NextRow(c)
        /\ still = {q \in View(c) : q.id = i /\ q.key = KeyOf(r) /\ ~q.superseded}
        /\ hash = r.hash /\ changed = {Supersede(q, hash) : q \in still}
  BY DEF RecordOf
<1>2. t.at = "update" /\ ChangeRow(c, still, changed)
  BY <1>1 DEF SupersedeActive
<1>3. /\ call.op = "upsert" /\ t.rec \in 1..Len(call.records) /\ Owned(call, t.rec)
      /\ IsTx(t) /\ View(c) = Seen(vrows, t) /\ RowsOK(View(c), next_id) /\ next_id \in Nat
      /\ Comparable(c) /\ FitsTable(call) => Stage(View(c), t, call, Start)
  BY <1>1, <1>2, UpsertFacts
<1>4. PICK s : s = WithRow(t, i, still, changed)
  OBVIOUS
<1>5. UnchangedIn(c, s) /\ UNCHANGED program
  BY <1>1, <1>2, <1>4 DEF ChangeRow
<1>6. s.at = t.at /\ s.rec = t.rec /\ (still = {} /\ changed = {} => Seen(vrows, s) = View(c))
  BY <1>3, <1>4, RowChangeSeen
<1>7. Place(s, call)
  BY <1>2, <1>3, <1>6 DEF Place
<1>8. PICK m : m = After(Start, call)[t.rec - 1].mem
  OBVIOUS
<1>9. ASSUME Comparable(c), FitsTable(call) PROVE Stage(Seen(vrows, s), s, call, Start)
  <2>1. HalfWay(View(c), m, r)
    BY <1>1, <1>2, <1>3, <1>8, <1>9 DEF Stage
  <2>2. HalfWay(Seen(vrows, s), m, r)
    <3>1. CASE still = {}
      <4>1. changed = {}
        BY <1>1, <3>1
      <4> QED BY <1>6, <2>1, <3>1, <4>1
    <3>2. CASE still # {}
      <4>1. PICK a \in still : TRUE
        BY <3>2
      <4>2. a \in View(c) /\ a.id = i /\ a.key = KeyOf(r) /\ ~a.superseded
        BY <1>1, <4>1
      <4>3. \A q \in View(c) : q.id = i => q = a
        BY <4>2, SeenOnce
      <4>4. still = {a}
        BY <1>1, <4>1, <4>3
      <4>5. PICK x : x = Supersede(a, hash)
        OBVIOUS
      <4>6. changed = {x}
        BY <1>1, <4>4, <4>5
      <4>7. IsRow(a, next_id) /\ ~a.gone
        BY <4>2, SeenOnce
      <4>8. x.id = a.id /\ x.key = a.key /\ x.hash = a.hash /\ x.superseded = TRUE /\ x.by = hash /\ x.gone = a.gone
        BY <4>5, <4>7 DEF IsRow, Supersede
      <4>9. Seen(vrows, s) = (View(c) \ {a}) \cup {x}
        <5>1. ~x.gone /\ a \in Seen(vrows, t) /\ x.id = i /\ \A q \in Seen(vrows, t) : q.id = i => q = a
          BY <1>3, <4>2, <4>3, <4>7, <4>8
        <5> QED BY <1>3, <1>4, <4>2, <4>4, <4>6, <5>1, RowChangeSeen
      <4>10. x.by = r.hash
        BY <1>1, <4>8
      <4>11. HalfWay((View(c) \ {a}) \cup {x}, m, r)
        BY <1>3, <2>1, <4>2, <4>8, <4>10, SupersedeHalfWay
      <4> QED BY <4>9, <4>11
    <3> QED BY <3>1, <3>2
  <2> QED BY <1>1, <1>2, <1>3, <1>6, <1>8, <2>2 DEF Stage
<1> QED BY <1>1, <1>2, <1>5, <1>6, <1>7, <1>9, StatementSolo

LEMMA ScanSolo ==
  ASSUME VectorInv, NEW c \in Clients, Solo(c), ScanRow(c)
  PROVE  Solo(c)'
<1>1. PICK call, t, i, still, changed, n :
        /\ call = CallOf(c) /\ t = tx[c] /\ i = NextRow(c) /\ n = next_id
        /\ still = {q \in View(c) : q.id = i /\ Matches(call, q)}
        /\ changed = {Changed(call, q) : q \in still}
  OBVIOUS
<1>2. t.at = "scan" /\ ChangeRow(c, still, changed)
  BY <1>1 DEF ScanRow
<1>3. Place(t, call) /\ (Comparable(c) /\ FitsTable(call) => Stage(View(c), t, call, Start))
  BY <1>1, <1>2 DEF Solo
<1>4. /\ IsTx(t) /\ Len(ended[c]) < Len(program[c]) /\ n \in Nat /\ View(c) = Seen(vrows, t)
      /\ RowsOK(View(c), n)
  <2>1. IsTx(t) /\ Len(ended[c]) < Len(program[c]) /\ n \in Nat \ {0} /\ RowsOK(vrows, n) /\ TxOK(vrows, t, call, n)
    BY <1>1, <1>2, TxFacts
  <2> QED BY <1>1, <2>1, ViewIsSeen, CommitKeepsRows
<1>5. call.op \in {"delete", "invalidate"}
  <2>1. call.op # "upsert"
    BY <1>2, <1>3 DEF Place
  <2> QED BY <1>1, <1>4, <2>1, CallFacts
<1>6. PICK s : s = WithRow(t, i, still, changed)
  OBVIOUS
<1>7. UnchangedIn(c, s) /\ UNCHANGED program
  BY <1>1, <1>2, <1>6 DEF ChangeRow
<1>8. s.at = t.at /\ s.todo = t.todo \ {i} /\ (still = {} /\ changed = {} => Seen(vrows, s) = View(c))
  BY <1>4, <1>6, RowChangeSeen
<1>9. Place(s, call)
  BY <1>2, <1>5, <1>8 DEF Place
<1>10. PICK m : m = Start.mem
  OBVIOUS
<1>11. ASSUME still = {}, Comparable(c), FitsTable(call) PROVE Stage(Seen(vrows, s), s, call, Start)
  <2>1. changed = {} /\ Seen(vrows, s) = View(c)
    BY <1>1, <1>8, <1>11
  <2>2. \A q \in View(c) : Matches(call, q) => q.id # i
    BY <1>1, <1>11
  <2>3. CASE call.op = "delete"
    <3>1. Deleting(View(c), m, call, t.todo)
      BY <1>3, <1>10, <1>11, <2>3 DEF Stage
    <3>2. Deleting(View(c), m, call, t.todo \ {i})
      BY <2>2, <2>3, <3>1 DEF Deleting, Matches
    <3> QED BY <1>8, <1>10, <2>1, <2>3, <3>2 DEF Stage
  <2>4. CASE call.op = "invalidate"
    <3>1. Invalidating(View(c), m, call, t.todo)
      BY <1>3, <1>10, <1>11, <2>4 DEF Stage
    <3>2. Invalidating(View(c), m, call, t.todo \ {i})
      BY <2>2, <2>4, <3>1 DEF Invalidating, Matches
    <3> QED BY <1>8, <1>10, <2>1, <2>4, <3>2 DEF Stage
  <2> QED BY <1>5, <2>3, <2>4
<1>12. ASSUME still # {}, Comparable(c), FitsTable(call) PROVE Stage(Seen(vrows, s), s, call, Start)
  <2>1. PICK a \in still : TRUE
    BY <1>12
  <2>2. a \in View(c) /\ a.id = i /\ Matches(call, a)
    BY <1>1, <2>1
  <2>3. \A q \in View(c) : q.id = i => q = a
    BY <2>2, SeenOnce
  <2>4. still = {a}
    BY <1>1, <2>1, <2>3
  <2>5. PICK x : x = Changed(call, a)
    OBVIOUS
  <2>6. changed = {x}
    BY <1>1, <2>4, <2>5
  <2>7. IsRow(a, n) /\ ~a.gone
    BY <1>1, <2>2, SeenOnce
  <2>8. ASSUME x.id = i
        PROVE  /\ x.gone => Seen(vrows, s) = View(c) \ {a}
               /\ ~x.gone => Seen(vrows, s) = (View(c) \ {a}) \cup {x}
    <3>1. a \in Seen(vrows, t) /\ \A q \in Seen(vrows, t) : q.id = i => q = a
      BY <1>4, <2>2, <2>3
    <3>2. /\ x.gone => Seen(vrows, s) = Seen(vrows, t) \ {a}
          /\ ~x.gone => Seen(vrows, s) = (Seen(vrows, t) \ {a}) \cup {x}
      BY <1>4, <1>6, <2>2, <2>4, <2>6, <2>8, <3>1, RowChangeSeen
    <3> QED BY <1>4, <3>2
  <2>9. CASE call.op = "delete"
    <3>1. x = [a EXCEPT !.gone = TRUE] /\ DeleteMatches(call, a)
      BY <2>2, <2>5, <2>9 DEF Changed, Matches
    <3>2. x.id = i /\ x.gone = TRUE
      BY <2>2, <2>7, <3>1 DEF IsRow
    <3>3. Seen(vrows, s) = View(c) \ {a}
      BY <2>8, <3>2
    <3>4. Deleting(View(c), m, call, t.todo)
      BY <1>3, <1>10, <1>12, <2>9 DEF Stage
    <3>5. Deleting(View(c) \ {a}, m, call, t.todo \ {a.id})
      BY <1>4, <2>2, <3>1, <3>4, DeleteRow
    <3> QED BY <1>8, <1>10, <2>2, <2>9, <3>3, <3>5 DEF Stage
  <2>10. CASE call.op = "invalidate"
    <3>1. PICK hash : hash = call.by
      OBVIOUS
    <3>2. x = Supersede(a, hash) /\ InvalidateMatches(call, a)
      BY <2>2, <2>5, <2>10, <3>1 DEF Changed, Matches
    <3>3. x.id = a.id /\ x.key = a.key /\ x.hash = a.hash /\ x.superseded = TRUE /\ x.by = hash /\ x.gone = a.gone
      BY <2>7, <3>2 DEF IsRow, Supersede
    <3>4. Seen(vrows, s) = (View(c) \ {a}) \cup {x}
      BY <2>2, <2>7, <2>8, <3>3
    <3>5. Invalidating(View(c), m, call, t.todo)
      BY <1>3, <1>10, <1>12, <2>10 DEF Stage
    <3>6. x.by = call.by
      BY <3>1, <3>3
    <3>7. Invalidating((View(c) \ {a}) \cup {x}, m, call, t.todo \ {a.id})
      BY <1>4, <2>2, <3>2, <3>3, <3>5, <3>6, InvalidateRow
    <3> QED BY <1>8, <1>10, <2>2, <2>10, <3>4, <3>7 DEF Stage
  <2> QED BY <1>5, <2>9, <2>10
<1> QED BY <1>1, <1>2, <1>7, <1>8, <1>9, <1>11, <1>12, StatementSolo

LEMMA RowsDoneSolo ==
  ASSUME VectorInv, NEW c \in Clients, Solo(c), RowsDone(c)
  PROVE  Solo(c)'
<1>1. PICK call, t : call = CallOf(c) /\ t = tx[c]
  OBVIOUS
<1>2. t.at \in {"update", "scan"} /\ t.todo = {} /\ UNCHANGED program /\ IsTx(t)
  BY <1>1, TxFacts DEF RowsDone
<1>3. Place(t, call) /\ (Comparable(c) /\ FitsTable(call) => Stage(View(c), t, call, Start))
  BY <1>1, <1>2 DEF Solo
<1>4. PICK s, at : at = (IF t.at = "update" THEN "insert" ELSE "commit") /\ s = [t EXCEPT !.at = at]
  OBVIOUS
<1>5. UnchangedIn(c, s)
  BY <1>1, <1>4 DEF RowsDone
<1>6. s.at = at /\ s.rec = t.rec /\ s.todo = t.todo /\ s.writes = t.writes
  BY <1>2, <1>4 DEF IsTx
<1>7. Seen(vrows, s) = View(c)
  BY <1>1, <1>6, ViewIsSeen DEF Seen
<1>8. CASE t.at = "update"
  <2>1. call.op = "upsert" /\ s.at = "insert"
    BY <1>3, <1>4, <1>6, <1>8 DEF Place
  <2>2. Place(s, call)
    BY <1>3, <1>6, <1>8, <2>1 DEF Place
  <2>3. Comparable(c) /\ FitsTable(call) => Stage(Seen(vrows, s), s, call, Start)
    BY <1>3, <1>6, <1>7, <1>8, <2>1 DEF Stage
  <2> QED BY <1>1, <1>2, <1>5, <2>1, <2>2, <2>3, StatementSolo
<1>9. CASE t.at = "scan"
  <2>1. call.op # "upsert" /\ s.at = "commit"
    BY <1>3, <1>4, <1>6, <1>9 DEF Place
  <2>2. Place(s, call)
    BY <1>2, <1>6, <2>1 DEF Place
  <2>3. Comparable(c) /\ FitsTable(call) => Stage(Seen(vrows, s), s, call, Start)
    BY <1>3, <1>6, <1>7, <2>1 DEF Stage
  <2> QED BY <1>1, <1>2, <1>5, <2>1, <2>2, <2>3, StatementSolo
<1> QED BY <1>2, <1>8, <1>9

LEMMA InsertSolo ==
  ASSUME VectorInv, NEW c \in Clients, Lone(c), Solo(c), InsertRow(c)
  PROVE  Solo(c)'
<1>1. PICK call, t, r, n : /\ call = CallOf(c) /\ t = tx[c] /\ r = call.records[t.rec] /\ r = RecordOf(c) /\ n = next_id
  BY DEF RecordOf
<1>2. t.at = "insert" /\ UNCHANGED program
  BY <1>1 DEF InsertRow
<1>3. /\ call.op = "upsert" /\ Len(call.records) \in Nat /\ DOMAIN call.records = 1..Len(call.records)
      /\ t.rec \in 1..Len(call.records) /\ Owned(call, t.rec) /\ DimsKnown(versions, dimensions)
      /\ IsTx(t) /\ View(c) = Seen(vrows, t) /\ RowsOK(View(c), n) /\ n \in Nat
      /\ Comparable(c) /\ FitsTable(call) => Stage(View(c), t, call, Start)
  BY <1>1, <1>2, UpsertFacts
<1>4. CASE r.dimension # TableDimension
  <2>1. EndCall(c, "refused")
    BY <1>1, <1>4 DEF InsertRow, Rollback
  <2>2. ~Bad(After(Start, call)[Len(call.records)].dims) => ~After(Start, call)[Len(call.records)].ok
    BY <1>1, <1>3, <1>4, StartIsOK, AfterRefused
  <2>3. ~Bad(MemApply(call).dims) => ~MemApply(call).ok
    BY <1>3, <2>2, MemApplyIs
  <2>4. tx[c].at # "idle"
    BY <1>1, <1>2
  <2> QED BY <1>1, <1>2, <2>1, <2>3, <2>4, EndSolo
<1>5. CASE r.dimension = TableDimension
  <2>1. PICK row, s0, s :
          /\ row = [id |-> n, key |-> KeyOf(r), hash |-> r.hash, superseded |-> FALSE, by |-> NoHash, gone |-> FALSE]
          /\ s0 = [t EXCEPT !.writes = t.writes \cup {row}, !.fresh = t.fresh \cup {n}]
          /\ s = NextRecord(c, s0)
    OBVIOUS
  <2>2. UnchangedIn(c, s)
    BY <1>1, <1>2, <1>5, <2>1, InsertFindsNoActive DEF InsertRow
  <2>3. IsTx(s0) /\ s0.rec = t.rec /\ s0.writes = t.writes \cup {row}
    BY <1>3, <2>1 DEF IsTx
  <2>4. s = NextRecord(c, s0) /\ s0.rec \in Nat /\ s0.rec \in 1..Len(call.records) /\ Owned(call, s0.rec)
    BY <1>3, <2>1, <2>3
  <2>5. s.at \in {"lock", "commit"} /\ s.writes = t.writes \cup {row}
    BY <2>3, <2>4, NextRecordIs
  <2>6. /\ row.id = n /\ row.key = KeyOf(r) /\ row.hash = r.hash /\ row.superseded = FALSE /\ row.by = NoHash
        /\ row.gone = FALSE
    BY <2>1
  <2>7. Seen(vrows, s) = View(c) \cup {row}
    <3>1. \A q \in vrows : q.id # n
      <4>1. \A q \in vrows : q.id \in 1..(n - 1)
        BY <1>1 DEF VectorInv, RowsOK, IsRow
      <4> QED BY <1>3, <4>1
    <3> QED BY <1>3, <2>5, <2>6, <3>1 DEF Seen
  <2>8. /\ Place(s, call)
        /\ TableAgrees(View(c) \cup {row}, After(Start, call)[t.rec].mem) => Stage(View(c) \cup {row}, s, call, Start)
    <3>1. PICK rs, start : rs = View(c) \cup {row} /\ start = Start
      OBVIOUS
    <3>2. Place(s, call) /\ (TableAgrees(rs, After(start, call)[s0.rec].mem) => Stage(rs, s, call, start))
      BY <1>1, <1>3, <2>3, <2>4, NextPlace
    <3> QED BY <2>3, <3>1, <3>2
  <2>9. ASSUME Comparable(c), FitsTable(call) PROVE TableAgrees(View(c) \cup {row}, After(Start, call)[t.rec].mem)
    <3>1. PICK m : m = After(Start, call)[t.rec - 1].mem
      OBVIOUS
    <3>2. HalfWay(View(c), m, r)
      BY <1>1, <1>2, <1>3, <2>9, <3>1 DEF Stage
    <3>3. ~Bad(dimensions) /\ ~Replayed(m, r)
      BY <2>9, <3>2 DEF Comparable, HalfWay
    <3>4. After(Start, call)[t.rec].mem = Upserted(m, r)
      BY <1>1, <1>3, <2>9, <3>1, <3>3, RecordTaken, ZenonT(60)
    <3>5. \A a \in View(c) : a.key = KeyOf(r) => a.superseded
      BY <1>1, <1>2, InsertFindsNoActive DEF Active, OfKey
    <3>6. TableAgrees(View(c) \cup {row}, Upserted(m, r))
      BY <1>3, <2>6, <3>2, <3>5, InsertAgrees
    <3> QED BY <3>4, <3>6
  <2>10. Comparable(c) /\ FitsTable(call) => Stage(Seen(vrows, s), s, call, Start)
    BY <2>7, <2>8, <2>9
  <2> QED BY <1>1, <1>2, <2>2, <2>5, <2>8, <2>10, StatementSolo
<1> QED BY <1>4, <1>5

LEMMA CommitSolo ==
  ASSUME VectorInv, NEW c \in Clients, Lone(c), Solo(c), Commit(c)
  PROVE  Solo(c)'
<1>1. PICK call, t : call = CallOf(c) /\ t = tx[c]
  OBVIOUS
<1>2. t.at = "commit" /\ tx[c].at # "idle" /\ EndCall(c, "committed") /\ UNCHANGED program
  BY <1>1 DEF Commit
<1>3. /\ Place(t, call) /\ DimsKnown(versions, dimensions)
      /\ Comparable(c) /\ FitsTable(call) => Stage(View(c), t, call, Start)
  BY <1>1, <1>2 DEF Solo
<1>4. Len(ended[c]) < Len(program[c]) /\ vrows' = View(c)
  BY <1>1, <1>2, TxFacts, CommitStep, ViewIsSeen
<1>5. /\ call.op \in {"upsert", "delete", "invalidate"}
      /\ call.op = "upsert" => Len(call.records) \in Nat /\ DOMAIN call.records = 1..Len(call.records)
  BY <1>1, <1>4, CallFacts
<1>6. Start.mem = versions /\ AccOK(Start) /\ Start.ok /\ Start.dims = dimensions
  BY <1>3, StartIsOK
<1>7. CASE call.op = "upsert"
  <2>1. PICK N : N = Len(call.records) /\ N \in Nat /\ N \in 0..N /\ DOMAIN call.records = 1..N
    BY <1>5, <1>7
  <2>2. Owned(call, N) /\ MemApply(call) = After(Start, call)[N]
    BY <1>2, <1>3, <1>5, <1>7, <2>1, MemApplyIs DEF Place
  <2>3. ASSUME ~Bad(dimensions), FitsTable(call) PROVE MemApply(call).ok
    <3>1. \A j \in 1..N : call.records[j].tenant = call.tenant /\ call.records[j].dimension = TableDimension
      BY <1>7, <2>1, <2>2, <2>3 DEF Owned, FitsTable
    <3>2. After(Start, call)[N].ok
      BY <1>6, <2>1, <2>3, <3>1, AfterTaken
    <3> QED BY <2>2, <3>2
  <2>4. Comparable(c) /\ FitsTable(call) => TableAgrees(vrows', MemApply(call).mem)
    BY <1>2, <1>3, <1>4, <1>7, <2>1, <2>2 DEF Stage
  <2> QED BY <1>1, <1>2, <2>3, <2>4, EndSolo
<1>8. CASE call.op # "upsert"
  <2>1. t.todo = {}
    BY <1>2, <1>3, <1>8 DEF Place
  <2>2. MemApply(call).ok
    BY <1>5, <1>8, MemApplyIs
  <2>3. ASSUME Comparable(c), FitsTable(call) PROVE TableAgrees(vrows', MemApply(call).mem)
    <3>1. CASE call.op = "delete"
      <4>1. MemApply(call).mem = MemDelete(versions, call)
        BY <1>5, <3>1, MemApplyIs
      <4>2. Deleting(View(c), versions, call, {})
        BY <1>3, <1>6, <2>1, <2>3, <3>1 DEF Stage
      <4> QED BY <1>4, <4>1, <4>2, DeleteDone
    <3>2. CASE call.op = "invalidate"
      <4>1. MemApply(call).mem = MemInvalidate(versions, call)
        BY <1>5, <3>2, MemApplyIs
      <4>2. Invalidating(View(c), versions, call, {})
        BY <1>3, <1>6, <2>1, <2>3, <3>2 DEF Stage
      <4> QED BY <1>4, <4>1, <4>2, InvalidateDone
    <3> QED BY <1>5, <1>8, <3>1, <3>2
  <2> QED BY <1>1, <1>2, <2>2, <2>3, EndSolo
<1> QED BY <1>7, <1>8

LEMMA SoloInit == VectorInit => SoloInv
<1> SUFFICES ASSUME VectorInit, NEW c \in Clients PROVE Solo(c)
  BY DEF SoloInv
<1>1. tx[c] = Rest /\ ended[c] = <<>> /\ versions = <<>> /\ dimensions = {} /\ vrows = {}
  BY DEF VectorInit
<1>2. Rest.at = "idle"
  BY DEF Rest
<1>3. DimsKnown(versions, dimensions)
  BY <1>1 DEF DimsKnown
<1>4. AnsweredAlike(c)
  BY <1>1 DEF AnsweredAlike
<1>5. TableAgrees(vrows, versions)
  BY <1>1, NothingAgrees
<1> QED BY <1>1, <1>2, <1>3, <1>4, <1>5 DEF Solo

LEMMA SoloStep == VectorInv /\ SoloInv /\ [VectorNext]_vectorVars => SoloInv'
<1> SUFFICES ASSUME VectorInv, SoloInv, [VectorNext]_vectorVars, NEW c \in Clients, Lone(c)'
             PROVE  Solo(c)'
  BY DEF SoloInv
<1>1. CASE UNCHANGED vectorVars
  <2>1. Lone(c) /\ Solo(c)
    BY <1>1 DEF vectorVars, Lone, SoloInv
  <2>2. /\ tx' = tx /\ vrows' = vrows /\ ended' = ended /\ program' = program
        /\ versions' = versions /\ dimensions' = dimensions
    BY <1>1 DEF vectorVars
  <2>3. CallOf(c)' = CallOf(c) /\ Start' = Start /\ View(c)' = View(c)
    BY <2>2 DEF CallOf, Start, View
  <2>4. (Comparable(c)' <=> Comparable(c)) /\ (AnsweredAlike(c)' <=> AnsweredAlike(c))
    BY <2>2 DEF Comparable, AllTaken, AnsweredAlike
  <2> QED BY <2>1, <2>2, <2>3, <2>4 DEF Solo
<1>2. CASE VectorNext
  <2>1. PICK d \in Clients :
          \/ BeginCall(d) \/ AcquireUpsertLock(d) \/ SelectActive(d) \/ SupersedeActive(d) \/ ScanRow(d)
          \/ RowsDone(d) \/ InsertRow(d) \/ Commit(d) \/ BreakDeadlock(d) \/ LoseConnection(d)
    BY <1>2 DEF VectorNext
  <2>2. UNCHANGED program
    BY <2>1 DEF BeginCall, AcquireUpsertLock, SelectActive, SupersedeActive, ScanRow, ChangeRow, RowsDone, InsertRow,
                Commit, BreakDeadlock, LoseConnection
  <2>3. Lone(c) /\ Solo(c)
    BY <2>2 DEF Lone, SoloInv
  <2>4. BeginCall(d) \/ tx[d].at # "idle"
    BY <2>1 DEF AcquireUpsertLock, SelectActive, SupersedeActive, ScanRow, RowsDone, InsertRow, Commit, BreakDeadlock,
                InCycle, WaitsFor, LoseConnection
  <2>5. Len(ended[d]) < Len(program[d])
    BY <2>4, TxFacts DEF BeginCall
  <2>6. d = c
    <3>1. ASSUME d # c PROVE FALSE
      <4>1. program[d] = <<>>
        BY <2>3, <3>1 DEF Lone
      <4>2. Len(program[d]) = 0 /\ Len(ended[d]) \in Nat
        BY <4>1, EmptyTuple DEF VectorInv, CallsOK
      <4> QED BY <2>5, <4>2
    <3> QED BY <3>1
  <2>7. CASE BreakDeadlock(c) \/ LoseConnection(c)
    <3>1. PICK how \in {"deadlock", "lost"} : EndCall(c, how)
      BY <2>7 DEF BreakDeadlock, LoseConnection, Rollback
    <3>2. tx[c].at # "idle"
      BY <2>7 DEF BreakDeadlock, InCycle, WaitsFor, LoseConnection
    <3> QED BY <2>2, <2>3, <3>1, <3>2, EndSolo
  <2> QED BY <2>1, <2>3, <2>6, <2>7, BeginSolo, AcquireSolo, SelectSolo, SupersedeSolo, ScanSolo, RowsDoneSolo,
             InsertSolo, CommitSolo
<1> QED BY <1>1, <1>2

LEMMA SoloAgrees == VectorInv /\ SoloInv => MemoryAgrees
<1> SUFFICES ASSUME VectorInv, SoloInv, NEW c \in Clients, Alone, program[c] # <<>>, SameDimension
             PROVE  /\ \A i \in DOMAIN ended[c] :
                         /\ ended[c][i].how = "refused" => ~ended[c][i].mem_ok
                         /\ ended[c][i].how = "committed" /\ FitsTable(program[c][i]) => ended[c][i].mem_ok
                    /\ (\A i \in DOMAIN ended[c] : ended[c][i].how = "committed" /\ FitsTable(program[c][i])) =>
                         \A key \in DOMAIN versions \cup {r.key : r \in vrows} :
                           LET stored == ListVersions(vrows, key) IN
                           /\ Len(stored) = Len(MemHistory(versions, key))
                           /\ \A i \in DOMAIN stored : \A f \in {"hash", "superseded", "by"} :
                                stored[i][f] = MemHistory(versions, key)[i][f]
  BY Zenon DEF MemoryAgrees
<1>1. Lone(c)
  BY DEF Alone, Lone
<1>2. Solo(c) /\ ~Bad(dimensions)
  BY <1>1 DEF SoloInv, SameDimension, Bad
<1>3. AnsweredAlike(c)
  BY <1>2 DEF Solo
<1>4. ASSUME AllTaken(c), NEW key
      PROVE  LET stored == ListVersions(vrows, key) IN
             /\ Len(stored) = Len(MemHistory(versions, key))
             /\ \A i \in DOMAIN stored : \A f \in {"hash", "superseded", "by"} :
                  stored[i][f] = MemHistory(versions, key)[i][f]
  <2>1. PICK h, stored : h = MemHistory(versions, key) /\ stored = ListVersions(vrows, key)
    OBVIOUS
  <2>2. Tells(OfKey(vrows, key), h)
    BY <1>2, <1>4, <2>1 DEF Solo, Comparable, TableAgrees
  <2>3. PICK s : Lists(s, OfKey(vrows, key), h)
    BY <2>2 DEF Tells
  <2>4. OwnRows(OfKey(vrows, key)) /\ IsHistory(h)
    BY <2>2, RecordRows DEF VectorInv, Tells
  <2>5. DOMAIN stored = 1..Len(h) /\ Len(stored) = Len(h) /\ \A n \in 1..Len(h) : stored[n] = s[n]
    BY <2>1, <2>3, <2>4, ListVersionsTell
  <2>6. \A n \in 1..Len(h) : stored[n].hash = h[n].hash /\ stored[n].superseded = h[n].superseded /\ stored[n].by = h[n].by
    BY <2>3, <2>5 DEF Lists
  <2>7. \A n \in 1..Len(h) : \A f \in {"hash", "superseded", "by"} : stored[n][f] = h[n][f]
    BY <2>6
  <2> QED BY <2>1, <2>5, <2>7
<1> QED BY <1>3, <1>4 DEF AnsweredAlike, AllTaken

(* For any number of clients, any programs and any interleaving, the       *)
(* versions of a record hold as above, and a client that is alone gets     *)
(* from PgVectorStore the answers and the histories of the in-memory store *)
(* (PgVectorStore and InMemoryVectorStore: upsert, delete,                 *)
(* invalidate_snapshot, list_versions).                                    *)
THEOREM VectorsAreAlwaysVersioned == VectorSpec => VectorsAreVersioned
<1>1. VectorSpec => []MemoryAgrees
  BY VectorInitOK, VectorStep, SoloInit, SoloStep, SoloAgrees, PTL DEF VectorSpec
<1> QED BY <1>1, VersionsAlwaysHold, PTL DEF VectorsAreVersioned

(***************************************************************************)
(* The claim ledger: what is on record of a claim, after any calls.        *)
(***************************************************************************)
(* An entry, by value, and the entries of one tenant's ledger: chained,    *)
(* each under its tenant and its own hash, one per evidence id, and        *)
(* evidence only of claims that have an entry.                             *)
LedgerEntryOK(t, e) ==
  /\ e.kind \in {"claim", "evidence"} /\ e.tenant = t
  /\ e.canonical_hash = MaterialOf(e)
  /\ e.kind = "claim" => e.claim.tenant = t
  /\ e.kind = "evidence" => e.evidence \in EvidenceRecords
PreviousOf(l, i) == IF i = 1 THEN GENESIS ELSE l[i - 1].canonical_hash
OneEntryPerEvidence(l) ==
  \A i, k \in DOMAIN l :
    l[i].kind = "evidence" /\ l[k].kind = "evidence" /\ l[i].evidence.id = l[k].evidence.id => i = k
EvidenceHasClaim(l) ==
  \A i \in DOMAIN l : l[i].kind = "evidence" => EntriesOfClaim(l, l[i].evidence.claim) # {}
EntriesOK(t, l) ==
  /\ IsTuple(l)
  /\ \A i \in DOMAIN l : LedgerEntryOK(t, l[i]) /\ l[i].previous_hash = PreviousOf(l, i)
  /\ OneEntryPerEvidence(l) /\ EvidenceHasClaim(l)

(* What is kept beside the entries covers them: a link status for each     *)
(* evidence, a time for each claim.                                        *)
LinksOK(l, links) ==
  /\ DOMAIN links = {l[i].evidence.id : i \in {k \in DOMAIN l : l[k].kind = "evidence"}}
  /\ \A id \in DOMAIN links : links[id] \in {"linked", "blocked"}
TimesOK(l, times) ==
  /\ DOMAIN times = {l[i].claim.id : i \in {k \in DOMAIN l : l[k].kind = "claim"}}
  /\ \A id \in DOMAIN times : times[id] \in Nat

(* The evidence that supports a claim at a time, and what is recorded of   *)
(* it.                                                                     *)
GoodAt(l, links, now, id) ==
  {k \in DOMAIN l : /\ l[k].kind = "evidence" /\ l[k].evidence.claim = id
                    /\ links[l[k].evidence.id] = "linked"
                    /\ now - MaxAgeSeconds <= l[k].evidence.checked_at
                    /\ l[k].evidence.checked_at <= now}
Good(l, links, now, id) == {l[i].evidence.id : i \in GoodAt(l, links, now, id)}
Says(p, good) ==
  /\ p.publishable = (good # {}) /\ p.supporting = good /\ p.publishable = (p.reasons = {})
RecordsOK(l, links, times) ==
  \A id \in DOMAIN times : Says(LatestClaim(l, id).publishability, Good(l, links, times[id], id))

TenantOK(t, l, links, times) ==
  EntriesOK(t, l) /\ LinksOK(l, links) /\ TimesOK(l, times) /\ RecordsOK(l, links, times)
LedgerInv ==
  /\ DOMAIN ledger = LedgerTenants /\ DOMAIN evaluated_at = LedgerTenants
  /\ link_statuses = [t \in LedgerTenants |-> link_statuses[t]]
  /\ ledger_clock \in Nat
  /\ answered \in {"none", "entry", "cross_tenant", "duplicate_claim", "claim_mismatch",
                   "duplicate_evidence", "unknown_evidence"}
  /\ \A t \in LedgerTenants : TenantOK(t, ledger[t], link_statuses[t], evaluated_at[t])

LEMMA LastOfPrefix ==
  ASSUME NEW l, IsTuple(l), NEW i \in 1..Len(l)
  PROVE  LastHash(SubSeq(l, 1, i - 1)) = PreviousOf(l, i)
<1> DEFINE T == {l[k] : k \in DOMAIN l}
           p == SubSeq(l, 1, i - 1)
<1>1. l \in Seq(T) /\ Len(l) \in Nat
  BY DEF IsTuple
<1>2. p \in Seq(T) /\ Len(p) = i - 1 /\ \A k \in 1..(i - 1) : p[k] = l[k]
  BY <1>1
<1>3. CASE i = 1
  <2>1. p = <<>>
    BY <1>2, <1>3
  <2> QED BY <2>1, <1>3 DEF LastHash, PreviousOf
<1>4. CASE i # 1
  <2>1. p # <<>> /\ p[Len(p)] = l[i - 1]
    BY <1>1, <1>2, <1>4, SMTT(60)
  <2> QED BY <2>1, <1>4 DEF LastHash, PreviousOf
<1> QED BY <1>3, <1>4

LEMMA LastIsPrevious ==
  ASSUME NEW l, IsTuple(l), NEW x, NEW m, m = Append(l, x)
  PROVE  LastHash(l) = PreviousOf(m, Len(l) + 1)
<1>1. /\ IsTuple(m) /\ Len(m) = Len(l) + 1 /\ Len(l) \in Nat
      /\ \A i \in 1..Len(l) : m[i] = l[i]
  BY TupleAppend, TupleType
<1>2. CASE l = <<>>
  BY <1>2, EmptyTuple DEF LastHash, PreviousOf
<1>3. CASE l # <<>>
  <2>1. Len(l) # 0
    BY <1>3, EmptyTuple, TupleEqual, <1>1
  <2>2. Len(l) \in 1..Len(l) /\ Len(l) + 1 # 1 /\ (Len(l) + 1) - 1 = Len(l)
    BY <2>1, <1>1
  <2> QED BY <2>2, <1>1, <1>3 DEF LastHash, PreviousOf
<1> QED BY <1>2, <1>3

(* A claim that has entries has a last one.                                *)
LEMMA LatestIsLast ==
  ASSUME NEW l, IsTuple(l), NEW id, EntriesOfClaim(l, id) # {}
  PROVE  \E i \in EntriesOfClaim(l, id) :
           (\A k \in EntriesOfClaim(l, id) : k <= i) /\ LatestClaim(l, id) = l[i]
<1> DEFINE E == EntriesOfClaim(l, id)
           T == {Len(l) - i : i \in E}
<1>1. Len(l) \in Nat /\ E \subseteq 1..Len(l)
  BY TupleType DEF EntriesOfClaim
<1>2. T \subseteq Nat /\ T # {}
  BY <1>1
<1>3. PICK d \in T : \A y \in T : d <= y
  BY <1>2, LeastNumber
<1>4. PICK i \in E : d = Len(l) - i
  BY <1>3
<1>5. ASSUME NEW k \in E PROVE k <= i
  <2>1. d <= Len(l) - k
    BY <1>3
  <2>2. k \in Int /\ i \in Int
    BY <1>1
  <2> HIDE DEF E, T
  <2> QED BY <2>1, <2>2, <1>1, <1>4
<1> DEFINE c == CHOOSE j \in E : \A k \in E : k <= j
<1>6. c \in E /\ \A k \in E : k <= c
  BY <1>5
<1>7. LatestClaim(l, id) = l[c]
  BY DEF LatestClaim
<1> HIDE DEF c
<1> QED BY <1>6, <1>7

(* What an entry added at the end changes.                                 *)
EndedBy(l, x, m) ==
  /\ IsTuple(m) /\ Len(m) = Len(l) + 1 /\ DOMAIN m = DOMAIN l \cup {Len(l) + 1}
  /\ Len(l) + 1 \notin DOMAIN l /\ m[Len(l) + 1] = x /\ \A i \in DOMAIN l : m[i] = l[i]
ClaimsGrow(l, x, m, id) ==
  /\ EntriesOfClaim(l, id) \subseteq EntriesOfClaim(m, id)
  /\ x.kind = "claim" /\ x.claim.id = id => LatestClaim(m, id) = x
  /\ ~(x.kind = "claim" /\ x.claim.id = id) =>
       /\ EntriesOfClaim(m, id) = EntriesOfClaim(l, id)
       /\ EntriesOfClaim(l, id) # {} => LatestClaim(m, id) = LatestClaim(l, id)
LEMMA Grown ==
  ASSUME NEW l, IsTuple(l), NEW x
  PROVE  \A m : m = Append(l, x) => EndedBy(l, x, m) /\ \A id : ClaimsGrow(l, x, m, id)
<1> SUFFICES ASSUME NEW m, m = Append(l, x), NEW id PROVE EndedBy(l, x, m) /\ ClaimsGrow(l, x, m, id)
  OBVIOUS
<1>1. /\ IsTuple(m) /\ Len(m) = Len(l) + 1 /\ DOMAIN m = 1..(Len(l) + 1)
      /\ m[Len(l) + 1] = x /\ Len(l) \in Nat /\ DOMAIN l = 1..Len(l)
      /\ \A i \in 1..Len(l) : m[i] = l[i]
  BY TupleAppend, TupleType
<1>2. DOMAIN m = DOMAIN l \cup {Len(l) + 1} /\ Len(l) + 1 \notin DOMAIN l
  BY <1>1
<1>3. \A i \in DOMAIN l : m[i] = l[i]
  BY <1>1
<1>4. EntriesOfClaim(l, id) \subseteq EntriesOfClaim(m, id)
  BY <1>2, <1>3 DEF EntriesOfClaim
<1>5. ASSUME x.kind = "claim" /\ x.claim.id = id PROVE LatestClaim(m, id) = x
  <2>1. Len(l) + 1 \in EntriesOfClaim(m, id)
    BY <1>1, <1>2, <1>5 DEF EntriesOfClaim
  <2>2. PICK i \in EntriesOfClaim(m, id) :
          (\A k \in EntriesOfClaim(m, id) : k <= i) /\ LatestClaim(m, id) = m[i]
    BY <1>1, <2>1, LatestIsLast
  <2>3. i \in 1..(Len(l) + 1) /\ Len(l) + 1 <= i
    BY <2>1, <2>2, <1>1 DEF EntriesOfClaim
  <2>4. i = Len(l) + 1
    BY <2>3, <1>1
  <2> QED BY <2>2, <2>4, <1>1
<1>6. ASSUME ~(x.kind = "claim" /\ x.claim.id = id)
      PROVE  /\ EntriesOfClaim(m, id) = EntriesOfClaim(l, id)
             /\ EntriesOfClaim(l, id) # {} => LatestClaim(m, id) = LatestClaim(l, id)
  <2>1. EntriesOfClaim(m, id) = EntriesOfClaim(l, id)
    BY <1>1, <1>2, <1>3, <1>6 DEF EntriesOfClaim
  <2>2. ASSUME EntriesOfClaim(l, id) # {} PROVE LatestClaim(m, id) = LatestClaim(l, id)
    <3> DEFINE E == EntriesOfClaim(l, id)
               c == CHOOSE i \in E : \A k \in E : k <= i
    <3>1. PICK i \in E : \A k \in E : k <= i
      BY <2>2, LatestIsLast
    <3>2. c \in E
      BY <3>1
    <3>3. c \in DOMAIN l
      BY <3>2 DEF EntriesOfClaim
    <3> QED BY <2>1, <3>3, <1>3 DEF LatestClaim
  <2> QED BY <2>1, <2>2
<1> QED BY <1>1, <1>2, <1>3, <1>4, <1>5, <1>6 DEF EndedBy, ClaimsGrow

(* evaluate_claim_publishability says of a claim what its evidence is.     *)
LEMMA EvaluationSays ==
  ASSUME NEW t, NEW l, EntriesOK(t, l), NEW links, LinksOK(l, links), NEW now \in Nat, NEW id
  PROVE  Says(EvaluateClaimPublishability(AllEvidenceForClaim(l, id), links, now), Good(l, links, now, id))
<1> DEFINE evidence == AllEvidenceForClaim(l, id)
           linked == {e \in evidence : LinkStatus(links, e.id) # "blocked"}
           good == {e \in linked : IsEvidenceFresh(e, now)}
           reasons == {IF e \in linked THEN "stale" ELSE "blocked" : e \in evidence \ good}
           p == EvaluateClaimPublishability(evidence, links, now)
           K == {k \in DOMAIN l : l[k].kind = "evidence" /\ l[k].evidence.claim = id}
           G == GoodAt(l, links, now, id)
<1>1. evidence = {l[k].evidence : k \in K}
  BY DEF AllEvidenceForClaim
<1>2. ASSUME NEW k \in K
      PROVE  l[k].evidence \in good <=> k \in G
  <2> DEFINE e == l[k].evidence
  <2>1. e \in evidence
    BY <1>1
  <2>2. e \in EvidenceRecords
    BY DEF EntriesOK, LedgerEntryOK
  <2>3. e.checked_at \in Int /\ MaxAgeSeconds \in Nat
    BY <2>2, EvidenceIsDated, MaxAgeAssumption
  <2>4. e.id \in DOMAIN links /\ links[e.id] \in {"linked", "blocked"}
    BY DEF LinksOK
  <2>5. LinkStatus(links, e.id) = links[e.id]
    BY <2>4 DEF LinkStatus
  <2>6. LinkStatus(links, e.id) # "blocked" <=> links[e.id] = "linked"
    BY <2>4, <2>5
  <2>7. IsEvidenceFresh(e, now) <=> now - MaxAgeSeconds <= e.checked_at /\ e.checked_at <= now
    <3> HIDE DEF e
    <3> QED BY <2>3 DEF IsEvidenceFresh
  <2>8. e \in good <=> LinkStatus(links, e.id) # "blocked" /\ IsEvidenceFresh(e, now)
    BY <2>1
  <2>9. k \in G <=> links[e.id] = "linked" /\ now - MaxAgeSeconds <= e.checked_at /\ e.checked_at <= now
    BY DEF GoodAt
  <2> QED BY <2>6, <2>7, <2>8, <2>9
<1>3. good \subseteq evidence
  OBVIOUS
<1>4. Good(l, links, now, id) = {l[k].evidence.id : k \in G}
  BY DEF Good
<1>5. p = [publishable |-> good # {}, supporting |-> {e.id : e \in good},
           reasons |-> IF good # {} THEN {} ELSE IF evidence = {} THEN {"no_evidence"} ELSE reasons]
  BY DEF EvaluateClaimPublishability
<1> HIDE DEF p, good, G, K, evidence
<1>6. {e.id : e \in good} = {l[k].evidence.id : k \in G}
  <2>1. G \subseteq K
    BY DEF G, K, GoodAt
  <2> QED BY <1>1, <1>2, <1>3, <2>1
<1>7. good # {} <=> Good(l, links, now, id) # {}
  BY <1>4, <1>6
<1>8. good = {} /\ evidence # {} => reasons # {}
  OBVIOUS
<1> HIDE DEF reasons
<1>9. p.reasons = {} <=> good # {}
  BY <1>5, <1>8
<1>10. p.publishable = (good # {}) /\ p.supporting = {e.id : e \in good}
  BY <1>5
<1>11. p.publishable = (Good(l, links, now, id) # {}) /\ p.publishable = (p.reasons = {})
  BY <1>7, <1>9, <1>10, Zenon
<1>12. p.supporting = Good(l, links, now, id)
  BY <1>4, <1>6, <1>10
<1>13. Says(p, Good(l, links, now, id))
  BY <1>11, <1>12 DEF Says
<1> QED BY <1>13 DEF p, evidence

(* A version of a claim, added at the end.                                 *)
HasVersion(t, l, c, p, m) ==
  /\ EntriesOK(t, m)
  /\ \A links : LinksOK(l, links) => LinksOK(m, links)
  /\ \A times, now : TimesOK(l, times) /\ now \in Nat => TimesOK(m, At1(times, c.id, now))
  /\ \A links, now, id : Good(m, links, now, id) = Good(l, links, now, id)
  /\ LatestClaim(m, c.id).publishability = p
  /\ \A id : id # c.id /\ EntriesOfClaim(l, id) # {} => LatestClaim(m, id) = LatestClaim(l, id)
LEMMA ClaimAdded ==
  ASSUME NEW t, NEW l, EntriesOK(t, l), NEW c, c.tenant = t, NEW p, NEW m, m = Append(l, ClaimEntry(l, c, p))
  PROVE  HasVersion(t, l, c, p, m)
<1> DEFINE x == ClaimEntry(l, c, p)
           n == Len(l) + 1
<1>1. IsTuple(l)
  BY DEF EntriesOK
<1>2. /\ x.kind = "claim" /\ x.tenant = t /\ x.claim = c /\ x.publishability = p
      /\ x.canonical_hash = ClaimMaterial(c) /\ x.previous_hash = LastHash(l)
  BY DEF ClaimEntry
<1>3. x.kind # "evidence" /\ x.canonical_hash = MaterialOf(x)
  BY <1>2 DEF MaterialOf
<1> HIDE DEF x
<1>4. m = Append(l, x)
  BY DEF x
<1>a. EndedBy(l, x, m) /\ \A id : ClaimsGrow(l, x, m, id)
  BY <1>1, <1>4, Grown
<1>5. /\ IsTuple(m) /\ Len(m) = Len(l) + 1 /\ DOMAIN m = DOMAIN l \cup {n}
      /\ n \notin DOMAIN l /\ m[n] = x /\ \A i \in DOMAIN l : m[i] = l[i]
  BY <1>a DEF EndedBy
<1>6. EntriesOK(t, m)
  <2>1. ASSUME NEW i \in DOMAIN m PROVE LedgerEntryOK(t, m[i]) /\ m[i].previous_hash = PreviousOf(m, i)
    <3>1. CASE i = n
      <4>1. LedgerEntryOK(t, x)
        BY <1>2, <1>3 DEF LedgerEntryOK
      <4>2. LastHash(l) = PreviousOf(m, n)
        BY <1>1, <1>4, LastIsPrevious
      <4> QED BY <3>1, <4>1, <4>2, <1>2, <1>5
    <3>2. CASE i # n
      <4>1. i \in DOMAIN l
        BY <3>2, <1>5
      <4>2. LedgerEntryOK(t, l[i]) /\ l[i].previous_hash = PreviousOf(l, i)
        BY <4>1 DEF EntriesOK
      <4>3. i # 1 => i - 1 \in DOMAIN l
        <5>1. Len(l) \in Nat /\ DOMAIN l = 1..Len(l)
          BY <1>1, TupleType
        <5> QED BY <4>1, <5>1
      <4>4. PreviousOf(m, i) = PreviousOf(l, i)
        BY <4>3, <1>5 DEF PreviousOf
      <4> QED BY <4>1, <4>2, <4>4, <1>5
    <3> QED BY <3>1, <3>2
  <2>2. OneEntryPerEvidence(m)
    BY <1>3, <1>5 DEF OneEntryPerEvidence, EntriesOK
  <2>3. EvidenceHasClaim(m)
    <3>1. ASSUME NEW i \in DOMAIN m, m[i].kind = "evidence"
          PROVE  EntriesOfClaim(m, m[i].evidence.claim) # {}
      <4>1. i \in DOMAIN l /\ m[i] = l[i]
        BY <3>1, <1>3, <1>5
      <4>2. EntriesOfClaim(l, l[i].evidence.claim) # {}
        BY <3>1, <4>1 DEF EntriesOK, EvidenceHasClaim
      <4>3. EntriesOfClaim(l, l[i].evidence.claim) \subseteq EntriesOfClaim(m, l[i].evidence.claim)
        BY <1>a DEF ClaimsGrow
      <4> QED BY <4>1, <4>2, <4>3
    <3> QED BY <3>1 DEF EvidenceHasClaim
  <2> QED BY <2>1, <2>2, <2>3, <1>5 DEF EntriesOK
<1>7. {k \in DOMAIN m : m[k].kind = "evidence"} = {k \in DOMAIN l : l[k].kind = "evidence"}
  BY <1>3, <1>5
<1>8. ASSUME NEW links, LinksOK(l, links) PROVE LinksOK(m, links)
  <2>1. {m[i].evidence.id : i \in {k \in DOMAIN m : m[k].kind = "evidence"}}
          = {l[i].evidence.id : i \in {k \in DOMAIN l : l[k].kind = "evidence"}}
    BY <1>5, <1>7
  <2> QED BY <1>8, <2>1 DEF LinksOK
<1>9. ASSUME NEW times, NEW now \in Nat, TimesOK(l, times) PROVE TimesOK(m, At1(times, c.id, now))
  <2>1. {k \in DOMAIN m : m[k].kind = "claim"} = {k \in DOMAIN l : l[k].kind = "claim"} \cup {n}
    BY <1>2, <1>5
  <2>2. {m[i].claim.id : i \in {k \in DOMAIN m : m[k].kind = "claim"}}
          = {l[i].claim.id : i \in {k \in DOMAIN l : l[k].kind = "claim"}} \cup {c.id}
    BY <1>2, <1>5, <2>1
  <2>3. DOMAIN At1(times, c.id, now) = DOMAIN times \cup {c.id}
    BY DEF At1
  <2>4. ASSUME NEW id \in DOMAIN At1(times, c.id, now) PROVE At1(times, c.id, now)[id] \in Nat
    <3>1. At1(times, c.id, now)[id] = IF id = c.id THEN now ELSE times[id]
      BY <2>3 DEF At1
    <3>2. id # c.id => times[id] \in Nat
      BY <1>9, <2>3 DEF TimesOK
    <3> QED BY <3>1, <3>2
  <2> QED BY <1>9, <2>2, <2>3, <2>4 DEF TimesOK
<1>10. ASSUME NEW links, NEW now, NEW id PROVE Good(m, links, now, id) = Good(l, links, now, id)
  <2> DEFINE G == GoodAt(l, links, now, id)
  <2>1. \A k : k \in DOMAIN m /\ m[k].kind = "evidence" <=> k \in DOMAIN l /\ l[k].kind = "evidence"
    BY <1>3, <1>5
  <2>2. GoodAt(m, links, now, id) = G
    BY <2>1, <1>5 DEF GoodAt
  <2>3. \A k \in G : m[k].evidence.id = l[k].evidence.id
    BY <1>5 DEF GoodAt
  <2> HIDE DEF G
  <2>4. {m[k].evidence.id : k \in G} = {l[k].evidence.id : k \in G}
    BY <2>3
  <2> QED BY <2>2, <2>4 DEF Good, G
<1>11. LatestClaim(m, c.id).publishability = p
  <2>1. LatestClaim(m, c.id) = x
    BY <1>2, <1>a DEF ClaimsGrow
  <2> QED BY <2>1, <1>2
<1>12. ASSUME NEW id, id # c.id, EntriesOfClaim(l, id) # {} PROVE LatestClaim(m, id) = LatestClaim(l, id)
  BY <1>2, <1>a, <1>12 DEF ClaimsGrow
<1> QED BY <1>6, <1>8, <1>9, <1>10, <1>11, <1>12 DEF HasVersion

(* New evidence of a known claim, linked by default.                       *)
HasEvidence(t, l, links, e, m, grown) ==
  /\ EntriesOK(t, m) /\ LinksOK(m, grown) /\ EntriesOfClaim(m, e.claim) # {}
  /\ \A times : TimesOK(l, times) => TimesOK(m, times)
  /\ \A now, id : id # e.claim => Good(m, grown, now, id) = Good(l, links, now, id)
  /\ \A id : EntriesOfClaim(l, id) # {} => LatestClaim(m, id) = LatestClaim(l, id)
LEMMA EvidenceAdded ==
  ASSUME NEW t, NEW l, EntriesOK(t, l), NEW links, LinksOK(l, links), NEW e \in EvidenceRecords, e.tenant = t,
         EntriesOfClaim(l, e.claim) # {}, EvidenceWithId(l, e.id) = {},
         NEW m, m = Append(l, EvidenceEntry(l, e)), NEW grown, grown = SetDefault(links, e.id, "linked")
  PROVE  HasEvidence(t, l, links, e, m, grown)
<1> DEFINE x == EvidenceEntry(l, e)
           n == Len(l) + 1
<1>1. IsTuple(l)
  BY DEF EntriesOK
<1>2. /\ x.kind = "evidence" /\ x.tenant = t /\ x.evidence = e
      /\ x.canonical_hash = EvidenceMaterial(e) /\ x.previous_hash = LastHash(l)
  BY DEF EvidenceEntry
<1>3. x.kind # "claim" /\ x.canonical_hash = MaterialOf(x)
  BY <1>2 DEF MaterialOf
<1> HIDE DEF x
<1>4. m = Append(l, x)
  BY DEF x
<1>a. EndedBy(l, x, m) /\ \A id : ClaimsGrow(l, x, m, id)
  BY <1>1, <1>4, Grown
<1>5. /\ IsTuple(m) /\ Len(m) = Len(l) + 1 /\ DOMAIN m = DOMAIN l \cup {n}
      /\ n \notin DOMAIN l /\ m[n] = x /\ \A i \in DOMAIN l : m[i] = l[i]
  BY <1>a DEF EndedBy
<1>b. /\ \A id : EntriesOfClaim(m, id) = EntriesOfClaim(l, id)
      /\ \A id : EntriesOfClaim(l, id) # {} => LatestClaim(m, id) = LatestClaim(l, id)
  BY <1>3, <1>a DEF ClaimsGrow
<1>c. \A i \in DOMAIN l : l[i].kind = "evidence" => l[i].evidence.id # e.id
  BY DEF EvidenceWithId
<1>6. EntriesOK(t, m)
  <2>1. ASSUME NEW i \in DOMAIN m PROVE LedgerEntryOK(t, m[i]) /\ m[i].previous_hash = PreviousOf(m, i)
    <3>1. CASE i = n
      <4>1. LedgerEntryOK(t, x)
        BY <1>2, <1>3 DEF LedgerEntryOK
      <4>2. LastHash(l) = PreviousOf(m, n)
        BY <1>1, <1>4, LastIsPrevious
      <4> QED BY <3>1, <4>1, <4>2, <1>2, <1>5
    <3>2. CASE i # n
      <4>1. i \in DOMAIN l
        BY <3>2, <1>5
      <4>2. LedgerEntryOK(t, l[i]) /\ l[i].previous_hash = PreviousOf(l, i)
        BY <4>1 DEF EntriesOK
      <4>3. i # 1 => i - 1 \in DOMAIN l
        <5>1. Len(l) \in Nat /\ DOMAIN l = 1..Len(l)
          BY <1>1, TupleType
        <5> QED BY <4>1, <5>1
      <4>4. PreviousOf(m, i) = PreviousOf(l, i)
        BY <4>3, <1>5 DEF PreviousOf
      <4> QED BY <4>1, <4>2, <4>4, <1>5
    <3> QED BY <3>1, <3>2
  <2>2. OneEntryPerEvidence(m)
    BY <1>2, <1>5, <1>c DEF OneEntryPerEvidence, EntriesOK
  <2>3. EvidenceHasClaim(m)
    BY <1>2, <1>5, <1>b DEF EvidenceHasClaim, EntriesOK
  <2> QED BY <2>1, <2>2, <2>3, <1>5 DEF EntriesOK
<1>7. e.id \notin DOMAIN links
  BY <1>c DEF LinksOK
<1>8. /\ DOMAIN grown = DOMAIN links \cup {e.id} /\ grown[e.id] = "linked"
      /\ \A id \in DOMAIN links : grown[id] = links[id]
  BY <1>7 DEF SetDefault, At1
<1>9. LinksOK(m, grown)
  <2>1. {k \in DOMAIN m : m[k].kind = "evidence"} = {k \in DOMAIN l : l[k].kind = "evidence"} \cup {n}
    BY <1>2, <1>5
  <2>2. {m[i].evidence.id : i \in {k \in DOMAIN m : m[k].kind = "evidence"}}
          = {l[i].evidence.id : i \in {k \in DOMAIN l : l[k].kind = "evidence"}} \cup {e.id}
    BY <1>2, <1>5, <2>1
  <2> QED BY <1>8, <2>2 DEF LinksOK
<1>10. ASSUME NEW times, TimesOK(l, times) PROVE TimesOK(m, times)
  <2>1. {k \in DOMAIN m : m[k].kind = "claim"} = {k \in DOMAIN l : l[k].kind = "claim"}
    BY <1>3, <1>5
  <2>2. {m[i].claim.id : i \in {k \in DOMAIN m : m[k].kind = "claim"}}
          = {l[i].claim.id : i \in {k \in DOMAIN l : l[k].kind = "claim"}}
    BY <1>5, <2>1
  <2> QED BY <1>10, <2>2 DEF TimesOK
<1>11. ASSUME NEW now, NEW id, id # e.claim PROVE Good(m, grown, now, id) = Good(l, links, now, id)
  <2> DEFINE G == GoodAt(l, links, now, id)
  <2>1. ASSUME NEW k \in DOMAIN l, l[k].kind = "evidence" PROVE grown[l[k].evidence.id] = links[l[k].evidence.id]
    BY <2>1, <1>8 DEF LinksOK
  <2>2. \A k : k \in DOMAIN m /\ m[k].kind = "evidence" /\ m[k].evidence.claim = id
               <=> k \in DOMAIN l /\ l[k].kind = "evidence" /\ l[k].evidence.claim = id
    BY <1>2, <1>5, <1>11
  <2>3. GoodAt(m, grown, now, id) = G
    BY <2>1, <2>2, <1>5 DEF GoodAt
  <2>4. \A k \in G : m[k].evidence.id = l[k].evidence.id
    BY <1>5 DEF GoodAt
  <2> HIDE DEF G
  <2>5. {m[k].evidence.id : k \in G} = {l[k].evidence.id : k \in G}
    BY <2>4
  <2> QED BY <2>3, <2>5 DEF Good, G
<1> QED BY <1>6, <1>9, <1>10, <1>11, <1>b DEF HasEvidence

(* _reevaluate leaves a claim whose record is that of its evidence now, if *)
(* the records of the other claims were right before.                      *)
OthersOK(l, links, times, id) ==
  \A other \in DOMAIN times \ {id} :
    Says(LatestClaim(l, other).publishability, Good(l, links, times[other], other))
Extends(l, m) == m = l \/ \E x : m = Append(l, x)
LEMMA Reevaluated ==
  ASSUME NEW t, NEW l, EntriesOK(t, l), NEW links, LinksOK(l, links), NEW times, TimesOK(l, times),
         NEW id, EntriesOfClaim(l, id) # {}, NEW now \in Nat, OthersOK(l, links, times, id),
         NEW m, m = Reevaluate(l, id, links, now), NEW after, after = At1(times, id, now)
  PROVE  /\ TenantOK(t, m, links, after) /\ Extends(l, m)
         /\ m # l => m[Len(l) + 1].kind = "claim"
<1> DEFINE p == EvaluateClaimPublishability(AllEvidenceForClaim(l, id), links, now)
           current == LatestClaim(l, id)
<1>1. Says(p, Good(l, links, now, id))
  BY EvaluationSays
<1>2. current.claim.id = id /\ current.claim.tenant = t
  <2>1. IsTuple(l)
    BY DEF EntriesOK
  <2>2. PICK i \in EntriesOfClaim(l, id) : current = l[i]
    BY <2>1, LatestIsLast
  <2> QED BY <2>2 DEF EntriesOfClaim, EntriesOK, LedgerEntryOK
<1>3. m = IF current.publishability = p THEN l ELSE Append(l, ClaimEntry(l, current.claim, p))
  BY DEF Reevaluate
<1>4. id \in DOMAIN times
  BY DEF EntriesOfClaim, TimesOK
<1>5. DOMAIN after = DOMAIN times /\ after[id] = now /\ \A other \in DOMAIN times \ {id} : after[other] = times[other]
  BY <1>4 DEF At1
<1>6. ASSUME NEW other \in DOMAIN times PROVE EntriesOfClaim(l, other) # {}
  BY DEF EntriesOfClaim, TimesOK
<1> HIDE DEF p, current
<1>7. CASE current.publishability = p
  <2>1. m = l
    BY <1>3, <1>7
  <2>2. TimesOK(l, after)
    BY <1>5 DEF TimesOK
  <2>3. RecordsOK(l, links, after)
    BY <1>1, <1>5, <1>7 DEF RecordsOK, OthersOK, current
  <2> QED BY <2>1, <2>2, <2>3 DEF TenantOK, Extends
<1>8. CASE current.publishability # p
  <2> DEFINE c == current.claim
  <2>1. m = Append(l, ClaimEntry(l, c, p))
    BY <1>3, <1>8
  <2>2. /\ EntriesOK(t, m)
        /\ \A ls : LinksOK(l, ls) => LinksOK(m, ls)
        /\ \A ts, at : TimesOK(l, ts) /\ at \in Nat => TimesOK(m, At1(ts, c.id, at))
        /\ \A ls, at, i : Good(m, ls, at, i) = Good(l, ls, at, i)
        /\ LatestClaim(m, c.id).publishability = p
        /\ \A i : i # c.id /\ EntriesOfClaim(l, i) # {} => LatestClaim(m, i) = LatestClaim(l, i)
    <3>1. HasVersion(t, l, c, p, m)
      BY <1>2, <2>1, ClaimAdded
    <3> QED BY <3>1 DEF HasVersion
  <2>3. LinksOK(m, links) /\ TimesOK(m, after)
    BY <2>2, <1>2
  <2>4. ASSUME NEW other \in DOMAIN after
        PROVE  Says(LatestClaim(m, other).publishability, Good(m, links, after[other], other))
    <3>1. CASE other = id
      BY <3>1, <2>2, <1>1, <1>2, <1>5
    <3>2. CASE other # id
      <4>1. Says(LatestClaim(l, other).publishability, Good(l, links, times[other], other))
        BY <3>2, <1>5 DEF OthersOK
      <4>2. LatestClaim(m, other) = LatestClaim(l, other)
        BY <3>2, <2>2, <1>2, <1>5, <1>6
      <4> QED BY <4>1, <4>2, <2>2, <3>2, <1>5
    <3> QED BY <3>1, <3>2
  <2>5. IsTuple(l) /\ m[Len(l) + 1] = ClaimEntry(l, c, p)
    BY <2>1, TupleAppend DEF EntriesOK
  <2>6. m[Len(l) + 1].kind = "claim"
    BY <2>5 DEF ClaimEntry
  <2> QED BY <2>1, <2>2, <2>3, <2>4, <2>6 DEF TenantOK, RecordsOK, Extends
<1> QED BY <1>7, <1>8

-----------------------------------------------------------------------------
(* The steps.                                                              *)

LEMMA PrefixOfGrown ==
  ASSUME NEW l, NEW m, NEW n, IsTuple(l), Extends(l, m), Extends(m, n)
  PROVE  IsPrefix(l, n)
<1>0. ASSUME NEW a, NEW b, IsTuple(a), Extends(a, b)
      PROVE  IsTuple(b) /\ Len(a) <= Len(b) /\ Len(a) \in Nat /\ Len(b) \in Nat /\ \A i \in 1..Len(a) : b[i] = a[i]
  <2>1. Len(a) \in Nat
    BY <1>0, TupleType
  <2>2. CASE b = a
    BY <1>0, <2>1, <2>2
  <2>3. CASE \E x : b = Append(a, x)
    <3>1. PICK x : b = Append(a, x)
      BY <2>3
    <3>2. IsTuple(b) /\ Len(b) = Len(a) + 1 /\ \A i \in 1..Len(a) : b[i] = a[i]
      BY <1>0, <3>1, TupleAppend
    <3> QED BY <2>1, <3>2
  <2> QED BY <1>0, <2>2, <2>3 DEF Extends
<1>1. IsTuple(m) /\ Len(l) <= Len(m) /\ Len(l) \in Nat /\ Len(m) \in Nat /\ \A i \in 1..Len(l) : m[i] = l[i]
  BY <1>0
<1>2. IsTuple(n) /\ Len(m) <= Len(n) /\ Len(n) \in Nat /\ \A i \in 1..Len(m) : n[i] = m[i]
  BY <1>0, <1>1
<1>3. Len(l) <= Len(n)
  BY <1>1, <1>2
<1>4. \A i \in 1..Len(l) : n[i] = l[i]
  BY <1>1, <1>2
<1> DEFINE T == {l[i] : i \in DOMAIN l} \cup {n[i] : i \in DOMAIN n}
<1>5. l \in Seq(T) /\ n \in Seq(T)
  BY <1>2 DEF IsTuple
<1> HIDE DEF T
<1>6. SubSeq(l, 1, Len(l)) = SubSeq(n, 1, Len(l))
  BY <1>1, <1>3, <1>4, <1>5
<1> QED BY <1>3, <1>6 DEF IsPrefix

LedgerGrows ==
  \A t \in LedgerTenants : /\ IsPrefix(ledger[t], ledger'[t])
                           /\ answered' \notin {"entry", "none"} => ledger'[t] = ledger[t]

LEMMA LedgerKept ==
  ASSUME LedgerInv, NEW t \in LedgerTenants PROVE IsPrefix(ledger[t], ledger[t])
<1> PICK l : l = ledger[t]
  OBVIOUS
<1>1. IsTuple(l)
  BY DEF LedgerInv, TenantOK, EntriesOK
<1> QED BY <1>1, PrefixOfGrown DEF Extends

(* One tenant's ledger grows, with what is kept beside it.                 *)
LEMMA TenantGrows ==
  ASSUME LedgerInv, NEW t \in LedgerTenants, NEW m, NEW links, NEW times, TenantOK(t, m, links, times),
         NEW between, Extends(ledger[t], between), Extends(between, m),
         ledger' = [ledger EXCEPT ![t] = m], link_statuses' = [link_statuses EXCEPT ![t] = links],
         evaluated_at' = [evaluated_at EXCEPT ![t] = times], Answered("entry")
  PROVE  LedgerInv' /\ LedgerGrows
<1>1. /\ DOMAIN ledger' = LedgerTenants /\ DOMAIN evaluated_at' = LedgerTenants
      /\ link_statuses' = [u \in LedgerTenants |-> link_statuses'[u]]
  BY DEF LedgerInv
<1>2. ledger'[t] = m /\ link_statuses'[t] = links /\ evaluated_at'[t] = times
  BY DEF LedgerInv
<1>3. ASSUME NEW u \in LedgerTenants, u # t
      PROVE  ledger'[u] = ledger[u] /\ link_statuses'[u] = link_statuses[u] /\ evaluated_at'[u] = evaluated_at[u]
  BY <1>3 DEF LedgerInv
<1>4. answered' = "entry" /\ ledger_clock' = ledger_clock
  BY DEF Answered
<1>5. ASSUME NEW u \in LedgerTenants PROVE TenantOK(u, ledger'[u], link_statuses'[u], evaluated_at'[u])
  BY <1>2, <1>3 DEF LedgerInv
<1>6. LedgerInv'
  BY <1>1, <1>4, <1>5 DEF LedgerInv
<1>7. ASSUME NEW u \in LedgerTenants PROVE IsPrefix(ledger[u], ledger'[u])
  <2>1. IsTuple(ledger[t])
    BY DEF LedgerInv, TenantOK, EntriesOK
  <2>2. IsPrefix(ledger[t], m)
    <3> PICK l : l = ledger[t]
      OBVIOUS
    <3> QED BY <2>1, PrefixOfGrown
  <2>3. IsPrefix(ledger[u], ledger[u])
    BY LedgerKept
  <2> QED BY <2>2, <2>3, <1>2, <1>3
<1> QED BY <1>4, <1>6, <1>7 DEF LedgerGrows

LEMMA RefusedStep ==
  ASSUME LedgerInv, NEW how, Refused(how),
         how \in {"entry", "cross_tenant", "duplicate_claim", "claim_mismatch", "duplicate_evidence", "unknown_evidence"}
  PROVE  LedgerInv' /\ LedgerGrows
<1>1. UNCHANGED <<ledger, link_statuses, evaluated_at, ledger_clock>> /\ answered' = how
  BY DEF Refused, Answered
<1>2. LedgerInv'
  BY <1>1 DEF LedgerInv
<1> QED BY <1>1, <1>2, LedgerKept DEF LedgerGrows

(* append_claim: what no evidence says of a claim is right as long as no   *)
(* evidence names it.                                                      *)
LEMMA AppendClaimStep ==
  ASSUME LedgerInv, NEW t \in LedgerTenants, NEW c \in ClaimRecords, AppendClaim(t, c)
  PROVE  LedgerInv' /\ LedgerGrows
<1>1. CASE \E how \in {"cross_tenant", "entry", "duplicate_claim"} : Refused(how)
  BY <1>1, RefusedStep
<1>2. CASE /\ t = c.tenant /\ EntriesOfClaim(ledger[t], c.id) = {}
           /\ ledger' = [ledger EXCEPT ![t] =
                Append(ledger[t], ClaimEntry(ledger[t], c, EvaluateClaimPublishability({}, <<>>, 0)))]
           /\ evaluated_at' = [evaluated_at EXCEPT ![t] = At1(evaluated_at[t], c.id, ledger_clock)]
           /\ Answered("entry") /\ UNCHANGED link_statuses
  <2> PICK l : l = ledger[t]
    OBVIOUS
  <2> PICK links : links = link_statuses[t]
    OBVIOUS
  <2> PICK times : times = evaluated_at[t]
    OBVIOUS
  <2> PICK now : now = ledger_clock
    OBVIOUS
  <2> PICK p : p = EvaluateClaimPublishability({}, <<>>, 0)
    OBVIOUS
  <2> PICK m : m = Append(l, ClaimEntry(l, c, p))
    OBVIOUS
  <2> PICK after : after = At1(times, c.id, now)
    OBVIOUS
  <2>1. EntriesOK(t, l) /\ LinksOK(l, links) /\ TimesOK(l, times) /\ RecordsOK(l, links, times) /\ now \in Nat
    BY DEF LedgerInv, TenantOK
  <2>2. HasVersion(t, l, c, p, m)
    BY <2>1, <1>2, ClaimAdded
  <2>3. EntriesOK(t, m) /\ LinksOK(m, links) /\ TimesOK(m, after)
    BY <2>1, <2>2 DEF HasVersion
  <2>4. Says(p, {})
    BY DEF Says, EvaluateClaimPublishability
  <2>5. Good(l, links, now, c.id) = {}
    BY <2>1, <1>2, SMTT(60) DEF Good, GoodAt, EntriesOK, EvidenceHasClaim
  <2>6. ASSUME NEW id \in DOMAIN after
        PROVE  Says(LatestClaim(m, id).publishability, Good(m, links, after[id], id))
    <3>1. DOMAIN after = DOMAIN times \cup {c.id} /\ after[c.id] = now
          /\ \A i \in DOMAIN times \ {c.id} : after[i] = times[i]
      BY DEF At1
    <3>2. CASE id = c.id
      <4>1. LatestClaim(m, c.id).publishability = p /\ Good(m, links, now, c.id) = Good(l, links, now, c.id)
        BY <2>2 DEF HasVersion
      <4> QED BY <4>1, <3>1, <3>2, <2>4, <2>5
    <3>3. CASE id # c.id
      <4>1. id \in DOMAIN times /\ after[id] = times[id]
        BY <3>1, <3>3
      <4>2. EntriesOfClaim(l, id) # {}
        BY <4>1, <2>1 DEF EntriesOfClaim, TimesOK
      <4>3. LatestClaim(m, id) = LatestClaim(l, id) /\ Good(m, links, times[id], id) = Good(l, links, times[id], id)
        BY <3>3, <4>2, <2>2 DEF HasVersion
      <4> QED BY <4>1, <4>3, <2>1 DEF RecordsOK
    <3> QED BY <3>2, <3>3
  <2>7. TenantOK(t, m, links, after)
    BY <2>3, <2>6 DEF TenantOK, RecordsOK
  <2>8. Extends(l, m) /\ Extends(l, l)
    BY DEF Extends
  <2>9. /\ ledger' = [ledger EXCEPT ![t] = m] /\ link_statuses' = [link_statuses EXCEPT ![t] = links]
        /\ evaluated_at' = [evaluated_at EXCEPT ![t] = after] /\ Answered("entry")
    BY <1>2 DEF LedgerInv
  <2> QED BY <2>7, <2>8, <2>9, TenantGrows
<1> QED BY <1>1, <1>2 DEF AppendClaim

LEMMA AppendEvidenceStep ==
  ASSUME LedgerInv, NEW t \in LedgerTenants, NEW e \in EvidenceRecords, AppendEvidence(t, e)
  PROVE  LedgerInv' /\ LedgerGrows
<1>1. CASE \E how \in {"cross_tenant", "claim_mismatch", "entry", "duplicate_evidence"} : Refused(how)
  BY <1>1, RefusedStep
<1>2. CASE /\ t = e.tenant /\ EntriesOfClaim(ledger[t], e.claim) # {} /\ EvidenceWithId(ledger[t], e.id) = {}
           /\ link_statuses' = [link_statuses EXCEPT ![t] = SetDefault(link_statuses[t], e.id, "linked")]
           /\ ledger' = [ledger EXCEPT ![t] =
                Reevaluate(Append(ledger[t], EvidenceEntry(ledger[t], e)), e.claim,
                           SetDefault(link_statuses[t], e.id, "linked"), ledger_clock)]
           /\ evaluated_at' = [evaluated_at EXCEPT ![t] = At1(evaluated_at[t], e.claim, ledger_clock)]
           /\ Answered("entry")
  <2> PICK l : l = ledger[t]
    OBVIOUS
  <2> PICK links : links = link_statuses[t]
    OBVIOUS
  <2> PICK times : times = evaluated_at[t]
    OBVIOUS
  <2> PICK now : now = ledger_clock
    OBVIOUS
  <2> PICK grown : grown = SetDefault(links, e.id, "linked")
    OBVIOUS
  <2> PICK between : between = Append(l, EvidenceEntry(l, e))
    OBVIOUS
  <2> PICK m : m = Reevaluate(between, e.claim, grown, now)
    OBVIOUS
  <2> PICK after : after = At1(times, e.claim, now)
    OBVIOUS
  <2>1. EntriesOK(t, l) /\ LinksOK(l, links) /\ TimesOK(l, times) /\ RecordsOK(l, links, times) /\ now \in Nat
    BY DEF LedgerInv, TenantOK
  <2>2. HasEvidence(t, l, links, e, between, grown)
    BY <2>1, <1>2, EvidenceAdded
  <2>3. EntriesOK(t, between) /\ LinksOK(between, grown) /\ EntriesOfClaim(between, e.claim) # {}
        /\ TimesOK(between, times)
    BY <2>1, <2>2 DEF HasEvidence
  <2>4. OthersOK(between, grown, times, e.claim)
    <3>1. ASSUME NEW id \in DOMAIN times \ {e.claim}
          PROVE  Says(LatestClaim(between, id).publishability, Good(between, grown, times[id], id))
      <4>1. EntriesOfClaim(l, id) # {}
        BY <2>1 DEF EntriesOfClaim, TimesOK
      <4>2. LatestClaim(between, id) = LatestClaim(l, id) /\ Good(between, grown, times[id], id) = Good(l, links, times[id], id)
        BY <4>1, <2>2 DEF HasEvidence
      <4> QED BY <4>2, <2>1 DEF RecordsOK
    <3> QED BY <3>1 DEF OthersOK
  <2>5. TenantOK(t, m, grown, after) /\ Extends(between, m)
    BY <2>1, <2>3, <2>4, Reevaluated
  <2>6. Extends(l, between)
    BY DEF Extends
  <2>7. /\ ledger' = [ledger EXCEPT ![t] = m] /\ link_statuses' = [link_statuses EXCEPT ![t] = grown]
        /\ evaluated_at' = [evaluated_at EXCEPT ![t] = after] /\ Answered("entry")
    BY <1>2
  <2> QED BY <2>5, <2>6, <2>7, TenantGrows
<1> QED BY <1>1, <1>2 DEF AppendEvidence

(* set_evidence_link_status: an id has one entry, so one claim is touched. *)
LEMMA SetLinkStep ==
  ASSUME LedgerInv, NEW t \in LedgerTenants, NEW id, NEW status \in {"linked", "blocked"},
         SetEvidenceLinkStatus(t, id, status)
  PROVE  LedgerInv' /\ LedgerGrows
<1>1. CASE Refused("unknown_evidence")
  BY <1>1, RefusedStep
<1> DEFINE Owner(l) == l[CHOOSE i \in EvidenceWithId(l, id) : TRUE].evidence.claim
<1>2. CASE /\ EvidenceWithId(ledger[t], id) # {}
           /\ link_statuses' = [link_statuses EXCEPT ![t] = At1(link_statuses[t], id, status)]
           /\ ledger' = [ledger EXCEPT ![t] =
                Reevaluate(ledger[t], Owner(ledger[t]), At1(link_statuses[t], id, status), ledger_clock)]
           /\ evaluated_at' = [evaluated_at EXCEPT ![t] = At1(evaluated_at[t], Owner(ledger[t]), ledger_clock)]
           /\ Answered("entry")
  <2> PICK l : l = ledger[t]
    OBVIOUS
  <2> PICK before : before = link_statuses[t]
    OBVIOUS
  <2> PICK times : times = evaluated_at[t]
    OBVIOUS
  <2> PICK now : now = ledger_clock
    OBVIOUS
  <2> PICK links : links = At1(before, id, status)
    OBVIOUS
  <2> PICK owner : owner = Owner(l)
    OBVIOUS
  <2> PICK m : m = Reevaluate(l, owner, links, now)
    OBVIOUS
  <2> PICK after : after = At1(times, owner, now)
    OBVIOUS
  <2>1. EntriesOK(t, l) /\ LinksOK(l, before) /\ TimesOK(l, times) /\ RecordsOK(l, before, times) /\ now \in Nat
    BY DEF LedgerInv, TenantOK
  <2>2. PICK j \in EvidenceWithId(l, id) : owner = l[j].evidence.claim
    BY <1>2
  <2>3. j \in DOMAIN l /\ l[j].kind = "evidence" /\ l[j].evidence.id = id
    BY DEF EvidenceWithId
  <2>4. EntriesOfClaim(l, owner) # {}
    BY <2>1, <2>2, <2>3 DEF EntriesOK, EvidenceHasClaim
  <2>5. id \in DOMAIN before
    BY <2>1, <2>3 DEF LinksOK
  <2>6. DOMAIN links = DOMAIN before /\ links[id] = status /\ \A i \in DOMAIN before \ {id} : links[i] = before[i]
    BY <2>5 DEF At1
  <2>7. LinksOK(l, links)
    BY <2>1, <2>6 DEF LinksOK
  <2>8. OthersOK(l, links, times, owner)
    <3>1. ASSUME NEW other \in DOMAIN times \ {owner}
          PROVE  Says(LatestClaim(l, other).publishability, Good(l, links, times[other], other))
      <4>1. ASSUME NEW k \in DOMAIN l, l[k].kind = "evidence", l[k].evidence.claim = other
            PROVE  links[l[k].evidence.id] = before[l[k].evidence.id]
        <5>1. k # j
          BY <2>2, <4>1
        <5>2. l[k].evidence.id # id
          BY <5>1, <4>1, <2>1, <2>3 DEF EntriesOK, OneEntryPerEvidence
        <5>3. l[k].evidence.id \in DOMAIN before
          BY <4>1, <2>1 DEF LinksOK
        <5> QED BY <5>2, <5>3, <2>6
      <4>2. GoodAt(l, links, times[other], other) = GoodAt(l, before, times[other], other)
        BY <4>1 DEF GoodAt
      <4> QED BY <4>2, <2>1 DEF Good, RecordsOK
    <3> QED BY <3>1 DEF OthersOK
  <2>9. TenantOK(t, m, links, after) /\ Extends(l, m)
    <3> HIDE DEF Owner
    <3> QED BY <2>1, <2>4, <2>7, <2>8, Reevaluated
  <2>10. Extends(l, l)
    BY DEF Extends
  <2>11. /\ ledger' = [ledger EXCEPT ![t] = m] /\ link_statuses' = [link_statuses EXCEPT ![t] = links]
         /\ evaluated_at' = [evaluated_at EXCEPT ![t] = after] /\ Answered("entry")
    BY <1>2
  <2> QED BY <2>9, <2>10, <2>11, TenantGrows
<1> QED BY <1>1, <1>2 DEF SetEvidenceLinkStatus

LEMMA LedgerInitOK == LedgerInit => LedgerInv
<1> SUFFICES ASSUME LedgerInit PROVE LedgerInv
  OBVIOUS
<1>1. ASSUME NEW t \in LedgerTenants PROVE TenantOK(t, ledger[t], link_statuses[t], evaluated_at[t])
  <2>1. ledger[t] = <<>> /\ link_statuses[t] = <<>> /\ evaluated_at[t] = <<>>
    BY DEF LedgerInit
  <2>2. EntriesOK(t, <<>>)
    BY EmptyTuple DEF EntriesOK, OneEntryPerEvidence, EvidenceHasClaim
  <2>3. LinksOK(<<>>, <<>>) /\ TimesOK(<<>>, <<>>) /\ RecordsOK(<<>>, <<>>, <<>>)
    BY EmptyTuple DEF LinksOK, TimesOK, RecordsOK
  <2> QED BY <2>1, <2>2, <2>3 DEF TenantOK
<1> QED BY <1>1 DEF LedgerInit, LedgerInv

LEMMA LedgerStep == LedgerInv /\ [LedgerNext]_ledgerVars => LedgerInv' /\ LedgerGrows
<1> SUFFICES ASSUME LedgerInv, [LedgerNext]_ledgerVars PROVE LedgerInv' /\ LedgerGrows
  OBVIOUS
<1>1. CASE LedgerTick \/ UNCHANGED ledgerVars
  <2>1. ledger_clock' \in Nat /\ UNCHANGED <<ledger, link_statuses, answered, evaluated_at>>
    BY <1>1 DEF LedgerTick, ledgerVars, LedgerInv
  <2>2. LedgerInv'
    BY <2>1 DEF LedgerInv
  <2> QED BY <2>1, <2>2, LedgerKept DEF LedgerGrows
<1>2. ASSUME NEW t \in LedgerTenants, NEW c \in ClaimRecords, AppendClaim(t, c) PROVE LedgerInv' /\ LedgerGrows
  BY <1>2, AppendClaimStep
<1>3. ASSUME NEW t \in LedgerTenants, NEW e \in EvidenceRecords, AppendEvidence(t, e) PROVE LedgerInv' /\ LedgerGrows
  BY <1>3, AppendEvidenceStep
<1>4. ASSUME NEW t \in LedgerTenants, NEW e \in EvidenceRecords, NEW status \in {"linked", "blocked"},
             SetEvidenceLinkStatus(t, e.id, status)
      PROVE  LedgerInv' /\ LedgerGrows
  BY <1>4, SetLinkStep
<1> QED BY <1>1, <1>2, <1>3, <1>4 DEF LedgerNext

LEMMA LedgerInvImplies == LedgerInv => LedgerTypeOK /\ LedgerVerifies /\ PublishabilityIsCurrent
<1> SUFFICES ASSUME LedgerInv PROVE LedgerTypeOK /\ LedgerVerifies /\ PublishabilityIsCurrent
  OBVIOUS
<1>0. ASSUME NEW t \in LedgerTenants
      PROVE  /\ EntriesOK(t, ledger[t]) /\ LinksOK(ledger[t], link_statuses[t])
             /\ RecordsOK(ledger[t], link_statuses[t], evaluated_at[t])
  BY DEF LedgerInv, TenantOK
<1>1. LedgerTypeOK
  <2>1. ASSUME NEW t \in LedgerTenants, NEW i \in DOMAIN ledger[t] PROVE ledger[t][i].kind \in {"claim", "evidence"}
    BY <1>0 DEF EntriesOK, LedgerEntryOK
  <2>2. ASSUME NEW t \in LedgerTenants, NEW id \in DOMAIN link_statuses[t]
        PROVE  EvidenceWithId(ledger[t], id) # {} /\ link_statuses[t][id] \in {"linked", "blocked"}
    <3> PICK l : l = ledger[t]
      OBVIOUS
    <3> PICK links : links = link_statuses[t]
      OBVIOUS
    <3>1. LinksOK(l, links)
      BY <1>0
    <3>2. PICK i \in {k \in DOMAIN l : l[k].kind = "evidence"} : id = l[i].evidence.id
      BY <3>1 DEF LinksOK
    <3>3. i \in EvidenceWithId(l, id)
      BY <3>2 DEF EvidenceWithId
    <3>4. links[id] \in {"linked", "blocked"}
      BY <3>1 DEF LinksOK
    <3> QED BY <3>3, <3>4
  <2> QED BY <2>1, <2>2 DEF LedgerTypeOK, LedgerInv
<1>2. LedgerVerifies
  <2>1. ASSUME NEW t \in LedgerTenants
        PROVE  VerifyLedgerChain(ledger[t]) = 0 /\ \A i \in DOMAIN ledger[t] : ledger[t][i].tenant = t
    <3> PICK l : l = ledger[t]
      OBVIOUS
    <3>1. EntriesOK(t, l)
      BY <1>0
    <3>2. ASSUME NEW i \in DOMAIN l PROVE ~Broken(l, i)
      <4>1. IsTuple(l) /\ i \in 1..Len(l)
        BY <3>1, TupleType DEF EntriesOK
      <4>2. LastHash(SubSeq(l, 1, i - 1)) = PreviousOf(l, i)
        BY <4>1, LastOfPrefix
      <4> QED BY <4>2, <3>1 DEF Broken, EntriesOK, LedgerEntryOK
    <3>3. VerifyLedgerChain(l) = 0
      BY <3>2 DEF VerifyLedgerChain
    <3> QED BY <3>1, <3>3 DEF EntriesOK, LedgerEntryOK
  <2> QED BY <2>1 DEF LedgerVerifies
<1>3. PublishabilityIsCurrent
  <2>1. ASSUME NEW t \in LedgerTenants, NEW id \in DOMAIN evaluated_at[t]
        PROVE  Says(GetClaimPublishability(t, id), Good(ledger[t], link_statuses[t], evaluated_at[t][id], id))
    BY <1>0 DEF RecordsOK, GetClaimPublishability
  <2> QED BY <2>1 DEF PublishabilityIsCurrent, Says, Good, GoodAt
<1> QED BY <1>1, <1>2, <1>3

(* For any tenants, claims, evidence and order of calls, at any time: the  *)
(* chain verifies and holds its tenant's records only, entries are only    *)
(* added, one per evidence id, and what a claim's last entry says of it is *)
(* what the evidence linked now says (append_claim, append_evidence,       *)
(* set_evidence_link_status, _reevaluate).                                 *)
THEOREM LedgerAlwaysHolds == LedgerSpec => LedgerHolds
<1>1. LedgerInv /\ [LedgerNext]_ledgerVars =>
        [\A t \in LedgerTenants :
           /\ IsPrefix(ledger[t], ledger'[t])
           /\ answered' \notin {"entry", "none"} => ledger'[t] = ledger[t]
           /\ \A i, k \in DOMAIN ledger'[t] :
                /\ ledger'[t][i].kind = "evidence" /\ ledger'[t][k].kind = "evidence" /\ i # k
                => ledger'[t][i].evidence.id # ledger'[t][k].evidence.id]_ledgerVars
  <2> SUFFICES ASSUME LedgerInv, [LedgerNext]_ledgerVars, NEW t \in LedgerTenants
               PROVE  /\ IsPrefix(ledger[t], ledger'[t])
                      /\ answered' \notin {"entry", "none"} => ledger'[t] = ledger[t]
                      /\ \A i, k \in DOMAIN ledger'[t] :
                           /\ ledger'[t][i].kind = "evidence" /\ ledger'[t][k].kind = "evidence" /\ i # k
                           => ledger'[t][i].evidence.id # ledger'[t][k].evidence.id
    OBVIOUS
  <2>1. LedgerInv' /\ LedgerGrows
    BY LedgerStep
  <2>2. OneEntryPerEvidence(ledger'[t])
    BY <2>1 DEF LedgerInv, TenantOK, EntriesOK
  <2> QED BY <2>1, <2>2 DEF LedgerGrows, OneEntryPerEvidence
<1> QED BY LedgerInitOK, LedgerStep, LedgerInvImplies, <1>1, PTL DEF LedgerSpec, LedgerHolds, LedgerAppendsOnly

-----------------------------------------------------------------------------
(* The projection folded from a ledger.                                    *)

(* A claim id stands for one claim, and evidence comes after its claim.    *)
ClaimsOrdered(l) ==
  /\ \A i, k \in DOMAIN l :
       l[i].kind = "claim" /\ l[k].kind = "claim" /\ l[i].claim.id = l[k].claim.id => l[i].claim = l[k].claim
  /\ \A i \in DOMAIN l : l[i].kind = "evidence" =>
       \E k \in DOMAIN l : k < i /\ l[k].kind = "claim" /\ l[k].claim.id = l[i].evidence.claim

(* The claims and the evidence of a claim among the first n entries.       *)
ClaimsUpTo(l, n) == {l[i].claim.id : i \in {k \in 1..n : l[k].kind = "claim"}}
EvidenceUpTo(l, n, id) ==
  {l[i].evidence.id : i \in {k \in 1..n : l[k].kind = "evidence" /\ l[k].evidence.claim = id}}

(* What the projection of the first n entries says of a claim.             *)
SaysLast(l, n, id, view) ==
  \E i \in 1..n : /\ l[i].kind = "claim" /\ l[i].claim.id = id
                  /\ \A k \in 1..n : l[k].kind = "claim" /\ l[k].claim.id = id => k <= i
                  /\ view.publishability = l[i].publishability /\ view.entity = l[i].claim.entity
InOrder(l, ids) ==
  \A i, k \in DOMAIN ids :
    i < k => \A a \in EvidenceWithId(l, ids[i]), b \in EvidenceWithId(l, ids[k]) : a < b
SaysEvidence(l, n, id, ids) ==
  /\ IsTuple(ids) /\ {ids[i] : i \in DOMAIN ids} = EvidenceUpTo(l, n, id) /\ InOrder(l, ids)

(* And of an entity: its claims, each at one place.                        *)
SaysEntity(claims, entity, ids) ==
  /\ IsTuple(ids)
  /\ \A i \in DOMAIN ids : ids[i] \in DOMAIN claims /\ claims[ids[i]].entity = entity
  /\ \A i, k \in DOMAIN ids : ids[i] = ids[k] => i = k
SaysEntities(claims, of) ==
  /\ \A entity \in DOMAIN of : SaysEntity(claims, entity, of[entity])
  /\ \A id \in DOMAIN claims : /\ claims[id].entity \in DOMAIN of
                               /\ \E i \in DOMAIN of[claims[id].entity] : of[claims[id].entity][i] = id
SaysClaims(l, n, claims) ==
  /\ DOMAIN claims = ClaimsUpTo(l, n)
  /\ \A id \in DOMAIN claims : SaysLast(l, n, id, claims[id]) /\ SaysEvidence(l, n, id, claims[id].evidence_ids)
Projects(l, n, p) == SaysClaims(l, n, p.claims) /\ SaysEntities(p.claims, p.entity_claims)

(* An entry that is no evidence of a claim adds none, and one that is adds *)
(* itself.                                                                 *)
LEMMA EvidenceAddedUpTo ==
  ASSUME NEW l, NEW n \in Nat, NEW id
  PROVE  EvidenceUpTo(l, n + 1, id) =
           EvidenceUpTo(l, n, id) \cup
             (IF l[n + 1].kind = "evidence" /\ l[n + 1].evidence.claim = id THEN {l[n + 1].evidence.id} ELSE {})
<1> PICK N : N = {k \in 1..n : l[k].kind = "evidence" /\ l[k].evidence.claim = id}
  OBVIOUS
<1> PICK M : M = {k \in 1..(n + 1) : l[k].kind = "evidence" /\ l[k].evidence.claim = id}
  OBVIOUS
<1>1. M = N \cup (IF l[n + 1].kind = "evidence" /\ l[n + 1].evidence.claim = id THEN {n + 1} ELSE {})
  OBVIOUS
<1>2. EvidenceUpTo(l, n, id) = {l[i].evidence.id : i \in N} /\ EvidenceUpTo(l, n + 1, id) = {l[i].evidence.id : i \in M}
  BY DEF EvidenceUpTo
<1> QED
  BY <1>1, <1>2

(* The same of the claims among the first entries.                         *)
LEMMA ClaimsAddedUpTo ==
  ASSUME NEW l, NEW n \in Nat
  PROVE  ClaimsUpTo(l, n + 1) =
           ClaimsUpTo(l, n) \cup (IF l[n + 1].kind = "claim" THEN {l[n + 1].claim.id} ELSE {})
<1> PICK N : N = {k \in 1..n : l[k].kind = "claim"}
  OBVIOUS
<1> PICK M : M = {k \in 1..(n + 1) : l[k].kind = "claim"}
  OBVIOUS
<1>1. M = N \cup (IF l[n + 1].kind = "claim" THEN {n + 1} ELSE {})
  OBVIOUS
<1>2. ClaimsUpTo(l, n) = {l[i].claim.id : i \in N} /\ ClaimsUpTo(l, n + 1) = {l[i].claim.id : i \in M}
  BY DEF ClaimsUpTo
<1> QED
  BY <1>1, <1>2

(* Any other entry leaves them as they were.                               *)
LEMMA NoEvidenceAdded ==
  ASSUME NEW l, NEW n \in Nat, NEW id, ~(l[n + 1].kind = "evidence" /\ l[n + 1].evidence.claim = id)
  PROVE  EvidenceUpTo(l, n + 1, id) = EvidenceUpTo(l, n, id)
<1>1. {k \in 1..(n + 1) : l[k].kind = "evidence" /\ l[k].evidence.claim = id} =
        {k \in 1..n : l[k].kind = "evidence" /\ l[k].evidence.claim = id}
  OBVIOUS
<1> QED
  BY <1>1 DEF EvidenceUpTo

LEMMA NoClaimAdded ==
  ASSUME NEW l, NEW n \in Nat, l[n + 1].kind # "claim" PROVE ClaimsUpTo(l, n + 1) = ClaimsUpTo(l, n)
<1>1. {k \in 1..(n + 1) : l[k].kind = "claim"} = {k \in 1..n : l[k].kind = "claim"}
  OBVIOUS
<1> QED
  BY <1>1 DEF ClaimsUpTo

(* What was last of a claim stays so under an entry of another.            *)
LEMMA LastStays ==
  ASSUME NEW l, NEW n \in Nat, NEW id, NEW view, SaysLast(l, n, id, view),
         ~(l[n + 1].kind = "claim" /\ l[n + 1].claim.id = id),
         NEW after, after.publishability = view.publishability, after.entity = view.entity
  PROVE  SaysLast(l, n + 1, id, after)
<1>1. PICK i \in 1..n : /\ l[i].kind = "claim" /\ l[i].claim.id = id
                        /\ \A k \in 1..n : l[k].kind = "claim" /\ l[k].claim.id = id => k <= i
                        /\ view.publishability = l[i].publishability /\ view.entity = l[i].claim.entity
  BY DEF SaysLast
<1>2. i \in 1..(n + 1)
  OBVIOUS
<1>3. ASSUME NEW k \in 1..(n + 1), l[k].kind = "claim", l[k].claim.id = id PROVE k <= i
  <2>1. k # n + 1
    BY <1>3
  <2>2. k \in 1..n
    BY <2>1
  <2> QED
    BY <1>1, <1>3, <2>2
<1> QED
  BY <1>1, <1>2, <1>3 DEF SaysLast

(* A claim entry is the last of its claim.                                 *)
LEMMA LastIsNew ==
  ASSUME NEW l, NEW n \in Nat, NEW id, l[n + 1].kind = "claim", l[n + 1].claim.id = id,
         NEW after, after.publishability = l[n + 1].publishability, after.entity = l[n + 1].claim.entity
  PROVE  SaysLast(l, n + 1, id, after)
<1>1. n + 1 \in 1..(n + 1) /\ \A k \in 1..(n + 1) : k <= n + 1
  OBVIOUS
<1> QED
  BY <1>1 DEF SaysLast

(* A claim's entity is that of its claim, at whatever entry.               *)
LEMMA EntityIsFixed ==
  ASSUME NEW l, IsTuple(l), ClaimsOrdered(l), NEW n \in Nat, n < Len(l), NEW id, NEW view, SaysLast(l, n, id, view),
         l[n + 1].kind = "claim", l[n + 1].claim.id = id
  PROVE  view.entity = l[n + 1].claim.entity
<1>1. PICK i \in 1..n : /\ l[i].kind = "claim" /\ l[i].claim.id = id /\ view.entity = l[i].claim.entity
  BY DEF SaysLast
<1>2. Len(l) \in Nat /\ DOMAIN l = 1..Len(l)
  BY TupleType
<1>3. i \in DOMAIN l /\ n + 1 \in DOMAIN l
  BY <1>2
<1>4. l[i].claim = l[n + 1].claim
  BY <1>1, <1>3 DEF ClaimsOrdered
<1> QED
  BY <1>1, <1>4

(* A claim entry: the claim says what the entry says, and is listed under  *)
(* its entity if it was not.                                               *)
LEMMA ClaimProjects ==
  ASSUME NEW l, IsTuple(l), ClaimsOrdered(l), NEW n \in Nat, n < Len(l), l[n + 1].kind = "claim",
         NEW p, Projects(l, n, p), NEW q, q = ApplyClaimFact(p, l[n + 1])
  PROVE  Projects(l, n + 1, q)
<1>a1. PICK c : c = l[n + 1].claim
  OBVIOUS
<1>a2. PICK id : id = c.id
  OBVIOUS
<1>a3. PICK claims : claims = p.claims
  OBVIOUS
<1>a4. PICK of : of = p.entity_claims
  OBVIOUS
<1>a5. PICK now : now = Of(of, c.entity)
  OBVIOUS
<1>a6. PICK ids : ids = IF id \in DOMAIN claims THEN claims[id].evidence_ids ELSE <<>>
  OBVIOUS
<1>a7. PICK view : view = [entity |-> c.entity, publishability |-> l[n + 1].publishability, evidence_ids |-> ids]
  OBVIOUS
<1>a8. PICK after : after = At1(claims, id, view)
  OBVIOUS
<1>a9. PICK lists : lists = IF \E i \in DOMAIN now : now[i] = id THEN of ELSE At1(of, c.entity, Append(now, id))
  OBVIOUS
<1>1. SaysClaims(l, n, claims) /\ SaysEntities(claims, of)
  BY <1>a3, <1>a4 DEF Projects
<1>2. id \in DOMAIN claims => claims[id].entity = c.entity
  BY <1>1, <1>a1, <1>a2, EntityIsFixed DEF SaysClaims
<1>3. q.claims = after /\ q.entity_claims = lists
  BY <1>2, <1>a1, <1>a2, <1>a3, <1>a4, <1>a5, <1>a6, <1>a7, <1>a8, <1>a9 DEF ApplyClaimFact
<1>4. DOMAIN after = DOMAIN claims \cup {id} /\ after[id] = view /\ \A k \in DOMAIN claims \ {id} : after[k] = claims[k]
  BY <1>a8 DEF At1
<1>5. view.entity = c.entity /\ view.publishability = l[n + 1].publishability /\ view.evidence_ids = ids
  BY <1>a7
<1>6. DOMAIN after = ClaimsUpTo(l, n + 1)
  BY <1>1, <1>4, <1>a1, <1>a2, ClaimsAddedUpTo DEF SaysClaims
<1>7. \A k : EvidenceUpTo(l, n + 1, k) = EvidenceUpTo(l, n, k)
  BY NoEvidenceAdded
<1>8. SaysLast(l, n + 1, id, view)
  BY <1>5, <1>a1, <1>a2, LastIsNew
<1>9. SaysEvidence(l, n + 1, id, ids)
  <2>1. CASE id \in DOMAIN claims
    BY <2>1, <1>1, <1>7, <1>a6 DEF SaysClaims, SaysEvidence
  <2>2. CASE id \notin DOMAIN claims
    <3>1. ids = <<>>
      BY <2>2, <1>a6
    <3>2. EvidenceUpTo(l, n, id) = {}
      <4> SUFFICES ASSUME NEW i \in 1..n, l[i].kind = "evidence", l[i].evidence.claim = id PROVE FALSE
        BY DEF EvidenceUpTo
      <4>1. DOMAIN l = 1..Len(l) /\ Len(l) \in Nat
        BY TupleType
      <4>2. i \in DOMAIN l
        BY <4>1
      <4>3. PICK k \in DOMAIN l : k < i /\ l[k].kind = "claim" /\ l[k].claim.id = id
        BY <4>2 DEF ClaimsOrdered
      <4>4. k \in 1..n
        BY <4>1, <4>3
      <4>5. id \in ClaimsUpTo(l, n)
        BY <4>3, <4>4 DEF ClaimsUpTo
      <4> QED
        BY <4>5, <2>2, <1>1 DEF SaysClaims
    <3> QED
      BY <3>1, <3>2, <1>7, EmptyTuple DEF SaysEvidence, InOrder
  <2> QED
    BY <2>1, <2>2
<1>10. SaysClaims(l, n + 1, after)
  <2>1. ASSUME NEW k \in DOMAIN claims \ {id}
        PROVE  SaysLast(l, n + 1, k, claims[k]) /\ SaysEvidence(l, n + 1, k, claims[k].evidence_ids)
    <3>1. SaysLast(l, n, k, claims[k]) /\ SaysEvidence(l, n, k, claims[k].evidence_ids)
      BY <1>1 DEF SaysClaims
    <3>2. SaysLast(l, n + 1, k, claims[k])
      BY <3>1, <1>a1, <1>a2, LastStays
    <3>3. SaysEvidence(l, n + 1, k, claims[k].evidence_ids)
      BY <3>1, <1>7 DEF SaysEvidence
    <3> QED
      BY <3>2, <3>3
  <2> QED
    BY <2>1, <1>4, <1>5, <1>6, <1>8, <1>9 DEF SaysClaims
<1>11. \A k \in DOMAIN claims : k \in DOMAIN after /\ after[k].entity = claims[k].entity
  BY <1>2, <1>4, <1>5
<1>12. \A e, s : SaysEntity(claims, e, s) => SaysEntity(after, e, s)
  BY <1>11 DEF SaysEntity
<1>13. after[id].entity = c.entity
  BY <1>4, <1>5
<1>14. SaysEntities(after, lists)
  <2>1. CASE \E i \in DOMAIN now : now[i] = id
    <3>1. c.entity \in DOMAIN of /\ now = of[c.entity]
      BY <2>1, <1>a5, EmptyTuple DEF Of
    <3>2. lists = of
      BY <2>1, <1>a9
    <3> QED
      BY <3>1, <3>2, <2>1, <1>1, <1>4, <1>11, <1>12, <1>13 DEF SaysEntities
  <2>2. CASE ~\E i \in DOMAIN now : now[i] = id
    <3>a1. PICK more : more = Append(now, id)
      OBVIOUS
    <3>1. SaysEntity(claims, c.entity, now)
      <4>1. CASE c.entity \in DOMAIN of
        BY <4>1, <1>1, <1>a5 DEF Of, SaysEntities
      <4>2. CASE c.entity \notin DOMAIN of
        BY <4>2, <1>a5, EmptyTuple DEF Of, SaysEntity
      <4> QED
        BY <4>1, <4>2
    <3>2. /\ IsTuple(now) /\ IsTuple(more) /\ Len(now) \in Nat /\ Len(more) = Len(now) + 1
          /\ DOMAIN now = 1..Len(now) /\ DOMAIN more = 1..(Len(now) + 1)
          /\ more[Len(now) + 1] = id /\ \A i \in 1..Len(now) : more[i] = now[i]
      BY <3>1, <3>a1, TupleAppend, TupleType DEF SaysEntity
    <3>3. SaysEntity(after, c.entity, more)
      <4>1. ASSUME NEW i \in DOMAIN more PROVE more[i] \in DOMAIN after /\ after[more[i]].entity = c.entity
        <5>1. CASE i = Len(now) + 1
          BY <5>1, <3>2, <1>4, <1>13
        <5>2. CASE i # Len(now) + 1
          <6>1. i \in DOMAIN now /\ more[i] = now[i]
            BY <5>2, <3>2
          <6> QED
            BY <6>1, <3>1, <1>11 DEF SaysEntity
        <5> QED
          BY <5>1, <5>2
      <4>2. ASSUME NEW i \in DOMAIN more, NEW k \in DOMAIN more, more[i] = more[k] PROVE i = k
        <5>1. CASE i = Len(now) + 1 \/ k = Len(now) + 1
          BY <5>1, <4>2, <3>2, <2>2
        <5>2. CASE i # Len(now) + 1 /\ k # Len(now) + 1
          <6>1. i \in DOMAIN now /\ k \in DOMAIN now /\ now[i] = now[k]
            BY <5>2, <4>2, <3>2
          <6> QED
            BY <6>1, <3>1 DEF SaysEntity
        <5> QED
          BY <5>1, <5>2
      <4> QED
        BY <4>1, <4>2, <3>2 DEF SaysEntity
    <3>4. DOMAIN lists = DOMAIN of \cup {c.entity} /\ lists[c.entity] = more /\ \A e \in DOMAIN of \ {c.entity} : lists[e] = of[e]
      BY <2>2, <1>a9, <3>a1 DEF At1
    <3>5. ASSUME NEW e \in DOMAIN lists PROVE SaysEntity(after, e, lists[e])
      BY <3>3, <3>4, <1>1, <1>12 DEF SaysEntities
    <3>6. ASSUME NEW k \in DOMAIN after
          PROVE  after[k].entity \in DOMAIN lists /\ \E i \in DOMAIN lists[after[k].entity] : lists[after[k].entity][i] = k
      <4>1. CASE k = id
        <5>1. Len(now) + 1 \in DOMAIN more /\ more[Len(now) + 1] = k
          BY <4>1, <3>2
        <5> QED
          BY <5>1, <4>1, <3>4, <1>13
      <4>2. CASE k # id
        <5>1. k \in DOMAIN claims
          BY <4>2, <1>4
        <5>2. PICK e : e = claims[k].entity /\ e = after[k].entity
          BY <5>1, <1>11
        <5>3. e \in DOMAIN of /\ \E i \in DOMAIN of[e] : of[e][i] = k
          BY <5>1, <5>2, <1>1 DEF SaysEntities
        <5>4. CASE e = c.entity
          <6>1. now = of[e]
            BY <5>3, <5>4, <1>a5 DEF Of
          <6>2. PICK i \in DOMAIN now : now[i] = k
            BY <5>3, <6>1
          <6>3. i \in DOMAIN more /\ more[i] = k
            BY <6>2, <3>2
          <6> QED
            BY <6>3, <5>2, <5>4, <3>4
        <5>5. CASE e # c.entity
          BY <5>2, <5>3, <5>5, <3>4
        <5> QED
          BY <5>4, <5>5
      <4> QED
        BY <4>1, <4>2
    <3> QED
      BY <3>5, <3>6 DEF SaysEntities
  <2> QED
    BY <2>1, <2>2
<1> QED
  BY <1>3, <1>10, <1>14 DEF Projects

(* An evidence entry: its claim is known by then and lists it last.        *)
LEMMA EvidenceProjects ==
  ASSUME NEW l, IsTuple(l), ClaimsOrdered(l), OneEntryPerEvidence(l), NEW n \in Nat, n < Len(l),
         l[n + 1].kind = "evidence",
         NEW p, Projects(l, n, p), NEW q, q = ApplyEvidenceFact(p, l[n + 1])
  PROVE  Projects(l, n + 1, q)
<1>a1. PICK e : e = l[n + 1].evidence
  OBVIOUS
<1>a2. PICK id : id = e.claim
  OBVIOUS
<1>a3. PICK claims : claims = p.claims
  OBVIOUS
<1>a4. PICK of : of = p.entity_claims
  OBVIOUS
<1>a5. PICK old : old = claims[id]
  OBVIOUS
<1>a6. PICK ids : ids = old.evidence_ids
  OBVIOUS
<1>a7. PICK more : more = Append(ids, e.id)
  OBVIOUS
<1>a8. PICK view : view = [entity |-> old.entity, publishability |-> old.publishability, evidence_ids |-> more]
  OBVIOUS
<1>a9. PICK after : after = At1(claims, id, view)
  OBVIOUS
<1>0. DOMAIN l = 1..Len(l) /\ Len(l) \in Nat /\ n + 1 \in DOMAIN l
  BY TupleType
<1>1. SaysClaims(l, n, claims) /\ SaysEntities(claims, of)
  BY <1>a3, <1>a4 DEF Projects
<1>2. id \in DOMAIN claims
  <2>1. PICK k \in DOMAIN l : k < n + 1 /\ l[k].kind = "claim" /\ l[k].claim.id = id
    BY <1>0, <1>a1, <1>a2 DEF ClaimsOrdered
  <2>2. k \in 1..n
    BY <2>1, <1>0
  <2>3. id \in ClaimsUpTo(l, n)
    BY <2>1, <2>2 DEF ClaimsUpTo
  <2> QED
    BY <2>3, <1>1 DEF SaysClaims
<1>3. SaysLast(l, n, id, old) /\ SaysEvidence(l, n, id, ids)
  BY <1>1, <1>2, <1>a5, <1>a6 DEF SaysClaims
<1>4. ASSUME NEW i \in 1..n, l[i].kind = "evidence" PROVE l[i].evidence.id # e.id
  <2>1. i \in DOMAIN l /\ i # n + 1
    BY <1>0
  <2> QED
    BY <2>1, <1>0, <1>4, <1>a1 DEF OneEntryPerEvidence
<1>5. ~\E i \in DOMAIN ids : ids[i] = e.id
  <2>1. e.id \notin EvidenceUpTo(l, n, id)
    BY <1>4 DEF EvidenceUpTo
  <2> QED
    BY <2>1, <1>3 DEF SaysEvidence
<1>6. q.claims = after /\ q.entity_claims = of
  BY <1>5, <1>a1, <1>a2, <1>a3, <1>a4, <1>a5, <1>a6, <1>a7, <1>a8, <1>a9 DEF ApplyEvidenceFact
<1>7. DOMAIN after = DOMAIN claims /\ after[id] = view /\ \A k \in DOMAIN claims \ {id} : after[k] = claims[k]
  BY <1>2, <1>a9 DEF At1
<1>8. view.entity = old.entity /\ view.publishability = old.publishability /\ view.evidence_ids = more
  BY <1>a8
<1>9. \A k \in DOMAIN claims : after[k].entity = claims[k].entity
  BY <1>7, <1>8, <1>a5
<1>10. SaysEntities(after, of)
  BY <1>1, <1>7, <1>9 DEF SaysEntities, SaysEntity
<1>11. DOMAIN after = ClaimsUpTo(l, n + 1)
  BY <1>1, <1>7, NoClaimAdded DEF SaysClaims
<1>12. SaysEvidence(l, n + 1, id, more)
  <2>1. /\ IsTuple(ids) /\ IsTuple(more) /\ Len(ids) \in Nat /\ Len(more) = Len(ids) + 1
        /\ DOMAIN ids = 1..Len(ids) /\ DOMAIN more = 1..(Len(ids) + 1)
        /\ more[Len(ids) + 1] = e.id /\ \A i \in 1..Len(ids) : more[i] = ids[i]
    BY <1>3, <1>a7, TupleAppend, TupleType DEF SaysEvidence
  <2>2. {ids[i] : i \in DOMAIN ids} = EvidenceUpTo(l, n, id) /\ InOrder(l, ids)
    BY <1>3 DEF SaysEvidence
  <2>3. {more[i] : i \in DOMAIN more} = EvidenceUpTo(l, n + 1, id)
    <3>1. {more[i] : i \in DOMAIN more} = {ids[i] : i \in DOMAIN ids} \cup {e.id}
      BY <2>1
    <3>2. EvidenceUpTo(l, n + 1, id) = EvidenceUpTo(l, n, id) \cup {e.id}
      BY <1>a1, <1>a2, EvidenceAddedUpTo
    <3> QED
      BY <3>1, <3>2, <2>2
  <2>4. ASSUME NEW i \in DOMAIN more, NEW k \in DOMAIN more, i < k,
               NEW a \in EvidenceWithId(l, more[i]), NEW b \in EvidenceWithId(l, more[k])
        PROVE  a < b
    <3>1. i \in 1..Len(ids) /\ more[i] = ids[i]
      BY <2>1, <2>4
    <3>2. CASE k = Len(ids) + 1
      <4>1. b \in DOMAIN l /\ l[b].kind = "evidence" /\ l[b].evidence.id = e.id
        BY <3>2, <2>1 DEF EvidenceWithId
      <4>2. b = n + 1
        BY <4>1, <1>0, <1>a1 DEF OneEntryPerEvidence
      <4>3. ids[i] \in EvidenceUpTo(l, n, id)
        BY <3>1, <2>1, <2>2
      <4>4. PICK j \in 1..n : l[j].kind = "evidence" /\ l[j].evidence.id = ids[i]
        BY <4>3 DEF EvidenceUpTo
      <4>5. a \in DOMAIN l /\ l[a].kind = "evidence" /\ l[a].evidence.id = ids[i]
        BY <3>1 DEF EvidenceWithId
      <4>6. j \in DOMAIN l
        BY <1>0
      <4>7. a = j
        BY <4>4, <4>5, <4>6 DEF OneEntryPerEvidence
      <4> QED
        BY <4>2, <4>7
    <3>3. CASE k # Len(ids) + 1
      <4>1. k \in DOMAIN ids /\ i \in DOMAIN ids /\ more[k] = ids[k]
        BY <3>1, <3>3, <2>1
      <4> QED
        BY <4>1, <3>1, <2>2, <2>4 DEF InOrder
    <3> QED
      BY <3>2, <3>3
  <2> QED
    BY <2>1, <2>3, <2>4 DEF SaysEvidence, InOrder
<1>13. SaysLast(l, n + 1, id, view)
  BY <1>3, <1>8, LastStays
<1>14. ASSUME NEW k \in DOMAIN claims \ {id}
       PROVE  SaysLast(l, n + 1, k, claims[k]) /\ SaysEvidence(l, n + 1, k, claims[k].evidence_ids)
  <2>1. SaysLast(l, n, k, claims[k]) /\ SaysEvidence(l, n, k, claims[k].evidence_ids)
    BY <1>1 DEF SaysClaims
  <2>2. SaysLast(l, n + 1, k, claims[k])
    BY <2>1, LastStays
  <2>3. EvidenceUpTo(l, n + 1, k) = EvidenceUpTo(l, n, k)
    BY <1>a1, <1>a2, NoEvidenceAdded
  <2> QED
    BY <2>1, <2>2, <2>3 DEF SaysEvidence
<1>15. SaysClaims(l, n + 1, after)
  BY <1>7, <1>8, <1>11, <1>12, <1>13, <1>14 DEF SaysClaims
<1> QED
  BY <1>6, <1>10, <1>15 DEF Projects

(* The fold over a ledger projects it, prefix by prefix.                   *)
FoldOf(t, l, f) ==
  f = [n \in 0..Len(l) |-> IF n = 0 THEN EmptyProjection ELSE ApplyFact(t, f[n - 1], l[n])]

LEMMA NothingProjects == ASSUME NEW l PROVE Projects(l, 0, EmptyProjection)
<1>1. EmptyProjection.claims = <<>> /\ EmptyProjection.entity_claims = <<>>
  BY DEF EmptyProjection
<1>2. ClaimsUpTo(l, 0) = {}
  BY DEF ClaimsUpTo
<1> QED
  BY <1>1, <1>2, EmptyTuple DEF Projects, SaysClaims, SaysEntities

(* Each fact of build_qeeg_projection, applied in turn, keeps that.        *)
LEMMA FoldProjects ==
  ASSUME NEW t, NEW l, EntriesOK(t, l), ClaimsOrdered(l), NEW f, FoldOf(t, l, f)
  PROVE  Projects(l, Len(l), f[Len(l)])
<1>0. IsTuple(l) /\ DOMAIN l = 1..Len(l) /\ Len(l) \in Nat /\ OneEntryPerEvidence(l)
  BY TupleType DEF EntriesOK
<1>1. PICK T : T = {n \in 0..Len(l) : ~Projects(l, n, f[n])}
  OBVIOUS
<1>2. SUFFICES ASSUME T # {} PROVE FALSE
  BY <1>0, <1>1
<1>3. T \subseteq Nat
  BY <1>0, <1>1
<1>4. PICK n \in T : \A y \in T : n <= y
  BY <1>2, <1>3, LeastNumber
<1>5. n \in 0..Len(l) /\ n \in Nat /\ ~Projects(l, n, f[n])
  BY <1>1, <1>3
<1>6. f[n] = IF n = 0 THEN EmptyProjection ELSE ApplyFact(t, f[n - 1], l[n])
  BY <1>5 DEF FoldOf
<1>7. CASE n = 0
  BY <1>5, <1>6, <1>7, NothingProjects
<1>8. CASE n # 0
  <2>1. n - 1 \in Nat /\ n - 1 < Len(l) /\ n - 1 \in 0..Len(l) /\ (n - 1) + 1 = n /\ n \in DOMAIN l /\ ~(n <= n - 1)
    BY <1>0, <1>5, <1>8
  <2>2. PICK k : k = n - 1
    OBVIOUS
  <2>3. Projects(l, k, f[k])
    BY <1>1, <1>4, <2>1, <2>2
  <2>4. l[n].tenant = t /\ l[n].kind \in {"claim", "evidence"}
    BY <2>1 DEF EntriesOK, LedgerEntryOK
  <2>5. CASE l[n].kind = "claim"
    <3>1. f[n] = ApplyClaimFact(f[k], l[k + 1])
      BY <2>1, <2>2, <2>4, <2>5, <1>6, <1>8 DEF ApplyFact
    <3>2. Projects(l, k + 1, f[n])
      BY <3>1, <2>1, <2>2, <2>3, <2>5, <1>0, ClaimProjects
    <3> QED
      BY <3>2, <2>1, <2>2, <1>5
  <2>6. CASE l[n].kind = "evidence"
    <3>1. f[n] = ApplyEvidenceFact(f[k], l[k + 1])
      BY <2>1, <2>2, <2>4, <2>6, <1>6, <1>8 DEF ApplyFact
    <3>2. Projects(l, k + 1, f[n])
      BY <3>1, <2>1, <2>2, <2>3, <2>6, <1>0, EvidenceProjects
    <3> QED
      BY <3>2, <2>1, <2>2, <1>5
  <2> QED
    BY <2>4, <2>5, <2>6
<1> QED
  BY <1>7, <1>8

(* There is such a function: the fold is defined.                          *)
Fold(t, l, f, n) == IF n = 0 THEN EmptyProjection ELSE ApplyFact(t, f[n - 1], l[n])
LEMMA FoldExists ==
  ASSUME NEW t, NEW l, NEW n \in Nat
  PROVE  \E f : f = [i \in 0..n |-> Fold(t, l, f, i)]
<1> DEFINE P(m) == \E f : f = [i \in 0..m |-> Fold(t, l, f, i)]
           T == {m \in Nat : ~P(m)}
<1> SUFFICES ASSUME T # {} PROVE FALSE
  OBVIOUS
<1>1. PICK m \in T : \A y \in T : m <= y
  BY LeastNumber
<1>2. m # 0
  <2> DEFINE g == [i \in 0..0 |-> EmptyProjection]
  <2>1. \A i \in 0..0 : Fold(t, l, g, i) = EmptyProjection
    BY DEF Fold
  <2>2. g = [i \in 0..0 |-> Fold(t, l, g, i)]
    BY <2>1
  <2>3. P(0)
    BY <2>2
  <2> QED
    BY <2>3
<1>3. m - 1 \in Nat /\ m - 1 \notin T
  BY <1>1, <1>2
<1>4. PICK f : f = [i \in 0..(m - 1) |-> Fold(t, l, f, i)]
  BY <1>3
<1> DEFINE g == [i \in 0..m |-> IF i = m THEN Fold(t, l, f, i) ELSE f[i]]
<1>5. ASSUME NEW i \in 0..m PROVE g[i] = Fold(t, l, g, i)
  <2>1. i # 0 => i - 1 \in 0..(m - 1) /\ g[i - 1] = f[i - 1]
    BY <1>3
  <2>2. Fold(t, l, g, i) = Fold(t, l, f, i)
    <3> HIDE DEF g
    <3> QED BY <2>1 DEF Fold
  <2>3. i # m => f[i] = Fold(t, l, f, i)
    <3>1. i # m => i \in 0..(m - 1)
      BY <1>3
    <3> QED BY <3>1, <1>4
  <2> QED BY <2>2, <2>3
<1>6. DOMAIN g = 0..m /\ g = [i \in 0..m |-> g[i]]
  OBVIOUS
<1>7. g = [i \in 0..m |-> Fold(t, l, g, i)]
  <2> HIDE DEF g
  <2> QED BY <1>5, <1>6
<1>8. P(m)
  BY <1>7
<1> QED BY <1>8

(* build_qeeg_projection projects the whole ledger.                        *)
LEMMA LedgerProjects ==
  ASSUME NEW t, NEW l, EntriesOK(t, l), ClaimsOrdered(l)
  PROVE  Projects(l, Len(l), ProjectionOf(t, l))
<1> DEFINE D(f) == f = [n \in 0..Len(l) |-> IF n = 0 THEN EmptyProjection ELSE ApplyFact(t, f[n - 1], l[n])]
           state == CHOOSE f : D(f)
<1>1. Len(l) \in Nat
  BY TupleType DEF EntriesOK
<1>2. \E f : D(f)
  <2>1. PICK f : f = [n \in 0..Len(l) |-> Fold(t, l, f, n)]
    BY <1>1, FoldExists
  <2>2. D(f)
    BY <2>1, Zenon DEF Fold
  <2> QED BY <2>2
<1>3. D(state)
  <2> HIDE DEF D
  <2> QED BY <1>2
<1>4. ProjectionOf(t, l) = state[Len(l)]
  BY DEF ProjectionOf
<1> HIDE DEF state
<1>5. Projects(l, Len(l), state[Len(l)])
  BY <1>3, FoldProjects DEF FoldOf
<1> QED BY <1>4, <1>5

(* A claim has its one place under its entity.                             *)
LEMMA OnePlace ==
  ASSUME NEW claims, NEW of, SaysEntities(claims, of), NEW id \in DOMAIN claims, NEW entity \in DOMAIN of
  PROVE  Cardinality({i \in DOMAIN of[entity] : of[entity][i] = id}) = IF entity = claims[id].entity THEN 1 ELSE 0
<1>1. PICK S : S = {i \in DOMAIN of[entity] : of[entity][i] = id}
  OBVIOUS
<1>2. SaysEntity(claims, entity, of[entity])
  BY DEF SaysEntities
<1>3. CASE entity = claims[id].entity
  <2>1. PICK i \in DOMAIN of[entity] : of[entity][i] = id
    BY <1>3 DEF SaysEntities
  <2>2. S = {i}
    BY <2>1, <1>1, <1>2 DEF SaysEntity
  <2>3. Cardinality(S) = 1
    BY <2>2, FS_Singleton
  <2> QED BY <2>3, <1>1, <1>3
<1>4. CASE entity # claims[id].entity
  <2>1. S = {}
    BY <1>1, <1>2, <1>4 DEF SaysEntity
  <2>2. Cardinality(S) = 0
    BY <2>1, FS_EmptySet
  <2> QED BY <2>2, <1>1, <1>4
<1> QED BY <1>3, <1>4

(* What was said last of a claim is its latest entry.                      *)
LEMMA LatestIsSaid ==
  ASSUME NEW l, IsTuple(l), NEW id, NEW view, SaysLast(l, Len(l), id, view)
  PROVE  /\ view.publishability = LatestClaim(l, id).publishability
         /\ view.entity = LatestClaim(l, id).claim.entity
<1>0. DOMAIN l = 1..Len(l) /\ Len(l) \in Nat
  BY TupleType
<1>1. PICK i \in 1..Len(l) : /\ l[i].kind = "claim" /\ l[i].claim.id = id
                             /\ \A k \in 1..Len(l) : l[k].kind = "claim" /\ l[k].claim.id = id => k <= i
                             /\ view.publishability = l[i].publishability /\ view.entity = l[i].claim.entity
  BY DEF SaysLast
<1>2. i \in EntriesOfClaim(l, id) /\ \A k \in EntriesOfClaim(l, id) : k <= i
  BY <1>0, <1>1 DEF EntriesOfClaim
<1>3. PICK j \in EntriesOfClaim(l, id) : (\A k \in EntriesOfClaim(l, id) : k <= j) /\ LatestClaim(l, id) = l[j]
  BY <1>2, LatestIsLast
<1>4. i \in Nat /\ j \in Nat
  BY <1>0, <1>3 DEF EntriesOfClaim
<1>5. i <= j /\ j <= i
  BY <1>2, <1>3
<1>6. i = j
  BY <1>4, <1>5
<1> QED BY <1>1, <1>3, <1>6

(* A ledger whose records are well-formed and in order is projected as     *)
(* ProjectionAgrees says.                                                  *)
Agrees(p, l, links, times) ==
  /\ DOMAIN p.claims = DOMAIN times
  /\ DOMAIN p.claims = {l[i].claim.id : i \in {k \in DOMAIN l : l[k].kind = "claim"}}
  /\ \A id \in DOMAIN p.claims :
       /\ p.claims[id].publishability = LatestClaim(l, id).publishability
       /\ p.claims[id].entity = LatestClaim(l, id).claim.entity
       /\ ListsEvidence(l, id, p.claims[id].evidence_ids) /\ ListsClaim(p, id)
  /\ DOMAIN links = {l[i].evidence.id : i \in {k \in DOMAIN l : l[k].kind = "evidence"}}

LEMMA TenantAgrees ==
  ASSUME NEW t, NEW l, NEW links, NEW times, TenantOK(t, l, links, times), ClaimsOrdered(l),
         NEW p, p = ProjectionOf(t, l)
  PROVE  Agrees(p, l, links, times)
<1>0. DOMAIN l = 1..Len(l) /\ Len(l) \in Nat /\ IsTuple(l) /\ EntriesOK(t, l)
  BY TupleType DEF TenantOK, EntriesOK
<1>1. Projects(l, Len(l), p)
  BY <1>0, LedgerProjects
<1>2. SaysClaims(l, Len(l), p.claims) /\ SaysEntities(p.claims, p.entity_claims)
  BY <1>1 DEF Projects
<1>3. DOMAIN p.claims = {l[i].claim.id : i \in {k \in DOMAIN l : l[k].kind = "claim"}}
  BY <1>0, <1>2 DEF SaysClaims, ClaimsUpTo
<1>4. /\ DOMAIN times = {l[i].claim.id : i \in {k \in DOMAIN l : l[k].kind = "claim"}}
      /\ DOMAIN links = {l[i].evidence.id : i \in {k \in DOMAIN l : l[k].kind = "evidence"}}
  BY DEF TenantOK, TimesOK, LinksOK
<1>5. ASSUME NEW id \in DOMAIN p.claims
      PROVE  /\ p.claims[id].publishability = LatestClaim(l, id).publishability
             /\ p.claims[id].entity = LatestClaim(l, id).claim.entity
             /\ ListsEvidence(l, id, p.claims[id].evidence_ids) /\ ListsClaim(p, id)
  <2>1. SaysLast(l, Len(l), id, p.claims[id]) /\ SaysEvidence(l, Len(l), id, p.claims[id].evidence_ids)
    BY <1>2 DEF SaysClaims
  <2>2. /\ p.claims[id].publishability = LatestClaim(l, id).publishability
        /\ p.claims[id].entity = LatestClaim(l, id).claim.entity
    BY <2>1, <1>0, LatestIsSaid
  <2>3. PICK ids : ids = p.claims[id].evidence_ids
    OBVIOUS
  <2>4. Range(ids) = {ids[i] : i \in DOMAIN ids}
    BY DEF Range
  <2>5. {e.id : e \in AllEvidenceForClaim(l, id)} = EvidenceUpTo(l, Len(l), id)
    BY <1>0 DEF AllEvidenceForClaim, EvidenceUpTo
  <2>6. ListsEvidence(l, id, ids)
    <3>1. {ids[i] : i \in DOMAIN ids} = EvidenceUpTo(l, Len(l), id) /\ InOrder(l, ids)
      BY <2>1, <2>3 DEF SaysEvidence
    <3>2. Range(ids) = {e.id : e \in AllEvidenceForClaim(l, id)}
      BY <3>1, <2>4, <2>5
    <3>3. \A i, k \in DOMAIN ids :
            i < k => \A a \in EvidenceWithId(l, ids[i]), b \in EvidenceWithId(l, ids[k]) : a < b
      BY <3>1 DEF InOrder
    <3> QED BY <3>2, <3>3, Zenon DEF ListsEvidence
  <2>7. ListsClaim(p, id)
    <3>1. p.claims[id].entity \in DOMAIN p.entity_claims
      BY <1>2 DEF SaysEntities
    <3> QED BY <3>1, <1>2, OnePlace DEF ListsClaim
  <2> QED BY <2>2, <2>3, <2>6, <2>7
<1> QED BY <1>3, <1>4, <1>5 DEF Agrees

(* The order of the records is kept by what the operations append.         *)
LEMMA OrderedClaim ==
  ASSUME NEW l, IsTuple(l), ClaimsOrdered(l), NEW x, x.kind = "claim",
         \A i \in DOMAIN l : l[i].kind = "claim" /\ l[i].claim.id = x.claim.id => l[i].claim = x.claim,
         NEW m, m = Append(l, x)
  PROVE  ClaimsOrdered(m)
<1>0. EndedBy(l, x, m)
  BY Grown
<1>1. /\ IsTuple(m) /\ Len(m) = Len(l) + 1 /\ DOMAIN m = DOMAIN l \cup {Len(l) + 1}
      /\ Len(l) + 1 \notin DOMAIN l /\ m[Len(l) + 1] = x /\ \A i \in DOMAIN l : m[i] = l[i]
  BY <1>0 DEF EndedBy
<1> QED BY <1>1 DEF ClaimsOrdered

LEMMA OrderedEvidence ==
  ASSUME NEW l, IsTuple(l), ClaimsOrdered(l), NEW x, x.kind = "evidence", EntriesOfClaim(l, x.evidence.claim) # {},
         NEW m, m = Append(l, x)
  PROVE  ClaimsOrdered(m)
<1>0. EndedBy(l, x, m)
  BY Grown
<1>1. /\ IsTuple(m) /\ Len(m) = Len(l) + 1 /\ DOMAIN m = DOMAIN l \cup {Len(l) + 1}
      /\ Len(l) + 1 \notin DOMAIN l /\ m[Len(l) + 1] = x /\ \A i \in DOMAIN l : m[i] = l[i]
  BY <1>0 DEF EndedBy
<1>2. DOMAIN l = 1..Len(l) /\ Len(l) \in Nat
  BY TupleType
<1>3. PICK k \in DOMAIN l : l[k].kind = "claim" /\ l[k].claim.id = x.evidence.claim
  BY DEF EntriesOfClaim
<1>4. k < Len(l) + 1
  BY <1>2
<1> QED BY <1>1, <1>3, <1>4 DEF ClaimsOrdered

LEMMA OrderedReevaluate ==
  ASSUME NEW l, IsTuple(l), ClaimsOrdered(l), NEW id, EntriesOfClaim(l, id) # {}, NEW links, NEW now
  PROVE  ClaimsOrdered(Reevaluate(l, id, links, now))
<1>1. PICK c : c = LatestClaim(l, id).claim
  OBVIOUS
<1>2. PICK p : p = EvaluateClaimPublishability(AllEvidenceForClaim(l, id), links, now)
  OBVIOUS
<1>3. Reevaluate(l, id, links, now) = IF LatestClaim(l, id).publishability = p THEN l ELSE Append(l, ClaimEntry(l, c, p))
  BY <1>1, <1>2 DEF Reevaluate
<1>4. PICK j \in EntriesOfClaim(l, id) : LatestClaim(l, id) = l[j]
  BY LatestIsLast
<1>5. j \in DOMAIN l /\ l[j].kind = "claim" /\ l[j].claim.id = id /\ c = l[j].claim
  BY <1>1, <1>4 DEF EntriesOfClaim
<1>6. ClaimEntry(l, c, p).kind = "claim" /\ ClaimEntry(l, c, p).claim = c
  BY DEF ClaimEntry
<1>7. \A i \in DOMAIN l : l[i].kind = "claim" /\ l[i].claim.id = c.id => l[i].claim = c
  BY <1>5 DEF ClaimsOrdered
<1>8. ClaimsOrdered(Append(l, ClaimEntry(l, c, p)))
  <2>1. PICK x : x = ClaimEntry(l, c, p)
    OBVIOUS
  <2> QED BY <2>1, <1>6, <1>7, OrderedClaim
<1> QED BY <1>3, <1>8

(* What is invariant beside LedgerInv: every ledger is in that order.      *)
OrderInv == \A t \in LedgerTenants : ClaimsOrdered(ledger[t])

(* One tenant's ledger is replaced by an ordered one, or none is.          *)
LEMMA OrderKept ==
  ASSUME LedgerInv, OrderInv, NEW t \in LedgerTenants, NEW m, ClaimsOrdered(m),
         ledger' = [ledger EXCEPT ![t] = m]
  PROVE  OrderInv'
<1>1. ASSUME NEW u \in LedgerTenants PROVE ClaimsOrdered(ledger'[u])
  <2>1. DOMAIN ledger = LedgerTenants
    BY DEF LedgerInv
  <2>2. ledger'[u] = IF u = t THEN m ELSE ledger[u]
    BY <2>1
  <2> QED BY <2>2 DEF OrderInv
<1> QED BY <1>1 DEF OrderInv

LEMMA OrderUnchanged == ASSUME OrderInv, UNCHANGED ledger PROVE OrderInv'
BY DEF OrderInv

(* append_claim adds a claim only under an id that has none.               *)
LEMMA ClaimOrderStep ==
  ASSUME LedgerInv, OrderInv, NEW t \in LedgerTenants, NEW c, AppendClaim(t, c) PROVE OrderInv'
<1>a1. PICK l : l = ledger[t]
  OBVIOUS
<1>a2. PICK x : x = ClaimEntry(l, c, EvaluateClaimPublishability({}, <<>>, 0))
  OBVIOUS
<1>1. UNCHANGED ledger \/ (EntriesOfClaim(l, c.id) = {} /\ ledger' = [ledger EXCEPT ![t] = Append(l, x)])
  BY <1>a1, <1>a2 DEF AppendClaim, Refused
<1>2. CASE EntriesOfClaim(l, c.id) = {} /\ ledger' = [ledger EXCEPT ![t] = Append(l, x)]
  <2>1. IsTuple(l) /\ ClaimsOrdered(l)
    BY <1>a1 DEF LedgerInv, TenantOK, EntriesOK, OrderInv
  <2>2. x.kind = "claim" /\ x.claim = c
    BY <1>a2 DEF ClaimEntry
  <2>3. \A i \in DOMAIN l : ~(l[i].kind = "claim" /\ l[i].claim.id = x.claim.id)
    BY <1>2, <2>2 DEF EntriesOfClaim
  <2>4. ClaimsOrdered(Append(l, x))
    BY <2>1, <2>2, <2>3, OrderedClaim
  <2> QED BY <2>4, <1>2, OrderKept
<1> QED BY <1>1, <1>2, OrderUnchanged

(* append_evidence adds evidence, then at most a version of its claim.     *)
LEMMA EvidenceOrderStep ==
  ASSUME LedgerInv, OrderInv, NEW t \in LedgerTenants, NEW e, AppendEvidence(t, e) PROVE OrderInv'
<1>a1. PICK l : l = ledger[t]
  OBVIOUS
<1>a2. PICK x : x = EvidenceEntry(l, e)
  OBVIOUS
<1>a3. PICK between : between = Append(l, x)
  OBVIOUS
<1>a4. PICK links : links = SetDefault(link_statuses[t], e.id, "linked")
  OBVIOUS
<1>a5. PICK m : m = Reevaluate(between, e.claim, links, ledger_clock)
  OBVIOUS
<1>1. UNCHANGED ledger \/ (EntriesOfClaim(l, e.claim) # {} /\ ledger' = [ledger EXCEPT ![t] = m])
  BY <1>a1, <1>a2, <1>a3, <1>a4, <1>a5 DEF AppendEvidence, Refused
<1>2. CASE EntriesOfClaim(l, e.claim) # {} /\ ledger' = [ledger EXCEPT ![t] = m]
  <2>1. IsTuple(l) /\ ClaimsOrdered(l)
    BY <1>a1 DEF LedgerInv, TenantOK, EntriesOK, OrderInv
  <2>2. x.kind = "evidence" /\ x.evidence = e
    BY <1>a2 DEF EvidenceEntry
  <2>3. ClaimsOrdered(between)
    BY <2>1, <2>2, <1>2, <1>a3, OrderedEvidence
  <2>4. EndedBy(l, x, between) /\ ClaimsGrow(l, x, between, e.claim)
    BY <2>1, <1>a3, Grown
  <2>5. IsTuple(between) /\ EntriesOfClaim(between, e.claim) # {}
    BY <2>4, <1>2 DEF EndedBy, ClaimsGrow
  <2>6. ClaimsOrdered(m)
    BY <2>3, <2>5, <1>a5, OrderedReevaluate
  <2> QED BY <2>6, <1>2, OrderKept
<1> QED BY <1>1, <1>2, OrderUnchanged

(* set_evidence_link_status: at most a version of the evidence's claim.    *)
LEMMA LinkOrderStep ==
  ASSUME LedgerInv, OrderInv, NEW t \in LedgerTenants, NEW id, NEW status, SetEvidenceLinkStatus(t, id, status)
  PROVE  OrderInv'
<1>a1. PICK l : l = ledger[t]
  OBVIOUS
<1>a2. PICK owner : owner = l[CHOOSE i \in EvidenceWithId(l, id) : TRUE].evidence.claim
  OBVIOUS
<1>a3. PICK links : links = At1(link_statuses[t], id, status)
  OBVIOUS
<1>a4. PICK m : m = Reevaluate(l, owner, links, ledger_clock)
  OBVIOUS
<1>1. UNCHANGED ledger \/ (EvidenceWithId(l, id) # {} /\ ledger' = [ledger EXCEPT ![t] = m])
  BY <1>a1, <1>a2, <1>a3, <1>a4 DEF SetEvidenceLinkStatus, Refused
<1>2. CASE EvidenceWithId(l, id) # {} /\ ledger' = [ledger EXCEPT ![t] = m]
  <2>1. IsTuple(l) /\ ClaimsOrdered(l) /\ EvidenceHasClaim(l)
    BY <1>a1 DEF LedgerInv, TenantOK, EntriesOK, OrderInv
  <2>2. PICK j \in EvidenceWithId(l, id) : owner = l[j].evidence.claim
    BY <1>2, <1>a2
  <2>3. EntriesOfClaim(l, owner) # {}
    BY <2>1, <2>2 DEF EvidenceWithId, EvidenceHasClaim
  <2>4. ClaimsOrdered(m)
    BY <2>1, <2>3, <1>a4, OrderedReevaluate
  <2> QED BY <2>4, <1>2, OrderKept
<1> QED BY <1>1, <1>2, OrderUnchanged

LEMMA OrderInit == LedgerInit => OrderInv
<1> SUFFICES ASSUME LedgerInit PROVE OrderInv
  OBVIOUS
<1>1. \A t \in LedgerTenants : ledger[t] = <<>>
  BY DEF LedgerInit
<1>2. ClaimsOrdered(<<>>)
  BY EmptyTuple DEF ClaimsOrdered
<1> QED BY <1>1, <1>2 DEF OrderInv

LEMMA OrderStep == LedgerInv /\ OrderInv /\ [LedgerNext]_ledgerVars => OrderInv'
<1> SUFFICES ASSUME LedgerInv, OrderInv, [LedgerNext]_ledgerVars PROVE OrderInv'
  OBVIOUS
<1>1. CASE LedgerTick \/ UNCHANGED ledgerVars
  BY <1>1, OrderUnchanged DEF LedgerTick, ledgerVars
<1>2. ASSUME NEW t \in LedgerTenants, NEW c \in ClaimRecords, AppendClaim(t, c) PROVE OrderInv'
  BY <1>2, ClaimOrderStep
<1>3. ASSUME NEW t \in LedgerTenants, NEW e \in EvidenceRecords, AppendEvidence(t, e) PROVE OrderInv'
  BY <1>3, EvidenceOrderStep
<1>4. ASSUME NEW t \in LedgerTenants, NEW e \in EvidenceRecords, NEW status \in {"linked", "blocked"},
             SetEvidenceLinkStatus(t, e.id, status)
      PROVE  OrderInv'
  BY <1>4, LinkOrderStep
<1> QED BY <1>1, <1>2, <1>3, <1>4 DEF LedgerNext

(* In such a ledger the projection agrees.                                 *)
LEMMA OrderImplies == LedgerInv /\ OrderInv => ProjectionAgrees
<1> SUFFICES ASSUME LedgerInv, OrderInv, NEW t \in LedgerTenants, NEW p, p = BuildQeegProjection(t)
             PROVE  /\ DOMAIN p.claims = DOMAIN evaluated_at[t] /\ SummarizeLedger(t)[1] = Cardinality(DOMAIN p.claims)
                    /\ \A id \in DOMAIN p.claims :
                         /\ p.claims[id].publishability = GetClaimPublishability(t, id)
                         /\ p.claims[id].entity = LatestClaim(ledger[t], id).claim.entity
                         /\ ListsEvidence(ledger[t], id, p.claims[id].evidence_ids) /\ ListsClaim(p, id)
                    /\ Cardinality(DOMAIN link_statuses[t]) = SummarizeLedger(t)[2]
  BY Zenon DEF ProjectionAgrees
<1>a1. PICK l : l = ledger[t]
  OBVIOUS
<1>a2. PICK links : links = link_statuses[t]
  OBVIOUS
<1>a3. PICK times : times = evaluated_at[t]
  OBVIOUS
<1>1. TenantOK(t, l, links, times) /\ ClaimsOrdered(l)
  BY <1>a1, <1>a2, <1>a3 DEF LedgerInv, OrderInv
<1>2. p = ProjectionOf(t, l)
  BY <1>a1 DEF BuildQeegProjection
<1>3. Agrees(p, l, links, times)
  BY <1>1, <1>2, TenantAgrees
<1>4. /\ SummarizeLedger(t)[1] = Cardinality({l[i].claim.id : i \in {k \in DOMAIN l : l[k].kind = "claim"}})
      /\ SummarizeLedger(t)[2] = Cardinality({l[i].evidence.id : i \in {k \in DOMAIN l : l[k].kind = "evidence"}})
  BY <1>a1 DEF SummarizeLedger
<1>5. /\ DOMAIN p.claims = DOMAIN times
      /\ DOMAIN p.claims = {l[i].claim.id : i \in {k \in DOMAIN l : l[k].kind = "claim"}}
      /\ DOMAIN links = {l[i].evidence.id : i \in {k \in DOMAIN l : l[k].kind = "evidence"}}
  BY <1>3 DEF Agrees
<1>6. ASSUME NEW id \in DOMAIN p.claims
      PROVE  /\ p.claims[id].publishability = GetClaimPublishability(t, id)
             /\ p.claims[id].entity = LatestClaim(ledger[t], id).claim.entity
             /\ ListsEvidence(ledger[t], id, p.claims[id].evidence_ids) /\ ListsClaim(p, id)
  BY <1>3, <1>a1 DEF Agrees, GetClaimPublishability
<1> QED BY <1>4, <1>5, <1>6, <1>a2, <1>a3

(* For any tenants, claims, evidence and order of calls: all that          *)
(* LedgerAlwaysHolds says, and the projection rebuilt from a ledger says   *)
(* of every claim what the ledger says last, with each piece of its        *)
(* evidence once, in order, and the claim once, under its own entity       *)
(* (build_qeeg_projection, apply_claim_fact, apply_evidence_fact).         *)
THEOREM ClaimsAreAlwaysCurrent == LedgerSpec => ClaimsAreCurrent
BY LedgerAlwaysHolds, LedgerInitOK, LedgerStep, OrderInit, OrderStep, OrderImplies, PTL DEF LedgerSpec, ClaimsAreCurrent

-----------------------------------------------------------------------------
(* The analytics store: the inductive invariant.                           *)

(* A stored row and the rows of a table, under a signing key and with or   *)
(* without tokens: clean, of their table, and duplicates only where the    *)
(* window of tokens has moved on.                                          *)
StoredFields == {"table", "tenant", "key", "id", "at", "fault", "query", "ref", "digest", "witness"}
StoredRowOK(t, r, key) ==
  /\ DOMAIN r = StoredFields /\ r.table = t /\ r.id \in Nat /\ r.at \in Int /\ r.fault = NoFault
  /\ t = "observations" => r.ref.mac = <<key, <<r.tenant, r.query>>>>
FarApart(rs, takes) ==
  \A i, j \in DOMAIN rs :
    i < j /\ BlockId(rs[i]) = BlockId(rs[j]) => takes /\ j - i > DedupWindow
TableRowsOK(t, rs, key, takes) ==
  IsTuple(rs) /\ (\A i \in DOMAIN rs : StoredRowOK(t, rs[i], key)) /\ FarApart(rs, takes)

(* The tokens a table knows are those of its last rows, as far as the      *)
(* window goes, and no others.                                             *)
TokensOK(rs, known, takes) ==
  /\ IsTuple(known) /\ Len(known) <= DedupWindow
  /\ takes => \A j \in DOMAIN rs : Len(rs) - j < DedupWindow =>
       /\ Len(rs) - j < Len(known)
       /\ known[Len(known) - (Len(rs) - j)] = BlockId(rs[j])
  /\ \A i \in DOMAIN known : \E j \in DOMAIN rs : known[i] = BlockId(rs[j])

(* A writer w with its row r to append, in the state wr, while its table   *)
(* has the rows rs and nothing was dropped (kept): the row is clean once   *)
(* it is built; what a legacy writer has checked stays so; what was        *)
(* inserted is there to be read, and what was answered is true.            *)
AtWork == {"built", "checked", "inserted"}
OfRow(rs, r) == FilterKey(rs, ForTenant(rs, r.tenant), r.key)
AppendOK(r) == /\ r.table \in TABLE_NAMES /\ r.id \in Nat /\ r.at \in Int
               /\ r.tries \in 0..MaxTries /\ r.fault \in FaultsOf(r.table)
ToldIsTrue(w, n, won, r, rs, takes) ==
  /\ OfRow(rs, r) # {}
  /\ takes /\ won => \E i \in OfRow(rs, r) : rs[i].witness = <<w, n>>
WriterOK(w, r, wr, rs, takes, kept) ==
  /\ DOMAIN wr = {"at", "try", "told"} /\ wr.at \in WriterAt /\ wr.try \in 0..MaxTries
  /\ wr.told \subseteq (0..MaxTries) \X BOOLEAN
  /\ wr.at \in AtWork => r.fault = NoFault
  /\ wr.at = "checked" => ~takes /\ OfRow(rs, r) = {}
  /\ wr.at = "inserted" => takes /\ (kept => OfRow(rs, r) # {})
  /\ kept => \A n \in 0..MaxTries, won \in BOOLEAN : <<n, won>> \in wr.told => ToldIsTrue(w, n, won, r, rs, takes)

IdleWriter == [at |-> "idle", try |-> 0, told |-> {}]
NoDrop == \A k \in 1..migrated : plan[k] = "up"
WritersOK ==
  /\ DOMAIN writer = Writers
  /\ \A w \in Writers :
       IF append[w] = NoAppend THEN writer[w] = IdleWriter
       ELSE AppendOK(append[w]) /\ WriterOK(w, append[w], writer[w], rows[append[w].table], takes_token, NoDrop)
  /\ ~takes_token => \A v, w \in Writers : writer[v].at \in AtWork /\ writer[w].at \in AtWork => v = w
TablesOK ==
  /\ tables \subseteq TABLE_NAMES /\ DOMAIN rows = TABLE_NAMES /\ DOMAIN tokens = TABLE_NAMES
  /\ \A t \in TABLE_NAMES : /\ TableRowsOK(t, rows[t], signing_key, takes_token)
                            /\ TokensOK(rows[t], tokens[t], takes_token)
MigrationsOK ==
  /\ plan \in Seq({"up", "down"}) /\ migrated \in 0..Len(plan)
  /\ statements \in Seq({"create", "drop"} \X TABLE_NAMES)
  /\ NoDrop => \A i \in DOMAIN statements : statements[i][1] = "create"
AnalyticsInv == takes_token \in BOOLEAN /\ TablesOK /\ WritersOK /\ MigrationsOK

-----------------------------------------------------------------------------
(* Counting.                                                               *)

(* The first n elements of an ordered set: fewer than n are before them.   *)
FirstOf(S, R, n) == {x \in S : Cardinality(Before(S, R, x)) < n}

(* The first n of an ordered finite set are n, or all of them.             *)
LEMMA SizeOfFirst ==
  ASSUME NEW S, NEW R, IsFiniteSet(S), IsOrder(S, R), NEW n \in Nat
  PROVE  Cardinality(FirstOf(S, R, n)) = AtMost(Cardinality(S), n)
<1> DEFINE rank == [x \in S |-> Cardinality(Before(S, R, x))]
           m == AtMost(Cardinality(S), n)
           U == FirstOf(S, R, n)
           V == 0..(m - 1)
           cut == [x \in U |-> rank[x]]
<1>1. /\ Cardinality(S) \in Nat
      /\ rank \in [S -> 0..(Cardinality(S) - 1)]
      /\ \A x, y \in S : rank[x] = rank[y] => x = y
      /\ \A k \in 0..(Cardinality(S) - 1) : \E x \in S : rank[x] = k
  BY RanksAreDense
<1>2. U = {x \in S : rank[x] < n}
  BY DEF FirstOf
<1> HIDE DEF rank, U
<1>3. U \in SUBSET S /\ IsFiniteSet(U)
  <2>1. U \in SUBSET S
    BY <1>2
  <2> QED
    BY <2>1, FS_Subset
<1>4. m \in Nat /\ \A k \in 0..(Cardinality(S) - 1) : k \in V <=> k < n
  BY <1>1 DEF AtMost
<1>5. cut \in [U -> V]
  <2>1. \A x \in U : rank[x] \in V
    BY <1>1, <1>2, <1>4
  <2> QED
    BY <2>1
<1>6. \A x, y \in U : cut[x] = cut[y] => x = y
  BY <1>1, <1>3
<1>7. \A k \in V : \E x \in U : cut[x] = k
  <2> SUFFICES ASSUME NEW k \in V PROVE \E x \in U : cut[x] = k
    OBVIOUS
  <2>1. k \in 0..(Cardinality(S) - 1) /\ k < n
    BY <1>1, <1>4 DEF AtMost
  <2>2. PICK x \in S : rank[x] = k
    BY <1>1, <2>1
  <2>3. x \in U
    BY <1>2, <2>1, <2>2
  <2> QED
    BY <2>2, <2>3
<1>8. Cardinality(V) = Cardinality(U)
  <2> HIDE DEF cut, V
  <2> QED
    BY <1>3, <1>5, <1>6, <1>7, SameSize
<1>9. Cardinality(V) = m
  <2> HIDE DEF m
  <2> QED
    BY <1>4, FS_Interval
<1> QED
  BY <1>8, <1>9 DEF U

-----------------------------------------------------------------------------
(* The pages of reads.                                                     *)

(* Rows as readers find them.                                              *)
Readable(rs) ==
  IsTuple(rs) /\ \A i \in DOMAIN rs : "key" \in DOMAIN rs[i] /\ "id" \in DOMAIN rs[i] /\ rs[i].id \in Nat /\ rs[i].at \in Int

LEMMA IndicesAreFinite ==
  ASSUME NEW rs, Readable(rs), NEW is \in SUBSET (DOMAIN rs)
  PROVE  is \subseteq Nat /\ IsFiniteSet(is) /\ Cardinality(is) <= Len(rs)
<1>1. Len(rs) \in Nat /\ DOMAIN rs = 1..Len(rs)
  BY TupleType DEF Readable
<1>2. IsFiniteSet(1..Len(rs)) /\ Cardinality(1..Len(rs)) = Len(rs)
  BY <1>1, FS_Interval
<1> QED
  BY <1>1, <1>2, FS_Subset

(* Every key has one winner, and no row of the key has a smaller id.       *)
LEMMA OneWinner ==
  ASSUME NEW rs, Readable(rs), NEW is \in SUBSET (DOMAIN rs)
  PROVE  /\ Winners(rs, is) \in SUBSET is
         /\ \A i \in is : \E w \in Winners(rs, is) : rs[w].key = rs[i].key /\ rs[w].id <= rs[i].id
         /\ \A v, w \in Winners(rs, is) : rs[v].key = rs[w].key => v = w
<1>1. is \subseteq Nat /\ \A i \in is : rs[i].id \in Nat
  BY IndicesAreFinite DEF Readable
<1>2. \A v, w \in Winners(rs, is) : rs[v].key = rs[w].key => v = w
  <2> SUFFICES ASSUME NEW v \in Winners(rs, is), NEW w \in Winners(rs, is), rs[v].key = rs[w].key
               PROVE  v = w
    OBVIOUS
  <2>1. v \in is /\ w \in is /\ v \in FilterKey(rs, is, rs[w].key) /\ w \in FilterKey(rs, is, rs[v].key)
    BY DEF Winners, FilterKey
  <2>2. /\ rs[v].id < rs[w].id \/ (rs[v].id = rs[w].id /\ v <= w)
        /\ rs[w].id < rs[v].id \/ (rs[w].id = rs[v].id /\ w <= v)
    BY <2>1 DEF Winners
  <2> QED
    BY <1>1, <2>1, <2>2
<1>3. ASSUME NEW i \in is
      PROVE  \E w \in Winners(rs, is) : rs[w].key = rs[i].key /\ rs[w].id <= rs[i].id
  <2> DEFINE G == FilterKey(rs, is, rs[i].key)
             I == {rs[j].id : j \in G}
  <2>1. i \in G /\ G \subseteq is /\ I \subseteq Nat /\ I # {}
    BY <1>1 DEF FilterKey
  <2>2. PICK m \in I : \A y \in I : m <= y
    BY <2>1, LeastNumber
  <2> DEFINE H == {j \in G : rs[j].id = m}
  <2>3. H \subseteq Nat /\ H # {}
    BY <1>1, <2>1, <2>2
  <2>4. PICK w \in H : \A y \in H : w <= y
    BY <2>3, LeastNumber
  <2>5. w \in is /\ rs[w].key = rs[i].key /\ rs[w].id = m /\ m \in Nat
    BY <2>1, <2>2, <2>4 DEF FilterKey
  <2>6. \A j \in G : rs[w].id < rs[j].id \/ (rs[w].id = rs[j].id /\ w <= j)
    BY <1>1, <2>1, <2>2, <2>4, <2>5, SMTT(60)
  <2>7. w \in Winners(rs, is)
    BY <2>5, <2>6 DEF Winners
  <2>8. rs[w].id <= rs[i].id
    BY <2>1, <2>2, <2>5
  <2> QED
    BY <2>5, <2>7, <2>8
<1> QED
  BY <1>2, <1>3 DEF Winners

DisplayOrder(rs, is) == {p \in is \X is : InDisplayOrder(rs, p[1], p[2])}

LEMMA DisplayIsOrder ==
  ASSUME NEW rs, Readable(rs), NEW is \in SUBSET (DOMAIN rs)
  PROVE  IsOrder(is, DisplayOrder(rs, is))
<1>1. is \subseteq Nat /\ \A i \in is : rs[i].id \in Nat /\ rs[i].at \in Int
  BY IndicesAreFinite DEF Readable
<1>2. \A i, j \in is : <<i, j>> \in DisplayOrder(rs, is) <=> InDisplayOrder(rs, i, j)
  BY DEF DisplayOrder
<1>3. \A i \in is : ~InDisplayOrder(rs, i, i)
  BY <1>1 DEF InDisplayOrder
<1>4. \A i, j \in is : i = j \/ InDisplayOrder(rs, i, j) \/ InDisplayOrder(rs, j, i)
  BY <1>1 DEF InDisplayOrder
<1>5. \A i, j, k \in is : InDisplayOrder(rs, i, j) /\ InDisplayOrder(rs, j, k) => InDisplayOrder(rs, i, k)
  <2> SUFFICES ASSUME NEW i \in is, NEW j \in is, NEW k \in is,
                      InDisplayOrder(rs, i, j), InDisplayOrder(rs, j, k)
               PROVE  InDisplayOrder(rs, i, k)
    OBVIOUS
  <2>1. /\ i \in Nat /\ j \in Nat /\ k \in Nat /\ rs[i].id \in Nat /\ rs[j].id \in Nat /\ rs[k].id \in Nat
        /\ rs[i].at \in Int /\ rs[j].at \in Int /\ rs[k].at \in Int
    BY <1>1
  <2> QED
    BY <2>1 DEF InDisplayOrder
<1> QED
  BY <1>2, <1>3, <1>4, <1>5 DEF IsOrder

(* What a limit keeps of the winners.                                      *)
LEMMA SelectSize ==
  ASSUME NEW rs, Readable(rs), NEW is \in SUBSET (DOMAIN rs), NEW n \in Nat
  PROVE  /\ DeduplicatedSelect(rs, is, n) \in SUBSET Winners(rs, is)
         /\ Cardinality(DeduplicatedSelect(rs, is, n)) = AtMost(Cardinality(Winners(rs, is)), n)
<1> DEFINE W == Winners(rs, is)
           R == DisplayOrder(rs, W)
<1>1. W \in SUBSET (DOMAIN rs)
  BY OneWinner
<1>2. IsFiniteSet(W) /\ IsOrder(W, R)
  BY <1>1, IndicesAreFinite, DisplayIsOrder
<1>3. \A x \in W : Before(W, R, x) = {j \in W : InDisplayOrder(rs, j, x)}
  BY DEF Before, DisplayOrder
<1>4. DeduplicatedSelect(rs, is, n) = FirstOf(W, R, n)
  BY <1>3 DEF DeduplicatedSelect, FirstOf
<1>5. Cardinality(FirstOf(W, R, n)) = AtMost(Cardinality(W), n)
  BY <1>2, SizeOfFirst
<1> QED
  BY <1>4, <1>5 DEF FirstOf

(* Winners have different keys, so any of them are as many as their keys.  *)
LEMMA KeysOfWinners ==
  ASSUME NEW rs, Readable(rs), NEW is \in SUBSET (DOMAIN rs), NEW some \in SUBSET Winners(rs, is)
  PROVE  Cardinality({rs[i].key : i \in some}) = Cardinality(some)
<1> DEFINE K == {rs[i].key : i \in some}
           f == [i \in some |-> rs[i].key]
<1>1. some \in SUBSET (DOMAIN rs) /\ \A v, w \in some : rs[v].key = rs[w].key => v = w
  BY OneWinner
<1>2. IsFiniteSet(some)
  BY <1>1, IndicesAreFinite
<1>3. f \in [some -> K] /\ (\A a, b \in some : f[a] = f[b] => a = b) /\ (\A t \in K : \E s \in some : f[s] = t)
  BY <1>1
<1> HIDE DEF f, K
<1>4. Cardinality(K) = Cardinality(some)
  BY <1>2, <1>3, SameSize
<1> QED
  BY <1>4 DEF K

LEMMA ValuesOf ==
  ASSUME NEW r, "key" \in DOMAIN r, "id" \in DOMAIN r
  PROVE  RowFromValues(r).key = r.key /\ RowFromValues(r).id = r.id
<1>1. "key" \in DOMAIN r \ {"witness"} /\ "id" \in DOMAIN r \ {"witness"}
  OBVIOUS
<1> QED
  BY <1>1 DEF RowFromValues

(* A page holds as many keys and rows as the limit and the keys allow, and *)
(* so does any choice of that many winners.                                *)
PageOK(rs, is, n) ==
  LET page == {RowFromValues(rs[i]) : i \in DeduplicatedSelect(rs, is, n)}
      keys == {rs[i].key : i \in is}
      shown == {r.key : r \in page}
      size == AtMost(Cardinality(keys), n) IN
  /\ Cardinality(shown) = size /\ Cardinality(page) = size /\ shown \subseteq keys
  /\ \A view \in SUBSET Winners(rs, is) : Cardinality(view) = AtMost(Cardinality(Winners(rs, is)), n)
                                            => Cardinality({rs[i].key : i \in view}) = size

LEMMA PageIsLogical ==
  ASSUME NEW rs, Readable(rs), NEW is \in SUBSET (DOMAIN rs), NEW n \in Nat
  PROVE  PageOK(rs, is, n)
<1> DEFINE W == Winners(rs, is)
           D == DeduplicatedSelect(rs, is, n)
           page == {RowFromValues(rs[i]) : i \in D}
           keys == {rs[i].key : i \in is}
           shown == {r.key : r \in page}
           size == AtMost(Cardinality(keys), n)
           f == [i \in D |-> RowFromValues(rs[i])]
<1>1. D \in SUBSET W /\ W \in SUBSET is /\ Cardinality(D) = AtMost(Cardinality(W), n)
  BY SelectSize, OneWinner
<1>2. keys = {rs[i].key : i \in W}
  <2>1. \A i \in is : \E w \in W : rs[w].key = rs[i].key
    BY OneWinner
  <2> HIDE DEF W
  <2> QED
    BY <1>1, <2>1
<1>3. Cardinality(keys) = Cardinality(W)
  BY <1>2, KeysOfWinners
<1>4. \A i \in D : RowFromValues(rs[i]).key = rs[i].key
  BY <1>1, ValuesOf DEF Readable
<1>5. shown = {rs[i].key : i \in D}
  <2> HIDE DEF D
  <2> QED
    BY <1>4
<1>6. Cardinality(shown) = size
  <2>1. Cardinality({rs[i].key : i \in D}) = Cardinality(D)
    BY <1>1, KeysOfWinners
  <2>2. Cardinality(shown) = Cardinality(D)
    BY <1>5, <2>1
  <2> HIDE DEF shown, keys, D, W
  <2> QED
    BY <1>1, <1>3, <2>2
<1>7. shown \subseteq keys
  <2> HIDE DEF D, W
  <2> QED
    BY <1>1, <1>5
<1>8. Cardinality(page) = Cardinality(D)
  <2>1. D \in SUBSET (DOMAIN rs) /\ \A v, w \in D : rs[v].key = rs[w].key => v = w
    BY <1>1, OneWinner
  <2>2. IsFiniteSet(D)
    BY <2>1, IndicesAreFinite
  <2> HIDE DEF D
  <2>3. /\ f \in [D -> page] /\ (\A a, b \in D : f[a] = f[b] => a = b)
        /\ \A t \in page : \E s \in D : f[s] = t
    BY <1>4, <2>1
  <2> HIDE DEF f, page
  <2> QED
    BY <2>2, <2>3, SameSize
<1>9. ASSUME NEW view \in SUBSET W, Cardinality(view) = AtMost(Cardinality(W), n)
      PROVE  Cardinality({rs[i].key : i \in view}) = size
  BY <1>3, <1>9, KeysOfWinners
<1> QED
  BY <1>1, <1>3, <1>6, <1>7, <1>8, <1>9 DEF PageOK

(* A read without a limit shows every winner.                              *)
LEMMA AllOfIs ==
  ASSUME NEW rs, Readable(rs), NEW tenant, NEW range
  PROVE  /\ Asked(rs, tenant, range) \in SUBSET (DOMAIN rs)
         /\ AllOf(rs, tenant, range) = {RowFromValues(rs[i]) : i \in Winners(rs, Asked(rs, tenant, range))}
<1> DEFINE is == Asked(rs, tenant, range)
           W == Winners(rs, is)
           D == DeduplicatedSelect(rs, is, Len(rs))
<1>1. is \in SUBSET (DOMAIN rs) /\ Len(rs) \in Nat
  BY TupleType DEF Asked, WithTimeRange, ForTenant, Readable
<1> HIDE DEF is
<1>2. W \in SUBSET (DOMAIN rs)
  BY <1>1, OneWinner
<1>3. IsFiniteSet(W) /\ Cardinality(W) <= Len(rs) /\ Cardinality(W) \in Nat
  BY <1>2, IndicesAreFinite, FS_CardinalityType
<1>4. D \in SUBSET W /\ Cardinality(D) = AtMost(Cardinality(W), Len(rs))
  BY <1>1, SelectSize
<1>5. Cardinality(D) = Cardinality(W)
  BY <1>1, <1>3, <1>4 DEF AtMost
<1>6. D = W
  BY <1>3, <1>4, <1>5, FS_Subset
<1> QED
  BY <1>1, <1>6 DEF AllOf, GetRows, is

(* Rows that are only appended to: what was seen of a key is still seen,   *)
(* or a row with a smaller id.                                             *)
LEMMA ReadsGrow ==
  ASSUME NEW rs, Readable(rs), NEW qs, Readable(qs), Len(rs) <= Len(qs),
         \A i \in DOMAIN rs : qs[i] = rs[i],
         NEW tenant, NEW range, NEW r \in AllOf(rs, tenant, range)
  PROVE  \E q \in AllOf(qs, tenant, range) : q.key = r.key /\ q.id <= r.id
<1> DEFINE is == Asked(rs, tenant, range)
           js == Asked(qs, tenant, range)
<1>1. DOMAIN rs \subseteq DOMAIN qs
  BY TupleType DEF Readable
<1>2. is \in SUBSET (DOMAIN rs) /\ js \in SUBSET (DOMAIN qs)
  BY AllOfIs
<1>3. is \subseteq js
  BY <1>1 DEF Asked, WithTimeRange, ForTenant
<1> HIDE DEF is, js
<1>4. PICK i \in Winners(rs, is) : r = RowFromValues(rs[i])
  BY AllOfIs DEF is
<1>5. i \in is /\ i \in js /\ i \in DOMAIN rs /\ qs[i] = rs[i]
  BY <1>2, <1>3, OneWinner
<1>6. PICK w \in Winners(qs, js) : qs[w].key = qs[i].key /\ qs[w].id <= qs[i].id
  BY <1>2, <1>5, OneWinner
<1>7. w \in DOMAIN qs
  BY <1>2, OneWinner
<1>8. RowFromValues(qs[w]) \in AllOf(qs, tenant, range)
  BY AllOfIs DEF js
<1>9. /\ r.key = rs[i].key /\ r.id = rs[i].id
      /\ RowFromValues(qs[w]).key = qs[w].key /\ RowFromValues(qs[w]).id = qs[w].id
  BY <1>4, <1>5, <1>7, ValuesOf DEF Readable
<1> QED
  BY <1>5, <1>6, <1>8, <1>9

-----------------------------------------------------------------------------
(* Inserts.                                                                *)

LEMMA RowsAreReadable ==
  ASSUME NEW t, NEW rs, NEW key, NEW takes, TableRowsOK(t, rs, key, takes)
  PROVE  Readable(rs)
BY DEF TableRowsOK, StoredRowOK, StoredFields, Readable

(* What comes after the first element of a tuple.                          *)
LEMMA TupleTail ==
  ASSUME NEW s, IsTuple(s), s # <<>>
  PROVE  /\ IsTuple(Tail(s)) /\ Len(Tail(s)) = Len(s) - 1 /\ Len(s) \in Nat \ {0}
         /\ \A i \in 1..(Len(s) - 1) : Tail(s)[i] = s[i + 1]
<1> DEFINE T == {s[i] : i \in DOMAIN s}
           u == Tail(s)
<1>1. s \in Seq(T) /\ s # <<>>
  BY DEF IsTuple
<1>2. /\ u \in Seq(T) /\ Len(u) = Len(s) - 1 /\ Len(s) \in Nat \ {0}
      /\ \A i \in 1..(Len(s) - 1) : u[i] = s[i + 1]
  BY <1>1
<1>3. IsTuple(u)
  <2> HIDE DEF u, T
  <2>1. Len(u) \in Nat /\ u = [i \in 1..Len(u) |-> u[i]]
    BY <1>2
  <2> QED
    BY <2>1, FunctionTuple
<1> QED
  BY <1>2, <1>3

(* The row of a new insert is clean, and far from the rows of its key.     *)
NewRowOK(t, rs, e, key, takes) ==
  /\ StoredRowOK(t, e, key)
  /\ \A i \in DOMAIN rs : BlockId(rs[i]) = BlockId(e) => takes /\ Len(rs) + 1 - i > DedupWindow

LEMMA RowAppended ==
  ASSUME NEW t, NEW rs, NEW e, NEW key, NEW takes, TableRowsOK(t, rs, key, takes), NewRowOK(t, rs, e, key, takes)
  PROVE  TableRowsOK(t, Append(rs, e), key, takes)
<1> DEFINE qs == Append(rs, e)
           n == Len(rs)
<1>1. n \in Nat /\ DOMAIN rs = 1..n
  BY TupleType DEF TableRowsOK
<1>2. IsTuple(qs) /\ Len(qs) = n + 1 /\ qs[n + 1] = e /\ \A i \in 1..n : qs[i] = rs[i]
  BY TupleAppend DEF TableRowsOK
<1>3. DOMAIN qs = 1..(n + 1)
  BY <1>1, <1>2, TupleType
<1> HIDE DEF qs
<1>4. \A i \in DOMAIN qs : StoredRowOK(t, qs[i], key)
  BY <1>1, <1>2, <1>3 DEF TableRowsOK, NewRowOK
<1>5. FarApart(qs, takes)
  <2> SUFFICES ASSUME NEW i \in DOMAIN qs, NEW j \in DOMAIN qs, i < j, BlockId(qs[i]) = BlockId(qs[j])
               PROVE  takes /\ j - i > DedupWindow
    BY DEF FarApart
  <2>1. CASE j = n + 1
    <3>1. i \in DOMAIN rs /\ qs[i] = rs[i] /\ qs[j] = e
      BY <1>1, <1>2, <1>3, <2>1
    <3> QED
      BY <2>1, <3>1 DEF NewRowOK
  <2>2. CASE j # n + 1
    <3>1. i \in DOMAIN rs /\ qs[i] = rs[i] /\ j \in DOMAIN rs /\ qs[j] = rs[j]
      BY <1>1, <1>2, <1>3, <2>2
    <3> QED
      BY <3>1 DEF FarApart, TableRowsOK
  <2> QED
    BY <2>1, <2>2
<1> QED
  BY <1>2, <1>4, <1>5 DEF TableRowsOK, qs

(* A token that is not known belongs to no row within the window.          *)
LEMMA UnknownIsFar ==
  ASSUME NEW rs, IsTuple(rs), NEW known, NEW takes, TokensOK(rs, known, takes), NEW token, takes,
         ~\E i \in DOMAIN known : known[i] = token
  PROVE  \A i \in DOMAIN rs : BlockId(rs[i]) = token => Len(rs) + 1 - i > DedupWindow
<1> SUFFICES ASSUME NEW i \in DOMAIN rs, BlockId(rs[i]) = token, ~(Len(rs) + 1 - i > DedupWindow)
             PROVE  FALSE
  OBVIOUS
<1>1. /\ Len(rs) \in Nat /\ DOMAIN rs = 1..Len(rs)
      /\ IsTuple(known) /\ Len(known) \in Nat /\ DOMAIN known = 1..Len(known) /\ DedupWindow \in Nat
  BY TupleType, AnalyticsAssumption DEF TokensOK
<1>2. Len(rs) - i < DedupWindow
  BY <1>1
<1>3. Len(rs) - i < Len(known) /\ known[Len(known) - (Len(rs) - i)] = token
  BY <1>2 DEF TokensOK
<1>4. Len(known) - (Len(rs) - i) \in DOMAIN known
  BY <1>1, <1>3
<1> QED
  BY <1>3, <1>4

(* The tokens of a table after an insert are again those of its last rows. *)
LEMMA TokensAppended ==
  ASSUME NEW rs, IsTuple(rs), NEW known, NEW takes, TokensOK(rs, known, takes), NEW e
  PROVE  TokensOK(Append(rs, e), WithToken(known, BlockId(e)), takes)
<1> DEFINE qs == Append(rs, e)
           n == Len(rs)
           k == Len(known)
           token == BlockId(e)
           next == WithToken(known, token)
<1>1. /\ n \in Nat /\ DOMAIN rs = 1..n /\ DedupWindow \in Nat
      /\ IsTuple(known) /\ k \in Nat /\ DOMAIN known = 1..k /\ k <= DedupWindow
  BY TupleType, AnalyticsAssumption DEF TokensOK
<1>2. IsTuple(qs) /\ Len(qs) = n + 1 /\ qs[n + 1] = e /\ \A i \in 1..n : qs[i] = rs[i]
  BY TupleAppend
<1>3. DOMAIN qs = 1..(n + 1)
  BY <1>1, <1>2, TupleType
<1>4. \A i \in DOMAIN known : \E j \in DOMAIN qs : known[i] = BlockId(qs[j])
  <2> SUFFICES ASSUME NEW i \in DOMAIN known PROVE \E j \in DOMAIN qs : known[i] = BlockId(qs[j])
    OBVIOUS
  <2>1. PICK j \in DOMAIN rs : known[i] = BlockId(rs[j])
    BY DEF TokensOK
  <2>2. j \in DOMAIN qs /\ qs[j] = rs[j]
    BY <1>1, <1>2, <1>3
  <2> QED
    BY <2>1, <2>2
<1>5. n + 1 \in DOMAIN qs /\ BlockId(qs[n + 1]) = token
  BY <1>1, <1>2, <1>3
<1>6. takes => \A j \in DOMAIN rs : n - j < DedupWindow => n - j < k /\ known[k - (n - j)] = BlockId(rs[j])
  BY DEF TokensOK
<1> HIDE DEF qs, token
<1>7. CASE k < DedupWindow
  <2>1. next = Append(known, token)
    BY <1>7 DEF WithToken
  <2>2. IsTuple(next) /\ Len(next) = k + 1 /\ next[k + 1] = token /\ \A i \in 1..k : next[i] = known[i]
    BY <1>1, <2>1, TupleAppend
  <2>3. DOMAIN next = 1..(k + 1)
    BY <1>1, <2>2, TupleType
  <2> HIDE DEF next
  <2>4. \A i \in DOMAIN next : \E j \in DOMAIN qs : next[i] = BlockId(qs[j])
    BY <1>1, <1>4, <1>5, <2>2, <2>3
  <2>5. ASSUME takes, NEW j \in DOMAIN qs, (n + 1) - j < DedupWindow
        PROVE  (n + 1) - j < k + 1 /\ next[(k + 1) - ((n + 1) - j)] = BlockId(qs[j])
    <3>1. CASE j = n + 1
      BY <1>1, <1>5, <2>2, <3>1
    <3>2. CASE j # n + 1
      <4>1. j \in DOMAIN rs /\ n - j < DedupWindow /\ qs[j] = rs[j] /\ n \in Nat /\ k \in Nat /\ j \in Nat
        BY <1>1, <1>2, <1>3, <2>5, <3>2
      <4>2. n - j < k /\ known[k - (n - j)] = BlockId(qs[j])
        BY <1>6, <2>5, <4>1
      <4>3. (n + 1) - j < k + 1 /\ (k + 1) - ((n + 1) - j) = k - (n - j) /\ k - (n - j) \in 1..k
        BY <1>1, <4>1, <4>2
      <4> QED
        BY <2>2, <4>2, <4>3
    <3> QED
      BY <3>1, <3>2
  <2> QED
    BY <1>1, <1>2, <1>7, <2>2, <2>4, <2>5 DEF TokensOK, qs, next, token
<1>8. CASE ~(k < DedupWindow) /\ DedupWindow = 0
  <2>1. next = known
    BY <1>8 DEF WithToken
  <2>2. \A j \in DOMAIN qs : ~(Len(qs) - j < DedupWindow)
    BY <1>1, <1>2, <1>3, <1>8
  <2> QED
    BY <1>1, <1>4, <2>1, <2>2 DEF TokensOK, qs, token
<1>9. CASE ~(k < DedupWindow) /\ DedupWindow # 0
  <2>1. next = Append(Tail(known), token) /\ k = DedupWindow /\ known # <<>>
    <3>1. k = DedupWindow
      <4> HIDE DEF k, next
      <4> QED
        BY <1>1, <1>9
    <3>2. known # <<>>
      BY <1>9, <3>1, EmptyTuple
    <3> QED
      BY <1>9, <3>1, <3>2 DEF WithToken
  <2>2. IsTuple(Tail(known)) /\ Len(Tail(known)) = k - 1 /\ \A i \in 1..(k - 1) : Tail(known)[i] = known[i + 1]
    BY <1>1, <2>1, TupleTail
  <2>3. IsTuple(next) /\ Len(next) = k /\ next[k] = token /\ \A i \in 1..(k - 1) : next[i] = known[i + 1]
    <3>1. /\ IsTuple(next) /\ Len(next) = (k - 1) + 1 /\ next[(k - 1) + 1] = token
          /\ \A i \in 1..(k - 1) : next[i] = Tail(known)[i]
      BY <2>1, <2>2, TupleAppend
    <3> HIDE DEF next
    <3>2. (k - 1) + 1 = k
      BY <1>1
    <3> QED
      BY <2>2, <3>1, <3>2
  <2>4. DOMAIN next = 1..k
    BY <1>1, <2>3, TupleType
  <2> HIDE DEF next
  <2>5. \A i \in DOMAIN next : \E j \in DOMAIN qs : next[i] = BlockId(qs[j])
    <3> SUFFICES ASSUME NEW i \in DOMAIN next PROVE \E j \in DOMAIN qs : next[i] = BlockId(qs[j])
      OBVIOUS
    <3>1. CASE i = k
      BY <1>5, <2>3, <3>1
    <3>2. CASE i # k
      <4>1. i \in 1..(k - 1) /\ i + 1 \in DOMAIN known
        BY <1>1, <2>4, <3>2
      <4> QED
        BY <1>4, <2>3, <4>1
    <3> QED
      BY <3>1, <3>2
  <2>6. ASSUME takes, NEW j \in DOMAIN qs, (n + 1) - j < DedupWindow
        PROVE  (n + 1) - j < k /\ next[k - ((n + 1) - j)] = BlockId(qs[j])
    <3>1. CASE j = n + 1
      BY <1>1, <1>5, <1>9, <2>1, <2>3, <3>1
    <3>2. CASE j # n + 1
      <4>1. j \in DOMAIN rs /\ n - j < DedupWindow /\ qs[j] = rs[j] /\ n \in Nat /\ k \in Nat /\ j \in Nat
        BY <1>1, <1>2, <1>3, <2>6, <3>2
      <4>2. n - j < k /\ known[k - (n - j)] = BlockId(qs[j])
        BY <1>6, <2>6, <4>1
      <4>3. (n + 1) - j < k /\ k - ((n + 1) - j) \in 1..(k - 1) /\ (k - ((n + 1) - j)) + 1 = k - (n - j)
        BY <1>1, <1>3, <2>1, <2>6, <3>2, <4>1
      <4> QED
        BY <2>3, <4>2, <4>3
    <3> QED
      BY <3>1, <3>2
  <2> QED
    BY <1>1, <1>2, <2>1, <2>3, <2>5, <2>6 DEF TokensOK, qs, next, token
<1> QED
  BY <1>7, <1>8, <1>9

(* A table without rows.                                                   *)
LEMMA EmptyTable ==
  ASSUME NEW t, NEW key, NEW takes
  PROVE  TableRowsOK(t, <<>>, key, takes) /\ TokensOK(<<>>, <<>>, takes)
<1>1. DedupWindow \in Nat
  BY AnalyticsAssumption
<1> QED
  BY <1>1, EmptyTuple DEF TableRowsOK, TokensOK, FarApart

(* Every fault of a stored text column or identity is refused.             *)
LEMMA FaultsAreRefused ==
  ASSUME NEW t \in TABLE_NAMES, NEW f \in FaultsOf(t), f \notin Refuses(t)
  PROVE  f = NoFault
<1> SUFFICES ASSUME f # NoFault PROVE FALSE
  OBVIOUS
<1>1. \/ f \in TextColumns(t) \X {"blob", "secret"}
      \/ f \in {"tenant_id", "id", "idempotency_key"} \X {"empty"}
  BY DEF FaultsOf
<1>2. PICK c, x : f = <<c, x>>
  BY <1>1
<1>3. CASE t = "observations"
  BY <1>1, <1>2, <1>3 DEF TextColumns, Refuses, ObservationRowRefuses, TenantIdFaults, NonEmpty, Capped, UtcOnly, GuardRowFields, IdentityFields
<1>4. CASE t = "citations"
  BY <1>1, <1>2, <1>4 DEF TextColumns, Refuses, CitationRowRefuses, TenantIdFaults, NonEmpty, Capped, UtcOnly, GuardRowFields, IdentityFields
<1>5. CASE t = "experiment_registrations"
  BY <1>1, <1>2, <1>5 DEF TextColumns, Refuses, ExperimentRegistrationRowRefuses, TenantIdFaults, NonEmpty, Capped, UtcOnly, GuardRowFields, IdentityFields
<1>6. CASE t = "measurement_outcome"
  BY <1>1, <1>2, <1>6 DEF TextColumns, Refuses, MeasurementOutcomeRowRefuses, TenantIdFaults, NonEmpty, Capped, UtcOnly, GuardRowFields, IdentityFields
<1> QED
  BY <1>3, <1>4, <1>5, <1>6 DEF TABLE_NAMES

-----------------------------------------------------------------------------
(* Writers.                                                                *)

(* The rows of a key stay where they are.                                  *)
StillThere(rs, qs, r) == OfRow(rs, r) \subseteq OfRow(qs, r) /\ \A i \in OfRow(rs, r) : qs[i] = rs[i]

LEMMA RowsOfKey ==
  ASSUME NEW rs, IsTuple(rs), NEW e, NEW r
  PROVE  /\ StillThere(rs, Append(rs, e), r)
         /\ (e.tenant = r.tenant /\ e.key = r.key) => OfRow(Append(rs, e), r) # {}
<1> DEFINE qs == Append(rs, e)
<1>1. Len(rs) \in Nat /\ DOMAIN rs = 1..Len(rs)
  BY TupleType
<1>2. IsTuple(qs) /\ Len(qs) = Len(rs) + 1 /\ qs[Len(rs) + 1] = e /\ \A i \in 1..Len(rs) : qs[i] = rs[i]
  BY TupleAppend
<1>3. DOMAIN qs = 1..(Len(rs) + 1)
  BY <1>1, <1>2, TupleType
<1> HIDE DEF qs
<1>4. DOMAIN rs \subseteq DOMAIN qs /\ Len(rs) + 1 \in DOMAIN qs /\ \A i \in DOMAIN rs : qs[i] = rs[i]
  BY <1>1, <1>2, <1>3
<1>5. StillThere(rs, qs, r)
  BY <1>4 DEF StillThere, OfRow, FilterKey, ForTenant
<1>6. (e.tenant = r.tenant /\ e.key = r.key) => Len(rs) + 1 \in OfRow(qs, r)
  BY <1>2, <1>4 DEF OfRow, FilterKey, ForTenant
<1> QED
  BY <1>5, <1>6 DEF qs

(* The rows change under a writer.                                         *)
LEMMA WriterRows ==
  ASSUME NEW w, NEW r, NEW wr, NEW rs, NEW takes, NEW kept, WriterOK(w, r, wr, rs, takes, kept),
         NEW qs, NEW still,
         still => kept /\ StillThere(rs, qs, r),
         wr.at = "checked" => OfRow(qs, r) = {}
  PROVE  WriterOK(w, r, wr, qs, takes, still)
<1>1. still => kept /\ (OfRow(rs, r) # {} => OfRow(qs, r) # {})
  BY DEF StillThere
<1>2. ASSUME still, NEW n \in 0..MaxTries, NEW won \in BOOLEAN, <<n, won>> \in wr.told
      PROVE  ToldIsTrue(w, n, won, r, qs, takes)
  <2>1. ToldIsTrue(w, n, won, r, rs, takes)
    BY <1>1, <1>2 DEF WriterOK
  <2> QED
    BY <1>2, <2>1 DEF ToldIsTrue, StillThere
<1> QED
  BY <1>1, <1>2 DEF WriterOK

(* A writer goes on to its next call.                                      *)
LEMMA WriterMoves ==
  ASSUME NEW w, NEW r, NEW wr, NEW rs, NEW takes, NEW kept, WriterOK(w, r, wr, rs, takes, kept),
         NEW at \in WriterAt, at \in AtWork => r.fault = NoFault,
         at = "checked" => ~takes /\ OfRow(rs, r) = {},
         at = "inserted" => takes /\ (kept => OfRow(rs, r) # {})
  PROVE  WriterOK(w, r, Moved(wr, at), rs, takes, kept)
<1> DEFINE m == Moved(wr, at)
<1>1. DOMAIN m = {"at", "try", "told"} /\ m.at = at /\ m.try = wr.try /\ m.told = wr.told
  BY DEF Moved, WriterOK
<1> HIDE DEF m
<1>2. WriterOK(w, r, m, rs, takes, kept)
  BY <1>1 DEF WriterOK
<1> QED
  BY <1>2 DEF m

(* A writer is answered.                                                   *)
LEMMA WriterAnswered ==
  ASSUME NEW w, NEW r, NEW wr, NEW rs, NEW takes, NEW kept, WriterOK(w, r, wr, rs, takes, kept),
         NEW won \in BOOLEAN, kept => ToldIsTrue(w, wr.try, won, r, rs, takes)
  PROVE  WriterOK(w, r, Told(wr, won), rs, takes, kept) /\ Told(wr, won).at = "done"
<1> DEFINE m == Told(wr, won)
<1>1. /\ DOMAIN m = {"at", "try", "told"} /\ m.at = "done" /\ m.try = wr.try
      /\ m.told = wr.told \cup {<<wr.try, won>>}
  BY DEF Told, WriterOK
<1> HIDE DEF m
<1>2. m.told \subseteq (0..MaxTries) \X BOOLEAN
  BY <1>1 DEF WriterOK
<1>3. kept => \A n \in 0..MaxTries, x \in BOOLEAN : <<n, x>> \in m.told => ToldIsTrue(w, n, x, r, rs, takes)
  BY <1>1 DEF WriterOK
<1>4. WriterOK(w, r, m, rs, takes, kept)
  BY <1>1, <1>2, <1>3 DEF WriterOK, WriterAt, AtWork
<1> QED
  BY <1>1, <1>4 DEF m

(* The row a writer inserts.                                               *)
LEMMA RowOfWriter ==
  ASSUME NEW w, AppendOK(append[w]), append[w].fault = NoFault
  PROVE  /\ StoredRowOK(append[w].table, PhysicalRow(w), signing_key)
         /\ PhysicalRow(w).tenant = append[w].tenant /\ PhysicalRow(w).key = append[w].key
         /\ BlockId(PhysicalRow(w)) = BlockId(append[w])
BY DEF AppendOK, StoredRowOK, StoredFields, PhysicalRow, BlockId, DedupToken, Partition, DeriveQueryRef

LEMMA TokenIsRow ==
  ASSUME NEW rs, NEW r, NEW i \in DOMAIN rs
  PROVE  /\ BlockId(rs[i]) = BlockId(r) => i \in OfRow(rs, r)
         /\ i \in OfRow(rs, r) => rs[i].tenant = r.tenant /\ rs[i].key = r.key
BY DEF BlockId, DedupToken, OfRow, FilterKey, ForTenant

-----------------------------------------------------------------------------
(* Steps.                                                                  *)

(* One writer changes, and what it finds in its table: the others go on.   *)
LEMMA WritersFollow ==
  ASSUME WritersOK, UNCHANGED <<append, takes_token>>,
         NEW w \in Writers, NEW wr, append[w] # NoAppend, writer' = [writer EXCEPT ![w] = wr],
         WriterOK(w, append[w], wr, rows'[append[w].table], takes_token, NoDrop'),
         \A v \in Writers \ {w} : append[v] # NoAppend =>
           WriterOK(v, append[v], writer[v], rows'[append[v].table], takes_token, NoDrop'),
         ~takes_token /\ wr.at \in AtWork => \A v \in Writers \ {w} : writer[v].at \notin AtWork
  PROVE  WritersOK'
<1>1. /\ DOMAIN writer' = Writers /\ writer'[w] = wr
      /\ \A v \in Writers \ {w} : writer'[v] = writer[v]
  BY DEF WritersOK
<1>2. ASSUME NEW v \in Writers, append[v] = NoAppend PROVE writer'[v] = IdleWriter
  BY <1>1, <1>2 DEF WritersOK
<1>3. ASSUME NEW v \in Writers, append[v] # NoAppend
      PROVE  AppendOK(append[v]) /\ WriterOK(v, append[v], writer'[v], rows'[append[v].table], takes_token, NoDrop')
  <2>1. AppendOK(append[v])
    BY <1>3 DEF WritersOK
  <2>2. CASE v = w
    BY <1>1, <2>1, <2>2
  <2>3. CASE v # w
    BY <1>1, <1>3, <2>1, <2>3
  <2> QED
    BY <2>2, <2>3
<1>4. ~takes_token => \A v, u \in Writers : writer'[v].at \in AtWork /\ writer'[u].at \in AtWork => v = u
  <2> SUFFICES ASSUME ~takes_token, NEW v \in Writers, NEW u \in Writers,
                      writer'[v].at \in AtWork, writer'[u].at \in AtWork
               PROVE  v = u
    OBVIOUS
  <2>1. CASE v = w
    BY <1>1, <2>1
  <2>2. CASE u = w
    BY <1>1, <2>2
  <2>3. CASE v # w /\ u # w
    BY <1>1, <2>3 DEF WritersOK
  <2> QED
    BY <2>1, <2>2, <2>3
<1>5. append' = append /\ takes_token' = takes_token
  OBVIOUS
<1>6. \A v \in Writers : IF append'[v] = NoAppend THEN writer'[v] = IdleWriter
        ELSE AppendOK(append'[v]) /\ WriterOK(v, append'[v], writer'[v], rows'[append'[v].table], takes_token', NoDrop')
  BY <1>2, <1>3, <1>5
<1> QED
  BY <1>1, <1>4, <1>5, <1>6 DEF WritersOK

(* The rows of the writer that moves.                                      *)
LEMMA MovingWriter ==
  ASSUME WritersOK, NEW w \in Writers, append[w] # NoAppend \/ writer[w].at # "idle"
  PROVE  /\ append[w] # NoAppend /\ AppendOK(append[w]) /\ append[w].table \in TABLE_NAMES
         /\ WriterOK(w, append[w], writer[w], rows[append[w].table], takes_token, NoDrop)
<1>1. append[w] # NoAppend
  BY DEF WritersOK, IdleWriter
<1> QED
  BY <1>1 DEF WritersOK, AppendOK

(* A step of one writer that only reads.                                   *)
LEMMA WriterReads ==
  ASSUME AnalyticsInv, NEW w \in Writers, NEW wr, append[w] # NoAppend, writer' = [writer EXCEPT ![w] = wr],
         UNCHANGED <<append, signing_key, takes_token, plan, migrated, statements, tables, rows, tokens>>,
         WriterOK(w, append[w], wr, rows[append[w].table], takes_token, NoDrop),
         ~takes_token /\ wr.at \in AtWork => \A v \in Writers \ {w} : writer[v].at \notin AtWork
  PROVE  AnalyticsInv'
<1>1. NoDrop' = NoDrop /\ rows' = rows
  BY DEF NoDrop
<1>2. \A v \in Writers \ {w} : append[v] # NoAppend =>
           WriterOK(v, append[v], writer[v], rows[append[v].table], takes_token, NoDrop)
  BY DEF AnalyticsInv, WritersOK
<1>3. WritersOK'
  <2>1. WriterOK(w, append[w], wr, rows'[append[w].table], takes_token, NoDrop')
    BY <1>1
  <2>2. \A v \in Writers \ {w} : append[v] # NoAppend =>
           WriterOK(v, append[v], writer[v], rows'[append[v].table], takes_token, NoDrop')
    BY <1>1, <1>2
  <2> QED
    BY <2>1, <2>2, WritersFollow DEF AnalyticsInv
<1>4. TablesOK'
  BY DEF AnalyticsInv, TablesOK
<1>5. MigrationsOK'
  BY <1>1 DEF AnalyticsInv, MigrationsOK
<1> QED
  BY <1>3, <1>4, <1>5 DEF AnalyticsInv

LEMMA BuildRowStep ==
  ASSUME AnalyticsInv, NEW w \in Writers, BuildRow(w)
  PROVE  AnalyticsInv'
<1> DEFINE r == append[w]
           at == IF (r.table = "observations" /\ ~ResolveSigningKey(signing_key)) \/ r.fault \in Refuses(r.table)
                 THEN "refused" ELSE "built"
           wr == [at |-> at, try |-> writer[w].try + 1, told |-> writer[w].told]
<1>1. /\ r # NoAppend /\ AppendOK(r) /\ writer[w].try < r.tries
      /\ WriterOK(w, r, writer[w], rows[r.table], takes_token, NoDrop)
  BY MovingWriter DEF AnalyticsInv, BuildRow
<1>2. at \in {"refused", "built"} /\ (at = "built" => r.fault = NoFault)
  BY <1>1, FaultsAreRefused DEF AppendOK
<1>3. writer[w].try + 1 \in 0..MaxTries
  BY <1>1, AnalyticsAssumption DEF AppendOK, WriterOK
<1>4. WriterOK(w, r, wr, rows[r.table], takes_token, NoDrop)
  <2> HIDE DEF at, r
  <2> QED
    BY <1>1, <1>2, <1>3 DEF WriterOK, WriterAt, AtWork
<1>5. takes_token \/ \A v \in Writers : writer[v].at \notin AtWork
  BY DEF BuildRow, AtWork
<1>6. /\ writer' = [writer EXCEPT ![w] = wr]
      /\ UNCHANGED <<append, signing_key, takes_token, plan, migrated, statements, tables, rows, tokens>>
  BY DEF BuildRow
<1> HIDE DEF wr
<1> QED
  BY <1>1, <1>4, <1>5, <1>6, WriterReads

(* A writer raises, and may be called again.                               *)
LEMMA RaiseStep ==
  ASSUME AnalyticsInv, NEW w \in Writers, writer[w].at # "idle",
         writer' = [writer EXCEPT ![w] = Moved(writer[w], "raised")],
         UNCHANGED <<append, signing_key, takes_token, plan, migrated, statements, tables, rows, tokens>>
  PROVE  AnalyticsInv'
<1> DEFINE wr == Moved(writer[w], "raised")
<1>1. append[w] # NoAppend /\ WriterOK(w, append[w], writer[w], rows[append[w].table], takes_token, NoDrop)
  BY MovingWriter DEF AnalyticsInv
<1>2. WriterOK(w, append[w], wr, rows[append[w].table], takes_token, NoDrop)
  BY <1>1, WriterMoves DEF WriterAt, AtWork
<1>3. wr.at \notin AtWork
  BY <1>1 DEF Moved, WriterOK, AtWork
<1> HIDE DEF wr
<1>4. writer' = [writer EXCEPT ![w] = wr]
  BY DEF wr
<1> QED
  BY <1>1, <1>2, <1>3, <1>4, WriterReads

(* A writer is answered from what it has read.                             *)
LEMMA AnsweredStep ==
  ASSUME AnalyticsInv, NEW w \in Writers, NEW won \in BOOLEAN, writer[w].at # "idle",
         NoDrop => ToldIsTrue(w, writer[w].try, won, append[w], rows[append[w].table], takes_token),
         writer' = [writer EXCEPT ![w] = Told(writer[w], won)],
         UNCHANGED <<append, signing_key, takes_token, plan, migrated, statements, tables, rows, tokens>>
  PROVE  AnalyticsInv'
<1> DEFINE wr == Told(writer[w], won)
<1>1. append[w] # NoAppend /\ WriterOK(w, append[w], writer[w], rows[append[w].table], takes_token, NoDrop)
  BY MovingWriter DEF AnalyticsInv
<1>2. WriterOK(w, append[w], wr, rows[append[w].table], takes_token, NoDrop) /\ wr.at \notin AtWork
  BY <1>1, WriterAnswered DEF AtWork
<1> HIDE DEF wr
<1>3. writer' = [writer EXCEPT ![w] = wr]
  BY DEF wr
<1> QED
  BY <1>1, <1>2, <1>3, WriterReads

LEMMA ReadBackStep ==
  ASSUME AnalyticsInv, NEW w \in Writers, ReadBack(w)
  PROVE  AnalyticsInv'
<1> DEFINE r == append[w]
           rs == rows[r.table]
<1>1. takes_token /\ writer[w].at = "inserted"
  BY DEF ReadBack
<1>2. WriterOK(w, r, writer[w], rs, takes_token, NoDrop)
  BY <1>1, MovingWriter DEF AnalyticsInv
<1>3. CASE r.table \in tables
  <2>1. PICK won \in WonDedupRace(w) : writer' = [writer EXCEPT ![w] = Told(writer[w], won)]
    BY <1>3 DEF ReadBack
  <2>2. /\ won \in BOOLEAN
        /\ OfRow(rs, r) # {} => (won => \E i \in OfRow(rs, r) : rs[i].witness = <<w, writer[w].try>>)
    BY <2>1 DEF WonDedupRace, OfRow, Earliest, Witness
  <2>3. NoDrop => ToldIsTrue(w, writer[w].try, won, r, rs, takes_token)
    BY <1>1, <1>2, <2>2 DEF ToldIsTrue, WriterOK
  <2> QED
    BY <1>1, <2>1, <2>2, <2>3, AnsweredStep DEF ReadBack
<1>4. CASE r.table \notin tables
  BY <1>1, <1>4, RaiseStep DEF ReadBack
<1> QED
  BY <1>3, <1>4

LEMMA LegacyCheckStep ==
  ASSUME AnalyticsInv, NEW w \in Writers, LegacyCheck(w)
  PROVE  AnalyticsInv'
<1> DEFINE r == append[w]
           rs == rows[r.table]
<1>1. ~takes_token /\ writer[w].at = "built"
  BY DEF LegacyCheck
<1>2. r # NoAppend /\ WriterOK(w, r, writer[w], rs, takes_token, NoDrop)
  BY <1>1, MovingWriter DEF AnalyticsInv
<1>3. UNCHANGED <<append, signing_key, takes_token, plan, migrated, statements, tables, rows, tokens>>
  BY DEF LegacyCheck
<1>4. CASE r.table \notin tables
  BY <1>1, <1>3, <1>4, RaiseStep DEF LegacyCheck
<1>5. CASE r.table \in tables /\ ExistsIdempotencyKey(rs, r)
  <2>1. ToldIsTrue(w, writer[w].try, FALSE, r, rs, takes_token)
    BY <1>1, <1>5 DEF ToldIsTrue, ExistsIdempotencyKey, OfRow
  <2>2. writer' = [writer EXCEPT ![w] = Told(writer[w], FALSE)]
    BY <1>5 DEF LegacyCheck
  <2> QED
    BY <1>1, <1>3, <2>1, <2>2, AnsweredStep
<1>6. CASE r.table \in tables /\ ~ExistsIdempotencyKey(rs, r)
  <2> DEFINE wr == Moved(writer[w], "checked")
  <2>1. OfRow(rs, r) = {}
    BY <1>6 DEF ExistsIdempotencyKey, OfRow
  <2>2. WriterOK(w, r, wr, rs, takes_token, NoDrop)
    <3>1. r.fault = NoFault /\ "checked" \in WriterAt
      BY <1>1, <1>2 DEF WriterOK, AtWork, WriterAt
    <3> QED
      BY <1>1, <1>2, <2>1, <3>1, WriterMoves
  <2>3. \A v \in Writers \ {w} : writer[v].at \notin AtWork
    BY <1>1 DEF AnalyticsInv, WritersOK, AtWork
  <2>4. writer' = [writer EXCEPT ![w] = wr]
    BY <1>6 DEF LegacyCheck
  <2> HIDE DEF wr
  <2> QED
    BY <1>2, <1>3, <2>2, <2>3, <2>4, WriterReads
<1> QED
  BY <1>4, <1>5, <1>6

LEMMA WriterCrashStep ==
  ASSUME AnalyticsInv, NEW w \in Writers, WriterCrash(w)
  PROVE  AnalyticsInv'
BY RaiseStep DEF WriterCrash

(* A writer leaves a row in its table.                                     *)
LEMMA InsertedStep ==
  ASSUME AnalyticsInv, NEW w \in Writers, NEW wr, NEW known, append[w] # NoAppend,
         UNCHANGED <<append, signing_key, takes_token, plan, migrated, statements, tables>>,
         rows' = [rows EXCEPT ![append[w].table] = Append(rows[append[w].table], PhysicalRow(w))],
         DOMAIN tokens' = TABLE_NAMES, tokens'[append[w].table] = known,
         \A u \in TABLE_NAMES \ {append[w].table} : tokens'[u] = tokens[u],
         writer' = [writer EXCEPT ![w] = wr],
         append[w].fault = NoFault,
         \A i \in DOMAIN rows[append[w].table] :
           BlockId(rows[append[w].table][i]) = BlockId(append[w])
             => takes_token /\ Len(rows[append[w].table]) + 1 - i > DedupWindow,
         TokensOK(Append(rows[append[w].table], PhysicalRow(w)), known, takes_token),
         WriterOK(w, append[w], wr, Append(rows[append[w].table], PhysicalRow(w)), takes_token, NoDrop),
         \A v \in Writers \ {w} : writer[v].at # "checked",
         ~takes_token => wr.at \notin AtWork
  PROVE  AnalyticsInv'
<1> DEFINE t == append[w].table
           rs == rows[t]
           e == PhysicalRow(w)
           qs == Append(rs, e)
<1>1. NoDrop' = NoDrop
  BY DEF NoDrop
<1>2. AppendOK(append[w]) /\ t \in TABLE_NAMES
  BY MovingWriter DEF AnalyticsInv
<1>3. DOMAIN rows' = TABLE_NAMES /\ rows'[t] = qs /\ \A u \in TABLE_NAMES \ {t} : rows'[u] = rows[u]
  BY <1>2 DEF AnalyticsInv, TablesOK
<1>4. TableRowsOK(t, rs, signing_key, takes_token)
  BY <1>2 DEF AnalyticsInv, TablesOK
<1>5. NewRowOK(t, rs, e, signing_key, takes_token)
  BY <1>2, RowOfWriter DEF NewRowOK
<1>6. TableRowsOK(t, qs, signing_key, takes_token)
  BY <1>4, <1>5, RowAppended
<1>7. TablesOK'
  <2>1. \A u \in TABLE_NAMES : /\ TableRowsOK(u, rows'[u], signing_key, takes_token)
                              /\ TokensOK(rows'[u], tokens'[u], takes_token)
    <3> SUFFICES ASSUME NEW u \in TABLE_NAMES
                 PROVE  /\ TableRowsOK(u, rows'[u], signing_key, takes_token)
                        /\ TokensOK(rows'[u], tokens'[u], takes_token)
      OBVIOUS
    <3>1. CASE u = t
      BY <1>3, <1>6, <3>1
    <3>2. CASE u # t
      BY <1>3, <3>2 DEF AnalyticsInv, TablesOK
    <3> QED
      BY <3>1, <3>2
  <2> QED
    BY <1>3, <2>1 DEF AnalyticsInv, TablesOK
<1>8. WritersOK'
  <2>1. ASSUME NEW v \in Writers \ {w}, append[v] # NoAppend
        PROVE  WriterOK(v, append[v], writer[v], rows'[append[v].table], takes_token, NoDrop)
    <3>1. append[v].table \in TABLE_NAMES /\ WriterOK(v, append[v], writer[v], rows[append[v].table], takes_token, NoDrop)
      BY <2>1, MovingWriter DEF AnalyticsInv
    <3>2. CASE append[v].table = t
      <4>1. StillThere(rs, qs, append[v])
        BY <1>4, RowsOfKey DEF TableRowsOK
      <4>2. writer[v].at # "checked"
        OBVIOUS
      <4>3. WriterOK(v, append[v], writer[v], rs, takes_token, NoDrop)
        BY <3>1, <3>2
      <4> HIDE DEF qs, rs
      <4>4. WriterOK(v, append[v], writer[v], qs, takes_token, NoDrop)
        BY <4>1, <4>2, <4>3, WriterRows
      <4> QED
        BY <1>3, <3>2, <4>4
    <3>3. CASE append[v].table # t
      BY <1>3, <3>1, <3>3
    <3> QED
      BY <3>2, <3>3
  <2>2. WriterOK(w, append[w], wr, rows'[append[w].table], takes_token, NoDrop')
    BY <1>1, <1>3
  <2>3. \A v \in Writers \ {w} : append[v] # NoAppend =>
           WriterOK(v, append[v], writer[v], rows'[append[v].table], takes_token, NoDrop')
    BY <1>1, <2>1
  <2> QED
    BY <2>2, <2>3, WritersFollow DEF AnalyticsInv
<1>9. MigrationsOK'
  BY <1>1 DEF AnalyticsInv, MigrationsOK
<1> QED
  BY <1>7, <1>8, <1>9 DEF AnalyticsInv

LEMMA AppendWithDedupTokenStep ==
  ASSUME AnalyticsInv, NEW w \in Writers, AppendWithDedupToken(w)
  PROVE  AnalyticsInv'
<1> DEFINE r == append[w]
           rs == rows[r.table]
           known == tokens[r.table]
           token == BlockId(r)
           wr == Moved(writer[w], "inserted")
           e == PhysicalRow(w)
           qs == Append(rs, e)
<1>1. takes_token /\ writer[w].at = "built"
  BY DEF AppendWithDedupToken
<1>2. r # NoAppend /\ AppendOK(r) /\ r.table \in TABLE_NAMES /\ WriterOK(w, r, writer[w], rs, takes_token, NoDrop)
  BY <1>1, MovingWriter DEF AnalyticsInv
<1>3. r.fault = NoFault /\ "inserted" \in WriterAt
  BY <1>1, <1>2 DEF WriterOK, AtWork, WriterAt
<1>4. UNCHANGED <<append, signing_key, takes_token, plan, migrated, statements, tables>>
  BY DEF AppendWithDedupToken
<1>5. TableRowsOK(r.table, rs, signing_key, takes_token) /\ IsTuple(rs) /\ TokensOK(rs, known, takes_token)
  BY <1>2 DEF AnalyticsInv, TablesOK, TableRowsOK
<1>6. CASE r.table \notin tables
  BY <1>1, <1>4, <1>6, RaiseStep DEF AppendWithDedupToken
<1>7. CASE r.table \in tables /\ \E i \in DOMAIN known : known[i] = token
  <2>1. UNCHANGED <<rows, tokens>> /\ writer' = [writer EXCEPT ![w] = wr]
    BY <1>7 DEF AppendWithDedupToken, ServerInsert
  <2>2. OfRow(rs, r) # {}
    <3>1. PICK j \in DOMAIN rs : BlockId(rs[j]) = token
      BY <1>5, <1>7 DEF TokensOK
    <3> QED
      BY <3>1, TokenIsRow
  <2>3. WriterOK(w, r, wr, rs, takes_token, NoDrop)
    BY <1>1, <1>2, <1>3, <2>2, WriterMoves
  <2> HIDE DEF wr
  <2> QED
    BY <1>1, <1>2, <1>4, <2>1, <2>3, WriterReads
<1>8. CASE r.table \in tables /\ ~\E i \in DOMAIN known : known[i] = token
  <2>1. /\ rows' = [rows EXCEPT ![r.table] = qs]
        /\ tokens' = [tokens EXCEPT ![r.table] = WithToken(known, token)]
        /\ writer' = [writer EXCEPT ![w] = wr]
    BY <1>8 DEF AppendWithDedupToken, ServerInsert
  <2>2. e.tenant = r.tenant /\ e.key = r.key /\ BlockId(e) = token
    BY <1>2, <1>3, RowOfWriter
  <2>3. \A i \in DOMAIN rs : BlockId(rs[i]) = token => takes_token /\ Len(rs) + 1 - i > DedupWindow
    BY <1>1, <1>5, <1>8, UnknownIsFar
  <2>4. TokensOK(qs, WithToken(known, token), takes_token)
    <3>1. TokensOK(qs, WithToken(known, BlockId(e)), takes_token)
      BY <1>5, TokensAppended
    <3> QED
      BY <2>2, <3>1
  <2>5. OfRow(qs, r) # {} /\ StillThere(rs, qs, r)
    BY <1>5, <2>2, RowsOfKey
  <2>6. WriterOK(w, r, wr, qs, takes_token, NoDrop)
    <3> HIDE DEF qs, rs
    <3>1. WriterOK(w, r, writer[w], qs, takes_token, NoDrop)
      BY <1>1, <1>2, <2>5, WriterRows
    <3> QED
      BY <1>1, <1>3, <2>5, <3>1, WriterMoves
  <2>7. \A v \in Writers \ {w} : writer[v].at # "checked"
    <3> SUFFICES ASSUME NEW v \in Writers, writer[v].at = "checked" PROVE FALSE
      OBVIOUS
    <3>1. WriterOK(v, append[v], writer[v], rows[append[v].table], takes_token, NoDrop)
      BY MovingWriter DEF AnalyticsInv
    <3> QED
      BY <1>1, <3>1 DEF WriterOK
  <2>8. /\ DOMAIN tokens' = TABLE_NAMES /\ tokens'[r.table] = WithToken(known, token)
        /\ \A u \in TABLE_NAMES \ {r.table} : tokens'[u] = tokens[u]
    <3> HIDE DEF known, token
    <3> QED
      BY <1>2, <2>1 DEF AnalyticsInv, TablesOK
  <2>9. PICK next, nwr : next = WithToken(known, token) /\ nwr = wr
    OBVIOUS
  <2> HIDE DEF wr
  <2> QED
    BY <1>1, <1>2, <1>3, <1>4, <2>1, <2>3, <2>4, <2>6, <2>7, <2>8, <2>9, InsertedStep
<1> QED
  BY <1>6, <1>7, <1>8

LEMMA LegacyInsertStep ==
  ASSUME AnalyticsInv, NEW w \in Writers, LegacyInsert(w)
  PROVE  AnalyticsInv'
<1> DEFINE r == append[w]
           rs == rows[r.table]
           known == tokens[r.table]
           wr == Told(writer[w], TRUE)
           e == PhysicalRow(w)
           qs == Append(rs, e)
<1>1. ~takes_token /\ writer[w].at = "checked"
  BY DEF LegacyInsert
<1>2. r # NoAppend /\ AppendOK(r) /\ r.table \in TABLE_NAMES /\ WriterOK(w, r, writer[w], rs, takes_token, NoDrop)
  BY <1>1, MovingWriter DEF AnalyticsInv
<1>3. r.fault = NoFault /\ OfRow(rs, r) = {}
  BY <1>1, <1>2 DEF WriterOK, AtWork
<1>4. UNCHANGED <<append, signing_key, takes_token, plan, migrated, statements, tables, tokens>>
  BY DEF LegacyInsert
<1>5. TableRowsOK(r.table, rs, signing_key, takes_token) /\ IsTuple(rs) /\ TokensOK(rs, known, takes_token)
  BY <1>2 DEF AnalyticsInv, TablesOK, TableRowsOK
<1>6. CASE r.table \notin tables
  BY <1>1, <1>4, <1>6, RaiseStep DEF LegacyInsert
<1>7. CASE r.table \in tables
  <2>1. rows' = [rows EXCEPT ![r.table] = qs] /\ writer' = [writer EXCEPT ![w] = wr]
    BY <1>7 DEF LegacyInsert
  <2>2. e.tenant = r.tenant /\ e.key = r.key
    BY <1>2, <1>3, RowOfWriter
  <2>3. \A i \in DOMAIN rs : BlockId(rs[i]) # BlockId(r)
    BY <1>3, TokenIsRow
  <2>4. TokensOK(qs, known, takes_token)
    <3>1. /\ IsTuple(qs) /\ \A i \in DOMAIN rs : i \in DOMAIN qs /\ qs[i] = rs[i]
      <4>1. Len(rs) \in Nat /\ DOMAIN rs = 1..Len(rs)
        BY <1>5, TupleType
      <4>2. IsTuple(qs) /\ Len(qs) = Len(rs) + 1 /\ \A i \in 1..Len(rs) : qs[i] = rs[i]
        BY <1>5, TupleAppend
      <4>3. DOMAIN qs = 1..(Len(rs) + 1)
        BY <4>2, TupleType
      <4> HIDE DEF qs, rs
      <4> QED
        BY <4>1, <4>2, <4>3
    <3> HIDE DEF qs, rs, known
    <3> QED
      BY <1>1, <1>5, <3>1 DEF TokensOK
  <2>5. OfRow(qs, r) # {} /\ StillThere(rs, qs, r)
    BY <1>5, <2>2, RowsOfKey
  <2>6. WriterOK(w, r, wr, qs, takes_token, NoDrop) /\ wr.at \notin AtWork
    <3> DEFINE raised == Moved(writer[w], "raised")
    <3>1. WriterOK(w, r, raised, rs, takes_token, NoDrop) /\ raised.at = "raised" /\ Told(raised, TRUE) = wr
      <4>1. WriterOK(w, r, raised, rs, takes_token, NoDrop)
        BY <1>2, WriterMoves DEF WriterAt, AtWork
      <4>2. raised.at = "raised" /\ Told(raised, TRUE) = wr
        BY <1>2 DEF Moved, Told, WriterOK
      <4> QED
        BY <4>1, <4>2
    <3> HIDE DEF qs, rs, raised, wr
    <3>2. WriterOK(w, r, raised, qs, takes_token, NoDrop)
      BY <2>5, <3>1, WriterRows
    <3>3. ToldIsTrue(w, raised.try, TRUE, r, qs, takes_token)
      BY <1>1, <2>5 DEF ToldIsTrue
    <3>4. WriterOK(w, r, Told(raised, TRUE), qs, takes_token, NoDrop) /\ Told(raised, TRUE).at = "done"
      BY <3>2, <3>3, WriterAnswered
    <3> QED
      BY <3>1, <3>4 DEF AtWork
  <2>7. \A v \in Writers \ {w} : writer[v].at # "checked"
    BY <1>1 DEF AnalyticsInv, WritersOK, AtWork
  <2>8. /\ DOMAIN tokens' = TABLE_NAMES /\ tokens'[r.table] = known
        /\ \A u \in TABLE_NAMES \ {r.table} : tokens'[u] = tokens[u]
    BY <1>4 DEF AnalyticsInv, TablesOK
  <2>9. PICK next, nwr : next = known /\ nwr = wr
    OBVIOUS
  <2> HIDE DEF wr, known
  <2> QED
    BY <1>1, <1>2, <1>3, <1>4, <2>1, <2>3, <2>4, <2>6, <2>7, <2>8, <2>9, InsertedStep
<1> QED
  BY <1>6, <1>7

(* The statements of a migration.                                          *)
LEMMA StatementsTyped ==
  ASSUME NEW d
  PROVE  /\ StatementsOf(d) \in Seq({"create", "drop"} \X TABLE_NAMES)
         /\ d = "up" => \A i \in DOMAIN StatementsOf(d) : StatementsOf(d)[i][1] = "create"
<1> DEFINE M == CreateTableStatements
           S == {"create", "drop"} \X TABLE_NAMES
<1>1. MIGRATIONS[1] \in Seq(TABLE_NAMES) /\ MIGRATIONS[2] \in Seq(TABLE_NAMES)
  BY DEF MIGRATIONS, TABLE_NAMES
<1>2. M \in Seq(TABLE_NAMES)
  BY <1>1 DEF CreateTableStatements
<1> HIDE DEF M
<1>3. Len(M) \in Nat /\ DOMAIN M = 1..Len(M) /\ \A i \in 1..Len(M) : M[i] \in TABLE_NAMES
  BY <1>2
<1>4. CASE d = "up"
  <2>1. StatementsOf(d) = [i \in 1..Len(M) |-> <<"create", M[i]>>]
    BY <1>3, <1>4 DEF StatementsOf, M
  <2>2. StatementsOf(d) \in [1..Len(M) -> S]
    BY <1>3, <2>1
  <2> QED
    BY <1>3, <2>1, <2>2
<1>5. CASE d # "up"
  <2>1. StatementsOf(d) = [i \in 1..Len(M) |-> <<"drop", M[Len(M) + 1 - i]>>]
    BY <1>3, <1>5 DEF StatementsOf, M
  <2>2. \A i \in 1..Len(M) : Len(M) + 1 - i \in 1..Len(M)
    BY <1>3
  <2>3. StatementsOf(d) \in [1..Len(M) -> S]
    BY <1>3, <2>1, <2>2
  <2> QED
    BY <1>3, <1>5, <2>3
<1> QED
  BY <1>4, <1>5

LEMMA MigrateStep ==
  ASSUME AnalyticsInv, Migrate
  PROVE  AnalyticsInv'
<1>1. plan \in Seq({"up", "down"}) /\ Len(plan) \in Nat /\ migrated \in 0..Len(plan) /\ migrated < Len(plan)
  BY DEF AnalyticsInv, MigrationsOK, Migrate
<1>2. /\ migrated' = migrated + 1 /\ statements' = StatementsOf(plan[migrated + 1]) /\ plan' = plan
      /\ UNCHANGED <<append, signing_key, takes_token, tables, rows, tokens, writer>>
  BY DEF Migrate
<1>3. NoDrop' => NoDrop /\ plan[migrated + 1] = "up"
  BY <1>1, <1>2 DEF NoDrop
<1>4. MigrationsOK'
  <2>1. migrated' \in 0..Len(plan)
    BY <1>1, <1>2
  <2>2. statements' \in Seq({"create", "drop"} \X TABLE_NAMES)
    BY <1>2, StatementsTyped
  <2>3. NoDrop' => \A i \in DOMAIN statements' : statements'[i][1] = "create"
    BY <1>2, <1>3, StatementsTyped
  <2> QED
    BY <1>1, <1>2, <2>1, <2>2, <2>3 DEF MigrationsOK
<1>5. TablesOK'
  BY <1>2 DEF AnalyticsInv, TablesOK
<1>6. ASSUME NEW w \in Writers, append[w] # NoAppend
      PROVE  WriterOK(w, append[w], writer[w], rows[append[w].table], takes_token, NoDrop')
  <2>1. WriterOK(w, append[w], writer[w], rows[append[w].table], takes_token, NoDrop)
    BY <1>6 DEF AnalyticsInv, WritersOK
  <2>2. writer[w].at = "checked" => OfRow(rows[append[w].table], append[w]) = {}
    BY <2>1 DEF WriterOK
  <2>3. StillThere(rows[append[w].table], rows[append[w].table], append[w])
    BY DEF StillThere
  <2> QED
    BY <1>3, <2>1, <2>2, <2>3, WriterRows
<1>7. WritersOK'
  <2>1. \A w \in Writers : IF append[w] = NoAppend THEN writer[w] = IdleWriter
          ELSE AppendOK(append[w]) /\ WriterOK(w, append[w], writer[w], rows[append[w].table], takes_token, NoDrop')
    BY <1>6 DEF AnalyticsInv, WritersOK
  <2> QED
    BY <1>2, <2>1 DEF AnalyticsInv, WritersOK
<1> QED
  BY <1>2, <1>4, <1>5, <1>7 DEF AnalyticsInv

LEMMA ExecuteStep ==
  ASSUME AnalyticsInv, Execute
  PROVE  AnalyticsInv'
<1> DEFINE s == Head(statements)
           t == s[2]
<1>1. /\ statements # <<>> /\ statements' = Tail(statements)
      /\ UNCHANGED <<append, signing_key, takes_token, plan, migrated, writer>>
  BY DEF Execute
<1>2. statements \in Seq({"create", "drop"} \X TABLE_NAMES)
  BY DEF AnalyticsInv, MigrationsOK
<1>3. NoDrop' = NoDrop
  BY <1>1 DEF NoDrop
<1>4. s = statements[1] /\ 1 \in DOMAIN statements /\ s \in {"create", "drop"} \X TABLE_NAMES
  BY <1>1, <1>2
<1>5. t \in TABLE_NAMES /\ (NoDrop => s[1] = "create")
  BY <1>4 DEF AnalyticsInv, MigrationsOK
<1>6. MigrationsOK'
  <2>1. /\ statements' \in Seq({"create", "drop"} \X TABLE_NAMES)
        /\ \A i \in DOMAIN statements' : i + 1 \in DOMAIN statements /\ statements'[i] = statements[i + 1]
    BY <1>1, <1>2
  <2>2. plan' = plan /\ migrated' = migrated
    BY <1>1
  <2>3. NoDrop => \A i \in DOMAIN statements' : statements'[i][1] = "create"
    <3>1. NoDrop => \A i \in DOMAIN statements : statements[i][1] = "create"
      BY DEF AnalyticsInv, MigrationsOK
    <3> QED
      BY <2>1, <3>1
  <2> QED
    BY <1>3, <2>1, <2>2, <2>3 DEF AnalyticsInv, MigrationsOK
<1> HIDE DEF s
<1>7. CASE s[1] = "create"
  <2>1. tables' = tables \cup {t} /\ rows' = rows /\ tokens' = tokens
    BY <1>7 DEF Execute, s
  <2>2. TablesOK'
    BY <1>1, <1>5, <2>1 DEF AnalyticsInv, TablesOK
  <2>3. WritersOK'
    BY <1>1, <1>3, <2>1 DEF AnalyticsInv, WritersOK
  <2> QED
    BY <1>1, <1>6, <2>2, <2>3 DEF AnalyticsInv
<1>8. CASE s[1] # "create"
  <2>1. /\ tables' = tables \ {t} /\ rows' = [rows EXCEPT ![t] = <<>>]
        /\ tokens' = [tokens EXCEPT ![t] = <<>>]
    BY <1>8 DEF Execute, s
  <2>2. DOMAIN rows = TABLE_NAMES /\ DOMAIN tokens = TABLE_NAMES
    BY DEF AnalyticsInv, TablesOK
  <2>3. /\ DOMAIN rows' = TABLE_NAMES /\ DOMAIN tokens' = TABLE_NAMES
        /\ rows'[t] = <<>> /\ tokens'[t] = <<>>
        /\ \A u \in TABLE_NAMES \ {t} : rows'[u] = rows[u] /\ tokens'[u] = tokens[u]
    BY <1>5, <2>1, <2>2
  <2>4. TablesOK'
    <3>1. ASSUME NEW u \in TABLE_NAMES
          PROVE  TableRowsOK(u, rows'[u], signing_key, takes_token) /\ TokensOK(rows'[u], tokens'[u], takes_token)
      <4>1. CASE u = t
        BY <2>3, <4>1, EmptyTable
      <4>2. CASE u # t
        BY <2>3, <4>2 DEF AnalyticsInv, TablesOK
      <4> QED
        BY <4>1, <4>2
    <3>2. tables' \subseteq TABLE_NAMES
      BY <2>1 DEF AnalyticsInv, TablesOK
    <3> QED
      BY <1>1, <2>3, <3>1, <3>2 DEF TablesOK
  <2>5. ASSUME NEW w \in Writers, append[w] # NoAppend
        PROVE  WriterOK(w, append[w], writer[w], rows'[append[w].table], takes_token, NoDrop')
    <3>1. /\ WriterOK(w, append[w], writer[w], rows[append[w].table], takes_token, NoDrop)
          /\ append[w].table \in TABLE_NAMES
      BY <2>5, MovingWriter DEF AnalyticsInv
    <3>2. ~NoDrop'
      BY <1>3, <1>5, <1>8
    <3>3. writer[w].at = "checked" => OfRow(rows'[append[w].table], append[w]) = {}
      <4>1. CASE append[w].table = t
        BY <2>3, <4>1, EmptyTuple DEF OfRow, FilterKey, ForTenant
      <4>2. CASE append[w].table # t
        BY <2>3, <3>1, <4>2 DEF WriterOK
      <4> QED
        BY <4>1, <4>2
    <3> QED
      BY <3>1, <3>2, <3>3, WriterRows
  <2>6. WritersOK'
    <3>1. \A w \in Writers : IF append[w] = NoAppend THEN writer[w] = IdleWriter
            ELSE AppendOK(append[w]) /\ WriterOK(w, append[w], writer[w], rows'[append[w].table], takes_token, NoDrop')
      BY <2>5 DEF AnalyticsInv, WritersOK
    <3> QED
      BY <1>1, <3>1 DEF AnalyticsInv, WritersOK
  <2> QED
    BY <1>1, <1>6, <2>4, <2>6 DEF AnalyticsInv
<1> QED
  BY <1>7, <1>8

LEMMA MigrationCrashStep ==
  ASSUME AnalyticsInv, MigrationCrash
  PROVE  AnalyticsInv'
<1>1. /\ statements' = <<>>
      /\ UNCHANGED <<append, signing_key, takes_token, plan, migrated, tables, rows, tokens, writer>>
  BY DEF MigrationCrash
<1>2. NoDrop' = NoDrop
  BY <1>1 DEF NoDrop
<1>3. MigrationsOK'
  BY <1>1, <1>2 DEF AnalyticsInv, MigrationsOK
<1>4. TablesOK'
  BY <1>1 DEF AnalyticsInv, TablesOK
<1>5. WritersOK'
  BY <1>1, <1>2 DEF AnalyticsInv, WritersOK
<1> QED
  BY <1>1, <1>3, <1>4, <1>5 DEF AnalyticsInv

LEMMA AnalyticsInitOK == AnalyticsInit => AnalyticsInv
<1> SUFFICES ASSUME AnalyticsInit PROVE AnalyticsInv
  OBVIOUS
<1>1. PICK load \in AnalyticsLoads :
        /\ append = load.append /\ takes_token = load.token /\ plan = load.plan
        /\ tables = IF load.plan = <<>> THEN TABLE_NAMES ELSE {}
  BY DEF AnalyticsInit
<1>2. /\ migrated = 0 /\ statements = <<>> /\ rows = [t \in TABLE_NAMES |-> <<>>]
      /\ tokens = [t \in TABLE_NAMES |-> <<>>] /\ writer = [w \in Writers |-> IdleWriter]
  BY DEF AnalyticsInit, IdleWriter
<1>3. /\ takes_token \in BOOLEAN /\ plan \in Seq({"up", "down"})
      /\ \A w \in Writers : append[w] # NoAppend => AppendOK(append[w])
  BY <1>1, AnalyticsAssumption DEF AppendOK
<1>4. TablesOK
  BY <1>1, <1>2, EmptyTable DEF TablesOK
<1>5. MigrationsOK
  BY <1>2, <1>3 DEF MigrationsOK
<1>6. ASSUME NEW w \in Writers, append[w] # NoAppend
      PROVE  WriterOK(w, append[w], writer[w], rows[append[w].table], takes_token, NoDrop)
  <2>1. writer[w] = IdleWriter
    BY <1>2
  <2>2. MaxTries \in Nat
    BY AnalyticsAssumption
  <2> QED
    BY <2>1, <2>2 DEF WriterOK, IdleWriter, WriterAt, AtWork
<1>7. WritersOK
  BY <1>2, <1>3, <1>6 DEF WritersOK, IdleWriter, AtWork
<1> QED
  BY <1>3, <1>4, <1>5, <1>7 DEF AnalyticsInv

LEMMA AnalyticsStep == AnalyticsInv /\ [AnalyticsNext]_analyticsVars => AnalyticsInv'
<1> SUFFICES ASSUME AnalyticsInv, [AnalyticsNext]_analyticsVars PROVE AnalyticsInv'
  OBVIOUS
<1>1. CASE UNCHANGED analyticsVars
  BY <1>1 DEF analyticsVars, AnalyticsInv, TablesOK, WritersOK, MigrationsOK, NoDrop
<1>2. CASE Migrate
  BY <1>2, MigrateStep
<1>3. CASE Execute
  BY <1>3, ExecuteStep
<1>4. CASE MigrationCrash
  BY <1>4, MigrationCrashStep
<1>5. ASSUME NEW w \in Writers,
             \/ BuildRow(w) \/ AppendWithDedupToken(w) \/ ReadBack(w)
             \/ LegacyCheck(w) \/ LegacyInsert(w) \/ WriterCrash(w)
      PROVE  AnalyticsInv'
  BY <1>5, BuildRowStep, AppendWithDedupTokenStep, ReadBackStep, LegacyCheckStep, LegacyInsertStep, WriterCrashStep
<1> QED
  BY <1>1, <1>2, <1>3, <1>4, <1>5 DEF AnalyticsNext

-----------------------------------------------------------------------------
(* What readers and writers are promised.                                  *)

LEMMA PagesFollow == AnalyticsInv => PagesAreLogical
<1> SUFFICES ASSUME AnalyticsInv, NEW table \in TABLE_NAMES, NEW tenant \in Tenants,
                    NEW range \in TimeRanges, NEW limit \in Limits
             PROVE  LET rs == rows[table]
                        page == GetRows(rs, tenant, range, limit)
                        keys == {rs[i].key : i \in Asked(rs, tenant, range)}
                        shown == {r.key : r \in page}
                        size == AtMost(Cardinality(keys), limit) IN
                    /\ Cardinality(shown) = size /\ Cardinality(page) = size /\ shown \subseteq keys
                    /\ table = "measurement_outcome" =>
                         \A view \in RawVsAdjustedPages(rs, tenant, range, limit) :
                           Cardinality({rs[i].key : i \in view}) = size
  BY DEF PagesAreLogical
<1>1. PICK rs, is : rs = rows[table] /\ is = Asked(rows[table], tenant, range)
  OBVIOUS
<1>2. Readable(rs) /\ is \in SUBSET (DOMAIN rs) /\ limit \in Nat
  <2>1. Readable(rs)
    BY <1>1, RowsAreReadable DEF AnalyticsInv, TablesOK
  <2> QED
    BY <1>1, <2>1, AllOfIs, AnalyticsAssumption
<1> DEFINE page == {RowFromValues(rs[i]) : i \in DeduplicatedSelect(rs, is, limit)}
           keys == {rs[i].key : i \in is}
           shown == {r.key : r \in page}
           size == AtMost(Cardinality(keys), limit)
<1>3. /\ Cardinality(shown) = size /\ Cardinality(page) = size /\ shown \subseteq keys
      /\ \A view \in SUBSET Winners(rs, is) : Cardinality(view) = AtMost(Cardinality(Winners(rs, is)), limit)
                                                => Cardinality({rs[i].key : i \in view}) = size
  <2>1. PageOK(rs, is, limit)
    BY <1>2, PageIsLogical
  <2> QED
    BY <2>1 DEF PageOK
<1>4. GetRows(rs, tenant, range, limit) = page /\ Asked(rs, tenant, range) = is
  BY <1>1 DEF GetRows
<1>5. \A view \in RawVsAdjustedPages(rs, tenant, range, limit) : Cardinality({rs[i].key : i \in view}) = size
  <2> HIDE DEF size
  <2> QED
    BY <1>3, <1>4 DEF RawVsAdjustedPages
<1> HIDE DEF page
<1> QED
  BY <1>1, <1>3, <1>4, <1>5, SMTT(60)

LEMMA AnswersFollow == AnalyticsInv => AnsweredIsKept
<1> SUFFICES ASSUME AnalyticsInv, NEW w \in Writers, NEW n \in 1..MaxTries, NEW won \in BOOLEAN,
                    <<n, won>> \in writer[w].told, NoDrop
             PROVE  LET rs == rows[append[w].table]
                        is == FilterKey(rs, ForTenant(rs, append[w].tenant), append[w].key) IN
                    /\ is # {}
                    /\ takes_token /\ won => \E i \in is : rs[i].witness = <<w, n>>
  BY DEF AnsweredIsKept, NoDrop
<1>1. append[w] # NoAppend
  <2> SUFFICES ASSUME append[w] = NoAppend PROVE FALSE
    OBVIOUS
  <2>1. writer[w] = IdleWriter
    BY DEF AnalyticsInv, WritersOK
  <2>2. writer[w].told = {}
    BY <2>1 DEF IdleWriter
  <2> QED
    BY <2>2
<1>2. WriterOK(w, append[w], writer[w], rows[append[w].table], takes_token, NoDrop)
  BY <1>1, MovingWriter DEF AnalyticsInv
<1>3. n \in 0..MaxTries
  BY AnalyticsAssumption
<1>4. ToldIsTrue(w, n, won, append[w], rows[append[w].table], takes_token)
  BY <1>2, <1>3 DEF WriterOK
<1> QED
  BY <1>4 DEF ToldIsTrue, OfRow

LEMMA AnalyticsInvImplies ==
  AnalyticsInv => AnalyticsTypeOK /\ PagesAreLogical /\ AnsweredIsKept /\ DuplicatesAreFarApart /\ StoredRowsAreClean
<1> SUFFICES ASSUME AnalyticsInv
             PROVE  AnalyticsTypeOK /\ PagesAreLogical /\ AnsweredIsKept /\ DuplicatesAreFarApart /\ StoredRowsAreClean
  OBVIOUS
<1>1. \A t \in TABLE_NAMES : TableRowsOK(t, rows[t], signing_key, takes_token) /\ TokensOK(rows[t], tokens[t], takes_token)
  BY DEF AnalyticsInv, TablesOK
<1>2. AnalyticsTypeOK
  <2>1. tables \subseteq TABLE_NAMES
    BY DEF AnalyticsInv, TablesOK
  <2>2. \A t \in TABLE_NAMES : /\ \A i \in DOMAIN rows[t] : rows[t][i].table = t
                               /\ Len(tokens[t]) <= DedupWindow
    BY <1>1 DEF TableRowsOK, StoredRowOK, TokensOK
  <2>3. \A w \in Writers : /\ writer[w].at \in WriterAt /\ writer[w].try \in 0..MaxTries
                           /\ writer[w].told \subseteq (0..MaxTries) \X BOOLEAN
    <3> SUFFICES ASSUME NEW w \in Writers
                 PROVE  /\ writer[w].at \in WriterAt /\ writer[w].try \in 0..MaxTries
                        /\ writer[w].told \subseteq (0..MaxTries) \X BOOLEAN
      OBVIOUS
    <3>1. CASE append[w] = NoAppend
      BY <3>1, AnalyticsAssumption DEF AnalyticsInv, WritersOK, IdleWriter, WriterAt
    <3>2. CASE append[w] # NoAppend
      BY <3>2, MovingWriter DEF AnalyticsInv, WriterOK
    <3> QED
      BY <3>1, <3>2
  <2> QED
    BY <2>1, <2>2, <2>3 DEF AnalyticsTypeOK
<1>3. DuplicatesAreFarApart
  BY <1>1 DEF DuplicatesAreFarApart, TableRowsOK, FarApart
<1>4. StoredRowsAreClean
  <2>1. \A t \in TABLE_NAMES : \A i \in DOMAIN rows[t] : rows[t][i].fault = NoFault
    BY <1>1 DEF TableRowsOK, StoredRowOK
  <2>2. \A i \in DOMAIN rows["observations"] :
          LET r == rows["observations"][i] IN r.ref.mac = <<signing_key, <<r.tenant, r.query>>>>
    BY <1>1 DEF TableRowsOK, StoredRowOK, TABLE_NAMES
  <2> QED
    BY <2>1, <2>2 DEF StoredRowsAreClean
<1> QED
  BY <1>2, <1>3, <1>4, PagesFollow, AnswersFollow

(* The rows of a table that stays are only appended to.                    *)
LEMMA RowsGrow ==
  ASSUME AnalyticsInv, [AnalyticsNext]_analyticsVars, NEW table \in tables \cap tables'
  PROVE  rows'[table] = rows[table] \/ \E e : rows'[table] = Append(rows[table], e)
<1>1. DOMAIN rows = TABLE_NAMES /\ table \in TABLE_NAMES
  BY DEF AnalyticsInv, TablesOK
<1>2. CASE UNCHANGED rows
  BY <1>2
<1>3. CASE Execute
  <2> DEFINE t == Head(statements)[2]
  <2>1. UNCHANGED rows \/ (tables' = tables \ {t} /\ rows' = [rows EXCEPT ![t] = <<>>])
    BY <1>3 DEF Execute
  <2> HIDE DEF t
  <2> QED
    BY <1>1, <2>1
<1>4. ASSUME NEW w \in Writers, AppendWithDedupToken(w) \/ LegacyInsert(w)
      PROVE  rows'[table] = rows[table] \/ \E e : rows'[table] = Append(rows[table], e)
  <2> DEFINE e == PhysicalRow(w)
             t == append[w].table
  <2>1. UNCHANGED rows \/ rows' = [rows EXCEPT ![t] = Append(rows[t], e)]
    BY <1>4 DEF AppendWithDedupToken, ServerInsert, LegacyInsert
  <2> HIDE DEF e, t
  <2> QED
    BY <1>1, <2>1
<1>5. \/ UNCHANGED rows \/ Execute
      \/ \E w \in Writers : AppendWithDedupToken(w) \/ LegacyInsert(w)
  BY DEF AnalyticsNext, analyticsVars, Migrate, MigrationCrash, BuildRow, ReadBack, LegacyCheck, WriterCrash
<1> QED
  BY <1>2, <1>3, <1>4, <1>5

LEMMA ReadsStep ==
  ASSUME AnalyticsInv, AnalyticsInv', [AnalyticsNext]_analyticsVars,
         NEW table \in tables \cap tables', NEW tenant, NEW range, NEW r \in AllOf(rows[table], tenant, range)
  PROVE  \E q \in AllOf(rows'[table], tenant, range) : q.key = r.key /\ q.id <= r.id
<1>1. PICK rs, qs : rs = rows[table] /\ qs = rows'[table]
  OBVIOUS
<1>2. Readable(rs) /\ Readable(qs)
  <2>1. /\ TableRowsOK(table, rows[table], signing_key, takes_token)
        /\ TableRowsOK(table, rows'[table], signing_key', takes_token')
    BY DEF AnalyticsInv, TablesOK
  <2> QED
    BY <1>1, <2>1, RowsAreReadable
<1>3. Len(rs) <= Len(qs) /\ \A i \in DOMAIN rs : qs[i] = rs[i]
  <2>1. IsTuple(rs) /\ Len(rs) \in Nat /\ DOMAIN rs = 1..Len(rs)
    BY <1>2, TupleType DEF Readable
  <2>2. CASE qs = rs
    BY <2>1, <2>2
  <2>3. ASSUME NEW e, qs = Append(rs, e) PROVE Len(rs) <= Len(qs) /\ \A i \in DOMAIN rs : qs[i] = rs[i]
    <3>1. Len(qs) = Len(rs) + 1 /\ \A i \in 1..Len(rs) : qs[i] = rs[i]
      BY <2>1, <2>3, TupleAppend
    <3> QED
      BY <2>1, <3>1
  <2> QED
    BY <1>1, <2>2, <2>3, RowsGrow
<1> QED
  BY <1>1, <1>2, <1>3, ReadsGrow

(* Readers of the analytics store see one row per event on every page and  *)
(* at any time, for any window of tokens, any writers, retries, crashes    *)
(* and migrations: pages are never shortened by duplicates, what a writer  *)
(* was told stays true until the table is dropped, duplicates are only     *)
(* written where the token was forgotten, no unclean row is stored, and a  *)
(* row that was read only gives way to one with a smaller id (store.py,    *)
(* query.py, rows.py, guard.py, query_privacy.py, migrate.py).             *)
THEOREM AnalyticsIsAlwaysLogical == AnalyticsSpec => AnalyticsIsLogical
<1> DEFINE Reads ==
      \A table \in tables \cap tables', tenant \in Tenants, range \in TimeRanges :
        \A r \in AllOf(rows[table], tenant, range) :
          \E q \in AllOf(rows'[table], tenant, range) : q.key = r.key /\ q.id <= r.id
<1>1. AnalyticsInit => AnalyticsInv
  BY AnalyticsInitOK
<1>2. AnalyticsInv /\ [AnalyticsNext]_analyticsVars => AnalyticsInv'
  BY AnalyticsStep
<1>3. AnalyticsInv => AnalyticsTypeOK /\ PagesAreLogical /\ AnsweredIsKept /\ DuplicatesAreFarApart /\ StoredRowsAreClean
  BY AnalyticsInvImplies
<1>4. AnalyticsInv /\ AnalyticsInv' /\ [AnalyticsNext]_analyticsVars => [Reads]_analyticsVars
  BY ReadsStep
<1> QED
  BY <1>1, <1>2, <1>3, <1>4, PTL DEF AnalyticsSpec, AnalyticsIsLogical, ReadsAreStable
=============================================================================

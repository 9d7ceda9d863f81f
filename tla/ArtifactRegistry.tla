-------------------------- MODULE ArtifactRegistry --------------------------
(***************************************************************************)
(* POST /v1/artifacts stores a blob under its hash and a manifest that     *)
(* refers to it, in this order.  The handlers do not await, so one runs at *)
(* a time, but the blob store may fail, and a handler that ends between    *)
(* the two stores leaves the first one done; callers repeat requests.      *)
(***************************************************************************)
EXTENDS Naturals, FiniteSets

CONSTANTS
  Registrations,   \* names of the requests
  Registration     \* per request: caller, manifest tenant, key, content, ...

RegistryTenants == {Registration[q].caller : q \in Registrations}
ArtifactKeys == {Registration[q].key : q \in Registrations}

ASSUME RegistryAssumption ==
  \A q \in Registrations :
    LET r == Registration[q] IN
    {r.well_formed, r.base64, r.contract, r.uris} \subseteq BOOLEAN

VARIABLES
  blobs,           \* tenant and content of the blobs
  manifests,       \* tenant, key, fields and content of the manifests
  handling,        \* the request being handled and its step
  reply,           \* request and status of the last reply
  accepted,        \* requests answered with 200 or 201
  served           \* tenant, key and content of every blob handed out

registryVars == <<blobs, manifests, handling, reply, accepted, served>>
answers == <<reply, accepted>>

NoHandling == [request |-> "none", step |-> "idle", existed |-> FALSE]

-----------------------------------------------------------------------------
(* put: what is stored for a key, under its tenant and under another.      *)
ManifestsOf(t, k) == {m \in manifests : m.tenant = t /\ m.key = k}
Foreign(t, k) == \E m \in manifests : m.tenant # t /\ m.key = k
(* The manifest a request asks for; its hash and URI name the content.     *)
ManifestFor(r) == [tenant |-> r.caller, key |-> r.key, fields |-> r.fields, content |-> r.content]

Reply(q, status) ==
  /\ reply' = <<q, status>>
  /\ accepted' = IF status \in {200, 201} THEN accepted \cup {q} ELSE accepted
  /\ handling' = NoHandling

(* The statuses of ArtifactRegistryError and of what it is mapped from.    *)
StatusOfError ==
  [tenant_id_invalid |-> 400, request_body_invalid |-> 422, tenant_mismatch |-> 404,
   blob_encoding_invalid |-> 400, uri_field_invalid |-> 400, artifact_manifest |-> 404,
   duplicate_artifact_manifest |-> 409, blob_denied |-> 404, unexpected |-> 500]

RegistryInit ==
  /\ blobs = {} /\ manifests = {} /\ handling = NoHandling /\ reply = <<>> /\ accepted = {} /\ served = {}

(* The middleware, the schema and the checks before anything is stored.    *)
Receive(q) ==
  LET r == Registration[q] IN
  /\ handling.step = "idle"
  /\ IF r.caller = "none" THEN Reply(q, StatusOfError.tenant_id_invalid)
     ELSE IF ~r.well_formed THEN Reply(q, StatusOfError.request_body_invalid)
     ELSE IF r.named # r.caller THEN Reply(q, StatusOfError.tenant_mismatch)
     ELSE IF ~r.base64 THEN Reply(q, StatusOfError.blob_encoding_invalid)
     ELSE /\ handling' = [request |-> q, step |-> "put_blob", existed |-> FALSE]
          /\ UNCHANGED answers
  /\ UNCHANGED <<blobs, manifests, served>>

(* put_blob: content-addressed, so repeating it changes nothing; it may    *)
(* fail, which ends the request with 500.                                  *)
PutBlob ==
  LET r == Registration[handling.request] IN
  /\ handling.step = "put_blob"
  /\ \/ /\ blobs' = blobs \cup {<<r.caller, r.content>>}
        /\ handling' = [handling EXCEPT !.step = "check"]
        /\ UNCHANGED answers
     \/ Reply(handling.request, StatusOfError.unexpected) /\ UNCHANGED blobs
  /\ UNCHANGED <<manifests, served>>

(* PatchArtifact.model_validate, whose error nothing maps and which comes  *)
(* when the blob is already stored; validate_uri_fields; then the lookup   *)
(* that tells 200 from 201.                                                *)
CheckManifest ==
  LET r == Registration[handling.request] IN
  /\ handling.step = "check"
  /\ IF ~r.contract THEN Reply(handling.request, StatusOfError.unexpected)
     ELSE IF ~r.uris THEN Reply(handling.request, StatusOfError.uri_field_invalid)
     ELSE IF Foreign(r.caller, r.key) THEN Reply(handling.request, StatusOfError.artifact_manifest)
     ELSE /\ handling' = [handling EXCEPT !.step = "put",
                                          !.existed = ManifestsOf(r.caller, r.key) # {}]
          /\ UNCHANGED answers
  /\ UNCHANGED <<blobs, manifests, served>>

(* Mutant: the latest manifest wins.                                       *)
PutManifestOver ==
  LET r == Registration[handling.request] IN
  /\ handling.step = "put"
  /\ manifests' = (manifests \ ManifestsOf(r.caller, r.key)) \cup {ManifestFor(r)}
  /\ Reply(handling.request, IF handling.existed THEN 200 ELSE 201)
  /\ UNCHANGED <<blobs, served>>

(* put: once per key; the same content again is answered with what is      *)
(* stored.                                                                 *)
PutManifest ==
  LET r == Registration[handling.request]
      stored == ManifestsOf(r.caller, r.key)
  IN /\ handling.step = "put"
     /\ IF Foreign(r.caller, r.key)
        THEN Reply(handling.request, StatusOfError.artifact_manifest) /\ UNCHANGED manifests
        ELSE IF stored \notin {{}, {ManifestFor(r)}}
        THEN Reply(handling.request, StatusOfError.duplicate_artifact_manifest) /\ UNCHANGED manifests
        ELSE /\ manifests' = manifests \cup {ManifestFor(r)}
             /\ Reply(handling.request, IF handling.existed THEN 200 ELSE 201)
     /\ UNCHANGED <<blobs, served>>

(* get_artifact_blob: the manifest names the blob; a manifest or a blob of *)
(* another tenant is answered like one that does not exist.                *)
GetBlob(t, k) ==
  /\ handling.step = "idle" /\ ~Foreign(t, k)
  /\ \E m \in ManifestsOf(t, k) :
       /\ <<t, m.content>> \in blobs
       /\ served' = served \cup {<<t, k, m.content>>}
  /\ UNCHANGED <<blobs, manifests, handling, answers>>

(* The process ends in the middle of a request.                            *)
DropRequest ==
  /\ handling.step # "idle" /\ handling' = NoHandling
  /\ UNCHANGED <<blobs, manifests, answers, served>>

RegistryNext ==
  \/ \E q \in Registrations : Receive(q)
  \/ PutBlob \/ CheckManifest \/ PutManifest \/ DropRequest
  \/ \E t \in RegistryTenants, k \in ArtifactKeys : GetBlob(t, k)

RegistrySpec == RegistryInit /\ [][RegistryNext]_registryVars

-----------------------------------------------------------------------------
(* A manifest never refers to a blob that is missing: whatever fails or    *)
(* ends between the two stores, at most a blob without manifest is left.   *)
ManifestHasBlob == \A m \in manifests : <<m.tenant, m.content>> \in blobs

(* A request that was answered with 200 or 201 is what is stored for its   *)
(* key, for good: repeats and contradicting registrations do not change    *)
(* it.                                                                     *)
RegisteredSticks ==
  \A q \in accepted :
    ManifestsOf(Registration[q].caller, Registration[q].key) = {ManifestFor(Registration[q])}

(* A tenant is served what is registered under the key for itself, now as  *)
(* when it was served, and a key is registered by one tenant only.         *)
ServedIsOwn ==
  /\ \A s \in served : \E m \in ManifestsOf(s[1], s[2]) : m.content = s[3]
  /\ \A l, m \in manifests : l.key = m.key => l.tenant = m.tenant

(* A manifest has its blob, an accepted registration stays, and a tenant   *)
(* is served its own content.                                              *)
RegistryIsTrue ==
  /\ ManifestHasBlob
  /\ RegisteredSticks
  /\ ServedIsOwn
=============================================================================

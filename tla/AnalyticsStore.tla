--------------------------- MODULE AnalyticsStore ---------------------------
(***************************************************************************)
(* saena_analytics_clickhouse: rows and their checks, the keyed references *)
(* of queries, the migrations, the append path with the insert             *)
(* deduplication token, and the reads that collapse duplicates.            *)
(* The store's writers are processes; ClickHouse keeps the last            *)
(* DedupWindow insert tokens of a table and drops an insert whose token it *)
(* still knows for the same partition, which is a month.  An insert and    *)
(* the read that asks who won are two calls.                               *)
(***************************************************************************)
EXTENDS Integers, Sequences, FiniteSets

CONSTANTS
  Writers,         \* processes that append
  AnalyticsLoads,  \* workloads: what each writer appends (NoAppend if nothing) and how
                   \* often, the signing key of the environment (or NoKey), the migrations run
                   \* ("up" and "down") and whether the executor takes a token
  MonthLength,     \* toYYYYMM: months of equal length stand for the calendar's
  DedupWindow,     \* non_replicated_deduplication_window; 1000 in the code
  TimeRanges, Limits,  \* what readers ask for
  MaxTries         \* bound: how often a writer appends its row at most

NoKey == "none"
NoAppend == [table |-> "none", tenant |-> "none", key |-> "none", id |-> 0, at |-> 0,
             fault |-> <<"none", "none">>, query |-> "none", tries |-> 0]
TABLE_NAMES == {"observations", "citations", "experiment_registrations", "measurement_outcome"}

-----------------------------------------------------------------------------
(* What __post_init__ of each row refuses: pairs of a field and a fault.   *)
NonEmpty(fields) == fields \X {"empty"}
Capped(fields) == fields \X {"too_long"}
UtcOnly(fields) == fields \X {"naive"}
GuardRowFields(fields) == fields \X {"blob", "secret"}
TenantIdFaults == {<<"tenant_id", "empty">>, <<"tenant_id", "too_long">>, <<"tenant_id", "not_a_slug">>}
IdentityFields == {"id", "idempotency_key"}

ObservationRowRefuses ==
  LET capped == {"query_ref", "query_digest", "raw_object_ref", "citation_refs"}
      plain == IdentityFields \cup {"engine_id", "run_id"} IN
  TenantIdFaults \cup NonEmpty(plain \cup capped) \cup Capped(capped)
    \cup UtcOnly({"occurred_at"}) \cup GuardRowFields({"tenant_id"} \cup plain \cup capped)
CitationRowRefuses ==
  LET capped == {"citation_ref", "source_domain"}
      plain == IdentityFields \cup {"run_id", "observation_id"} IN
  TenantIdFaults \cup NonEmpty(plain \cup capped) \cup Capped(capped)
    \cup UtcOnly({"occurred_at"}) \cup {<<"contribution_score", "out_of_range">>}
    \cup GuardRowFields({"tenant_id"} \cup plain \cup capped)
ExperimentRegistrationRowRefuses ==
  LET capped == {"locale", "observation_cell", "registration_hash"}
      plain == IdentityFields \cup {"engine_id"} IN
  TenantIdFaults \cup NonEmpty(plain \cup capped) \cup Capped(capped)
    \cup UtcOnly({"occurred_at"}) \cup {<<"status", "out_of_range">>}
    \cup GuardRowFields({"tenant_id", "status"} \cup plain \cup capped)
MeasurementOutcomeRowRefuses ==
  LET capped == {"registration_canonical_hash", "evidence_bundle_manifest_hash", "grs_policy_version",
                 "grs_policy_hash", "grs_policy_provenance", "evidence_basis_id", "reason_codes"}
      plain == IdentityFields \cup {"experiment_id"} IN
  TenantIdFaults \cup NonEmpty(plain \cup capped) \cup Capped(capped)
    \cup UtcOnly({"occurred_at", "window_started_at", "window_ended_at"})
    \cup ({"window_ended_at", "b_verdict", "outcome_layer", "sample_count_treatment",
           "sample_count_control"} \X {"out_of_range"})
    \cup GuardRowFields({"tenant_id", "b_verdict", "outcome_layer"} \cup plain \cup capped)

Refuses(table) ==
  CASE table = "observations" -> ObservationRowRefuses
    [] table = "citations" -> CitationRowRefuses
    [] table = "experiment_registrations" -> ExperimentRegistrationRowRefuses
    [] table = "measurement_outcome" -> MeasurementOutcomeRowRefuses

NoFault == <<"none", "none">>

(* The text columns of each table's DDL, but for dedup_witness, and what   *)
(* must not be stored in them.                                             *)
TextColumns(table) ==
  {"tenant_id", "id", "idempotency_key"} \cup
  CASE table = "observations" ->
         {"engine_id", "run_id", "query_ref", "query_digest", "citation_refs", "raw_object_ref"}
    [] table = "citations" -> {"run_id", "observation_id", "citation_ref", "source_domain"}
    [] table = "experiment_registrations" ->
         {"engine_id", "locale", "observation_cell", "registration_hash", "status"}
    [] table = "measurement_outcome" ->
         {"experiment_id", "registration_canonical_hash", "b_verdict", "reason_codes", "outcome_layer",
          "evidence_basis_id", "evidence_bundle_manifest_hash", "grs_policy_version", "grs_policy_hash",
          "grs_policy_provenance"}
FaultsOf(table) == {NoFault} \cup (TextColumns(table) \X {"blob", "secret"})
                             \cup ({"tenant_id", "id", "idempotency_key"} \X {"empty"})

(* The workloads: ids and times are ordered, and a row to append may have  *)
(* any of these faults.                                                    *)
ASSUME AnalyticsAssumption ==
  /\ MonthLength \in Nat \ {0} /\ DedupWindow \in Nat /\ MaxTries \in Nat /\ TimeRanges \subseteq Int \X Int /\ Limits \subseteq Nat
  /\ \A load \in AnalyticsLoads :
       /\ load.token \in BOOLEAN /\ load.plan \in Seq({"up", "down"})
       /\ \A w \in Writers :
            LET r == load.append[w] IN
            r # NoAppend => /\ r.table \in TABLE_NAMES /\ r.id \in Nat /\ r.at \in Int
                            /\ r.tries \in 0..MaxTries /\ r.fault \in FaultsOf(r.table)

(* derive_query_ref and derive_query_digest: a keyed digest, taken over    *)
(* the tenant and the query, or over the query alone.                      *)
ResolveSigningKey(key) == key # NoKey
DeriveQueryRef(key, tenant, query) == [path |-> tenant, mac |-> <<key, <<tenant, query>>>>]
DeriveQueryDigest(key, query) == <<key, query>>

-----------------------------------------------------------------------------
VARIABLES
  append,          \* the workload: what each writer appends
  signing_key,
  takes_token,     \* _executor_accepts_dedup_token
  plan, migrated,  \* the migrations to run, and how many were begun
  statements,      \* statements of the running migration still to execute
  tables,          \* tables that exist
  rows,            \* per table: its physical rows, in the order they were written
  tokens,          \* per table: the tokens of the last inserts it kept
  writer           \* per writer: where it is, which try it is on, what it was told
analyticsVars == <<append, signing_key, takes_token, plan, migrated, statements, tables, rows, tokens, writer>>

WriterAt == {"idle", "built", "checked", "inserted", "done", "refused", "raised"}
Witness(w) == <<w, writer[w].try>>

AnalyticsTypeOK ==
  /\ tables \subseteq TABLE_NAMES
  /\ \A t \in TABLE_NAMES : /\ \A i \in DOMAIN rows[t] : rows[t][i].table = t
                            /\ Len(tokens[t]) <= DedupWindow
  /\ \A w \in Writers : writer[w].at \in WriterAt /\ writer[w].try \in 0..MaxTries
                        /\ writer[w].told \subseteq (0..MaxTries) \X BOOLEAN

AnalyticsInit ==
  /\ \E load \in AnalyticsLoads :
       /\ append = load.append /\ signing_key = load.key /\ takes_token = load.token /\ plan = load.plan
       /\ tables = IF load.plan = <<>> THEN TABLE_NAMES ELSE {}
  /\ migrated = 0 /\ statements = <<>>
  /\ rows = [t \in TABLE_NAMES |-> <<>>] /\ tokens = [t \in TABLE_NAMES |-> <<>>]
  /\ writer = [w \in Writers |-> [at |-> "idle", try |-> 0, told |-> {}]]

-----------------------------------------------------------------------------
(* The migrations, forwards and backwards, one statement at a time.        *)
MIGRATIONS ==
  << <<"observations", "citations", "experiment_registrations">>, <<"measurement_outcome">> >>
CreateTableStatements == MIGRATIONS[1] \o MIGRATIONS[2]
StatementsOf(direction) ==
  IF direction = "up" THEN [i \in DOMAIN CreateTableStatements |-> <<"create", CreateTableStatements[i]>>]
  ELSE [i \in DOMAIN CreateTableStatements |->
          <<"drop", CreateTableStatements[Len(CreateTableStatements) + 1 - i]>>]

Migrate ==
  /\ statements = <<>> /\ migrated < Len(plan)
  /\ migrated' = migrated + 1 /\ statements' = StatementsOf(plan[migrated'])
  /\ UNCHANGED <<append, signing_key, takes_token, plan, tables, rows, tokens, writer>>

Execute ==
  LET s == Head(statements)  t == s[2] IN
  /\ statements # <<>> /\ statements' = Tail(statements)
  /\ IF s[1] = "create" THEN tables' = tables \cup {t} /\ UNCHANGED <<rows, tokens>>
     ELSE /\ tables' = tables \ {t}
          /\ rows' = [rows EXCEPT ![t] = <<>>] /\ tokens' = [tokens EXCEPT ![t] = <<>>]
  /\ UNCHANGED <<append, signing_key, takes_token, plan, migrated, writer>>

(* The migrating process dies; the next migration starts from the top.     *)
MigrationCrash ==
  /\ statements # <<>> /\ statements' = <<>>
  /\ UNCHANGED <<append, signing_key, takes_token, plan, migrated, tables, rows, tokens, writer>>

-----------------------------------------------------------------------------
Moved(wr, at) == [wr EXCEPT !.at = at]

(* A writer builds its row: an observation needs the keyed references.     *)
BuildRow(w) ==
  LET r == append[w] IN
  /\ r # NoAppend /\ writer[w].at \in {"idle", "done", "raised"} /\ writer[w].try < r.tries
  /\ takes_token \/ \A v \in Writers : writer[v].at \notin {"built", "checked", "inserted"}
  /\ writer' = [writer EXCEPT ![w] = [at |->
       IF (r.table = "observations" /\ ~ResolveSigningKey(signing_key)) \/ r.fault \in Refuses(r.table)
       THEN "refused" ELSE "built", try |-> writer[w].try + 1, told |-> writer[w].told]]
  /\ UNCHANGED <<append, signing_key, takes_token, plan, migrated, statements, tables, rows, tokens>>

DedupToken(r) == <<r.table, r.tenant, r.key>>
(* PARTITION BY toYYYYMM(occurred_at).                                     *)
Partition(r) == r.at \div MonthLength
PhysicalRow(w) ==
  LET r == append[w] IN
  [table |-> r.table, tenant |-> r.tenant, key |-> r.key, id |-> r.id, at |-> r.at, fault |-> r.fault,
   query |-> IF r.table = "observations" THEN r.query ELSE "none",
   ref |-> IF r.table = "observations" THEN DeriveQueryRef(signing_key, r.tenant, r.query)
           ELSE [path |-> "none", mac |-> <<>>],
   digest |-> IF r.table = "observations" THEN DeriveQueryDigest(signing_key, r.query) ELSE <<>>,
   witness |-> IF takes_token THEN Witness(w) ELSE <<>>]

(* TenantScopedQuery: which of a table's rows rs a query of one tenant is  *)
(* about.                                                                  *)
ForTenant(rs, tenant) == {i \in DOMAIN rs : rs[i].tenant = tenant}
FilterKey(rs, is, key) == {i \in is : rs[i].key = key}
WithTimeRange(rs, is, start, end) == {i \in is : start <= rs[i].at /\ rs[i].at < end}

(* What ClickHouse does with an insert that carries a token: the token is  *)
(* known per partition, the last ones are kept per table.                  *)
BlockId(r) == <<DedupToken(r), Partition(r)>>
WithToken(known, token) ==
  IF Len(known) < DedupWindow THEN Append(known, token)
  ELSE IF DedupWindow = 0 THEN known ELSE Append(Tail(known), token)
ServerInsert(w) ==
  LET t == append[w].table  token == BlockId(append[w]) IN
  IF \E i \in DOMAIN tokens[t] : tokens[t][i] = token THEN UNCHANGED <<rows, tokens>>
  ELSE /\ rows' = [rows EXCEPT ![t] = Append(rows[t], PhysicalRow(w))]
       /\ tokens' = [tokens EXCEPT ![t] = WithToken(tokens[t], token)]

(* _append_with_dedup_token, up to the insert.                             *)
AppendWithDedupToken(w) ==
  /\ takes_token /\ writer[w].at = "built"
  /\ IF append[w].table \in tables
     THEN /\ ServerInsert(w)
          /\ writer' = [writer EXCEPT ![w] = Moved(writer[w], "inserted")]
     ELSE writer' = [writer EXCEPT ![w] = Moved(writer[w], "raised")] /\ UNCHANGED <<rows, tokens>>
  /\ UNCHANGED <<append, signing_key, takes_token, plan, migrated, statements, tables>>

(* _won_dedup_race: the first row by occurred_at, any of them if several   *)
(* happened at the same time.                                              *)
Earliest(rs, is) == {i \in is : \A j \in is : rs[i].at <= rs[j].at}
WonDedupRace(w) ==
  LET r == append[w]  rs == rows[r.table]  is == FilterKey(rs, ForTenant(rs, r.tenant), r.key) IN
  IF is = {} THEN {FALSE} ELSE {rs[i].witness = Witness(w) : i \in Earliest(rs, is)}
Told(wr, won) == [wr EXCEPT !.at = "done", !.told = wr.told \cup {<<wr.try, won>>}]
ReadBack(w) ==
  /\ takes_token /\ writer[w].at = "inserted"
  /\ IF append[w].table \in tables
     THEN \E won \in WonDedupRace(w) :
            writer' = [writer EXCEPT ![w] = Told(writer[w], won)]
     ELSE writer' = [writer EXCEPT ![w] = Moved(writer[w], "raised")]
  /\ UNCHANGED <<append, signing_key, takes_token, plan, migrated, statements, tables, rows, tokens>>

(* _append_legacy_check_then_insert, for executors without tokens, which   *)
(* only ever have one writer.                                              *)
ExistsIdempotencyKey(rs, r) == FilterKey(rs, ForTenant(rs, r.tenant), r.key) # {}
LegacyCheck(w) ==
  LET r == append[w] IN
  /\ ~takes_token /\ writer[w].at = "built"
  /\ writer' = [writer EXCEPT ![w] =
       IF r.table \notin tables THEN Moved(writer[w], "raised")
       ELSE IF ExistsIdempotencyKey(rows[r.table], r) THEN Told(writer[w], FALSE) ELSE Moved(writer[w], "checked")]
  /\ UNCHANGED <<append, signing_key, takes_token, plan, migrated, statements, tables, rows, tokens>>
LegacyInsert(w) ==
  LET t == append[w].table IN
  /\ ~takes_token /\ writer[w].at = "checked"
  /\ IF t \in tables
     THEN /\ rows' = [rows EXCEPT ![t] = Append(rows[t], PhysicalRow(w))]
          /\ writer' = [writer EXCEPT ![w] = Told(writer[w], TRUE)]
     ELSE writer' = [writer EXCEPT ![w] = Moved(writer[w], "raised")] /\ UNCHANGED rows
  /\ UNCHANGED <<append, signing_key, takes_token, plan, migrated, statements, tables, tokens>>

(* The process dies between its calls; the event is delivered again.       *)
WriterCrash(w) ==
  /\ writer[w].at \in {"built", "checked", "inserted"}
  /\ writer' = [writer EXCEPT ![w] = Moved(writer[w], "raised")]
  /\ UNCHANGED <<append, signing_key, takes_token, plan, migrated, statements, tables, rows, tokens>>

AnalyticsNext ==
  \/ Migrate \/ Execute \/ MigrationCrash
  \/ \E w \in Writers : \/ BuildRow(w) \/ AppendWithDedupToken(w) \/ ReadBack(w)
                        \/ LegacyCheck(w) \/ LegacyInsert(w) \/ WriterCrash(w)

AnalyticsSpec == AnalyticsInit /\ [][AnalyticsNext]_analyticsVars

-----------------------------------------------------------------------------
(* Mutant: of a key the row that came last.                                *)
WinnersByArrival(rs, is) == {i \in is : \A j \in FilterKey(rs, is, rs[i].key) : j <= i}

(* to_deduplicated_select_sql: of the rows in range the least id of each   *)
(* key, then in order of time and id, then the limit.                      *)
Winners(rs, is) ==
  {i \in is : \A j \in FilterKey(rs, is, rs[i].key) :
                rs[i].id < rs[j].id \/ (rs[i].id = rs[j].id /\ i <= j)}
InDisplayOrder(rs, i, j) ==
  \/ rs[i].at < rs[j].at
  \/ rs[i].at = rs[j].at /\ (rs[i].id < rs[j].id \/ (rs[i].id = rs[j].id /\ i < j))
DeduplicatedSelect(rs, is, limit) ==
  {i \in Winners(rs, is) : Cardinality({j \in Winners(rs, is) : InDisplayOrder(rs, j, i)}) < limit}
(* A tuple of values becomes a row again; the witness is not a column.     *)
RowFromValues(r) == [f \in DOMAIN r \ {"witness"} |-> r[f]]
Asked(rs, tenant, range) == WithTimeRange(rs, ForTenant(rs, tenant), range[1], range[2])
GetRows(rs, tenant, range, limit) ==
  {RowFromValues(rs[i]) : i \in DeduplicatedSelect(rs, Asked(rs, tenant, range), limit)}

(* The dashboard's view: the same collapse; which rows a limit keeps       *)
(* depends on columns that are not modelled.                               *)
AtMost(n, limit) == IF n < limit THEN n ELSE limit
RawVsAdjustedPages(rs, tenant, range, limit) ==
  LET all == Winners(rs, Asked(rs, tenant, range)) IN
  {page \in SUBSET all : Cardinality(page) = AtMost(Cardinality(all), limit)}

Tenants == {append[w].tenant : w \in {v \in Writers : append[v] # NoAppend}}

(* A page of any read holds each of the tenant's idempotency keys in range *)
(* at most once, and is only short when there are no more keys: duplicates *)
(* never eat into the limit (store.py get_*, query.py).                    *)
PagesAreLogical ==
  \A table \in TABLE_NAMES, tenant \in Tenants, range \in TimeRanges, limit \in Limits :
    LET rs == rows[table]
        page == GetRows(rs, tenant, range, limit)
        keys == {rs[i].key : i \in Asked(rs, tenant, range)}
        shown == {r.key : r \in page}
        size == AtMost(Cardinality(keys), limit) IN
    /\ Cardinality(shown) = size /\ Cardinality(page) = size /\ shown \subseteq keys
    /\ table = "measurement_outcome" =>
         \A view \in RawVsAdjustedPages(rs, tenant, range, limit) : Cardinality({rs[i].key : i \in view}) = size

(* An append that was answered has left a row of its tenant and key, and a *)
(* writer that was told it won has its own try stored, whatever other      *)
(* writers, retries, crashes and evictions happened between insert and     *)
(* read-back; only dropping the table takes it away (_append).  A writer   *)
(* that was told it lost may have a row stored none the less.              *)
AnsweredIsKept ==
  \A w \in Writers, n \in 1..MaxTries, won \in BOOLEAN :
    /\ <<n, won>> \in writer[w].told
    /\ \A k \in 1..migrated : plan[k] = "up"
    => LET rs == rows[append[w].table]
           is == FilterKey(rs, ForTenant(rs, append[w].tenant), append[w].key) IN
       /\ is # {}
       /\ takes_token /\ won => \E i \in is : rs[i].witness = <<w, n>>

(* Two physical rows of one table, tenant, key and month exist only if at  *)
(* least DedupWindow other rows of the table were written between them:    *)
(* the insert itself leaves no room for two writers (_dedup_token).  The   *)
(* same key with times in two months is stored twice.                      *)
DuplicatesAreFarApart ==
  \A t \in TABLE_NAMES : \A i, j \in DOMAIN rows[t] :
    i < j /\ BlockId(rows[t][i]) = BlockId(rows[t][j]) => takes_token /\ j - i > DedupWindow

(* No row with raw or secret content in any text column of its table, or   *)
(* without an identity, is ever stored, and equal digests of query         *)
(* references mean the same tenant and query (rows.py, guard.py,           *)
(* query_privacy.py against the columns of schema.py).                     *)
StoredRowsAreClean ==
  /\ \A t \in TABLE_NAMES : \A i \in DOMAIN rows[t] : rows[t][i].fault = NoFault
  /\ LET rs == rows["observations"] IN
     \A i, j \in DOMAIN rs : rs[i].ref.mac = rs[j].ref.mac => rs[i].tenant = rs[j].tenant /\ rs[i].query = rs[j].query

(* The row readers see for a key only ever gives way to one with a smaller *)
(* id, and never disappears while its table exists: late duplicates do not *)
(* change what was read before by order of arrival.                        *)
AllOf(rs, tenant, range) == GetRows(rs, tenant, range, Len(rs))
ReadsAreStable ==
  [][\A table \in tables \cap tables', tenant \in Tenants, range \in TimeRanges :
       \A r \in AllOf(rows[table], tenant, range) :
         \E q \in AllOf(rows'[table], tenant, range) : q.key = r.key /\ q.id <= r.id]_analyticsVars

(* Readers see one row per event, on every page and at any time, and what  *)
(* a writer was told is kept, although rows are physically duplicated.     *)
AnalyticsIsLogical ==
  /\ [](AnalyticsTypeOK /\ PagesAreLogical /\ AnsweredIsKept /\ DuplicatesAreFarApart /\ StoredRowsAreClean)
  /\ ReadsAreStable
=============================================================================

---------------------------- MODULE VectorStore ----------------------------
(***************************************************************************)
(* saena_vector_store: PgVectorStore over Postgres, and the in-memory      *)
(* store that defines what a call does when nothing else runs.             *)
(* A call is one READ COMMITTED transaction, executed statement by         *)
(* statement: a statement sees what was committed when it began, takes row *)
(* locks one at a time, and looks again at a row it had to wait for.       *)
(* upsert holds an advisory lock per record it has touched, to its end;    *)
(* delete and invalidate_snapshot hold row locks only.  Postgres breaks a  *)
(* cycle of waiting transactions, and a connection may be lost at any time.*)
(***************************************************************************)
EXTENDS Integers, Sequences, FiniteSets

CONSTANTS
  Clients,         \* connections that make calls
  Programs,        \* workloads: per client its calls, in order
  TableDimension   \* the N of the table's vector(N) column

VARIABLES
  program,         \* the workload
  vrows,           \* committed rows
  next_id,         \* the table's id sequence
  tx,              \* per client: its call, and the transaction it runs in
  ended,           \* per client: how its calls ended
  versions, dimensions   \* the in-memory store, fed the same calls when one client is alone
vectorVars == <<program, vrows, next_id, tx, ended, versions, dimensions>>

(* The calls of the workloads.                                             *)
Calls == UNION {{p[c][i] : i \in DOMAIN p[c]} : p \in Programs, c \in Clients}
ASSUME VectorAssumption ==
  /\ Programs \subseteq [Clients -> Seq(Calls)]
  /\ \A call \in Calls : /\ call.op \in {"upsert", "delete", "invalidate"}
                         /\ call.op = "upsert" => call.records \in Seq({call.records[i] : i \in DOMAIN call.records})

Rest == [at |-> "idle", rec |-> 1, todo |-> {}, writes |-> {}, held |-> {}, fresh |-> {}]
CallOf(c) == program[c][Len(ended[c]) + 1]
RecordOf(c) == CallOf(c).records[tx[c].rec]
KeyOf(r) == <<r.tenant, r.collection, r.record_id>>
NoHash == "null"

(* ensure_caller_owns_record                                               *)
CallerOwnsRecord(tenant, r) == r.tenant = tenant

(* What client c sees: committed rows under its own uncommitted writes.    *)
View(c) ==
  {r \in {q \in vrows : \A w \in tx[c].writes : w.id # q.id} \cup tx[c].writes : ~r.gone}
OfKey(rs, key) == {r \in rs : r.key = key}
Active(rs, key) == {r \in OfKey(rs, key) : ~r.superseded}
WriterOf(id) == {d \in Clients : \E w \in tx[d].writes : w.id = id}

(* The reads: search offers the active rows of one collection, get the     *)
(* newest row of a record, list_versions all of them by id.                *)
Search(rs, tenant, collection) ==
  {r \in rs : r.key[1] = tenant /\ r.key[2] = collection /\ ~r.superseded}
Get(rs, key) == {r \in OfKey(rs, key) : \A q \in OfKey(rs, key) : q.id <= r.id}
ListVersions(rs, key) ==
  LET own == OfKey(rs, key) IN
  [n \in 1..Cardinality(own) |-> CHOOSE r \in own : Cardinality({q \in own : q.id < r.id}) = n - 1]

-----------------------------------------------------------------------------
(* The in-memory store.  A refused record ends the call; what came before  *)
(* it in the batch stays.                                                  *)
MemHistory(m, key) == IF key \in DOMAIN m THEN m[key] ELSE <<>>
MemSet(m, key, history) == [k \in DOMAIN m \cup {key} |-> IF k = key THEN history ELSE m[k]]
Superseding(history, hash) ==
  IF history = <<>> \/ history[Len(history)].superseded THEN history
  ELSE [history EXCEPT ![Len(history)].superseded = TRUE, ![Len(history)].by = hash]

MemUpsertOne(tenant, acc, r) ==
  LET key == KeyOf(r)
      history == MemHistory(acc.mem, key)
      established == {d \in acc.dims : d[1] = <<tenant, r.collection>>}
      replay == /\ history # <<>> /\ ~history[Len(history)].superseded
                /\ history[Len(history)].hash = r.hash IN
  IF ~acc.ok THEN acc
  ELSE IF ~CallerOwnsRecord(tenant, r) \/ \E d \in established : d[2] # r.dimension
  THEN [acc EXCEPT !.ok = FALSE]
  ELSE IF replay THEN acc
  ELSE [ok |-> TRUE,
        mem |-> MemSet(acc.mem, key, Append(Superseding(history, r.hash),
                                            [hash |-> r.hash, superseded |-> FALSE, by |-> NoHash])),
        dims |-> (acc.dims \ established) \cup {<<<<tenant, r.collection>>, r.dimension>>}]

MemDelete(m, call) == [k \in {k \in DOMAIN m : k \notin
                         {<<call.tenant, call.collection, i>> : i \in call.ids}} |-> m[k]]
MemInvalidate(m, call) ==
  [k \in DOMAIN m |->
     IF /\ k[1] = call.tenant /\ k[2] = call.collection /\ m[k] # <<>>
        /\ m[k][Len(m[k])].hash = call.hash
     THEN Superseding(m[k], call.by) ELSE m[k]]
MemUpsert(start, call) ==
  LET after[n \in 0..Len(call.records)] ==
        IF n = 0 THEN start ELSE MemUpsertOne(call.tenant, after[n - 1], call.records[n])
  IN after[Len(call.records)]
MemApply(call) ==
  LET start == [ok |-> TRUE, mem |-> versions, dims |-> dimensions] IN
  IF call.op = "upsert" THEN MemUpsert(start, call)
  ELSE [start EXCEPT !.mem = IF call.op = "delete" THEN MemDelete(versions, call) ELSE MemInvalidate(versions, call)]

Alone == \E c \in Clients : program[c] # <<>> /\ \A d \in Clients \ {c} : program[d] = <<>>

-----------------------------------------------------------------------------
VectorInit ==
  /\ program \in Programs /\ vrows = {} /\ next_id = 1
  /\ tx = [c \in Clients |-> Rest] /\ ended = [c \in Clients |-> <<>>]
  /\ versions = <<>> /\ dimensions = {}

(* The call ends, in `how`; alone, the in-memory store makes the call too. *)
EndCall(c, how) ==
  LET m == MemApply(CallOf(c)) IN
  /\ tx' = [tx EXCEPT ![c] = Rest]
  /\ ended' = [ended EXCEPT ![c] = Append(ended[c], [how |-> how, mem_ok |-> Alone => m.ok])]
  /\ IF Alone /\ how # "lost" THEN versions' = m.mem /\ dimensions' = m.dims
     ELSE UNCHANGED <<versions, dimensions>>
Rollback(c, how) == EndCall(c, how) /\ UNCHANGED vrows
UnchangedIn(c, t) ==
  /\ tx' = [tx EXCEPT ![c] = t] /\ UNCHANGED <<vrows, ended, versions, dimensions>>

(* What a statement of delete or invalidate_snapshot is about.             *)
DeleteMatches(call, r) == \E i \in call.ids : r.key = <<call.tenant, call.collection, i>>
InvalidateMatches(call, r) ==
  /\ r.key[1] = call.tenant /\ r.key[2] = call.collection
  /\ r.hash = call.hash /\ ~r.superseded
Supersede(r, hash) == [r EXCEPT !.superseded = TRUE, !.by = hash]
Matches(call, r) == IF call.op = "delete" THEN DeleteMatches(call, r) ELSE InvalidateMatches(call, r)
Changed(call, r) ==
  IF call.op = "delete" THEN [r EXCEPT !.gone = TRUE]
  ELSE Supersede(r, call.by)

BeginCall(c) ==
  /\ tx[c].at = "idle" /\ Len(ended[c]) < Len(program[c])
  /\ LET call == CallOf(c) IN
     \/ call.op = "upsert" /\ UnchangedIn(c, [Rest EXCEPT !.at = IF call.records = <<>> THEN "commit" ELSE "lock"])
     \/ call.op # "upsert" /\ UnchangedIn(c, [Rest EXCEPT !.at = "scan",
                                      !.todo = {r.id : r \in {q \in View(c) : Matches(call, q)}}])
  /\ UNCHANGED <<program, next_id>>

(* _acquire_upsert_lock: held until the transaction ends.                  *)
LockHolders(c) == {d \in Clients \ {c} : KeyOf(RecordOf(c)) \in tx[d].held}
AcquireUpsertLock(c) ==
  /\ tx[c].at = "lock"
  /\ IF ~CallerOwnsRecord(CallOf(c).tenant, RecordOf(c)) THEN Rollback(c, "refused")
     ELSE /\ LockHolders(c) = {}
          /\ UnchangedIn(c, [tx[c] EXCEPT !.at = "select", !.held = tx[c].held \cup {KeyOf(RecordOf(c))}])
  /\ UNCHANGED <<program, next_id>>

NextRecord(c, t) ==
  IF t.rec < Len(CallOf(c).records) THEN [t EXCEPT !.at = "lock", !.rec = t.rec + 1]
  ELSE [t EXCEPT !.at = "commit"]

(* _upsert_one: an active row with the same hash is a replay.              *)
SelectActive(c) ==
  LET r == RecordOf(c)  active == Active(View(c), KeyOf(r)) IN
  /\ tx[c].at = "select"
  /\ UnchangedIn(c, IF \E a \in active : a.hash = r.hash THEN NextRecord(c, tx[c])
                    ELSE IF active = {} THEN [tx[c] EXCEPT !.at = "insert"]
                    ELSE [tx[c] EXCEPT !.at = "update", !.todo = {a.id : a \in active}])
  /\ UNCHANGED <<program, next_id>>

(* UPDATE and DELETE, row by row: wait for the row's writer, look at the   *)
(* row again, change it if it still matches.                               *)
NextRow(c) == CHOOSE i \in tx[c].todo : \A j \in tx[c].todo : i <= j
WithRow(t, i, still, changed) ==
  [t EXCEPT !.todo = t.todo \ {i}, !.writes = {w \in t.writes : still = {} \/ w.id # i} \cup changed]
ChangeRow(c, still, changed) ==
  /\ tx[c].todo # {} /\ WriterOf(NextRow(c)) \subseteq {c}
  /\ UnchangedIn(c, WithRow(tx[c], NextRow(c), still, changed))
  /\ UNCHANGED <<program, next_id>>

(* Mutant: rows that are superseded by now are updated again.              *)
SupersedeSeen(c) ==
  LET still == {r \in View(c) : r.id = NextRow(c) /\ r.key = KeyOf(RecordOf(c))} IN
  tx[c].at = "update" /\ ChangeRow(c, still, {Supersede(r, RecordOf(c).hash) : r \in still})

SupersedeActive(c) ==
  LET still == {r \in View(c) : r.id = NextRow(c) /\ r.key = KeyOf(RecordOf(c)) /\ ~r.superseded} IN
  tx[c].at = "update" /\ ChangeRow(c, still, {Supersede(r, RecordOf(c).hash) : r \in still})
ScanRow(c) ==
  LET still == {r \in View(c) : r.id = NextRow(c) /\ Matches(CallOf(c), r)} IN
  tx[c].at = "scan" /\ ChangeRow(c, still, {Changed(CallOf(c), r) : r \in still})
RowsDone(c) ==
  /\ tx[c].at \in {"update", "scan"} /\ tx[c].todo = {}
  /\ UnchangedIn(c, [tx[c] EXCEPT !.at = IF tx[c].at = "update" THEN "insert" ELSE "commit"])
  /\ UNCHANGED <<program, next_id>>

(* INSERT: the column's dimension, then the unique index on active rows,   *)
(* which waits for an insert that is still open.                           *)
OpenRivals(c) ==
  {d \in Clients \ {c} : Active({w \in tx[d].writes : w.id \in tx[d].fresh}, KeyOf(RecordOf(c))) # {}}
InsertRow(c) ==
  LET r == RecordOf(c)
      row == [id |-> next_id, key |-> KeyOf(r), hash |-> r.hash, superseded |-> FALSE,
              by |-> NoHash, gone |-> FALSE] IN
  /\ tx[c].at = "insert"
  /\ IF r.dimension # TableDimension THEN Rollback(c, "refused") /\ UNCHANGED next_id
     ELSE IF Active(View(c), KeyOf(r)) # {} THEN Rollback(c, "collided") /\ next_id' = next_id + 1
     ELSE /\ OpenRivals(c) = {} /\ next_id' = next_id + 1
          /\ UnchangedIn(c, NextRecord(c, [tx[c] EXCEPT !.writes = tx[c].writes \cup {row},
                                                        !.fresh = tx[c].fresh \cup {next_id}]))
  /\ UNCHANGED program

Commit(c) ==
  /\ tx[c].at = "commit" /\ EndCall(c, "committed")
  /\ vrows' = {r \in vrows : \A w \in tx[c].writes : w.id # r.id} \cup {w \in tx[c].writes : ~w.gone}
  /\ UNCHANGED <<program, next_id>>

(* Who c waits for, and Postgres' way out of a cycle.                      *)
WaitsFor(c) ==
  CASE tx[c].at = "lock" -> LockHolders(c)
    [] tx[c].at \in {"update", "scan"} /\ tx[c].todo # {} -> WriterOf(NextRow(c)) \ {c}
    [] tx[c].at = "insert" -> OpenRivals(c)
    [] OTHER -> {}
InCycle(c) == \E d \in WaitsFor(c) : c \in WaitsFor(d) \/ \E e \in WaitsFor(d) : c \in WaitsFor(e)
BreakDeadlock(c) == InCycle(c) /\ Rollback(c, "deadlock") /\ UNCHANGED <<program, next_id>>
LoseConnection(c) == tx[c].at # "idle" /\ Rollback(c, "lost") /\ UNCHANGED <<program, next_id>>

VectorNext ==
  \E c \in Clients :
    \/ BeginCall(c) \/ AcquireUpsertLock(c) \/ SelectActive(c) \/ SupersedeActive(c) \/ ScanRow(c)
    \/ RowsDone(c) \/ InsertRow(c) \/ Commit(c) \/ BreakDeadlock(c) \/ LoseConnection(c)
VectorSpec == VectorInit /\ [][VectorNext]_vectorVars

-----------------------------------------------------------------------------
VectorTypeOK ==
  /\ \A r \in vrows : r.id \in 1..(next_id - 1) /\ ~r.gone
  /\ \A c \in Clients : /\ Len(ended[c]) <= Len(program[c])
                        /\ tx[c].at = "idle" => tx[c] = Rest
                        /\ tx[c].at \in {"idle", "lock", "select", "update", "insert", "scan", "commit"}

(* Readers never see two versions of a record: search offers each record   *)
(* at most once, and what it offers is the version get returns, so that    *)
(* all but the last of list_versions are superseded                        *)
(* (adapter.py: upsert, delete, invalidate_snapshot).                      *)
ActiveIsNewest ==
  \A r \in vrows : r \in Search(vrows, r.key[1], r.key[2]) => Get(vrows, r.key) = {r}

(* No upsert ever runs into the unique index: with the advisory lock it is *)
(* a backstop only, in every interleaving with delete and invalidation     *)
(* (_acquire_upsert_lock).                                                 *)
UpsertsNeverCollide ==
  \A c \in Clients : \A i \in DOMAIN ended[c] : ended[c][i].how # "collided"

(* A client that is alone gets from PgVectorStore what the in-memory store *)
(* answers: what Postgres refuses, that one refuses, what Postgres commits *)
(* it takes, except that Postgres answers a replay before any insert could *)
(* show its dimension, and the histories agree as long as no call was      *)
(* refused or lost.  This holds until the in-memory store, which takes the *)
(* dimension of a collection from the first record that comes, was given   *)
(* another one than the table has (InMemoryVectorStore, PgVectorStore).    *)
FitsTable(call) == call.op = "upsert" => \A i \in DOMAIN call.records : call.records[i].dimension = TableDimension
SameDimension == \A d \in dimensions : d[2] = TableDimension
MemoryAgrees ==
  \A c \in Clients : Alone /\ program[c] # <<>> /\ SameDimension =>
    /\ \A i \in DOMAIN ended[c] :
         /\ ended[c][i].how = "refused" => ~ended[c][i].mem_ok
         /\ ended[c][i].how = "committed" /\ FitsTable(program[c][i]) => ended[c][i].mem_ok
    /\ (\A i \in DOMAIN ended[c] : ended[c][i].how = "committed" /\ FitsTable(program[c][i])) =>
         \A key \in DOMAIN versions \cup {r.key : r \in vrows} :
           LET stored == ListVersions(vrows, key) IN
           /\ Len(stored) = Len(MemHistory(versions, key))
           /\ \A i \in DOMAIN stored : \A f \in {"hash", "superseded", "by"} :
                stored[i][f] = MemHistory(versions, key)[i][f]

(* History only grows: a version, once committed, keeps its hash, and once *)
(* superseded stays so with the hash that superseded it; a version leaves  *)
(* only by a delete that matches it (delete).                              *)
HistoryOnlyGrows ==
  [][/\ \A r \in vrows, q \in vrows' :
          r.id = q.id => /\ r.hash = q.hash /\ r.key = q.key
                         /\ r.superseded => q = r
     /\ \A r \in vrows : (\A q \in vrows' : q.id # r.id) =>
          \E c \in Clients : /\ Len(ended'[c]) > Len(ended[c])
                             /\ CallOf(c).op = "delete" /\ DeleteMatches(CallOf(c), r)]_vectorVars

(* For readers and writers at any interleaving: the newest version is the  *)
(* active one, upserts do not collide, and history only grows.             *)
VersionsHold == [](VectorTypeOK /\ ActiveIsNewest /\ UpsertsNeverCollide) /\ HistoryOnlyGrows

(* That, and a client that is alone cannot tell the two adapters apart.    *)
VectorsAreVersioned == VersionsHold /\ []MemoryAgrees
=============================================================================

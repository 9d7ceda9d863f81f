--------------------------- MODULE PostgresStores ---------------------------
(***************************************************************************)
(* The stores of saena_domain.persistence over PostgreSQL.  A client runs  *)
(* transactions of one call or, over a connection of its own, of several.  *)
(* Each SQL statement is a step; a statement sees what is committed and    *)
(* what its own transaction wrote (read committed), and a write waits      *)
(* while another transaction holds an uncommitted version of its row.      *)
(***************************************************************************)
EXTENDS Naturals, Sequences, FiniteSets

CONSTANTS
  Clients,         \* database clients
  StoreTenants,    \* tenants
  Workloads,       \* sets of transactions that are run side by side
  Script,          \* the calls of each: op, tenant, key, value
  MaxTransactions  \* bound: transactions begun

(* A call: the table it works on, whether it looks for the key under       *)
(* another tenant first, whether it selects its row before it writes, and  *)
(* how it writes it.                                                       *)
Op(table, owned, select, write) ==
  [table |-> table, owned |-> owned, select |-> select, write |-> write]
PutTenantOp == Op("tenants", FALSE, FALSE, "upsert")
UpdateStatusOp == Op("tenants", FALSE, TRUE, "update")
PutPlanOp == Op("plans", TRUE, FALSE, "upsert")
SetStateOp == Op("plan_states", TRUE, FALSE, "upsert")
RecordDecisionOp == Op("plan_decisions", TRUE, FALSE, "do_nothing")
RecordOp == Op("decision_records", FALSE, FALSE, "do_nothing")
PutManifestOp == Op("artifact_manifests", TRUE, TRUE, "insert")
RecordEventOp == Op("outbox", FALSE, TRUE, "insert")
MarkPublishedOp == Op("outbox", FALSE, TRUE, "update")
MarkOp == Op("idempotency_keys", FALSE, FALSE, "do_nothing")
StoreOps ==
  [put_tenant |-> PutTenantOp, update_status |-> UpdateStatusOp, put_plan |-> PutPlanOp,
   set_state |-> SetStateOp, record_decision |-> RecordDecisionOp, record |-> RecordOp,
   put_manifest |-> PutManifestOp, record_event |-> RecordEventOp,
   mark_published |-> MarkPublishedOp, mark |-> MarkOp]
PutOnceTables == {"plan_decisions", "decision_records", "artifact_manifests"}
OwnedTables == {"plans", "plan_states", "plan_decisions", "artifact_manifests"}

Scripts == UNION Workloads

(* A transaction that records a decision beside its event.                 *)
IsPair(calls) ==
  Len(calls) = 2 /\ calls[1].op = "record_event" /\ calls[2].op = "record_decision"

(* An event id is made for one transition: where a pair records an event,  *)
(* whoever else records that event does so beside the same decision.       *)
ASSUME StoresAssumption ==
  /\ MaxTransactions \in Nat /\ "any" \notin StoreTenants
  /\ \A s \in Scripts :
       /\ Len(Script[s]) \in Nat \ {0} /\ DOMAIN Script[s] = 1..Len(Script[s])
       /\ \A n \in DOMAIN Script[s] :
            Script[s][n].op \in DOMAIN StoreOps /\ Script[s][n].tenant \in StoreTenants
  /\ \A s, u \in Scripts : IsPair(Script[s]) =>
       \A n \in DOMAIN Script[u] :
         Script[u][n].op = "record_event" /\ Script[u][n].key = Script[s][1].key
         => /\ IsPair(Script[u]) /\ Script[u][2].tenant = Script[s][2].tenant
            /\ Script[u][2].key = Script[s][2].key

VARIABLES
  workload,        \* the transactions of this behaviour
  rows,            \* committed rows, by table, tenant and key
  tx,              \* per client: its transaction, the step it is at, its writes
  told,            \* rows that callers of committed calls were told are stored
  begun            \* transactions begun so far

storesVars == <<workload, rows, tx, told, begun>>

-----------------------------------------------------------------------------
Call(c) == Script[tx[c].script][tx[c].index]
OpOf(c) == StoreOps[Call(c).op]

(* The primary key: the outbox is keyed by the event alone.                *)
RowKey(c) ==
  <<OpOf(c).table, IF OpOf(c).table = "outbox" THEN "any" ELSE Call(c).tenant, Call(c).key>>

Over(writes, table) == [k \in DOMAIN writes \cup DOMAIN table |->
                          IF k \in DOMAIN writes THEN writes[k] ELSE table[k]]
With(writes, key, row) == [k \in DOMAIN writes \cup {key} |-> IF k = key THEN row ELSE writes[k]]
Visible(c) == Over(tx[c].writes, rows)
Locked(c) == \E d \in Clients \ {c} : RowKey(c) \in DOMAIN tx[d].writes

NoTx == [script |-> "none", index |-> 0, step |-> "idle", writes |-> <<>>, read |-> "none",
         results |-> {}]

(* _exec: an exception leaves the `begin` block and rolls back.            *)
RollBack(c) == tx' = [tx EXCEPT ![c] = NoTx] /\ UNCHANGED <<rows, told, begun>>

(* What follows the ownership check, or begins a call without one.         *)
AfterOwned(op) == IF StoreOps[op].select THEN "select" ELSE "write"
FirstStep(op) == IF StoreOps[op].owned THEN "owned" ELSE AfterOwned(op)

(* A call returns; the next call of the transaction or the commit follows. *)
Return(c, writes, result) ==
  LET t == tx[c]
      calls == Script[t.script]
      results == t.results \cup {<<RowKey(c), result>>}
  IN /\ tx' = [tx EXCEPT ![c] =
          IF t.index = Len(calls)
          THEN [t EXCEPT !.step = "commit", !.writes = writes, !.results = results]
          ELSE [t EXCEPT !.index = t.index + 1, !.writes = writes, !.read = "none",
                         !.step = FirstStep(calls[t.index + 1].op), !.results = results]]
     /\ UNCHANGED <<rows, told, begun>>

-----------------------------------------------------------------------------
StoresInit ==
  /\ workload \in Workloads
  /\ rows = <<>>
  /\ tx = [c \in Clients |-> NoTx]
  /\ told = {} /\ begun = 0

Begin(c, s) ==
  /\ tx[c].step = "idle" /\ begun < MaxTransactions
  /\ tx' = [tx EXCEPT ![c] = [NoTx EXCEPT !.script = s, !.index = 1,
                                          !.step = FirstStep(Script[s][1].op)]]
  /\ begun' = begun + 1
  /\ UNCHANGED <<rows, told>>

(* _assert_plan_owned, _assert_state_owned, _assert_decision_owned and     *)
(* _assert_owned: the key is looked up under the other tenants.            *)
AssertOwned(c) ==
  /\ tx[c].step = "owned"
  /\ IF \E t \in StoreTenants \ {Call(c).tenant} :
          <<OpOf(c).table, t, Call(c).key>> \in DOMAIN Visible(c)
     THEN RollBack(c)
     ELSE /\ tx' = [tx EXCEPT ![c].step = AfterOwned(Call(c).op)]
          /\ UNCHANGED <<rows, told, begun>>

(* The manifest and the outbox answer a repeated put with what is stored   *)
(* and refuse a different one; an update needs its row, and an outbox row  *)
(* is marked by its owner only.                                            *)
SelectRow(c) ==
  LET known == RowKey(c) \in DOMAIN Visible(c)
      row == Visible(c)[RowKey(c)]
      Proceed == /\ tx' = [tx EXCEPT ![c].step = "write",
                                     ![c].read = IF known THEN row ELSE "none"]
                 /\ UNCHANGED <<rows, told, begun>>
  IN /\ tx[c].step = "select"
     /\ CASE Call(c).op = "put_manifest" ->
               IF ~known THEN Proceed
               ELSE IF row = Call(c).value THEN Return(c, tx[c].writes, row)
               ELSE RollBack(c)
          [] Call(c).op = "record_event" ->
               IF ~known THEN Proceed
               ELSE IF row.body = Call(c).value THEN Return(c, tx[c].writes, row.body)
               ELSE RollBack(c)
          [] Call(c).op = "mark_published" ->
               IF known /\ row.owner = Call(c).tenant THEN Proceed ELSE RollBack(c)
          [] Call(c).op = "update_status" -> IF known THEN Proceed ELSE RollBack(c)

(* The row a call writes; update_status writes the payload it has read     *)
(* back with the new status.                                               *)
NewRow(c) ==
  LET v == Call(c).value IN
  CASE Call(c).op = "put_tenant" ->
         [status |-> "active", payload |-> [status |-> "active", name |-> v]]
    [] Call(c).op = "update_status" ->
         [status |-> v, payload |-> [tx[c].read.payload EXCEPT !.status = v]]
    [] Call(c).op = "record_event" -> [owner |-> Call(c).tenant, body |-> v, published |-> FALSE]
    [] Call(c).op = "mark_published" -> [tx[c].read EXCEPT !.published = TRUE]
    [] OTHER -> v

(* Mutant: an event that has appeared meanwhile is written again.          *)
WriteRowEventAgain(c) ==
  LET known == RowKey(c) \in DOMAIN Visible(c)
      Store == Return(c, With(tx[c].writes, RowKey(c), NewRow(c)), Call(c).value)
  IN /\ tx[c].step = "write" /\ ~Locked(c)
     /\ IF known /\ OpOf(c).write \in {"insert", "do_nothing"} /\ OpOf(c).table # "outbox"
        THEN RollBack(c) ELSE Store

(* The insert or update.  An insert of a key that has appeared meanwhile   *)
(* fails with an integrity error; ON CONFLICT DO NOTHING goes on to read   *)
(* the row that won.                                                       *)
WriteRow(c) ==
  LET known == RowKey(c) \in DOMAIN Visible(c)
      Store == Return(c, With(tx[c].writes, RowKey(c), NewRow(c)), Call(c).value)
  IN /\ tx[c].step = "write" /\ ~Locked(c)
     /\ CASE OpOf(c).write \in {"upsert", "update"} -> Store
          [] OpOf(c).write = "insert" -> IF known THEN RollBack(c) ELSE Store
          [] OpOf(c).write = "do_nothing" ->
               IF ~known THEN Store
               ELSE IF Call(c).op = "mark" THEN Return(c, tx[c].writes, Call(c).value)
               ELSE tx' = [tx EXCEPT ![c].step = "prior"] /\ UNCHANGED <<rows, told, begun>>

(* _record_decision_atomically, the loser: a replay or a conflict.         *)
ReadPrior(c) ==
  LET prior == Visible(c)[RowKey(c)] IN
  /\ tx[c].step = "prior"
  /\ IF prior = Call(c).value THEN Return(c, tx[c].writes, prior) ELSE RollBack(c)

Commit(c) ==
  /\ tx[c].step = "commit"
  /\ rows' = Visible(c)
  /\ told' = told \cup tx[c].results
  /\ tx' = [tx EXCEPT ![c] = NoTx]
  /\ UNCHANGED begun

(* The client or its connection dies.                                      *)
AbortTx(c) == tx[c].step # "idle" /\ RollBack(c)

(* Two transactions wait for each other: the server aborts one of them.    *)
DeadlockVictim(c) ==
  /\ tx[c].step = "write" /\ Locked(c)
  /\ \E d \in Clients \ {c} : /\ tx[d].step = "write" /\ RowKey(c) \in DOMAIN tx[d].writes
                              /\ RowKey(d) \in DOMAIN tx[c].writes
  /\ RollBack(c)

ClientStep(c) ==
  AssertOwned(c) \/ SelectRow(c) \/ WriteRow(c) \/ ReadPrior(c) \/ Commit(c) \/ DeadlockVictim(c)

StoresNext ==
  /\ \E c \in Clients : (\E s \in workload : Begin(c, s)) \/ ClientStep(c) \/ AbortTx(c)
  /\ UNCHANGED workload

StoresFairness == \A c \in Clients : WF_storesVars(ClientStep(c) /\ UNCHANGED workload)
StoresSpec == StoresInit /\ [][StoresNext]_storesVars /\ StoresFairness

-----------------------------------------------------------------------------
StoresTypeOK ==
  /\ \A k \in DOMAIN rows : k[2] \in StoreTenants \cup {"any"} /\ (k[1] = "outbox" <=> k[2] = "any")
  /\ \A c \in Clients :
       /\ tx[c].step \in {"idle", "owned", "select", "write", "prior", "commit"}
       /\ tx[c].step # "idle" => tx[c].index \in DOMAIN Script[tx[c].script]
  /\ begun \in 0..MaxTransactions /\ workload \in Workloads

(* A decision or manifest that is committed never changes and never goes   *)
(* away, and an outbox row keeps its owner and envelope and stays          *)
(* published, whichever clients write the same key at the same time.       *)
PutOnceSticks ==
  [][\A k \in DOMAIN rows :
       /\ k \in DOMAIN rows'
       /\ k[1] \in PutOnceTables => rows'[k] = rows[k]
       /\ k[1] = "outbox" => /\ rows'[k].owner = rows[k].owner /\ rows'[k].body = rows[k].body
                             /\ rows[k].published => rows'[k].published]_storesVars

(* Clients that race for one decision or manifest are told the same: what  *)
(* a committed call returned is what the table holds.                      *)
ToldIsStored ==
  \A r \in told : r[1][1] \in PutOnceTables => r[1] \in DOMAIN rows /\ rows[r[1]] = r[2]

(* The status column of a tenant and the status in its payload agree.      *)
StatusMatchesPayload ==
  \A k \in DOMAIN rows : k[1] = "tenants" => rows[k].status = rows[k].payload.status

(* An event recorded in the transaction of a decision is there only with   *)
(* that decision, also when the client dies between the two calls.         *)
EventHasDecision ==
  \A s \in Scripts :
    IsPair(Script[s]) /\ <<"outbox", "any", Script[s][1].key>> \in DOMAIN rows
    => <<"plan_decisions", Script[s][2].tenant, Script[s][2].key>> \in DOMAIN rows

(* Every transaction ends, although two of them may wait for each other.   *)
TransactionsEnd == \A c \in Clients : (tx[c].step # "idle") ~> (tx[c].step = "idle")

(* Not so in the code: a key of a plan, a decision or a manifest belongs   *)
(* to one tenant. Two tenants that both look before either commits both    *)
(* store it; Stores.cfg with this property finds it.                       *)
OneOwner ==
  \A j, k \in DOMAIN rows : j[1] = k[1] /\ j[1] \in OwnedTables /\ j[3] = k[3] => j = k

(* Rows agree with the answers, with themselves and with the events        *)
(* recorded beside them, and what is put once stays.                       *)
RowsHold ==
  /\ [](StoresTypeOK /\ ToldIsStored /\ StatusMatchesPayload /\ EventHasDecision)
  /\ PutOnceSticks

(* What the tables hold is true, and every transaction ends.               *)
RowsAreTrue == RowsHold /\ TransactionsEnd
=============================================================================

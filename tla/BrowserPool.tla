---------------------------- MODULE BrowserPool ----------------------------
(***************************************************************************)
(* chatgpt-observer: the bounded pool of browser sessions and the pooled   *)
(* observation runs that lease them.  Runs are threads; acquire, release   *)
(* and close hold the pool's condition, so each of them is one step, and a *)
(* thread that finds nothing waits on the condition until it is notified   *)
(* or its deadline passes.  A browser may die at any moment, the factory   *)
(* may fail, and the id of a session that is gone may be used again.       *)
(***************************************************************************)
EXTENDS JobKinds, Sequences, FiniteSets

CONSTANTS
  Runs,            \* observation runs, each a thread
  RunTenant,       \* the tenant of each run
  RunQueries,      \* per run: its queries, in order
  RunEngine,       \* per run: the engine id it is called with
  SessionIds,      \* identities a session object may have
  MaxSize,         \* max_size of the pool
  MaxUses,         \* max_uses_per_session
  Unregistered     \* queries the rendered page cannot be had for

NoSession == "none"

ASSUME PoolAssumption ==
  /\ MaxSize \in Nat \ {0} /\ MaxUses \in Nat /\ NoSession \notin SessionIds
  /\ \A r \in Runs : RunQueries[r] \in Seq({RunQueries[r][i] : i \in DOMAIN RunQueries[r]})

ALLOWED_ENGINE_IDS == {"chatgpt-search"}
GuardEngineId(e) == e \in ALLOWED_ENGINE_IDS

VARIABLES
  idle,            \* _idle: the last one is handed out first
  in_use,          \* _in_use
  use_counts,      \* _use_counts
  total_created, recycled_count, pool_closed,
  session,         \* "gone", "well", "sick" (unhealthy) or "closed"
  run,             \* per run: where it is, what it holds, what it has done
  raw_store        \* the artifact gateway: tenant and content hash
poolVars == <<idle, in_use, use_counts, total_created, recycled_count, pool_closed>>
observerVars == <<poolVars, session, run, raw_store>>

Ended == {"succeeded", "failed", "raised", "exhausted", "turned_away"}
Steps == {"start", "acquire", "waiting", "late", "render", "release", "store"} \cup Ended

(* What the page of a query renders to, and its hash: one to one.          *)
HexDigest(content) == <<"sha256", content>>
RunStatus(r) ==
  IF run[r].at = "succeeded" THEN AdvanceTo("succeeded")
  ELSE IF run[r].at = "failed" THEN AdvanceTo("failed")
  ELSE IF run[r].at = "start" THEN "pending" ELSE JobTransition("pending", "running")

PoolTypeOK ==
  /\ idle \in Seq(SessionIds) /\ in_use \subseteq SessionIds
  /\ DOMAIN use_counts \subseteq SessionIds /\ \A s \in DOMAIN use_counts : use_counts[s] \in 0..MaxUses
  /\ total_created \in 0..MaxSize /\ recycled_count \in Nat /\ pool_closed \in BOOLEAN
  /\ session \in [SessionIds -> {"gone", "well", "sick", "closed"}]
  /\ \A r \in Runs : /\ run[r].at \in Steps /\ run[r].holds \in SessionIds \cup {NoSession}
                     /\ RunStatus(r) \in JobStatus
                     /\ Len(run[r].results) <= Len(RunQueries[r])

ObserverInit ==
  /\ idle = <<>> /\ in_use = {} /\ use_counts = <<>>
  /\ total_created = 0 /\ recycled_count = 0 /\ pool_closed = FALSE
  /\ session = [s \in SessionIds |-> "gone"] /\ raw_store = {}
  /\ run = [r \in Runs |-> [at |-> "start", holds |-> NoSession, results |-> <<>>,
                            audit |-> <<>>, rendered |-> FALSE]]

Move(r, at) == run' = [run EXCEPT ![r].at = at]
Query(r) == RunQueries[r][Len(run[r].results) + 1]
Without(f, s) == [k \in DOMAIN f \ {s} |-> f[k]]
Put(f, s, n) == [k \in DOMAIN f \cup {s} |-> IF k = s THEN n ELSE f[k]]

-----------------------------------------------------------------------------
(* run_pooled_observation: the engine guard, then the first query.         *)
StartRun(r) ==
  /\ run[r].at = "start"
  /\ Move(r, IF ~GuardEngineId(RunEngine[r]) THEN "raised"
             ELSE IF RunQueries[r] = <<>> THEN "succeeded" ELSE "acquire")
  /\ UNCHANGED <<poolVars, session, raw_store>>

(* acquire: what the loop finds when the thread has the condition.         *)
Turn(r) == run[r].at \in {"acquire", "late"}
TurnedAway(r) ==
  /\ Turn(r) /\ pool_closed
  /\ Move(r, "turned_away") /\ UNCHANGED <<poolVars, session, raw_store>>

TakeIdle(r) ==
  LET s == idle[Len(idle)] IN
  /\ Turn(r) /\ ~pool_closed /\ idle # <<>>
  /\ idle' = SubSeq(idle, 1, Len(idle) - 1) /\ in_use' = in_use \cup {s}
  /\ run' = [run EXCEPT ![r].at = "render", ![r].holds = s]
  /\ UNCHANGED <<use_counts, total_created, recycled_count, pool_closed, session, raw_store>>

(* The session factory: a new object, whose id is that of none alive.      *)
NewSession(s) == session[s] \in {"gone", "closed"} /\ \A r \in Runs : run[r].holds # s
CreateSession(r) ==
  /\ Turn(r) /\ ~pool_closed /\ idle = <<>> /\ total_created < MaxSize
  /\ \/ \E s \in SessionIds :
          /\ NewSession(s)
          /\ session' = [session EXCEPT ![s] = "well"]
          /\ total_created' = total_created + 1
          /\ use_counts' = Put(use_counts, s, 0) /\ in_use' = in_use \cup {s}
          /\ run' = [run EXCEPT ![r].at = "render", ![r].holds = s]
     \/ /\ Move(r, "raised") /\ UNCHANGED <<session, total_created, use_counts, in_use>>
  /\ UNCHANGED <<idle, recycled_count, pool_closed, raw_store>>

(* Mutant: after the deadline it gives up without looking again.           *)
WaitOrGiveUpAtOnce(r) ==
  /\ Turn(r) /\ ~pool_closed /\ (run[r].at = "late" \/ (idle = <<>> /\ total_created >= MaxSize))
  /\ Move(r, IF run[r].at = "late" THEN "exhausted" ELSE "waiting")
  /\ UNCHANGED <<poolVars, session, raw_store>>

WaitOrGiveUp(r) ==
  /\ Turn(r) /\ ~pool_closed /\ idle = <<>> /\ total_created >= MaxSize
  /\ Move(r, IF run[r].at = "late" THEN "exhausted" ELSE "waiting")
  /\ UNCHANGED <<poolVars, session, raw_store>>

(* The deadline passes while the thread waits; it looks once more.         *)
DeadlinePasses(r) ==
  /\ run[r].at = "waiting"
  /\ Move(r, "late") /\ UNCHANGED <<poolVars, session, raw_store>>

Acquire(r) == TurnedAway(r) \/ TakeIdle(r) \/ CreateSession(r) \/ WaitOrGiveUp(r)

(* render_search_result: of a session that is closed or whose browser is   *)
(* gone it fails.  The lease ends either way.                              *)
RenderSearchResult(r) ==
  /\ run[r].at = "render"
  /\ run' = [run EXCEPT ![r].at = "release",
                        ![r].rendered = session[run[r].holds] = "well" /\ Query(r) \notin Unregistered]
  /\ UNCHANGED <<poolVars, session, raw_store>>

IsHealthy(s) == session[s] = "well"
Awake(rs) == [q \in Runs |-> IF rs[q].at = "waiting" THEN [rs[q] EXCEPT !.at = "acquire"] ELSE rs[q]]
Release(r) ==
  LET s == run[r].holds
      n == (IF s \in DOMAIN use_counts THEN use_counts[s] ELSE 0) + 1
      needs_recycle == ~IsHealthy(s) \/ n >= MaxUses
      next == IF run[r].rendered THEN "store" ELSE "failed" IN
  /\ run[r].at = "release"
  /\ IF s \notin in_use
     THEN /\ run' = [run EXCEPT ![r].at = next, ![r].holds = NoSession]
          /\ UNCHANGED <<poolVars, session>>
     ELSE /\ in_use' = in_use \ {s}
          /\ IF needs_recycle \/ pool_closed
             THEN /\ session' = [session EXCEPT ![s] = "closed"]
                  /\ use_counts' = Without(use_counts, s)
                  /\ total_created' = total_created - 1
                  /\ recycled_count' = recycled_count + (IF needs_recycle /\ ~pool_closed THEN 1 ELSE 0)
                  /\ UNCHANGED idle
             ELSE /\ use_counts' = Put(use_counts, s, n) /\ idle' = Append(idle, s)
                  /\ UNCHANGED <<session, total_created, recycled_count>>
          /\ run' = Awake([run EXCEPT ![r].at = next, ![r].holds = NoSession])
          /\ UNCHANGED pool_closed
  /\ UNCHANGED raw_store

(* put_raw_artifact: kept under the tenant, named by its content.          *)
PutRawArtifact(tenant, content) == raw_store' = raw_store \cup {<<tenant, HexDigest(content)>>}

(* The record and the event of an observation: identity and hash.          *)
ObservationIdOf(r) == <<r, Len(run[r].results)>>
PlatformObservationRecord(r) ==
  [tenant |-> RunTenant[r], observation_id |-> ObservationIdOf(r), artifact |-> HexDigest(Query(r))]
ObservationCapturedEnvelope(r) ==
  [tenant |-> RunTenant[r], observation_id |-> ObservationIdOf(r), artifact |-> HexDigest(Query(r)),
   idempotency_key |-> <<RunTenant[r], r, ObservationIdOf(r)>>]

(* After the lease: store the raw page, build record and event, go on.     *)
(* A record or event that does not validate ends the run with the artifact *)
(* already stored.                                                         *)
StoreObservation(r) ==
  /\ run[r].at = "store"
  /\ PutRawArtifact(RunTenant[r], Query(r))
  /\ \/ Move(r, "raised")
     \/ run' = [run EXCEPT
          ![r].results = Append(@, [record |-> PlatformObservationRecord(r),
                                    event |-> ObservationCapturedEnvelope(r)]),
          ![r].audit = Append(@, Query(r)),
          ![r].at = IF Len(run[r].results) + 1 = Len(RunQueries[r]) THEN "succeeded" ELSE "acquire"]
  /\ UNCHANGED <<poolVars, session>>

(* close: idle sessions are closed now, leased ones when they come back.   *)
ClosePool ==
  /\ ~pool_closed
  /\ pool_closed' = TRUE /\ idle' = <<>>
  /\ session' = [s \in SessionIds |-> IF \E i \in DOMAIN idle : idle[i] = s THEN "closed" ELSE session[s]]
  /\ run' = Awake(run)
  /\ UNCHANGED <<in_use, use_counts, total_created, recycled_count, raw_store>>

(* A browser dies; nobody is told until is_healthy is asked.               *)
BrowserDies(s) ==
  /\ session[s] = "well" /\ session' = [session EXCEPT ![s] = "sick"]
  /\ UNCHANGED <<poolVars, run, raw_store>>

RunStep(r) ==
  \/ StartRun(r) \/ Acquire(r) \/ DeadlinePasses(r) \/ RenderSearchResult(r) \/ Release(r)
  \/ StoreObservation(r)
ObserverNext == (\E r \in Runs : RunStep(r)) \/ ClosePool \/ (\E s \in SessionIds : BrowserDies(s))
ObserverSpec == ObserverInit /\ [][ObserverNext]_observerVars

-----------------------------------------------------------------------------
(* The books balance over acquire, recycling and close: an open pool       *)
(* counts exactly the sessions that are idle or lent, never more than      *)
(* max_size, and once a closed pool's last lease is back no session is     *)
(* left open (pool.py: acquire, release, close).                           *)
NoSessionIsLost ==
  /\ ~pool_closed => total_created = Len(idle) + Cardinality(in_use)
  /\ Len(idle) + Cardinality(in_use) <= MaxSize
  /\ pool_closed /\ in_use = {} => \A s \in SessionIds : session[s] \in {"gone", "closed"}

(* A leased session belongs to one run, is not idle at the same time, and  *)
(* is never closed under its user by another thread's release or by        *)
(* close() (BrowserPool, _LeasedSession).                                  *)
LeaseIsExclusive ==
  \A r \in Runs : run[r].holds # NoSession =>
    /\ run[r].holds \in in_use /\ session[run[r].holds] # "closed"
    /\ \A i \in DOMAIN idle : idle[i] # run[r].holds
    /\ \A q \in Runs \ {r} : run[q].holds # run[r].holds

(* What a run has captured is backed: its raw page is stored under the     *)
(* run's tenant, record, event and audit entry agree, and no two captures  *)
(* share an idempotency key (run_pooled_observation).                      *)
CapturesAreBacked ==
  \A r \in Runs :
    /\ Len(run[r].audit) = Len(run[r].results)
    /\ \A i \in DOMAIN run[r].results :
         LET o == run[r].results[i] IN
         /\ <<RunTenant[r], o.event.artifact>> \in raw_store
         /\ o.record.artifact = HexDigest(run[r].audit[i]) /\ o.event.artifact = o.record.artifact
         /\ \A q \in Runs : \A j \in DOMAIN run[q].results :
              run[q].results[j].event.idempotency_key = o.event.idempotency_key => <<q, j>> = <<r, i>>

(* acquire raises BrowserPoolExhaustedError only while every one of        *)
(* max_size sessions is lent to some other run.                            *)
ExhaustedWhenAllLent ==
  [][\A r \in Runs : run'[r].at = "exhausted" /\ run[r].at # "exhausted" =>
       Cardinality({q \in Runs \ {r} : run[q].holds # NoSession}) = MaxSize]_observerVars

(* The pool counts what it lends, lends a session to one run at a time,    *)
(* backs what was captured, and is exhausted only when all of it is lent.  *)
PoolIsSafe ==
  /\ [](PoolTypeOK /\ NoSessionIsLost /\ LeaseIsExclusive /\ CapturesAreBacked)
  /\ ExhaustedWhenAllLent
=============================================================================

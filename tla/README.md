# A TLA+ verification of SAENA RAPID-7 / FORGE

This directory holds TLA+ models of the repository's core services, the TLC
configurations that check them on small instances, and proofs that TLAPS checks
for every instance. Every definition is translated from the Python source;
`PROJECT.json` maps each one to the lines it models.

Contents: [inventory](#1-inventory) · [how the models relate to the code](#2-modules-and-the-code-they-model)
· [runs](#3-runs) · [bounds](#4-bounds) · [fairness](#5-fairness) · [proofs](#6-proofs)
· [disagreements](#7-where-code-and-documentation-disagree) · [plan](#8-plan) · [left out](#9-what-is-not-modelled)

To check a run: `tlc -config PlanRace.cfg MCPlanContract`; to check the proofs of a
module: `tlapm PlanContractProofs.tla`.

## 1. Inventory

The repository is a Python monorepo of 24 logical services and their shared
packages. A customer site is observed, a change plan is proposed, humans approve
it, agents turn it into patches in isolated worktrees, quality gates judge the
patches, and after the customer deployed them an experiment decides whether the
change worked.

```
 acquisition ─► intelligence ─► plan-contract ─► agent-orchestrator ─► agent-runner ─► quality-eval ─► handoff
                                   │  ▲                                                                   │
                             outbox│  │policy-gate                                                  deployed by
                                   ▼                                                               the customer
                         event bus (drainer, topics, consumers) ◄── deployment confirmed ────────────────┘
                                   │
                                   ▼
              experiment-attribution: confirmation consumer ─► workflow ─► measurement pipeline ─► outcome
```

| Component | State it keeps | Operations | Interacts by | What is hard | What makes it correct |
|---|---|---|---|---|---|
| plan-contract-service | plans, plan states, decisions, proposer facts, audit trail, outbox rows | propose, decide, cancel, expire, execution check | HTTP handlers in a thread pool; calls the policy gate; writes the outbox | handlers interleave between store calls | a plan is approved, and may be executed, only with the recorded quorum; decisions are final; every settled state is audited and announced |
| approval policy (`domain/policy`) | none | transition, quorum, cancel, expire, execution guard | called by plan-contract and the orchestrator | two spellings of one person, the proposer as approver | two-person rule for high risk, nobody approves an own plan |
| outbox and bus (`domain/bus`, `domain/privacy`) | outbox rows, topics, dedup keys | record, drain, publish, dead-letter, consume | polled outbox, broker, handlers | at-least-once delivery, crashes between publish and mark | nothing lost, nothing private published, poison kept off the topics |
| confirmation consumer, measurement workflow | confirmation store; per experiment the binding confirmation, anchor, flags | consume, signal, pause, resume, abort, timer | bus, direct signal to a durable workflow | redelivery, conflicting confirmations, timer against abort | only a genuine, recorded confirmation starts a window; the first one wins; a decision waits for the window |
| measurement pipeline | four append-only stores: confirmations, windows, bundles, decisions | run_measurement | an activity that is retried and runs on several workers | a call dies between two stores; two calls of one run | a decision refers to the bundle of its own run; a pass is deserved; one window per experiment |
| agent-orchestrator | run state, plan state, seen decisions of a workflow | approve signal, run | durable workflow; starts the execution activity | signals before run(), repeated signals | the activity starts once, and only after a valid approval |
| agent-runner, hooks-runtime | worktree, audit chain, session | run patch units; hooks around tool calls | worktree, command executor, artifact gateway | a failure between write, commit, registration and audit; deadline and cancellation; nested shell commands | what is executed was approved and in scope; a refusal leaves no change; every outcome is audited |
| quality-eval | reports, matrix, job | evaluate gates, promote | reads tool reports | a missing result must not pass; limits at zero | promoted only when clean, every failure explained |
| policy-gate | rule set, decisions by key | authorize plan, authorize command | HTTP | nested wrappers; lost and late answers; a failing store | deny by default; an allow is on record before it is given; no wrapping hides a denied command (see section 7) |
| audit-ledger (`domain/audit`) | one hash chain per tenant, one for the system | append, read, verify | HTTP, SQL | the tail is read twice and extended in a third statement | one unbroken chain per scope, every acknowledged entry in it once, damage located |
| tenant-control | tenant records and status | create, suspend, reactivate, terminate, context | HTTP | long sequences of status changes | terminating is final; only an active tenant gets a context |
| artifact-registry | blobs by hash, manifests | put, get | HTTP, object store | blob stored without manifest | a reference resolves to the content it was given for |
| engine-adapter-gateway | registry, flags | call an engine | HTTP | – (one engine, a stub adapter) | only the permitted engine is called |
| forge-console-api | run store | create and list runs | HTTP to other services | – | role checks |
| chatgpt-observer | browser pool, budget, observation store | capture, schedule | threads over a pool | pool at its limit, sessions recycled and closed | no more sessions than allowed, no waiter forgotten |
| repository-intake, site-discovery | intake jobs; crawl frontier and inventory | intake; crawl | HTTP, jobs | repeated requests; budget at its limit | idempotent intake; a crawl ends within its budget |
| claim-evidence, entity-resolution, demand-graph, citation-intelligence | claim ledger; versioned graphs | append, evaluate, merge, build | library calls | conflicting versions | append-only, deterministic evaluation |
| outcome publisher, strategy-skill-bank, experiment ledger, qeeg | manifests; candidate pools; registrations; graph projection | publish, evaluate, register, replay | library calls | stored evidence changed or mixed up | designs stay; only verified evidence is published as a pass and learnt from |
| analytics-clickhouse, vector-store, SQL persistence | rows, vectors, transactions | append, read; upsert, delete, invalidate; all stores | database clients | insert and read-back are two calls; the server forgets tokens; row locks and deadlocks | duplicates are invisible; one active version; what a caller was told is stored |
| observability, forgectl, contracts, schemas, deploy, validation, evals | – | – | – | – | – |

The hazards, each at its source line and with the properties that cover it, are
in `PROJECT.json`.

## 2. Modules and the code they model

**PlanPolicy** is `domain/policy` as operators. The decisions on a plan are a
function from canonical actor ids, because `DecisionRecord.decision_key` holds the
canonical id. `Transition` is `transition()`: it returns the next state or
`Refused`, which stands for every policy exception.

**PlanContract** is the service. FastAPI runs its synchronous handlers in a thread
pool, and each store locks for one call, so *one action is one call*: `pc[w]` is
the next call of worker `w`, and `job[w]` what its handler has read. That a
decision is computed from reads made several calls earlier is thus part of the
model. One handler is the chain *SubmitDecision, GetState, GetFacts, Replay,
GateCheck, (AuditDeny), LoadAndDecide, RecordDecision, SetState, Audit, Emit*;
proposals share the last three. `set_state` overwrites and `record_decision` is an
atomic check-and-insert, as in the repositories. The policy gate is a
nondeterministic answer. `proposers` is a history variable.

**PlanLifecycle** is the abstract specification of one plan: drafted, submitted
once, voted on by others, settled once. `MCPlanContract` maps the service to it:
the phase is the stored state, the votes are the decision store, the author is the
proposer.

**OutboxBus** covers `OutboxPort`, `OutboxDrainer`, the publisher and
`IdempotentConsumer`. Rows are durable; what a drainer has listed and a consumer
has in hand is lost in a crash. Publishing and marking are two steps, and a publish may fail
before or after the broker appended the envelope. `Guard` keeps the three results the
drainer tells apart: pass, `PrivacyGuardError`, any other exception. The broker
delivers any envelope of a topic any number of times.

**Confirmation** is `validate_confirmation` (all checks, in their order) and the
window's deadline and end. It is shared by the next two parts.

**Measurement** composes the confirmation consumer, run by several workers, with the
confirmation store, the direct signal, and one `MeasurementWorkflow` per
experiment. The caller builds `prior_state` when it takes an envelope, which is long
before `put_confirmation`; the model keeps that gap. A workflow's waits are actions with
the wait condition as guard. A signal that was accepted by the workflow server is
durable. Replay makes a restart of a workflow worker invisible. The `WorkflowSignal` port is called with a tenant, an
experiment and a time (`SignalOf`), while the workflow's signal takes a whole `Accepted`; what stands between the two is
not in the repository. It is modelled as external (`AcceptedFor`): the adapter finds *some* stored confirmation that the
call fits. Nothing is assumed about which one, if an experiment has several.

**BGate** is the arithmetic: `compute_did` over sums and counts (exact, as in the
code before its last rounding) and `decide_b_verdict` with the augmenting-path
matching of `_max_independent_layers`, written as a recursive function (`augment` with the
state it threads through its nested calls).

**MeasurementPipeline** is `run_measurement`. Its four store calls are actions and
the computation between them is a function of the inputs, for it reads no store.
`Leave` ends a call anywhere: normally, by an exception, or because its worker died.
A manifest hash is modelled by what it covers, the set of entries. So two bundles share
a hash exactly when their entries are equal, which matters: the hash
does not cover the run id.

**ExecutionWorkflow**, with **JobKinds**, is the orchestrator: signals wait at the workflow server
and are handled at least once, in any order, also before `run()`; every one is validated
again with `PlanPolicy`. The activity may be retried. JobKinds holds the kinds, limits, status machine and deadlines.

**AgentRunner** is `PatchUnitRunner.run` for one job: every call to worktree, executor, artifact gateway and audit
chain is a step that may raise a runner error (handled) or anything else (ends the run where it is). Cancellation and
deadline are looked at where the code looks at them.

**AuditLedger** takes an append apart: the handler's read of the tail, building the entry, the ledger's own read,
the insert. `verify_chain` is checked on copies that were damaged. **PostgresStores** runs one- and several-call
transactions statement by statement at read committed, with row locks, the deadlock detector and aborts.
**ArtifactRegistry** stores a blob, then a manifest, and may stop in between, also because the manifest does not satisfy
its contract. **TenantControl** is one step per request.

**CommandPolicy** is the gate's unwrapping and classification of an argv: the roles of its words are a recursive function
over their places, and the recursion of `_classify_command` is a function of the level it has reached. What wraps a command
is a constant: `Wrapper` gives the words of a wrapper *and* the role each has according to the wrapper's own manual, so that
the engine may read them otherwise. `ReadAsMeant` holds where the two agree. **PolicyGate** is
the gate's handlers, decision store and callers with lost, damaged and late answers. **QualityEval** evaluates patches with
defects that come and go, in any patch that is clean without them. **HookRules** normalises a command line to a set of
segments, level by level and text by text (a `$( )` is a text of its own), and applies the rules. Beside it stands what the
shell makes of the line: the commands it runs (`CommandsIn`) and the files it writes (`WritesOf`); **HooksSession** runs a session through `session_start`, the tool hooks,
sub-agents and `before_handoff`.

**BrowserPool** has threads that wait on the pool's condition with a deadline, browsers that die and a pool that closes.
**ObservationSchedule** plans and replays a measurement cell and captures under a budget, for the permitted engine only.
**SiteDiscovery** crawls, and remembers which routes were fetched past the deadline. **RepositoryIntake** runs concurrent
intake jobs call by call; a body that the web framework refuses never becomes a job and is not audited. **ClaimLedger** lets time pass between its operations.
**IntelligenceGraphs** builds, stores and announces entity and demand graphs. **AnalyticsStore** appends with insert
tokens to a server that keeps the last `DedupWindow` of them; a token counts for the month of the row, the partition it
lies in. **VectorStore** runs upsert, delete and invalidate
statement by statement and compares with the memory store when one client works alone. **ExperimentLedger** and
**OutcomeLearning** hold registered designs, sealed evidence manifests, the outcome publisher and the intake guard of
the skill bank, which scans a payload except for what lies below `source_outcome` (`ScannedLeaves`); stored copies may be
altered at any time. The evidence is that of registered experiments, so
`OutcomeLearning` extends `ExperimentLedger` and states `EvidenceStands` for both.

`MCExecution`, `MCStores`, `MCGates` and `MCKnowledge` each put several components that share no state in one run: the
variable `part` picks the one a behaviour exercises, the others rest. Nothing is lost by this, as their steps commute.

**MC…** modules give the constants values; the specifications and properties that theorems name are in the components' own modules. **…Proofs** modules hold the theorems.

Mutated forms of some definitions stand next to them, marked *Mutant*. Each is a
plausible slip in the code, and each makes TLC report the property it is meant
for, so no property holds merely by the shape of the model.

## 3. Runs

A run's property is often a conjunction of named parts, each defined and commented by itself in its module; the table
names the parts. All are about hazards listed in `PROJECT.json`.

| Run | Property | What holds |
|---|---|---|
| `plan_race` (two handlers at a time on a high-risk plan, re-proposals) | `SettledIsBacked`, `ExecutionAllowedIsBacked` | a settled state and an allowed execution are backed by recorded decisions |
| | `SettledIsOnRecord` | a settled state is announced (`SettledIsAnnounced`) and audited (`StateIsAudited`) by the handler that set it |
| | `DecisionsStand` | no decision is replaced |
| `plan_serial` (one handler at a time, one proposal per plan) | `FollowsLifecycle` | the service implements `PlanLifecycle` |
| | `OutcomeIsOrderly` | a quorum settles the plan, one outcome event, a chained trail, no proposer approves under any spelling |
| `plan_terminal_race` | `TerminalIsFinal` | *violated:* a terminal state is replaced |
| `bus_safety` (two drainers, two consumers, failures, a crash) | `RoutingIsSafe` | private aggregates reach no topic, poison no main topic |
| | `NothingLost` | no row is marked before its envelope is out |
| | `HandlingIsBounded` | a seen key was handled; handler runs are bounded by consumers and crashes |
| `bus_live` | `OutboxDrains` | publishable envelopes are handled, every row is marked |
| `measure_safety` (genuine, conflicting, second and forged confirmations, redelivery) | `BoundIsGenuine`, `FirstConfirmationWins`, `DecidedAfterWindow` | only a genuine, recorded confirmation of the experiment binds, and the window is anchored at the receipt of such a one; the first wins; a decision waits for the window |
| `measure_live` | `WindowsEnd` | a bound window is decided unless it stays paused; an abort ends it |
| `pipeline_safety` (three calls, two at a time, fifteen inputs, dying anywhere) | `DecisionIsBacked`, `ReturnedIsRecorded`, `OneWindow`, `AppendOnly` | a decision refers to the bundle of its own run; what is returned is recorded; one window per experiment; no store changes what it holds |
| | `VerdictIsRight` | a pass satisfies a restatement that uses neither gate nor reason codes, and the matching is maximum, compared with a search over all sets of edges |
| `execution` | `StartIsEarned` | the activity starts once, after a quorum of signals; a refused signal blocks nobody |
| | `RunnerKeepsApproval` | commits are within the approval, a refused unit leaves a clean worktree, at most one write or command is carried out after a stop |
| | `RunnerReportsTruth` | every outcome is audited as it was, a success is complete |
| | `WorkIsFinished` | an accepted approval is executed, a job that began ends |
| `stores` | `ChainsAreTrue` | chains verify, an acknowledged entry is stored once, damage is located, nothing forbidden is stored |
| | `RowsAreTrue` | what a caller was told is stored, paired writes stay together, put-once sticks, transactions end |
| | `RegistryIsTrue` | a manifest has its blob, registrations stick, a tenant is served its own |
| | `TenantsAreGated` | terminating is final, only active tenants are handed out |
| `gates` | `CommandsAreJudged` | however often a command is wrapped (up to `MaxWraps`) in wrappers the engine's tables describe, a denied one is found, and the denylist precedes the allow rules |
| | `GateIsOnRecord` | an allow is on record, decisions stick, a caller gets an answer |
| | `QualityIsEarned` | a promoted patch is clean, a failure is explained |
| | `HooksHold` | a session that goes on has explained every changed file and call, a handoff is earned and deploys nothing as deep as the hooks look, nesting hides no rule, writes named in a spelling the hooks read are in scope |
| `knowledge` | `PoolIsSafe` | no session is lost or leased twice, captures are backed, the pool gives up only when all are lent |
| | `ScheduleIsKept` | a schedule keeps its rates and is refused only when full; a capture keeps its budget |
| | `CrawlIsKept` | a crawl keeps its bounds, past its deadline it goes on with the route it had begun only, and its inventory is whole |
| | `IntakeIsVerified` | a stored manifest was verified, an accepted job is on file, an ended job is audited and cleaned up |
| | `AnalyticsIsLogical` | pages show each row once, an answered append is kept, duplicates within a month come from far apart, reads are stable |
| | `VectorsAreVersioned` | the active version is the newest, upserts never collide, history only grows, memory and SQL store agree |
| | `ClaimsAreCurrent` | the ledger verifies and only grows, publishability is that of the latest evidence, the projection agrees |
| | `GraphsAreVersioned` | a version names its content in any input order, clusters divide the material, an alias has one entity |
| | `EvidenceStands` | designs stay, edits are found where they are; a manifest changed after its sealing verifies for nobody; a published pass rests on a manifest that verified, a card that is learnt from on the entries sealed under the hash it cites |

Every property has a mutant in `PROJECT.json`; while the models were written, each *part* was also checked against a
mutated definition of its own.

Deadlock is not checked: a plan, a workflow, a call or a session may end, and the bounds below end
behaviours.

## 4. Bounds

* `MaxRequests`: 4 in `plan_race`. A proposal, two decisions and a fourth
  request (a cancel, an execution check, a re-proposal or a repeated decision) reach
  every race of two handlers. 5 in `plan_serial`, over a normal and a high-risk plan.
  Three people under four spellings: a proposer and the two approvers that
  high risk asks for, one of them spelled in two ways.
* `MaxCrashes`: 1, in every position. Two drainers and two consumers make all pairwise races. The
  envelopes are an ordinary one, a poisoned one, an aggregate at, and one
  below its threshold (also poison), and one whose count is not an `int`.
* `MaxTime`, `WindowDays`, `MaxDeployDelay`: the window ends before time does, and a
  confirmation can come in time, on the last day, or late. `MaxFailures`: one failed
  signal suffices to lose it; the safety run has two workers and four
  confirmations in its place, as a failed call only drops a task.
* `MaxCalls`: 3, enough for a call, a concurrent one and a retry after a crash. The inputs of
  `MCMeasurementPipeline` differ from a passing one in what one step of the pipeline
  looks at: eligibility, binding, confirmation, deadline, window, repeats, bases,
  provenance. Two evidence bases and crossed
  layers are the smallest case in which a greedy matching is not maximum.
* `execution`: four deliveries of seven signals (a quorum, half of one, a rejection, the proposer's own, a padded, a
  forged and a foreign one), two attempts of the activity; jobs of two units with up to two
  files, three lines and two commands each reach both budgets, both kinds of exception at each call, and a clock of two
  ticks passes every deadline.
* `stores`: two writers make every race for a tail, two entries per chain a second round, one damage each kind of damage; three
  transactions of two clients meet in a row, in both orders of two rows.
* `gates`: 21 ways to wrap, of which eight are read otherwise by the engine than by the program that is called; 13 wrappings exceed the engine's own limit on unwrapping; each caller asks twice; patches have
  up to two defects at a time; a session makes two calls, of each command and write the rules tell apart, and every
  command of plain words is nested in all ways to one level beyond the limit of three; handoffs and calls with nested `$( )`
and with redirections that the hooks do not read are among the inputs.
* `MaxCaptureQueries`: 3, one more than a budget allows.
* `knowledge`: two sessions, used twice each, for three runs, so that somebody waits; a day has ten seconds, so that the
  schedules around each limit can be enumerated; a dedup window of one overflows with the second insert; a month has three ticks (`MonthLength`), so that
rows fall into two; three
  clients of the vector store, for a chain of waiting transactions; two builders, crawls and claims, three intakes.
* Unbounded in the theorems: all sets of plans, actors, workers, drainers,
  consumers, confirmations, inputs, jobs, runs, sessions, clients, requests, and the value of every bound.

Symmetry is used for workers, drainers, consumers and callers, in runs
without liveness properties only.

## 5. Fairness

* `OutboxBus`: drainers poll for ever and work their batch off (weak fairness of
  listing, suppressing, aborting and marking). Publishing, delivering and handling are
  strongly fair: an attempt that is made again and again succeeds some time. This is
  what the drainer's docstring assumes of a broker that comes back; the retry itself
  is in the code. No fairness on failures and crashes.
* `Measurement`: time passes, the workflow server runs every task it has, a worker
  finishes what it began, and an envelope that was not acknowledged is delivered
  again (strong fairness, as other envelopes may occupy the worker). Nobody has to
  pause, resume or abort.
* `ExecutionWorkflow`: the workflow server runs a due task, and an activity ends. Signals need not come.
* `AgentRunner`: the runner's process goes on (weak fairness of its step; the calls it makes are bounded by timeouts in
  the executor). Nobody has to cancel.
* `PostgresStores`: a client goes on with its transaction when it is not waiting for a row; the server breaks deadlocks.
* `PolicyGate`: a client's timeout fires (`GiveUp`); the gate itself is not assumed to answer.
* `PlanContract`, `MeasurementPipeline`, `AuditLedger` and the components of `knowledge` make no liveness
  claim: a client or a
  worker may always go away.

## 6. Proofs

Each proof module states an inductive invariant, proves that the initial states
satisfy it and that every action preserves it, one lemma step per action, and derives the
properties. An invariant that TLC can evaluate was checked on the run's instance before it was proved (`SoloInv` quantifies over all keys, and is not such a one). `TupleLemmas` holds what
the proofs have in common: a set of naturals has a least element, tuples, and counting in finite ordered sets.

| Module | Theorems | Inductive invariant, and why it is needed |
|---|---|---|
| `PlanContractProofs` | `TypeCorrect`, `DecisionsAreFinal`, `SettledStatesAreBacked`, `ExecutionIsBacked` | `TypeInv` adds what a handler has in its job at each step (`Shape`). `QuorumInv` adds that a handler that is *about* to write an outcome is backed by the decision store at that time: an outcome computed from old reads stays justified because decisions only accumulate (`QuorumGrows`), and the proposer it was computed for stays among the proposers. |
| | `SettledIsAlwaysOnRecord` | `RecordInv`: a handler past `set_state` still owes its audit record and its event, and until they are written it is the one that a settled state may be traced to. |
| | `SerialOutcomeIsOrderly`, `SerialFollowsLifecycle` | For one worker and no second proposal (`OneAtATime`): `SerialInv` says what the worker has read is still what the stores hold. The refinement maps each step of the worker to one step of `PlanLifecycle` or to a stutter: `ProposePlan` ... `SetState` take the abstract steps, reads, audit and events none. |
| `MeasurementProofs` | `TypeCorrect`, `BindingIsGenuine`, `DecisionWaits`, `FirstWins` | A confirmation in a task is genuine and stored (`TaskIsGenuine`, `SignalIsStored`), so what the adapter finds for the call is, and stays so in the inbox and the binding (`InboxIsGenuine`): the store never replaces one, and all stored ones of an experiment are genuine; `PhaseInv` carries the deadline and the end of the window from one wait to the next. |
| `MeasurementPipelineProofs` | `TypeCorrect`, `BackedDecisions`, `RecordedOutcomes`, `SharedWindow`, `StoresAppendOnly` | `BundleIsStored` and `WindowIsStored`: a call past a store call finds there what it put, whatever other calls did since. |
| | `RecordedPassIsEntitled`, `ReturnedPassIsOwn` | `ComputedInv`: every outcome in a call or a store is what the pipeline computes from some inputs; what a computed pass requires is then a fact about operators. |
| | `VerdictIsAlwaysRight` | Adds that `_max_independent_layers` is maximum for any finite set of bases. A call of `augment` either lengthens an alternating path or leaves a set of visited bases that is closed: every layer that holds one of them has all its own bases among them. When no layer is left to try, the layers that are stuck and the visited bases form a cover of the edges no larger than the matching (König), and no matching exceeds a cover. That the nested calls have answers at all is induction over the bases not yet visited. |
| `ExecutionProofs` | `StartIsAlwaysEarned` | `StartInv`: the workflow's plan state is backed by the decisions it accepted, and the activity runs only past that. |
| | `RunnerAlwaysKeepsApproval`, `RunnerAlwaysReportsTruth` | `RunnerInv` says step by step what the runner has checked of its job (`JobInv`), what the unit in hand has written so far (`UnitInv`), what it may still do after a stop (`OverdueInv`), and how the trail so far reads (`OutcomeInv`). |
| | `GateAlwaysHolds` | `GateInv`: an answer on the wire is as true as one that was heard, so a late allow still has its approval in the decision store, which never replaces one. |
| | `QualityIsAlwaysEarned` | `QualityInv`: the verdict at hand is the right one for the patch as it was evaluated. The content is per gate: each is nonzero just when one of its defects is there, also at the thresholds of coverage and performance. |
| | `CommandsAreAlwaysJudged` | `CommandInv`: a command comes to the verdict of its innermost one in at most one level more than it has wrappers, and so does what an `env -S` in front of it would split off. Each wrapper that the tables describe adds one level and keeps both; that it does is proved from the roles of its words, for any words (`ReadAsMeant`), and not for a list of spellings. Past the limit the classifier denies, so only harmless commands depend on the count. |
| | `HooksAlwaysHold` | `HooksIInv`: also, a session that has not begun is empty, and what was handed off is one of the handoffs. `NestingHidesNoRule` is a fact about `normalize_command`, by its four levels (`SegmentsByLevel`): nesting leaves the words inside of it, and nothing but the mark of an unparsed line beyond the limit. |
| `StoresProofs` | `TenantsAreAlwaysGated`, `RegistryIsAlwaysTrue` | `TenantInv`: a stored tenant has its own namespace, and one that was ever terminating still is. `RegistryInv`: a call past the blob store finds its blob there. |
| | `ChainsAreAlwaysTrue` | `LedgerInv`: chains are linked unless damaged (`LinkInv`), damage is one entry at a known place (`DamageInv`), and a writer that has read a tail holds an entry that fits there or nowhere (`WriterInv`). |
| | `RowsAlwaysHold` | `StoresInv`: a transaction holds the locks of the rows it has written, so what it was told stays true until it ends, and both rows of a pair are written by the same transaction. |
| | `OutboxTypeCorrect`, `SuppressedStaysHome`, `MainIsDeclared`, `RoutingIsAlwaysSafe`, `NoEnvelopeLost`, `SeenKeysWereHandled`, `HandlerRunsBounded`, `HandlingIsAlwaysBounded` | `RoutingInv`: a row waiting for its mark is settled already. `HandledInv`: a consumer about to mark has run the handler. `CountInv` counts: while a key is unseen, its runs are the consumers about to mark it plus crashes; once seen, the consumers still in hand can only add to it. |
| `KnowledgeProofs` | `IntakeIsAlwaysVerified`, `CrawlIsAlwaysKept` | `IntakeInv` and `CrawlInv` say what a job or crawl has established at each step, so that what it stores is verified and whole whichever call raises afterwards. `OverdueInv`: once a route was fetched late the clock is past the deadline, so no other route is begun. |
| | `PoolIsAlwaysSafe` | `PoolInv`: what is lent is what runs hold, each session one run (`LeaseInv`); the open sessions are the idle and the lent ones (`SessionsInv`); the count of created sessions is their number until the pool is closed (`BooksInv`). A run whose wait is over looks once more, so it gives up only at the full count with nothing idle. |
| | `ScheduleIsAlwaysKept` | The content is arithmetic: the stride times `max_per_day` covers a day (`StrideFacts`), so the slots of a sliding day have consecutive numbers (`DaySlotsFollow`); slots of one lane are `max_concurrent` numbers apart (`LanesApart`); shifting maps the places of one arm to those of another (`ArmsEven`). `ScheduleInv` adds what a capture run at each step knows. |
| | `GraphsAreAlwaysVersioned` | `GraphInv`: what is stored or announced is the graph some builder made of its request. That content and version do not depend on the input order is a fact about sorting a set by a rank, and about the clusters of the material. |
| `EvidenceProofs` | `EvidenceAlwaysStands` | `ExperimentInv`: the ledger is linked, and a copy is either untouched or such that verification finds the edit. `LearningInv`: a stored manifest keeps the hash, and unless it was sealed anew the entry commitments, of the entries it was first sealed for. That verification stops at the first difference is induction over data, done with a least counterexample (`LeastNumber`). |
| | `VersionsAlwaysHold` | `VectorInv`, for any number of clients: what a transaction changed is a committed row, now superseded or gone; what it inserted is the newest of a record whose advisory lock it holds, with all older versions superseded in its view; and two transactions hold different locks, ids and rows (`Apart`). Hence the unique index is never asked to refuse. |
| | `VectorsAreAlwaysVersioned` | `VectorInv` with `SoloInv`, for a client that works alone. `MemoryAgrees` compares the two stores between calls only, so it is not inductive: `Place` says at which statement of which record it is and that the records so far are its own, and `Stage` that its own view of the table agrees with what the in-memory store has made of those records (`TableAgrees`; `HalfWay` between superseding a version and inserting the next; `Deleting` and `Invalidating` while rows are left). `AnsweredAlike` keeps the answers to past calls, and `DimsKnown` says that a record with a history has its collection's dimension on file. The content is counting: the versions of a key, listed by id, are the history, entry by entry, and inserting, superseding, deleting and invalidating do the same to both. |
| | `LedgerAlwaysHolds`, `ClaimsAreAlwaysCurrent` | `LedgerInv`: the entries are linked, and what the last entry of a claim says is what its evidence said when it was last evaluated. `OrderInv` adds that evidence comes behind its claim, so that the projection, a recursive function over the entries, has at each place folded just the entries before it. |
| | `AnalyticsIsAlwaysLogical` | `AnalyticsInv`: the tokens a table knows are those of its last rows (`TokensOK`), so two rows of one event are further apart than the window (`FarApart`); a writer that was answered has its row there (`WriterOK`). Pages are prefixes of a sorted set, whose order is proved by counting smaller keys. |

Assumptions are the named `ASSUME`s of the modules: types of the constant functions and of requests
(`RunnerAssumption`, `LedgerAssumption`, `CrawlAssumption`, `BundlesAreTuples`, `PoolAssumption`,
`ScheduleAssumption`), finiteness where a cardinality is taken, and positive window and repeat counts.
`VectorAssumption`, `AnalyticsAssumption` and `GraphAssumption` give the workloads their types, ranks being injective;
`EvidenceIsDated`, `MaxAsksAssumption`, `PlanFactsAssumption` and `CallsAssumption` are of the same sort, and
`BGateAssumption` makes the bases a finite set. `QualityAssumption` says that a clean patch is one, by its reports.
`BaseAssumption` says what an innermost command is: its first word is no wrapper, shell, option or assignment, and it has
no `-S` of its own; `WrapperAssumption` gives the words of a wrapper their types and roles, any words. `ToolCallAssumption` says what it means
that a call names a file: as a path it is given or as a file that some command of its line writes, as the shell reads it,
whether the hooks find it or not.
`StoresAssumption` also says how callers use the stores: a paired write names the same two rows wherever it
occurs. `ScheduleAssumption` says that the powers of a positive factor are positive, as the prover does not know
exponents. TLC evaluates all of them on the runs' constants.

The type invariants of the first four modules are theorems and no longer part of a run.

Only model-checked, and why:

* Liveness (the provers have no fairness): `OutboxDrains`, `WindowsEnd`, `WorkIsFinished`, `TransactionsEnd` in `RowsAreTrue`
  (its safety part `RowsHold` is proved), `CallersGetAnAnswer` in `GateIsOnRecord` (its safety part `GateHolds` is proved).
* `TerminalIsFinal`, which does not hold (section 7).

## 7. Where code and documentation disagree

With a run that shows it (quoted in `PROJECT.json` under `findings`): a terminal plan state
is replaced by a handler that read the state before (`plan_terminal_race`).

With a property that is defined and does not hold; adding it to the configuration named here shows a counterexample:

* `StoredStartsClock` (`MeasureLive.cfg`): a confirmation whose signal failed is stored, comes again as a duplicate, and is
  never signalled.
* `AlwaysReturns` (`PipelineSafety.cfg`): a second run over the same observations seals a bundle with the same hash for
  another run, and `run_measurement` raises instead of returning an outcome.
* `PassIsComplete` (`PipelineSafety.cfg`): a pass with an incomplete bundle.
* `OneOwner` (`Stores.cfg`): two tenants that both find an idempotency key free both store it.
* `AnchorIsOwn` (`MeasureSafety.cfg`): the port names an experiment and no confirmation, so with two confirmations of one
  experiment the window may be bound by one and anchored at the receipt of the other.
* `EveryWrapperIsSeenThrough` (`Gates.cfg`): one table of options serves all wrappers. `-n`, `-c` and `-p` are taken to have
  a value, which swallows the program behind `sudo -n`, `setsid -c` and `time -p`; `-k` and `-o` are not, so `timeout -k`
  and `stdbuf -o` are left too early; `-lc` is no `-c`; and an `-S` is taken for that of `env`. A denied command behind
  these is not found, where `engine.py` (124-126) says "never to a false ALLOW of a real wrapper already listed here".
* `EveryNamedWriteInScope` (`Gates.cfg`, as a PROPERTY): `a>z`, `2>z` and `&>z` are not read as redirections by
  `extract_write_targets`, nor is a `>` that follows an option of `git` or `env` which takes a value. A change outside of the
  patch units is found after the call, by `post_tool_use`.
* `HandoffDeploysNothing` (`Gates.cfg`): `before_handoff` takes no finding from a command that is nested deeper than
  `normalize_command` looks, while `pre_tool_use` refuses it.
* `PassCitesItsEvidence` (`Knowledge.cfg`): the outcome publisher verifies the manifest it finds but does not compare its
  hash with the one it cites, so a manifest sealed anew or mixed up under the key is accepted; the skill bank compares.
* `AdmittedIsCleanThroughout` (`Knowledge.cfg`): further names below `source_outcome` are dropped unscanned by
  `evaluate_payload`, where the docstring of `intake.py` (63-67) announces "a hard construction-time rejection, not a
  silently-ignored pass-through".

Met while modelling, without a run of their own:

* An aggregate whose count is `3.0` raises an error that is no `PrivacyGuardError` and stops every
  drain of the rows behind it; `OutboxDrains` is checked without such a row.
* Proposing a settled plan again resets it to WAITING_APPROVAL and replaces the
  recorded proposer; after a proposal by somebody else, the first proposer's approval counts.
* Two concurrent approvers may each miss the other's decision: both are recorded, and the plan waits until
  an identical decision is sent again. Two concurrent last approvals may both announce the
  outcome. (`QuorumSettles` and `OneOutcomeEvent` hold for one handler at a time.)
* Two consumers, or a crash before the mark, run a handler twice, although the
  consumer's docstring says exactly once. `RunsBounded` is what holds.
* A confirmed signal that is handled before `run()` began is refused, for the expected
  hash is still empty. Two workers may signal the same confirmation twice.
* An abort that arrives while `derive_window` or `collect_and_decide` runs leaves no trace.
* Only a pass is demoted when binding or confirmation failed: a fail is reported as a
  fail, where the pipeline's docstring announces an undetermined outcome.
* `open_window` and `append_decision` can raise out of `run_measurement` like `evidence_store.put`.
* A confirmation occupies its key before it is validated, so a rejected one makes
  a later valid one under the same key a conflict.

* A rejected plan's workflow waits for ever: `run()` waits for EXECUTING, and every later signal is refused.
* An exception that is no runner error leaves the worktree with its writes and no audit record.
* The diff budget is compared before the commands run, so what a command writes is not counted.
* The quality matrix presented at a handoff may be older than the last change.
* An intake whose put loses a race is answered but not audited. The last writer of a site inventory wins.
* The publishability of a claim is stored when evidence changes and grows stale with time alone.
* The rate cap of a schedule is per schedule: two schedules of one tenant are not counted together.
* `graph_version` of an entity graph covers neither aliases nor ownership; demand clusters whose locales differ only in
  spelling share an id, and order and version then depend on the input order.
* The SQL vector store answers a replay with another dimension without the `DimensionMismatchError` the port promises; the
  memory store keeps the first records of a refused batch where SQL rolls back. It also takes a collection's dimension
  from the first record that comes, and SQL takes it from the table, so that one accepts an odd first record and the other
  refuses it; `MemoryAgrees` is about collections whose dimension is the table's (`SameDimension`).
* An outcome payload that breaks its contract raises pydantic's own error from the constructor, before the
  `PayloadValidationError` of `_revalidate`.
* A failure between `set_state`, the audit record and the event of a plan leaves the state without them;
  `SettledIsOnRecord` speaks of the handler that is on its way to them.
* The artifact registry's comment says that a manifest which breaks its contract is "mapped to 400 below"; nothing maps it,
  and it ends as a 500 when the blob is already stored.
* `verify_ledger` does not look at the stored `content_fingerprint` of an entry: a copy in which only that was changed
  verifies. `EditsAreFound` is about everything else.
* Deleting vectors takes the versions that the statement sees: one that a concurrent upsert commits meanwhile stays.

## 8. Plan

Modelled: every service with state of its own. Proved: the safety of all passing runs (section 6). What is left are models
of the parts that are listed as partly modelled in `PROJECT.json`: the inside of `bind_experiment`, the observation adapter,
and roles.

The composition of `ExecutionWorkflow` with `PlanContract`, whose approved event carries the approval, waits for code that
connects them: the orchestrator takes its signals from a client, and no consumer forwards the event.

## 9. What is not modelled

* Parsing, hashing, schemas, HTTP status codes and wording: a request that is refused before it
  touches a store is not a step. A hash is the content it covers.
* More than one tenant in `PlanContract`: the tenant is part of the hashed plan. Tenants are present in the stores.
* The inside of `bind_experiment`: a submission is described by which check it fails.
* Rounding to the last decimal in `compute_did`; the verdict depends on the sign of the exact value.
* Text: how a shell or `shlex` splits a line, Unicode normalisation, secret patterns and keyword matching are constant
  functions or part of the input. The base commands of `CommandPolicy` carry no option that a wrapper would read as its own.
* Numbers of similarity search, and the SQL and query text of the adapters.
* Legacy executors of the analytics store are taken to have a single writer; intake jobs are taken to run as several replicas.
* Services without control to check: URL and owner normalisation (citation-intelligence), envelope building, tracing and
  metrics, the command-line client, generated schemas, charts and scripts; the engine gateway (one permitted engine and a stub) and the
  console API (role checks and a dictionary). Five services are named in the design and hold no code.

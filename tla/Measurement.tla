----------------------------- MODULE Measurement ----------------------------
(***************************************************************************)
(* From a deployment confirmation on the bus to a decided measurement:     *)
(* DeploymentConfirmedConsumer (by several workers), the confirmation      *)
(* store, the direct signal, and one MeasurementWorkflow per experiment.   *)
(*                                                                         *)
(* The bus delivers at least once: an envelope that was not acknowledged   *)
(* comes again, and one that was may come again too.  The caller builds    *)
(* prior_state from the store when it takes the envelope.  A signal the    *)
(* workflow server accepted is durable and is handled in order.  Workflow  *)
(* state survives worker restarts by replay, so restarts are stuttering.   *)
(***************************************************************************)
EXTENDS Confirmation, Sequences

CONSTANTS
  Workers,
  MaxTime,       \* bound: the last day
  MaxFailures    \* bound: failed signal calls and consumer crashes

ASSUME MeasurementAssumption == MaxTime \in Nat /\ MaxFailures \in Nat

VARIABLES
  now,          \* the day
  store,        \* store[k]: the confirmation stored under key k, or None
  acked,        \* confirmations whose consume() returned
  task,         \* task[w]: [step, conf, at] of worker w in consume()
  failures,
  inbox,        \* inbox[x]: confirmed signals accepted for workflow x
  phase,        \* phase[x]: where run() of workflow x stands
  binding,      \* binding[x]: the confirmation that binds the window, or None
  anchor,       \* anchor[x]: the server_received_at it came with
  paused, aborted, conflicts,
  outcome       \* outcome[x]: the MeasurementOutcome, or None

consumerVars == <<store, acked, task, failures>>
flagVars == <<paused, aborted>>
bindVars == <<binding, anchor, conflicts>>
workflowVars == <<phase, bindVars, flagVars, outcome>>
vars == <<now, consumerVars, inbox, workflowVars>>

Step == {"idle", "put", "signal"}
Task == [step : Step, conf : Confirmations \cup {None}, at : Nat]
NoTask == [step |-> "idle", conf |-> None, at |-> 0]
Signal == [conf : Confirmations, at : Nat]
Phase == {"absent", "created", "confirm", "derive", "window", "resume", "decide", "done"}
Outcome == {"decided", "deployment_late", "aborted"}

TypeOK ==
  /\ now \in Nat
  /\ store \in [StoreKeys -> Confirmations \cup {None}]
  /\ acked \subseteq Confirmations
  /\ task \in [Workers -> Task]
  /\ failures \in Nat
  /\ inbox \in [Experiments -> Seq(Signal)]
  /\ phase \in [Experiments -> Phase]
  /\ binding \in [Experiments -> Confirmations \cup {None}]
  /\ anchor \in [Experiments -> Nat]
  /\ paused \in [Experiments -> BOOLEAN]
  /\ aborted \in [Experiments -> BOOLEAN]
  /\ conflicts \in [Experiments -> Nat]
  /\ outcome \in [Experiments -> Outcome \cup {None}]

Init ==
  /\ now = 0
  /\ store = [k \in StoreKeys |-> None] /\ acked = {}
  /\ task = [w \in Workers |-> NoTask] /\ failures = 0
  /\ inbox = [x \in Experiments |-> <<>>]
  /\ phase = [x \in Experiments |-> "absent"]
  /\ binding = [x \in Experiments |-> None] /\ anchor = [x \in Experiments |-> 0]
  /\ paused = [x \in Experiments |-> FALSE] /\ aborted = [x \in Experiments |-> FALSE]
  /\ conflicts = [x \in Experiments |-> 0]
  /\ outcome = [x \in Experiments |-> None]

Tick ==
  /\ now < MaxTime
  /\ now' = now + 1
  /\ UNCHANGED <<consumerVars, inbox, workflowVars>>
-----------------------------------------------------------------------------
(* DeploymentConfirmedConsumer. *)

(* RegistrationLookup: the registration hash together with the tenant.     *)
Lookup(c) ==
  LET v == Claim[c] IN
  IF v.hash # None /\ Registration[v.hash].tenant = v.tenant THEN v.hash ELSE None

ConsumeVerdict(c) ==
  IF Lookup(c) = None THEN "unknown_registration"
  ELSE Verdict(c, Lookup(c), now, store[KeyOf(c)])

(* consume() up to the verdict: only an accepted confirmation goes on, a   *)
(* duplicate or a rejection returns.                                       *)
Consume(w, c) ==
  /\ task[w] = NoTask
  /\ IF ConsumeVerdict(c) = "accepted"
     THEN /\ task' = [task EXCEPT ![w] = [step |-> "put", conf |-> c, at |-> now]]
          /\ UNCHANGED acked
     ELSE /\ acked' = acked \cup {c}
          /\ UNCHANGED task
  /\ UNCHANGED <<now, store, failures, inbox, workflowVars>>

(* Mutant: the last writer wins.                                           *)
PutConfirmationBlind(w) ==
  LET c == task[w].conf IN
  /\ task[w].step = "put"
  /\ store' = [store EXCEPT ![KeyOf(c)] = c]
  /\ task' = [task EXCEPT ![w] = [step |-> "signal", conf |-> c, at |-> task[w].at]]
  /\ UNCHANGED <<now, acked, failures, inbox, workflowVars>>

(* put_confirmation: stored, found identical, or a conflict that leaves    *)
(* consume() as an exception.                                              *)
PutConfirmation(w) ==
  LET c == task[w].conf IN
  /\ task[w].step = "put"
  /\ IF store[KeyOf(c)] \in {None, c}
     THEN /\ store' = [store EXCEPT ![KeyOf(c)] = c]
          /\ task' = [task EXCEPT ![w] = [step |-> "signal", conf |-> c, at |-> task[w].at]]
     ELSE /\ task' = [task EXCEPT ![w] = NoTask]
          /\ UNCHANGED store
  /\ UNCHANGED <<now, acked, failures, inbox, workflowVars>>

OnRecord(c) == store[KeyOf(c)] = c

(* The call of the WorkflowSignal port: a tenant, an experiment and a      *)
(* time, and not the confirmation.                                         *)
SignalOf(w) ==
  LET c == task[w].conf IN
  [tenant |-> Claim[c].tenant, experiment |-> ExperimentOf(c), at |-> task[w].at]

(* External: the adapter behind the port, which is not in the repository,  *)
(* has to give the workflow a whole Accepted.  It is taken to look one up  *)
(* in the confirmation store, by all that the call tells it.               *)
AcceptedFor(call) ==
  {c \in Confirmations :
     OnRecord(c) /\ Claim[c].tenant = call.tenant /\ ExperimentOf(c) = call.experiment}

Running(x) == phase[x] \notin {"absent", "done"}

(* signal_confirmed, accepted by the workflow server: the adapter passes   *)
(* on some confirmation that the call fits.                                *)
SignalConfirmed(w) ==
  LET call == SignalOf(w)
      x == call.experiment
  IN
  /\ task[w].step = "signal"
  /\ Running(x)
  /\ \E c \in AcceptedFor(call) :
       inbox' = [inbox EXCEPT ![x] = Append(@, [conf |-> c, at |-> call.at])]
  /\ acked' = acked \cup {task[w].conf}
  /\ task' = [task EXCEPT ![w] = NoTask]
  /\ UNCHANGED <<now, store, failures, workflowVars>>

(* The call fails, or the worker crashes: the envelope is not acked.       *)
ConsumeFails(w) ==
  /\ task[w].step # "idle"
  /\ failures < MaxFailures
  /\ failures' = failures + 1
  /\ task' = [task EXCEPT ![w] = NoTask]
  /\ UNCHANGED <<now, store, acked, inbox, workflowVars>>

(* There is no running workflow to signal: the call raises.                *)
SignalNobody(w) ==
  /\ task[w].step = "signal"
  /\ ~Running(ExperimentOf(task[w].conf))
  /\ task' = [task EXCEPT ![w] = NoTask]
  /\ UNCHANGED <<now, store, acked, failures, inbox, workflowVars>>
-----------------------------------------------------------------------------
(* MeasurementWorkflow. *)

Create(x) ==
  /\ phase[x] = "absent"
  /\ phase' = [phase EXCEPT ![x] = "created"]
  /\ UNCHANGED <<now, consumerVars, inbox, bindVars, flagVars, outcome>>

(* run() begins: from here on the expected registration hash is known.     *)
Run(x) ==
  /\ phase[x] = "created"
  /\ phase' = [phase EXCEPT ![x] = "confirm"]
  /\ UNCHANGED <<now, consumerVars, inbox, bindVars, flagVars, outcome>>

(* Mutant: a conflicting confirmation takes the window over.               *)
DispositionLastWins(x, c) ==
  IF phase[x] = "created" \/ Claim[c].hash # x THEN "refused" ELSE "start"

(* classify_confirmation_signal; before run() the expected hash is empty   *)
(* and every signal is refused.                                            *)
Disposition(x, c) ==
  IF phase[x] = "created" \/ Claim[c].hash # x THEN "refused"
  ELSE IF binding[x] = None THEN "start"
  ELSE IF binding[x] = c THEN "duplicate" ELSE "conflicting"

(* The handler of the deployment_confirmed signal.                         *)
DeploymentConfirmed(x) ==
  LET s == Head(inbox[x])
      d == Disposition(x, s.conf)
  IN
  /\ Running(x) /\ inbox[x] # <<>>
  /\ inbox' = [inbox EXCEPT ![x] = Tail(@)]
  /\ binding' = IF d = "start" THEN [binding EXCEPT ![x] = s.conf] ELSE binding
  /\ anchor' = IF d = "start" THEN [anchor EXCEPT ![x] = s.at] ELSE anchor
  /\ conflicts' = IF d = "conflicting" THEN [conflicts EXCEPT ![x] = @ + 1] ELSE conflicts
  /\ UNCHANGED <<now, consumerVars, phase, flagVars, outcome>>

PauseObservation(x) ==
  /\ Running(x) /\ ~paused[x]
  /\ paused' = [paused EXCEPT ![x] = TRUE]
  /\ UNCHANGED <<now, consumerVars, inbox, phase, bindVars, aborted, outcome>>

Resume(x) ==
  /\ Running(x) /\ paused[x]
  /\ paused' = [paused EXCEPT ![x] = FALSE]
  /\ UNCHANGED <<now, consumerVars, inbox, phase, bindVars, aborted, outcome>>

AbortMeasurement(x) ==
  /\ Running(x) /\ ~aborted[x]
  /\ aborted' = [aborted EXCEPT ![x] = TRUE]
  /\ UNCHANGED <<now, consumerVars, inbox, phase, bindVars, paused, outcome>>

Goto(x, p) ==
  /\ phase' = [phase EXCEPT ![x] = p]
  /\ UNCHANGED <<now, consumerVars, inbox, bindVars, flagVars, outcome>>

Return(x, o) ==
  /\ phase' = [phase EXCEPT ![x] = "done"]
  /\ outcome' = [outcome EXCEPT ![x] = o]
  /\ UNCHANGED <<now, consumerVars, inbox, bindVars, flagVars>>

AwaitConfirmation(x) ==
  /\ phase[x] = "confirm"
  /\ \/ aborted[x] /\ Return(x, "aborted")
     \/ ~aborted[x] /\ binding[x] # None /\ Goto(x, "derive")

(* The derive_window activity and the branch on its result.                *)
DeriveWindow(x) ==
  /\ phase[x] = "derive"
  /\ IF DeploymentLate(x, anchor[x])
     THEN Return(x, "deployment_late")
     ELSE Goto(x, "window")

(* Mutant: the timer counts from the day the workflow was resumed.         *)
AwaitWindowShort(x) ==
  /\ phase[x] = "window"
  /\ \/ aborted[x] /\ Return(x, "aborted")
     \/ ~aborted[x] /\ now + 1 >= WindowEnd(anchor[x])
                    /\ Goto(x, IF paused[x] THEN "resume" ELSE "decide")

(* The one durable timer, cut short by an abort; paused, it waits.         *)
AwaitWindow(x) ==
  /\ phase[x] = "window"
  /\ \/ aborted[x] /\ Return(x, "aborted")
     \/ ~aborted[x] /\ now >= WindowEnd(anchor[x])
                    /\ Goto(x, IF paused[x] THEN "resume" ELSE "decide")

(* Mutant: a paused workflow that is aborted goes on waiting.              *)
AwaitResumeOnly(x) ==
  /\ phase[x] = "resume"
  /\ ~aborted[x] /\ ~paused[x] /\ Goto(x, "decide")

AwaitResume(x) ==
  /\ phase[x] = "resume"
  /\ \/ aborted[x] /\ Return(x, "aborted")
     \/ ~aborted[x] /\ ~paused[x] /\ Goto(x, "decide")

(* collect_and_decide returns.                                             *)
Decide(x) == phase[x] = "decide" /\ Return(x, "decided")
-----------------------------------------------------------------------------
Work(w) ==
  \/ \E c \in Confirmations : Consume(w, c)
  \/ PutConfirmation(w) \/ SignalConfirmed(w) \/ SignalNobody(w) \/ ConsumeFails(w)

Advance(x) ==
  AwaitConfirmation(x) \/ DeriveWindow(x) \/ AwaitWindow(x) \/ AwaitResume(x) \/ Decide(x)

Workflow(x) ==
  \/ Create(x) \/ Run(x) \/ DeploymentConfirmed(x) \/ Advance(x)
  \/ PauseObservation(x) \/ Resume(x) \/ AbortMeasurement(x)

Next ==
  \/ Tick
  \/ \E w \in Workers : Work(w)
  \/ \E x \in Experiments : Workflow(x)

Spec == Init /\ [][Next]_vars

(* Time passes; the workflow server runs every task it has; an envelope    *)
(* that is not acknowledged is delivered again; a worker finishes what it  *)
(* started.  Nobody has to pause, resume or abort.                         *)
Fairness ==
  /\ WF_vars(Tick)
  /\ \A x \in Experiments :
       WF_vars(Create(x)) /\ WF_vars(Run(x)) /\ WF_vars(DeploymentConfirmed(x))
         /\ WF_vars(Advance(x))
  /\ \A w \in Workers : WF_vars(PutConfirmation(w) \/ SignalConfirmed(w) \/ SignalNobody(w))
  /\ \A c \in Confirmations : SF_vars(c \notin acked /\ \E w \in Workers : Consume(w, c))

LiveSpec == Spec /\ Fairness
-----------------------------------------------------------------------------
(* Properties. *)

(* A workflow measures only a deployment that was validated for its own    *)
(* experiment and is on record: the confirmation that binds its window is  *)
(* genuine and the one stored under its key, and the window is anchored at *)
(* the receipt of a genuine confirmation of the experiment that is on      *)
(* record too, whatever conflicting confirmations are consumed meanwhile.  *)
BoundIsGenuine ==
  \A x \in Experiments :
    binding[x] # None =>
      /\ OnRecord(binding[x]) /\ Genuine(binding[x], x, now)
      /\ \E c \in Confirmations : OnRecord(c) /\ Genuine(c, x, anchor[x])

(* Not so in the code: the window is anchored at a day on which its own    *)
(* confirmation may have been received.  The port names the experiment and *)
(* not the confirmation, and an experiment may have two of them;           *)
(* MeasureSafety.cfg with this invariant finds it.                         *)
AnchorIsOwn ==
  \A x \in Experiments : binding[x] # None => Genuine(binding[x], x, anchor[x])

(* A decision is taken only for a deployment in time, and only when its    *)
(* whole window has passed since the server received the confirmation.     *)
DecidedAfterWindow ==
  \A x \in Experiments :
    outcome[x] = "decided" =>
      /\ anchor[x] <= Registration[x].approved + MaxDeployDelay
      /\ now >= anchor[x] + WindowDays

(* The first confirmation wins: the window of a workflow never moves, and  *)
(* a stored confirmation is never replaced.                                *)
FirstConfirmationWins ==
  [][/\ \A x \in Experiments :
          binding[x] # None => binding'[x] = binding[x] /\ anchor'[x] = anchor[x]
     /\ \A k \in StoreKeys : store[k] # None => store'[k] = store[k]]_vars

(* A bound window comes to an outcome, unless observation stays paused.    *)
BoundIsDecided ==
  \A x \in Experiments : (binding[x] # None) ~> (outcome[x] # None \/ paused[x])

(* An aborted measurement ends, paused or not.                             *)
AbortEnds == \A x \in Experiments : aborted[x] ~> (outcome[x] # None)

(* Not so in the code: an accepted confirmation on record starts the clock *)
(* of its workflow. A signal that fails once is never sent again;          *)
(* MeasureLive.cfg with this property finds it.                            *)
StoredStartsClock ==
  \A c \in Confirmations :
    (store[KeyOf(c)] = c) ~>
      (binding[ExperimentOf(c)] # None \/ outcome[ExperimentOf(c)] # None)

(* A bound window comes to an outcome unless it stays paused, and an abort *)
(* ends the workflow, paused or not.                                       *)
WindowsEnd ==
  /\ BoundIsDecided
  /\ AbortEnds
=============================================================================

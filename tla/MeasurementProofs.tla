------------------------- MODULE MeasurementProofs --------------------------
(***************************************************************************)
(* Proofs about Measurement: type correctness, that only a genuine and     *)
(* recorded confirmation binds a window, that the first one wins, and that *)
(* a decision waits for its window.                                        *)
(***************************************************************************)
EXTENDS Measurement, TLAPS

(* A confirmation on its way to a workflow was found genuine on the day it *)
(* carries; the verdict does not depend on anything that changes later.    *)
TaskIsGenuine ==
  \A w \in Workers :
    task[w].step # "idle" =>
      /\ task[w].conf \in Confirmations
      /\ Genuine(task[w].conf, ExperimentOf(task[w].conf), task[w].at)
      /\ task[w].at <= now

(* It is signalled only once it is on record.                              *)
SignalIsStored ==
  \A w \in Workers :
    task[w].step = "signal" => store[KeyOf(task[w].conf)] = task[w].conf

(* What is on record is genuine for the experiment it names.               *)
StoreIsGenuine ==
  \A c \in Confirmations : OnRecord(c) => Genuine(c, ExperimentOf(c), now)

(* A confirmation and a day the signal of experiment x may carry.          *)
Backed(c, x, day) ==
  /\ OnRecord(c) /\ Genuine(c, x, now)
  /\ \E e \in Confirmations : OnRecord(e) /\ Genuine(e, x, day)

(* The same of every signal the workflow has yet to handle.                *)
InboxIsGenuine ==
  \A x \in Experiments : \A i \in 1..Len(inbox[x]) :
    Backed(inbox[x][i].conf, x, inbox[x][i].at)

(* Past the first wait the window is bound; past the derivation it is in   *)
(* time; past the timer it has passed.                                     *)
PhaseInv ==
  \A x \in Experiments :
    /\ phase[x] \in {"derive", "window", "resume", "decide"} => binding[x] # None
    /\ phase[x] \in {"window", "resume", "decide"} => ~DeploymentLate(x, anchor[x])
    /\ phase[x] \in {"resume", "decide"} => now >= WindowEnd(anchor[x])
    /\ outcome[x] = "decided" => phase[x] = "done"

IInv ==
  /\ TypeOK
  /\ TaskIsGenuine /\ SignalIsStored /\ StoreIsGenuine /\ InboxIsGenuine
  /\ BoundIsGenuine
  /\ PhaseInv /\ DecidedAfterWindow

-----------------------------------------------------------------------------
(* What the pure part returns.                                             *)

LEMMA ClaimType ==
  ASSUME NEW c \in Confirmations
  PROVE  /\ KeyOf(c) \in StoreKeys
         /\ ExperimentOf(c) \in Experiments
         /\ Claim[c].hash \in Experiments \cup {None}
BY ConfirmationAssumption DEF Claims, KeyOf, ExperimentOf, StoreKeys

(* A confirmation that validate_confirmation accepts is genuine.           *)
LEMMA AcceptedIsGenuine ==
  ASSUME NEW c \in Confirmations, NEW x \in Experiments, NEW received \in Nat, NEW prior,
         Verdict(c, x, received, prior) = "accepted"
  PROVE  ExperimentOf(c) = x /\ Genuine(c, x, received)
<1>1. Claim[c].at \in Nat /\ AllowedSkew \in Nat
  BY ConfirmationAssumption DEF Claims
<1>2. EarliestValid(x) \in Nat
  BY ConfirmationAssumption DEF EarliestValid
<1>3. /\ Claim[c].aware /\ Claim[c].tenant = Registration[x].tenant
      /\ Claim[c].matches /\ Claim[c].experiment = x
      /\ Claim[c].hash = x /\ Claim[c].artifact /\ Claim[c].target /\ Claim[c].trusted
      /\ ~(Claim[c].at < EarliestValid(x))
      /\ ~(Claim[c].at > received + AllowedSkew)
  BY Zenon DEF Verdict
<1> QED BY <1>1, <1>2, <1>3 DEF Genuine, ExperimentOf

(* What consume() accepts is genuine for the experiment it names.          *)
LEMMA ConsumeAcceptsGenuine ==
  ASSUME NEW c \in Confirmations, now \in Nat, ConsumeVerdict(c) = "accepted"
  PROVE  Genuine(c, ExperimentOf(c), now)
<1>1. Lookup(c) # None /\ Verdict(c, Lookup(c), now, store[KeyOf(c)]) = "accepted"
  BY DEF ConsumeVerdict
<1>2. Lookup(c) \in Experiments
  BY <1>1, ClaimType DEF Lookup
<1> QED BY <1>1, <1>2, AcceptedIsGenuine

(* A confirmation that was genuine when received stays so.                 *)
LEMMA GenuineLater ==
  ASSUME NEW c \in Confirmations, NEW x, NEW day \in Nat, NEW later \in Nat, day <= later,
         Genuine(c, x, day)
  PROVE  Genuine(c, x, later)
<1>1. Claim[c].at \in Nat /\ AllowedSkew \in Nat
  BY ConfirmationAssumption DEF Claims
<1> QED BY <1>1 DEF Genuine

LEMMA InitIsGood == Init => IInv
<1> SUFFICES ASSUME Init PROVE IInv
  OBVIOUS
<1>1. TypeOK
  BY DEF Init, TypeOK, Task, NoTask, Step, Phase, None
<1>2. TaskIsGenuine /\ SignalIsStored /\ InboxIsGenuine
  BY DEF Init, NoTask, TaskIsGenuine, SignalIsStored, InboxIsGenuine
<1>4. StoreIsGenuine
  BY ClaimType, ConfirmationAssumption DEF Init, StoreIsGenuine, OnRecord
<1>3. BoundIsGenuine /\ PhaseInv /\ DecidedAfterWindow
  BY DEF Init, BoundIsGenuine, PhaseInv, DecidedAfterWindow, None
<1> QED BY <1>1, <1>2, <1>3, <1>4 DEF IInv

-----------------------------------------------------------------------------
(* The consumer's steps.                                                   *)

(* Only PutConfirmation changes the store, and nothing on record changes.  *)
LEMMA StoreGrows ==
  ASSUME TypeOK, NEW w \in Workers, PutConfirmation(w),
         NEW k \in StoreKeys, store[k] # None
  PROVE  store'[k] = store[k]
BY DEF PutConfirmation, TypeOK

(* A worker's task is replaced by another; the other workers keep theirs.  *)
LEMMA TaskChange ==
  ASSUME TypeOK, NEW w \in Workers, NEW t \in Task, task' = [task EXCEPT ![w] = t]
  PROVE  /\ task' \in [Workers -> Task]
         /\ task'[w] = t
         /\ \A v \in Workers : v # w => task'[v] = task[v]
BY DEF TypeOK

LEMMA NoTaskType == NoTask \in Task /\ NoTask.step = "idle"
BY DEF NoTask, Task, Step

LEMMA ConsumeStep ==
  ASSUME IInv, NEW w \in Workers, NEW c \in Confirmations, Consume(w, c)
  PROVE  IInv'
<1> DEFINE t == [step |-> "put", conf |-> c, at |-> now]
<1> USE DEF IInv
<1>0. t \in Task /\ t.step = "put" /\ t.conf = c /\ t.at = now
  BY DEF Task, Step, TypeOK
<1> HIDE DEF t
<1>a. \/ task' = task
      \/ task' = [task EXCEPT ![w] = t] /\ ConsumeVerdict(c) = "accepted"
  BY DEF Consume, t
<1>d. (StoreIsGenuine /\ InboxIsGenuine /\ BoundIsGenuine /\ PhaseInv /\ DecidedAfterWindow)'
  <2>1. (StoreIsGenuine /\ InboxIsGenuine)'
    BY DEF Consume, StoreIsGenuine, InboxIsGenuine, Backed, OnRecord
  <2>2. (BoundIsGenuine /\ PhaseInv /\ DecidedAfterWindow)'
    BY DEF Consume, BoundIsGenuine, OnRecord, PhaseInv, DecidedAfterWindow,
           workflowVars, bindVars, flagVars
  <2> QED BY <2>1, <2>2
<1>b. CASE task' = task
  <2>1. TypeOK'
    BY <1>b DEF TypeOK, Consume, workflowVars, bindVars, flagVars
  <2>2. (TaskIsGenuine /\ SignalIsStored)'
    BY <1>b DEF TaskIsGenuine, SignalIsStored, Consume
  <2> QED BY <2>1, <2>2, <1>d
<1>c. CASE task' = [task EXCEPT ![w] = t] /\ ConsumeVerdict(c) = "accepted"
  <2>0. /\ task' \in [Workers -> Task] /\ task'[w] = t
        /\ \A v \in Workers : v # w => task'[v] = task[v]
    BY <1>0, <1>c, TaskChange
  <2>1. TypeOK'
    BY <2>0 DEF TypeOK, Consume, workflowVars, bindVars, flagVars
  <2>2. Genuine(c, ExperimentOf(c), now)
    BY <1>c, ConsumeAcceptsGenuine DEF TypeOK
  <2>3. TaskIsGenuine'
    BY <2>0, <2>2, <1>0 DEF TaskIsGenuine, TypeOK, Consume
  <2>4. SignalIsStored'
    BY <2>0, <1>0 DEF SignalIsStored, Consume
  <2> QED BY <2>1, <2>3, <2>4, <1>d
<1> QED BY <1>a, <1>b, <1>c

LEMMA PutConfirmationStep ==
  ASSUME IInv, NEW w \in Workers, PutConfirmation(w)
  PROVE  IInv'
<1> DEFINE c == task[w].conf
           t == [step |-> "signal", conf |-> c, at |-> task[w].at]
<1>0. /\ c \in Confirmations /\ KeyOf(c) \in StoreKeys
      /\ Genuine(c, ExperimentOf(c), task[w].at)
  BY ClaimType DEF IInv, TaskIsGenuine, PutConfirmation
<1>a. t \in Task /\ t.step = "signal" /\ t.conf = c /\ t.at = task[w].at
  BY <1>0 DEF IInv, TypeOK, Task, Step
<1>b. /\ task' \in [Workers -> Task]
      /\ \A v \in Workers : v # w => task'[v] = task[v]
      /\ \/ task'[w] = NoTask
         \/ task'[w] = t /\ store' = [store EXCEPT ![KeyOf(c)] = c]
  BY <1>a, NoTaskType, TaskChange DEF IInv, PutConfirmation
<1> HIDE DEF t
<1>1. TypeOK'
  <2>1. store' \in [StoreKeys -> Confirmations \cup {None}]
    BY <1>0 DEF IInv, TypeOK, PutConfirmation
  <2> QED BY <2>1, <1>b DEF IInv, TypeOK, PutConfirmation, workflowVars, bindVars, flagVars
<1>2. TaskIsGenuine'
  BY <1>0, <1>a, <1>b, NoTaskType DEF IInv, TaskIsGenuine, PutConfirmation
<1>3. SignalIsStored'
  <2> SUFFICES ASSUME NEW v \in Workers, task'[v].step = "signal"
               PROVE  store'[KeyOf(task'[v].conf)] = task'[v].conf
    BY DEF SignalIsStored
  <2>1. CASE v = w
    BY <2>1, <1>0, <1>a, <1>b, NoTaskType DEF IInv, TypeOK
  <2>2. CASE v # w
    <3>1. task'[v] = task[v]
      BY <2>2, <1>b
    <3>2. /\ task[v].conf \in Confirmations
          /\ store[KeyOf(task[v].conf)] = task[v].conf
      BY <3>1 DEF IInv, TaskIsGenuine, SignalIsStored
    <3>3. KeyOf(task[v].conf) \in StoreKeys /\ store[KeyOf(task[v].conf)] # None
      BY <3>2, ClaimType, ConfirmationAssumption
    <3> QED BY <3>1, <3>2, <3>3, StoreGrows DEF IInv
  <2> QED BY <2>1, <2>2
<1>7. ASSUME NEW e \in Confirmations, OnRecord(e) PROVE OnRecord(e)'
  BY <1>7, ClaimType, ConfirmationAssumption, StoreGrows DEF IInv, OnRecord
<1>8. now' = now
  BY DEF PutConfirmation
<1>4. InboxIsGenuine'
  <2> SUFFICES ASSUME NEW x \in Experiments, NEW i \in 1..Len(inbox[x])
               PROVE  Backed(inbox[x][i].conf, x, inbox[x][i].at)'
    BY DEF InboxIsGenuine, PutConfirmation, Backed, OnRecord
  <2>1. inbox[x][i].conf \in Confirmations
    <3>1. inbox[x] \in Seq(Signal)
      BY DEF IInv, TypeOK
    <3>2. inbox[x][i] \in Signal
      BY <3>1
    <3> QED BY <3>2 DEF Signal
  <2>2. Backed(inbox[x][i].conf, x, inbox[x][i].at)
    BY DEF IInv, InboxIsGenuine
  <2>3. inbox' = inbox
    BY DEF PutConfirmation
  <2> QED BY <2>1, <2>2, <2>3, <1>7, <1>8 DEF Backed
<1>5. BoundIsGenuine'
  <2> SUFFICES ASSUME NEW x \in Experiments, binding'[x] # None
               PROVE  /\ OnRecord(binding[x])' /\ Genuine(binding'[x], x, now')
                      /\ \E e \in Confirmations : OnRecord(e)' /\ Genuine(e, x, anchor'[x])
    BY DEF BoundIsGenuine
  <2>0. binding' = binding /\ anchor' = anchor
    BY DEF PutConfirmation, workflowVars, bindVars
  <2>1. binding[x] \in Confirmations
    BY <2>0 DEF IInv, TypeOK
  <2>2. /\ OnRecord(binding[x]) /\ Genuine(binding[x], x, now)
        /\ \E e \in Confirmations : OnRecord(e) /\ Genuine(e, x, anchor[x])
    BY <2>0 DEF IInv, BoundIsGenuine
  <2> QED BY <2>0, <2>1, <2>2, <1>7, <1>8
<1>9. StoreIsGenuine'
  <2> SUFFICES ASSUME NEW e \in Confirmations, OnRecord(e)' PROVE Genuine(e, ExperimentOf(e), now)
    BY <1>8 DEF StoreIsGenuine
  <2>1. CASE OnRecord(e)
    BY <2>1 DEF IInv, StoreIsGenuine
  <2>2. CASE ~OnRecord(e)
    <3>1. KeyOf(e) \in StoreKeys /\ e # None
      BY ClaimType, ConfirmationAssumption
    <3>2. e = c
      BY <2>2, <3>1, <1>0 DEF IInv, TypeOK, PutConfirmation, OnRecord
    <3>3. task[w].at \in Nat /\ now \in Nat /\ task[w].at <= now
      BY DEF IInv, TypeOK, Task, TaskIsGenuine, PutConfirmation
    <3> QED BY <3>2, <3>3, <1>0, GenuineLater
  <2> QED BY <2>1, <2>2
<1>6. (PhaseInv /\ DecidedAfterWindow)'
  BY DEF IInv, PutConfirmation, PhaseInv, DecidedAfterWindow, workflowVars, bindVars, flagVars
<1> QED BY <1>1, <1>2, <1>3, <1>4, <1>5, <1>6, <1>9 DEF IInv

LEMMA SignalConfirmedStep ==
  ASSUME IInv, NEW w \in Workers, SignalConfirmed(w)
  PROVE  IInv'
<1> DEFINE c == task[w].conf
           x == ExperimentOf(c)
<1>0. /\ c \in Confirmations /\ x \in Experiments
      /\ Genuine(c, x, task[w].at) /\ OnRecord(c)
  BY ClaimType DEF IInv, TaskIsGenuine, SignalIsStored, SignalConfirmed, OnRecord
<1>p. PICK e \in AcceptedFor(SignalOf(w)) :
        inbox' = [inbox EXCEPT ![x] = Append(@, [conf |-> e, at |-> task[w].at])]
  BY DEF SignalConfirmed, SignalOf
<1> DEFINE s == [conf |-> e, at |-> task[w].at]
<1>q. e \in Confirmations /\ OnRecord(e) /\ ExperimentOf(e) = x
  BY <1>p DEF AcceptedFor, SignalOf
<1>1. s \in Signal
  BY <1>q DEF IInv, TypeOK, Task, Signal
<1>r. s.conf = e /\ s.at = task[w].at /\ inbox' = [inbox EXCEPT ![x] = Append(inbox[x], s)]
  BY <1>p
<1> HIDE DEF s
<1>t. Genuine(e, x, now)
  BY <1>q DEF IInv, StoreIsGenuine
<1>2. TypeOK'
  <2>1. inbox' \in [Experiments -> Seq(Signal)]
    BY <1>0, <1>1, <1>r DEF IInv, TypeOK
  <2>2. task' \in [Workers -> Task] /\ acked' \subseteq Confirmations
    BY <1>0, NoTaskType, TaskChange DEF IInv, TypeOK, SignalConfirmed
  <2> QED BY <2>1, <2>2 DEF IInv, TypeOK, SignalConfirmed, workflowVars, bindVars, flagVars
<1>3. (TaskIsGenuine /\ SignalIsStored)'
  BY DEF IInv, TypeOK, TaskIsGenuine, SignalIsStored, SignalConfirmed, NoTask, Task
<1>u. now' = now /\ store' = store
  BY DEF SignalConfirmed
<1>4. InboxIsGenuine'
  <2> SUFFICES ASSUME NEW y \in Experiments, NEW i \in 1..Len(inbox'[y])
               PROVE  Backed(inbox'[y][i].conf, y, inbox'[y][i].at)
    BY <1>u DEF InboxIsGenuine, Backed, OnRecord
  <2>1. inbox \in [Experiments -> Seq(Signal)]
    BY DEF IInv, TypeOK
  <2>3. \/ i \in 1..Len(inbox[y]) /\ inbox'[y][i] = inbox[y][i]
        \/ y = x /\ inbox'[y][i] = s
    BY <1>0, <1>1, <2>1, <1>r
  <2>4. CASE i \in 1..Len(inbox[y]) /\ inbox'[y][i] = inbox[y][i]
    BY <2>4 DEF IInv, InboxIsGenuine
  <2>5. CASE y = x /\ inbox'[y][i] = s
    BY <2>5, <1>0, <1>q, <1>r, <1>t DEF Backed
  <2> QED BY <2>3, <2>4, <2>5
<1>5. (StoreIsGenuine /\ BoundIsGenuine)'
  BY <1>u DEF IInv, SignalConfirmed, StoreIsGenuine, BoundIsGenuine, OnRecord, workflowVars, bindVars
<1>6. (PhaseInv /\ DecidedAfterWindow)'
  BY DEF IInv, SignalConfirmed, PhaseInv, DecidedAfterWindow, workflowVars, bindVars, flagVars
<1> QED BY <1>2, <1>3, <1>4, <1>5, <1>6 DEF IInv

(* Whatever interrupts consume(), the worker forgets its envelope.         *)
LEMMA DropStep ==
  ASSUME IInv, NEW w \in Workers, ConsumeFails(w) \/ SignalNobody(w)
  PROVE  IInv'
<1>0. /\ task' \in [Workers -> Task] /\ task'[w] = NoTask
      /\ \A v \in Workers : v # w => task'[v] = task[v]
  BY NoTaskType, TaskChange DEF IInv, ConsumeFails, SignalNobody
<1>1. TypeOK'
  BY <1>0 DEF IInv, TypeOK, ConsumeFails, SignalNobody, workflowVars, bindVars, flagVars
<1>2. (TaskIsGenuine /\ SignalIsStored)'
  BY <1>0, NoTaskType DEF IInv, TaskIsGenuine, SignalIsStored, ConsumeFails, SignalNobody
<1>3. (StoreIsGenuine /\ InboxIsGenuine /\ BoundIsGenuine)'
  BY DEF IInv, ConsumeFails, SignalNobody, StoreIsGenuine, InboxIsGenuine, Backed, OnRecord,
         BoundIsGenuine, workflowVars, bindVars
<1>4. (PhaseInv /\ DecidedAfterWindow)'
  BY DEF IInv, ConsumeFails, SignalNobody, PhaseInv, DecidedAfterWindow,
         workflowVars, bindVars, flagVars
<1> QED BY <1>1, <1>2, <1>3, <1>4 DEF IInv

-----------------------------------------------------------------------------
(* The workflow's steps.                                                   *)

LEMMA DeploymentConfirmedStep ==
  ASSUME IInv, NEW x \in Experiments, DeploymentConfirmed(x)
  PROVE  IInv'
<1> DEFINE s == Head(inbox[x])
           d == Disposition(x, s.conf)
<1>0. inbox \in [Experiments -> Seq(Signal)] /\ inbox[x] # <<>>
  BY DEF IInv, TypeOK, DeploymentConfirmed
<1>1. s \in Signal /\ 1 \in 1..Len(inbox[x]) /\ s = inbox[x][1]
  BY <1>0
<1>2. s.conf \in Confirmations /\ s.at \in Nat
  BY <1>1 DEF Signal
<1>3. Backed(s.conf, x, s.at)
  BY <1>1 DEF IInv, InboxIsGenuine
<1>4. d = "start" => binding[x] = None
  BY DEF Disposition
<1>5. /\ binding' = IF d = "start" THEN [binding EXCEPT ![x] = s.conf] ELSE binding
      /\ anchor' = IF d = "start" THEN [anchor EXCEPT ![x] = s.at] ELSE anchor
      /\ conflicts' = IF d = "conflicting" THEN [conflicts EXCEPT ![x] = @ + 1] ELSE conflicts
      /\ inbox' = [inbox EXCEPT ![x] = Tail(inbox[x])]
      /\ UNCHANGED <<now, consumerVars, phase, flagVars, outcome>>
      /\ phase[x] # "done"
  BY DEF DeploymentConfirmed, Running
<1> HIDE DEF s, d
<1>6. TypeOK'
  <2>1. inbox' \in [Experiments -> Seq(Signal)]
    BY <1>0, <1>5
  <2> QED BY <2>1, <1>2, <1>5 DEF IInv, TypeOK, consumerVars, flagVars
<1>7. (TaskIsGenuine /\ SignalIsStored /\ StoreIsGenuine)'
  BY <1>5 DEF IInv, TaskIsGenuine, SignalIsStored, StoreIsGenuine, OnRecord, consumerVars
<1>8. InboxIsGenuine'
  <2> SUFFICES ASSUME NEW y \in Experiments, NEW i \in 1..Len(inbox'[y])
               PROVE  Backed(inbox'[y][i].conf, y, inbox'[y][i].at)
    BY <1>5 DEF InboxIsGenuine, Backed, OnRecord, consumerVars
  <2>1. CASE y = x
    <3>1. i + 1 \in 1..Len(inbox[y]) /\ inbox'[y][i] = inbox[y][i + 1]
      BY <2>1, <1>0, <1>5
    <3> QED BY <3>1 DEF IInv, InboxIsGenuine
  <2>2. CASE y # x
    BY <2>2, <1>0, <1>5 DEF IInv, InboxIsGenuine
  <2> QED BY <2>1, <2>2
<1>9. BoundIsGenuine'
  BY <1>3, <1>5 DEF IInv, TypeOK, BoundIsGenuine, Backed, OnRecord, consumerVars
<1>10. (PhaseInv /\ DecidedAfterWindow)'
  <2>1. \A y \in Experiments : binding[y] # None \/ phase[y] = "done" =>
          anchor'[y] = anchor[y] /\ binding'[y] = binding[y]
    BY <1>4, <1>5 DEF IInv, TypeOK
  <2>2. \A y \in Experiments : outcome[y] = "decided" => phase[y] = "done"
    BY DEF IInv, PhaseInv
  <2> QED BY <2>1, <2>2, <1>5 DEF IInv, PhaseInv, DecidedAfterWindow
<1> QED BY <1>6, <1>7, <1>8, <1>9, <1>10 DEF IInv

(* Time and the three operator signals leave what the invariant speaks of. *)
LEMMA QuietStep ==
  ASSUME IInv,
         \/ Tick
         \/ \E x \in Experiments : PauseObservation(x) \/ Resume(x) \/ AbortMeasurement(x)
  PROVE  IInv'
<1>1. now \in Nat /\ now' \in Nat /\ now' >= now
  BY DEF IInv, TypeOK, Tick, PauseObservation, Resume, AbortMeasurement
<1>2. TypeOK'
  BY <1>1 DEF IInv, TypeOK, Tick, PauseObservation, Resume, AbortMeasurement,
     consumerVars, workflowVars, bindVars, flagVars
<1>3. UNCHANGED <<consumerVars, inbox, phase, bindVars, outcome>>
  BY DEF Tick, PauseObservation, Resume, AbortMeasurement, workflowVars
<1>g. ASSUME NEW c \in Confirmations, NEW x, Genuine(c, x, now) PROVE Genuine(c, x, now')
  BY <1>1, <1>g, GenuineLater
<1>h. \A c : OnRecord(c)' <=> OnRecord(c)
  BY <1>3 DEF OnRecord, consumerVars
<1>4. (TaskIsGenuine /\ SignalIsStored /\ InboxIsGenuine /\ BoundIsGenuine /\ StoreIsGenuine)'
  <2>1. TaskIsGenuine'
    <3>1. task' = task
      BY <1>3 DEF consumerVars
    <3>2. \A w \in Workers : task[w].at \in Nat
      BY DEF IInv, TypeOK, Task
    <3>3. \A w \in Workers : task[w].at <= now => task[w].at <= now'
      BY <1>1, <3>2
    <3> QED BY <3>1, <3>3 DEF IInv, TaskIsGenuine
  <2>2. SignalIsStored'
    BY <1>3 DEF IInv, SignalIsStored, consumerVars
  <2>3. InboxIsGenuine'
    <3> SUFFICES ASSUME NEW x \in Experiments, NEW i \in 1..Len(inbox[x])
                 PROVE  Backed(inbox[x][i].conf, x, inbox[x][i].at)'
      BY <1>3 DEF InboxIsGenuine, Backed, OnRecord
    <3>1. inbox[x][i].conf \in Confirmations
      <4>1. inbox[x] \in Seq(Signal)
        BY DEF IInv, TypeOK
      <4>2. inbox[x][i] \in Signal
        BY <4>1
      <4> QED BY <4>2 DEF Signal
    <3>2. Backed(inbox[x][i].conf, x, inbox[x][i].at)
      BY DEF IInv, InboxIsGenuine
    <3>3. inbox' = inbox
      BY <1>3
    <3> QED BY <3>1, <3>2, <3>3, <1>g, <1>h DEF Backed
  <2>4. BoundIsGenuine'
    <3>1. binding' = binding /\ anchor' = anchor
      BY <1>3 DEF bindVars
    <3>2. \A x \in Experiments : binding[x] # None => binding[x] \in Confirmations
      BY DEF IInv, TypeOK
    <3> QED BY <3>1, <3>2, <1>g, <1>h DEF IInv, BoundIsGenuine
  <2>5. StoreIsGenuine'
    BY <1>g, <1>h DEF IInv, StoreIsGenuine
  <2> QED BY <2>1, <2>2, <2>3, <2>4, <2>5
<1>5. \A x \in Experiments : WindowEnd(anchor[x]) \in Nat
  BY ConfirmationAssumption DEF IInv, TypeOK, WindowEnd
<1>6. PhaseInv'
  BY <1>1, <1>3, <1>5 DEF IInv, PhaseInv, bindVars
<1>7. DecidedAfterWindow'
  BY <1>1, <1>3, <1>5 DEF IInv, DecidedAfterWindow, bindVars, WindowEnd
<1> QED BY <1>2, <1>4, <1>6, <1>7 DEF IInv

(* A step of run(): only phase and outcome change, and only of x.          *)
LEMMA GotoStep ==
  ASSUME IInv, NEW x \in Experiments, NEW p \in Phase, Goto(x, p),
         phase[x] # "done", p # "done",
         p \in {"derive", "window", "resume", "decide"} => binding[x] # None,
         p \in {"window", "resume", "decide"} => ~DeploymentLate(x, anchor[x]),
         p \in {"resume", "decide"} => now >= WindowEnd(anchor[x])
  PROVE  IInv'
<1>1. /\ phase' = [phase EXCEPT ![x] = p]
      /\ UNCHANGED <<now, consumerVars, inbox, bindVars, flagVars, outcome>>
  BY DEF Goto
<1>2. TypeOK'
  BY <1>1 DEF IInv, TypeOK, consumerVars, bindVars, flagVars
<1>3. (TaskIsGenuine /\ SignalIsStored /\ StoreIsGenuine /\ InboxIsGenuine /\ BoundIsGenuine)'
  BY <1>1 DEF IInv, TaskIsGenuine, SignalIsStored, StoreIsGenuine, InboxIsGenuine, Backed,
     OnRecord, BoundIsGenuine, consumerVars, bindVars
<1>4. PhaseInv'
  BY <1>1 DEF IInv, TypeOK, PhaseInv, bindVars
<1>5. DecidedAfterWindow'
  BY <1>1 DEF IInv, DecidedAfterWindow, bindVars
<1> QED BY <1>2, <1>3, <1>4, <1>5 DEF IInv

LEMMA ReturnStep ==
  ASSUME IInv, NEW x \in Experiments, NEW o \in Outcome, Return(x, o),
         o = "decided" => phase[x] = "decide"
  PROVE  IInv'
<1>1. /\ phase' = [phase EXCEPT ![x] = "done"]
      /\ outcome' = [outcome EXCEPT ![x] = o]
      /\ UNCHANGED <<now, consumerVars, inbox, bindVars, flagVars>>
  BY DEF Return
<1>2. TypeOK'
  BY <1>1 DEF IInv, TypeOK, Phase, consumerVars, bindVars, flagVars
<1>3. (TaskIsGenuine /\ SignalIsStored /\ StoreIsGenuine /\ InboxIsGenuine /\ BoundIsGenuine)'
  BY <1>1 DEF IInv, TaskIsGenuine, SignalIsStored, StoreIsGenuine, InboxIsGenuine, Backed,
     OnRecord, BoundIsGenuine, consumerVars, bindVars
<1>4. PhaseInv'
  BY <1>1 DEF IInv, TypeOK, PhaseInv, bindVars
<1>5. o = "decided" => /\ anchor[x] <= Registration[x].approved + MaxDeployDelay
                       /\ now >= anchor[x] + WindowDays
  BY ConfirmationAssumption DEF IInv, TypeOK, PhaseInv, DeploymentLate, WindowEnd
<1>6. DecidedAfterWindow'
  BY <1>1, <1>5 DEF IInv, TypeOK, DecidedAfterWindow, bindVars
<1> QED BY <1>2, <1>3, <1>4, <1>6 DEF IInv

LEMMA RunStep ==
  ASSUME IInv, NEW x \in Experiments, Create(x) \/ Run(x) \/ Advance(x)
  PROVE  IInv'
<1> USE DEF Phase, Outcome
<1>1. CASE Create(x)
  <2>1. Goto(x, "created") /\ phase[x] # "done"
    BY <1>1 DEF Create, Goto
  <2> QED BY <2>1, GotoStep
<1>2. CASE Run(x)
  <2>1. Goto(x, "confirm") /\ phase[x] # "done"
    BY <1>2 DEF Run, Goto
  <2> QED BY <2>1, GotoStep
<1>3. CASE AwaitConfirmation(x)
  BY <1>3, GotoStep, ReturnStep DEF AwaitConfirmation
<1>4. CASE DeriveWindow(x)
  <2>1. binding[x] # None
    BY <1>4 DEF IInv, PhaseInv, DeriveWindow
  <2> QED BY <2>1, <1>4, GotoStep, ReturnStep DEF DeriveWindow
<1>5. CASE AwaitWindow(x)
  <2>1. binding[x] # None /\ ~DeploymentLate(x, anchor[x])
    BY <1>5 DEF IInv, PhaseInv, AwaitWindow
  <2>2. CASE Return(x, "aborted")
    BY <2>2, ReturnStep
  <2>3. CASE now >= WindowEnd(anchor[x]) /\ Goto(x, "resume")
    BY <2>1, <2>3, <1>5, GotoStep DEF AwaitWindow
  <2>4. CASE now >= WindowEnd(anchor[x]) /\ Goto(x, "decide")
    BY <2>1, <2>4, <1>5, GotoStep DEF AwaitWindow
  <2> QED BY <2>2, <2>3, <2>4, <1>5 DEF AwaitWindow
<1>6. CASE AwaitResume(x)
  <2>1. /\ binding[x] # None /\ ~DeploymentLate(x, anchor[x])
        /\ now >= WindowEnd(anchor[x])
    BY <1>6 DEF IInv, PhaseInv, AwaitResume
  <2> QED BY <2>1, <1>6, GotoStep, ReturnStep DEF AwaitResume
<1>7. CASE Decide(x)
  BY <1>7, ReturnStep DEF Decide
<1> QED BY <1>1, <1>2, <1>3, <1>4, <1>5, <1>6, <1>7 DEF Advance

LEMMA StutterStep == IInv /\ UNCHANGED vars => IInv'
<1> SUFFICES ASSUME IInv, UNCHANGED vars PROVE IInv'
  OBVIOUS
<1> USE DEF vars, consumerVars, workflowVars, bindVars, flagVars, IInv
<1>1. TypeOK'
  BY DEF TypeOK
<1>2. (TaskIsGenuine /\ SignalIsStored /\ StoreIsGenuine /\ InboxIsGenuine)'
  BY DEF TaskIsGenuine, SignalIsStored, StoreIsGenuine, InboxIsGenuine, Backed, OnRecord
<1>3. (BoundIsGenuine /\ PhaseInv /\ DecidedAfterWindow)'
  BY DEF BoundIsGenuine, OnRecord, PhaseInv, DecidedAfterWindow
<1> QED BY <1>1, <1>2, <1>3

(* The invariant is inductive.                                             *)
LEMMA NextIsGood == IInv /\ [Next]_vars => IInv'
<1> SUFFICES ASSUME IInv, [Next]_vars PROVE IInv'
  OBVIOUS
<1>1. CASE Tick
  BY <1>1, QuietStep
<1>2. ASSUME NEW w \in Workers, Work(w) PROVE IInv'
  BY <1>2, ConsumeStep, PutConfirmationStep, SignalConfirmedStep, DropStep DEF Work
<1>3. ASSUME NEW x \in Experiments, Workflow(x) PROVE IInv'
  BY <1>3, DeploymentConfirmedStep, QuietStep, RunStep DEF Workflow
<1>4. CASE UNCHANGED vars
  BY <1>4, StutterStep
<1> QED BY <1>1, <1>2, <1>3, <1>4 DEF Next

THEOREM IInvHolds == Spec => []IInv
<1>1. Init => IInv
  BY InitIsGood
<1>2. IInv /\ [Next]_vars => IInv'
  BY NextIsGood
<1> QED BY <1>1, <1>2, PTL DEF Spec
-----------------------------------------------------------------------------
(* Results.                                                                *)

(* Every reachable state is well-typed.                                    *)
THEOREM TypeCorrect == Spec => []TypeOK
<1>1. IInv => TypeOK
  BY DEF IInv
<1> QED BY <1>1, IInvHolds, PTL

(* The confirmation that binds a workflow's window is genuine for its      *)
(* experiment and is the one on record, and the window is anchored at the  *)
(* receipt of a genuine confirmation on record, for any number of workers, *)
(* any confirmations on the bus, and whichever confirmation that fits the  *)
(* signal's tenant and experiment the workflow is handed.                  *)
THEOREM BindingIsGenuine == Spec => []BoundIsGenuine
<1>1. IInv => BoundIsGenuine
  BY DEF IInv
<1> QED BY <1>1, IInvHolds, PTL

(* A decision is taken only for a deployment in time, after its window.    *)
THEOREM DecisionWaits == Spec => []DecidedAfterWindow
<1>1. IInv => DecidedAfterWindow
  BY DEF IInv
<1> QED BY <1>1, IInvHolds, PTL

(* A bound window never moves and a stored confirmation is never replaced. *)
THEOREM FirstWins == Spec => FirstConfirmationWins
<1> DEFINE Keeps ==
      /\ \A x \in Experiments :
           binding[x] # None => binding'[x] = binding[x] /\ anchor'[x] = anchor[x]
      /\ \A k \in StoreKeys : store[k] # None => store'[k] = store[k]
<1>1. TypeOK /\ [Next]_vars => [Keeps]_vars
  <2> SUFFICES ASSUME TypeOK, Next PROVE Keeps
    OBVIOUS
  <2>1. ASSUME NEW w \in Workers, PutConfirmation(w) PROVE Keeps
    BY <2>1, StoreGrows DEF PutConfirmation, workflowVars, bindVars
  <2>2. ASSUME NEW w \in Workers, Work(w), ~PutConfirmation(w) PROVE Keeps
    BY <2>2 DEF Work, Consume, SignalConfirmed, SignalNobody, ConsumeFails, workflowVars, bindVars
  <2>3. ASSUME NEW x \in Experiments, DeploymentConfirmed(x) PROVE Keeps
    <3>1. store' = store
      BY <2>3 DEF DeploymentConfirmed, consumerVars
    <3>2. ASSUME NEW y \in Experiments, binding[y] # None
          PROVE  binding'[y] = binding[y] /\ anchor'[y] = anchor[y]
      BY <2>3, <3>2 DEF DeploymentConfirmed, Disposition, TypeOK
    <3> QED BY <3>1, <3>2
  <2>4. ASSUME NEW x \in Experiments, Workflow(x), ~DeploymentConfirmed(x) PROVE Keeps
    <3>1. UNCHANGED <<store, binding, anchor>>
      BY <2>4 DEF Workflow, Create, Run, Advance, AwaitConfirmation, DeriveWindow, AwaitWindow,
         AwaitResume, Decide, Goto, Return, PauseObservation, Resume, AbortMeasurement,
         consumerVars, bindVars
    <3> QED BY <3>1
  <2>5. CASE Tick
    BY <2>5 DEF Tick, consumerVars, workflowVars, bindVars
  <2> QED BY <2>1, <2>2, <2>3, <2>4, <2>5 DEF Next
<1> QED BY <1>1, TypeCorrect, PTL DEF Spec, FirstConfirmationWins

=============================================================================

-------------------------- MODULE ExperimentLedger --------------------------
(***************************************************************************)
(* saena_domain.experiment: the append-only, hash-chained ledger of        *)
(* preregistered experiments, and a copy of it that something has edited   *)
(* since.  A hash is the value it is computed from, so equal hashes mean   *)
(* equal content.                                                          *)
(***************************************************************************)
EXTENDS Integers, Sequences, FiniteSets

CONSTANTS
  Registrations,       \* registrations a caller may hand in
  MaxRegisterCalls     \* bound: calls of register()

VARIABLES
  exp_ledger,          \* LedgerState
  exp_answers,         \* what register() answered, call by call
  exp_copy,            \* a stored copy of the ledger
  exp_edited           \* whether the copy has been edited
experimentVars == <<exp_ledger, exp_answers, exp_copy, exp_edited>>

NoPrevious == <<"none">>
DesignFields == {"arms", "metric_definitions"}

(* ExperimentRegistration._check_arm_design: distinct arms, one baseline,  *)
(* and the others all of one design.                                       *)
ArmDesignOk(arms) ==
  LET roles == {a.role : a \in arms} \ {"baseline"} IN
  /\ \A a, b \in arms : a.arm_id = b.arm_id => a = b
  /\ Cardinality({a \in arms : a.role = "baseline"}) = 1
  /\ roles # {} /\ (roles = {"matched_cluster"} \/ roles \subseteq {"treatment", "control"})
ASSUME RegistrationsAreValid == \A r \in Registrations : ArmDesignOk(r.arms) /\ r.metric_definitions # {}

ContentFingerprint(reg) == <<"content", reg>>
ExperimentHash(reg, previous) == <<"entry", previous, ContentFingerprint(reg)>>
DesignChanged(existing, incoming) == \E f \in DesignFields : existing[f] # incoming[f]

Entry(reg, previous) ==
  [reg |-> reg, previous_hash |-> previous, canonical_hash |-> ExperimentHash(reg, previous),
   content_fingerprint |-> ContentFingerprint(reg)]
TailHash(l) == IF l = <<>> THEN NoPrevious ELSE l[Len(l)].canonical_hash

(* verify_ledger: 0 when intact, else the place of the first bad entry.    *)
Intact(l, i) ==
  /\ l[i].previous_hash = (IF i = 1 THEN NoPrevious ELSE l[i - 1].canonical_hash)
  /\ l[i].canonical_hash = ExperimentHash(l[i].reg, l[i].previous_hash)
VerifyLedger(l) ==
  IF \A i \in DOMAIN l : Intact(l, i) THEN 0
  ELSE CHOOSE i \in DOMAIN l : ~Intact(l, i) /\ \A j \in 1..(i - 1) : Intact(l, j)

ExperimentInit == exp_ledger = <<>> /\ exp_answers = <<>> /\ exp_copy = <<>> /\ exp_edited = FALSE

(* register: replay, refusal or append.  The copy is written along until   *)
(* it is edited.                                                           *)
Register(reg) ==
  LET same == {i \in DOMAIN exp_ledger : exp_ledger[i].reg.experiment_id = reg.experiment_id}
      entry == Entry(reg, TailHash(exp_ledger))
      answer(kind, i) == exp_answers' = Append(exp_answers, [kind |-> kind, reg |-> reg, at |-> i]) IN
  /\ Len(exp_answers) < MaxRegisterCalls /\ ~exp_edited
  /\ \/ /\ same = {}
        /\ exp_ledger' = Append(exp_ledger, entry) /\ exp_copy' = exp_ledger'
        /\ answer("stored", Len(exp_ledger) + 1)
     \/ \E i \in same :
          /\ \/ /\ ContentFingerprint(exp_ledger[i].reg) = ContentFingerprint(reg)
                /\ answer("stored", i)
             \/ /\ ContentFingerprint(exp_ledger[i].reg) # ContentFingerprint(reg)
                /\ answer(IF DesignChanged(exp_ledger[i].reg, reg) THEN "rejected" ELSE "conflict", i)
          /\ UNCHANGED <<exp_ledger, exp_copy>>
  /\ UNCHANGED exp_edited

(* What may happen to a stored copy: entries change places and the links   *)
(* are redone to match, an entry disappears, a registration's content is   *)
(* changed while the hashes stored with it stay, or only the fingerprint   *)
(* stored with it changes.                                                 *)
Relink(l) == [i \in DOMAIN l |-> [l[i] EXCEPT !.previous_hash = IF i = 1 THEN NoPrevious ELSE l[i - 1].canonical_hash]]
Edit ==
  /\ ~exp_edited /\ exp_copy # <<>> /\ exp_edited' = TRUE
  /\ \/ \E i, j \in DOMAIN exp_copy :
          i < j /\ exp_copy' = Relink([exp_copy EXCEPT ![i] = exp_copy[j], ![j] = exp_copy[i]])
     \/ \E i \in DOMAIN exp_copy :
          exp_copy' = Relink(SubSeq(exp_copy, 1, i - 1) \o SubSeq(exp_copy, i + 1, Len(exp_copy)))
     \/ \E i \in DOMAIN exp_copy, reg \in Registrations :
          reg # exp_copy[i].reg /\ exp_copy' = [exp_copy EXCEPT ![i].reg = reg]
     \/ \E i \in DOMAIN exp_copy : exp_copy' = [exp_copy EXCEPT ![i].content_fingerprint = NoPrevious]
  /\ UNCHANGED <<exp_ledger, exp_answers>>

ExperimentNext == (\E reg \in Registrations : Register(reg)) \/ Edit

-----------------------------------------------------------------------------
ExperimentTypeOK ==
  /\ \A i \in DOMAIN exp_ledger :
       /\ exp_ledger[i].reg \in Registrations
       /\ exp_ledger[i].content_fingerprint = ContentFingerprint(exp_ledger[i].reg)
  /\ \A i \in DOMAIN exp_answers : exp_answers[i].kind \in {"stored", "rejected", "conflict"}

(* A design, once registered, stays: the ledger verifies, holds one entry  *)
(* per experiment however often and with whatever it is registered again,  *)
(* and every call that was told "stored" finds its own content at the      *)
(* place it was told (register).                                           *)
DesignIsFixed ==
  /\ VerifyLedger(exp_ledger) = 0
  /\ \A i, j \in DOMAIN exp_ledger :
       exp_ledger[i].reg.experiment_id = exp_ledger[j].reg.experiment_id => i = j
  /\ \A n \in DOMAIN exp_answers :
       LET a == exp_answers[n]  e == exp_ledger[a.at] IN
       /\ a.kind = "stored" <=> e.reg = a.reg
       /\ a.kind = "conflict" => \A f \in DesignFields : e.reg[f] = a.reg[f]

(* A copy that verifies is the ledger up to some point, and verify_ledger  *)
(* names the first entry that differs, even when the links were redone to  *)
(* match the edit.  The fingerprint stored with an entry does not count:   *)
(* verify_ledger and register compute it anew and never read it.           *)
SameEntry(e, f) ==
  e.reg = f.reg /\ e.previous_hash = f.previous_hash /\ e.canonical_hash = f.canonical_hash
EditsAreFound ==
  LET v == VerifyLedger(exp_copy)
      Same(i) == i \in DOMAIN exp_ledger /\ SameEntry(exp_copy[i], exp_ledger[i]) IN
  /\ v = 0 => \A i \in DOMAIN exp_copy : Same(i)
  /\ v # 0 => ~Same(v) /\ \A i \in 1..(v - 1) : Same(i)

(* The design of a registered experiment stays, and an edit of what a      *)
(* stored copy says is found where it is (register, verify_ledger).        *)
DesignsAreFixed ==
  /\ ExperimentTypeOK
  /\ DesignIsFixed
  /\ EditsAreFound
=============================================================================

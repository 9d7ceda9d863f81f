---------------------------- MODULE HooksSession ----------------------------
(***************************************************************************)
(* A coding session under hooks-runtime: session_start, then for each tool *)
(* call pre_tool_use, the call and post_tool_use, sub-agents that start    *)
(* with a lease, and before_handoff.  The host of the hooks is external: a *)
(* blocked tool call does not run, and a DENY or UNSTABLE after a call     *)
(* stops the session.  Between two hooks the contract may be swapped, a    *)
(* hook may run out of time, and the audit sink may fail.                  *)
(***************************************************************************)
EXTENDS HookRules, FiniteSets

CONSTANTS
  ToolCalls,       \* names of the tool calls
  ToolCall,        \* tool, paths, command line, and the files it really changes
  Contracts,       \* names of the Action Contracts that may be in place
  Contract,        \* present, intact, engine_scope, approved_scope, units: per unit the files
  Starts,          \* what session_start finds: worktree, signature, bundle, secrets
  Start,
  Handoffs,        \* what before_handoff is given: gates, critic, rollback, commands
  Handoff,
  MaxCalls         \* bound: tool calls in a session

WRITE_TOOL_NAMES == {"Write", "Edit", "MultiEdit"}
WRITE_CAPABLE_TOOL_NAMES == WRITE_TOOL_NAMES \cup {"Bash"}
REQUIRED_GATES == {"build", "tests", "lint", "security"}
NON_REQUIRED_GATES == {"links", "schema", "a11y", "performance", "fidelity"}
BLOCKING == {"DENY", "FAIL", "UNSTABLE"}

OK == "OK"

(* validate_contract: there, its hash is that of its content, and just the *)
(* one engine.                                                             *)
ValidateContract(c) ==
  IF ~c.present THEN "CONTRACT_MISSING"
  ELSE IF ~c.intact THEN "CONTRACT_HASH_MISMATCH"
  ELSE IF c.engine_scope # <<"chatgpt-search">> THEN "ENGINE_SCOPE_VIOLATION"
  ELSE OK

(* A file that a call names, it names as a path it is given, or its        *)
(* command line writes to it as the shell reads it, in some spelling.      *)
ASSUME ToolCallAssumption ==
  \A n \in ToolCalls : LET t == ToolCall[n] IN
    /\ t.changes \subseteq STRING
    /\ t.tool = "Bash" => \A ws \in CommandsIn(t.line) : ws \in Seq(STRING)
    /\ \A p \in t.named :
         /\ t.tool \in WRITE_CAPABLE_TOOL_NAMES
         /\ \E q \in IF t.tool = "Bash" THEN UNION {WritesOf(ws) : ws \in CommandsIn(t.line)}
                     ELSE t.paths :
              NormalizePath(q) = NormalizePath(p)
ASSUME CallsAssumption == MaxCalls \in Nat /\ "none" \notin ToolCalls \cup Handoffs

VARIABLES
  session,         \* "new", "open", "stopped", "handed_off"
  contract,        \* the contract in place
  calls,           \* tool calls made
  pending,         \* the call that has run and was not looked at
  changed,         \* files changed in the session
  accounted,       \* files some post_tool_use attributed to a patch unit
  auditLog,        \* audit records appended
  handoff,         \* what before_handoff was given when it passed
  roles            \* leases of the sub-agents that were started
hookVars == <<session, contract, calls, pending, changed, accounted, auditLog, handoff, roles>>

NoCall == "none"
NoHandoff == "none"
Lease == [role : {"writer", "critic", "browser"}, write : BOOLEAN, targets : {"none", "any", "listed"}]

HooksTypeOK ==
  /\ session \in {"new", "open", "stopped", "handed_off"} /\ contract \in Contracts
  /\ calls \in 0..MaxCalls /\ pending \in ToolCalls \cup {NoCall}
  /\ changed \subseteq STRING /\ accounted \subseteq STRING
  /\ auditLog \in 0..MaxCalls /\ handoff \in Handoffs \cup {NoHandoff} /\ roles \subseteq Lease

HooksInit ==
  /\ session = "new" /\ contract \in Contracts /\ calls = 0 /\ pending = NoCall
  /\ changed = {} /\ accounted = {} /\ auditLog = 0 /\ handoff = NoHandoff /\ roles = {}

CheckSkillBundleIntegrity(s) ==
  IF s.bundle = "verified" THEN OK ELSE "SKILL_BUNDLE_INTEGRITY"
VerifyRunContext(c, s) ==
  IF ValidateContract(c) # OK THEN ValidateContract(c)
  ELSE IF s.dirty THEN "DIRTY_WORKTREE" ELSE OK

(* session_start: the first check that fails.                              *)
SessionStartReason(c, s) ==
  IF VerifyRunContext(c, s) # OK THEN VerifyRunContext(c, s)
  ELSE IF ~s.signed THEN "POLICY_SIGNATURE_INVALID"
  ELSE IF CheckSkillBundleIntegrity(s) # OK THEN CheckSkillBundleIntegrity(s)
  ELSE IF s.secrets THEN "SECRET_DETECTED"
  ELSE OK
SessionStart(s) ==
  /\ session = "new"
  /\ \/ session' = IF SessionStartReason(Contract[contract], Start[s]) = OK THEN "open" ELSE "stopped"
     \/ session' = "stopped"          \* TIMEOUT_EXCEEDED
  /\ UNCHANGED <<contract, calls, pending, changed, accounted, auditLog, handoff, roles>>

(* The rules of pre_tool_use, each over all segments.                      *)
DenyDeployPushCmsDns(segments, line) ==
  HasPipeToInterpreter(line) \/ \E s \in segments : MatchesDeployPushCmsDns(s)
DenyUnpinnedDependencyInstall(segments) ==
  \E s \in segments : MatchesUnpinnedInstall(s)
DenyUnapprovedNetworkEgress(segments) ==
  \E s \in segments : MatchesUnapprovedEgress(s, {"good"})
CandidateWritePathsAsGiven(t, segments) ==    \* mutant: redirections are not looked at
  IF t.tool \in WRITE_TOOL_NAMES THEN t.paths ELSE {}
CandidateWritePaths(t, segments) ==
  IF t.tool \in WRITE_TOOL_NAMES THEN t.paths
  ELSE IF t.tool = "Bash" THEN UNION {ExtractWriteTargets(s) : s \in segments}
  ELSE {}
DenyOutOfScopeFileWrite(t, segments, c) ==
  \E p \in CandidateWritePaths(t, segments) : ~PathInScope(p, c.scope)

(* pre_tool_use: the first check that fails.                               *)
PreToolUseReason(t, c) ==
  LET segments == IF t.tool = "Bash" THEN NormalizeCommand(t.line) ELSE {} IN
  IF t.tool \in WRITE_CAPABLE_TOOL_NAMES /\ ValidateContract(c) # OK THEN ValidateContract(c)
  ELSE IF t.tool = "Bash" /\ \A s \in segments : s = UNPARSEABLE THEN "COMMAND_NORMALIZE_FAILURE"
  ELSE IF t.tool = "Bash" /\ DenyDeployPushCmsDns(segments, t.line) THEN "DEPLOY_PUSH_CMS_DNS"
  ELSE IF DenyUnpinnedDependencyInstall(segments) THEN "UNPINNED_DEPENDENCY_INSTALL"
  ELSE IF DenyUnapprovedNetworkEgress(segments) THEN "UNAPPROVED_NETWORK_EGRESS"
  ELSE IF DenyOutOfScopeFileWrite(t, segments, c) THEN "OUT_OF_SCOPE_FILE_WRITE"
  ELSE OK

(* pre_tool_use lets the call through and the call runs; a denied one, or  *)
(* one the hook had no time for, leaves everything as it is.               *)
PreToolUse(n) ==
  /\ session = "open" /\ pending = NoCall /\ calls < MaxCalls
  /\ PreToolUseReason(ToolCall[n], Contract[contract]) = OK
  /\ calls' = calls + 1 /\ pending' = n
  /\ changed' = changed \cup ToolCall[n].changes
  /\ UNCHANGED <<session, contract, accounted, auditLog, handoff, roles>>

FindOwningPatchUnit(path, c) == {u \in DOMAIN c.units : NormalizePath(path) \in c.units[u]}
Unexplained(t, c) ==
  ~c.present \/ \E p \in t.changes : FindOwningPatchUnit(p, c) = {}

(* post_tool_use: unexplained changes and a lack of time are a DENY, a     *)
(* failing sink makes the run UNSTABLE.                                    *)
PostToolUse ==
  LET t == ToolCall[pending] IN
  /\ pending # NoCall /\ session = "open"
  /\ pending' = NoCall
  /\ \/ session' = "stopped" /\ UNCHANGED <<accounted, auditLog>>
     \/ /\ ~Unexplained(t, Contract[contract])
        /\ accounted' = accounted \cup t.changes
        /\ auditLog' = auditLog + 1 /\ session' = "open"
  /\ UNCHANGED <<contract, calls, changed, handoff, roles>>

(* enforce_role_tool_lease, subagent_start.                                *)
EnforceRoleToolLease(l) ==
  /\ l.role = "writer" => l.write
  /\ l.role \in {"critic", "browser"} => ~l.write
  /\ l.role = "browser" => l.targets # "any"
SubagentStart(l) ==
  /\ session = "open" /\ EnforceRoleToolLease(l) /\ roles = {}
  /\ roles' = {l}
  /\ UNCHANGED <<session, contract, calls, pending, changed, accounted, auditLog, handoff>>

(* The findings of before_handoff; a gate with no status counts as failed  *)
(* when it is required, as skipped when it is not.                         *)
StatusOfGate(h, g, missing) == IF g \in DOMAIN h.gates THEN h.gates[g] ELSE missing
RunQualityMatrix(h) == \E g \in REQUIRED_GATES : StatusOfGate(h, g, "FAIL") # "PASS"
SoftFindings(h) == \E g \in NON_REQUIRED_GATES : StatusOfGate(h, g, "SKIP") \notin {"PASS", "SKIP"}
RequireIndependentCritic(h) == h.critic # "independent_approve"
RequireRollbackManifest(h) == h.rollback # "verified"
DeploymentCmdInPatch(h) ==
  \E n \in DOMAIN h.commands :
    DenyDeployPushCmsDns(NormalizeCommand(h.commands[n]), h.commands[n])
PrimaryHardReason(h) ==
  IF RunQualityMatrix(h) THEN "FAILED_REQUIRED_GATE"
  ELSE IF RequireIndependentCritic(h) THEN "MISSING_CRITIC_REVIEW"
  ELSE IF RequireRollbackManifest(h) THEN "MISSING_ROLLBACK_MANIFEST"
  ELSE IF DeploymentCmdInPatch(h) THEN "DEPLOYMENT_CMD_IN_PATCH"
  ELSE OK
BeforeHandoffDecision(h) ==
  IF PrimaryHardReason(h) # OK THEN "FAIL" ELSE IF SoftFindings(h) THEN "CONDITIONAL_PASS" ELSE "PASS"
BeforeHandoff(h) ==
  /\ session = "open" /\ pending = NoCall
  /\ BeforeHandoffDecision(Handoff[h]) \notin BLOCKING
  /\ session' = "handed_off" /\ handoff' = h
  /\ UNCHANGED <<contract, calls, pending, changed, accounted, auditLog, roles>>

(* The contract in place changes under the session.                        *)
SwapContract(c) ==
  /\ session = "open" /\ c # contract
  /\ contract' = c
  /\ UNCHANGED <<session, calls, pending, changed, accounted, auditLog, handoff, roles>>

HooksNext ==
  \/ \E s \in Starts : SessionStart(s)
  \/ \E n \in ToolCalls : PreToolUse(n)
  \/ PostToolUse
  \/ \E l \in Lease : SubagentStart(l)
  \/ \E h \in Handoffs : BeforeHandoff(h)
  \/ \E c \in Contracts : SwapContract(c)
HooksSpec == HooksInit /\ [][HooksNext]_hookVars

(* A session that goes on has explained itself: each file changed so far,  *)
(* by a write or as the side effect of a command, belongs to a patch unit  *)
(* and each call that was looked at has an audit record.                   *)
OpenIsExplained ==
  session \in {"open", "handed_off"} =>
    /\ changed \subseteq accounted \cup (IF pending = NoCall THEN {} ELSE ToolCall[pending].changes)
    /\ auditLog = calls - (IF pending = NoCall THEN 0 ELSE 1)

(* The call names its files in a way that pre_tool_use reads: its commands *)
(* are nested no deeper than normalize_command looks, and redirect as      *)
(* extract_write_targets expects.                                          *)
IsRead(t) ==
  t.tool = "Bash" =>
    ~TooDeep(t.line) /\ \A ws \in CommandsIn(t.line) : IsSpelledAsRead(ws)

(* No call changes a file it names, as a path or, nested up to the limit   *)
(* and redirected with > or >>, tee or dd, in its command, outside of the  *)
(* scope of an intact contract, also after the contract was swapped under  *)
(* the session (require_action_contract_for_write).                        *)
NamedWritesInScope ==
  [][\A p \in (changed' \ changed) :
       (pending' # NoCall /\ p \in ToolCall[pending'].named /\ IsRead(ToolCall[pending'])) =>
         ValidateContract(Contract[contract]) = OK /\ PathInScope(p, Contract[contract].scope)]_hookVars

(* Not so in the code: the same of each spelling the shell takes.  a>z,    *)
(* 2>z and &>z, and > behind git -c, are not read as redirections; a       *)
(* change that lands outside of the units stops the session afterwards.    *)
EveryNamedWriteInScope ==
  [][\A p \in (changed' \ changed) :
       (pending' # NoCall /\ p \in ToolCall[pending'].named) =>
         ValidateContract(Contract[contract]) = OK /\ PathInScope(p, Contract[contract].scope)]_hookVars

(* A command whose own words, behind assignments, env and the options of   *)
(* git, are a deployment, push, publication or DNS change.                 *)
Deploys(ws) == \E own \in NormalWords(ws) : MatchesDeployPushCmsDns(own)

(* What is handed off has passed its gates, a critic of its own and has a  *)
(* way back; nothing in it is piped into an interpreter, and none of its   *)
(* commands deploys, however they are nested up to the limit.              *)
HandoffIsEarned ==
  session = "handed_off" =>
    LET h == Handoff[handoff] IN
    /\ \A g \in REQUIRED_GATES : g \in DOMAIN h.gates /\ h.gates[g] = "PASS"
    /\ h.critic = "independent_approve" /\ h.rollback = "verified"
    /\ \A n \in DOMAIN h.commands :
         /\ ~HasPipeToInterpreter(h.commands[n])
         /\ ~TooDeep(h.commands[n]) => \A ws \in CommandsIn(h.commands[n]) : ~Deploys(ws)

(* Not so in the code: the same of commands nested deeper.  before_handoff *)
(* takes no finding from what could not be normalized.                     *)
HandoffDeploysNothing ==
  session = "handed_off" =>
    \A n \in DOMAIN Handoff[handoff].commands :
      \A ws \in CommandsIn(Handoff[handoff].commands[n]) : ~Deploys(ws)

(* What pre_tool_use says of a call with another command line, and a line  *)
(* around a line.                                                          *)
SaysOf(t, line) == PreToolUseReason([tool |-> t.tool, paths |-> t.paths, line |-> line], Contract[contract])
Around(k, line) == <<IF k = 0 THEN Subshell(line) ELSE IF k = 1 THEN DashC(line) ELSE EnvS(line)>>

(* Nesting a command up to the limit changes nothing about what the hook   *)
(* says of it, nor does substituting its output, and a command of one part *)
(* beyond the limit is refused.                                            *)
NestingHidesNoRule ==
  session = "new" =>
    \A n \in ToolCalls : LET t == ToolCall[n] IN
      t.tool = "Bash" /\ DOMAIN t.line = {1} /\ t.line[1].form = "words" =>
        \A a, b, c \in 0..2 :
          /\ SaysOf(t, Around(a, Around(b, Around(c, t.line)))) = SaysOf(t, t.line)
          /\ SaysOf(t, Around(a, Around(b, Around(c, Around(a, t.line))))) # OK
          /\ \/ SaysOf(t, <<Substituting(<<"echo">>, Around(a, Around(b, t.line)))>>) = SaysOf(t, t.line)
             \/ SaysOf(t, t.line) = "COMMAND_NORMALIZE_FAILURE"

(* An open session is explained by its contract, a handoff is earned,      *)
(* nesting hides no rule, and a file that a tool call names in a way that  *)
(* the hook reads is written in scope only.                                *)
HooksHold ==
  /\ [](HooksTypeOK /\ OpenIsExplained /\ HandoffIsEarned /\ NestingHidesNoRule)
  /\ NamedWritesInScope
=============================================================================

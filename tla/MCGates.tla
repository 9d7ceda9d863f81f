------------------------------ MODULE MCGates ------------------------------
(***************************************************************************)
(* Instances of CommandPolicy, PolicyGate, QualityEval and HooksSession    *)
(* for TLC.  They share no state, so a behaviour exercises one of them.    *)
(***************************************************************************)
EXTENDS CommandPolicy, PolicyGate, QualityEval, HooksSession, TLC

VARIABLE part

(* Commands on the denylist, near it, and harmless ones.                   *)
MCBase ==
  [push |-> [argv |-> Words(<<"GIT.EXE", "-c", "k=v", "push">>), denied |-> TRUE],
   delete |-> [argv |-> Words(<<"kubectl", "-n", "push", "--verbose", "delete">>), denied |-> TRUE],
   status |-> [argv |-> Words(<<"git", "-C", "push", "status">>), denied |-> FALSE],
   get |-> [argv |-> Words(<<"kubectl", "get", "pods">>), denied |-> FALSE]]

(* Ways to wrap a command.  Those from sudo_n on are not read as meant.    *)
Exec(words, are) == [own |-> Words(words), roles |-> are, how |-> "words", after |-> <<>>]
AsString(words, after) == [own |-> Words(words), roles |-> <<>>, how |-> "string", after |-> Words(after)]
MCWrapper ==
  [sudo |-> Exec(<<"/usr/bin/sudo", "-u", "root">>, <<"wrapper", "valued", "value">>),
   env |-> Exec(<<"env", "-i", "A=1">>, <<"wrapper", "passed", "passed">>),
   timeout |-> Exec(<<"timeout", "--verbose", "5">>, <<"wrapper", "passed", "positional">>),
   nice |-> Exec(<<"nice", "10">>, <<"wrapper", "passed">>),
   xargs |-> Exec(<<"xargs", "-r", "-n", "push">>, <<"wrapper", "passed", "valued", "value">>),
   stdbuf |-> Exec(<<"stdbuf", "-oL">>, <<"wrapper", "passed">>),
   chroot |-> Exec(<<"chroot", "-g", "g", "/">>, <<"wrapper", "valued", "value", "positional">>),
   nohup |-> Exec(<<"nohup">>, <<"wrapper">>),
   assign |-> [Exec(<<"A=1", "B=2">>, <<>>) EXCEPT !.how = "prefix"],
   shell |-> AsString(<<"/bin/sh", "-c">>, <<>>),
   su |-> AsString(<<"su", "-c">>, <<"root">>),
   env_split |-> AsString(<<"/usr/bin/env", "B=2", "-S">>, <<>>),
   env_joined |-> [AsString(<<"env", "-i">>, <<>>) EXCEPT !.how = "joined"],
   sudo_n |-> Exec(<<"sudo", "-n">>, <<"wrapper", "passed">>),
   time_p |-> Exec(<<"time", "-p">>, <<"wrapper", "passed">>),
   setsid_c |-> Exec(<<"setsid", "-c">>, <<"wrapper", "passed">>),
   timeout_k |-> Exec(<<"timeout", "-k", "5", "30">>, <<"wrapper", "valued", "value", "positional">>),
   stdbuf_o |-> Exec(<<"stdbuf", "-o", "L">>, <<"wrapper", "valued", "value">>),
   bash_lc |-> AsString(<<"bash", "-lc">>, <<>>),
   env_words |-> Exec(<<"env", "-S">>, <<"wrapper", "passed">>),
   sudo_stdin |-> Exec(<<"sudo", "-S">>, <<"wrapper", "passed">>)]

(* A plan check: facts of a sound plan, and variations of it.              *)
SoundPlan == [evidence |-> TRUE, globs |-> <<"relative", "relative">>, max_globs |-> 2,
              files |-> 0, max_files |-> 1, lines |-> 0, max_lines |-> 1, measured |-> FALSE,
              risks |-> {"low"}]
PlanRequest(plan, approver) ==
  [route |-> "plan_check", header |-> "acme", hash |-> "h", approver |-> approver,
   complete |-> TRUE, plan |-> plan]
CommandRequest(hash, argv) ==
  [route |-> "authorize", header |-> "acme", hash |-> hash, approver |-> "ann",
   request |-> [kind |-> "command", action |-> "execute", resource |-> argv, stages |-> <<>>]]
MCGateRequest ==
  [sound |-> PlanRequest([SoundPlan EXCEPT !.risks = {"low", "high"}], "Ann"),
   same |-> PlanRequest([SoundPlan EXCEPT !.measured = TRUE], "ann "),
   too_wide |-> PlanRequest([SoundPlan EXCEPT !.max_globs = 1], "ann"),
   too_long |-> PlanRequest([SoundPlan EXCEPT !.measured = TRUE, !.lines = 2], "ann"),
   escaping |-> PlanRequest([SoundPlan EXCEPT !.globs = <<"relative", "dotdot">>], "bob"),
   partial |-> [PlanRequest(SoundPlan, "ann") EXCEPT !.complete = FALSE],
   malformed |-> PlanRequest([SoundPlan EXCEPT !.globs = <<>>], "ann"),
   foreign |-> [PlanRequest(SoundPlan, "ann") EXCEPT !.header = "other"],
   status |-> CommandRequest("c1", Words(<<"git", "status">>)),
   push |-> CommandRequest("c2", Words(<<"git", "push">>))]

(* A patch at the thresholds of coverage and performance, and one without  *)
(* tests, changed lines, claims or hunks that got faster.                  *)
AtThreshold ==
  [artifact_base |-> "approved", build_ok |-> TRUE,
   unit |-> [total |-> 3, passed |-> 3, failed |-> 0],
   integration |-> [total |-> 0, passed |-> 0, failed |-> 0],
   lint |-> 0, types |-> 0, contracts_ok |-> TRUE, leaks |-> 0, injections |-> 0, anomalies |-> 0,
   outside |-> {}, changed |-> {"src/a"}, lines |-> 10, covered |-> 9, secrets |-> 0, drifted |-> 0,
   broken_links |-> 0, redirect_errors |-> 0, blocked |-> 0, rendering_ok |-> TRUE,
   syntax_errors |-> 0, fabricated |-> 0, parity_ok |-> TRUE,
   claims |-> {[id |-> "c", evidence |-> TRUE]}, a11y |-> 0, baseline |-> 20, observed |-> 21,
   threshold |-> 5, hunks |-> {[id |-> "h", unit |-> "u"]}]
Empty ==
  [AtThreshold EXCEPT !.unit = [total |-> 0, passed |-> 0, failed |-> 0], !.changed = {}, !.lines = 0,
                      !.covered = 0, !.claims = {}, !.hunks = {}, !.observed = 19, !.threshold = 0]
MCCleanPatches == {AtThreshold, Empty}

MCContract ==
  [good |-> [present |-> TRUE, intact |-> TRUE, engine_scope |-> <<"chatgpt-search">>,
             scope |-> {"x", "y"}, units |-> [u |-> {"x"}, v |-> {"y"}]],
   narrow |-> [present |-> TRUE, intact |-> TRUE, engine_scope |-> <<"chatgpt-search">>,
               scope |-> {"x", "y"}, units |-> [u |-> {"x"}]],
   forged |-> [present |-> TRUE, intact |-> FALSE, engine_scope |-> <<"chatgpt-search">>,
               scope |-> {"x", "y", "z"}, units |-> [u |-> {"x", "z"}]],
   other_engine |-> [present |-> TRUE, intact |-> TRUE, engine_scope |-> <<"chatgpt-search", "b">>,
                     scope |-> {"x"}, units |-> [u |-> {"x"}]],
   none |-> [present |-> FALSE, intact |-> FALSE, engine_scope |-> <<>>, scope |-> {}, units |-> <<>>]]
Edit(paths, changes) ==
  [tool |-> "Edit", paths |-> paths, line |-> <<>>, changes |-> changes, named |-> changes]
Bash(line, changes, named) ==
  [tool |-> "Bash", paths |-> {}, line |-> line, changes |-> changes, named |-> named]
Deep(line) == Subshell(<<Subshell(<<DashC(<<Subshell(line)>>)>>)>>)
MCToolCall ==
  [edit_x |-> Edit({"src/../x"}, {"x"}),
   edit_z |-> Edit({"z"}, {"z"}),
   through_link |-> Edit({"x", "z"}, {"z"}),
   redirect_y |-> Bash(<<Plain(<<"echo", ">>", ".//y">>)>>, {"y"}, {"y"}),
   redirect_z |-> Bash(<<Plain(<<"ls">>), Plain(<<"echo", ">", "z">>)>>, {"z"}, {"z"}),
   glued_z |-> Bash(<<Plain(<<"make", "a>z">>)>>, {"z"}, {"z"}),
   errors_y |-> Bash(<<Plain(<<"make", "2>", "y">>)>>, {"y"}, {"y"}),
   behind_option |-> Bash(<<Plain(<<"git", "-c", ">x", "log">>)>>, {"x"}, {"x"}),
   nested_y |-> Bash(<<DashC(<<Plain(<<"ls">>), Substituting(<<"echo", ">x">>, <<Subshell(<<Plain(<<"tee", "y">>)>>)>>)>>)>>,
                     {"x", "y"}, {"x", "y"}),
   deep_z |-> Bash(<<Plain(<<"ls">>), Deep(<<Plain(<<"echo", ">", "z">>)>>)>>, {"z"}, {"z"}),
   generate |-> Bash(<<Plain(<<"python", "gen.py">>)>>, {"w"}, {}),
   dd_x |-> Bash(<<Plain(<<"dd", "of=x">>)>>, {"x"}, {"x"}),
   tee_z |-> Bash(<<Piped(Plain(<<"tee", "z">>))>>, {"z"}, {"z"}),
   push |-> Bash(<<Plain(<<"env", "-i", "A=1", "git", "-C", "d", "push">>)>>, {}, {}),
   apply |-> Bash(<<Plain(<<"kubectl", "apply">>)>>, {}, {}),
   dns |-> Bash(<<Plain(<<"gcloud", "dns", "record-sets", "update">>)>>, {}, {}),
   publish |-> Bash(<<Plain(<<"wp", "post", "--post_status=publish">>)>>, {}, {}),
   pip |-> Bash(<<Plain(<<"pip", "install", "-U", "a">>)>>, {}, {}),
   npm |-> Bash(<<Plain(<<"npm", "install", "a@1", "b">>)>>, {}, {}),
   gem |-> Bash(<<Plain(<<"gem", "install", "a">>)>>, {}, {}),
   go |-> Bash(<<Plain(<<"go", "install", "a@latest">>)>>, {}, {}),
   pinned |-> Bash(<<Plain(<<"pip3", "install", "a==1">>)>>, {}, {}),
   fetch |-> Bash(<<Plain(<<"curl", "-o", "https://bad/x">>)>>, {}, {}),
   fetch_good |-> Bash(<<Plain(<<"scp", "u@good:p", "x">>)>>, {}, {}),
   pipe |-> Bash(<<Plain(<<"echo", "c">>), Piped(Plain(<<"sh">>))>>, {}, {}),
   garbled |-> Bash(<<Garbled>>, {"z"}, {}),
   read |-> [tool |-> "Read", paths |-> {"z"}, line |-> <<>>, changes |-> {}, named |-> {}]]
MCStart ==
  [clean |-> [dirty |-> FALSE, signed |-> TRUE, bundle |-> "verified", secrets |-> FALSE],
   dirty |-> [dirty |-> TRUE, signed |-> TRUE, bundle |-> "verified", secrets |-> FALSE],
   unsigned |-> [dirty |-> FALSE, signed |-> FALSE, bundle |-> "verified", secrets |-> FALSE],
   no_pin |-> [dirty |-> FALSE, signed |-> TRUE, bundle |-> "no_pin", secrets |-> FALSE],
   secret |-> [dirty |-> FALSE, signed |-> TRUE, bundle |-> "verified", secrets |-> TRUE]]
Passing == [g \in REQUIRED_GATES |-> "PASS"]
Earned == [gates |-> Passing, critic |-> "independent_approve", rollback |-> "verified",
           commands |-> <<<<Plain(<<"make">>)>>>>]
MCHandoff ==
  [earned |-> Earned,
   slow |-> [Earned EXCEPT !.gates = Passing @@ ("performance" :> "FAIL")],
   no_tests |-> [Earned EXCEPT !.gates = [g \in {"build", "lint", "security"} |-> "PASS"]],
   own_critic |-> [Earned EXCEPT !.critic = "own_approve"],
   rejected |-> [Earned EXCEPT !.critic = "independent_reject"],
   no_way_back |-> [Earned EXCEPT !.rollback = "unverified"],
   deploys |-> [Earned EXCEPT !.commands =
     <<<<Plain(<<"make">>)>>, <<DashC(<<Plain(<<"make">>), Subshell(<<Plain(<<"git", "-c", "k", "push">>)>>)>>)>>>>],
   substitutes |-> [Earned EXCEPT !.commands =
     <<<<Substituting(<<"echo">>, <<Subshell(<<EnvS(<<Plain(<<"gh", "pr", "merge">>)>>)>>)>>)>>>>],
   deploys_deep |-> [Earned EXCEPT !.commands = <<<<Deep(<<Plain(<<"git", "push">>)>>)>>>>]]

(* The parts that are not exercised stay in one state.                     *)
CommandRest == /\ base = "get" /\ pattern = <<"sudo", "sudo">> /\ wraps = 0 /\ command = MCBase["get"].argv
GateRest ==
  /\ asks = [c \in GateCallers |-> "sound"] /\ asked = [c \in GateCallers |-> 0]
  /\ wire = [t \in Attempts |-> Quiet] /\ heard = [c \in GateCallers |-> "idle"]
  /\ decided = [k \in GateKeys |-> NoDecision]
QualityRest ==
  /\ patch = Empty /\ defects = {} /\ evaluated = {}
  /\ verdict = NotEvaluated /\ qualityJob = "pending"
HooksRest ==
  /\ session = "stopped" /\ contract = "good" /\ calls = 0 /\ pending = NoCall /\ changed = {}
  /\ accounted = {} /\ auditLog = 0 /\ handoff = NoHandoff /\ roles = {}

mcVars == <<part, commandVars, gateVars, qualityVars, hookVars>>
MCInit ==
  \/ part = "command" /\ CommandInit /\ GateRest /\ QualityRest /\ HooksRest
  \/ part = "gate" /\ GateInit /\ CommandRest /\ QualityRest /\ HooksRest
  \/ part = "quality" /\ QualityInit /\ CommandRest /\ GateRest /\ HooksRest
  \/ part = "hooks" /\ HooksInit /\ CommandRest /\ GateRest /\ QualityRest
MCNext ==
  \/ part = "command" /\ CommandNext /\ UNCHANGED <<part, gateVars, qualityVars, hookVars>>
  \/ part = "gate" /\ GateNext /\ UNCHANGED <<part, commandVars, qualityVars, hookVars>>
  \/ part = "quality" /\ QualityNext /\ UNCHANGED <<part, commandVars, gateVars, hookVars>>
  \/ part = "hooks" /\ HooksNext /\ UNCHANGED <<part, commandVars, gateVars, qualityVars>>
MCSpec == MCInit /\ [][MCNext]_mcVars /\ (part = "gate" => GateFairness)
=============================================================================

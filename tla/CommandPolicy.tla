--------------------------- MODULE CommandPolicy ---------------------------
(***************************************************************************)
(* The command classification of the policy gate (engine.py): wrappers,    *)
(* shells and environment prefixes are taken off an argv until the program *)
(* that really runs is found, and its subcommand is looked up in the       *)
(* denylist; then the allow rules decide, and nothing matched is a deny.   *)
(*                                                                         *)
(* A token is a record: its word, and for a quoted string the argv that    *)
(* shlex.split makes of it.                                                *)
(***************************************************************************)
EXTENDS Naturals, Sequences, SequencesExt

Word(w) == [word |-> w, inner |-> <<>>]
Words(ws) == [n \in DOMAIN ws |-> Word(ws[n])]
Quoted(argv) == [word |-> "'...'", inner |-> argv]
Joined(argv) == [word |-> "-S'...'", inner |-> argv]

DENIED_SUBCOMMANDS ==
  {<<"kubectl", s>> : s \in {"patch", "edit", "delete", "replace"}} \cup {<<"git", "push">>}
  \cup {<<"helm", s>> : s \in {"upgrade", "install", "uninstall", "delete"}}

SHELL_INTERPRETERS == {"sh", "bash", "zsh", "dash", "ksh", "ash"}
FETCH_TOOLS == {"curl", "wget", "fetch"}
EXEC_WRAPPERS == {"env", "sudo", "xargs", "nohup", "timeout", "nice", "ionice", "stdbuf", "time",
                  "doas", "setsid", "chroot", "unbuffer"}
VALUE_TAKING_SHORT_OPTIONS == {"-c", "-C", "-n", "-namespace", "-f", "-o", "-l", "-context"}
WRAPPER_VALUE_TAKING_OPTIONS == {"-n", "-c", "-p", "-u", "-g", "--user", "--group"}
WRAPPERS_WITH_LEADING_POSITIONAL == {"timeout", "chroot"}
MAX_UNWRAP_DEPTH == 12

(* Tokens are told apart by their first characters: an option, a NAME= and *)
(* a number, of which the words below are the ones the inputs use.         *)
IsOptionToken(t) ==
  t.word \in VALUE_TAKING_SHORT_OPTIONS \cup WRAPPER_VALUE_TAKING_OPTIONS
             \cup {"-i", "-S", "--split-string", "-S'...'", "--verbose", "-r", "-oL", "-k", "-lc"}
IsEnvAssignment(t) == t.word \in {"A=1", "B=2"}
IsNiceNumericPositional(t) == t.word \in {"5", "10"}

(* The last path segment, in lower case and without ".exe".                *)
Basename(t) ==
  CASE t.word \in {"/usr/bin/git", "GIT.EXE", "bin\\Git"} -> "git"
    [] t.word \in {"/bin/sh", "Sh"} -> "sh"
    [] t.word \in {"/usr/bin/sudo", "SUDO"} -> "sudo"
    [] t.word = "/usr/bin/env" -> "env"
    [] OTHER -> t.word

(* shlex.split: the words of a quoted string; quotes that do not close are *)
(* a ValueError.                                                           *)
Parses(t) == t.word # "'"
ShlexSplit(t) == IF t.word \in {"'...'", "-S'...'"} THEN t.inner ELSE <<t>>

NoToken == Word("")

SPLIT_OPTIONS == {"-S", "--split-string", "-S'...'"}

(* The words from the first of some places on; none if there is no place.  *)
FromFirst(argv, places) == IF places = {} THEN <<>> ELSE SubSeq(argv, Min(places), Len(argv))

(* The argument of env's -S: the next token, or the rest of the option.    *)
FindEnvSplitStringArg(argv) ==
  LET hits == {i \in 2..Len(argv) : argv[i].word \in SPLIT_OPTIONS}
      i == Min(hits)
  IN IF hits = {} THEN NoToken
     ELSE IF argv[i].word = "-S'...'" THEN argv[i]
     ELSE IF i + 1 <= Len(argv) THEN argv[i + 1] ELSE NoToken

(* Every word that is neither an option nor the value of one.              *)
IterCandidateSubcommands(argv) ==
  LET value[i \in DOMAIN argv] ==
        i > 2 /\ ~value[i - 1] /\ argv[i - 1].word \in VALUE_TAKING_SHORT_OPTIONS
  IN {argv[i].word : i \in {k \in 2..Len(argv) : ~IsOptionToken(argv[k]) /\ ~value[k]}}

StripEnvAssignments(argv) == FromFirst(argv, {i \in DOMAIN argv : ~IsEnvAssignment(argv[i])})

(* What the word at i is to the wrapper in front, given what those before  *)
(* it are: an option, perhaps one with a value, that value, NAME= words of *)
(* env, numbers of nice and one positional of timeout and chroot are       *)
(* passed over, and the first word left is where the command starts.       *)
RoleAt(argv, binary, positionals, role, i) ==
  IF i = 1 THEN "wrapper"
  ELSE IF role[i - 1] = "valued" THEN "value"
  ELSE IF binary = "env" /\ IsEnvAssignment(argv[i]) THEN "passed"
  ELSE IF binary = "nice" /\ IsNiceNumericPositional(argv[i]) THEN "passed"
  ELSE IF IsOptionToken(argv[i])
       THEN IF argv[i].word \in WRAPPER_VALUE_TAKING_OPTIONS THEN "valued" ELSE "passed"
  ELSE IF positionals /\ \A k \in 1..(i - 1) : role[k] # "positional" THEN "positional"
  ELSE "command"
Wrapped(argv, binary, positionals) ==
  LET role[i \in DOMAIN argv] == RoleAt(argv, binary, positionals, role, i)
  IN FromFirst(argv, {i \in DOMAIN argv : role[i] = "command"})
UnwrapExecWrapperNoPositional(argv, binary) ==  \* mutant: "timeout 5 c" runs 5
  IF binary \in EXEC_WRAPPERS THEN Wrapped(argv, binary, FALSE) ELSE <<>>
UnwrapExecWrapper(argv, binary) ==
  IF binary \in EXEC_WRAPPERS THEN Wrapped(argv, binary, binary \in WRAPPERS_WITH_LEADING_POSITIONAL)
  ELSE <<>>

(* The argument of the first -c of a shell or su.                          *)
UnwrapShellDashC(argv, binary) ==
  LET at == {i \in 2..(Len(argv) - 1) : argv[i].word = "-c"} IN
  IF binary \in SHELL_INTERPRETERS \cup {"su"} /\ at # {} THEN argv[Min(at) + 1] ELSE NoToken

DirectlyDenied(argv) ==
  \E c \in IterCandidateSubcommands(argv) : <<Basename(argv[1]), c>> \in DENIED_SUBCOMMANDS

(* _classify_argv, one level of it: the command inside of this one is left *)
(* to be classified, or there is a verdict, which stays.                   *)
Open(argv) == [argv |-> argv, verdict |-> "open"]
Closed(denied) == [argv |-> <<>>, verdict |-> IF denied THEN "denied" ELSE "clear"]
Inside(token) == IF Parses(token) THEN Open(ShlexSplit(token)) ELSE Closed(TRUE)
ClassifyArgv(argv) ==
  LET binary == Basename(argv[1])
      split == FindEnvSplitStringArg(argv)
      wrapped == UnwrapExecWrapper(argv, binary)
      shell == UnwrapShellDashC(argv, binary)
  IN IF binary = "env" /\ split # NoToken THEN Inside(split)
     ELSE IF wrapped # <<>> THEN Open(wrapped)
     ELSE IF shell # NoToken THEN Inside(shell)
     ELSE Closed(DirectlyDenied(argv))
ClassifyLevel(level) ==
  LET argv == StripEnvAssignments(level.argv) IN
  IF level.verdict # "open" THEN level
  ELSE IF argv = <<>> THEN Closed(FALSE) ELSE ClassifyArgv(argv)

(* As deep as the limit; what is nested deeper is denied.                  *)
ClassifyCommand(argv) ==
  LET level[n \in 0..MAX_UNWRAP_DEPTH] == IF n = 0 THEN Open(argv) ELSE ClassifyLevel(level[n - 1])
      last == level[MAX_UNWRAP_DEPTH]
  IN [denied |-> last.verdict = "denied" \/ (last.verdict = "open" /\ last.argv # <<>>)]

(* Every stage by itself, then the shape of a fetch piped into a shell.    *)
ClassifyPipeline(stages) ==
  [denied |->
     \/ \E n \in DOMAIN stages : ClassifyCommand(stages[n]).denied
     \/ \E n \in 1..Len(stages) - 1 :
          /\ stages[n] # <<>> /\ stages[n + 1] # <<>>
          /\ Basename(stages[n][1]) \in FETCH_TOOLS
          /\ Basename(stages[n + 1][1]) \in SHELL_INTERPRETERS]

(* AllowRule: kind, action and a prefix of the first resource word.  The   *)
(* words with the prefix are listed.                                       *)
DEFAULT_RULES ==
  {[kind |-> "command", action |-> "execute", prefixed |-> {"pytest", "pytest-3"}],
   [kind |-> "command", action |-> "execute", prefixed |-> {"git", "gitk"}],
   [kind |-> "file", action |-> "read", prefixed |-> {"/workspace/a"}],
   [kind |-> "network", action |-> "connect", prefixed |-> {"internal://a"}],
   [kind |-> "tool", action |-> "invoke", prefixed |-> {"linter"}]}

(* PolicyEngine.evaluate.  A request with no pipeline has no stages.       *)
Evaluate(request) ==
  /\ request.kind = "command" =>
       ~(IF request.stages # <<>> THEN ClassifyPipeline(request.stages)
         ELSE ClassifyCommand(request.resource)).denied
  /\ \E r \in DEFAULT_RULES :
       /\ r.kind = request.kind /\ r.action = request.action
       /\ request.resource # <<>> /\ request.resource[1].word \in r.prefixed
-----------------------------------------------------------------------------
(* Commands as they come in: one of Bases inside of wrappers.  A wrapper   *)
(* is written as its manual has it: its own words, what each of them is,   *)
(* how the command follows (as words, as one quoted string, glued to -S,   *)
(* or behind a prefix of NAME= words), and what comes behind the string.   *)
CONSTANTS
  Bases,           \* names of the innermost commands
  Base,            \* their argv, and whether the denylist means them
  Wrappers,        \* names of the ways to wrap a command
  Wrapper,         \* their own words, the roles of these, how and after
  MaxWraps         \* bound: how often a command is wrapped

(* One more wrapper around argv.                                           *)
WrapWith(w, argv) ==
  LET x == Wrapper[w] IN
  CASE x.how \in {"words", "prefix"} -> x.own \o argv
    [] x.how = "string" -> (x.own \o <<Quoted(argv)>>) \o x.after
    [] x.how = "joined" -> (x.own \o <<Joined(argv)>>) \o x.after

(* What runs in the end is no wrapper, no shell and no option, and is      *)
(* denied just if the list says so of it.                                  *)
IsProgram(t) == ~IsOptionToken(t) /\ ~IsEnvAssignment(t) /\ ~IsNiceNumericPositional(t)
ASSUME BaseAssumption ==
  \A b \in Bases : LET argv == Base[b].argv IN
    /\ argv \in Seq({argv[i] : i \in DOMAIN argv}) /\ argv # <<>> /\ IsProgram(argv[1])
    /\ Basename(argv[1]) \notin EXEC_WRAPPERS \cup SHELL_INTERPRETERS \cup {"su"}
    /\ Base[b].denied = DirectlyDenied(argv)

(* The roles of a wrapper's own words: its name, options without and with  *)
(* a value, NAME= words and numbers (passed), values and positionals.      *)
RolesAreWritten(x) ==
  /\ DOMAIN x.roles = DOMAIN x.own /\ x.roles[1] = "wrapper" /\ x.roles[Len(x.own)] # "valued"
  /\ \A i \in 2..Len(x.own) :
       /\ x.roles[i] \in {"passed", "valued", "value", "positional"}
       /\ x.roles[i] = "value" <=> x.roles[i - 1] = "valued"
ASSUME WrapperAssumption ==
  \A w \in Wrappers : LET x == Wrapper[w] IN
    /\ x.own \in Seq({x.own[i] : i \in DOMAIN x.own}) /\ x.own # <<>>
    /\ x.after \in Seq({x.after[i] : i \in DOMAIN x.after})
    /\ x.how \in {"words", "prefix", "string", "joined"}
    /\ x.how = "words" => RolesAreWritten(x)

(* Where the engine's tables and the manual are of one mind about a        *)
(* wrapper's own words: the wrapper is listed, its options take a value    *)
(* just if the table says so, and it has a positional just if listed for   *)
(* one.  No word may look like env's -S, which env finds behind any        *)
(* wrapper, and a string follows the first -c of a shell, or env's -S.     *)
TableAgrees(binary, t, role) ==
  CASE role = "wrapper" -> binary \in EXEC_WRAPPERS /\ IsProgram(t)
    [] role = "valued" -> t.word \in WRAPPER_VALUE_TAKING_OPTIONS
    [] role = "passed" -> \/ IsOptionToken(t) /\ t.word \notin WRAPPER_VALUE_TAKING_OPTIONS
                          \/ binary = "env" /\ IsEnvAssignment(t)
                          \/ binary = "nice" /\ IsNiceNumericPositional(t)
    [] role = "positional" -> binary \in WRAPPERS_WITH_LEADING_POSITIONAL /\ ~IsOptionToken(t)
    [] OTHER -> TRUE
Unsplit(argv) == \A i \in DOMAIN argv : argv[i].word \notin SPLIT_OPTIONS
WordsAgree(x, binary) ==
  /\ \A i \in DOMAIN x.own : TableAgrees(binary, x.own[i], x.roles[i])
  /\ \A i, j \in DOMAIN x.own : x.roles[i] = "positional" /\ x.roles[j] = "positional" => i = j
  /\ binary \in WRAPPERS_WITH_LEADING_POSITIONAL => \E i \in DOMAIN x.own : x.roles[i] = "positional"
OptionBeforeString(x, options) ==
  \A i \in DOMAIN x.own : x.own[i].word \in options <=> i = Len(x.own)
StringAgrees(x, binary) ==
  /\ IsProgram(x.own[1])
  /\ \/ /\ binary \in SHELL_INTERPRETERS \cup {"su"}
        /\ OptionBeforeString(x, {"-c"}) /\ Unsplit(x.own) /\ Unsplit(x.after)
     \/ /\ binary = "env" /\ x.after = <<>>
        /\ OptionBeforeString(x, SPLIT_OPTIONS) /\ x.own[Len(x.own)].word # "-S'...'"
ReadAsMeant(w) ==
  LET x == Wrapper[w]
      binary == Basename(x.own[1])
  IN CASE x.how = "words" -> Unsplit(x.own) /\ WordsAgree(x, binary)
       [] x.how = "prefix" -> \A i \in DOMAIN x.own : IsEnvAssignment(x.own[i])
       [] x.how = "string" -> StringAgrees(x, binary)
       [] x.how = "joined" -> binary = "env" /\ IsProgram(x.own[1]) /\ Unsplit(x.own) /\ x.after = <<>>

VARIABLES
  base,            \* the innermost command
  pattern,         \* the wrappers put around it, in turn
  wraps,           \* how many there are
  command             \* the command with them
commandVars == <<base, pattern, wraps, command>>

CommandInit ==
  /\ base \in Bases /\ pattern \in Wrappers \X Wrappers
  /\ wraps = 0 /\ command = Base[base].argv
Wrap ==
  /\ wraps < MaxWraps
  /\ wraps' = wraps + 1
  /\ command' = WrapWith(pattern[IF wraps % 2 = 0 THEN 1 ELSE 2], command)
  /\ UNCHANGED <<base, pattern>>
CommandNext == Wrap
CommandSpec == CommandInit /\ [][CommandNext]_commandVars

(* The wrappers used are ones the engine reads as their manuals do, and    *)
(* the command has no word an env in front would take for its -S.          *)
IsReadAsMeant == Unsplit(Base[base].argv) /\ \A k \in 1..2 : ReadAsMeant(pattern[k])

(* A denied command stays denied in any wrappers, in any order and number, *)
(* that the engine's tables describe as their manuals do, nested beyond    *)
(* the unwrapping limit or put behind another stage of a pipeline, and a   *)
(* harmless one is not denied for such wrappers below that limit           *)
(* (_classify_argv, classify_pipeline).                                    *)
WrappingHidesNothing ==
  IsReadAsMeant =>
    /\ Base[base].denied =>
         /\ ClassifyCommand(command).denied
         /\ ClassifyPipeline(<<Words(<<"git", "status">>), command>>).denied
    /\ ~Base[base].denied /\ wraps < MAX_UNWRAP_DEPTH => ~ClassifyCommand(command).denied

(* What is denied so is never allowed, although the rules allow every git  *)
(* command: the denylist comes first (evaluate).                           *)
DenylistComesFirst ==
  IsReadAsMeant /\ Base[base].denied =>
    \A head \in {"git", "pytest", "gitk"} :
      /\ ~Evaluate([kind |-> "command", action |-> "execute", resource |-> command, stages |-> <<>>])
      /\ ~Evaluate([kind |-> "command", action |-> "execute", resource |-> Words(<<head>>),
                    stages |-> <<Words(<<head>>), command>>])

(* No wrapper whose words the tables describe hides a denied command, and  *)
(* no rule is asked before the list of denied ones.                        *)
CommandsAreJudged ==
  /\ WrappingHidesNothing
  /\ DenylistComesFirst

(* Not so in the code: the tables are one for all wrappers, so sudo -n,    *)
(* time -p and setsid -c swallow the program as a value, timeout -k 5 30   *)
(* and stdbuf -o L end too early, bash -lc is no -c, env -S with the       *)
(* command in words of its own shows only the first, and sudo -S behind    *)
(* env is taken for env's.  A denied command behind them is not found.     *)
EveryWrapperIsSeenThrough ==
  Base[base].denied /\ (\A k \in 1..2 : Basename(Wrapper[pattern[k]].own[1]) \in EXEC_WRAPPERS \cup SHELL_INTERPRETERS)
    => ClassifyCommand(command).denied
=============================================================================

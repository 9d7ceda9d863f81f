----------------------------- MODULE HookRules -----------------------------
(***************************************************************************)
(* The rules of hooks-runtime about a shell command.  A command line is a  *)
(* sequence of parts, one per top-level && || ; | or line break; a part is *)
(* plain words, or a wrapper around another command line: ( ... ), sh -c,  *)
(* env -S, or words with a $( ... ) among them.  normalize_command makes   *)
(* segments of it, and the rules look at the words of each segment.        *)
(***************************************************************************)
EXTENDS Naturals, Sequences, SequencesExt

INTERPRETERS == {"sh", "bash", "zsh", "dash", "ksh", "python", "python3", "perl", "ruby", "node"}

(* has_pipe_to_interpreter looks at the raw text, whatever it is inside    *)
(* of: a part carries whether its text has such a pipe.                    *)
HasPipeToInterpreter(line) == \E n \in DOMAIN line : line[n].feeds

Part(form, ws, line) ==
  [form |-> form, words |-> ws, inner |-> line, feeds |-> HasPipeToInterpreter(line)]
Plain(ws) == Part("words", ws, <<>>)
Subshell(line) == Part("subshell", <<>>, line)
DashC(line) == Part("dash_c", <<"sh", "-c">>, line)
EnvS(line) == Part("env_s", <<"env", "A=1", "-S">>, line)
Substituting(ws, line) == Part("substitution", ws, line)
Garbled == Part("garbled", <<>>, <<>>)

(* A part whose input is the output of the one before it.                  *)
Piped(part) ==
  [part EXCEPT !.feeds = part.feeds \/ (part.words # <<>> /\ part.words[1] \in INTERPRETERS)]

UNPARSEABLE == <<"__UNPARSEABLE__">>
MAX_RECURSE_DEPTH == 3

GIT_OPTS_WITH_ARG == {"-C", "-c", "--git-dir", "--work-tree", "--namespace", "--super-prefix",
                      "--config-env", "--exec-path"}
GIT_OPTS_JOINED == {"--git-dir=d", "--work-tree=d"}
GIT_BARE_OPTS == {"--no-pager", "-p", "-P", "--paginate", "--bare", "--no-replace-objects"}

IsEnvWord(w) == w \in {"A=1", "B=2"}
Rest(ws, i) == SubSeq(ws, i, Len(ws))
RestFrom(ws, places) == IF places = {} THEN <<>> ELSE Rest(ws, Min(places))

StripLeadingEnvAssignments(ws) == RestFrom(ws, {i \in DOMAIN ws : ~IsEnvWord(ws[i])})

(* The places behind the first word that hold the value of an option.      *)
ValuesOf(ws, options) ==
  LET value[i \in DOMAIN ws] == i > 2 /\ ~value[i - 1] /\ ws[i - 1] \in options
  IN {i \in DOMAIN ws : value[i]}

(* The words behind env, its -i, its -u NAME and its assignments.          *)
UnwrapEnv(ws) ==
  IF ws # <<>> /\ ws[1] = "env"
  THEN RestFrom(ws, {i \in 2..Len(ws) \ ValuesOf(ws, {"-u"}) : ws[i] \notin {"-i", "-u"} /\ ~IsEnvWord(ws[i])})
  ELSE ws

(* git and the words behind its options; one with an argument that is not  *)
(* there is kept.                                                          *)
StripGitGlobalOpts(ws) ==
  IF ws # <<>> /\ ws[1] = "git"
  THEN <<"git">> \o RestFrom(ws, {i \in 2..Len(ws) \ ValuesOf(ws, GIT_OPTS_WITH_ARG) :
                                   /\ ws[i] \notin GIT_OPTS_JOINED \cup GIT_BARE_OPTS
                                   /\ ws[i] \in GIT_OPTS_WITH_ARG => i = Len(ws)})
  ELSE ws

(* _normalize_one_segment for plain words.                                 *)
NormalWords(ws) ==
  LET own == StripGitGlobalOpts(UnwrapEnv(StripLeadingEnvAssignments(ws))) IN
  IF own = <<>> THEN {} ELSE {own}

(* What a part of a line at some depth gives by itself; a wrapper at the   *)
(* limit is not looked into.                                               *)
WRAPPING == {"subshell", "dash_c", "env_s"}
NormalizeOneSegment(part, depth) ==
  (IF part.form \in {"words", "substitution"} THEN NormalWords(part.words) ELSE {})
  \cup (IF part.form = "garbled" \/ (part.form \in WRAPPING /\ depth >= MAX_RECURSE_DEPTH)
        THEN {UNPARSEABLE} ELSE {})

MaxNesting == 5    \* bound: how deep a line nests

(* A line inside of a command line: the depth of the text it belongs to,   *)
(* and the wrappers around it in that text.                                *)
Placed(line, text, wraps) == [line |-> line, text |-> text, wraps |-> wraps]

(* The lines inside of the parts of some lines.  _extract_dollar_paren     *)
(* takes each $( ... ) out of a whole text, wrappers or not, and it is a   *)
(* text of its own, one deeper; what is left is unwrapped part by part.    *)
Inner(places) ==
  UNION {{Placed(q.line[n].inner, q.text, q.wraps + 1) :
            n \in {k \in DOMAIN q.line : q.line[k].form \in WRAPPING}}
         \cup {Placed(q.line[n].inner, q.text + 1, 0) :
                 n \in {k \in DOMAIN q.line : q.line[k].form = "substitution"}} : q \in places}
Nested(line) ==
  LET at[n \in 0..MaxNesting] == IF n = 0 THEN {Placed(line, 0, 0)} ELSE Inner(at[n - 1])
  IN at

(* The segments of a line in its place; a text that is too deep is not     *)
(* looked at, nor is a line behind a wrapper at the limit.                 *)
SegmentsAt(q) ==
  IF q.text > MAX_RECURSE_DEPTH THEN {UNPARSEABLE}
  ELSE IF q.text + q.wraps > MAX_RECURSE_DEPTH THEN {}
  ELSE UNION {NormalizeOneSegment(q.line[n], q.text + q.wraps) : n \in DOMAIN q.line}

(* The rules ask whether there is a segment of some kind, so the segments  *)
(* are a set.                                                              *)
NormalizeCommand(line) ==
  UNION {UNION {SegmentsAt(q) : q \in Nested(line)[n]} : n \in 0..MaxNesting}

(* External: what the shell runs of a line, and whether it is nested       *)
(* deeper than normalize_command looks.                                    *)
CommandsOf(line) ==
  {line[n].words : n \in {k \in DOMAIN line : line[k].form \in {"words", "substitution"}}}
CommandsIn(line) ==
  UNION {UNION {CommandsOf(q.line) : q \in Nested(line)[n]} : n \in 0..MaxNesting}
TooDeep(line) == \E n \in MAX_RECURSE_DEPTH + 1..MaxNesting : Nested(line)[n] # {}
-----------------------------------------------------------------------------
WordAt(ws, n) == IF n <= Len(ws) THEN ws[n] ELSE ""
Has(ws, w) == w \in ToSet(ws)
HasOne(ws, S) == ToSet(ws) \cap S # {}
IsFlag(w) == w \in {"-r", "--requirement", "-v", "--version", "-U", "--save", "-X", "--request", "-o"}

DNS_MUTATING_VERBS == {"create", "delete", "update", "upsert", "change"}
CMS_BINARIES == {"wp", "contentful", "sanity", "strapi", "ghost", "netlify-cms", "directus"}

LooksLikeDnsOrRobotsMutation(ws) ==
  \/ ws[1] = "aws" /\ WordAt(ws, 2) = "route53" /\ Has(ws, "change-resource-record-sets")
  \/ /\ ws[1] = "gcloud" /\ Has(ws, "dns") /\ Has(ws, "record-sets")
     /\ (Has(ws, "transaction") /\ Has(ws, "execute")) \/ HasOne(ws, DNS_MUTATING_VERBS)
  \/ ws[1] = "az" /\ Has(ws, "dns") /\ HasOne(ws, DNS_MUTATING_VERBS)
  \/ /\ HasOne(ws, {"robots.txt", "s3://b/robots.txt"})
     /\ \/ ws[1] = "curl" /\ HasOne(ws, {"-X", "--request"}) /\ HasOne(ws, {"PUT", "POST", "DELETE"})
        \/ ws[1] \in {"aws", "gsutil", "s3cmd"} /\ HasOne(ws, {"cp", "sync", "put", "mv"})
LooksLikeCmsPublish(ws) ==
  \/ ws[1] \in CMS_BINARIES /\ Has(ws, "publish")
  \/ ws[1] = "wp" /\ Has(ws, "post") /\ Has(ws, "--post_status=publish")
  \/ ws[1] = "curl" /\ Has(ws, "h/wp-json/publish")

MatchesDeployPushCmsDns(ws) ==
  /\ ws # <<>>
  /\ \/ ws[1] = "git" /\ WordAt(ws, 2) = "push"
     \/ ws[1] = "kubectl" /\ WordAt(ws, 2) \in {"apply", "patch", "delete", "create", "edit"}
     \/ ws[1] = "helm" /\ WordAt(ws, 2) \in {"install", "upgrade", "rollback", "uninstall"}
     \/ ws[1] = "terraform" /\ WordAt(ws, 2) \in {"apply", "destroy"}
     \/ ws[1] = "gh" /\ WordAt(ws, 2) = "pr" /\ WordAt(ws, 3) = "merge"
     \/ LooksLikeDnsOrRobotsMutation(ws)
     \/ LooksLikeCmsPublish(ws)

(* A package is pinned: "==" or a VCS link with "@" for pip, "@" behind an *)
(* optional scope for npm; paths and URLs are not names.                   *)
HasPep440Pin(w) == w \in {"a==1", "git+u@c", "./a", "https://h/a"}
HasNpmPin(w) == w \in {"a@1", "@s/a@1"}
Packages(ws, i) == {w \in ToSet(Rest(ws, i)) : ~IsFlag(w)}
PipFamilyMatch(ws) ==
  LET Unpinned(i) == \E w \in Packages(ws, i) : ~HasPep440Pin(w)
      FromFile(i) == HasOne(Rest(ws, i), {"-r", "--requirement"})
  IN \/ ws[1] = "uv" /\ WordAt(ws, 2) = "add" /\ Unpinned(3)
     \/ ws[1] = "uv" /\ WordAt(ws, 2) = "pip" /\ WordAt(ws, 3) = "install" /\ ~FromFile(4) /\ Unpinned(4)
     \/ ws[1] \in {"pip", "pip3"} /\ WordAt(ws, 2) = "install" /\ ~FromFile(3) /\ Unpinned(3)
NpmFamilyMatch(ws) ==
  /\ <<ws[1], WordAt(ws, 2)>> \in {<<"npm", "install">>, <<"yarn", "add">>, <<"pnpm", "add">>}
  /\ \E w \in Packages(ws, 3) : ~HasNpmPin(w)
GemMatch(ws) ==
  /\ ws[1] = "gem" /\ WordAt(ws, 2) = "install"
  /\ Packages(ws, 3) # {} /\ ~HasOne(ws, {"-v", "--version"})
GoMatch(ws) ==
  /\ ws[1] = "go" /\ WordAt(ws, 2) = "install"
  /\ \E w \in Packages(ws, 3) : w \notin {"a@1", "@s/a@1"}
MatchesUnpinnedInstall(ws) ==
  ws # <<>> /\ (PipFamilyMatch(ws) \/ NpmFamilyMatch(ws) \/ GemMatch(ws) \/ GoMatch(ws))

(* The host of a network command: of a URL, behind user@, else the first   *)
(* word that is no flag.                                                   *)
HostOf(w) == CASE w \in {"https://good/x", "u@good:p", "u@good", "good"} -> "good"
               [] w \in {"http://127.0.0.1/", "localhost"} -> "localhost"
               [] OTHER -> w
ExtractHost(ws) ==
  LET args == Tail(ws)
      named == SelectSeq(args, LAMBDA w : w \in {"https://good/x", "https://bad/x", "http://127.0.0.1/",
                                                 "u@good:p", "u@good"})
      bare == SelectSeq(args, LAMBDA w : ~IsFlag(w))
  IN IF named # <<>> THEN HostOf(named[1]) ELSE IF bare # <<>> THEN HostOf(bare[1]) ELSE ""
MatchesUnapprovedEgress(ws, approved) ==
  /\ ws # <<>>
  /\ ws[1] \in {"curl", "wget", "nc", "ncat", "ssh", "scp", "rsync", "ftp", "http", "https"}
  /\ ExtractHost(ws) \notin {"localhost"} \cup approved

(* Files behind > and >>, and the operands of tee and dd of=.              *)
REDIRECT_TOKENS == {">", ">>"}
GLUED_TOKENS == {">x", ">>y"}
RedirectTarget(w) ==
  CASE w \in {">x", "of=x"} -> "x" [] w = ">>y" -> "y" [] w \in {"a>z", "2>z", "&>z"} -> "z" [] OTHER -> w
OperandTargets(ws) ==
  (IF ws # <<>> /\ ws[1] = "tee" THEN {w \in ToSet(Tail(ws)) : ~IsFlag(w)} ELSE {})
  \cup (IF ws # <<>> /\ ws[1] = "dd" THEN {RedirectTarget(w) : w \in ToSet(Tail(ws)) \cap {"of=x"}} ELSE {})
ExtractWriteTargets(ws) ==
  {ws[n + 1] : n \in {m \in 1..Len(ws) - 1 : ws[m] \in REDIRECT_TOKENS}}
  \cup {RedirectTarget(w) : w \in ToSet(ws) \cap GLUED_TOKENS}
  \cup OperandTargets(ws)

(* External: the files that a command names to write to.  The shell takes  *)
(* a redirection in more spellings, and wherever it stands.                *)
OTHER_REDIRECT_TOKENS == {"2>", "&>"}
OTHER_GLUED_TOKENS == {"a>z", "2>z", "&>z"}
WritesOf(ws) ==
  {ws[n + 1] : n \in {m \in 1..Len(ws) - 1 : ws[m] \in REDIRECT_TOKENS \cup OTHER_REDIRECT_TOKENS}}
  \cup {RedirectTarget(w) : w \in ToSet(ws) \cap (GLUED_TOKENS \cup OTHER_GLUED_TOKENS)}
  \cup UNION {OperandTargets(own) : own \in NormalWords(ws)}

(* Its redirections are spelled as extract_write_targets reads them, and   *)
(* none stands where an option of env or git is taken to have its value.   *)
IsSpelledAsRead(ws) ==
  \A i \in DOMAIN ws :
    /\ ws[i] \notin OTHER_REDIRECT_TOKENS \cup OTHER_GLUED_TOKENS
    /\ ws[i] \in REDIRECT_TOKENS \cup GLUED_TOKENS /\ i > 1 =>
         ws[i - 1] \notin GIT_OPTS_WITH_ARG \cup {"-u"}

(* Paths: percent-decoding, backslashes, "//", "./" and ".." are undone.   *)
NormalizePath(p) ==
  CASE p \in {"x", "./x", "src/../x", "/x", "%78"} -> "x"
    [] p \in {"y", ".//y"} -> "y"
    [] p \in {".", "/", ""} -> ""
    [] OTHER -> p
PathInScope(p, scope) == NormalizePath(p) # "" /\ NormalizePath(p) \in scope
=============================================================================

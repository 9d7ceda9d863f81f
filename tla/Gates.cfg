CONSTANTS
  Bases = {"push", "delete", "status", "get"}
  Base <- MCBase
  Wrappers = {"sudo", "env", "timeout", "nice", "xargs", "stdbuf", "chroot", "nohup", "assign", "shell", "su", "env_split", "env_joined", "sudo_n", "time_p", "setsid_c", "timeout_k", "stdbuf_o", "bash_lc", "env_words", "sudo_stdin"}
  Wrapper <- MCWrapper
  MaxWraps = 13
  Authorizes <- Evaluate
  GateRequests = {"sound", "same", "too_wide", "too_long", "escaping", "partial", "malformed", "foreign", "status", "push"}
  GateRequest <- MCGateRequest
  GateCallers = {"c1", "c2"}
  ServedTenant = "acme"
  MaxAsks = 2
  CleanPatches <- MCCleanPatches
  Defects = {"base", "build", "unit_fails", "unit_skipped", "integration_fails", "lint", "types", "contracts", "leak", "injection", "anomaly", "outside", "coverage", "protected", "secret", "drift", "link", "redirect", "blocked", "rendering", "syntax", "fabricated", "parity", "claim", "a11y", "slow", "stray_hunk", "no_unit"}
  MaxDefects = 2
  ToolCalls = {"edit_x", "edit_z", "through_link", "redirect_y", "redirect_z", "glued_z", "errors_y", "behind_option", "nested_y", "deep_z", "generate", "dd_x", "tee_z", "push", "apply", "dns", "publish", "pip", "npm", "gem", "go", "pinned", "fetch", "fetch_good", "pipe", "garbled", "read"}
  ToolCall <- MCToolCall
  Contracts = {"good", "narrow", "forged", "other_engine", "none"}
  Contract <- MCContract
  Starts = {"clean", "dirty", "unsigned", "no_pin", "secret"}
  Start <- MCStart
  Handoffs = {"earned", "slow", "no_tests", "own_critic", "rejected", "no_way_back", "deploys", "substitutes", "deploys_deep"}
  Handoff <- MCHandoff
  MaxCalls = 2
SPECIFICATION MCSpec
CHECK_DEADLOCK FALSE
INVARIANTS
  CommandsAreJudged
  QualityIsEarned
PROPERTIES
  GateIsOnRecord
  HooksHold

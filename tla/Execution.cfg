CONSTANTS
  Actors <- MCActors
  Signals = {"a_alone", "a_and_b", "a_rejects", "own", "padded", "forged", "other"}
  Signal <- MCSignal
  MaxDeliveries = 4
  MaxAttempts = 2
  Jobs = {"fine", "nothing", "other_contract", "other_run", "not_approved", "no_pin", "no_source", "swapped", "half", "unlisted", "too_long", "protected", "outside", "listed", "commands", "misplaced"}
  Job <- MCJob
  Path <- MCPath
  Command <- MCCommand
  Unit <- MCUnit
  MaxFiles = 2
  MaxLines = 3
  Deadline = 1
  MaxClock = 2
SPECIFICATION MCSpec
CHECK_DEADLOCK FALSE
INVARIANTS
  StartIsEarned
  RunnerKeepsApproval
  RunnerReportsTruth
PROPERTIES
  WorkIsFinished

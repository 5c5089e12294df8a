\* The live execution, one run at a time, and one attempt.
CONSTANTS
  Runs = {r1, r2}
  MaxAttempts = 1
  None = None
  Checked = {TRUE}
  OneAtATime = TRUE
SPECIFICATION Spec
INVARIANTS CrashLeavesReadable
CHECK_DEADLOCK FALSE

\* Two runs, one after the other; the second may record again the result of the first.
CONSTANTS
  Runs = {r1, r2}
  MaxAttempts = 1
  None = None
  Checked = {FALSE}
  OneAtATime = TRUE
SPECIFICATION Spec
INVARIANTS ReplayIsIdempotent
CHECK_DEADLOCK FALSE

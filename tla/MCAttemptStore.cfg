\* Two runs that interleave or come one after the other, and may die at any step: each looks at the
\* request's state first or does not, and records its own result or replays the other's, of one
\* or two attempts, with or without a response.
CONSTANTS
  Runs = {r1, r2}
  MaxAttempts = 2
  None = None
  Checked = {FALSE, TRUE}
  OneAtATime = FALSE
SYMMETRY SymmetricRuns
SPECIFICATION Spec
INVARIANTS LedgerReconciles CountedOnce OneResult OneProviderCall
PROPERTIES ImplementsLedger
CHECK_DEADLOCK FALSE

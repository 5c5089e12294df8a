\* Runs of two processes that are interrupted, die and start again, two attempts per request, and
\* a provider that may report more than the reservation.
CONSTANTS
  Procs = {p1, p2}
  Turns <- MCTurns
  MaxAttempts = 2
  Reservation <- MCReservation
  Ceiling = 5
  Overrun = 1
  None = None
SPECIFICATION FairSpec
INVARIANTS TypeOK NeverReplayed PaidWithinCeiling TerminalsFollowTurns ReceiptIsWhole
INVARIANTS ReceiptCoversCost ResumeNeverConflicts
PROPERTIES RunsEnd

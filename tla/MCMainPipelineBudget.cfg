\* One process, and the same provider.
CONSTANTS
  Procs = {p1}
  Turns <- MCTurns
  MaxAttempts = 1
  Reservation <- MCReservation
  Ceiling = 5
  Overrun = 1
  None = None
SPECIFICATION Spec
INVARIANTS ExhaustionStopsPublication

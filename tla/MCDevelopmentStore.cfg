\* Two processes that execute one plan, on either platform, and two power losses.
SPECIFICATION FairSpec
CONSTANTS
  Procs = {p1, p2}
  Plans = {r1}
  MaxDelays = 2
  MaxBoots = 3
  None = None
INVARIANTS RunsAreWhole RepeatsResolve
PROPERTIES RunsStay ExecutionsEnd

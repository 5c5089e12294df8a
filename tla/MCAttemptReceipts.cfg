\* Two requests, four submissions; receipts expire when one more request is drained.  Every
\* behaviour ends with both requests drained, or with the submissions used up.
CONSTANTS
  r1 = r1
  r2 = r2
  a = a
  b = b
  root = root
  retry = retry
  None = None
  Requests = {r1, r2}
  Digests = {a, b}
  Tokens = {root, retry, a, b, r1}
  Contracts <- MCContracts
  Records <- MCRecords
  Services <- MCServices
  Deliveries <- MCDeliveries
  Horizon = 1
  MaxRequests = 2
  MaxAttempts = 3
  MaxCaptures = 4
  MaxPending = 1
  MaxFailures = 1
SPECIFICATION Spec
CHECK_DEADLOCK FALSE
INVARIANTS SelectionKeepsDecisions SAgreesWithT RetirementIsExact
PROPERTIES DecisionsStand AuditsRepeat

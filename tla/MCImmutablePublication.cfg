\* Three concurrent calls and two payloads, one transient denial per call, one power loss.
CONSTANTS
  c1 = c1
  c2 = c2
  c3 = c3
  p1 = p1
  p2 = p2
  Calls = {c1, c2, c3}
  Payloads = {p1, p2}
  Requests <- MCRequests
  NoFile = NoFile
  Torn = Torn
  MaxDelays = 1
  MaxBoots = 2
SPECIFICATION FairSpec
INVARIANTS NoTornBytes SingleCreator AnswersStayTrue
PROPERTIES ImplementsWriteOnce CallsEnd
CHECK_DEADLOCK FALSE

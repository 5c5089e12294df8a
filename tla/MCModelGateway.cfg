\* Three attempts: two abandoned calls can run beside the third.
CONSTANTS
  MaxAttempts = 3
  None = None
SPECIFICATION FairSpec
INVARIANTS ResultIsConsistent ResponseIsOwn CallsAreRecorded CancelStopsCalls
PROPERTIES Returns
CHECK_DEADLOCK FALSE

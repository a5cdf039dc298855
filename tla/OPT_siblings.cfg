\* x is incremented in two blocks of which none dominates the other.
SPECIFICATION Spec
CONSTANTS
  PureFuns = {"pure"}
  Fuel = 40
  Jobs <- SiblingJobs
  MaxIter = 3
  MaxIter2 = 3
INVARIANT Verified
CHECK_DEADLOCK FALSE

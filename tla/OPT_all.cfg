SPECIFICATION Spec
CONSTANTS
  PureFuns = {"pure"}
  Fuel = 60
  Jobs <- UnitJobs
  MaxIter = 3
  MaxIter2 = 3
INVARIANT TypeOK
INVARIANT ArcsAgree
INVARIANT SSAForm
INVARIANT NothingFails
INVARIANT SameBehaviour
INVARIANT Converges
CHECK_DEADLOCK FALSE

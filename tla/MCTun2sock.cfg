SPECIFICATION FairSpec
CONSTANTS
  Flows = {f1, f2}
  None = None
INVARIANT AckedMeansProtected
PROPERTIES DialsEnd FlowsEnd
CHECK_DEADLOCK FALSE

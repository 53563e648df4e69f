SPECIFICATION Spec
CONSTANTS
  o1 = o1
  o2 = o2
  o3 = o3
  alice = alice
  blankKey = blankKey
  nobody = nobody
  Operations <- ThreeOperations
  Names <- OneName
  Blank <- blankKey
  Nobody <- nobody
  MaxFaults = 2
SYMMETRY OperationSymmetry
INVARIANTS
  NoOrphanTransaction
  SuccessIsStored
  FailureLeavesNothing
  TokenIsAccepted
CHECK_DEADLOCK FALSE

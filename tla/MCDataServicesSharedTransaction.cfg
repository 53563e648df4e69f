SPECIFICATION Spec
CONSTANTS
  o1 = o1
  o2 = o2
  o3 = o3
  alice = alice
  blankKey = blankKey
  nobody = nobody
  Operations <- TwoOperations
  Names <- OneName
  Blank <- blankKey
  Nobody <- nobody
  MaxFaults = 1
INVARIANTS
  LoginIsOneTransaction
CHECK_DEADLOCK FALSE

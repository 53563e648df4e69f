SPECIFICATION Spec
CONSTANTS
  Base = 100
  MaxBody = 32
  MaxData = 4
  Plans <- MCPlans
  Results <- MCResults
INVARIANTS
  ServiceSeesRequest
  AnswerMatchesRequest
  PacketsInOrder
CHECK_DEADLOCK FALSE

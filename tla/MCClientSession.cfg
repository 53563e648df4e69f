SPECIFICATION FairSpec
CONSTANTS
  AutoReconnect = TRUE
  MaxAttempts <- Unlimited
  MaxRequests = 4
  MaxUpsets = 2
  NoRequest = NoRequest
INVARIANTS
  AnsweredOnce
  LoginEndsWithConnection
  LatestPtzWins
PROPERTIES
  RequestsSettle
CHECK_DEADLOCK FALSE

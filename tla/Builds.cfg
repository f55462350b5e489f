SPECIFICATION BuildsSpec
CONSTANTS
  NumHops = 2
  build_timeout = 1
  default_lifetime = 3
  SendFailures = {"FAIL_TIMEOUT", "FAIL_CONGESTION"}
  R = R
  Routers = {R}
  Requests = {q1, q2}
  IsMasterNode = TRUE
  maxConnectedRouters = 1
  MaxLookups = 2
  MaxJobs = 2
INVARIANTS VerdictIsCreators HopsOutlivePath EstablishedHasHops RequestsTracked
PROPERTIES HopsGoAway PendingResolved

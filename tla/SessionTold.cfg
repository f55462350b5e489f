SPECIFICATION BuildsSpec
CONSTANTS
  NumHops = 1
  build_timeout = 1
  default_lifetime = 3
  SendFailures = {"FAIL_TIMEOUT"}
  R = R
  Routers = {R}
  Requests = {q1, q2}
  IsMasterNode = TRUE
  maxConnectedRouters = 1
  MaxLookups = 1
  MaxJobs = 1
PROPERTY EveryRequestTold

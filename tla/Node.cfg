CONSTANTS
  A = A
  B = B
  a1 = a1
  a2 = a2
  b1 = b1
  dht = dht
  R = R
  zero = zero
  Msgs = {a1, a2, b1, dht}
  Routers = {R}
  PathIds = {A, B, zero}
  zeroID = zero
  RouterOf <- MCRouterOf
  PathOf <- MCPathOf
  Priority <- MCPriority
  MaxQueueSize = 2
  MAX_PATH_QUEUE_SIZE = 1
  RemovedInterval = 1
  k1 = k1
  k2 = k2
  k3 = k3
  k4 = k4
  us = us
  p1 = p1
  p2 = p2
  p3 = p3
  g1 = g1
  g2 = g2
  none = none
  s1 = s1
  s2 = s2
  q1 = q1
  q2 = q2
  q3 = q3
SPECIFICATION NodeSpec
INVARIANTS TurnPerLiveQueue AccountedFor  RoutersFollowed  WaitersServed
 

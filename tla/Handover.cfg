SPECIFICATION HandoverSpec
CONSTANTS
  a = a
  b = b
  d = d
  e = e
  x = x
  y = y
  Calls = {a, b, d, e, x, y}
  Workers = {w1, w2}
  WorkerCalls = {a, b, d}
  EventCalls = {e}
  Delayed = {d}
  Spawn <- SpawnSome
  QueueSize = 2
  Pushers = {p, q}
  Poppers = {r}
  PushOps = {"pushBack"}
  PopOps = {"tryPopFront"}
  Capacity = 1
  NumGenerations = 4
  MaxPushes = 1
  MaxDisables = 1
INVARIANTS WakeupPending
PROPERTIES CalledUnlessBlocked NobodyStuck
CHECK_DEADLOCK FALSE

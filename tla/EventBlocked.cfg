SPECIFICATION HandoverSpec
CONSTANTS
  a = a
  b = b
  d = d
  e = e
  x = x
  y = y
  Calls = {a, b, d, e, x, y}
  Workers = {w1}
  WorkerCalls = {a, b, d}
  EventCalls = {e}
  Delayed = {}
  Spawn <- SpawnSome
  QueueSize = 1
  Pushers = {p}
  Poppers = {r}
  PushOps = {"pushBack"}
  PopOps = {"tryPopFront"}
  Capacity = 1
  NumGenerations = 4
  MaxPushes = 1
  MaxDisables = 0
PROPERTIES
  EventuallyCalled
CHECK_DEADLOCK FALSE

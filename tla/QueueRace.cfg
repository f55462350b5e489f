SPECIFICATION QueueSpec
CONSTANTS
  Pushers = {a, b}
  Poppers = {c, d}
  PushOps = {"pushBack", "tryPushBack"}
  PopOps = {"popFrontWithTimeout"}
  Capacity = 1
  NumGenerations = 4
  Start = 3
  MaxPushes = 1
  MaxDisables = 1
SYMMETRY ThreadSymmetry
INVARIANTS
  CellsAgree
  

  
CHECK_DEADLOCK FALSE

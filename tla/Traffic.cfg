SPECIFICATION TrafficSpec
CONSTANTS
  Packets = {p1, p2, p3, p4}
  BadPackets = {p4}
  Threads = {t1, t2}
  PlaintextQueueSize = 1
  pathEnd = pathEnd
  otherEnd = otherEnd
  middle = middle
  ours = ours
  ask = ask
  move = move
  up1 = up1
  up2 = up2
  down1 = down1
  down2 = down2
  reply = reply
  NoAnswer = NoAnswer
  transit_hop_queue_size = 1
  MaxArrived = 2
  MaxHeld = 3
  BDecode <- Decode
  Sample <- Object
INVARIANTS
  RelayedOnce
  
PROPERTIES
  PlaintextHandled
  RelayedOn
CHECK_DEADLOCK FALSE

SPECIFICATION Spec
CONSTANTS
  pongWait = 10
  writeWait = 2
  sendBuffer = 1
  MaxUnread = 1
  Request = {r1}
  grace = 1
INVARIANTS
  TypeOK
  OnlyTheLateDropped
  RequestsBeforeClose
PROPERTIES
  VanishedFreed
  StopsForSure
\* the process ends
CHECK_DEADLOCK FALSE

SPECIFICATION FairSpec
CONSTANTS
  alice = alice
  bob = bob
  Player <- MCPlayer
  Client <- MCClient
  MatchId = {m1}
  Socket = {c1, c2}
  Request = {r1}
  NoOwner = NoOwner
  SendBuffer = 1
INVARIANTS
  TypeOK
  HubFindsTheLive
  HubHoldsNoGhost
  MissedMeansClosed
  QuitLeavesNothing
PROPERTIES
  OrphansEnd

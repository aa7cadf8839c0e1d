SPECIFICATION Spec
CONSTANTS
  alice = alice
  bob = bob
  Player <- MCPlayer
  Client <- MCClient
  MatchId = {m1}
  Socket = {c1, c2}
  Request = {r1}
  NoOwner = NoOwner
  SendBuffer = 1
PROPERTIES
  OpponentLeftHasGone

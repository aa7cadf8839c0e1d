SPECIFICATION FairSpec
CONSTANTS
  Player = {alice, bob}
  MatchId = {m1}
  Thread = {t1, t2, t3}
  NoThread = NoThread
  MinWin = 2
  MaxMoves = 3
PROPERTIES
  LockReleased
  EveryMoveAnnounced

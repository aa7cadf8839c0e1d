SPECIFICATION Spec
CONSTANTS
  Player = {alice, bob}
  MatchId = {m1}
  Thread = {t1, t2}
  NoThread = NoThread
  MinWin = 1
  MaxMoves = 2
PROPERTIES
  StoredHistoryGrows

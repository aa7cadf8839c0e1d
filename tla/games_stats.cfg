SPECIFICATION Spec
CONSTANTS
  Player = {alice, bob}
  MatchId = {m1, m2}
  Thread = {t1, t2}
  NoThread = NoThread
  MinWin = 1
  MaxMoves = 2
INVARIANTS
  EveryResultCounted
SYMMETRY Symmetry

SPECIFICATION Spec
CONSTANTS
  Player = {alice, bob, carol}
  MatchId = {m1, m2}
  Request = {r1, r2}
INVARIANTS
  BusyMeansPlaying
SYMMETRY Symmetry

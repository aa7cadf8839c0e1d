SPECIFICATION Spec
CONSTANTS
  Player = {alice, bob, carol}
  MatchId = {m1, m2, m3}
  Request = {r1, r2, r3}
INVARIANTS
  TypeOK
  LoneWaiter
  WaiterTakesX
  OnePlaceEach
SYMMETRY Symmetry

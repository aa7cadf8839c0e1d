SPECIFICATION Spec
CONSTANTS
  Player = {alice, bob, carol}
  MatchId = {m1, m2}
  Thread = {t1, t2}
  NoThread = NoThread
  MinWin = 1
  MaxMoves = 2
INVARIANTS
  TypeOK
  RegistryConsistent
  StartedFirst
  EndedOnce
  StoredRecordsTrue
  NeverOverCounted
  CreditsAddUp
PROPERTIES
  OpeningSavedFirst
  ImplementsTables
SYMMETRY Symmetry

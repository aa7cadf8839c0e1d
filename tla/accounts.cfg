SPECIFICATION Spec
CONSTANTS
  PlayerId = {i1, i2, i3}
  Name <- MCName
  nameKey <- MCnameKey
  bytes <- MCbytes
  Raw <- MCRaw
  trim <- MCtrim
  Password <- MCPassword
  length <- MClength
  MaxNameLength = 32
  MinPasswordLength = 8
  MaxPasswordLength = 72
  DefaultLimit = 1
  MaxLimit = 2
  Limit <- MCLimit
  Request = {r1, r2}
  NotFound = NotFound
  MaxPlayed = 1
INVARIANTS
  TypeOK
  StoresAnswerAlike
  LeaderboardExact
  TokenOpensOwnAccount
PROPERTIES
  SQLiteKeepsContract
  MemoryKeepsContract
  RefusalsTrue
SYMMETRY Symmetry

SPECIFICATION Spec
CONSTANTS
  alice = alice
  bob = bob
  carol = carol
  Person <- MCPerson
  XPlayer = alice
  OPlayer = bob
  WireCells <- MCWireCells
  Unreadable = Unreadable
  TamperDepth = 5
  DamageDepth = 3
INVARIANTS
  TypeOK
  StoredMatchReplays
  RestoreAcceptsLegalGamesOnly
  AcceptedTextSpellsItsGame
  OutcomesFollowTheBoard
PROPERTIES
  ImplementsRules
  ImplementsProgress
\* a match that is over accepts nothing
CHECK_DEADLOCK FALSE

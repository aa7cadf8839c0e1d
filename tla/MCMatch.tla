------------------------------ MODULE MCMatch ------------------------------
(***************************************************************************)
(* Every game two players can play on the real board, with a third caller  *)
(* who is in no match and cells just off the board on either side.  Five   *)
(* moves are enough to finish a match that is then tampered with.          *)
(***************************************************************************)
EXTENDS StoredMatch

CONSTANTS alice, bob, carol

MCPerson == {alice, bob, carol}
MCWireCells == -1 .. BoardSize
=============================================================================

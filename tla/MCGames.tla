------------------------------ MODULE MCGames ------------------------------
(***************************************************************************)
(* Small instances of Games.  Two threads are two requests in flight; two  *)
(* matches are a match and a rematch, or two matches that share a player;  *)
(* a match of at most two moves has every kind of move and of verdict.     *)
(***************************************************************************)
EXTENDS Games, TLC

Symmetry ==
  Permutations(Player) \cup Permutations(Thread) \cup Permutations(MatchId)
=============================================================================

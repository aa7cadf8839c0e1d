--------------------------- MODULE MCMatchmaking ---------------------------
(***************************************************************************)
(* Small instances of Matchmaking: three players are a pair and a third    *)
(* who meets what the pair left behind; three requests let one player ask  *)
(* twice while another's Join is between the queue and Start.              *)
(***************************************************************************)
EXTENDS Matchmaking, TLC

Symmetry ==
  Permutations(Player) \cup Permutations(Request) \cup Permutations(MatchId)
=============================================================================

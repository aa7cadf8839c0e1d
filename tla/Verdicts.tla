------------------------------ MODULE Verdicts ------------------------------
(***************************************************************************)
(* What the services above the domain can tell of a match: how many moves  *)
(* it has and its status.  MinWin is the fewest moves that can complete a  *)
(* line (5 on the real board) and MaxMoves the size of the board (9); the  *)
(* runs about concurrency give them smaller values, because a longer match *)
(* only repeats the same handler.                                          *)
(***************************************************************************)
EXTENDS Integers

CONSTANTS MinWin, MaxMoves

ASSUME VerdictBounds ==
  /\ MinWin \in Nat \ {0}
  /\ MaxMoves \in Nat \ {0}
  /\ MinWin <= MaxMoves

Statuses == {"in_progress", "x_won", "o_won", "draw"}

(* The mark that plays move n, counting from one: X moves first.           *)
MarkOfMove(n) == IF n % 2 = 1 THEN "X" ELSE "O"

(* The statuses a match may have right after its n-th move.                *)
StatusAfter(n) ==
  {s \in Statuses :
     \/ s = "in_progress" /\ n < MaxMoves
     \/ s = "draw" /\ n = MaxMoves
     \/ s = "x_won" /\ n >= MinWin /\ MarkOfMove(n) = "X"
     \/ s = "o_won" /\ n >= MinWin /\ MarkOfMove(n) = "O"}
=============================================================================

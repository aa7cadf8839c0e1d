----------------------------- MODULE TicTacToe -----------------------------
(***************************************************************************)
(* The rules of the game, stated without the board code: who owns which    *)
(* cell, whose turn it is, and how the game stands.  The lines are the     *)
(* hand-written table of internal/domain/board_test.go, an independent     *)
(* statement of what winning means.  Match implements this module.         *)
(***************************************************************************)
EXTENDS Integers

VARIABLES owned, next, result

Squares == 0 .. 8

Lines == { {0, 1, 2}, {3, 4, 5}, {6, 7, 8},
           {0, 3, 6}, {1, 4, 7}, {2, 5, 8},
           {0, 4, 8}, {2, 4, 6} }

Other(s) == IF s = "X" THEN "O" ELSE "X"

HasLine(cells) == \E l \in Lines : l \subseteq cells

Init ==
  /\ owned = [s \in {"X", "O"} |-> {}]
  /\ next = "X"
  /\ result = "undecided"

(* The side to move takes a free square.  Its line wins; otherwise nine    *)
(* taken squares are a draw; otherwise the turn passes.                    *)
Take(s, c) ==
  LET mine == owned[s] \cup {c} IN
  /\ result = "undecided"
  /\ next = s
  /\ c \notin owned["X"] \cup owned["O"]
  /\ owned' = [owned EXCEPT ![s] = mine]
  /\ \/ /\ HasLine(mine)
        /\ result' = s
        /\ next' = next
     \/ /\ ~HasLine(mine)
        /\ mine \cup owned[Other(s)] = Squares
        /\ result' = "draw"
        /\ next' = next
     \/ /\ ~HasLine(mine)
        /\ mine \cup owned[Other(s)] # Squares
        /\ result' = "undecided"
        /\ next' = Other(s)

Next == \E s \in {"X", "O"}, c \in Squares : Take(s, c)

Spec == Init /\ [][Next]_<<owned, next, result>>
=============================================================================

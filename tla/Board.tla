------------------------------- MODULE Board -------------------------------
(***************************************************************************)
(* The board of internal/domain: nine cells, each empty or holding a mark, *)
(* and the detectors the match asks after every move.  A board is a        *)
(* function from Cells to Marks; the Go array copies on assignment, as a   *)
(* TLA+ value does.                                                        *)
(***************************************************************************)
EXTENDS Integers

Empty == "-"
X == "X"
O == "O"
Players == {X, O}
Marks == {Empty, X, O}

Side == 3
BoardSize == Side * Side
Cells == 0 .. BoardSize - 1
Boards == [Cells -> Marks]

\* Mark.Opponent is total: the opponent of Empty is Empty.
Opponent(m) == CASE m = X -> O [] m = O -> X [] OTHER -> Empty

----------------------------------------------------------------------------
(* Cells i, j and k hold the same mark, and one at all.                    *)
SameMark(b, i, j, k) == b[i] # Empty /\ b[i] = b[j] /\ b[i] = b[k]

(* A scan returns the mark of the first hit in ascending order.            *)
FirstOf(b, hits) ==
  IF hits = {} THEN Empty ELSE b[CHOOSE i \in hits : \A j \in hits : i <= j]

winnerInColumns(b) ==
  FirstOf(b, {i \in 0 .. Side - 1 : SameMark(b, i, i + Side, Side * 2 + i)})

winnerInRows(b) ==
  FirstOf(b, {i \in {0, Side, Side * 2} : SameMark(b, i, i + 1, i + 2)})

winnerInDiagonals(b) ==
  IF SameMark(b, 0, Side + 1, Side * 2 + 2) THEN b[0]
  ELSE IF SameMark(b, Side - 1, Side + 1, Side * 2) THEN b[Side - 1]
  ELSE Empty

(* Mutant of Winner: the anti-diagonal is forgotten.                       *)
WinnerNoAntiDiagonal(b) ==
  IF winnerInColumns(b) # Empty THEN winnerInColumns(b)
  ELSE IF winnerInRows(b) # Empty THEN winnerInRows(b)
  ELSE IF SameMark(b, 0, Side + 1, Side * 2 + 2) THEN b[0] ELSE Empty

Winner(b) ==
  IF winnerInColumns(b) # Empty THEN winnerInColumns(b)
  ELSE IF winnerInRows(b) # Empty THEN winnerInRows(b)
  ELSE winnerInDiagonals(b)

IsFull(b) == \A c \in Cells : b[c] # Empty

----------------------------------------------------------------------------
(* Set refuses a cell off the board before it looks at the board.          *)
SetError(b, cell) ==
  CASE cell \notin Cells -> "CELL_OUT_OF_BOUNDS"
    [] cell \in Cells /\ b[cell] # Empty -> "CELL_OCCUPIED"
    [] OTHER -> "none"

Set(b, cell, m) == [b EXCEPT ![cell] = m]
=============================================================================

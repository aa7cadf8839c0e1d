------------------------------- MODULE Match -------------------------------
(***************************************************************************)
(* domain.Match: one match between two distinct players, changed only by   *)
(* ApplyMove and rebuilt from its history by RestoreMatch.  The caller is  *)
(* any player at all and the cell any integer the wire may carry; the      *)
(* entity takes no lock, so one call is one step (Games serialises them).  *)
(***************************************************************************)
EXTENDS Board, Sequences, SequencesExt

CONSTANTS
  Person,   \* everybody who can call ApplyMove
  XPlayer,  \* who was seated as X by NewMatch
  OPlayer,  \* who was seated as O
  WireCells \* the cells callers ask for, legal or not

(* NewMatch answers ErrSamePlayer otherwise.                               *)
ASSUME DistinctPlayers ==
  /\ XPlayer \in Person
  /\ OPlayer \in Person
  /\ XPlayer # OPlayer
ASSUME WireCellsAreIntegers == WireCells \subseteq Int

VARIABLE match

vars == <<match>>

Status == {"in_progress", "x_won", "o_won", "draw"}
Move == [mark : Marks, cell : Int]

NewMatch ==
  [board |-> [c \in Cells |-> Empty], turn |-> X,
   status |-> "in_progress", moves |-> <<>>]

IsFinished(s) == s # "in_progress"

MarkOf(p) == CASE p = XPlayer -> X [] p = OPlayer -> O [] OTHER -> Empty

PlayerOf(m) == IF m = X THEN XPlayer ELSE OPlayer

----------------------------------------------------------------------------
(* Mutant of MoveError: the turn is not looked at.                         *)
MoveErrorAnyTurn(m, p, cell) ==
  IF IsFinished(m.status) THEN "MATCH_FINISHED"
  ELSE IF MarkOf(p) = Empty THEN "NOT_A_PARTICIPANT"
  ELSE SetError(m.board, cell)

(* Mutant of MoveError: the end of the match is not looked at.             *)
MoveErrorNeverOver(m, p, cell) ==
  IF MarkOf(p) = Empty THEN "NOT_A_PARTICIPANT"
  ELSE IF MarkOf(p) # m.turn THEN "NOT_YOUR_TURN"
  ELSE SetError(m.board, cell)

(* The early returns of ApplyMove, most general first.                     *)
MoveError(m, p, cell) ==
  IF IsFinished(m.status) THEN "MATCH_FINISHED"
  ELSE IF MarkOf(p) = Empty THEN "NOT_A_PARTICIPANT"
  ELSE IF MarkOf(p) # m.turn THEN "NOT_YOUR_TURN"
  ELSE SetError(m.board, cell)

(* Mutant of StatusOf: a full board is a draw before a line is looked for. *)
StatusOfFullFirst(b) ==
  IF IsFull(b) THEN "draw"
  ELSE CASE Winner(b) = X -> "x_won"
         [] Winner(b) = O -> "o_won"
         [] OTHER -> "in_progress"

(* Mutant of StatusOf: the winner's mark is taken for the status.          *)
StatusOfMark(b) == IF IsFull(b) THEN "draw" ELSE IF Winner(b) # Empty THEN Winner(b) ELSE "in_progress"

(* What settle makes of the board.                                         *)
StatusOf(b) ==
  CASE Winner(b) = X -> "x_won"
    [] Winner(b) = O -> "o_won"
    [] OTHER -> IF IsFull(b) THEN "draw" ELSE "in_progress"

(* The match after p's mark is placed on cell, recorded and settled.       *)
Played(m, p, cell) ==
  LET mark == MarkOf(p)
      b == Set(m.board, cell, mark)
  IN [board |-> b,
      turn |-> IF IsFinished(StatusOf(b)) THEN m.turn ELSE Opponent(mark),
      status |-> StatusOf(b),
      moves |-> Append(m.moves, [mark |-> mark, cell |-> cell])]

Init == match = NewMatch

ApplyMove(p, cell) ==
  /\ MoveError(match, p, cell) = "none"
  /\ match' = Played(match, p, cell)

Next == \E p \in Person, cell \in WireCells : ApplyMove(p, cell)

Spec == Init /\ [][Next]_vars

----------------------------------------------------------------------------
(* RestoreMatch replays a stored history through ApplyMove; the first      *)
(* refused move makes the whole history corrupt.                           *)
Corrupt == [NewMatch EXCEPT !.status = "corrupt"]

Replay(m, mv) ==
  IF m # Corrupt /\ MoveError(m, PlayerOf(mv.mark), mv.cell) = "none"
  THEN Played(m, PlayerOf(mv.mark), mv.cell)
  ELSE Corrupt

RestoreMatch(moves) == FoldLeft(Replay, NewMatch, moves)

(* The result from p's point of view.                                      *)
OutcomeFor(m, p) ==
  CASE ~IsFinished(m.status) -> "undecided"
    [] m.status = "draw" -> "draw"
    [] m.status = "x_won" /\ MarkOf(p) = X -> "win"
    [] m.status = "o_won" /\ MarkOf(p) = O -> "win"
    [] OTHER -> IF MarkOf(p) = Empty THEN "undecided" ELSE "loss"

----------------------------------------------------------------------------
(* Type invariant of the entity.                                           *)
TypeOK ==
  match \in [board : Boards, turn : Players, status : Status, moves : Seq(Move)]

Owned(b, m) == {c \in Cells : b[c] = m}

(* The rules of the game, on the cells each side owns.                     *)
TTT == INSTANCE TicTacToe WITH
  owned <- [m \in Players |-> Owned(match.board, m)],
  next <- match.turn,
  result <- CASE match.status = "x_won" -> "X" [] match.status = "o_won" -> "O"
              [] match.status = "draw" -> "draw" [] OTHER -> "undecided"

(* Every sequence of accepted calls is a legal game of tic-tac-toe with    *)
(* the result the rules give it: the scans of Board.Winner, the order of   *)
(* settle's cases and the guards of ApplyMove together play by the table.  *)
ImplementsRules == TTT!Spec

(* The match seen as a length and a status, with the real bounds.          *)
Summary == INSTANCE Progress WITH
  MinWin <- 5, MaxMoves <- BoardSize,
  length <- Len(match.moves), standing <- match.status

(* What Games is told of a match (its length and status) evolves as        *)
(* Progress says: no win before the fifth move, a verdict by the ninth,    *)
(* and a win only for the side that has just moved.                        *)
ImplementsProgress == Summary!Spec

(* A history is a legal game when X and O alternate on distinct cells of   *)
(* the board and nobody moves after a line is complete.                    *)
LegalGame(h) ==
  /\ \A i \in 1 .. Len(h) :
       /\ h[i].cell \in Cells
       /\ h[i].mark = IF i % 2 = 1 THEN X ELSE O
  /\ \A i, j \in 1 .. Len(h) : h[i].cell = h[j].cell => i = j
  /\ \A i \in 1 .. Len(h) - 1 :
       ~TTT!HasLine({h[j].cell : j \in {k \in 1 .. i : h[k].mark = h[i].mark}})

(* The outcome each player is credited with follows from who owns a line:  *)
(* the winner's win is the loser's loss, and a draw is a draw for both.    *)
OutcomesFollowTheBoard ==
  /\ \A p \in {XPlayer, OPlayer} :
       OutcomeFor(match, p) = "win" <=> TTT!HasLine(Owned(match.board, MarkOf(p)))
  /\ OutcomeFor(match, XPlayer) = "loss" <=> OutcomeFor(match, OPlayer) = "win"
  /\ OutcomeFor(match, OPlayer) = "loss" <=> OutcomeFor(match, XPlayer) = "win"
  /\ \A p \in Person : OutcomeFor(match, p) = "draw" <=>
       /\ IsFull(match.board)
       /\ \A m \in Players : ~TTT!HasLine(Owned(match.board, m))
=============================================================================

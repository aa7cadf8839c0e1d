---------------------------- MODULE StoredMatch ----------------------------
(***************************************************************************)
(* A match and its row in the database: what MatchStore.Save writes of it, *)
(* ByID reads back and domain.RestoreMatch makes of that.                  *)
(***************************************************************************)
EXTENDS Match, Encoding

CONSTANTS
  TamperDepth, \* histories up to this length are extended by any stored move
  DamageDepth  \* rows of matches up to this length are damaged at every place

(* RestoreMatch accepts a history exactly when it is a legal game: a       *)
(* legal prefix extended by any stored move (decodeMoves yields X or O and *)
(* any integer) replays if, and only if, the extension is legal.  Every    *)
(* history is such an extension of its longest legal prefix.               *)
RestoreAcceptsLegalGamesOnly ==
  Len(match.moves) <= TamperDepth =>
    \A mark \in Players, cell \in WireCells :
      LET h == Append(match.moves, [mark |-> mark, cell |-> cell])
      IN RestoreMatch(h) # Corrupt <=> LegalGame(h)

(* A match written to its row and read back is the very match: same moves, *)
(* same status, and through RestoreMatch the same position and turn.       *)
StoredMatchReplays ==
  LET record == ByID(Save(match.status, match.moves)) IN
  /\ record = [status |-> match.status, moves |-> match.moves]
  /\ RestoreMatch(record.moves) = match

(* The tail cut off, or a stretch of any length replaced by one character. *)
Characters == ToSet(digits) \cup {"X", "O", ",", "-", "+", " "}
Damaged(text) ==
  LET n == Len(text) IN
       {SubSeq(text, 1, i) : i \in 0 .. n}
  \cup {SubSeq(text, 1, x[1]) \o <<x[2]>> \o SubSeq(text, x[3], n) :
          x \in (0 .. n) \X Characters \X (1 .. n + 1)}

(* A text without the signs and zeros that change no number.               *)
Idle(text, i) ==
  text[i] \in {"+", "-", "0"} /\ i < Len(text) /\ text[i + 1] \in ToSet(digits)
Plain(text) ==
  LET kept[i \in 0 .. Len(text)] ==
        IF i = 0 THEN <<>>
        ELSE IF Idle(text, i) THEN kept[i - 1] ELSE Append(kept[i - 1], text[i])
  IN kept[Len(text)]

(* What decodeMoves and RestoreMatch accept between them spells the game   *)
(* it is read as, move for move: no part of the text is skipped, and no    *)
(* move is made up.  Nothing tells a row that was cut after a whole move,  *)
(* or in which one cell became another free one, from the game it spells.  *)
AcceptedTextSpellsItsGame ==
  Len(match.moves) <= DamageDepth =>
    \A text \in Damaged(encodeMoves(match.moves)) :
      LET moves == decodeMoves(text) IN
      moves # Unreadable /\ RestoreMatch(moves) # Corrupt => encodeMoves(moves) = Plain(text)
=============================================================================

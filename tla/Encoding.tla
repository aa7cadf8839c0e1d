------------------------------ MODULE Encoding ------------------------------
(***************************************************************************)
(* How sqlite.MatchStore keeps a match in a row of text and reads it back. *)
(* A text is the sequence of its characters.                               *)
(***************************************************************************)
EXTENDS Board, Sequences, SequencesExt

CONSTANT Unreadable \* what reading answers when it fails

ASSUME UnreadableIsNoValue ==
  /\ Unreadable \notin Int
  /\ Unreadable \notin Players
  /\ Unreadable \notin {"in_progress", "x_won", "o_won", "draw"}
  /\ Unreadable \notin Seq([mark : Players, cell : Int])

digits == <<"0", "1", "2", "3", "4", "5", "6", "7", "8", "9">>
valueOf(c) == CHOOSE d \in 0 .. 9 : digits[d + 1] = c

(* A cell of an accepted move is one digit.                                *)
ASSUME CellsHaveOneDigit == BoardSize <= Len(digits)

(* Mark.String followed by strconv.Itoa.                                   *)
part(mv) == <<mv.mark, digits[mv.cell + 1]>>

(* Mutant of encodeMoves: nothing between two moves.                       *)
encodeMovesUnseparated(moves) == FlattenSeq([i \in DOMAIN moves |-> part(moves[i])])

encodeMoves(moves) ==
  FlattenSeq([i \in DOMAIN moves |-> (IF i = 1 THEN <<>> ELSE <<",">>) \o part(moves[i])])

(* strings.Split at the commas: a text without one is a single part.       *)
Split(text) ==
  LET split[i \in 0 .. Len(text)] ==
        IF i = 0 THEN << <<>> >>
        ELSE LET parts == split[i - 1] IN
             IF text[i] = "," THEN Append(parts, <<>>)
             ELSE [parts EXCEPT ![Len(parts)] = Append(@, text[i])]
  IN split[Len(text)]

(* One more digit to the right of a number.                                *)
addDigit(n, c) == 10 * n + valueOf(c)

(* strconv.Atoi accepts a sign and leading zeros, and needs a digit.       *)
Atoi(text) ==
  LET signed == text # <<>> /\ Head(text) \in {"+", "-"}
      number == IF signed THEN Tail(text) ELSE text
      value == FoldLeft(addDigit, 0, number)
  IN IF number = <<>> \/ ~(ToSet(number) \subseteq ToSet(digits)) THEN Unreadable
     ELSE IF signed /\ Head(text) = "-" THEN -value ELSE value

parseMark(c) == IF c = "X" THEN X ELSE IF c = "O" THEN O ELSE Unreadable

Readable(p) == Len(p) >= 2 /\ parseMark(p[1]) # Unreadable /\ Atoi(Tail(p)) # Unreadable

(* Mutant of decodeMoves: what cannot be read is passed over.              *)
decodeMovesSkipping(text) ==
  LET parts == SelectSeq(Split(text), Readable)
  IN [i \in DOMAIN parts |-> [mark |-> parseMark(parts[i][1]), cell |-> Atoi(Tail(parts[i]))]]

(* No text is no moves; a part that cannot be read spoils the rest.        *)
decodeMoves(text) ==
  LET parts == Split(text) IN
  IF text = <<>> THEN <<>>
  ELSE IF \E i \in DOMAIN parts : ~Readable(parts[i]) THEN Unreadable
  ELSE [i \in DOMAIN parts |-> [mark |-> parseMark(parts[i][1]), cell |-> Atoi(Tail(parts[i]))]]

parseStatus(text) ==
  IF text \in {"in_progress", "x_won", "o_won", "draw"} THEN text ELSE Unreadable

(* The columns of a match that Save writes, and the record ByID reads.     *)
Save(status, moves) == [status |-> status, moves |-> encodeMoves(moves)]

ByID(row) ==
  LET status == parseStatus(row.status)
      moves == decodeMoves(row.moves)
  IN IF status = Unreadable \/ moves = Unreadable THEN Unreadable
     ELSE [status |-> status, moves |-> moves]
=============================================================================

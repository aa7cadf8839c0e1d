---------------------------- MODULE MatchProofs ----------------------------
(***************************************************************************)
(* Proofs about domain.Match, for every choice of players and of cells     *)
(* callers may ask for: the winner the scans report is a line of the       *)
(* rules, the status says what the board says, and every run of the match  *)
(* is a run of TicTacToe.  The second half is about histories: replaying   *)
(* them, writing them to a row of text and reading them back, damaged or   *)
(* not, for histories and texts of any length.                             *)
(***************************************************************************)
EXTENDS StoredMatch, Lemmas, FiniteSetTheorems, SequenceTheorems

----------------------------------------------------------------------------
(* Scans.                                                                  *)

LEMMA FirstHit ==
  ASSUME NEW b \in Boards, NEW hits \in SUBSET {0, 1, 2, 3, 6}
  PROVE  /\ hits = {} => FirstOf(b, hits) = Empty
         /\ hits # {} => \E i \in hits : FirstOf(b, hits) = b[i]
<1>1. ASSUME hits # {}
      PROVE  \E i \in hits : \A j \in hits : i <= j
  <2>1. CASE 0 \in hits
    BY <2>1
  <2>2. CASE 0 \notin hits /\ 1 \in hits
    BY <2>2
  <2>3. CASE 0 \notin hits /\ 1 \notin hits /\ 2 \in hits
    BY <2>3
  <2>4. CASE 0 \notin hits /\ 1 \notin hits /\ 2 \notin hits /\ 3 \in hits
    BY <2>4
  <2>5. CASE hits = {6}
    BY <2>5
  <2> QED
    BY <1>1, <2>1, <2>2, <2>3, <2>4, <2>5
<1> QED
  BY <1>1 DEF FirstOf

LEMMA Columns ==
  ASSUME NEW b \in Boards
  PROVE  LET hits == {i \in 0 .. Side - 1 : SameMark(b, i, i + Side, Side * 2 + i)}
         IN /\ hits = {} => winnerInColumns(b) = Empty
            /\ hits # {} => \E i \in hits : winnerInColumns(b) = b[i]
<1> DEFINE hits == {i \in 0 .. Side - 1 : SameMark(b, i, i + Side, Side * 2 + i)}
<1>1. hits \in SUBSET {0, 1, 2, 3, 6}
  BY DEF Side
<1> QED
  BY <1>1, FirstHit DEF winnerInColumns

LEMMA Rows ==
  ASSUME NEW b \in Boards
  PROVE  LET hits == {i \in {0, Side, Side * 2} : SameMark(b, i, i + 1, i + 2)}
         IN /\ hits = {} => winnerInRows(b) = Empty
            /\ hits # {} => \E i \in hits : winnerInRows(b) = b[i]
<1> DEFINE hits == {i \in {0, Side, Side * 2} : SameMark(b, i, i + 1, i + 2)}
<1>1. hits \in SUBSET {0, 1, 2, 3, 6}
  BY DEF Side
<1> QED
  BY <1>1, FirstHit DEF winnerInRows

----------------------------------------------------------------------------
(* Lines.  Line(b, i, j, k) unrolls the table of TicTacToe.                *)

Line(b, m, i, j, k) == b[i] = m /\ b[j] = m /\ b[k] = m

LEMMA LineTable ==
  ASSUME NEW b \in Boards, NEW m \in Players
  PROVE  TTT!HasLine(Owned(b, m)) <=>
           \/ Line(b, m, 0, 1, 2) \/ Line(b, m, 3, 4, 5) \/ Line(b, m, 6, 7, 8)
           \/ Line(b, m, 0, 3, 6) \/ Line(b, m, 1, 4, 7) \/ Line(b, m, 2, 5, 8)
           \/ Line(b, m, 0, 4, 8) \/ Line(b, m, 2, 4, 6)
<1>1. \A i, j, k \in Cells : {i, j, k} \subseteq Owned(b, m) <=> Line(b, m, i, j, k)
  BY DEF Owned, Line
<1>2. 0 \in Cells /\ 1 \in Cells /\ 2 \in Cells /\ 3 \in Cells /\ 4 \in Cells
      /\ 5 \in Cells /\ 6 \in Cells /\ 7 \in Cells /\ 8 \in Cells
  BY DEF Cells, BoardSize, Side
<1>3. TTT!HasLine(Owned(b, m)) <=>
        \/ {0, 1, 2} \subseteq Owned(b, m) \/ {3, 4, 5} \subseteq Owned(b, m)
        \/ {6, 7, 8} \subseteq Owned(b, m) \/ {0, 3, 6} \subseteq Owned(b, m)
        \/ {1, 4, 7} \subseteq Owned(b, m) \/ {2, 5, 8} \subseteq Owned(b, m)
        \/ {0, 4, 8} \subseteq Owned(b, m) \/ {2, 4, 6} \subseteq Owned(b, m)
  <2> DEFINE W == Owned(b, m)
  <2> HIDE DEF W
  <2> SUFFICES TTT!HasLine(W) <=>
        \/ {0, 1, 2} \subseteq W \/ {3, 4, 5} \subseteq W \/ {6, 7, 8} \subseteq W
        \/ {0, 3, 6} \subseteq W \/ {1, 4, 7} \subseteq W \/ {2, 5, 8} \subseteq W
        \/ {0, 4, 8} \subseteq W \/ {2, 4, 6} \subseteq W
    BY DEF W
  <2> QED
    BY Zenon DEF TTT!HasLine, TTT!Lines
<1> QED
  BY <1>1, <1>2, <1>3

----------------------------------------------------------------------------
(* The winner the scans report owns a line of the table, and the scans     *)
(* report somebody whenever somebody owns one: domain.Board.Winner agrees  *)
(* with the hand-written table on every board, reachable or not.           *)
LEMMA WinnerOwnsALine ==
  ASSUME NEW b \in Boards
  PROVE  /\ Winner(b) \in Marks
         /\ Winner(b) # Empty => TTT!HasLine(Owned(b, Winner(b)))
         /\ \A m \in Players : TTT!HasLine(Owned(b, m)) => Winner(b) # Empty
<1>0. /\ \A c \in Cells : b[c] \in Marks
      /\ 0 \in Cells /\ 1 \in Cells /\ 2 \in Cells /\ 3 \in Cells /\ 4 \in Cells
      /\ 5 \in Cells /\ 6 \in Cells /\ 7 \in Cells /\ 8 \in Cells
  BY DEF Boards, Cells, BoardSize, Side
<1>1. /\ winnerInColumns(b) = Empty <=>
           ~SameMark(b, 0, 3, 6) /\ ~SameMark(b, 1, 4, 7) /\ ~SameMark(b, 2, 5, 8)
      /\ winnerInColumns(b) # Empty =>
           \/ SameMark(b, 0, 3, 6) /\ winnerInColumns(b) = b[0]
           \/ SameMark(b, 1, 4, 7) /\ winnerInColumns(b) = b[1]
           \/ SameMark(b, 2, 5, 8) /\ winnerInColumns(b) = b[2]
  <2> DEFINE hits == {i \in 0 .. Side - 1 : SameMark(b, i, i + Side, Side * 2 + i)}
  <2>1. hits = {i \in {0, 1, 2} : SameMark(b, i, i + 3, 6 + i)}
    BY DEF Side
  <2>2. /\ 0 \in hits <=> SameMark(b, 0, 3, 6)
        /\ 1 \in hits <=> SameMark(b, 1, 4, 7)
        /\ 2 \in hits <=> SameMark(b, 2, 5, 8)
    BY <2>1
  <2>3. \A i \in hits : b[i] # Empty /\ i \in {0, 1, 2}
    BY <2>1 DEF SameMark
  <2> QED
    BY <2>2, <2>3, Columns
<1>2. /\ winnerInRows(b) = Empty <=>
           ~SameMark(b, 0, 1, 2) /\ ~SameMark(b, 3, 4, 5) /\ ~SameMark(b, 6, 7, 8)
      /\ winnerInRows(b) # Empty =>
           \/ SameMark(b, 0, 1, 2) /\ winnerInRows(b) = b[0]
           \/ SameMark(b, 3, 4, 5) /\ winnerInRows(b) = b[3]
           \/ SameMark(b, 6, 7, 8) /\ winnerInRows(b) = b[6]
  <2> DEFINE hits == {i \in {0, Side, Side * 2} : SameMark(b, i, i + 1, i + 2)}
  <2>1. hits = {i \in {0, 3, 6} : SameMark(b, i, i + 1, i + 2)}
    BY DEF Side
  <2>2. /\ 0 \in hits <=> SameMark(b, 0, 1, 2)
        /\ 3 \in hits <=> SameMark(b, 3, 4, 5)
        /\ 6 \in hits <=> SameMark(b, 6, 7, 8)
    BY <2>1 DEF SameMark
  <2>3. \A i \in hits : b[i] # Empty /\ i \in {0, 3, 6}
    BY <2>1 DEF SameMark
  <2> QED
    BY <2>2, <2>3, Rows
<1>3. winnerInDiagonals(b) =
        IF SameMark(b, 0, 4, 8) THEN b[0]
        ELSE IF SameMark(b, 2, 4, 6) THEN b[2] ELSE Empty
  BY DEF winnerInDiagonals, Side
<1>4. \A i, j, k \in Cells : SameMark(b, i, j, k) <=>
        /\ b[i] # Empty
        /\ Line(b, b[i], i, j, k)
  BY DEF SameMark, Line
<1>5. \A m \in Players, i, j, k \in Cells : Line(b, m, i, j, k) => SameMark(b, i, j, k)
  BY DEF SameMark, Line, Players, X, O, Empty
<1>6. Winner(b) = Empty <=>
        /\ ~SameMark(b, 0, 3, 6) /\ ~SameMark(b, 1, 4, 7) /\ ~SameMark(b, 2, 5, 8)
        /\ ~SameMark(b, 0, 1, 2) /\ ~SameMark(b, 3, 4, 5) /\ ~SameMark(b, 6, 7, 8)
        /\ ~SameMark(b, 0, 4, 8) /\ ~SameMark(b, 2, 4, 6)
  BY <1>1, <1>2, <1>3 DEF Winner, SameMark
<1>7. Winner(b) # Empty =>
        \/ SameMark(b, 0, 3, 6) /\ Winner(b) = b[0]
        \/ SameMark(b, 1, 4, 7) /\ Winner(b) = b[1]
        \/ SameMark(b, 2, 5, 8) /\ Winner(b) = b[2]
        \/ SameMark(b, 0, 1, 2) /\ Winner(b) = b[0]
        \/ SameMark(b, 3, 4, 5) /\ Winner(b) = b[3]
        \/ SameMark(b, 6, 7, 8) /\ Winner(b) = b[6]
        \/ SameMark(b, 0, 4, 8) /\ Winner(b) = b[0]
        \/ SameMark(b, 2, 4, 6) /\ Winner(b) = b[2]
  BY <1>1, <1>2, <1>3 DEF Winner
<1>8. Winner(b) \in Marks
  BY <1>0, <1>7 DEF Marks
<1>9. ASSUME Winner(b) # Empty
      PROVE  TTT!HasLine(Owned(b, Winner(b)))
  <2>1. Winner(b) \in Players
    BY <1>8, <1>9 DEF Marks, Players
  <2> QED
    BY <1>0, <1>4, <1>7, <1>9, <2>1, LineTable
<1>10. ASSUME NEW m \in Players, TTT!HasLine(Owned(b, m))
       PROVE  Winner(b) # Empty
  BY <1>0, <1>5, <1>6, <1>10, LineTable
<1> QED
  BY <1>8, <1>9, <1>10

----------------------------------------------------------------------------
(* One accepted move.                                                      *)

LEMMA SettledMove ==
  ASSUME NEW b \in Boards, NEW m \in Players, NEW c \in Cells,
         b[c] = Empty, Winner(b) = Empty
  PROVE  /\ Set(b, c, m) \in Boards
         /\ Owned(Set(b, c, m), m) = Owned(b, m) \cup {c}
         /\ Owned(Set(b, c, m), Opponent(m)) = Owned(b, Opponent(m))
         /\ ~TTT!HasLine(Owned(Set(b, c, m), Opponent(m)))
         /\ Winner(Set(b, c, m)) \in {Empty, m}
         /\ Winner(Set(b, c, m)) = m <=> TTT!HasLine(Owned(Set(b, c, m), m))
<1> DEFINE n == Set(b, c, m)
<1>1. n \in Boards
  BY DEF Boards, Set, Marks, Players
<1>2. Opponent(m) \in Players /\ Opponent(m) # m /\ Opponent(m) # Empty
      /\ Marks = {Empty, m, Opponent(m)}
  BY DEF Opponent, Players, X, O, Empty, Marks
<1>3. Owned(n, m) = Owned(b, m) \cup {c}
  BY DEF Owned, Set, Boards
<1>4. Owned(n, Opponent(m)) = Owned(b, Opponent(m))
  BY <1>2 DEF Owned, Set, Boards
<1>5. ~TTT!HasLine(Owned(n, Opponent(m)))
  BY <1>2, <1>4, WinnerOwnsALine
<1>6. Winner(n) \in {Empty, m}
  BY <1>1, <1>2, <1>5, WinnerOwnsALine
<1>7. Winner(n) = m <=> TTT!HasLine(Owned(n, m))
  BY <1>1, <1>2, <1>6, WinnerOwnsALine DEF Players, X, O, Empty
<1> HIDE DEF n
<1> QED
  BY <1>1, <1>3, <1>4, <1>5, <1>6, <1>7 DEF n

LEMMA EmptyBoard ==
  /\ NewMatch.board \in Boards
  /\ \A m \in Players : Owned(NewMatch.board, m) = {}
  /\ Winner(NewMatch.board) = Empty
  /\ ~IsFull(NewMatch.board)
<1>1. NewMatch.board \in Boards /\ \A c \in Cells : NewMatch.board[c] = Empty
  BY DEF NewMatch, Boards, Marks
<1>2. \A m \in Players : Owned(NewMatch.board, m) = {}
  BY <1>1 DEF Owned, Players, X, O, Empty
<1>3. 0 \in Cells
  BY DEF Cells, BoardSize, Side
<1>4. ~IsFull(NewMatch.board)
  BY <1>1, <1>3 DEF IsFull
<1>5. \A m \in Players : ~TTT!HasLine({})
  BY DEF TTT!HasLine, TTT!Lines
<1>6. Winner(NewMatch.board) = Empty
  <2>1. SUFFICES ASSUME Winner(NewMatch.board) # Empty PROVE FALSE
    OBVIOUS
  <2>2. Winner(NewMatch.board) \in Players
    BY <1>1, <2>1, WinnerOwnsALine DEF Marks, Players
  <2> QED
    BY <1>1, <1>2, <1>5, <2>1, <2>2, WinnerOwnsALine
<1> QED
  BY <1>1, <1>2, <1>4, <1>6

----------------------------------------------------------------------------
(* The inductive invariant.  TypeOK alone does not carry: that the status  *)
(* is what settle would say again, and that two sides never own a line at  *)
(* once, are what make a fresh win the mover's.                            *)
Inv ==
  /\ TypeOK
  /\ match.status = StatusOf(match.board)
  /\ ~(TTT!HasLine(Owned(match.board, X)) /\ TTT!HasLine(Owned(match.board, O)))

LEMMA InvInit == Init => Inv
<1> SUFFICES ASSUME Init PROVE Inv
  OBVIOUS
<1>1. match = NewMatch
  BY DEF Init
<1>2. TypeOK
  BY <1>1, EmptyBoard DEF TypeOK, NewMatch, Players, Status, Move
<1>3. match.status = StatusOf(match.board)
  BY <1>1, EmptyBoard DEF NewMatch, StatusOf, X, O, Empty
<1>4. ~TTT!HasLine(Owned(match.board, X))
  BY <1>1, EmptyBoard, WinnerOwnsALine DEF Players
<1> QED
  BY <1>2, <1>3, <1>4 DEF Inv

(* What an accepted call finds.                                            *)
LEMMA AcceptedCall ==
  ASSUME Inv, NEW p \in Person, NEW cell \in WireCells,
         MoveError(match, p, cell) = "none"
  PROVE  /\ match.status = "in_progress"
         /\ MarkOf(p) \in Players
         /\ MarkOf(p) = match.turn
         /\ cell \in Cells
         /\ match.board \in Boards
         /\ match.board[cell] = Empty
         /\ Winner(match.board) = Empty
<1>1. /\ match.status = "in_progress" /\ MarkOf(p) # Empty
      /\ MarkOf(p) = match.turn /\ SetError(match.board, cell) = "none"
  BY DEF MoveError, IsFinished, SetError
<1>2. MarkOf(p) \in Players
  BY <1>1 DEF MarkOf, Players
<1>3. cell \in Cells /\ match.board[cell] = Empty
  BY <1>1 DEF SetError
<1>4. match.board \in Boards
  BY DEF Inv, TypeOK
<1>5. Winner(match.board) = Empty
  BY <1>1, <1>4, WinnerOwnsALine DEF Inv, StatusOf, Marks
<1> QED
  BY <1>1, <1>2, <1>3, <1>4, <1>5

LEMMA InvNext == Inv /\ [Next]_vars => Inv'
<1> SUFFICES ASSUME Inv, [Next]_vars PROVE Inv'
  OBVIOUS
<1>1. ASSUME NEW p \in Person, NEW cell \in WireCells, ApplyMove(p, cell)
      PROVE  Inv'
  <2> DEFINE m == MarkOf(p)
             b == Set(match.board, cell, m)
  <2>1. /\ m \in Players /\ cell \in Cells /\ match.board \in Boards
        /\ match.board[cell] = Empty /\ Winner(match.board) = Empty
        /\ match.turn = m
    BY <1>1, AcceptedCall DEF ApplyMove
  <2>2. match' = [board |-> b,
                  turn |-> IF IsFinished(StatusOf(b)) THEN match.turn ELSE Opponent(m),
                  status |-> StatusOf(b),
                  moves |-> Append(match.moves, [mark |-> m, cell |-> cell])]
    BY <1>1 DEF ApplyMove, Played
  <2>3. /\ b \in Boards
        /\ ~TTT!HasLine(Owned(b, Opponent(m)))
    BY <2>1, SettledMove
  <2>4. TypeOK'
    <3>1. StatusOf(b) \in Status
      BY DEF StatusOf, Status
    <3>2. match'.turn \in Players
      BY <2>1, <2>2 DEF Opponent, Players, X, O
    <3>3. match'.moves \in Seq(Move)
      BY <2>1, <2>2, WireCellsAreIntegers DEF Inv, TypeOK, Move, Marks, Players
    <3> HIDE DEF b, m
    <3> QED
      BY <2>2, <2>3, <3>1, <3>2, <3>3 DEF TypeOK
  <2>5. match'.status = StatusOf(match'.board)
    BY <2>2
  <2>6. ~(TTT!HasLine(Owned(match'.board, X)) /\ TTT!HasLine(Owned(match'.board, O)))
    <3>1. Opponent(m) \in {X, O}
      BY <2>1 DEF Opponent, Players
    <3> QED
      BY <2>2, <2>3, <3>1
  <2> QED
    BY <2>4, <2>5, <2>6 DEF Inv
<1>2. CASE UNCHANGED vars
  BY <1>2 DEF vars, Inv, TypeOK
<1> QED
  BY <1>1, <1>2 DEF Next

(* Whatever is called on a match, its status is what settle makes of its   *)
(* board, and X and O do not both own a line.                              *)
THEOREM Invariance == Spec => []Inv
BY InvInit, InvNext, PTL DEF Spec

(* The entity keeps its type, whoever calls it and with whatever cell.     *)
THEOREM MatchTyped == Spec => []TypeOK
<1>1. Inv => TypeOK
  BY DEF Inv
<1> QED
  BY <1>1, Invariance, PTL

----------------------------------------------------------------------------
(* Under the invariant the status says who owns a line.                    *)
LEMMA StatusTellsTheLines ==
  ASSUME Inv
  PROVE  /\ match.status \in Status
         /\ match.status = "x_won" <=> TTT!HasLine(Owned(match.board, X))
         /\ match.status = "o_won" <=> TTT!HasLine(Owned(match.board, O))
         /\ match.status = "draw" <=>
              /\ IsFull(match.board)
              /\ ~TTT!HasLine(Owned(match.board, X))
              /\ ~TTT!HasLine(Owned(match.board, O))
<1> DEFINE w == Winner(match.board)
<1>1. match.board \in Boards /\ X \in Players /\ O \in Players /\ X # O
      /\ X # Empty /\ O # Empty
  BY DEF Inv, TypeOK, Players, X, O, Empty
<1>2. w \in {Empty, X, O}
  BY <1>1, WinnerOwnsALine DEF Marks
<1>3. /\ w = X <=> TTT!HasLine(Owned(match.board, X))
      /\ w = O <=> TTT!HasLine(Owned(match.board, O))
  BY <1>1, <1>2, WinnerOwnsALine DEF Inv
<1>4. match.status =
        CASE w = X -> "x_won" [] w = O -> "o_won"
          [] OTHER -> IF IsFull(match.board) THEN "draw" ELSE "in_progress"
  BY DEF Inv, StatusOf
<1> HIDE DEF w
<1> QED
  BY <1>1, <1>2, <1>3, <1>4 DEF Status

(* The results Games stores are the ones the board gives: a win is credited *)
(* to the owner of a line and to nobody else, its loss to the other player, *)
(* and a draw to both exactly on a full board without a line.              *)
THEOREM OutcomesSound == Spec => []OutcomesFollowTheBoard
<1>1. ASSUME Inv PROVE OutcomesFollowTheBoard
  <2> DEFINE lineX == TTT!HasLine(Owned(match.board, X))
             lineO == TTT!HasLine(Owned(match.board, O))
             full == IsFull(match.board)
  <2>1. /\ match.status \in Status
        /\ match.status = "x_won" <=> lineX
        /\ match.status = "o_won" <=> lineO
        /\ match.status = "draw" <=> full /\ ~lineX /\ ~lineO
    BY <1>1, StatusTellsTheLines
  <2>2. MarkOf(XPlayer) = X /\ MarkOf(OPlayer) = O
    BY DistinctPlayers DEF MarkOf
  <2>3. X # O /\ X # Empty /\ O # Empty /\ Players = {X, O}
    BY DEF X, O, Empty, Players
  <2> HIDE DEF lineX, lineO, full
  <2>4. /\ OutcomeFor(match, XPlayer) = "win" <=> lineX
        /\ OutcomeFor(match, OPlayer) = "win" <=> lineO
        /\ OutcomeFor(match, XPlayer) = "loss" <=> lineO
        /\ OutcomeFor(match, OPlayer) = "loss" <=> lineX
    BY <2>1, <2>2, <2>3 DEF OutcomeFor, IsFinished, Status
  <2>5. \A p \in Person : OutcomeFor(match, p) = "draw" <=> full /\ ~lineX /\ ~lineO
    BY <2>1 DEF OutcomeFor, IsFinished, Status
  <2> USE DEF lineX, lineO, full
  <2>6. \A p \in {XPlayer, OPlayer} : OutcomeFor(match, p) = "win" <=>
          TTT!HasLine(Owned(match.board, MarkOf(p)))
    BY <2>2, <2>4
  <2> QED
    BY <2>3, <2>4, <2>5, <2>6 DEF OutcomesFollowTheBoard
<1> QED
  BY <1>1, Invariance, PTL

----------------------------------------------------------------------------
(* The refinement of the rules.                                            *)

Owning == [m \in Players |-> Owned(match.board, m)]
Result ==
  CASE match.status = "x_won" -> "X" [] match.status = "o_won" -> "O"
    [] match.status = "draw" -> "draw" [] OTHER -> "undecided"

LEMMA RulesInit == Init => TTT!Init
<1> SUFFICES ASSUME Init PROVE TTT!Init
  OBVIOUS
<1>1. match = NewMatch
  BY DEF Init
<1>2. [m \in Players |-> Owned(match.board, m)] = [s \in {"X", "O"} |-> {}]
  BY <1>1, EmptyBoard DEF Players, X, O
<1>3. match.turn = "X" /\ match.status = "in_progress"
  BY <1>1 DEF NewMatch, X
<1> QED
  BY <1>2, <1>3 DEF TTT!Init

LEMMA RulesNext ==
  ASSUME Inv, Inv', NEW p \in Person, NEW cell \in WireCells, ApplyMove(p, cell)
  PROVE  TTT!Take(MarkOf(p), cell)
<1> DEFINE m == MarkOf(p)
           b == Set(match.board, cell, m)
           mine == Owning[m] \cup {cell}
<1>1. /\ m \in Players /\ cell \in Cells /\ match.board \in Boards
      /\ match.board[cell] = Empty /\ Winner(match.board) = Empty
      /\ match.turn = m /\ match.status = "in_progress"
  BY AcceptedCall DEF ApplyMove
<1>2. /\ match'.board = b
      /\ match'.status = StatusOf(b)
      /\ match'.turn = IF IsFinished(StatusOf(b)) THEN match.turn ELSE Opponent(m)
  BY DEF ApplyMove, Played
<1>3. Players = {"X", "O"} /\ TTT!Other(m) = Opponent(m) /\ Opponent(m) \in Players
      /\ Opponent(m) # m /\ Players = {m, Opponent(m)} /\ m # Empty
      /\ Opponent(m) # Empty
  BY <1>1 DEF Players, X, O, TTT!Other, Opponent, Empty
<1>4. /\ b \in Boards
      /\ Owned(b, m) = Owned(match.board, m) \cup {cell}
      /\ Owned(b, Opponent(m)) = Owned(match.board, Opponent(m))
      /\ Winner(b) \in {Empty, m}
      /\ Winner(b) = m <=> TTT!HasLine(Owned(b, m))
  BY <1>1, SettledMove
<1>5. mine = Owned(b, m)
  BY <1>1, <1>4 DEF Owning
<1>6. Owning' = [Owning EXCEPT ![m] = mine]
  <2>1. Owning' = [s \in Players |-> Owned(b, s)]
    BY <1>2 DEF Owning
  <2>2. \A s \in Players : Owned(b, s) = [Owning EXCEPT ![m] = mine][s]
    BY <1>1, <1>3, <1>4, <1>5 DEF Owning
  <2> HIDE DEF m, b, mine
  <2> QED
    BY <2>1, <2>2 DEF Owning
<1>7. cell \notin Owning["X"] \cup Owning["O"]
  BY <1>1, <1>3 DEF Owning, Owned, Players, X, O, Empty
<1>8. IsFull(b) <=> mine \cup Owning[TTT!Other(m)] = TTT!Squares
  <2>1. mine \cup Owning[Opponent(m)] = {c \in Cells : b[c] \in {m, Opponent(m)}}
    BY <1>3, <1>4, <1>5 DEF Owning, Owned
  <2>2. \A c \in Cells : b[c] # Empty <=> b[c] \in {m, Opponent(m)}
    BY <1>3, <1>4 DEF Boards, Marks, Players, Empty
  <2>3. TTT!Squares = Cells
    BY DEF TTT!Squares, Cells, BoardSize, Side
  <2> HIDE DEF m, b, mine
  <2> QED
    BY <1>3, <2>1, <2>2, <2>3 DEF IsFull
<1>9. Result = "undecided"
  BY <1>1 DEF Result
<1>10. CASE TTT!HasLine(mine)
  <2>1. Winner(b) = m
    BY <1>4, <1>5, <1>10
  <2>2. match'.status = IF m = X THEN "x_won" ELSE "o_won"
    BY <1>1, <1>2, <2>1 DEF StatusOf, Players, X, O
  <2>3. Result' = m
    BY <1>1, <2>2 DEF Result, Players, X, O
  <2>4. match'.turn = match.turn
    BY <1>1, <1>2, <2>2 DEF IsFinished
  <2> HIDE DEF m, b, mine
  <2> QED
    BY <1>1, <1>6, <1>7, <1>9, <1>10, <2>3, <2>4 DEF TTT!Take, Owning, Result, m, mine
<1>11. CASE ~TTT!HasLine(mine) /\ IsFull(b)
  <2>1. Winner(b) = Empty
    BY <1>4, <1>5, <1>11
  <2>2. match'.status = "draw"
    BY <1>2, <1>11, <2>1 DEF StatusOf, X, O, Empty
  <2>3. Result' = "draw" /\ match'.turn = match.turn
    BY <1>2, <2>2 DEF Result, IsFinished
  <2> HIDE DEF m, b, mine
  <2> QED
    BY <1>1, <1>6, <1>7, <1>8, <1>9, <1>11, <2>3 DEF TTT!Take, Owning, Result, m, mine
<1>12. CASE ~TTT!HasLine(mine) /\ ~IsFull(b)
  <2>1. Winner(b) = Empty
    BY <1>4, <1>5, <1>12
  <2>2. match'.status = "in_progress"
    BY <1>2, <1>12, <2>1 DEF StatusOf, X, O, Empty
  <2>3. Result' = "undecided" /\ match'.turn = TTT!Other(m)
    BY <1>2, <1>3, <2>2 DEF Result, IsFinished
  <2> HIDE DEF m, b, mine
  <2> QED
    BY <1>1, <1>6, <1>7, <1>8, <1>9, <1>12, <2>3 DEF TTT!Take, Owning, Result, m, mine
<1> QED
  BY <1>10, <1>11, <1>12

(* Every run of the match is a game of tic-tac-toe by the table: X first,  *)
(* turns alternate, a taken cell is never taken again, the first line ends *)
(* the match for its owner and a full board without one is a draw.         *)
THEOREM MatchImplementsRules == Spec => ImplementsRules
<1>1. Init => TTT!Init
  BY RulesInit
<1>2. Inv /\ Inv' /\ [Next]_vars =>
        [TTT!Next]_<<Owning, match.turn, Result>>
  <2> SUFFICES ASSUME Inv, Inv', [Next]_vars
               PROVE  [TTT!Next]_<<Owning, match.turn, Result>>
    OBVIOUS
  <2>1. ASSUME NEW p \in Person, NEW cell \in WireCells, ApplyMove(p, cell)
        PROVE  TTT!Next
    <3>1. TTT!Take(MarkOf(p), cell)
      BY <2>1, RulesNext
    <3>2. MarkOf(p) \in {"X", "O"} /\ cell \in TTT!Squares
      BY <2>1, AcceptedCall DEF ApplyMove, Players, X, O, TTT!Squares, Cells,
                                BoardSize, Side
    <3> QED
      BY <3>1, <3>2 DEF TTT!Next
  <2>2. CASE UNCHANGED vars
    BY <2>2 DEF vars, Owning, Result
  <2> QED
    BY <2>1, <2>2 DEF Next
<1> QED
  BY <1>1, <1>2, Invariance, PTL DEF Spec, ImplementsRules, TTT!Spec, Owning, Result
----------------------------------------------------------------------------
(* The refinement of Progress.  The squares of the two sides are counted:  *)
(* X owns as many as O when it is to move and one more after moving, and   *)
(* together they own as many squares as moves were made.                   *)

Count(m) == Cardinality(Owned(match.board, m))

Counted ==
  /\ Inv
  /\ \A m \in Players : IsFiniteSet(Owned(match.board, m))
  /\ Len(match.moves) = Count(X) + Count(O)
  /\ match.status = "in_progress" => Count(X) = Count(O) + (IF match.turn = X THEN 0 ELSE 1)

(* Three squares in a row are three squares.                               *)
LEMMA LineIsThree ==
  ASSUME NEW S, IsFiniteSet(S), TTT!HasLine(S)
  PROVE  Cardinality(S) >= 3
<1>1. PICK l \in TTT!Lines : l \subseteq S
  BY DEF TTT!HasLine
<1>2. \E i, j, k \in Int : l = {i, j, k} /\ i # j /\ i # k /\ j # k
  BY DEF TTT!Lines
<1>3. PICK i \in Int, j \in Int, k \in Int : l = {i, j, k} /\ i # j /\ i # k /\ j # k
  BY <1>2
<1>4. IsFiniteSet({i}) /\ Cardinality({i}) = 1
  BY FS_Singleton
<1>5. IsFiniteSet({i} \cup {j}) /\ Cardinality({i} \cup {j}) = 2
  <2>1. j \notin {i}
    BY <1>3
  <2>2. IsFiniteSet({i} \cup {j}) /\ Cardinality({i} \cup {j}) = Cardinality({i}) + 1
    BY <1>4, <2>1, FS_AddElement
  <2> QED
    BY <1>4, <2>2
<1>6. Cardinality({i} \cup {j} \cup {k}) = 3
  <2>1. k \notin {i} \cup {j}
    BY <1>3
  <2>2. Cardinality({i} \cup {j} \cup {k}) = Cardinality({i} \cup {j}) + 1
    BY <1>5, <2>1, FS_AddElement
  <2> QED
    BY <1>5, <2>2
<1>7. l = {i} \cup {j} \cup {k}
  BY <1>3
<1>8. Cardinality(l) <= Cardinality(S)
  BY <1>1, FS_Subset
<1> QED
  BY <1>6, <1>7, <1>8, FS_CardinalityType

(* The squares the two sides own: nine on a full board, fewer otherwise.   *)
LEMMA TakenSquares ==
  ASSUME NEW b \in Boards
  PROVE  /\ \A m \in Players : IsFiniteSet(Owned(b, m)) /\ Cardinality(Owned(b, m)) \in Nat
         /\ IsFull(b) => Cardinality(Owned(b, X)) + Cardinality(Owned(b, O)) = BoardSize
         /\ ~IsFull(b) => Cardinality(Owned(b, X)) + Cardinality(Owned(b, O)) < BoardSize
<1> DEFINE taken == Owned(b, X) \cup Owned(b, O)
<1>1. IsFiniteSet(Cells) /\ Cardinality(Cells) = BoardSize
  <2>1. Cells = 0 .. 8 /\ BoardSize = 9
    BY DEF Cells, BoardSize, Side
  <2>2. \A i, j \in Int : /\ IsFiniteSet(i .. j)
                         /\ Cardinality(i .. j) = IF i > j THEN 0 ELSE j - i + 1
    BY FS_Interval, Zenon
  <2>3. 0 \in Int /\ 8 \in Int
    OBVIOUS
  <2>4. IsFiniteSet(Cells) /\ Cardinality(Cells) = IF 0 > 8 THEN 0 ELSE 8 - 0 + 1
    BY <2>1, <2>2, <2>3, Zenon
  <2> QED
    BY <2>1, <2>4
<1>2. \A m \in Players : Owned(b, m) \subseteq Cells
  BY DEF Owned
<1>3. \A m \in Players : IsFiniteSet(Owned(b, m)) /\ Cardinality(Owned(b, m)) \in Nat
  BY <1>1, <1>2, FS_Subset, FS_CardinalityType
<1>4. X \in Players /\ O \in Players /\ Owned(b, X) \cap Owned(b, O) = {}
  BY DEF Players, X, O, Owned
<1>5. Cardinality(taken) = Cardinality(Owned(b, X)) + Cardinality(Owned(b, O))
  <2>1. Cardinality({}) = 0
    BY FS_EmptySet
  <2>2. Cardinality(taken) = Cardinality(Owned(b, X)) + Cardinality(Owned(b, O))
          - Cardinality(Owned(b, X) \cap Owned(b, O))
    BY <1>3, <1>4, FS_Union
  <2> QED
    BY <1>3, <1>4, <2>1, <2>2
<1>6. taken \in SUBSET Cells
  BY <1>2, <1>4
<1>7. taken = Cells <=> IsFull(b)
  <2>1. \A c \in Cells : b[c] # Empty <=> c \in taken
    BY DEF Owned, Boards, Marks, Empty, X, O
  <2> QED
    BY <1>6, <2>1 DEF IsFull
<1>8. /\ Cardinality(taken) <= Cardinality(Cells)
      /\ Cardinality(Cells) = Cardinality(taken) => Cells = taken
      /\ Cardinality(taken) \in Nat
  BY <1>1, <1>6, FS_Subset, FS_CardinalityType
<1> HIDE DEF taken
<1>9. BoardSize = 9
  BY DEF BoardSize, Side
<1> QED
  BY <1>1, <1>3, <1>5, <1>7, <1>8, <1>9

LEMMA CountedInit == Init => Counted
<1> SUFFICES ASSUME Init PROVE Counted
  OBVIOUS
<1>1. match = NewMatch
  BY DEF Init
<1>2. \A m \in Players : Owned(match.board, m) = {}
  BY <1>1, EmptyBoard
<1>3. Count(X) = 0 /\ Count(O) = 0
  BY <1>2, FS_EmptySet DEF Count, Players
<1>4. \A m \in Players : IsFiniteSet(Owned(match.board, m))
  BY <1>2, FS_EmptySet
<1>5. Len(match.moves) = 0 /\ match.turn = X
  BY <1>1 DEF NewMatch
<1> QED
  BY <1>3, <1>4, <1>5, InvInit DEF Counted

(* An accepted call adds one square to the side that moves and none to the *)
(* other.                                                                  *)
LEMMA CountedMove ==
  ASSUME Counted, NEW p \in Person, NEW cell \in WireCells, ApplyMove(p, cell)
  PROVE  LET m == MarkOf(p) IN
         /\ m \in Players /\ match.turn = m /\ match.status = "in_progress"
         /\ match'.board = Set(match.board, cell, m)
         /\ match'.status = StatusOf(match'.board)
         /\ Count(m)' = Count(m) + 1
         /\ Count(Opponent(m))' = Count(Opponent(m))
         /\ Len(match'.moves) = Len(match.moves) + 1
         /\ match'.turn = IF IsFinished(match'.status) THEN m ELSE Opponent(m)
         /\ Winner(match'.board) \in {Empty, m}
         /\ Winner(match'.board) = m => TTT!HasLine(Owned(match'.board, m))
<1> DEFINE m == MarkOf(p)
           b == Set(match.board, cell, m)
<1>1. /\ match.status = "in_progress" /\ m \in Players /\ match.turn = m
      /\ cell \in Cells /\ match.board \in Boards /\ match.board[cell] = Empty
      /\ Winner(match.board) = Empty
  BY AcceptedCall DEF ApplyMove, Counted
<1>2. /\ match'.board = b
      /\ match'.status = StatusOf(b)
      /\ match'.turn = IF IsFinished(StatusOf(b)) THEN match.turn ELSE Opponent(m)
      /\ match'.moves = Append(match.moves, [mark |-> m, cell |-> cell])
  BY DEF ApplyMove, Played
<1>3. /\ Owned(b, m) = Owned(match.board, m) \cup {cell}
      /\ Owned(b, Opponent(m)) = Owned(match.board, Opponent(m))
      /\ Winner(b) \in {Empty, m}
      /\ Winner(b) = m <=> TTT!HasLine(Owned(b, m))
  BY <1>1, SettledMove
<1>4. cell \notin Owned(match.board, m) /\ IsFiniteSet(Owned(match.board, m))
  BY <1>1 DEF Owned, Players, X, O, Empty, Counted
<1>5. Count(m)' = Count(m) + 1
  BY <1>2, <1>3, <1>4, FS_AddElement DEF Count
<1>6. Count(Opponent(m))' = Count(Opponent(m))
  BY <1>2, <1>3 DEF Count
<1>7. Len(match'.moves) = Len(match.moves) + 1
  BY <1>2 DEF Counted, Inv, TypeOK
<1> HIDE DEF m, b
<1> QED
  BY <1>1, <1>2, <1>3, <1>5, <1>6, <1>7 DEF m, b

LEMMA CountedNext == Counted /\ [Next]_vars => Counted'
<1> SUFFICES ASSUME Counted, [Next]_vars PROVE Counted'
  OBVIOUS
<1>1. Inv'
  BY InvNext DEF Counted
<1>2. \A m \in Players : IsFiniteSet(Owned(match'.board, m))
  BY <1>1, TakenSquares DEF Inv, TypeOK
<1>3. ASSUME NEW p \in Person, NEW cell \in WireCells, ApplyMove(p, cell)
      PROVE  Counted'
  <2> DEFINE m == MarkOf(p)
  <2>1. /\ m \in Players /\ match.turn = m /\ match.status = "in_progress"
        /\ Count(m)' = Count(m) + 1
        /\ Count(Opponent(m))' = Count(Opponent(m))
        /\ Len(match'.moves) = Len(match.moves) + 1
        /\ match'.turn = IF IsFinished(match'.status) THEN m ELSE Opponent(m)
    BY <1>3, CountedMove
  <2>2. Count(X) \in Nat /\ Count(O) \in Nat
    BY TakenSquares DEF Counted, Inv, TypeOK, Count, Players
  <2> HIDE DEF m
  <2>3. Count(X)' = Count(X) + (IF m = X THEN 1 ELSE 0)
    BY <2>1, <2>2 DEF Players, Opponent, X, O
  <2>4. Count(O)' = Count(O) + (IF m = O THEN 1 ELSE 0)
    BY <2>1, <2>2 DEF Players, Opponent, X, O
  <2>5. Len(match'.moves) = Count(X)' + Count(O)'
    BY <2>1, <2>2, <2>3, <2>4 DEF Counted, Players, X, O
  <2>6. match'.status = "in_progress" =>
          Count(X)' = Count(O)' + (IF match'.turn = X THEN 0 ELSE 1)
    BY <2>1, <2>2, <2>3, <2>4 DEF Counted, Players, Opponent, X, O, IsFinished
  <2> QED
    BY <1>1, <1>2, <2>5, <2>6 DEF Counted
<1>4. CASE UNCHANGED vars
  BY <1>1, <1>2, <1>4 DEF vars, Counted, Count
<1> QED
  BY <1>3, <1>4 DEF Next

(* The side that moves n-th and the statuses it can bring about.           *)
LEMMA ProgressMove ==
  ASSUME Counted, Counted', NEW p \in Person, NEW cell \in WireCells, ApplyMove(p, cell)
  PROVE  Summary!Next
<1> DEFINE m == MarkOf(p)
           b == match'.board
           n == Len(match'.moves)
<1>1. /\ m \in Players /\ match.turn = m /\ match.status = "in_progress"
      /\ match'.status = StatusOf(b)
      /\ Count(m)' = Count(m) + 1
      /\ Count(Opponent(m))' = Count(Opponent(m))
      /\ n = Len(match.moves) + 1
      /\ Winner(b) \in {Empty, m}
      /\ Winner(b) = m => TTT!HasLine(Owned(b, m))
  BY CountedMove
<1>2. /\ Count(X) \in Nat /\ Count(O) \in Nat
      /\ Count(X)' \in Nat /\ Count(O)' \in Nat
  BY TakenSquares DEF Counted, Inv, TypeOK, Count, Players
<1>3. /\ n = Count(X)' + Count(O)'
      /\ m = X => Count(X)' = Count(O)' + 1
      /\ m = O => Count(X)' = Count(O)'
  BY <1>1, <1>2 DEF Counted, Players, Opponent, X, O
<1>4. n \in Nat /\ Summary!MarkOfMove(n) = m
  <2>1. n \in Nat
    BY <1>2, <1>3
  <2>2. CASE m = X
    <3>1. n = 2 * Count(O)' + 1
      BY <1>2, <1>3, <2>2
    <3>2. n % 2 = 1
      BY <1>2, <3>1
    <3> QED
      BY <2>1, <2>2, <3>2 DEF Summary!MarkOfMove, X
  <2>3. CASE m = O
    <3>1. n = 2 * Count(O)'
      BY <1>2, <1>3, <2>3
    <3>2. n % 2 = 0
      BY <1>2, <3>1
    <3> HIDE DEF m, n
    <3> QED
      BY <2>1, <2>3, <3>2 DEF Summary!MarkOfMove, O
  <2> QED
    BY <1>1, <2>2, <2>3 DEF Players
<1>5. /\ IsFull(b) => n = BoardSize
      /\ ~IsFull(b) => n < BoardSize
  BY <1>3, TakenSquares DEF Counted, Inv, TypeOK, Count
<1>6. Winner(b) = m => n >= 5
  <2> SUFFICES ASSUME Winner(b) = m PROVE n >= 5
    OBVIOUS
  <2>1. Count(m)' >= 3
    BY <1>1, LineIsThree DEF Counted, Count
  <2> HIDE DEF m, n
  <2> QED
    BY <1>1, <1>2, <1>3, <2>1 DEF Players, X, O
<1>7. match'.status \in Summary!StatusAfter(n)
  <2>1. match'.status =
          CASE Winner(b) = X -> "x_won" [] Winner(b) = O -> "o_won"
            [] OTHER -> IF IsFull(b) THEN "draw" ELSE "in_progress"
    BY <1>1 DEF StatusOf
  <2> HIDE DEF b, m, n
  <2>2. CASE Winner(b) = m
    BY <1>1, <1>4, <1>6, <2>1, <2>2
       DEF Summary!StatusAfter, Summary!Statuses, Players, X, O
  <2>3. CASE Winner(b) = Empty
    BY <1>4, <1>5, <2>1, <2>3
       DEF Summary!StatusAfter, Summary!Statuses, Players, X, O, Empty
  <2> QED
    BY <1>1, <2>2, <2>3
<1> QED
  BY <1>1, <1>7 DEF Summary!Next

(* What Games assumes of a match holds of every one: it grows a move at a  *)
(* time, only the side that has just moved can have won, not before the    *)
(* fifth move, and it is over by the ninth.                                *)
THEOREM MatchImplementsProgress == Spec => ImplementsProgress
<1>1. Init => Summary!Init
  BY DEF Init, NewMatch, Summary!Init
<1>2. Counted /\ Counted' /\ [Next]_vars =>
        [Summary!Next]_<<Len(match.moves), match.status>>
  <2> SUFFICES ASSUME Counted, Counted', [Next]_vars
               PROVE  [Summary!Next]_<<Len(match.moves), match.status>>
    OBVIOUS
  <2>1. ASSUME NEW p \in Person, NEW cell \in WireCells, ApplyMove(p, cell)
        PROVE  Summary!Next
    BY <2>1, ProgressMove
  <2>2. CASE UNCHANGED vars
    BY <2>2 DEF vars
  <2> QED
    BY <2>1, <2>2 DEF Next
<1> QED
  BY <1>1, <1>2, CountedInit, CountedNext, PTL DEF Spec, ImplementsProgress, Summary!Spec

----------------------------------------------------------------------------
(* Replay.  A stored move is what decodeMoves yields: X or O and any cell. *)

StoredMove == [mark : Players, cell : Int]

(* What a replay can come to, Corrupt included.                            *)
Replays ==
  [board : Boards, turn : Players, status : Status \cup {"corrupt"}, moves : Seq(Move)]

LEMMA PlayerOfMark ==
  /\ \A m \in Players : MarkOf(PlayerOf(m)) = m
  /\ \A p : MarkOf(p) \in Players => MarkOf(PlayerOf(MarkOf(p))) = MarkOf(p)
  BY DistinctPlayers DEF MarkOf, PlayerOf, Players, X, O

(* A replayed move is refused, or placed and settled like any other.       *)
LEMMA ReplayedMove ==
  ASSUME NEW m \in Replays, NEW mv \in StoredMove
  PROVE  /\ Replay(m, mv) \in Replays
         /\ Replay(m, mv) # Corrupt <=>
              /\ m # Corrupt /\ m.status = "in_progress" /\ m.turn = mv.mark
              /\ mv.cell \in Cells /\ m.board[mv.cell] = Empty
         /\ Replay(m, mv) # Corrupt =>
              LET b == Set(m.board, mv.cell, mv.mark) IN
              Replay(m, mv) =
                [board |-> b,
                 turn |-> IF IsFinished(StatusOf(b)) THEN m.turn ELSE Opponent(mv.mark),
                 status |-> StatusOf(b),
                 moves |-> Append(m.moves, mv)]
<1> DEFINE p == PlayerOf(mv.mark)
           b == Set(m.board, mv.cell, mv.mark)
           ok == /\ m.status = "in_progress" /\ m.turn = mv.mark
                 /\ mv.cell \in Cells /\ m.board[mv.cell] = Empty
           n == [board |-> b,
                 turn |-> IF IsFinished(StatusOf(b)) THEN m.turn ELSE Opponent(mv.mark),
                 status |-> StatusOf(b),
                 moves |-> Append(m.moves, mv)]
<1>1. mv.mark \in Players /\ MarkOf(p) = mv.mark /\ mv.mark # Empty /\ mv.cell \in Int
      /\ mv = [mark |-> mv.mark, cell |-> mv.cell]
  BY PlayerOfMark DEF StoredMove, Players, X, O, Empty
<1>2. MoveError(m, p, mv.cell) = "none" <=> ok
  BY <1>1 DEF MoveError, SetError, IsFinished
<1>3. Played(m, p, mv.cell) = n
  BY <1>1 DEF Played
<1>4. Corrupt.status = "corrupt" /\ Corrupt \in Replays
  <2>1. NewMatch \in Replays
    BY EmptyBoard DEF NewMatch, Replays, Status, Players
  <2> QED
    BY <2>1 DEF Corrupt, Replays
<1>5. StatusOf(b) \in Status /\ "corrupt" \notin Status
  BY DEF StatusOf, Status
<1>6. n.status = StatusOf(b)
  OBVIOUS
<1>7. n # Corrupt
  BY <1>4, <1>5, <1>6
<1>8. ASSUME ok PROVE n \in Replays
  <2>1. b \in Boards
    BY <1>1, <1>8 DEF Boards, Set, Replays, Marks, Players
  <2>2. Opponent(mv.mark) \in Players /\ m.turn \in Players
    BY <1>1 DEF Opponent, Players, Replays
  <2>3. mv \in Move
    BY <1>1 DEF Move, Marks, Players
  <2>4. Append(m.moves, mv) \in Seq(Move)
    BY <2>3 DEF Replays
  <2> HIDE DEF b
  <2> QED
    BY <1>5, <2>1, <2>2, <2>4 DEF Replays
<1> HIDE DEF n, b, ok, p
<1>9. Replay(m, mv) = IF m # Corrupt /\ ok THEN n ELSE Corrupt
  BY <1>2, <1>3 DEF Replay, p
<1>10. /\ Replay(m, mv) \in Replays
       /\ Replay(m, mv) # Corrupt <=> m # Corrupt /\ ok
       /\ Replay(m, mv) # Corrupt => Replay(m, mv) = n
  BY <1>4, <1>7, <1>8, <1>9
<1> QED
  BY <1>10 DEF n, b, ok

(* The function FoldLeft is chosen by, for the history h.                  *)
Replayed(h, iter) ==
  iter = [s \in SUBSET DOMAIN h |->
            IF s = {} THEN NewMatch ELSE Replay(iter[s \ {Max(s)}], h[Max(s)])]

LEMMA ReplayChosen ==
  ASSUME NEW h \in Seq(StoredMove)
  PROVE  \E iter : Replayed(h, iter) /\ RestoreMatch(h) = iter[DOMAIN h]
<1> DEFINE n == Len(h)
           step == [i \in 1 .. n |-> [m \in Replays |-> Replay(m, h[i])]]
<1>1. n \in Nat /\ DOMAIN h = 1 .. n /\ \A i \in 1 .. n : h[i] \in StoredMove
  OBVIOUS
<1>2. step \in [1 .. n -> [Replays -> Replays]]
  BY <1>1, ReplayedMove
<1>3. NewMatch \in Replays
  BY EmptyBoard DEF NewMatch, Replays, Status, Players
<1>4. \A i \in 1 .. n, m \in Replays : step[i][m] = Replay(m, h[i])
  OBVIOUS
<1> HIDE DEF step, n
<1>5. PICK g \in [SUBSET (1 .. n) -> Replays] : IsFold(g, n, NewMatch, step)
  BY <1>1, <1>2, <1>3, FoldExists
<1>6. ASSUME NEW s \in SUBSET (1 .. n), s # {}
      PROVE  step[Max(s)][g[s \ {Max(s)}]] = Replay(g[s \ {Max(s)}], h[Max(s)])
  <2>1. Max(s) \in 1 .. n
    BY <1>1, <1>6, MaxOfSome
  <2>2. g[s \ {Max(s)}] \in Replays
    BY <1>5
  <2> QED
    BY <1>4, <2>1, <2>2
<1>7. [s \in SUBSET (1 .. n) |->
         IF s = {} THEN NewMatch ELSE step[Max(s)][g[s \ {Max(s)}]]]
      = [s \in SUBSET (1 .. n) |->
         IF s = {} THEN NewMatch ELSE Replay(g[s \ {Max(s)}], h[Max(s)])]
  BY <1>6
<1>8. Replayed(h, g)
  BY <1>1, <1>5, <1>7 DEF Replayed, IsFold
<1>9. RestoreMatch(h) = (CHOOSE iter : Replayed(h, iter))[DOMAIN h]
  BY DEF RestoreMatch, FoldLeft, MapThenFoldSet, Replayed
<1> QED
  BY <1>8, <1>9

(* RestoreMatch, one move after the other.                                 *)
LEMMA RestoreStep ==
  /\ RestoreMatch(<<>>) = NewMatch
  /\ \A h \in Seq(StoredMove), mv \in StoredMove :
       RestoreMatch(Append(h, mv)) = Replay(RestoreMatch(h), mv)
<1>1. RestoreMatch(<<>>) = NewMatch
  <2>1. <<>> \in Seq(StoredMove) /\ DOMAIN <<>> = {}
    OBVIOUS
  <2>2. PICK iter : Replayed(<<>>, iter) /\ RestoreMatch(<<>>) = iter[DOMAIN <<>>]
    BY <2>1, ReplayChosen
  <2> QED
    BY <2>1, <2>2 DEF Replayed
<1>2. ASSUME NEW h \in Seq(StoredMove), NEW mv \in StoredMove
      PROVE  RestoreMatch(Append(h, mv)) = Replay(RestoreMatch(h), mv)
  <2> DEFINE n == Len(h)
             e == Append(h, mv)
  <2>1. /\ n \in Nat /\ e \in Seq(StoredMove)
        /\ DOMAIN h = 1 .. n /\ DOMAIN e = 1 .. n + 1
        /\ e[n + 1] = mv /\ \A i \in 1 .. n : e[i] = h[i]
    OBVIOUS
  <2> HIDE DEF n, e
  <2>2. PICK f : Replayed(h, f) /\ RestoreMatch(h) = f[DOMAIN h]
    BY ReplayChosen
  <2>3. PICK g : Replayed(e, g) /\ RestoreMatch(e) = g[DOMAIN e]
    BY <2>1, ReplayChosen
  <2>4. \A s \in SUBSET (1 .. n) :
          f[s] = IF s = {} THEN NewMatch ELSE Replay(f[s \ {Max(s)}], h[Max(s)])
    BY <2>1, <2>2 DEF Replayed
  <2>5. \A s \in SUBSET (1 .. n + 1) :
          g[s] = IF s = {} THEN NewMatch ELSE Replay(g[s \ {Max(s)}], e[Max(s)])
    BY <2>1, <2>3 DEF Replayed
  <2> DEFINE S == {k \in Nat : k <= n => f[1 .. k] = g[1 .. k]}
  <2>6. 0 \in S
    <3>1. 1 .. 0 = {}
      OBVIOUS
    <3> QED
      BY <2>4, <2>5, <3>1
  <2>7. ASSUME NEW k \in Nat, k \in S PROVE k + 1 \in S
    <3> SUFFICES ASSUME k + 1 <= n PROVE f[1 .. k + 1] = g[1 .. k + 1]
      OBVIOUS
    <3>1. f[1 .. k] = g[1 .. k]
      BY <2>1, <2>7
    <3>2. /\ 1 .. k + 1 \in SUBSET (1 .. n) /\ 1 .. k + 1 \in SUBSET (1 .. n + 1)
          /\ 1 .. k + 1 # {} /\ k + 1 \in 1 .. n
      <4>1. k + 1 \in 1 .. n /\ k + 1 \in 1 .. k + 1
        BY <2>1
      <4>2. \A i \in 1 .. k + 1 : i \in 1 .. n /\ i \in 1 .. n + 1
        BY <2>1
      <4> QED
        BY <4>1, <4>2
    <3>3. Max(1 .. k + 1) = k + 1 /\ (1 .. k + 1) \ {k + 1} = 1 .. k
      BY MaxOfPrefix
    <3>4. f[1 .. k + 1] = Replay(f[1 .. k], h[k + 1])
      BY <2>4, <3>2, <3>3
    <3>5. g[1 .. k + 1] = Replay(g[1 .. k], e[k + 1])
      BY <2>5, <3>2, <3>3
    <3> QED
      BY <2>1, <3>1, <3>2, <3>4, <3>5
  <2> HIDE DEF S
  <2>8. n \in S
    BY <2>1, <2>6, <2>7, SetInduction
  <2>9. f[1 .. n] = g[1 .. n]
    BY <2>1, <2>8 DEF S
  <2>10. g[1 .. n + 1] = Replay(g[1 .. n], e[n + 1])
    <3>1. 1 .. n + 1 \in SUBSET (1 .. n + 1) /\ 1 .. n + 1 # {}
      BY <2>1
    <3>2. Max(1 .. n + 1) = n + 1 /\ (1 .. n + 1) \ {n + 1} = 1 .. n
      BY <2>1, MaxOfPrefix
    <3> QED
      BY <2>5, <3>1, <3>2
  <2> QED
    BY <2>1, <2>2, <2>3, <2>9, <2>10 DEF e
<1> QED
  BY <1>1, <1>2

----------------------------------------------------------------------------
(* Legal games.                                                            *)

Sorted(n) == IF n % 2 = 1 THEN X ELSE O

(* The cells m has taken in h, and those the mover of h[i] had by then.    *)
TakenBy(h, m) == {h[j].cell : j \in {k \in 1 .. Len(h) : h[k].mark = m}}
TakenUntil(h, i) == {h[j].cell : j \in {k \in 1 .. i : h[k].mark = h[i].mark}}

(* A legal game with one move less is legal, and a legal game is extended  *)
(* by the side to move, on a free cell, when the other side has no line.   *)
LEMMA LegalExtension ==
  ASSUME NEW h \in Seq(StoredMove), NEW mv \in StoredMove
  PROVE  LegalGame(Append(h, mv)) <=>
           /\ LegalGame(h)
           /\ mv.cell \in Cells
           /\ mv.mark = Sorted(Len(h) + 1)
           /\ \A i \in 1 .. Len(h) : h[i].cell # mv.cell
           /\ Len(h) > 0 => ~TTT!HasLine(TakenBy(h, h[Len(h)].mark))
<1> DEFINE n == Len(h)
           e == Append(h, mv)
<1>1. /\ n \in Nat /\ Len(e) = n + 1
      /\ e[n + 1] = mv /\ \A i \in 1 .. n : e[i] = h[i]
  OBVIOUS
<1>2. \A i \in 1 .. n : TakenUntil(e, i) = TakenUntil(h, i)
  <2> SUFFICES ASSUME NEW i \in 1 .. n PROVE TakenUntil(e, i) = TakenUntil(h, i)
    OBVIOUS
  <2>1. \A k \in 1 .. i : e[k] = h[k]
    BY <1>1
  <2>2. {k \in 1 .. i : e[k].mark = e[i].mark} = {k \in 1 .. i : h[k].mark = h[i].mark}
    BY <2>1
  <2> HIDE DEF e
  <2> QED
    BY <2>1, <2>2 DEF TakenUntil
<1>3. n > 0 => TakenUntil(h, n) = TakenBy(h, h[n].mark)
  BY DEF TakenUntil, TakenBy
<1> DEFINE Line3(s) == TTT!HasLine(s)
<1>4. LegalGame(h) <=>
        /\ \A i \in 1 .. n : h[i].cell \in Cells /\ h[i].mark = Sorted(i)
        /\ \A i, j \in 1 .. n : h[i].cell = h[j].cell => i = j
        /\ \A i \in 1 .. n - 1 : ~Line3(TakenUntil(h, i))
  BY DEF LegalGame, Sorted, TakenUntil
<1>5. LegalGame(e) <=>
        /\ \A i \in 1 .. Len(e) : e[i].cell \in Cells /\ e[i].mark = Sorted(i)
        /\ \A i, j \in 1 .. Len(e) : e[i].cell = e[j].cell => i = j
        /\ \A i \in 1 .. Len(e) - 1 : ~Line3(TakenUntil(e, i))
  <2> HIDE DEF e
  <2> QED
    BY DEF LegalGame, Sorted, TakenUntil
<1> HIDE DEF n, e, Line3
<1>6. (\A i \in 1 .. n + 1 : e[i].cell \in Cells /\ e[i].mark = Sorted(i))
      <=> /\ \A i \in 1 .. n : h[i].cell \in Cells /\ h[i].mark = Sorted(i)
          /\ mv.cell \in Cells /\ mv.mark = Sorted(n + 1)
  <2>1. \A i \in 1 .. n + 1 : i \in 1 .. n \/ i = n + 1
    BY <1>1
  <2>2. n + 1 \in 1 .. n + 1 /\ \A i \in 1 .. n : i \in 1 .. n + 1
    BY <1>1
  <2> QED
    BY <1>1, <2>1, <2>2
<1>7. (\A i, j \in 1 .. n + 1 : e[i].cell = e[j].cell => i = j)
      <=> /\ \A i, j \in 1 .. n : h[i].cell = h[j].cell => i = j
          /\ \A i \in 1 .. n : h[i].cell # mv.cell
  <2>1. \A i \in 1 .. n + 1 : i \in 1 .. n \/ i = n + 1
    BY <1>1
  <2>2. n + 1 \in 1 .. n + 1 /\ \A i \in 1 .. n : i \in 1 .. n + 1 /\ i # n + 1
    BY <1>1
  <2> QED
    BY <1>1, <2>1, <2>2
<1>8. (\A i \in 1 .. n : ~Line3(TakenUntil(e, i)))
      <=> /\ \A i \in 1 .. n - 1 : ~Line3(TakenUntil(h, i))
          /\ n > 0 => ~Line3(TakenBy(h, h[n].mark))
  <2>1. \A i \in 1 .. n : i \in 1 .. n - 1 \/ (i = n /\ n > 0)
    BY <1>1
  <2>2. \A i \in 1 .. n - 1 : i \in 1 .. n
    BY <1>1
  <2>3. n > 0 => n \in 1 .. n
    BY <1>1
  <2> QED
    BY <1>2, <1>3, <2>1, <2>2, <2>3
<1>9. Len(e) = n + 1 /\ Len(e) - 1 = n
  BY <1>1
<1> QED
  BY <1>4, <1>5, <1>6, <1>7, <1>8, <1>9 DEF n, e, Line3

(* What the replay of a legal game tells of it.                            *)
Faithful(r, h) ==
  /\ r.status = StatusOf(r.board)
  /\ r.moves = h
  /\ \A m \in Players : Owned(r.board, m) = TakenBy(h, m)
  /\ r.status = "in_progress" => r.turn = Sorted(Len(h) + 1)
  /\ Len(h) > 0 => /\ h[Len(h)].mark \in Players
                   /\ ~TTT!HasLine(Owned(r.board, Opponent(h[Len(h)].mark)))

Restored(h) ==
  LET r == RestoreMatch(h) IN
  /\ r \in Replays
  /\ r # Corrupt <=> LegalGame(h)
  /\ r # Corrupt => Faithful(r, h)

(* No moves are the new match, and a legal game.                            *)
LEMMA RestoredNone == Restored(<<>>)
<1>1. RestoreMatch(<<>>) = NewMatch
  BY RestoreStep
<1>2. NewMatch \in Replays /\ NewMatch.status = "in_progress" /\ NewMatch.turn = X
      /\ NewMatch.moves = <<>>
  BY EmptyBoard DEF NewMatch, Replays, Status, Players
<1>3. NewMatch # Corrupt
  <2>1. Corrupt.status = "corrupt"
    BY <1>2 DEF Corrupt, NewMatch
  <2> QED
    BY <1>2, <2>1
<1>4. LegalGame(<<>>)
  BY DEF LegalGame
<1>5. \A m \in Players : Owned(NewMatch.board, m) = TakenBy(<<>>, m)
  BY EmptyBoard DEF TakenBy
<1>6. StatusOf(NewMatch.board) = "in_progress"
  BY EmptyBoard DEF StatusOf, X, O, Empty
<1>7. Sorted(0 + 1) = X
  BY DEF Sorted
<1>8. Len(<<>>) = 0
  OBVIOUS
<1>9. Faithful(NewMatch, <<>>)
  BY <1>2, <1>5, <1>6, <1>7, <1>8 DEF Faithful
<1> QED
  BY <1>1, <1>2, <1>3, <1>4, <1>9 DEF Restored

(* One more stored move keeps a replay faithful to its history.            *)
LEMMA RestoredOneMore ==
  ASSUME NEW h \in Seq(StoredMove), NEW mv \in StoredMove, Restored(h)
  PROVE  Restored(Append(h, mv))
<1> DEFINE n == Len(h)
           e == Append(h, mv)
           r == RestoreMatch(h)
           q == RestoreMatch(e)
           b == Set(r.board, mv.cell, mv.mark)
<1>1. q = Replay(r, mv)
  BY RestoreStep
<1>2. /\ r \in Replays
      /\ r # Corrupt <=> LegalGame(h)
      /\ r # Corrupt => Faithful(r, h)
  BY DEF Restored
<1>3. /\ n \in Nat /\ Len(e) = n + 1 /\ e[n + 1] = mv
      /\ \A i \in 1 .. n : e[i] = h[i] /\ h[i] \in StoredMove
      /\ mv.mark \in Players /\ mv.cell \in Int
  <2>1. mv.mark \in Players /\ mv.cell \in Int
    BY DEF StoredMove
  <2> QED
    BY <2>1
<1> HIDE DEF r, n, q
<1>4. /\ q \in Replays
      /\ q # Corrupt <=>
           /\ r # Corrupt /\ r.status = "in_progress" /\ r.turn = mv.mark
           /\ mv.cell \in Cells /\ r.board[mv.cell] = Empty
      /\ q # Corrupt =>
           q = [board |-> b,
                turn |-> IF IsFinished(StatusOf(b)) THEN r.turn ELSE Opponent(mv.mark),
                status |-> StatusOf(b),
                moves |-> e]
  BY <1>1, <1>2, ReplayedMove DEF Faithful
<1>5. LegalGame(e) <=>
        /\ r # Corrupt
        /\ mv.cell \in Cells /\ mv.mark = Sorted(n + 1)
        /\ \A i \in 1 .. n : h[i].cell # mv.cell
        /\ n > 0 => ~TTT!HasLine(TakenBy(h, h[n].mark))
  BY <1>2, LegalExtension DEF n
<1> HIDE DEF e
<1>6. ASSUME r # Corrupt
      PROVE  /\ r.board \in Boards /\ r.status = StatusOf(r.board)
             /\ \A m \in Players : Owned(r.board, m) = TakenBy(h, m)
             /\ r.status = "in_progress" => r.turn = Sorted(n + 1)
             /\ n > 0 => /\ h[n].mark \in Players
                         /\ ~TTT!HasLine(Owned(r.board, Opponent(h[n].mark)))
             /\ r.moves = h
  BY <1>2, <1>6 DEF Faithful, Replays, n
<1>7. ASSUME r # Corrupt, mv.cell \in Cells
      PROVE  (\A i \in 1 .. n : h[i].cell # mv.cell) <=> r.board[mv.cell] = Empty
  <2>1. \A m \in Players : mv.cell \in TakenBy(h, m) <=>
          \E i \in 1 .. n : h[i].cell = mv.cell /\ h[i].mark = m
    BY DEF TakenBy, n
  <2>2. \A i \in 1 .. n : h[i].mark \in Players
    BY <1>3 DEF StoredMove
  <2>3. (\E i \in 1 .. n : h[i].cell = mv.cell) <=> \E m \in Players : mv.cell \in TakenBy(h, m)
    BY <2>1, <2>2
  <2>4. r.board[mv.cell] # Empty <=> \E m \in Players : mv.cell \in Owned(r.board, m)
    BY <1>6, <1>7 DEF Owned, Boards, Marks, Players, X, O, Empty
  <2> QED
    BY <1>6, <1>7, <2>3, <2>4
<1>8. ASSUME r # Corrupt, r.status # "in_progress"
      PROVE  ~LegalGame(e)
  <2>1. CASE Winner(r.board) \in Players
    <3>1. TTT!HasLine(Owned(r.board, Winner(r.board)))
      BY <1>6, <1>8, <2>1, WinnerOwnsALine DEF Players, X, O, Empty
    <3>2. n > 0
      <4>1. SUFFICES ASSUME n = 0 PROVE FALSE
        BY <1>3
      <4>2. TakenBy(h, Winner(r.board)) = {}
        BY <4>1 DEF TakenBy, n
      <4> QED
        BY <1>6, <1>8, <2>1, <3>1, <4>2 DEF TTT!HasLine, TTT!Lines
    <3>3. Winner(r.board) = h[n].mark
      BY <1>6, <1>8, <2>1, <3>1, <3>2 DEF Opponent, Players, X, O
    <3> QED
      BY <1>5, <1>6, <1>8, <2>1, <3>1, <3>2, <3>3
  <2>2. CASE Winner(r.board) \notin Players
    <3>1. Winner(r.board) = Empty
      BY <1>6, <1>8, <2>2, WinnerOwnsALine DEF Marks, Players
    <3>2. IsFull(r.board)
      BY <1>6, <1>8, <3>1 DEF StatusOf, X, O, Empty
    <3> QED
      BY <1>5, <1>7, <1>8, <3>2 DEF IsFull
  <2> QED
    BY <2>1, <2>2
<1>9. ASSUME r # Corrupt, r.status = "in_progress"
      PROVE  LegalGame(e) <=> q # Corrupt
  <2>1. Winner(r.board) = Empty
    BY <1>6, <1>9, WinnerOwnsALine DEF StatusOf, Marks
  <2>2. n > 0 => ~TTT!HasLine(TakenBy(h, h[n].mark))
    BY <1>6, <1>9, <2>1, WinnerOwnsALine
  <2> QED
    BY <1>4, <1>5, <1>6, <1>7, <1>9, <2>2
<1>10. q # Corrupt <=> LegalGame(e)
  BY <1>4, <1>5, <1>8, <1>9
<1>11. ASSUME q # Corrupt PROVE Faithful(q, e)
  <2>1. /\ r # Corrupt /\ r.status = "in_progress" /\ r.turn = mv.mark
        /\ mv.cell \in Cells /\ r.board[mv.cell] = Empty
        /\ q.board = b /\ q.status = StatusOf(b) /\ q.moves = e
        /\ q.turn = IF IsFinished(StatusOf(b)) THEN r.turn ELSE Opponent(mv.mark)
    BY <1>4, <1>11
  <2>2. Winner(r.board) = Empty
    BY <1>6, <2>1, WinnerOwnsALine DEF StatusOf, Marks
  <2>3. /\ Owned(b, mv.mark) = Owned(r.board, mv.mark) \cup {mv.cell}
        /\ Owned(b, Opponent(mv.mark)) = Owned(r.board, Opponent(mv.mark))
        /\ ~TTT!HasLine(Owned(b, Opponent(mv.mark)))
    BY <1>3, <1>6, <2>1, <2>2, SettledMove
  <2>4. ASSUME NEW m \in Players, NEW c
        PROVE  c \in TakenBy(e, m) <=> c \in TakenBy(h, m) \/ (m = mv.mark /\ c = mv.cell)
    <3>1. c \in TakenBy(h, m) <=> \E i \in 1 .. n : h[i].mark = m /\ h[i].cell = c
      BY DEF TakenBy, n
    <3>2. c \in TakenBy(e, m) <=> \E i \in 1 .. n + 1 : e[i].mark = m /\ e[i].cell = c
      BY <1>3 DEF TakenBy
    <3>3. \A i \in 1 .. n + 1 : i \in 1 .. n \/ i = n + 1
      BY <1>3
    <3>4. n + 1 \in 1 .. n + 1 /\ \A i \in 1 .. n : i \in 1 .. n + 1
      BY <1>3
    <3>5. \A i \in 1 .. n : e[i].mark = h[i].mark /\ e[i].cell = h[i].cell
      BY <1>3
    <3>6. e[n + 1].mark = mv.mark /\ e[n + 1].cell = mv.cell
      BY <1>3
    <3> HIDE DEF b
    <3>7. ASSUME NEW i \in 1 .. n + 1, e[i].mark = m, e[i].cell = c
          PROVE  c \in TakenBy(h, m) \/ (m = mv.mark /\ c = mv.cell)
      BY <3>1, <3>3, <3>5, <3>6, <3>7
    <3>8. ASSUME NEW i \in 1 .. n, h[i].mark = m, h[i].cell = c
          PROVE  c \in TakenBy(e, m)
      BY <3>2, <3>4, <3>5, <3>8
    <3>9. m = mv.mark /\ c = mv.cell => c \in TakenBy(e, m)
      BY <3>2, <3>4, <3>6
    <3> QED
      BY <3>1, <3>2, <3>7, <3>8, <3>9
  <2>5. \A m \in Players : Owned(b, m) = TakenBy(e, m)
    <3> SUFFICES ASSUME NEW m \in Players PROVE Owned(b, m) = TakenBy(e, m)
      OBVIOUS
    <3>1. m = mv.mark \/ (m = Opponent(mv.mark) /\ Opponent(mv.mark) # mv.mark)
      BY <1>3 DEF Players, Opponent, X, O
    <3>2. Owned(r.board, m) = TakenBy(h, m)
      BY <1>6, <2>1
    <3>3. \A c : c \in Owned(b, m) <=> c \in TakenBy(h, m) \/ (m = mv.mark /\ c = mv.cell)
      BY <2>3, <3>1, <3>2
    <3>4. \A c : c \in Owned(b, m) <=> c \in TakenBy(e, m)
      BY <2>4, <3>3
    <3> HIDE DEF b
    <3> QED
      BY <3>4
  <2>6. StatusOf(b) = "in_progress" => q.turn = Sorted(n + 1 + 1)
    <3>1. mv.mark = Sorted(n + 1)
      BY <1>6, <2>1
    <3>2. Opponent(Sorted(n + 1)) = Sorted(n + 1 + 1)
      <4>1. \A k \in Nat : k % 2 = 1 <=> (k + 1) % 2 # 1
        OBVIOUS
      <4>2. n + 1 \in Nat
        BY <1>3
      <4>3. (n + 1) % 2 = 1 <=> (n + 1 + 1) % 2 # 1
        BY <4>1, <4>2
      <4> QED
        BY <4>3 DEF Sorted, Opponent, X, O
    <3> HIDE DEF b
    <3> QED
      BY <2>1, <3>1, <3>2 DEF IsFinished
  <2> HIDE DEF b
  <2> QED
    BY <1>3, <2>1, <2>3, <2>5, <2>6 DEF Faithful
<1> QED
  BY <1>4, <1>10, <1>11 DEF Restored, q, e

(* Every stored history, of whatever length, is replayed faithfully.       *)
LEMMA HistoryRestored ==
  \A h \in Seq(StoredMove) : Restored(h)
<1> DEFINE S == {n \in Nat : \A h \in Seq(StoredMove) : Len(h) = n => Restored(h)}
<1>1. 0 \in S
  <2>1. \A h \in Seq(StoredMove) : Len(h) = 0 => h = <<>>
    OBVIOUS
  <2> QED
    BY <2>1, RestoredNone
<1>2. ASSUME NEW n \in Nat, n \in S PROVE n + 1 \in S
  <2> SUFFICES ASSUME NEW h \in Seq(StoredMove), Len(h) = n + 1
               PROVE  Restored(h)
    OBVIOUS
  <2>1. h # <<>>
    OBVIOUS
  <2>2. PICK g \in Seq(StoredMove), mv \in StoredMove : h = Append(g, mv)
    BY <2>1, SequenceEmptyOrAppend
  <2>3. Len(g) = n
    BY <2>2
  <2>4. Restored(g)
    BY <1>2, <2>3
  <2> QED
    BY <2>2, <2>4, RestoredOneMore
<1> HIDE DEF S
<1>3. \A n \in Nat : n \in S
  BY <1>1, <1>2, SetInduction
<1> QED
  <2>1. \A h \in Seq(StoredMove) : Len(h) \in S
    BY <1>3
  <2> QED
    BY <2>1 DEF S

(* RestoreMatch accepts a stored history, of whatever length and whatever  *)
(* moves, exactly when it is a legal game of tic-tac-toe, and what it      *)
(* rebuilds holds that history and the status its board has.               *)
THEOREM RestoreIsExact ==
  \A h \in Seq([mark : Players, cell : Int]) :
    /\ RestoreMatch(h) # Corrupt <=> LegalGame(h)
    /\ LegalGame(h) => /\ RestoreMatch(h).moves = h
                       /\ RestoreMatch(h).status = StatusOf(RestoreMatch(h).board)
BY HistoryRestored DEF StoredMove, Restored, Faithful

----------------------------------------------------------------------------
(* Texts, one character after the other.                                   *)

(* The function FlattenSeq is chosen by.                                   *)
Flattened(seqs, f) ==
  f = [i \in 1 .. Len(seqs) |-> IF i = 1 THEN seqs[i] ELSE f[i - 1] \o seqs[i]]

(* FlattenSeq is the last value of that function.                          *)
LEMMA FlattenChosen ==
  ASSUME NEW C, NEW seqs \in Seq(Seq(C)), seqs # <<>>
  PROVE  \E f : Flattened(seqs, f) /\ FlattenSeq(seqs) = f[Len(seqs)]
<1> DEFINE n == Len(seqs)
           step == [i \in 1 + 1 .. n |-> [s \in Seq(C) |-> s \o seqs[i]]]
<1>1. n \in Nat /\ n >= 1 /\ \A i \in 1 .. n : seqs[i] \in Seq(C)
  OBVIOUS
<1>2. step \in [1 + 1 .. n -> [Seq(C) -> Seq(C)]]
  <2>1. \A i \in 1 + 1 .. n : seqs[i] \in Seq(C)
    BY <1>1
  <2>2. \A i \in 1 + 1 .. n : [s \in Seq(C) |-> s \o seqs[i]] \in [Seq(C) -> Seq(C)]
    BY <2>1
  <2> QED
    BY <2>2
<1>3. \A i \in 1 + 1 .. n : \A s \in Seq(C) : step[i][s] = s \o seqs[i]
  OBVIOUS
<1>4. 1 \in Int /\ n \in Int /\ 1 <= n /\ seqs[1] \in Seq(C)
  BY <1>1
<1> HIDE DEF step, n
<1>5. PICK f \in [1 .. n -> Seq(C)] : IsRecursion(f, 1, n, seqs[1], step)
  BY <1>2, <1>4, RecursionExists
<1>6. ASSUME NEW i \in 1 .. n, i # 1 PROVE step[i][f[i - 1]] = f[i - 1] \o seqs[i]
  <2>1. i \in 1 + 1 .. n /\ i - 1 \in 1 .. n
    BY <1>4, <1>6
  <2>2. f[i - 1] \in Seq(C)
    BY <2>1
  <2> QED
    BY <1>3, <2>1, <2>2
<1>7. [i \in 1 .. n |-> IF i = 1 THEN seqs[1] ELSE step[i][f[i - 1]]]
      = [i \in 1 .. n |-> IF i = 1 THEN seqs[i] ELSE f[i - 1] \o seqs[i]]
  BY <1>6
<1>8. Flattened(seqs, f)
  BY <1>5, <1>7 DEF Flattened, IsRecursion, n
<1>9. FlattenSeq(seqs) = (CHOOSE g : Flattened(seqs, g))[Len(seqs)]
  BY <1>1 DEF FlattenSeq, Flattened, n
<1> QED
  BY <1>8, <1>9

(* Texts joined, one text after the other.                                 *)
LEMMA FlattenStep ==
  ASSUME NEW C
  PROVE  /\ FlattenSeq(<<>>) = <<>>
         /\ \A seqs \in Seq(Seq(C)), s \in Seq(C) :
              FlattenSeq(Append(seqs, s)) = FlattenSeq(seqs) \o s
<1>1. FlattenSeq(<<>>) = <<>>
  BY DEF FlattenSeq
<1>2. ASSUME NEW seqs \in Seq(Seq(C)), NEW s \in Seq(C)
      PROVE  FlattenSeq(Append(seqs, s)) = FlattenSeq(seqs) \o s
  <2> DEFINE n == Len(seqs)
             e == Append(seqs, s)
  <2>1. /\ n \in Nat /\ e \in Seq(Seq(C)) /\ Len(e) = n + 1 /\ e # <<>>
        /\ e[n + 1] = s /\ \A i \in 1 .. n : e[i] = seqs[i]
    <3>1. n \in Nat /\ e \in Seq(Seq(C)) /\ Len(e) = n + 1
      OBVIOUS
    <3>2. e[n + 1] = s /\ \A i \in 1 .. n : e[i] = seqs[i]
      OBVIOUS
    <3> HIDE DEF e
    <3>3. e # <<>>
      BY <3>1
    <3> QED
      BY <3>1, <3>2, <3>3
  <2> HIDE DEF e
  <2>2. PICK g : Flattened(e, g) /\ FlattenSeq(e) = g[Len(e)]
    BY <2>1, FlattenChosen
  <2>3. \A i \in 1 .. n + 1 : g[i] = IF i = 1 THEN e[i] ELSE g[i - 1] \o e[i]
    BY <2>1, <2>2 DEF Flattened
  <2>4. n + 1 \in 1 .. n + 1
    BY <2>1
  <2>5. CASE seqs = <<>>
    <3>1. n = 0
      BY <2>5
    <3>2. FlattenSeq(e) = s
      BY <2>1, <2>2, <2>3, <2>4, <3>1
    <3>3. FlattenSeq(seqs) \o s = s
      BY <1>1, <2>5
    <3> QED
      BY <3>2, <3>3 DEF e
  <2>6. CASE seqs # <<>>
    <3>1. n >= 1
      BY <2>6
    <3>2. PICK f : Flattened(seqs, f) /\ FlattenSeq(seqs) = f[n]
      BY <2>6, FlattenChosen
    <3>3. \A i \in 1 .. n : f[i] = IF i = 1 THEN seqs[i] ELSE f[i - 1] \o seqs[i]
      BY <3>2 DEF Flattened
    <3> DEFINE S == {k \in Nat : 1 <= k /\ k <= n => f[k] = g[k]}
    <3>4. 0 \in S
      OBVIOUS
    <3>5. ASSUME NEW k \in Nat, k \in S PROVE k + 1 \in S
      <4> SUFFICES ASSUME k + 1 <= n PROVE f[k + 1] = g[k + 1]
        OBVIOUS
      <4>1. k + 1 \in 1 .. n /\ k + 1 \in 1 .. n + 1 /\ (k + 1) - 1 = k
        BY <2>1
      <4>2. e[k + 1] = seqs[k + 1]
        BY <2>1, <4>1
      <4>3. f[k + 1] = IF k + 1 = 1 THEN seqs[k + 1] ELSE f[k] \o seqs[k + 1]
        BY <3>3, <4>1
      <4>4. g[k + 1] = IF k + 1 = 1 THEN e[k + 1] ELSE g[k] \o e[k + 1]
        BY <2>3, <4>1
      <4>5. k + 1 # 1 => f[k] = g[k]
        BY <3>5, <4>1
      <4> QED
        BY <4>2, <4>3, <4>4, <4>5
    <3> HIDE DEF S
    <3>6. n \in S
      BY <2>1, <3>4, <3>5, SetInduction
    <3>7. f[n] = g[n]
      BY <2>1, <3>1, <3>6 DEF S
    <3>8. g[n + 1] = g[n] \o s
      <4>1. n + 1 # 1 /\ (n + 1) - 1 = n
        BY <2>1, <3>1
      <4> QED
        BY <2>1, <2>3, <2>4, <4>1
    <3> QED
      BY <2>1, <2>2, <3>2, <3>7, <3>8 DEF e
  <2> QED
    BY <2>5, <2>6
<1> QED
  BY <1>1, <1>2

(* The parts of a text that ends with one character more.                  *)
OneMore(parts, c) ==
  IF c = "," THEN Append(parts, <<>>) ELSE [parts EXCEPT ![Len(parts)] = Append(@, c)]

(* The function Split is chosen by: the parts of every prefix of a text.   *)
Splits(text, f) ==
  f = [i \in 0 .. Len(text) |-> IF i = 0 THEN << <<>> >> ELSE OneMore(f[i - 1], text[i])]

Parts(C) == Seq(Seq(C)) \ {<<>>}

(* One character more leaves at least one part.                            *)
LEMMA OneMorePart ==
  ASSUME NEW C, NEW parts \in Parts(C), NEW c \in C
  PROVE  OneMore(parts, c) \in Parts(C)
<1>1. parts \in Seq(Seq(C)) /\ Len(parts) \in Nat /\ Len(parts) >= 1
  BY DEF Parts
<1>2. CASE c = ","
  <2>1. <<>> \in Seq(C)
    OBVIOUS
  <2>2. Append(parts, <<>>) \in Seq(Seq(C)) /\ Append(parts, <<>>) # <<>>
    BY <1>1, <2>1
  <2> QED
    BY <1>2, <2>2 DEF OneMore, Parts
<1>3. CASE c # ","
  <2>1. parts[Len(parts)] \in Seq(C)
    BY <1>1
  <2>2. Append(parts[Len(parts)], c) \in Seq(C)
    BY <2>1
  <2> DEFINE q == [parts EXCEPT ![Len(parts)] = Append(@, c)]
  <2>3. q \in Seq(Seq(C)) /\ Len(q) = Len(parts)
    BY <1>1, <2>2
  <2>4. q # <<>>
    BY <1>1, <2>3
  <2> QED
    BY <1>3, <2>3, <2>4 DEF OneMore, Parts
<1> QED
  BY <1>2, <1>3

(* Split is the last value of that function.                               *)
LEMMA SplitChosen ==
  ASSUME NEW C, NEW text \in Seq(C)
  PROVE  \E f : /\ Splits(text, f) /\ Split(text) = f[Len(text)]
<1> DEFINE n == Len(text)
           step == [i \in 0 + 1 .. n |-> [p \in Parts(C) |-> OneMore(p, text[i])]]
<1>1. n \in Nat /\ \A i \in 1 .. n : text[i] \in C
  OBVIOUS
<1>2. step \in [0 + 1 .. n -> [Parts(C) -> Parts(C)]]
  <2>1. \A i \in 0 + 1 .. n : text[i] \in C
    BY <1>1
  <2>2. \A i \in 0 + 1 .. n : [p \in Parts(C) |-> OneMore(p, text[i])] \in [Parts(C) -> Parts(C)]
    BY <2>1, OneMorePart
  <2> QED
    BY <2>2
<1>3. \A i \in 0 + 1 .. n : \A p \in Parts(C) : step[i][p] = OneMore(p, text[i])
  OBVIOUS
<1>4. 0 \in Int /\ n \in Int /\ 0 <= n
  BY <1>1
<1>5. << <<>> >> \in Parts(C)
  BY DEF Parts
<1> HIDE DEF step, n
<1>6. PICK f \in [0 .. n -> Parts(C)] : IsRecursion(f, 0, n, << <<>> >>, step)
  BY <1>2, <1>4, <1>5, RecursionExists
<1>7. ASSUME NEW i \in 0 .. n, i # 0 PROVE step[i][f[i - 1]] = OneMore(f[i - 1], text[i])
  BY <1>3, <1>4, <1>7
<1>8. [i \in 0 .. n |-> IF i = 0 THEN << <<>> >> ELSE step[i][f[i - 1]]]
      = [i \in 0 .. n |-> IF i = 0 THEN << <<>> >> ELSE OneMore(f[i - 1], text[i])]
  BY <1>7
<1>9. Splits(text, f)
  BY <1>6, <1>8 DEF Splits, IsRecursion, n
<1>10. Split(text) = (CHOOSE g : Splits(text, g))[Len(text)]
  BY DEF Split, Splits, OneMore
<1> QED
  BY <1>9, <1>10

(* Split, one character after the other.                                   *)
LEMMA SplitStep ==
  ASSUME NEW C
  PROVE  /\ Split(<<>>) = << <<>> >>
         /\ \A text \in Seq(C), c \in C : Split(Append(text, c)) = OneMore(Split(text), c)
<1>1. Split(<<>>) = << <<>> >>
  <2>1. <<>> \in Seq(C) /\ Len(<<>>) = 0
    OBVIOUS
  <2>2. PICK f : Splits(<<>>, f) /\ Split(<<>>) = f[Len(<<>>)]
    BY <2>1, SplitChosen
  <2> QED
    BY <2>1, <2>2 DEF Splits
<1>2. ASSUME NEW text \in Seq(C), NEW c \in C
      PROVE  Split(Append(text, c)) = OneMore(Split(text), c)
  <2> DEFINE n == Len(text)
             e == Append(text, c)
  <2>1. /\ n \in Nat /\ e \in Seq(C) /\ Len(e) = n + 1
        /\ e[n + 1] = c /\ \A i \in 1 .. n : e[i] = text[i]
    OBVIOUS
  <2> HIDE DEF e
  <2>2. PICK g : Splits(e, g) /\ Split(e) = g[Len(e)]
    BY <2>1, SplitChosen
  <2>3. PICK f : Splits(text, f) /\ Split(text) = f[n]
    BY SplitChosen
  <2>4. \A i \in 0 .. n + 1 : g[i] = IF i = 0 THEN << <<>> >> ELSE OneMore(g[i - 1], e[i])
    BY <2>1, <2>2 DEF Splits
  <2>5. \A i \in 0 .. n : f[i] = IF i = 0 THEN << <<>> >> ELSE OneMore(f[i - 1], text[i])
    BY <2>3 DEF Splits
  <2> DEFINE S == {k \in Nat : k <= n => f[k] = g[k]}
  <2>6. 0 \in S
    BY <2>1, <2>4, <2>5
  <2>7. ASSUME NEW k \in Nat, k \in S PROVE k + 1 \in S
    <3> SUFFICES ASSUME k + 1 <= n PROVE f[k + 1] = g[k + 1]
      OBVIOUS
    <3>1. k + 1 \in 0 .. n /\ k + 1 \in 1 .. n /\ k + 1 \in 0 .. n + 1 /\ k + 1 # 0
          /\ (k + 1) - 1 = k /\ f[k] = g[k]
      BY <2>1, <2>7
    <3> QED
      BY <2>1, <2>4, <2>5, <3>1
  <2> HIDE DEF S
  <2>8. n \in S
    BY <2>1, <2>6, <2>7, SetInduction
  <2>9. f[n] = g[n]
    BY <2>1, <2>8 DEF S
  <2>10. n + 1 \in 0 .. n + 1 /\ n + 1 # 0 /\ (n + 1) - 1 = n
    BY <2>1
  <2> QED
    BY <2>1, <2>2, <2>3, <2>4, <2>9, <2>10 DEF e
<1> QED
  BY <1>1, <1>2

----------------------------------------------------------------------------
(* Digits.                                                                 *)

Digit == ToSet(digits)

(* Ten digits, each with its own value.                                    *)
LEMMA Digits ==
  /\ Digit = {"0", "1", "2", "3", "4", "5", "6", "7", "8", "9"}
  /\ \A d \in 0 .. 9 : digits[d + 1] \in Digit /\ valueOf(digits[d + 1]) = d
  /\ \A c \in Digit : valueOf(c) \in 0 .. 9 /\ digits[valueOf(c) + 1] = c
<1>1. DOMAIN digits = 1 .. 10
  BY DEF digits
<1>2. /\ digits[1] = "0" /\ digits[2] = "1" /\ digits[3] = "2" /\ digits[4] = "3"
      /\ digits[5] = "4" /\ digits[6] = "5" /\ digits[7] = "6" /\ digits[8] = "7"
      /\ digits[9] = "8" /\ digits[10] = "9"
  BY DEF digits
<1>3. \A i \in 1 .. 10 : i = 1 \/ i = 2 \/ i = 3 \/ i = 4 \/ i = 5
                      \/ i = 6 \/ i = 7 \/ i = 8 \/ i = 9 \/ i = 10
  OBVIOUS
<1>4. Digit = {digits[i] : i \in 1 .. 10}
  BY <1>1 DEF Digit, ToSet
<1>5. \A i, j \in 1 .. 10 : digits[i] = digits[j] => i = j
  BY <1>2, <1>3
<1>6. \A d, e \in 0 .. 9 : digits[d + 1] = digits[e + 1] => d = e
  <2>1. \A d \in 0 .. 9 : d + 1 \in 1 .. 10
    OBVIOUS
  <2> QED
    BY <1>5, <2>1
<1>7. ASSUME NEW d \in 0 .. 9
      PROVE  digits[d + 1] \in Digit /\ valueOf(digits[d + 1]) = d
  <2>1. d + 1 \in 1 .. 10
    OBVIOUS
  <2>2. valueOf(digits[d + 1]) = d
    BY <1>6 DEF valueOf
  <2> QED
    BY <1>4, <2>1, <2>2
<1>8. ASSUME NEW c \in Digit PROVE valueOf(c) \in 0 .. 9 /\ digits[valueOf(c) + 1] = c
  <2>1. PICK i \in 1 .. 10 : c = digits[i]
    BY <1>4
  <2>2. i - 1 \in 0 .. 9 /\ (i - 1) + 1 = i
    OBVIOUS
  <2>3. \E d \in 0 .. 9 : digits[d + 1] = c
    BY <2>1, <2>2
  <2> QED
    BY <2>3 DEF valueOf
<1>9. Digit = {"0", "1", "2", "3", "4", "5", "6", "7", "8", "9"}
  <2>1. 1 \in 1 .. 10 /\ 2 \in 1 .. 10 /\ 3 \in 1 .. 10 /\ 4 \in 1 .. 10 /\ 5 \in 1 .. 10
        /\ 6 \in 1 .. 10 /\ 7 \in 1 .. 10 /\ 8 \in 1 .. 10 /\ 9 \in 1 .. 10 /\ 10 \in 1 .. 10
    OBVIOUS
  <2>2. \A c \in Digit : c \in {"0", "1", "2", "3", "4", "5", "6", "7", "8", "9"}
    BY <1>2, <1>3, <1>4
  <2>3. \A c \in {"0", "1", "2", "3", "4", "5", "6", "7", "8", "9"} : c \in Digit
    BY <1>2, <1>4, <2>1
  <2> QED
    BY <2>2, <2>3
<1> QED
  BY <1>7, <1>8, <1>9

(* The number a text of digits stands for.                                 *)
Number(s) == FoldLeft(addDigit, 0, s)

(* The function that FoldLeft is chosen by, for the digits s.              *)
Added(s, iter) ==
  iter = [r \in SUBSET DOMAIN s |->
            IF r = {} THEN 0 ELSE addDigit(iter[r \ {Max(r)}], s[Max(r)])]

(* The number is the last value of that function.                          *)
LEMMA AddChosen ==
  ASSUME NEW s \in Seq(Digit)
  PROVE  \E iter : Added(s, iter) /\ Number(s) = iter[DOMAIN s]
<1> DEFINE n == Len(s)
           step == [i \in 1 .. n |-> [v \in Nat |-> addDigit(v, s[i])]]
<1>1. n \in Nat /\ DOMAIN s = 1 .. n /\ \A i \in 1 .. n : s[i] \in Digit
  OBVIOUS
<1>2. \A v \in Nat, c \in Digit : addDigit(v, c) \in Nat
  <2>1. \A c \in Digit : valueOf(c) \in Nat
    BY Digits
  <2> QED
    BY <2>1 DEF addDigit
<1>3. step \in [1 .. n -> [Nat -> Nat]]
  <2>1. \A i \in 1 .. n : [v \in Nat |-> addDigit(v, s[i])] \in [Nat -> Nat]
    BY <1>1, <1>2
  <2> QED
    BY <2>1, Zenon
<1>4. \A i \in 1 .. n, v \in Nat : step[i][v] = addDigit(v, s[i])
  OBVIOUS
<1>5. 0 \in Nat
  OBVIOUS
<1> HIDE DEF step, n
<1>6. PICK g \in [SUBSET (1 .. n) -> Nat] : IsFold(g, n, 0, step)
  BY <1>1, <1>3, <1>5, FoldExists
<1>7. ASSUME NEW r \in SUBSET (1 .. n), r # {}
      PROVE  step[Max(r)][g[r \ {Max(r)}]] = addDigit(g[r \ {Max(r)}], s[Max(r)])
  <2>1. Max(r) \in 1 .. n
    BY <1>1, <1>7, MaxOfSome
  <2>2. g[r \ {Max(r)}] \in Nat
    BY <1>6
  <2> QED
    BY <1>4, <2>1, <2>2
<1>8. [r \in SUBSET (1 .. n) |-> IF r = {} THEN 0 ELSE step[Max(r)][g[r \ {Max(r)}]]]
      = [r \in SUBSET (1 .. n) |-> IF r = {} THEN 0 ELSE addDigit(g[r \ {Max(r)}], s[Max(r)])]
  BY <1>7
<1>9. Added(s, g)
  BY <1>1, <1>6, <1>8 DEF Added, IsFold
<1>10. Number(s) = (CHOOSE iter : Added(s, iter))[DOMAIN s]
  BY DEF Number, FoldLeft, MapThenFoldSet, Added
<1> QED
  BY <1>9, <1>10

(* A number, one digit after the other.                                    *)
LEMMA NumberStep ==
  /\ Number(<<>>) = 0
  /\ \A s \in Seq(Digit), c \in Digit : Number(Append(s, c)) = addDigit(Number(s), c)
<1>1. Number(<<>>) = 0
  <2>1. <<>> \in Seq(Digit) /\ DOMAIN <<>> = {}
    OBVIOUS
  <2>2. PICK iter : Added(<<>>, iter) /\ Number(<<>>) = iter[DOMAIN <<>>]
    BY <2>1, AddChosen
  <2> QED
    BY <2>1, <2>2 DEF Added
<1>2. ASSUME NEW s \in Seq(Digit), NEW c \in Digit
      PROVE  Number(Append(s, c)) = addDigit(Number(s), c)
  <2> DEFINE n == Len(s)
             e == Append(s, c)
  <2>1. /\ n \in Nat /\ e \in Seq(Digit)
        /\ DOMAIN s = 1 .. n /\ DOMAIN e = 1 .. n + 1
        /\ e[n + 1] = c /\ \A i \in 1 .. n : e[i] = s[i]
    OBVIOUS
  <2> HIDE DEF n, e
  <2>2. PICK f : Added(s, f) /\ Number(s) = f[DOMAIN s]
    BY AddChosen
  <2>3. PICK g : Added(e, g) /\ Number(e) = g[DOMAIN e]
    BY <2>1, AddChosen
  <2>4. \A r \in SUBSET (1 .. n) :
          f[r] = IF r = {} THEN 0 ELSE addDigit(f[r \ {Max(r)}], s[Max(r)])
    BY <2>1, <2>2 DEF Added
  <2>5. \A r \in SUBSET (1 .. n + 1) :
          g[r] = IF r = {} THEN 0 ELSE addDigit(g[r \ {Max(r)}], e[Max(r)])
    BY <2>1, <2>3 DEF Added
  <2> DEFINE S == {k \in Nat : k <= n => f[1 .. k] = g[1 .. k]}
  <2>6. 0 \in S
    <3>1. 1 .. 0 = {}
      OBVIOUS
    <3> QED
      BY <2>4, <2>5, <3>1
  <2>7. ASSUME NEW k \in Nat, k \in S PROVE k + 1 \in S
    <3> SUFFICES ASSUME k + 1 <= n PROVE f[1 .. k + 1] = g[1 .. k + 1]
      OBVIOUS
    <3>1. f[1 .. k] = g[1 .. k]
      BY <2>1, <2>7
    <3>2. /\ 1 .. k + 1 \in SUBSET (1 .. n) /\ 1 .. k + 1 \in SUBSET (1 .. n + 1)
          /\ 1 .. k + 1 # {} /\ k + 1 \in 1 .. n
      <4>1. k + 1 \in 1 .. n /\ k + 1 \in 1 .. k + 1
        BY <2>1
      <4>2. \A i \in 1 .. k + 1 : i \in 1 .. n /\ i \in 1 .. n + 1
        BY <2>1
      <4> QED
        BY <4>1, <4>2
    <3>3. Max(1 .. k + 1) = k + 1 /\ (1 .. k + 1) \ {k + 1} = 1 .. k
      BY MaxOfPrefix
    <3>4. f[1 .. k + 1] = addDigit(f[1 .. k], s[k + 1])
      BY <2>4, <3>2, <3>3
    <3>5. g[1 .. k + 1] = addDigit(g[1 .. k], e[k + 1])
      BY <2>5, <3>2, <3>3
    <3> QED
      BY <2>1, <3>1, <3>2, <3>4, <3>5
  <2> HIDE DEF S
  <2>8. n \in S
    BY <2>1, <2>6, <2>7, SetInduction
  <2>9. f[1 .. n] = g[1 .. n]
    BY <2>1, <2>8 DEF S
  <2>10. g[1 .. n + 1] = addDigit(g[1 .. n], e[n + 1])
    <3>1. 1 .. n + 1 \in SUBSET (1 .. n + 1) /\ 1 .. n + 1 # {}
      <4>1. n + 1 \in 1 .. n + 1
        BY <2>1
      <4> QED
        BY <4>1
    <3>2. Max(1 .. n + 1) = n + 1 /\ (1 .. n + 1) \ {n + 1} = 1 .. n
      BY <2>1, MaxOfPrefix
    <3> QED
      BY <2>5, <3>1, <3>2
  <2> QED
    BY <2>1, <2>2, <2>3, <2>9, <2>10 DEF e
<1> QED
  BY <1>1, <1>2

----------------------------------------------------------------------------
(* The row of a match and what is read from it.                            *)

(* What an accepted move records.                                          *)
LegalMove == [mark : Players, cell : Cells]

(* Texts of one and of two characters.                                     *)
LEMMA ShortTexts ==
  ASSUME NEW C, NEW a \in C, NEW b \in C, NEW s \in Seq(C)
  PROVE  /\ <<a, b>> \in Seq(C) /\ <<a>> \o s \in Seq(C) /\ <<>> \o s = s
  OBVIOUS

(* A move is written as its mark and one digit, neither of them a comma.   *)
LEMMA PartOfMove ==
  ASSUME NEW mv \in LegalMove
  PROVE  LET d == digits[mv.cell + 1] IN
         /\ part(mv) = <<mv.mark, d>> /\ d \in Digit /\ valueOf(d) = mv.cell
         /\ mv.mark \in Characters /\ d \in Characters /\ "," \in Characters
         /\ part(mv) \in Seq(Characters)
         /\ mv.mark # "," /\ d # ","
<1> DEFINE d == digits[mv.cell + 1]
<1>1. mv.mark \in {"X", "O"} /\ mv.cell \in 0 .. 9
  BY DEF LegalMove, Players, X, O, Cells, BoardSize, Side
<1>2. d \in Digit /\ valueOf(d) = mv.cell
  BY <1>1, Digits
<1>3. mv.mark \in Characters /\ d \in Characters /\ "," \in Characters
  BY <1>1, <1>2 DEF Characters, Digit
<1>4. mv.mark # "," /\ d # ","
  BY <1>1, <1>2, Digits
<1>5. part(mv) = <<mv.mark, d>>
  BY DEF part
<1> HIDE DEF d
<1>6. part(mv) \in Seq(Characters)
  <2>1. <<>> \in Seq(Characters)
    OBVIOUS
  <2>2. <<mv.mark, d>> \in Seq(Characters)
    BY <1>3, <2>1, ShortTexts
  <2> QED
    BY <1>5, <2>2
<1> QED
  BY <1>2, <1>3, <1>4, <1>5, <1>6 DEF d

(* What the i-th move adds to a row.                                       *)
Piece(i, mv) == (IF i = 1 THEN <<>> ELSE <<",">>) \o part(mv)

(* It is made of the characters of a row.                                  *)
LEMMA PieceOfRow ==
  ASSUME NEW i, NEW mv \in LegalMove
  PROVE  Piece(i, mv) \in Seq(Characters)
<1>1. part(mv) \in Seq(Characters) /\ "," \in Characters
  BY PartOfMove
<1>2. <<>> \o part(mv) = part(mv) /\ <<",">> \o part(mv) \in Seq(Characters)
  BY <1>1, ShortTexts
<1>3. Piece(i, mv) = IF i = 1 THEN <<>> \o part(mv) ELSE <<",">> \o part(mv)
  BY DEF Piece
<1> QED
  BY <1>1, <1>2, <1>3

(* A row, one move after the other.                                        *)
LEMMA EncodeStep ==
  /\ encodeMoves(<<>>) = <<>>
  /\ \A h \in Seq(LegalMove), mv \in LegalMove :
       encodeMoves(Append(h, mv)) = encodeMoves(h) \o Piece(Len(h) + 1, mv)
<1>1. encodeMoves(<<>>) = <<>>
  <2>1. [i \in DOMAIN <<>> |-> (IF i = 1 THEN <<>> ELSE <<",">>) \o part(<<>>[i])] = <<>>
    OBVIOUS
  <2> QED
    BY <2>1, FlattenStep DEF encodeMoves
<1>2. ASSUME NEW h \in Seq(LegalMove), NEW mv \in LegalMove
      PROVE  encodeMoves(Append(h, mv)) = encodeMoves(h) \o Piece(Len(h) + 1, mv)
  <2> DEFINE n == Len(h)
             e == Append(h, mv)
             a == [i \in 1 .. n |-> Piece(i, h[i])]
             b == [i \in 1 .. n + 1 |-> Piece(i, e[i])]
  <2>1. /\ n \in Nat /\ DOMAIN h = 1 .. n /\ DOMAIN e = 1 .. n + 1
        /\ e[n + 1] = mv /\ \A i \in 1 .. n : e[i] = h[i]
        /\ \A i \in 1 .. n : h[i] \in LegalMove
    OBVIOUS
  <2>2. encodeMoves(h) = FlattenSeq(a)
    BY <2>1 DEF encodeMoves, Piece
  <2>3. encodeMoves(e) = FlattenSeq(b)
    <3> HIDE DEF e
    <3> QED
      BY <2>1 DEF encodeMoves, Piece
  <2> HIDE DEF e
  <2>4. a \in Seq(Seq(Characters)) /\ Len(a) = n
    BY <2>1, PieceOfRow
  <2>5. Piece(n + 1, mv) \in Seq(Characters)
    BY PieceOfRow
  <2>6. b = Append(a, Piece(n + 1, mv))
    <3>1. \A i \in 1 .. n + 1 : i \in 1 .. n \/ i = n + 1
      BY <2>1
    <3>2. \A i \in 1 .. n : b[i] = a[i]
      BY <2>1
    <3>3. b[n + 1] = Piece(n + 1, mv)
      BY <2>1
    <3> DEFINE q == Append(a, Piece(n + 1, mv))
    <3>4. /\ DOMAIN q = 1 .. n + 1 /\ q[n + 1] = Piece(n + 1, mv)
          /\ \A i \in 1 .. n : q[i] = a[i]
          /\ q = [i \in 1 .. n + 1 |-> q[i]]
      BY <2>1, <2>4, <2>5
    <3> HIDE DEF a, q
    <3>5. \A i \in 1 .. n + 1 : b[i] = q[i]
      BY <3>1, <3>2, <3>3, <3>4
    <3>6. b = [i \in 1 .. n + 1 |-> b[i]]
      OBVIOUS
    <3> QED
      BY <3>4, <3>5, <3>6 DEF q
  <2> HIDE DEF a, b
  <2> QED
    BY <2>2, <2>3, <2>4, <2>5, <2>6, FlattenStep DEF e
<1> QED
  BY <1>1, <1>2

(* The SMT solver does not mix strings with other values: a comma is kept  *)
(* folded where only its place in a text matters.                          *)
Comma == ","
Plainly(c) == c # Comma

(* A character other than a comma goes to the end of the last part.        *)
LEMMA OneMoreFacts ==
  ASSUME NEW C, NEW parts \in Parts(C), NEW c \in C, Plainly(c)
  PROVE  LET n == Len(parts) r == OneMore(parts, c) IN
         /\ n \in Nat /\ n >= 1 /\ r \in Seq(Seq(C)) /\ Len(r) = n
         /\ r[n] = Append(parts[n], c)
         /\ \A i \in 1 .. n - 1 : r[i] = parts[i]
<1> DEFINE n == Len(parts)
           r == OneMore(parts, c)
<1>1. parts \in Seq(Seq(C)) /\ n \in Nat /\ n >= 1 /\ parts[n] \in Seq(C)
  <2>1. parts \in Seq(Seq(C)) /\ parts # <<>>
    BY DEF Parts
  <2>2. n \in Nat /\ n >= 1
    BY <2>1, EmptySeq
  <2> QED
    BY <2>1, <2>2, ElementOfSeq
<1>2. Append(parts[n], c) \in Seq(C)
  BY <1>1, AppendProperties
<1>3. r = [parts EXCEPT ![n] = Append(parts[n], c)]
  BY Zenon DEF OneMore, Plainly, Comma
<1> HIDE DEF n, r
<1>4. n \in 1 .. Len(parts) /\ Len(parts) = n
  BY <1>1 DEF n
<1>5. /\ r \in Seq(Seq(C)) /\ Len(r) = n
      /\ \A j \in 1 .. n : r[j] = IF j = n THEN Append(parts[n], c) ELSE parts[j]
  BY <1>1, <1>2, <1>3, <1>4, ExceptSeq
<1>6. r[n] = Append(parts[n], c)
  BY <1>4, <1>5
<1>7. \A i \in 1 .. n - 1 : i \in 1 .. n /\ i # n
  BY <1>1
<1>8. \A i \in 1 .. n - 1 : r[i] = parts[i]
  BY <1>5, <1>7
<1> QED
  BY <1>1, <1>5, <1>6, <1>8 DEF n, r

(* The same, when the last part is known.                                  *)
LEMMA LastPart ==
  ASSUME NEW C, NEW parts \in Seq(Seq(C)), NEW p \in Seq(C), NEW c \in C, Plainly(c)
  PROVE  OneMore(Append(parts, p), c) = Append(parts, Append(p, c))
<1> DEFINE n == Len(parts)
           a == Append(parts, p)
           q == Append(parts, Append(p, c))
           r == OneMore(a, c)
<1>1. n \in Nat /\ Append(p, c) \in Seq(C)
  BY LenProperties, AppendProperties
<1>2. /\ a \in Seq(Seq(C)) /\ a # <<>> /\ Len(a) = n + 1 /\ a[n + 1] = p
      /\ \A i \in 1 .. n : a[i] = parts[i]
  BY AppendProperties
<1>3. /\ q \in Seq(Seq(C)) /\ Len(q) = n + 1 /\ q[n + 1] = Append(p, c)
      /\ \A i \in 1 .. n : q[i] = parts[i]
  BY <1>1, AppendProperties
<1> HIDE DEF n, a, q, r
<1>4. a \in Parts(C)
  BY <1>2 DEF Parts
<1>5. /\ r \in Seq(Seq(C)) /\ Len(r) = n + 1 /\ r[n + 1] = Append(p, c)
      /\ \A i \in 1 .. (n + 1) - 1 : r[i] = a[i]
  <2>1. LET k == Len(a) z == OneMore(a, c) IN
        /\ k \in Nat /\ k >= 1 /\ z \in Seq(Seq(C)) /\ Len(z) = k
        /\ z[k] = Append(a[k], c)
        /\ \A i \in 1 .. k - 1 : z[i] = a[i]
    BY <1>4, OneMoreFacts
  <2> QED
    BY <1>2, <2>1 DEF r
<1>6. \A i \in 1 .. n + 1 : r[i] = q[i]
  <2>1. \A i \in 1 .. n + 1 : i \in 1 .. n \/ i = n + 1
    BY <1>1
  <2>2. (n + 1) - 1 = n
    BY <1>1
  <2> QED
    BY <1>2, <1>3, <1>5, <2>1, <2>2
<1> QED
  BY <1>3, <1>5, <1>6, SeqEqual DEF r, a, q

(* Two characters, one after the other.                                    *)
LEMMA TwoAppended ==
  ASSUME NEW C, NEW s \in Seq(C), NEW x \in C, NEW y \in C
  PROVE  s \o <<x, y>> = Append(Append(s, x), y)
OBVIOUS

LEMMA PairAppended ==
  ASSUME NEW C, NEW a \in C, NEW b \in C, NEW none \in Seq(C), none = <<>>
  PROVE  Append(Append(none, a), b) = <<a, b>> /\ Append(none, a) \in Seq(C)
<1> DEFINE one == Append(none, a)
           two == Append(one, b)
           q == <<a, b>>
<1>1. one \in Seq(C) /\ Len(one) = 1 /\ one[1] = a
  <2>1. Len(none) = 0
    OBVIOUS
  <2>2. /\ one \in Seq(C) /\ Len(one) = Len(none) + 1 /\ one[Len(none) + 1] = a
    BY AppendProperties
  <2> HIDE DEF one
  <2> QED
    BY <2>1, <2>2
<1> HIDE DEF one
<1>2. /\ two \in Seq(C) /\ Len(two) = Len(one) + 1 /\ two[Len(one) + 1] = b
      /\ \A i \in 1 .. Len(one) : two[i] = one[i]
  <2>1. one \in Seq(C)
    BY <1>1
  <2> QED
    BY <2>1, AppendProperties
<1>3. q \in Seq(C) /\ Len(q) = 2 /\ q[1] = a /\ q[2] = b
  OBVIOUS
<1> HIDE DEF two, q
<1>4. Len(two) = 2 /\ two[1] = a /\ two[2] = b
  BY <1>1, <1>2
<1>5. \A i \in 1 .. 2 : i = 1 \/ i = 2
  OBVIOUS
<1>6. two = q
  BY <1>2, <1>3, <1>4, <1>5, SeqEqual
<1> QED
  BY <1>1, <1>6 DEF one, two, q

(* Two characters after a comma are a part of their own.                   *)
LEMMA FreshPart ==
  ASSUME NEW C, NEW parts \in Seq(Seq(C)), NEW a \in C, NEW b \in C, Plainly(a), Plainly(b)
  PROVE  OneMore(OneMore(Append(parts, <<>>), a), b) = Append(parts, <<a, b>>)
<1>1. PICK none \in Seq(C) : none = <<>>
  BY EmptySeq, Zenon
<1>2. PICK one \in Seq(C) : one = Append(none, a) /\ Append(one, b) = <<a, b>>
  BY <1>1, PairAppended
<1>3. OneMore(Append(parts, none), a) = Append(parts, one)
  BY <1>2, LastPart
<1>4. OneMore(Append(parts, one), b) = Append(parts, Append(one, b))
  BY LastPart
<1> QED
  BY <1>1, <1>2, <1>3, <1>4, Zenon

(* A row splits at its commas into the moves it was written from.          *)
Parted(h) ==
  /\ encodeMoves(h) \in Seq(Characters)
  /\ h # <<>> => /\ encodeMoves(h) # <<>>
                 /\ Split(encodeMoves(h)) = [i \in 1 .. Len(h) |-> part(h[i])]

(* One more move is one more part.                                         *)
LEMMA PartedOneMore ==
  ASSUME NEW h \in Seq(LegalMove), NEW mv \in LegalMove, Parted(h)
  PROVE  Parted(Append(h, mv))
<1> DEFINE n == Len(h)
           e == Append(h, mv)
           t == encodeMoves(h)
           m == mv.mark
           d == digits[mv.cell + 1]
           P == [i \in 1 .. n |-> part(h[i])]
<1>1. /\ n \in Nat /\ Len(e) = n + 1 /\ e[n + 1] = mv /\ e # <<>>
      /\ \A i \in 1 .. n : e[i] = h[i] /\ h[i] \in LegalMove
  <2>1. n \in Nat /\ Len(e) = n + 1 /\ e[n + 1] = mv
    OBVIOUS
  <2>2. \A i \in 1 .. n : e[i] = h[i] /\ h[i] \in LegalMove
    OBVIOUS
  <2> HIDE DEF e
  <2> QED
    BY <2>1, <2>2
<1>2. /\ part(mv) = <<m, d>> /\ m \in Characters /\ d \in Characters /\ Comma \in Characters
      /\ Plainly(m) /\ Plainly(d)
  BY PartOfMove DEF Plainly, Comma
<1>3. t \in Seq(Characters) /\ encodeMoves(e) = t \o Piece(n + 1, mv)
  BY EncodeStep DEF Parted
<1>4. P \in Seq(Seq(Characters)) /\ Len(P) = n
  <2>1. \A i \in 1 .. n : part(h[i]) \in Seq(Characters)
    BY <1>1, PartOfMove
  <2> QED
    BY <1>1, <2>1
<1>5. [i \in 1 .. n + 1 |-> part(e[i])] = Append(P, <<m, d>>)
  <2> DEFINE a == [i \in 1 .. n + 1 |-> part(e[i])]
             q == Append(P, <<m, d>>)
  <2>1. /\ DOMAIN q = 1 .. n + 1 /\ q[n + 1] = <<m, d>>
        /\ \A i \in 1 .. n : q[i] = part(h[i])
        /\ q = [i \in 1 .. n + 1 |-> q[i]]
    BY <1>1, <1>4
  <2> HIDE DEF q, e, m, d, P
  <2>2. \A i \in 1 .. n + 1 : part(e[i]) = q[i]
    <3>1. \A i \in 1 .. n + 1 : i \in 1 .. n \/ i = n + 1
      BY <1>1
    <3> QED
      BY <1>1, <1>2, <2>1, <3>1
  <2>3. a = [i \in 1 .. n + 1 |-> q[i]]
    BY <2>2
  <2> QED
    BY <2>1, <2>3 DEF q
<1> DEFINE start == IF n = 0 THEN t ELSE Append(t, Comma)
<1>6. /\ start \in Seq(Characters)
      /\ encodeMoves(e) = Append(Append(start, m), d)
  <2>1. CASE n = 0
    <3>1. t = <<>> /\ n + 1 = 1
      BY <2>1, EncodeStep
    <3>2. Piece(n + 1, mv) = <<>> \o <<m, d>>
      BY <1>2, <3>1 DEF Piece
    <3> HIDE DEF m, d
    <3>3. <<>> \o (<<>> \o <<m, d>>) = Append(Append(<<>>, m), d)
      BY <1>2
    <3> QED
      BY <1>3, <2>1, <3>1, <3>2, <3>3
  <2>2. CASE n # 0
    <3>0. n + 1 # 1
      BY <1>1, <2>2
    <3>1. Piece(n + 1, mv) = <<Comma>> \o <<m, d>>
      BY Zenon, <1>2, <3>0 DEF Piece, Comma
    <3> HIDE DEF m, d, t
    <3>2. t \o (<<Comma>> \o <<m, d>>) = Append(Append(Append(t, Comma), m), d)
      BY <1>2, <1>3
    <3>3. Append(t, Comma) \in Seq(Characters)
      BY <1>2, <1>3
    <3> QED
      BY <1>3, <2>2, <3>1, <3>2, <3>3
  <2> QED
    BY <2>1, <2>2
<1>7. Split(start) = Append(P, <<>>)
  <2>1. CASE n = 0
    <3>1. t = <<>> /\ P = <<>>
      BY <2>1, EncodeStep
    <3>2. Append(<<>>, <<>>) = << <<>> >>
      OBVIOUS
    <3> QED
      BY <2>1, <3>1, <3>2, SplitStep
  <2>2. CASE n # 0
    <3>1. h # <<>>
      BY <2>2
    <3>2. Split(t) = P
      BY <3>1 DEF Parted
    <3>3. Split(Append(t, Comma)) = OneMore(Split(t), Comma)
      BY <1>2, <1>3, SplitStep
    <3> QED
      BY <2>2, <3>2, <3>3 DEF OneMore, Comma
  <2> QED
    BY <2>1, <2>2
<1> HIDE DEF start, e, m, d, P
<1>8. Split(Append(Append(start, m), d)) = Append(P, <<m, d>>)
  <2>1. Split(Append(start, m)) = OneMore(Append(P, <<>>), m)
    BY <1>2, <1>6, <1>7, SplitStep
  <2>2. Append(start, m) \in Seq(Characters)
    BY <1>2, <1>6, AppendProperties
  <2>3. Split(Append(Append(start, m), d)) = OneMore(OneMore(Append(P, <<>>), m), d)
    BY <1>2, <2>1, <2>2, SplitStep
  <2> QED
    BY <1>2, <1>4, <2>3, FreshPart
<1>9. encodeMoves(e) \in Seq(Characters) /\ encodeMoves(e) # <<>>
  BY <1>2, <1>6
<1> QED
  BY <1>1, <1>5, <1>6, <1>8, <1>9 DEF Parted, e

(* So it is for every history.                                             *)
LEMMA RowParted == \A h \in Seq(LegalMove) : Parted(h)
<1> DEFINE S == {n \in Nat : \A h \in Seq(LegalMove) : Len(h) = n => Parted(h)}
<1>1. 0 \in S
  <2>1. \A h \in Seq(LegalMove) : Len(h) = 0 => h = <<>>
    OBVIOUS
  <2>2. <<>> \in Seq(Characters)
    OBVIOUS
  <2>3. Parted(<<>>)
    BY <2>2, EncodeStep DEF Parted
  <2> QED
    BY <2>1, <2>3
<1>2. ASSUME NEW n \in Nat, n \in S PROVE n + 1 \in S
  <2> SUFFICES ASSUME NEW h \in Seq(LegalMove), Len(h) = n + 1
               PROVE  Parted(h)
    OBVIOUS
  <2>1. h # <<>>
    OBVIOUS
  <2>2. PICK g \in Seq(LegalMove), mv \in LegalMove : h = Append(g, mv)
    BY <2>1, SequenceEmptyOrAppend
  <2>3. Len(g) = n
    BY <2>2
  <2>4. Parted(g)
    BY <1>2, <2>3
  <2> QED
    BY <2>2, <2>4, PartedOneMore
<1> HIDE DEF S
<1>3. \A n \in Nat : n \in S
  BY <1>1, <1>2, SetInduction
<1> QED
  <2>1. \A h \in Seq(LegalMove) : Len(h) \in S
    BY <1>3
  <2> QED
    BY <2>1 DEF S

(* A digit is read as its value.                                           *)
LEMMA ReadDigit ==
  ASSUME NEW d \in Digit
  PROVE  Atoi(<<d>>) = valueOf(d)
<1>1. d \notin {"+", "-"}
  BY Digits
<1>2. <<d>> # <<>> /\ Head(<<d>>) = d
  OBVIOUS
<1>3. ToSet(<<d>>) \subseteq Digit
  BY DEF ToSet
<1>4. Number(<<d>>) = valueOf(d)
  <2>1. <<>> \in Seq(Digit) /\ Append(<<>>, d) = <<d>>
    OBVIOUS
  <2>2. Number(Append(<<>>, d)) = addDigit(0, d)
    BY <2>1, NumberStep
  <2>3. valueOf(d) \in 0 .. 9
    BY Digits
  <2> QED
    BY <2>1, <2>2, <2>3 DEF addDigit
<1> QED
  BY <1>1, <1>2, <1>3, <1>4 DEF Atoi, Number, Digit

(* A move that was written is readable, and reads as itself.               *)
LEMMA PartRead ==
  ASSUME NEW mv \in LegalMove
  PROVE  /\ Readable(part(mv))
         /\ parseMark(part(mv)[1]) = mv.mark
         /\ Atoi(Tail(part(mv))) = mv.cell
<1> DEFINE d == digits[mv.cell + 1]
<1>1. part(mv) = <<mv.mark, d>> /\ d \in Digit /\ valueOf(d) = mv.cell
  BY PartOfMove
<1> HIDE DEF d
<1>2. Len(part(mv)) = 2 /\ part(mv)[1] = mv.mark /\ Tail(part(mv)) = <<d>>
  BY <1>1
<1>3. Atoi(Tail(part(mv))) = mv.cell
  BY <1>1, <1>2, ReadDigit
<1>4. mv.mark \in Players /\ mv.cell \in Int
  BY DEF LegalMove, Cells
<1>5. parseMark(part(mv)[1]) = mv.mark
  BY <1>2, <1>4 DEF parseMark, Players, X, O
<1>6. Readable(part(mv))
  BY <1>2, <1>3, <1>4, <1>5, UnreadableIsNoValue DEF Readable
<1> QED
  BY <1>3, <1>5, <1>6

(* decodeMoves reads back what encodeMoves wrote, for every history of     *)
(* whatever length whose cells are on the board, the empty one included.   *)
THEOREM EncodingRoundTrip ==
  \A h \in Seq(LegalMove) : decodeMoves(encodeMoves(h)) = h
<1> SUFFICES ASSUME NEW h \in Seq(LegalMove) PROVE decodeMoves(encodeMoves(h)) = h
  OBVIOUS
<1> DEFINE n == Len(h)
           t == encodeMoves(h)
<1>1. CASE h = <<>>
  BY <1>1, EncodeStep DEF decodeMoves
<1>2. CASE h # <<>>
  <2>1. t # <<>> /\ Split(t) = [i \in 1 .. n |-> part(h[i])]
    BY <1>2, RowParted DEF Parted
  <2>2. n \in Nat /\ \A i \in 1 .. n : h[i] \in LegalMove
    OBVIOUS
  <2> HIDE DEF t
  <2>3. DOMAIN Split(t) = 1 .. n /\ \A i \in 1 .. n : Split(t)[i] = part(h[i])
    BY <2>1
  <2>4. \A i \in 1 .. n : /\ Readable(Split(t)[i])
                          /\ parseMark(Split(t)[i][1]) = h[i].mark
                          /\ Atoi(Tail(Split(t)[i])) = h[i].cell
    BY <2>2, <2>3, PartRead
  <2>5. decodeMoves(t) =
          [i \in 1 .. n |-> [mark |-> parseMark(Split(t)[i][1]), cell |-> Atoi(Tail(Split(t)[i]))]]
    BY <2>1, <2>3, <2>4 DEF decodeMoves
  <2>6. \A i \in 1 .. n :
          [mark |-> parseMark(Split(t)[i][1]), cell |-> Atoi(Tail(Split(t)[i]))] = h[i]
    BY <2>2, <2>4 DEF LegalMove
  <2>7. h = [i \in 1 .. n |-> h[i]]
    OBVIOUS
  <2> HIDE DEF n
  <2>8. decodeMoves(t) = [i \in 1 .. n |-> h[i]]
    BY <2>5, <2>6
  <2> QED
    BY <2>7, <2>8 DEF t
<1> QED
  BY <1>1, <1>2

----------------------------------------------------------------------------
(* What is accepted of a text that was never written.                      *)

(* A number is natural, and zero only when written in zeros.               *)
LEMMA NumberOfDigits ==
  \A s \in Seq(Digit) : /\ Number(s) \in Nat
                        /\ Number(s) = 0 => \A i \in 1 .. Len(s) : s[i] = "0"
<1> DEFINE Fine(s) == /\ Number(s) \in Nat
                      /\ Number(s) = 0 => \A i \in 1 .. Len(s) : s[i] = "0"
           S == {n \in Nat : \A s \in Seq(Digit) : Len(s) = n => Fine(s)}
<1>1. 0 \in S
  <2>1. \A s \in Seq(Digit) : Len(s) = 0 => s = <<>>
    OBVIOUS
  <2>2. Fine(<<>>)
    BY NumberStep
  <2> HIDE DEF Fine
  <2> QED
    BY <2>1, <2>2
<1>2. ASSUME NEW n \in Nat, n \in S PROVE n + 1 \in S
  <2> SUFFICES ASSUME NEW s \in Seq(Digit), Len(s) = n + 1 PROVE Fine(s)
    OBVIOUS
  <2>1. s # <<>>
    OBVIOUS
  <2>2. PICK r \in Seq(Digit), c \in Digit : s = Append(r, c)
    BY <2>1, SequenceEmptyOrAppend
  <2>3. Len(r) = n
    BY <2>2
  <2>4. Fine(r)
    BY <1>2, <2>3
  <2>5. Number(s) = 10 * Number(r) + valueOf(c)
    BY <2>2, NumberStep DEF addDigit
  <2>6. valueOf(c) \in 0 .. 9 /\ digits[valueOf(c) + 1] = c
    BY Digits
  <2>7. Number(s) \in Nat
    BY <2>4, <2>5, <2>6
  <2>8. ASSUME Number(s) = 0, NEW i \in 1 .. Len(s) PROVE s[i] = "0"
    <3>1. Number(r) = 0 /\ valueOf(c) = 0
      BY <2>4, <2>5, <2>6, <2>8
    <3>2. c = "0"
      BY <2>6, <3>1 DEF digits
    <3>3. \A j \in 1 .. n : r[j] = "0"
      BY <2>3, <2>4, <3>1
    <3>4. s[n + 1] = c /\ \A j \in 1 .. n : s[j] = r[j]
      BY <2>2, <2>3, AppendProperties
    <3>5. i \in 1 .. n \/ i = n + 1
      BY <2>8
    <3> QED
      BY <3>2, <3>3, <3>4, <3>5
  <2> QED
    BY <2>7, <2>8
<1> HIDE DEF S
<1>3. \A n \in Nat : n \in S
  BY <1>1, <1>2, SetInduction
<1> QED
  <2>1. \A s \in Seq(Digit) : Len(s) \in S
    BY <1>3
  <2> QED
    BY <2>1 DEF S

(* Zeros before the digit of a cell.                                       *)
LEMMA SmallNumber ==
  ASSUME NEW s \in Seq(Digit), s # <<>>, NEW v \in Cells, Number(s) = v
  PROVE  /\ s[Len(s)] = digits[v + 1]
         /\ \A i \in 1 .. Len(s) - 1 : s[i] = "0"
<1>1. PICK r \in Seq(Digit), c \in Digit : s = Append(r, c)
  BY SequenceEmptyOrAppend
<1>2. Number(s) = 10 * Number(r) + valueOf(c)
  BY <1>1, NumberStep DEF addDigit
<1>3. valueOf(c) \in 0 .. 9 /\ digits[valueOf(c) + 1] = c
  BY Digits
<1>4. Number(r) \in Nat /\ (Number(r) = 0 => \A i \in 1 .. Len(r) : r[i] = "0")
  BY NumberOfDigits
<1>5. v \in 0 .. 8
  BY DEF Cells, BoardSize, Side
<1>6. Number(r) = 0 /\ valueOf(c) = v
  <2>1. \A a \in Nat, u \in 0 .. 9 : 10 * a + u <= 8 => a = 0 /\ 10 * a + u = u
    OBVIOUS
  <2>2. Number(r) \in Nat /\ valueOf(c) \in 0 .. 9 /\ 10 * Number(r) + valueOf(c) = v /\ v <= 8
    BY <1>2, <1>3, <1>4, <1>5
  <2> QED
    BY <2>1, <2>2
<1>7. /\ Len(s) = Len(r) + 1 /\ s[Len(r) + 1] = c /\ Len(r) \in Nat
      /\ \A i \in 1 .. Len(r) : s[i] = r[i]
  BY <1>1, AppendProperties, LenProperties
<1>8. s[Len(s)] = digits[v + 1]
  BY <1>3, <1>6, <1>7
<1>9. Len(s) - 1 = Len(r)
  BY <1>7
<1> QED
  BY <1>4, <1>6, <1>7, <1>8, <1>9

(* A part that is read as a move with a cell on the board: its mark,       *)
(* perhaps a sign, zeros, and the digit of the cell.                       *)
LEMMA ReadablePart ==
  ASSUME NEW C, NEW p \in Seq(C), Readable(p)
  PROVE  /\ Len(p) \in Nat /\ Len(p) >= 2
         /\ p[1] \in Players /\ parseMark(p[1]) = p[1]
         /\ Atoi(Tail(p)) \in Int
         /\ \A i \in 3 .. Len(p) : p[i] \in Digit
         /\ Atoi(Tail(p)) \in Cells =>
              /\ p[Len(p)] = digits[Atoi(Tail(p)) + 1]
              /\ \A i \in 2 .. Len(p) - 1 : p[i] \in {"+", "-", "0"}
<1> DEFINE n == Len(p)
           t == Tail(p)
           signed == t # <<>> /\ Head(t) \in {"+", "-"}
           number == IF signed THEN Tail(t) ELSE t
           v == Atoi(t)
<1>1. n \in Nat /\ n >= 2 /\ parseMark(p[1]) # Unreadable /\ v # Unreadable
  BY LenProperties DEF Readable
<1>2. p[1] \in Players /\ parseMark(p[1]) = p[1]
  BY <1>1 DEF parseMark, Players, X, O
<1>3. /\ t \in Seq(C) /\ Len(t) = n - 1 /\ t # <<>>
      /\ \A i \in 1 .. n - 1 : t[i] = p[i + 1]
  <2>1. p # <<>>
    BY <1>1
  <2>2. /\ t \in Seq(C) /\ Len(t) = n - 1
        /\ \A i \in 1 .. Len(t) : t[i] = p[i + 1]
    BY <2>1, HeadTailProperties
  <2> HIDE DEF t
  <2>3. t # <<>>
    BY <1>1, <2>2
  <2> QED
    BY <2>2, <2>3
<1> HIDE DEF n, t
<1>4. /\ number # <<>> /\ ToSet(number) \subseteq Digit
      /\ v = IF signed /\ Head(t) = "-" THEN -Number(number) ELSE Number(number)
  <2>1. v = IF number = <<>> \/ ~(ToSet(number) \subseteq ToSet(digits)) THEN Unreadable
            ELSE IF signed /\ Head(t) = "-" THEN -Number(number) ELSE Number(number)
    BY DEF Atoi, Number
  <2> HIDE DEF number, signed
  <2> QED
    BY <1>1, <2>1 DEF Digit
<1> DEFINE k == IF signed THEN 2 ELSE 1
<1>5. /\ number \in Seq(C) /\ Len(number) = n - k
      /\ \A i \in 1 .. n - k : number[i] = p[i + k]
  <2>1. CASE signed
    <3>1. /\ Tail(t) \in Seq(C) /\ Len(Tail(t)) = Len(t) - 1
          /\ \A i \in 1 .. Len(Tail(t)) : Tail(t)[i] = t[i + 1]
      BY <1>3, HeadTailProperties
    <3>2. Len(Tail(t)) = n - 2
      BY <1>1, <1>3, <3>1
    <3>3. \A i \in 1 .. n - 2 : i + 1 \in 1 .. n - 1 /\ (i + 1) + 1 = i + 2
      BY <1>1
    <3>4. \A i \in 1 .. n - 2 : Tail(t)[i] = p[i + 2]
      BY <1>3, <3>1, <3>2, <3>3
    <3> QED
      BY <2>1, <3>1, <3>2, <3>4
  <2>2. CASE ~signed
    BY <1>3, <2>2
  <2> QED
    BY <2>1, <2>2
<1>6. k \in {1, 2} /\ (k = 2 => p[2] \in {"+", "-"})
  <2>1. signed => Head(t) \in {"+", "-"}
    OBVIOUS
  <2>2. Head(t) = t[1]
    BY <1>3
  <2>3. 1 \in 1 .. n - 1
    BY <1>1
  <2> HIDE DEF signed
  <2> QED
    BY <1>3, <2>1, <2>2, <2>3
<1> HIDE DEF number, signed, k, v
<1>7. /\ number \in Seq(Digit) /\ Len(number) \in Nat /\ n - k >= 1
  <2>1. Len(number) \in Nat /\ \A i \in 1 .. Len(number) : number[i] \in Digit
    BY <1>4, <1>5, LenProperties DEF ToSet
  <2>2. number \in Seq(Digit)
    BY <1>5, <2>1
  <2>3. Len(number) # 0
    BY <1>4, <1>5, EmptySeq
  <2> QED
    BY <1>1, <1>5, <1>6, <2>1, <2>2, <2>3
<1>8. Number(number) \in Nat
  BY <1>7, NumberOfDigits
<1>9. v \in Int
  BY <1>4, <1>8
<1>10. ASSUME NEW i \in 3 .. n PROVE p[i] \in Digit
  <2>1. i - k \in 1 .. n - k /\ (i - k) + k = i
    BY <1>1, <1>6
  <2>2. number[i - k] \in Digit
    BY <1>5, <1>7, <2>1
  <2> QED
    BY <1>5, <2>1, <2>2
<1>11. ASSUME v \in Cells
       PROVE  /\ p[n] = digits[v + 1]
              /\ \A i \in 2 .. n - 1 : p[i] \in {"+", "-", "0"}
  <2>1. v \in 0 .. 8
    BY <1>11 DEF Cells, BoardSize, Side
  <2>2. Number(number) = v
    BY <1>4, <1>8, <2>1
  <2>3. /\ number[n - k] = digits[v + 1]
        /\ \A i \in 1 .. (n - k) - 1 : number[i] = "0"
    BY <1>4, <1>5, <1>7, <1>11, <2>2, SmallNumber
  <2>4. n - k \in 1 .. n - k /\ (n - k) + k = n
    BY <1>1, <1>6, <1>7
  <2>5. p[n] = digits[v + 1]
    BY <1>5, <2>3, <2>4
  <2>6. ASSUME NEW i \in 2 .. n - 1 PROVE p[i] \in {"+", "-", "0"}
    <3>1. CASE i <= k
      BY <1>6, <2>6, <3>1
    <3>2. CASE i > k
      <4>1. i - k \in 1 .. (n - k) - 1 /\ i - k \in 1 .. n - k /\ (i - k) + k = i
        BY <1>1, <1>6, <3>2
      <4>2. number[i - k] = "0" /\ number[i - k] = p[i]
        BY <1>5, <2>3, <4>1
      <4> QED
        BY <4>2
    <3> QED
      BY <1>6, <3>1, <3>2
  <2> QED
    BY <2>5, <2>6
<1> QED
  BY <1>1, <1>2, <1>9, <1>10, <1>11 DEF n, t, v

(* A text read from left to right: f holds the parts so far.               *)
Extends(a, b) ==
  LET k == Len(a) IN
  /\ Len(b) >= k
  /\ \A m \in 1 .. k - 1 : b[m] = a[m]
  /\ Len(b[k]) >= Len(a[k])
  /\ \A x \in 1 .. Len(a[k]) : b[k][x] = a[k][x]

(* The parts b are the parts a once c has been read.                       *)
Grown(a, b, c) ==
  LET k == Len(a) IN
  /\ c = Comma => Len(b) = k + 1 /\ b[k] = a[k] /\ Len(b[k + 1]) = 0
  /\ c # Comma => Len(b) = k /\ Len(b[k]) = Len(a[k]) + 1 /\ b[k][Len(a[k]) + 1] = c

(* Parts are texts, and there is at least one.                             *)
LEMMA PartsTyped ==
  ASSUME NEW C, NEW a \in Parts(C)
  PROVE  /\ a \in Seq(Seq(C)) /\ Len(a) \in Nat /\ Len(a) >= 1
         /\ \A m \in 1 .. Len(a) : a[m] \in Seq(C) /\ Len(a[m]) \in Nat
<1>1. a \in Seq(Seq(C)) /\ a # <<>>
  BY DEF Parts
<1>2. Len(a) \in Nat /\ Len(a) >= 1
  BY <1>1, EmptySeq
<1>3. \A m \in 1 .. Len(a) : a[m] \in Seq(C) /\ Len(a[m]) \in Nat
  BY <1>1, ElementOfSeq, LenProperties
<1> QED
  BY <1>1, <1>2, <1>3

(* What extends an extension extends the original.                         *)
LEMMA ExtendsTrans ==
  ASSUME NEW C, NEW a \in Parts(C), NEW b \in Parts(C), NEW c \in Parts(C),
         Extends(a, b), Extends(b, c)
  PROVE  Extends(a, c)
<1> DEFINE k == Len(a)
           l == Len(b)
<1>1. /\ k \in Nat /\ k >= 1 /\ l \in Nat /\ l >= k /\ Len(c) \in Nat /\ Len(c) >= l
      /\ \A m \in 1 .. k - 1 : b[m] = a[m]
      /\ Len(b[k]) >= Len(a[k]) /\ \A x \in 1 .. Len(a[k]) : b[k][x] = a[k][x]
      /\ \A m \in 1 .. l - 1 : c[m] = b[m]
      /\ Len(c[l]) >= Len(b[l]) /\ \A x \in 1 .. Len(b[l]) : c[l][x] = b[l][x]
  BY PartsTyped DEF Extends
<1>2. /\ \A m \in 1 .. k : Len(a[m]) \in Nat
      /\ \A m \in 1 .. l : Len(b[m]) \in Nat
      /\ \A m \in 1 .. Len(c) : Len(c[m]) \in Nat
  BY PartsTyped
<1> HIDE DEF k, l
<1>3. /\ k \in 1 .. k /\ k \in 1 .. l /\ k \in 1 .. Len(c)
      /\ \A m \in 1 .. k - 1 : m \in 1 .. l - 1
  BY <1>1
<1>4. Len(c) >= k /\ \A m \in 1 .. k - 1 : c[m] = a[m]
  BY <1>1, <1>3
<1>5. Len(c[k]) >= Len(b[k]) /\ \A x \in 1 .. Len(b[k]) : c[k][x] = b[k][x]
  <2>1. CASE k = l
    BY <1>1, <2>1
  <2>2. CASE k # l
    <3>1. k \in 1 .. l - 1
      BY <1>1, <2>2
    <3>2. c[k] = b[k]
      BY <1>1, <3>1
    <3> QED
      BY <1>2, <1>3, <3>2
  <2> QED
    BY <2>1, <2>2
<1>6. /\ Len(a[k]) \in Nat /\ Len(b[k]) \in Nat /\ Len(c[k]) \in Nat
  BY <1>2, <1>3
<1>7. Len(c[k]) >= Len(a[k]) /\ \A x \in 1 .. Len(a[k]) : c[k][x] = a[k][x]
  <2>1. \A x \in 1 .. Len(a[k]) : x \in 1 .. Len(b[k])
    BY <1>1, <1>6
  <2> QED
    BY <1>1, <1>5, <1>6, <2>1
<1> QED
  BY <1>4, <1>7 DEF Extends, k

(* What one more character does to the parts.                              *)
LEMMA OneMoreExtends ==
  ASSUME NEW C, NEW a \in Parts(C), NEW c \in C
  PROVE  LET b == OneMore(a, c) IN b \in Parts(C) /\ Extends(a, b) /\ Grown(a, b, c)
<1> DEFINE k == Len(a)
           b == OneMore(a, c)
<1>1. /\ a \in Seq(Seq(C)) /\ k \in Nat /\ k >= 1
      /\ \A m \in 1 .. k : a[m] \in Seq(C) /\ Len(a[m]) \in Nat
  BY PartsTyped
<1>2. b \in Parts(C)
  BY OneMorePart
<1> HIDE DEF k
<1>0. k \in 1 .. k /\ \A m \in 1 .. k - 1 : m \in 1 .. k
  BY <1>1
<1>3. CASE c = Comma
  <2>1. PICK none \in Seq(C) : none = <<>> /\ Len(none) = 0
    BY EmptySeq, Zenon
  <2>2. b = Append(a, none)
    BY <1>3, <2>1, Zenon DEF OneMore, Comma
  <2>3. /\ Len(b) = k + 1 /\ b[k + 1] = none
        /\ \A m \in 1 .. k : b[m] = a[m]
    BY <1>1, <2>2, AppendProperties DEF k
  <2> HIDE DEF b
  <2>4. Extends(a, b)
    <3>1. Len(b) >= k /\ \A m \in 1 .. k - 1 : b[m] = a[m]
      BY <1>0, <1>1, <2>3
    <3>2. b[k] = a[k] /\ Len(a[k]) \in Nat
      BY <1>0, <1>1, <2>3
    <3>3. Len(b[k]) >= Len(a[k]) /\ \A x \in 1 .. Len(a[k]) : b[k][x] = a[k][x]
      BY <3>2
    <3> QED
      BY <3>1, <3>3, Zenon DEF Extends, k
  <2> QED
    BY <1>0, <1>2, <1>3, <2>1, <2>3, <2>4 DEF b, k, Grown
<1>4. CASE c # Comma
  <2>1. Plainly(c)
    BY <1>4 DEF Plainly
  <2>2. LET n == Len(a) r == OneMore(a, c) IN
        /\ Len(r) = n /\ r[n] = Append(a[n], c)
        /\ \A i \in 1 .. n - 1 : r[i] = a[i]
    BY <2>1, OneMoreFacts
  <2>3. Len(b) = k /\ b[k] = Append(a[k], c) /\ \A i \in 1 .. k - 1 : b[i] = a[i]
    BY <2>2 DEF k
  <2>4. a[k] \in Seq(C) /\ Len(a[k]) \in Nat
    BY <1>0, <1>1
  <2>5. /\ Len(b[k]) = Len(a[k]) + 1 /\ b[k][Len(a[k]) + 1] = c
        /\ \A x \in 1 .. Len(a[k]) : b[k][x] = a[k][x]
    BY <2>3, <2>4, AppendProperties
  <2> HIDE DEF b
  <2>6. Extends(a, b)
    <3>1. Len(b) >= k /\ \A m \in 1 .. k - 1 : b[m] = a[m]
      BY <1>1, <2>3
    <3>2. Len(b[k]) >= Len(a[k])
      BY <2>4, <2>5
    <3> QED
      BY <2>5, <3>1, <3>2 DEF Extends, k
  <2> QED
    BY <1>2, <1>4, <2>3, <2>5, <2>6 DEF b, k, Grown
<1> QED
  BY <1>3, <1>4

(* The parts so far, for every prefix of a text.                           *)
LEMMA PartsSoFar ==
  ASSUME NEW C, NEW text \in Seq(C), NEW f, Splits(text, f)
  PROVE  LET n == Len(text) IN
         /\ \A j \in 0 .. n : f[j] \in Parts(C) /\ Extends(f[j], f[n])
         /\ f[0] = << <<>> >>
         /\ \A j \in 0 .. n - 1 : f[j + 1] = OneMore(f[j], text[j + 1])
<1> DEFINE n == Len(text)
<1>1. n \in Nat /\ \A i \in 1 .. n : text[i] \in C
  OBVIOUS
<1> HIDE DEF n
<1>2. \A i \in 0 .. n : f[i] = IF i = 0 THEN << <<>> >> ELSE OneMore(f[i - 1], text[i])
  BY DEF Splits, n
<1>3. f[0] = << <<>> >>
  BY <1>1, <1>2
<1>4. \A j \in 0 .. n - 1 : f[j + 1] = OneMore(f[j], text[j + 1])
  <2>1. \A j \in 0 .. n - 1 : j + 1 \in 0 .. n /\ j + 1 # 0 /\ (j + 1) - 1 = j
    BY <1>1
  <2> QED
    BY <1>2, <2>1
<1> DEFINE S == {j \in Nat : j <= n => f[j] \in Parts(C)}
<1>5. 0 \in S
  <2>1. << <<>> >> \in Parts(C)
    BY DEF Parts
  <2> QED
    BY <1>3, <2>1
<1>6. ASSUME NEW j \in Nat, j \in S PROVE j + 1 \in S
  <2> SUFFICES ASSUME j + 1 <= n PROVE f[j + 1] \in Parts(C)
    OBVIOUS
  <2>1. j \in 0 .. n - 1 /\ f[j] \in Parts(C) /\ text[j + 1] \in C
    BY <1>1, <1>6
  <2> QED
    BY <1>4, <2>1, OneMorePart
<1> HIDE DEF S
<1>7. \A j \in Nat : j \in S
  BY <1>5, <1>6, SetInduction
<1>8. \A j \in 0 .. n : f[j] \in Parts(C)
  BY <1>1, <1>7 DEF S
<1> DEFINE B == {d \in Nat : d <= n => Extends(f[n - d], f[n])}
<1>9. 0 \in B
  <2>1. n - 0 = n /\ n \in 0 .. n
    BY <1>1
  <2>2. f[n] \in Parts(C)
    BY <1>8, <2>1
  <2>3. Len(f[n]) \in Nat /\ \A m \in 1 .. Len(f[n]) : Len(f[n][m]) \in Nat
    BY <2>2, PartsTyped
  <2>4. Len(f[n]) \in 1 .. Len(f[n])
    BY <2>2, <2>3, PartsTyped
  <2>5. Extends(f[n], f[n])
    BY <2>3, <2>4 DEF Extends
  <2> QED
    BY <2>1, <2>5
<1>10. ASSUME NEW d \in Nat, d \in B PROVE d + 1 \in B
  <2> SUFFICES ASSUME d + 1 <= n PROVE Extends(f[n - (d + 1)], f[n])
    OBVIOUS
  <2> DEFINE j == n - (d + 1)
  <2>1. j \in 0 .. n - 1 /\ j + 1 = n - d /\ j \in 0 .. n /\ j + 1 \in 0 .. n /\ n \in 0 .. n
        /\ j + 1 \in 1 .. n
    BY <1>1
  <2>2. Extends(f[j + 1], f[n])
    BY <1>10, <2>1
  <2> HIDE DEF j
  <2>3. f[j] \in Parts(C) /\ f[j + 1] \in Parts(C) /\ f[n] \in Parts(C) /\ text[j + 1] \in C
    BY <1>1, <1>8, <2>1
  <2>4. Extends(f[j], OneMore(f[j], text[j + 1]))
    BY <2>3, OneMoreExtends
  <2>5. Extends(f[j], f[j + 1])
    BY <1>4, <2>1, <2>4
  <2> QED
    BY <2>2, <2>3, <2>5, ExtendsTrans DEF j
<1> HIDE DEF B
<1>11. \A d \in Nat : d \in B
  BY <1>9, <1>10, SetInduction
<1>12. ASSUME NEW j \in 0 .. n PROVE Extends(f[j], f[n])
  <2>1. n - j \in Nat /\ n - j <= n /\ n - (n - j) = j
    BY <1>1
  <2>2. n - j \in B
    BY <1>11, <2>1
  <2> QED
    BY <2>1, <2>2 DEF B
<1> QED
  BY <1>3, <1>4, <1>8, <1>12 DEF n

(* The same text without the characters that change no number.             *)
Keeps(text, g) ==
  g = [i \in 0 .. Len(text) |->
         IF i = 0 THEN <<>> ELSE IF Idle(text, i) THEN g[i - 1] ELSE Append(g[i - 1], text[i])]

(* Plain is the last value of that function.                               *)
LEMMA PlainChosen ==
  ASSUME NEW C, NEW text \in Seq(C)
  PROVE  \E g : Keeps(text, g) /\ Plain(text) = g[Len(text)]
<1> DEFINE n == Len(text)
           step == [i \in 0 + 1 .. n |-> [s \in Seq(C) |->
                      IF Idle(text, i) THEN s ELSE Append(s, text[i])]]
<1>1. n \in Nat /\ \A i \in 1 .. n : text[i] \in C
  OBVIOUS
<1>2. step \in [0 + 1 .. n -> [Seq(C) -> Seq(C)]]
  <2>1. \A i \in 0 + 1 .. n : text[i] \in C
    BY <1>1
  <2>2. \A i \in 0 + 1 .. n : \A s \in Seq(C) : Append(s, text[i]) \in Seq(C)
    BY <2>1, AppendProperties
  <2>3. \A i \in 0 + 1 .. n :
          [s \in Seq(C) |-> IF Idle(text, i) THEN s ELSE Append(s, text[i])] \in [Seq(C) -> Seq(C)]
    BY <2>2
  <2> QED
    BY <2>3
<1>3. \A i \in 0 + 1 .. n : \A s \in Seq(C) :
        step[i][s] = IF Idle(text, i) THEN s ELSE Append(s, text[i])
  OBVIOUS
<1>4. 0 \in Int /\ n \in Int /\ 0 <= n
  BY <1>1
<1> HIDE DEF step, n
<1>5. PICK none \in Seq(C) : none = <<>>
  BY EmptySeq, Zenon
<1>6. PICK g \in [0 .. n -> Seq(C)] : IsRecursion(g, 0, n, none, step)
  BY <1>2, <1>4, RecursionExists
<1>7. ASSUME NEW i \in 0 .. n, i # 0
      PROVE  step[i][g[i - 1]] = IF Idle(text, i) THEN g[i - 1] ELSE Append(g[i - 1], text[i])
  <2>1. i \in 0 + 1 .. n /\ i - 1 \in 0 .. n
    BY <1>4, <1>7
  <2>2. g[i - 1] \in Seq(C)
    BY <2>1
  <2> QED
    BY <1>3, <2>1, <2>2
<1>8. [i \in 0 .. n |-> IF i = 0 THEN none ELSE step[i][g[i - 1]]]
      = [i \in 0 .. n |-> IF i = 0 THEN none
           ELSE IF Idle(text, i) THEN g[i - 1] ELSE Append(g[i - 1], text[i])]
  BY <1>7
<1>9. Keeps(text, g)
  BY <1>5, <1>6, <1>8, Zenon DEF Keeps, IsRecursion, n
<1>10. Plain(text) = (CHOOSE h : Keeps(text, h))[Len(text)]
  BY DEF Plain, Keeps
<1> QED
  BY <1>9, <1>10

(* The rows of the first moves of a history.                               *)
RowOf(h, k) == encodeMoves(SubSeq(h, 1, k))
LeadTo(h, k) == IF k = 1 THEN <<>> ELSE Append(RowOf(h, k - 1), Comma)

(* A row, seen from its last move: a comma, a mark and a digit.            *)
LEMMA RowGrows ==
  ASSUME NEW h \in Seq(LegalMove), NEW k \in 1 .. Len(h)
  PROVE  /\ LeadTo(h, k) \in Seq(Characters) /\ RowOf(h, k) \in Seq(Characters)
         /\ RowOf(h, k) = Append(Append(LeadTo(h, k), h[k].mark), digits[h[k].cell + 1])
         /\ RowOf(h, Len(h)) = encodeMoves(h)
<1> DEFINE g == SubSeq(h, 1, k - 1)
           mv == h[k]
           m == mv.mark
           d == digits[mv.cell + 1]
<1>1. mv \in LegalMove /\ k \in Int /\ k - 1 \in Int /\ 1 \in Int /\ Len(h) \in Nat
  BY ElementOfSeq, LenProperties
<1>2. g \in Seq(LegalMove) /\ Len(g) = k - 1
  <2>1. \A i \in 1 .. k - 1 : h[i] \in LegalMove
    <3>1. \A i \in 1 .. k - 1 : i \in 1 .. Len(h)
      BY <1>1
    <3> QED
      BY <3>1, ElementOfSeq
  <2>2. g \in Seq(LegalMove) /\ Len(g) = IF 1 <= k - 1 THEN (k - 1) - 1 + 1 ELSE 0
    BY <1>1, <2>1, SubSeqProperties
  <2> QED
    BY <1>1, <2>2
<1>3. SubSeq(h, 1, k) = Append(g, mv)
  <2>1. 1 \in 1 .. Len(h) /\ k \in 1 .. Len(h)
    BY <1>1
  <2>2. SubSeq(h, 1, k) = g \o <<mv>>
    BY <2>1, SubSeqRecursiveSecond
  <2>3. Append(g, mv) = g \o <<mv>>
    BY <1>1, <1>2, AppendIsConcat
  <2> QED
    BY <2>2, <2>3
<1>4. RowOf(h, k) = RowOf(h, k - 1) \o Piece(k, mv)
  <2>1. encodeMoves(Append(g, mv)) = encodeMoves(g) \o Piece(Len(g) + 1, mv)
    BY <1>1, <1>2, EncodeStep
  <2>2. Len(g) + 1 = k
    BY <1>1, <1>2
  <2> QED
    BY <1>3, <2>1, <2>2 DEF RowOf
<1>5. /\ part(mv) = <<m, d>> /\ m \in Characters /\ d \in Characters /\ Comma \in Characters
  BY <1>1, PartOfMove DEF Comma
<1>6. RowOf(h, k - 1) \in Seq(Characters) /\ RowOf(h, k) \in Seq(Characters)
  <2>1. Append(g, mv) \in Seq(LegalMove)
    BY <1>1, <1>2, AppendProperties
  <2> QED
    BY <1>2, <1>3, <2>1, RowParted DEF RowOf, Parted
<1>7. k = 1 => RowOf(h, k - 1) = <<>>
  <2>1. k = 1 => g = <<>>
    BY <1>1, <1>2, EmptySeq
  <2> QED
    BY <2>1, EncodeStep DEF RowOf
<1>8. LeadTo(h, k) \in Seq(Characters)
  <2>1. <<>> \in Seq(Characters)
    BY EmptySeq
  <2>2. Append(RowOf(h, k - 1), Comma) \in Seq(Characters)
    BY <1>5, <1>6, AppendProperties
  <2> QED
    BY <2>1, <2>2 DEF LeadTo
<1> HIDE DEF g, mv, m, d
<1>9. RowOf(h, k) = Append(Append(LeadTo(h, k), m), d)
  <2>1. PICK none \in Seq(Characters) : none = <<>>
    BY EmptySeq, Zenon
  <2>2. PICK two \in Seq(Characters) : two = <<m, d>> /\ two = Append(Append(none, m), d)
                                       /\ Append(none, m) \in Seq(Characters)
    <3>1. Append(Append(none, m), d) = <<m, d>> /\ Append(none, m) \in Seq(Characters)
      BY <1>5, <2>1, PairAppended
    <3>2. Append(Append(none, m), d) \in Seq(Characters)
      BY <1>5, <3>1, AppendProperties
    <3> QED
      BY <3>1, <3>2
  <2>3. \A s \in Seq(Characters) : s \o two = Append(Append(s, m), d)
    <3> SUFFICES ASSUME NEW s \in Seq(Characters) PROVE s \o two = Append(Append(s, m), d)
      OBVIOUS
    <3> QED
      BY <1>5, <2>2, TwoAppended
  <2>4. CASE k = 1
    <3>1. Piece(k, mv) = none \o two
      BY <1>5, <2>1, <2>2, <2>4, Zenon DEF Piece
    <3>2. RowOf(h, k) = none \o (none \o two)
      BY <1>4, <1>7, <2>1, <2>4, <3>1
    <3>3. none \o (none \o two) = none \o two
      BY <2>1, ConcatEmptySeq
    <3>4. LeadTo(h, k) = none
      BY <2>1, <2>4 DEF LeadTo
    <3> QED
      BY <2>3, <3>2, <3>3, <3>4
  <2>5. CASE k # 1
    <3>1. Piece(k, mv) = <<Comma>> \o two
      BY <1>5, <2>2, <2>5, Zenon DEF Piece, Comma
    <3>2. PICK a \in Seq(Characters) : a = <<Comma>>
      <4>1. <<Comma>> \in Seq(Characters)
        BY <1>5
      <4> QED
        BY <4>1
    <3>3. RowOf(h, k) = (RowOf(h, k - 1) \o <<Comma>>) \o two
      <4>1. PICK r \in Seq(Characters) : r = RowOf(h, k - 1)
        BY <1>6, Zenon
      <4>2. (r \o a) \o two = r \o (a \o two)
        BY ConcatAssociative
      <4> QED
        BY <1>4, <3>1, <3>2, <4>1, <4>2, Zenon
    <3>4. RowOf(h, k - 1) \o <<Comma>> = LeadTo(h, k)
      BY <1>5, <1>6, <2>5, AppendIsConcat DEF LeadTo
    <3> QED
      BY <1>8, <2>3, <3>3, <3>4
  <2> QED
    BY <2>4, <2>5
<1>10. RowOf(h, Len(h)) = encodeMoves(h)
  BY SubSeqFull DEF RowOf
<1> QED
  BY <1>6, <1>8, <1>9, <1>10 DEF m, d, mv

(* Signs and zeros, which may change no number.                            *)
Skipped == {"+", "-", "0"}

(* Which characters Plain passes over.                                     *)
LEMMA IdleFacts ==
  ASSUME NEW text, NEW i \in Nat, Len(text) \in Nat
  PROVE  /\ text[i] \in Players => ~Idle(text, i)
         /\ text[i] = Comma => ~Idle(text, i)
         /\ i = Len(text) => ~Idle(text, i)
         /\ text[i + 1] = Comma => ~Idle(text, i)
         /\ text[i] \in Skipped /\ i < Len(text) /\ text[i + 1] \in Digit => Idle(text, i)
<1>1. Idle(text, i) <=> text[i] \in Skipped /\ i < Len(text) /\ text[i + 1] \in Digit
  BY DEF Idle, Skipped, Digit
<1>2. \A c \in Players : c \notin Skipped
  BY DEF Players, X, O, Skipped
<1>3. Comma \notin Skipped
  BY DEF Comma, Skipped
<1>4. Comma \notin Digit
  BY Digits DEF Comma
<1> QED
  BY <1>1, <1>2, <1>3, <1>4

(* What one move may look like in a text that is accepted.                 *)
ReadsAs(p, mv) ==
  /\ Len(p) \in Nat /\ Len(p) >= 2
  /\ p[1] = mv.mark
  /\ \A i \in 3 .. Len(p) : p[i] \in Digit
  /\ p[Len(p)] = digits[mv.cell + 1]
  /\ \A i \in 2 .. Len(p) - 1 : p[i] \in Skipped

(* A text that is accepted is made of parts that look like legal moves.    *)
LEMMA AcceptedParts ==
  ASSUME NEW C, NEW text \in Seq(C), text # <<>>,
         decodeMoves(text) # Unreadable, RestoreMatch(decodeMoves(text)) # Corrupt
  PROVE  LET moves == decodeMoves(text) z == Split(text) IN
         /\ moves \in Seq(LegalMove) /\ Len(moves) = Len(z)
         /\ \A k \in 1 .. Len(z) : ReadsAs(z[k], moves[k])
<1> DEFINE z == Split(text)
           moves == decodeMoves(text)
           n == Len(z)
<1>1. z \in Parts(C)
  <2>1. PICK f : Splits(text, f) /\ Split(text) = f[Len(text)]
    BY SplitChosen
  <2>2. \A j \in 0 .. Len(text) : f[j] \in Parts(C)
    BY <2>1, PartsSoFar
  <2>3. Len(text) \in 0 .. Len(text)
    BY LenProperties
  <2> QED
    BY <2>1, <2>2, <2>3
<1>2. /\ z \in Seq(Seq(C)) /\ n \in Nat /\ DOMAIN z = 1 .. n
      /\ \A k \in 1 .. n : z[k] \in Seq(C)
  BY <1>1, PartsTyped, LenProperties
<1>3. moves = IF \E k \in DOMAIN z : ~Readable(z[k]) THEN Unreadable
              ELSE [k \in DOMAIN z |-> [mark |-> parseMark(z[k][1]), cell |-> Atoi(Tail(z[k]))]]
  BY DEF decodeMoves
<1> HIDE DEF z, moves, n
<1>4. \A k \in 1 .. n : Readable(z[k])
  BY <1>2, <1>3 DEF moves
<1>5. moves = [k \in 1 .. n |-> [mark |-> parseMark(z[k][1]), cell |-> Atoi(Tail(z[k]))]]
  BY <1>2, <1>3, <1>4
<1>6. ASSUME NEW k \in 1 .. n
      PROVE  /\ Len(z[k]) \in Nat /\ Len(z[k]) >= 2
             /\ z[k][1] \in Players /\ parseMark(z[k][1]) = z[k][1]
             /\ Atoi(Tail(z[k])) \in Int
             /\ \A i \in 3 .. Len(z[k]) : z[k][i] \in Digit
             /\ Atoi(Tail(z[k])) \in Cells =>
                  /\ z[k][Len(z[k])] = digits[Atoi(Tail(z[k])) + 1]
                  /\ \A i \in 2 .. Len(z[k]) - 1 : z[k][i] \in Skipped
  BY <1>2, <1>4, ReadablePart DEF Skipped
<1>7. moves \in Seq(StoredMove) /\ Len(moves) = n
  <2>1. \A k \in 1 .. n :
          [mark |-> parseMark(z[k][1]), cell |-> Atoi(Tail(z[k]))] \in StoredMove
    BY <1>6 DEF StoredMove
  <2>2. moves \in [1 .. n -> StoredMove]
    BY <1>5, <2>1
  <2> QED
    BY <1>2, <2>2
<1>8. LegalGame(moves)
  BY <1>7, HistoryRestored DEF Restored, moves
<1>9. \A k \in 1 .. n : moves[k].cell \in Cells
  <2>1. DOMAIN moves = 1 .. n
    BY <1>5
  <2> QED
    BY <1>7, <1>8, <2>1 DEF LegalGame
<1>10. \A k \in 1 .. n : moves[k].mark = z[k][1] /\ moves[k].cell = Atoi(Tail(z[k]))
                         /\ moves[k] \in StoredMove
  BY <1>5, <1>6, <1>7, ElementOfSeq
<1>11. moves \in Seq(LegalMove)
  <2>1. \A k \in 1 .. n : moves[k] \in LegalMove
    BY <1>9, <1>10 DEF LegalMove, StoredMove
  <2> QED
    BY <1>2, <1>5, <2>1
<1>12. \A k \in 1 .. n : ReadsAs(z[k], moves[k])
  BY <1>6, <1>9, <1>10 DEF ReadsAs
<1> QED
  BY <1>7, <1>11, <1>12 DEF z, moves, n

(* The next character, seen from the parts of the whole text.              *)
ReadOn(a, b, z, c) ==
  LET k == Len(a) l == Len(a[k]) IN
  /\ k \in 1 .. Len(z) /\ l \in Nat
  /\ c = Comma => /\ Len(z[k]) = l /\ k + 1 \in 1 .. Len(z)
                  /\ Len(b) = k + 1 /\ Len(b[k + 1]) = 0
  /\ c # Comma => /\ Len(b) = k /\ Len(b[k]) = l + 1
                  /\ Len(z[k]) >= l + 1 /\ z[k][l + 1] = c

(* A comma ends a part of the whole text; any other character belongs to   *)
(* the part that is being read.                                            *)
LEMMA NextCharacter ==
  ASSUME NEW C, NEW text \in Seq(C), NEW f, Splits(text, f), NEW j \in 0 .. Len(text) - 1
  PROVE  ReadOn(f[j], f[j + 1], f[Len(text)], text[j + 1])
<1> DEFINE a == f[j]
           b == f[j + 1]
           z == f[Len(text)]
           c == text[j + 1]
           k == Len(a)
           l == Len(a[k])
<1>1. /\ j \in 0 .. Len(text) /\ j + 1 \in 0 .. Len(text) /\ Len(text) \in 0 .. Len(text)
      /\ j + 1 \in 1 .. Len(text)
  BY LenProperties
<1>2. c \in C
  BY <1>1, ElementOfSeq
<1>3. /\ a \in Parts(C) /\ b \in Parts(C) /\ z \in Parts(C)
      /\ Extends(a, z) /\ Extends(b, z) /\ b = OneMore(a, c)
  BY <1>1, PartsSoFar
<1> HIDE DEF a, b, z, c
<1>4. /\ c = Comma => Len(b) = k + 1 /\ b[k] = a[k] /\ Len(b[k + 1]) = 0
      /\ c # Comma => Len(b) = k /\ Len(b[k]) = l + 1 /\ b[k][l + 1] = c
  <2>1. Grown(a, b, c)
    BY <1>2, <1>3, OneMoreExtends
  <2> QED
    BY <2>1, Zenon DEF Grown
<1>5. /\ k \in Nat /\ k >= 1 /\ l \in Nat /\ Len(z) \in Nat
      /\ Len(z) >= Len(b) /\ Len(z) >= k
      /\ \A m \in 1 .. Len(b) - 1 : z[m] = b[m]
      /\ Len(z[Len(b)]) >= Len(b[Len(b)])
      /\ \A x \in 1 .. Len(b[Len(b)]) : z[Len(b)][x] = b[Len(b)][x]
  <2>1. k \in Nat /\ k >= 1 /\ \A m \in 1 .. k : Len(a[m]) \in Nat
    BY <1>3, PartsTyped
  <2>2. k \in 1 .. k
    BY <2>1
  <2>3. Len(z) \in Nat
    BY <1>3, PartsTyped
  <2> QED
    BY <1>3, <2>1, <2>2, <2>3 DEF Extends
<1> HIDE DEF k, l
<1>6. k \in 1 .. Len(z)
  BY <1>5
<1>7. ASSUME c = Comma
      PROVE  /\ Len(z[k]) = l /\ k + 1 \in 1 .. Len(z)
             /\ Len(b) = k + 1 /\ Len(b[k + 1]) = 0
  <2>1. Len(b) = k + 1 /\ b[k] = a[k] /\ Len(b[k + 1]) = 0
    BY <1>4, <1>7
  <2>2. k \in 1 .. Len(b) - 1 /\ k + 1 \in 1 .. Len(z)
    BY <1>5, <2>1
  <2> QED
    BY <1>5, <2>1, <2>2 DEF l
<1>8. ASSUME c # Comma
      PROVE  /\ Len(b) = k /\ Len(b[k]) = l + 1
             /\ Len(z[k]) >= l + 1 /\ z[k][l + 1] = c
  <2>1. Len(b) = k /\ Len(b[k]) = l + 1 /\ b[k][l + 1] = c
    BY <1>4, <1>8
  <2>2. l + 1 \in 1 .. Len(b[k])
    BY <1>5, <2>1
  <2> QED
    BY <1>5, <2>1, <2>2
<1> QED
  BY <1>5, <1>6, <1>7, <1>8 DEF ReadOn, a, b, z, c, k, l

(* How far the text without its idle characters has come by then.          *)
Spelt(a, z, moves) ==
  LET k == Len(a) l == Len(a[k]) IN
  IF l = 0 THEN LeadTo(moves, k)
  ELSE IF l < Len(z[k]) THEN Append(LeadTo(moves, k), moves[k].mark)
  ELSE RowOf(moves, k)

(* One character more, spelt as the game it will be read as.               *)
LEMMA SpeltOneMore ==
  ASSUME NEW C, NEW text \in Seq(C), NEW f, Splits(text, f), NEW g, Keeps(text, g),
         NEW moves \in Seq(LegalMove), Len(moves) = Len(f[Len(text)]),
         \A k \in 1 .. Len(moves) : ReadsAs(f[Len(text)][k], moves[k]),
         NEW j \in 0 .. Len(text) - 1,
         g[j] = Spelt(f[j], f[Len(text)], moves)
  PROVE  g[j + 1] = Spelt(f[j + 1], f[Len(text)], moves)
<1> DEFINE n == Len(text)
           a == f[j]
           b == f[j + 1]
           z == f[n]
           c == text[j + 1]
           k == Len(a)
           l == Len(a[k])
           mv == moves[k]
           p == z[k]
<1>1. n \in Nat /\ j \in Nat /\ j + 1 \in Nat /\ j + 1 <= n /\ j + 1 \in 0 .. n /\ j + 1 # 0
      /\ (j + 1) - 1 = j
  BY LenProperties
<1>2. g[j + 1] = IF Idle(text, j + 1) THEN g[j] ELSE Append(g[j], c)
  <2>1. \A i \in 0 .. n : g[i] =
          IF i = 0 THEN <<>> ELSE IF Idle(text, i) THEN g[i - 1] ELSE Append(g[i - 1], text[i])
    BY DEF Keeps
  <2> HIDE DEF n
  <2> QED
    BY <1>1, <2>1
<1>3. ReadOn(a, b, z, c)
  BY NextCharacter
<1>4. ASSUME j + 2 <= n
      PROVE  j + 1 \in 0 .. n - 1 /\ ReadOn(b, f[j + 2], z, text[j + 2])
  <2>1. j + 1 \in 0 .. n - 1 /\ (j + 1) + 1 = j + 2
    BY <1>1, <1>4
  <2>2. ReadOn(f[j + 1], f[(j + 1) + 1], f[Len(text)], text[(j + 1) + 1])
    BY <2>1, NextCharacter
  <2> QED
    BY <2>1, <2>2
<1>5. j + 1 = n => b = z
  OBVIOUS
<1>6. (j + 1) + 1 = j + 2
  BY <1>1
<1>7. /\ text[j + 1] \in Players => ~Idle(text, j + 1)
      /\ text[j + 1] = Comma => ~Idle(text, j + 1)
      /\ j + 1 = n => ~Idle(text, j + 1)
      /\ text[j + 2] = Comma => ~Idle(text, j + 1)
      /\ text[j + 1] \in Skipped /\ j + 1 < n /\ text[j + 2] \in Digit => Idle(text, j + 1)
  BY <1>1, <1>6, IdleFacts
<1>8. g[j] = Spelt(a, z, moves)
  OBVIOUS
<1>9. Len(moves) = Len(z) /\ \A i \in 1 .. Len(z) : ReadsAs(z[i], moves[i])
  OBVIOUS
<1> HIDE DEF n, a, b, z, c
<1>10. /\ k \in 1 .. Len(z) /\ l \in Nat /\ k \in Nat
       /\ c = Comma => /\ Len(p) = l /\ k + 1 \in 1 .. Len(z)
                       /\ Len(b) = k + 1 /\ Len(b[k + 1]) = 0
       /\ c # Comma => /\ Len(b) = k /\ Len(b[k]) = l + 1
                       /\ Len(p) >= l + 1 /\ p[l + 1] = c
  BY <1>3 DEF ReadOn
<1>11. ReadsAs(p, mv) /\ k \in 1 .. Len(moves)
  BY <1>9, <1>10
<1>12. RowOf(moves, k) = Append(Append(LeadTo(moves, k), mv.mark), digits[mv.cell + 1])
  BY <1>11, RowGrows
<1>13. mv \in LegalMove
  BY <1>11, ElementOfSeq
<1>14. g[j] = IF l = 0 THEN LeadTo(moves, k)
              ELSE IF l < Len(p) THEN Append(LeadTo(moves, k), mv.mark)
              ELSE RowOf(moves, k)
  BY <1>8 DEF Spelt
<1> HIDE DEF k, l, mv, p
<1>15. Len(p) \in Nat /\ Len(p) >= 2 /\ p[1] = mv.mark
       /\ (\A i \in 3 .. Len(p) : p[i] \in Digit)
       /\ p[Len(p)] = digits[mv.cell + 1]
       /\ (\A i \in 2 .. Len(p) - 1 : p[i] \in Skipped)
  BY <1>11 DEF ReadsAs
<1>16. CASE c = Comma
  <2>1. Len(p) = l /\ Len(b) = k + 1 /\ Len(b[k + 1]) = 0
    BY <1>10, <1>16
  <2>2. g[j] = RowOf(moves, k)
    BY <1>10, <1>14, <1>15, <2>1
  <2>3. g[j + 1] = Append(RowOf(moves, k), Comma)
    BY <1>2, <1>7, <1>16, <2>2 DEF c
  <2>4. LeadTo(moves, k + 1) = Append(RowOf(moves, k), Comma)
    <3>1. k + 1 # 1 /\ (k + 1) - 1 = k
      BY <1>10
    <3> QED
      BY <3>1 DEF LeadTo
  <2>5. Spelt(b, z, moves) = LeadTo(moves, k + 1)
    BY <2>1 DEF Spelt
  <2> QED
    BY <2>3, <2>4, <2>5 DEF b, z, n
<1>17. CASE c # Comma
  <2>1. Len(b) = k /\ Len(b[k]) = l + 1 /\ Len(p) >= l + 1 /\ p[l + 1] = c
    BY <1>10, <1>17
  <2>2. Spelt(b, z, moves) = IF l + 1 = 0 THEN LeadTo(moves, k)
                              ELSE IF l + 1 < Len(p) THEN Append(LeadTo(moves, k), mv.mark)
                              ELSE RowOf(moves, k)
    BY <2>1 DEF Spelt, p, mv
  <2>3. l + 1 # 0
    BY <1>10
  <2>4. ASSUME j + 2 <= n
        PROVE  /\ text[j + 2] = Comma => Len(p) = l + 1
               /\ text[j + 2] # Comma => Len(p) >= l + 2 /\ p[l + 2] = text[j + 2]
    <3>1. (l + 1) + 1 = l + 2
      BY <1>10
    <3> QED
      BY <1>4, <2>1, <2>4, <3>1 DEF ReadOn, p
  <2>5. CASE l = 0
    <3>1. c = mv.mark
      BY <1>15, <2>1, <2>5
    <3>2. ~Idle(text, j + 1)
      BY <1>7, <1>13, <3>1 DEF LegalMove, c
    <3>3. g[j + 1] = Append(LeadTo(moves, k), mv.mark)
      BY <1>2, <1>14, <2>5, <3>1, <3>2
    <3>4. l + 1 < Len(p)
      BY <1>15, <2>5
    <3> QED
      BY <2>2, <2>3, <3>3, <3>4 DEF b, z, n
  <2>6. CASE l # 0 /\ l + 1 < Len(p)
    <3>1. j + 2 <= n /\ j + 1 < n
      <4>1. j + 1 # n
        <5>1. j + 1 = n => Len(p) = l + 1
          BY <1>5, <2>1 DEF p
        <5> QED
          BY <1>10, <1>15, <2>6, <5>1
      <4> QED
        BY <1>1, <4>1 DEF n
    <3>2. text[j + 2] # Comma /\ p[l + 2] = text[j + 2]
      BY <1>10, <1>15, <2>4, <2>6, <3>1
    <3>3. l + 2 \in 3 .. Len(p) /\ l + 1 \in 2 .. Len(p) - 1
      BY <1>10, <1>15, <2>6
    <3>4. c \in Skipped /\ text[j + 2] \in Digit
      BY <1>15, <2>1, <3>2, <3>3
    <3>5. g[j + 1] = g[j]
      BY <1>2, <1>7, <3>1, <3>4 DEF c
    <3>6. l < Len(p)
      BY <1>10, <1>15, <2>6
    <3> QED
      BY <1>14, <2>2, <2>3, <2>6, <3>5, <3>6 DEF b, z, n
  <2>7. CASE l # 0 /\ ~(l + 1 < Len(p))
    <3>1. Len(p) = l + 1 /\ l < Len(p)
      BY <1>10, <1>15, <2>1, <2>7
    <3>2. c = digits[mv.cell + 1]
      BY <1>15, <2>1, <3>1
    <3>3. ~Idle(text, j + 1)
      <4>1. CASE j + 1 = n
        BY <1>7, <4>1
      <4>2. CASE j + 1 # n
        <5>1. j + 2 <= n
          BY <1>1, <4>2 DEF n
        <5>2. text[j + 2] = Comma
          BY <1>10, <2>4, <3>1, <5>1
        <5> QED
          BY <1>7, <5>2
      <4> QED
        BY <4>1, <4>2
    <3>4. g[j + 1] = Append(Append(LeadTo(moves, k), mv.mark), digits[mv.cell + 1])
      BY <1>2, <1>14, <2>7, <3>1, <3>2, <3>3
    <3> QED
      BY <1>12, <2>2, <2>3, <2>7, <3>4 DEF b, z, n
  <2> QED
    BY <2>5, <2>6, <2>7
<1> QED
  BY <1>16, <1>17

(* Whatever text decodeMoves and RestoreMatch accept between them spells   *)
(* the very game they make of it, but for signs and leading zeros that     *)
(* change no number.  (A text that spells another game is read as that.)   *)
THEOREM NeverMisread ==
  ASSUME NEW C, NEW text \in Seq(C),
         decodeMoves(text) # Unreadable, RestoreMatch(decodeMoves(text)) # Corrupt
  PROVE  encodeMoves(decodeMoves(text)) = Plain(text)
<1> DEFINE n == Len(text)
           moves == decodeMoves(text)
<1>1. n \in Nat
  BY LenProperties
<1>2. PICK g : Keeps(text, g) /\ Plain(text) = g[n]
  BY PlainChosen
<1>3. g[0] = <<>>
  BY <1>1, <1>2 DEF Keeps
<1>4. CASE text = <<>>
  <2>1. moves = <<>> /\ n = 0
    BY <1>4 DEF decodeMoves
  <2> QED
    BY <1>2, <1>3, <2>1, EncodeStep
<1>5. CASE text # <<>>
  <2>1. PICK f : Splits(text, f) /\ Split(text) = f[n]
    BY SplitChosen
  <2>2. /\ moves \in Seq(LegalMove) /\ Len(moves) = Len(f[n])
        /\ \A k \in 1 .. Len(moves) : ReadsAs(f[n][k], moves[k])
    <3>1. LET m == decodeMoves(text) z == Split(text) IN
          /\ m \in Seq(LegalMove) /\ Len(m) = Len(z)
          /\ \A k \in 1 .. Len(z) : ReadsAs(z[k], m[k])
      BY <1>5, AcceptedParts
    <3> QED
      BY <2>1, <3>1
  <2>3. f[n] \in Parts(C) /\ f[0] = << <<>> >>
    <3>1. n \in 0 .. n
      BY <1>1
    <3> QED
      BY <2>1, <3>1, PartsSoFar
  <2> HIDE DEF moves
  <2> DEFINE S == {j \in Nat : j <= n => g[j] = Spelt(f[j], f[n], moves)}
  <2>4. 0 \in S
    <3>1. Len(f[0]) = 1 /\ Len(f[0][1]) = 0
      BY <2>3
    <3>2. Spelt(f[0], f[n], moves) = LeadTo(moves, 1)
      BY <3>1 DEF Spelt
    <3> QED
      BY <1>3, <3>2 DEF LeadTo
  <2>5. ASSUME NEW j \in Nat, j \in S PROVE j + 1 \in S
    <3> SUFFICES ASSUME j + 1 <= n PROVE g[j + 1] = Spelt(f[j + 1], f[n], moves)
      OBVIOUS
    <3>1. j \in 0 .. n - 1 /\ g[j] = Spelt(f[j], f[n], moves)
      BY <1>1, <2>5
    <3> QED
      BY <1>2, <2>1, <2>2, <3>1, SpeltOneMore
  <2> HIDE DEF S
  <2>6. \A j \in Nat : j \in S
    BY <2>4, <2>5, SetInduction
  <2>7. g[n] = Spelt(f[n], f[n], moves)
    BY <1>1, <2>6 DEF S
  <2>8. Len(moves) \in Nat /\ Len(moves) >= 1 /\ Len(moves) \in 1 .. Len(moves)
    <3>1. Len(f[n]) \in Nat /\ Len(f[n]) >= 1
      BY <2>3, PartsTyped
    <3> QED
      BY <2>2, <3>1
  <2>9. Len(f[n][Len(moves)]) \in Nat /\ Len(f[n][Len(moves)]) >= 2
    BY <2>2, <2>8 DEF ReadsAs
  <2>10. Spelt(f[n], f[n], moves) = RowOf(moves, Len(moves))
    BY <2>2, <2>9 DEF Spelt
  <2>11. RowOf(moves, Len(moves)) = encodeMoves(moves)
    BY <2>2, <2>8, RowGrows
  <2> QED
    BY <1>2, <2>7, <2>10, <2>11 DEF moves
<1> QED
  BY <1>4, <1>5

----------------------------------------------------------------------------
(* The match that was played is the replay of its own history.             *)
HistoryInv ==
  /\ Inv
  /\ match.moves \in Seq(LegalMove)
  /\ RestoreMatch(match.moves) = match

(* A legal move is a stored move, and a legal history a stored one.        *)
LEMMA StoredMoves == /\ LegalMove \subseteq StoredMove
                     /\ Seq(LegalMove) \subseteq Seq(StoredMove)
<1>1. LegalMove \subseteq StoredMove
  BY DEF LegalMove, StoredMove, Cells, BoardSize, Side
<1>2. ASSUME NEW h \in Seq(LegalMove) PROVE h \in Seq(StoredMove)
  <2>1. Len(h) \in Nat /\ h \in [1 .. Len(h) -> LegalMove]
    BY LenProperties
  <2>2. h \in [1 .. Len(h) -> StoredMove]
    BY <1>1, <2>1
  <2> QED
    BY <2>1, <2>2
<1> QED
  BY <1>1, <1>2

(* A new match has no history.                                             *)
LEMMA HistoryInit == Init => HistoryInv
<1> SUFFICES ASSUME Init PROVE HistoryInv
  OBVIOUS
<1>1. match = NewMatch /\ match.moves = <<>>
  BY DEF Init, NewMatch
<1>2. <<>> \in Seq(LegalMove)
  BY EmptySeq
<1> QED
  BY <1>1, <1>2, InvInit, RestoreStep DEF HistoryInv

(* An accepted call is the replay of the move it records.                  *)
LEMMA HistoryNext == HistoryInv /\ [Next]_vars => HistoryInv'
<1> SUFFICES ASSUME HistoryInv, [Next]_vars PROVE HistoryInv'
  OBVIOUS
<1>1. Inv /\ Inv'
  BY InvNext DEF HistoryInv
<1>2. ASSUME NEW p \in Person, NEW cell \in WireCells, ApplyMove(p, cell)
      PROVE  HistoryInv'
  <2> DEFINE mv == [mark |-> MarkOf(p), cell |-> cell]
  <2>1. MoveError(match, p, cell) = "none" /\ match' = Played(match, p, cell)
    BY <1>2 DEF ApplyMove
  <2>2. MarkOf(p) \in Players /\ cell \in Cells
    BY <1>1, <2>1, AcceptedCall
  <2>3. mv \in LegalMove /\ mv \in StoredMove /\ match.moves \in Seq(StoredMove)
    BY <2>2, StoredMoves DEF LegalMove, HistoryInv
  <2>4. MarkOf(PlayerOf(mv.mark)) = MarkOf(p)
    BY <2>2, PlayerOfMark
  <2>5. /\ MoveError(match, PlayerOf(mv.mark), mv.cell) = "none"
        /\ Played(match, PlayerOf(mv.mark), mv.cell) = match'
    BY <2>1, <2>4 DEF MoveError, Played
  <2>6. match # Corrupt
    <3>1. match.status \in Status /\ Corrupt.status = "corrupt"
      BY <1>1 DEF Inv, TypeOK, Corrupt, NewMatch
    <3> QED
      BY <3>1 DEF Status
  <2>7. match'.moves = Append(match.moves, mv)
    BY <2>1 DEF Played
  <2> HIDE DEF mv
  <2>8. RestoreMatch(match'.moves) = Replay(match, mv)
    BY <2>3, <2>7, RestoreStep DEF HistoryInv
  <2>9. RestoreMatch(match'.moves) = match'
    BY <2>5, <2>6, <2>8 DEF Replay
  <2>10. match'.moves \in Seq(LegalMove)
    BY <2>3, <2>7, AppendProperties DEF HistoryInv
  <2> QED
    BY <1>1, <2>9, <2>10 DEF HistoryInv
<1>3. CASE UNCHANGED vars
  BY <1>1, <1>3 DEF vars, HistoryInv
<1> QED
  BY <1>2, <1>3 DEF Next

(* Replaying the history of a match through RestoreMatch gives that very   *)
(* match, at every moment: board, turn, status and moves.                  *)
THEOREM HistoryReplays == Spec => []HistoryInv
BY HistoryInit, HistoryNext, PTL DEF Spec

(* RestoreMatch accepts a history of one stored move more exactly when it  *)
(* is a legal game, with no bound on the length and for any cells.         *)
THEOREM RestoreSound == Spec => []RestoreAcceptsLegalGamesOnly
<1>1. ASSUME HistoryInv PROVE RestoreAcceptsLegalGamesOnly
  <2> SUFFICES ASSUME NEW mark \in Players, NEW cell \in WireCells
               PROVE  LET h == Append(match.moves, [mark |-> mark, cell |-> cell])
                      IN RestoreMatch(h) # Corrupt <=> LegalGame(h)
    BY DEF RestoreAcceptsLegalGamesOnly
  <2>1. [mark |-> mark, cell |-> cell] \in StoredMove
    BY WireCellsAreIntegers DEF StoredMove
  <2>2. match.moves \in Seq(StoredMove)
    BY <1>1, StoredMoves DEF HistoryInv
  <2>3. Append(match.moves, [mark |-> mark, cell |-> cell]) \in Seq(StoredMove)
    BY <2>1, <2>2, AppendProperties
  <2> QED
    BY <2>3, HistoryRestored DEF Restored
<1> QED
  BY <1>1, HistoryReplays, PTL

(* What MatchStore.Save writes of a match at any moment, ByID reads and    *)
(* RestoreMatch replays into the very same match.                          *)
THEOREM StoredMatchSound == Spec => []StoredMatchReplays
<1>1. ASSUME HistoryInv PROVE StoredMatchReplays
  <2>1. match.status \in Status
    BY <1>1 DEF HistoryInv, Inv, TypeOK
  <2>2. parseStatus(match.status) = match.status /\ match.status # Unreadable
    BY <2>1, UnreadableIsNoValue DEF parseStatus, Status
  <2>3. decodeMoves(encodeMoves(match.moves)) = match.moves
    BY <1>1, EncodingRoundTrip DEF HistoryInv
  <2>4. match.moves # Unreadable
    BY <1>1, StoredMoves, UnreadableIsNoValue DEF HistoryInv, StoredMove
  <2>5. ByID(Save(match.status, match.moves)) = [status |-> match.status, moves |-> match.moves]
    BY <2>2, <2>3, <2>4 DEF ByID, Save
  <2> QED
    BY <1>1, <2>5 DEF StoredMatchReplays, HistoryInv
<1> QED
  BY <1>1, HistoryReplays, PTL

(* A damaged row is made of the characters of a row.                       *)
LEMMA DamagedTyped ==
  ASSUME NEW t \in Seq(Characters), NEW text \in Damaged(t)
  PROVE  text \in Seq(Characters)
<1>1. ASSUME NEW i \in Int, NEW j \in Int, \A k \in i .. j : k \in 1 .. Len(t)
      PROVE  SubSeq(t, i, j) \in Seq(Characters)
  <2>1. \A k \in i .. j : t[k] \in Characters
    BY <1>1, ElementOfSeq
  <2> QED
    BY <2>1, SubSeqProperties
<1>2. Len(t) \in Nat
  BY LenProperties
<1>3. CASE \E i \in 0 .. Len(t) : text = SubSeq(t, 1, i)
  BY <1>1, <1>2, <1>3
<1>4. CASE \E c \in Characters, i \in 0 .. Len(t), j \in 1 .. Len(t) + 1 :
             text = SubSeq(t, 1, i) \o <<c>> \o SubSeq(t, j, Len(t))
  <2>1. PICK c \in Characters, i \in 0 .. Len(t), j \in 1 .. Len(t) + 1 :
          text = SubSeq(t, 1, i) \o <<c>> \o SubSeq(t, j, Len(t))
    BY <1>4
  <2>2. SubSeq(t, 1, i) \in Seq(Characters) /\ SubSeq(t, j, Len(t)) \in Seq(Characters)
    BY <1>1, <1>2
  <2>3. <<c>> \in Seq(Characters)
    OBVIOUS
  <2>4. PICK a \in Seq(Characters), b \in Seq(Characters), d \in Seq(Characters) :
          a = SubSeq(t, 1, i) /\ b = <<c>> /\ d = SubSeq(t, j, Len(t))
    BY <2>2, <2>3
  <2>5. (a \o b) \o d \in Seq(Characters)
    BY ConcatProperties
  <2> QED
    BY <2>1, <2>4, <2>5
<1>5. \/ \E i \in 0 .. Len(t) : text = SubSeq(t, 1, i)
      \/ \E x \in (0 .. Len(t)) \X Characters \X (1 .. Len(t) + 1) :
           text = SubSeq(t, 1, x[1]) \o <<x[2]>> \o SubSeq(t, x[3], Len(t))
  BY Zenon DEF Damaged
<1>6. \A x \in (0 .. Len(t)) \X Characters \X (1 .. Len(t) + 1) :
        x[1] \in 0 .. Len(t) /\ x[2] \in Characters /\ x[3] \in 1 .. Len(t) + 1
  OBVIOUS
<1> QED
  BY <1>3, <1>4, <1>5, <1>6

(* A row damaged in a stretch of any length, of a match of any length, is  *)
(* refused or spells the game it is read as.                               *)
THEOREM DamagedRowSound == Spec => []AcceptedTextSpellsItsGame
<1>1. ASSUME HistoryInv PROVE AcceptedTextSpellsItsGame
  <2> SUFFICES ASSUME NEW text \in Damaged(encodeMoves(match.moves)),
                      decodeMoves(text) # Unreadable,
                      RestoreMatch(decodeMoves(text)) # Corrupt
               PROVE  encodeMoves(decodeMoves(text)) = Plain(text)
    BY DEF AcceptedTextSpellsItsGame
  <2>1. encodeMoves(match.moves) \in Seq(Characters)
    BY <1>1, RowParted DEF HistoryInv, Parted
  <2>2. text \in Seq(Characters)
    BY <2>1, DamagedTyped
  <2> QED
    BY <2>2, NeverMisread
<1> QED
  BY <1>1, HistoryReplays, PTL
=============================================================================

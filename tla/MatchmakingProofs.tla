------------------------- MODULE MatchmakingProofs -------------------------
(***************************************************************************)
(* Proofs about usecase.Matchmaking, for any number of players, matches    *)
(* and requests.  The queue never holds two players, so the two who leave  *)
(* it are the waiter and the newcomer; that makes the pairing explicit and *)
(* the rest a matter of where each player can be.                          *)
(***************************************************************************)
EXTENDS Matchmaking, SequenceTheorems, TLAPS

Inv ==
  /\ TypeOK
  /\ LoneWaiter
  /\ WaiterTakesX
  /\ OnePlaceEach

(* r has p in hand: it is about to queue p, or to seat p.                  *)
Holds(r, p) == Checking(r, p) \/ Pairs(r, p)

LEMMA StageCases ==
  ASSUME TypeOK, NEW r \in Request
  PROVE  \/ at[r] = Idle
         \/ \E p \in Player : at[r] = Checked(p)
         \/ \E x, o, p \in Player : at[r] = Pairing(x, o, p)
BY DEF TypeOK, Stages

LEMMA StagesTyped ==
  /\ Idle \in Stages
  /\ \A p \in Player : Checked(p) \in Stages
  /\ \A x, o, p \in Player : Pairing(x, o, p) \in Stages
BY DEF Stages

(* The stages, told apart by their fields.                                 *)
LEMMA StageFields ==
  /\ Idle.step = "idle"
  /\ \A p : Checked(p).step = "checked" /\ Checked(p).p = p
  /\ \A x, o, p : /\ Pairing(x, o, p).step = "pairing" /\ Pairing(x, o, p).x = x
                  /\ Pairing(x, o, p).o = o /\ Pairing(x, o, p).p = p
BY DEF Idle, Checked, Pairing

LEMMA CheckedPlayer ==
  ASSUME TypeOK, NEW r \in Request, at[r].step = "checked"
  PROVE  at[r].p \in Player /\ Checking(r, at[r].p)
BY StageCases, StageFields DEF Checking

LEMMA PairedPlayers ==
  ASSUME TypeOK, NEW r \in Request, at[r].step = "pairing"
  PROVE  at[r].x \in Player /\ at[r].o \in Player /\ at[r].p \in Player
BY StageCases, StageFields

LEMMA LoneElement ==
  ASSUME NEW S, NEW q \in Seq(S), q # <<>>, Len(q) <= 1
  PROVE  Len(q) = 1 /\ q[1] \in S /\ q = <<q[1]>>
<1>1. Len(q) = 1
  <2>1. Len(q) \in Nat \ {0}
    BY EmptySeq
  <2> QED
    BY <2>1
<1>2. q[1] \in S
  BY <1>1
<1>3. <<q[1]>> \in Seq(S) /\ Len(<<q[1]>>) = 1 /\ <<q[1]>>[1] = q[1]
  BY <1>2
<1>4. q = <<q[1]>>
  BY <1>1, <1>3, SeqEqual
<1> QED
  BY <1>1, <1>2, <1>4

LEMMA AppendToLone ==
  ASSUME NEW S, NEW v \in S, NEW w \in S
  PROVE  Append(<<v>>, w) = <<v, w>> /\ SubSeq(<<v, w>>, 3, Len(<<v, w>>)) = <<>>
<1>1. <<v>> \in Seq(S) /\ <<v, w>> \in Seq(S) /\ Len(<<v>>) = 1 /\ Len(<<v, w>>) = 2
  OBVIOUS
<1>2. /\ Append(<<v>>, w) \in Seq(S)
      /\ Len(Append(<<v>>, w)) = 2
      /\ Append(<<v>>, w)[1] = v
      /\ Append(<<v>>, w)[2] = w
  BY <1>1, AppendProperties
<1>3. Append(<<v>>, w) = <<v, w>>
  <2> DEFINE a == Append(<<v>>, w)
             b == <<v, w>>
  <2>1. \A i \in 1 .. Len(a) : a[i] = b[i]
    <3>1. 1 .. Len(a) = {1, 2}
      BY <1>2
    <3>2. a[1] = b[1] /\ a[2] = b[2]
      BY <1>2
    <3> QED
      BY <3>1, <3>2
  <2>2. a \in Seq(S) /\ b \in Seq(S) /\ Len(a) = Len(b)
    BY <1>1, <1>2
  <2> HIDE DEF a, b
  <2>3. a = b
    BY <2>1, <2>2, SeqEqual
  <2> QED
    BY <2>3 DEF a, b
<1>4. SubSeq(<<v, w>>, 3, 2) = <<>>
  BY <1>1, SubSeqEmpty
<1> QED
  BY <1>1, <1>3, <1>4

(* What Queued says of a short queue.                                      *)
LEMMA WhoWaits ==
  ASSUME TypeOK, LoneWaiter, NEW p
  PROVE  /\ queue = <<>> => ~Queued(p)
         /\ queue # <<>> => queue = <<queue[1]>> /\ queue[1] \in Player
         /\ queue # <<>> => (Queued(p) <=> p = queue[1])
<1>1. Queued(p) <=> \E i \in 1 .. Len(queue) : queue[i] = p
  BY DEF Queued, ToSet, TypeOK
<1>2. queue \in Seq(Player) /\ Len(queue) <= 1
  BY DEF TypeOK, LoneWaiter
<1>3. queue = <<>> => ~Queued(p)
  BY <1>1
<1>4. ASSUME queue # <<>>
      PROVE  /\ queue = <<queue[1]>> /\ queue[1] \in Player
             /\ Queued(p) <=> p = queue[1]
  <2>1. Len(queue) = 1 /\ queue[1] \in Player /\ queue = <<queue[1]>>
    BY <1>2, <1>4, LoneElement
  <2>2. Queued(p) <=> \E i \in {1} : queue[i] = p
    BY <1>1, <2>1
  <2> QED
    BY <2>1, <2>2
<1> QED
  BY <1>3, <1>4

(* OnePlaceEach, player by player.                                         *)
Placed(p) ==
  /\ Queued(p) => ~InMatch(p)
  /\ \A r \in Request : Holds(r, p) => ~InMatch(p) /\ ~Queued(p)
  /\ \A r, q \in Request : Holds(r, p) /\ Holds(q, p) => r = q

LEMMA OnePlace == OnePlaceEach <=> (~doubled => \A p \in Player : Placed(p))
BY DEF OnePlaceEach, Placed, Holds

----------------------------------------------------------------------------
(* A request that returns, or moves on, leaves the others where they are.  *)
LEMMA Elsewhere ==
  ASSUME TypeOK, NEW r \in Request, NEW s \in Stages, at' = [at EXCEPT ![r] = s]
  PROVE  /\ at' \in [Request -> Stages] /\ at'[r] = s
         /\ \A q \in Request : q # r => at'[q] = at[q]
         /\ \A q \in Request : \A p : q # r => (Holds(q, p)' <=> Holds(q, p))
BY DEF TypeOK, Holds, Checking, Pairs

LEMMA IdleHoldsNobody ==
  ASSUME NEW r \in Request, at[r] = Idle, NEW p
  PROVE  ~Holds(r, p)
BY StageFields DEF Holds, Checking, Pairs

LEMMA IdleHoldsNobodyNext ==
  ASSUME NEW r \in Request, at'[r] = Idle, NEW p
  PROVE  ~Holds(r, p)'
BY StageFields DEF Holds, Checking, Pairs

(* A step that only takes players away from where they are.                *)
LEMMA OnlyLeaving ==
  ASSUME Inv, TypeOK', LoneWaiter', doubled' = doubled,
         \A p \in Player : InMatch(p)' => InMatch(p),
         \A p \in Player : Queued(p)' => Queued(p),
         \A r \in Request : at'[r] = at[r] \/ at'[r] = Idle
  PROVE  Inv'
<1>1. \A r \in Request, p \in Player : Holds(r, p)' => Holds(r, p)
  BY IdleHoldsNobodyNext DEF Holds, Checking, Pairs
<1>2. ASSUME NEW p \in Player, Placed(p) PROVE Placed(p)'
  BY <1>1, <1>2 DEF Placed
<1>3. OnePlaceEach'
  <2>1. ~doubled => \A p \in Player : Placed(p)
    BY OnePlace DEF Inv
  <2>2. ~doubled' => \A p \in Player : Placed(p)'
    BY <2>1, <1>2
  <2> QED
    BY <2>2 DEF OnePlaceEach, Placed, Holds
<1>4. WaiterTakesX'
  BY StageFields DEF Inv, WaiterTakesX
<1> QED
  BY <1>3, <1>4 DEF Inv

----------------------------------------------------------------------------

(* The invariant holds at the start.                                      *)
LEMMA InvInit == Init => Inv
<1> SUFFICES ASSUME Init PROVE Inv
  OBVIOUS
<1>1. TypeOK
  BY StagesTyped, EmptySeq DEF Init, TypeOK, Matches!Init
<1>2. LoneWaiter
  BY DEF Init, LoneWaiter
<1>3. WaiterTakesX
  BY StageFields DEF Init, WaiterTakesX
<1>4. OnePlaceEach
  <2>1. \A r \in Request, p \in Player : ~Holds(r, p)
    BY IdleHoldsNobody DEF Init
  <2>2. \A p \in Player : ~Queued(p)
    BY <1>1, <1>2, WhoWaits DEF Init
  <2> QED
    BY <2>1, <2>2 DEF OnePlaceEach, Holds
<1> QED
  BY <1>1, <1>2, <1>3, <1>4 DEF Inv

LEMMA CheckKeeps ==
  ASSUME Inv, NEW r \in Request, NEW p \in Player, JoinCheck(r, p)
  PROVE  Inv'
<1>1. at[r] = Idle /\ at' = [at EXCEPT ![r] = Checked(p)] /\ ~InMatch(p)
  BY DEF JoinCheck
<1>2. UNCHANGED <<seated, opened, queue>> /\ answer' = {}
  BY DEF JoinCheck, NoError
<1>3. at' \in [Request -> Stages] /\ at'[r] = Checked(p)
      /\ \A q \in Request : q # r => at'[q] = at[q]
  BY <1>1, StagesTyped, Elsewhere DEF Inv
<1>4. TypeOK'
  BY <1>2, <1>3 DEF Inv, TypeOK, JoinCheck
<1>5. LoneWaiter'
  BY <1>2 DEF Inv, LoneWaiter
<1>6. WaiterTakesX'
  BY <1>3, StageFields DEF Inv, WaiterTakesX
<1>7. OnePlaceEach'
  <2> SUFFICES ASSUME ~doubled' PROVE \A s \in Player : Placed(s)'
    BY DEF OnePlaceEach, Placed, Holds
  <2>1. ~doubled /\ ~Served(p)
    BY DEF JoinCheck
  <2>2. \A s \in Player : Placed(s)
    BY <2>1, OnePlace DEF Inv
  <2>3. ~Queued(p) /\ \A q \in Request : ~Holds(q, p)
    BY <2>1 DEF Served, Holds
  <2>4. \A q \in Request, s \in Player : q # r => (Holds(q, s)' <=> Holds(q, s))
    BY <1>1, StagesTyped, Elsewhere DEF Inv
  <2>5. \A s \in Player : Holds(r, s)' <=> s = p
    BY <1>3, StageFields DEF Holds, Checking, Pairs
  <2>6. \A s \in Player : (InMatch(s)' <=> InMatch(s)) /\ (Queued(s)' <=> Queued(s))
    BY <1>2 DEF InMatch, Queued, Matches!SeatedPlayers, ToSet
  <2> QED
    BY <1>1, <2>2, <2>3, <2>4, <2>5, <2>6 DEF Placed
<1> QED
  BY <1>4, <1>5, <1>6, <1>7 DEF Inv

LEMMA RefusedKeeps ==
  ASSUME Inv, NEW r \in Request, NEW p \in Player, JoinRefused(r, p)
  PROVE  Inv'
<1>1. UNCHANGED <<seated, opened, queue, at, doubled>>
  BY DEF JoinRefused
<1>2. TypeOK'
  BY <1>1 DEF Inv, TypeOK, JoinRefused, Refuse, Answers
<1> QED
  BY <1>1, <1>2 DEF Inv, LoneWaiter, WaiterTakesX, OnePlaceEach, Queued, InMatch,
                    Matches!SeatedPlayers, Checking, Pairs

(* The newcomer waits alone, or leaves with the one who waited.            *)
LEMMA QueueCases ==
  ASSUME Inv, NEW r \in Request, JoinQueue(r)
  PROVE  LET p == at[r].p IN
         \/ /\ queue' = queue
            /\ at' = [at EXCEPT ![r] = Idle]
         \/ /\ queue = <<>>
            /\ queue' = <<p>>
            /\ at' = [at EXCEPT ![r] = Idle]
         \/ /\ queue = <<queue[1]>>
            /\ queue[1] \in Player
            /\ queue[1] # p
            /\ queue' = <<>>
            /\ at' = [at EXCEPT ![r] = Pairing(queue[1], p, p)]
<1> DEFINE p == at[r].p
           joined == Append(queue, p)
<1>1. p \in Player
  BY CheckedPlayer DEF JoinQueue, Inv
<1>2. CASE alreadyQueued(p)
  BY <1>2 DEF JoinQueue
<1>3. CASE ~alreadyQueued(p) /\ Len(joined) < 2
  <2>1. queue = <<>>
    <3>1. Len(joined) = Len(queue) + 1
      BY <1>1 DEF Inv, TypeOK
    <3> QED
      BY <1>3, <3>1, EmptySeq DEF Inv, TypeOK
  <2>2. queue' = joined /\ at' = [at EXCEPT ![r] = Idle]
    BY <1>3 DEF JoinQueue
  <2> QED
    BY <2>1, <2>2
<1>4. CASE ~alreadyQueued(p) /\ Len(joined) >= 2
  <2>1. queue # <<>>
    BY <1>4
  <2>2. queue = <<queue[1]>> /\ queue[1] \in Player /\ queue[1] # p
    BY <1>4, <2>1, WhoWaits DEF alreadyQueued, Inv
  <2>3. joined = <<queue[1], p>>
    <3>1. Append(<<queue[1]>>, p) = <<queue[1], p>>
      BY <1>1, <2>2, AppendToLone
    <3> QED
      BY <2>2, <3>1
  <2>4. queue' = withoutTwo(joined)
        /\ at' = [at EXCEPT ![r] = Pairing(firstTwo(joined)[1], firstTwo(joined)[2], p)]
    BY <1>4 DEF JoinQueue
  <2>5. firstTwo(joined)[1] = queue[1] /\ firstTwo(joined)[2] = p
    BY <2>3 DEF firstTwo
  <2>6. withoutTwo(joined) = <<>>
    BY <1>1, <2>2, <2>3, AppendToLone DEF withoutTwo
  <2> QED
    BY <2>2, <2>4, <2>5, <2>6
<1> QED
  BY <1>2, <1>3, <1>4 DEF JoinQueue

(* A player who joins the queue leaves the invariant standing.            *)
LEMMA QueueKeeps ==
  ASSUME Inv, NEW r \in Request, JoinQueue(r)
  PROVE  Inv'
<1> DEFINE p == at[r].p
           w == queue[1]
<1>1. p \in Player /\ Holds(r, p)
  BY CheckedPlayer DEF JoinQueue, Inv, Holds
<1>2. UNCHANGED <<seated, opened, doubled>>
  BY DEF JoinQueue
<1>3. answer' \subseteq Answers
  BY <1>1 DEF JoinQueue, Refuse, NoError, Answers
<1>4. \A s \in Player : InMatch(s)' <=> InMatch(s)
  BY <1>2 DEF InMatch, Matches!SeatedPlayers
<1>5. CASE queue' = queue /\ at' = [at EXCEPT ![r] = Idle]
  <2>1. at' \in [Request -> Stages] /\ at'[r] = Idle
        /\ \A q \in Request : q # r => at'[q] = at[q]
    BY <1>5, StagesTyped, Elsewhere DEF Inv
  <2>2. TypeOK' /\ LoneWaiter'
    BY <1>2, <1>3, <1>5, <2>1 DEF Inv, TypeOK, LoneWaiter
  <2>3. \A s \in Player : Queued(s)' <=> Queued(s)
    BY <1>5 DEF Queued, ToSet
  <2> QED
    BY <1>2, <1>4, <2>1, <2>2, <2>3, OnlyLeaving
<1>6. CASE queue = <<>> /\ queue' = <<p>> /\ at' = [at EXCEPT ![r] = Idle]
  <2>1. at' \in [Request -> Stages] /\ at'[r] = Idle
        /\ \A q \in Request : q # r => at'[q] = at[q]
    BY <1>6, StagesTyped, Elsewhere DEF Inv
  <2>2. TypeOK' /\ LoneWaiter'
    BY <1>1, <1>2, <1>3, <1>6, <2>1 DEF Inv, TypeOK, LoneWaiter
  <2>3. \A s \in Player : ~Queued(s)
    BY <1>6, WhoWaits DEF Inv
  <2>4. \A s \in Player : Queued(s)' => s = p
    BY <1>6 DEF Queued, ToSet
  <2>5. WaiterTakesX'
    BY <2>1, StageFields DEF Inv, WaiterTakesX
  <2>6. ASSUME NEW s \in Player, Placed(s) PROVE Placed(s)'
    <3>1. \A q \in Request : Holds(q, s)' => Holds(q, s) /\ q # r
      BY <1>6, <2>1, StagesTyped, Elsewhere, IdleHoldsNobodyNext DEF Inv
    <3> QED
      BY <1>1, <1>4, <2>3, <2>4, <2>6, <3>1 DEF Placed
  <2>7. OnePlaceEach'
    <3>1. ~doubled => \A s \in Player : Placed(s)
      BY OnePlace DEF Inv
    <3>2. ~doubled' => \A s \in Player : Placed(s)'
      BY <1>2, <2>6, <3>1
    <3> QED
      BY <3>2 DEF OnePlaceEach, Placed, Holds
  <2> QED
    BY <2>2, <2>5, <2>7 DEF Inv
<1>7. CASE /\ queue = <<w>> /\ w \in Player /\ w # p /\ queue' = <<>>
           /\ at' = [at EXCEPT ![r] = Pairing(w, p, p)]
  <2>1. at' \in [Request -> Stages] /\ at'[r] = Pairing(w, p, p)
        /\ \A q \in Request : q # r => at'[q] = at[q]
    BY <1>1, <1>7, StagesTyped, Elsewhere DEF Inv
  <2>2. TypeOK' /\ LoneWaiter'
    BY <1>2, <1>3, <1>7, <2>1, EmptySeq DEF Inv, TypeOK, LoneWaiter
  <2>3. \A s \in Player : ~Queued(s)'
    BY <1>7 DEF Queued, ToSet
  <2>4. Queued(w)
    BY <1>7, WhoWaits, EmptySeq DEF Inv
  <2>5. WaiterTakesX'
    BY <1>7, <2>1, StageFields DEF Inv, WaiterTakesX
  <2>6. ASSUME NEW s \in Player, Placed(s) PROVE Placed(s)'
    <3>1. \A q \in Request : q # r => (Holds(q, s)' <=> Holds(q, s))
      BY <1>1, <1>7, StagesTyped, Elsewhere DEF Inv
    <3>2. Holds(r, s)' => s = w \/ s = p
      BY <2>1, StageFields DEF Holds, Checking, Pairs
    <3> QED
      BY <1>1, <1>4, <2>3, <2>4, <2>6, <3>1, <3>2 DEF Placed
  <2>7. OnePlaceEach'
    <3>1. ~doubled => \A s \in Player : Placed(s)
      BY OnePlace DEF Inv
    <3>2. ~doubled' => \A s \in Player : Placed(s)'
      BY <1>2, <2>6, <3>1
    <3> QED
      BY <3>2 DEF OnePlaceEach, Placed, Holds
  <2> QED
    BY <2>2, <2>5, <2>7 DEF Inv
<1> QED
  BY <1>5, <1>6, <1>7, QueueCases

(* A Start that fails: the pair is gone from the request.                  *)
LEMMA FailedStartKeeps ==
  ASSUME Inv, NEW r \in Request, StartFails(r) \/ StartBusy(r)
  PROVE  Inv'
<1>1. at[r].step = "pairing" /\ at' = [at EXCEPT ![r] = Idle]
      /\ UNCHANGED <<seated, opened, queue, doubled>>
  BY DEF StartFails, StartBusy, Return
<1>2. answer' \subseteq Answers
  BY <1>1, PairedPlayers DEF StartFails, StartBusy, Refuse, Answers, Inv
<1>3. at' \in [Request -> Stages] /\ at'[r] = Idle
      /\ \A q \in Request : q # r => at'[q] = at[q]
  BY <1>1, StagesTyped, Elsewhere DEF Inv
<1>4. TypeOK' /\ LoneWaiter'
  BY <1>1, <1>2, <1>3 DEF Inv, TypeOK, LoneWaiter
<1>5. \A p \in Player : (InMatch(p)' <=> InMatch(p)) /\ (Queued(p)' <=> Queued(p))
  BY <1>1 DEF InMatch, Queued, Matches!SeatedPlayers, ToSet
<1> QED
  BY <1>1, <1>3, <1>4, <1>5, OnlyLeaving

LEMMA SeatsKeep ==
  ASSUME Inv, NEW r \in Request, StartSeats(r)
  PROVE  Inv'
<1> DEFINE x == at[r].x
           o == at[r].o
<1>1. at[r].step = "pairing" /\ at' = [at EXCEPT ![r] = Idle]
      /\ UNCHANGED <<queue, doubled>> /\ answer' = {}
  BY DEF StartSeats, Return, NoError
<1>2. PICK id \in MatchId : Matches!Open(id, x, o)
  BY DEF StartSeats
<1>3. x \in Player /\ o \in Player /\ Holds(r, x) /\ Holds(r, o)
  BY <1>1, PairedPlayers DEF Inv, Holds, Pairs
<1>4. at' \in [Request -> Stages] /\ at'[r] = Idle
      /\ \A q \in Request : q # r => at'[q] = at[q]
  BY <1>1, StagesTyped, Elsewhere DEF Inv
<1>5. seated' \subseteq Matches!Table /\ opened' \subseteq MatchId
  BY <1>2, <1>3 DEF Matches!Open, Matches!Table, Inv, TypeOK
<1>6. TypeOK' /\ LoneWaiter'
  BY <1>1, <1>4, <1>5 DEF Inv, TypeOK, LoneWaiter
<1>7. \A p \in Player : InMatch(p)' => InMatch(p) \/ p = x \/ p = o
  BY <1>2 DEF InMatch, Matches!SeatedPlayers, Matches!Open
<1>8. \A p \in Player : Queued(p)' <=> Queued(p)
  BY <1>1 DEF Queued, ToSet
<1>9. WaiterTakesX'
  BY <1>4, StageFields DEF Inv, WaiterTakesX
<1>10. ASSUME NEW p \in Player, Placed(p) PROVE Placed(p)'
  <2>1. \A q \in Request : Holds(q, p)' => Holds(q, p) /\ q # r
    BY <1>1, <1>4, StagesTyped, Elsewhere, IdleHoldsNobodyNext DEF Inv
  <2> QED
    BY <1>3, <1>7, <1>8, <1>10, <2>1 DEF Placed
<1>11. OnePlaceEach'
  <2>1. ~doubled => \A p \in Player : Placed(p)
    BY OnePlace DEF Inv
  <2>2. ~doubled' => \A p \in Player : Placed(p)'
    BY <1>1, <1>10, <2>1
  <2> QED
    BY <2>2 DEF OnePlaceEach, Placed, Holds
<1> QED
  BY <1>6, <1>9, <1>11 DEF Inv

LEMMA LeaveKeeps ==
  ASSUME Inv, NEW p \in Player, Leave(p)
  PROVE  Inv'
<1>1. PICK i \in DOMAIN queue : queue[i] = p /\ queue' = RemoveAt(queue, i)
  BY DEF Leave
<1>2. UNCHANGED <<seated, opened, at, doubled>> /\ answer' = {}
  BY DEF Leave, NoError
<1>3. queue \in Seq(Player) /\ Len(queue) = 1 /\ i = 1
  <2>1. queue \in Seq(Player) /\ Len(queue) \in Nat /\ Len(queue) <= 1
    BY LenProperties DEF Inv, TypeOK, LoneWaiter
  <2>2. DOMAIN queue = 1 .. Len(queue)
    BY <2>1, LenProperties
  <2> QED
    BY <1>1, <2>1, <2>2
<1>4. queue' = <<>>
  <2>1. SubSeq(queue, 1, 0) = <<>> /\ SubSeq(queue, 2, 1) = <<>>
    BY SubSeqEmpty
  <2> QED
    BY <1>1, <1>3, <2>1 DEF RemoveAt
<1>5. TypeOK' /\ LoneWaiter'
  BY <1>2, <1>4, EmptySeq DEF Inv, TypeOK, LoneWaiter
<1>6. \A s \in Player : ~Queued(s)' /\ (InMatch(s)' <=> InMatch(s))
  BY <1>2, <1>4 DEF Queued, ToSet, InMatch, Matches!SeatedPlayers
<1> QED
  BY <1>2, <1>5, <1>6, OnlyLeaving

LEMMA EndsKeeps ==
  ASSUME Inv, Ends
  PROVE  Inv'
<1>1. PICK s \in seated : seated' = seated \ {s} /\ opened' = opened
  BY DEF Ends, Matches!Close
<1>2. UNCHANGED <<queue, at, doubled>> /\ answer' = {}
  BY DEF Ends, NoError
<1>3. TypeOK' /\ LoneWaiter'
  BY <1>1, <1>2 DEF Inv, TypeOK, LoneWaiter
<1>4. \A p \in Player : (InMatch(p)' => InMatch(p)) /\ (Queued(p)' <=> Queued(p))
  BY <1>1, <1>2 DEF InMatch, Matches!SeatedPlayers, Queued, ToSet
<1> QED
  BY <1>2, <1>3, <1>4, OnlyLeaving

LEMMA RestartKeeps ==
  ASSUME Inv, Restart
  PROVE  Inv'
<1>1. seated' = {} /\ opened' = opened /\ queue' = <<>> /\ answer' = {}
      /\ at' = [r \in Request |-> Idle] /\ doubled' = doubled
  BY DEF Restart, Matches!Restart, NoError
<1>2. TypeOK' /\ LoneWaiter'
  BY <1>1, StagesTyped, EmptySeq DEF Inv, TypeOK, LoneWaiter
<1>3. \A p \in Player : ~InMatch(p)' /\ ~Queued(p)'
  BY <1>1 DEF InMatch, Matches!SeatedPlayers, Queued, ToSet
<1> QED
  BY <1>1, <1>2, <1>3, OnlyLeaving

----------------------------------------------------------------------------

(* No step of the specification leaves the invariant.                     *)
LEMMA InvNext == Inv /\ [Next]_vars => Inv'
<1> SUFFICES ASSUME Inv, [Next]_vars PROVE Inv'
  OBVIOUS
<1>1. CASE \E r \in Request, p \in Player : JoinCheck(r, p)
  BY <1>1, CheckKeeps
<1>2. CASE \E r \in Request, p \in Player : JoinRefused(r, p)
  BY <1>2, RefusedKeeps
<1>3. CASE \E r \in Request : JoinQueue(r)
  BY <1>3, QueueKeeps
<1>4. CASE \E r \in Request : StartFails(r) \/ StartBusy(r)
  BY <1>4, FailedStartKeeps
<1>5. CASE \E r \in Request : StartSeats(r)
  BY <1>5, SeatsKeep
<1>6. CASE \E p \in Player : Leave(p)
  BY <1>6, LeaveKeeps
<1>7. CASE Ends
  BY <1>7, EndsKeeps
<1>8. CASE Restart
  BY <1>8, RestartKeeps
<1>9. CASE UNCHANGED vars
  BY <1>9 DEF vars, Inv, TypeOK, LoneWaiter, WaiterTakesX, OnePlaceEach, Queued,
              InMatch, Matches!SeatedPlayers, Checking, Pairs
<1> QED
  BY <1>1, <1>2, <1>3, <1>4, <1>5, <1>6, <1>7, <1>8, <1>9 DEF Next

(* However Join and Leave overlap, the queue, the pairs being made and the *)
(* seats keep to the invariant the theorems below are parts of.            *)
THEOREM Invariance == Spec => []Inv
BY InvInit, InvNext, PTL DEF Spec

(* The queue, the requests and the answers keep their types.               *)
THEOREM MatchmakingTyped == Spec => []TypeOK
<1>1. Inv => TypeOK
  BY DEF Inv
<1> QED
  BY <1>1, Invariance, PTL

(* Join leaves nobody waiting beside somebody else who waits.              *)
THEOREM QueueHoldsOne == Spec => []LoneWaiter
<1>1. Inv => LoneWaiter
  BY DEF Inv
<1> QED
  BY <1>1, Invariance, PTL

(* Join pairs the waiter, as X, with the newcomer, and nobody with         *)
(* themselves, although one player's requests may overlap.                 *)
THEOREM PairsAreFair == Spec => []WaiterTakesX
<1>1. Inv => WaiterTakesX
  BY DEF Inv
<1> QED
  BY <1>1, Invariance, PTL

(* Until some player's requests to join overlap, the unlocked InMatch      *)
(* check of Join is enough: nobody is in two places, so no Start finds its *)
(* players busy.                                                           *)
THEOREM PlacesExclusive == Spec => []OnePlaceEach
<1>1. Inv => OnePlaceEach
  BY DEF Inv
<1> QED
  BY <1>1, Invariance, PTL
=============================================================================

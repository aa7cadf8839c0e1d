---------------------------- MODULE GamesProofs ----------------------------
(***************************************************************************)
(* Proofs about usecase.Games, for any number of players, matches and      *)
(* goroutines and any length of a match: the registry is consistent under  *)
(* every interleaving, it implements Tables, and match_started is the      *)
(* first a player hears of a match.                                        *)
(***************************************************************************)
EXTENDS Games, Lemmas

(* The move that ends a match, and one that does not, apart.               *)
Finishing(t, p, id, g) ==
  /\ IsFinished(g.status)
  /\ forget(id)
  /\ todo' = [todo EXCEPT ![t] =
       <<record(id, g)>> \o results(g) \o events("match_ended", id, g)]

Continuing(t, p, id, g) ==
  /\ ~IsFinished(g.status)
  /\ UNCHANGED <<active, byPlayer>>
  /\ todo' = [todo EXCEPT ![t] = <<record(id, g)>> \o events("state_changed", id, g)]

LEMMA StatusesAfter == \A n : StatusAfter(n) \subseteq Statuses
BY DEF StatusAfter

LEMMA OneMoveOn ==
  ASSUME NEW g \in GameState, NEW s \in Statuses
  PROVE  LET h == [g EXCEPT !.moves = @ + 1, !.status = s]
         IN /\ h \in GameState /\ h.x = g.x /\ h.o = g.o
            /\ h.moves = g.moves + 1 /\ h.status = s
<1> DEFINE h1 == [g EXCEPT !.moves = g.moves + 1]
           h == [g EXCEPT !.moves = g.moves + 1, !.status = s]
<1>1. /\ h1 \in GameState /\ h1.x = g.x /\ h1.o = g.o
      /\ h1.moves = g.moves + 1 /\ h1.status = g.status
  BY DEF GameState
<1>2. h = [h1 EXCEPT !.status = s]
  BY Zenon DEF GameState
<1> HIDE DEF h1
<1>3. /\ h \in GameState /\ h.x = g.x /\ h.o = g.o
      /\ h.moves = g.moves + 1 /\ h.status = s
  BY <1>1, <1>2 DEF GameState
<1> QED
  BY <1>3

----------------------------------------------------------------------------
(* Effects.                                                                *)

LEMMA EffectsTyped ==
  ASSUME NEW id \in MatchId, NEW g \in GameState
  PROVE  /\ record(id, g) \in Effect
         /\ results(g) \in Seq(Effect)
         /\ \A type \in {"match_started", "state_changed", "match_ended"} :
              events(type, id, g) \in Seq(Effect)
         /\ \A p \in Player : notify(p, "opponent_left", id, g) \in Effect
<1>1. record(id, g) \in Effect
  BY DEF record, Effect, Record, GameState
<1>2. \A p \in Player : OutcomeFor(g, p) \in Outcomes
  BY DEF OutcomeFor, Outcomes
<1>3. results(g) \in Seq(Effect)
  BY <1>2 DEF results, Effect, GameState
<1>4. \A type \in {"match_started", "state_changed", "match_ended", "opponent_left"},
         p \in Player : notify(p, type, id, g) \in Effect
  BY DEF notify, Effect, Event, GameState
<1>5. \A type \in {"match_started", "state_changed", "match_ended"} :
        events(type, id, g) \in Seq(Effect)
  BY <1>4 DEF events, GameState
<1> QED
  BY <1>1, <1>3, <1>4, <1>5

LEMMA RaisedStats ==
  ASSUME NEW s \in Stats, NEW k \in Outcomes
  PROVE  [s EXCEPT ![k] = s[k] + 1] \in Stats
<1>1. CASE k = "win"
  BY <1>1 DEF Stats
<1>2. CASE k = "loss"
  BY <1>2 DEF Stats
<1>3. CASE k = "draw"
  BY <1>3 DEF Stats
<1> QED
  BY <1>1, <1>2, <1>3 DEF Outcomes

(* What a thread that is not idle has at the head of its list.             *)
LEMMA HeadTyped ==
  ASSUME TypeOK, NEW t \in Thread, NEW op, Doing(t, op)
  PROVE  /\ todo[t] \in Seq(Effect) /\ todo[t] # <<>>
         /\ Head(todo[t]) \in Effect /\ Head(todo[t]).op = op
         /\ Tail(todo[t]) \in Seq(Effect)
BY DEF TypeOK, Doing, Idle

----------------------------------------------------------------------------
(* Type correctness.                                                       *)

LEMMA TypeInit == Init => TypeOK
<1> SUFFICES ASSUME Init PROVE TypeOK
  OBVIOUS
<1>1. byPlayer \in [DOMAIN byPlayer -> MatchId] /\ DOMAIN byPlayer \subseteq Player
  BY DEF Init
<1>2. game \in [DOMAIN game -> GameState] /\ DOMAIN game \subseteq MatchId
  BY DEF Init
<1>3. todo \in [Thread -> Seq(Effect)]
  BY DEF Init
<1>4. stats \in [Player -> Stats]
  BY DEF Init, Stats
<1> QED
  BY <1>1, <1>2, <1>3, <1>4 DEF Init, TypeOK

LEMMA TypeStart ==
  ASSUME TypeOK, NEW t \in Thread, NEW x \in Player, NEW o \in Player, Start(t, x, o)
  PROVE  TypeOK'
<1>1. PICK id \in MatchId \ DOMAIN game :
        LET g == [x |-> x, o |-> o, moves |-> 0, status |-> "in_progress"] IN
        /\ game' = Put(game, {id}, g)
        /\ active' = active \cup {id}
        /\ byPlayer' = Put(byPlayer, {x, o}, id)
        /\ todo' = [todo EXCEPT ![t] = <<record(id, g)>> \o events("match_started", id, g)]
  BY DEF Start
<1> DEFINE g == [x |-> x, o |-> o, moves |-> 0, status |-> "in_progress"]
<1>2. g \in GameState
  BY DEF GameState, Statuses
<1>3. DOMAIN byPlayer' \subseteq Player /\ byPlayer' \in [DOMAIN byPlayer' -> MatchId]
  BY <1>1 DEF Put, TypeOK
<1>4. DOMAIN game' \subseteq MatchId /\ game' \in [DOMAIN game' -> GameState]
  BY <1>1, <1>2 DEF Put, TypeOK
<1>5. <<record(id, g)>> \o events("match_started", id, g) \in Seq(Effect)
  BY <1>2, EffectsTyped
<1>6. todo' \in [Thread -> Seq(Effect)]
  BY <1>1, <1>5 DEF TypeOK
<1> QED
  BY <1>1, <1>3, <1>4, <1>6 DEF Start, TypeOK, stores

LEMMA MoveCases ==
  ASSUME TypeOK, NEW t \in Thread, NEW p \in Player, Move(t, p)
  PROVE  /\ lookup(p) /\ mu = NoThread /\ todo[t] = <<>>
         /\ byPlayer[p] \in MatchId
         /\ byPlayer[p] \in DOMAIN game => \E g \in GameState :
              /\ g.x = game[byPlayer[p]].x /\ g.o = game[byPlayer[p]].o
              /\ g.moves = game[byPlayer[p]].moves + 1
              /\ game' = [game EXCEPT ![byPlayer[p]] = g]
              /\ Finishing(t, p, byPlayer[p], g) \/ Continuing(t, p, byPlayer[p], g)
<1>1. lookup(p) /\ mu = NoThread /\ todo[t] = <<>> /\ byPlayer[p] \in MatchId
  BY DEF Move, Idle, lookup, TypeOK
<1>2. ASSUME byPlayer[p] \in DOMAIN game
      PROVE  \E g \in GameState :
               /\ g.x = game[byPlayer[p]].x /\ g.o = game[byPlayer[p]].o
               /\ g.moves = game[byPlayer[p]].moves + 1
               /\ game' = [game EXCEPT ![byPlayer[p]] = g]
               /\ Finishing(t, p, byPlayer[p], g) \/ Continuing(t, p, byPlayer[p], g)
  <2> DEFINE id == byPlayer[p]
  <2>1. PICK s \in StatusAfter(game[id].moves + 1) :
          LET g == [game[id] EXCEPT !.moves = @ + 1, !.status = s] IN
          /\ game' = [game EXCEPT ![id] = g]
          /\ \/ /\ IsFinished(s)
                /\ forget(id)
                /\ todo' = [todo EXCEPT ![t] =
                     <<record(id, g)>> \o results(g) \o events("match_ended", id, g)]
             \/ /\ ~IsFinished(s)
                /\ UNCHANGED <<active, byPlayer>>
                /\ todo' = [todo EXCEPT ![t] =
                     <<record(id, g)>> \o events("state_changed", id, g)]
    BY DEF Move
  <2> DEFINE g == [game[id] EXCEPT !.moves = @ + 1, !.status = s]
  <2>2. game[id] \in GameState
    BY <1>2 DEF TypeOK
  <2>3. s \in Statuses
    BY StatusesAfter
  <2>4. /\ g \in GameState /\ g.x = game[id].x /\ g.o = game[id].o
        /\ g.moves = game[id].moves + 1 /\ g.status = s
    BY <2>2, <2>3, OneMoveOn
  <2>5. Finishing(t, p, id, g) \/ Continuing(t, p, id, g)
    BY <2>1, <2>4 DEF Finishing, Continuing
  <2> HIDE DEF g
  <2> QED
    BY <2>1, <2>4, <2>5 DEF g
<1> QED
  BY <1>1, <1>2

(* The part of the type that the registry's operations disturb, apart from *)
(* the calls: it is what forget needs to know of the maps.                 *)
LEMMA TypeForget ==
  ASSUME TypeOK, NEW id, forget(id)
  PROVE  /\ active' \subseteq MatchId
         /\ DOMAIN byPlayer' \subseteq Player
         /\ byPlayer' \in [DOMAIN byPlayer' -> MatchId]
BY DEF forget, Restrict, TypeOK

(* Whatever is left of a call, going on with it keeps the calls typed.     *)
LEMMA TypeAdvance ==
  ASSUME TypeOK, NEW t \in Thread, NEW rest \in Seq(Effect), Advance(t, rest)
  PROVE  todo' \in [Thread -> Seq(Effect)] /\ mu' \in Thread \cup {NoThread}
BY DEF Advance, TypeOK

LEMMA TypeMove ==
  ASSUME TypeOK, RegistryConsistent, NEW t \in Thread, NEW p \in Player, Move(t, p)
  PROVE  TypeOK'
<1> DEFINE id == byPlayer[p]
<1>1. id \in MatchId /\ id \in DOMAIN game
  BY MoveCases DEF lookup, RegistryConsistent
<1>2. PICK g \in GameState :
        /\ game' = [game EXCEPT ![id] = g]
        /\ Finishing(t, p, id, g) \/ Continuing(t, p, id, g)
  BY <1>1, MoveCases
<1>3. DOMAIN game' \subseteq MatchId /\ game' \in [DOMAIN game' -> GameState]
  BY <1>2 DEF TypeOK
<1>4. todo' \in [Thread -> Seq(Effect)]
  <2>1. /\ record(id, g) \in Effect
        /\ results(g) \in Seq(Effect)
        /\ events("match_ended", id, g) \in Seq(Effect)
        /\ events("state_changed", id, g) \in Seq(Effect)
    BY <1>1, EffectsTyped
  <2>2. /\ <<record(id, g)>> \o results(g) \o events("match_ended", id, g) \in Seq(Effect)
        /\ <<record(id, g)>> \o events("state_changed", id, g) \in Seq(Effect)
    BY <2>1
  <2> QED
    BY <1>2, <2>2 DEF Finishing, Continuing, TypeOK
<1>5. /\ active' \subseteq MatchId
      /\ DOMAIN byPlayer' \subseteq Player
      /\ byPlayer' \in [DOMAIN byPlayer' -> MatchId]
  BY <1>2, TypeForget DEF Finishing, Continuing, TypeOK
<1> QED
  BY <1>3, <1>4, <1>5 DEF Move, TypeOK, stores

LEMMA TypeAbandon ==
  ASSUME TypeOK, RegistryConsistent, NEW t \in Thread, NEW p \in Player, Abandon(t, p)
  PROVE  TypeOK'
<1> DEFINE id == byPlayer[p]
           opponent == IF p = game[id].x THEN game[id].o ELSE game[id].x
<1>1. lookup(p) /\ forget(id)
      /\ todo' = [todo EXCEPT ![t] = <<notify(opponent, "opponent_left", id, game[id])>>]
  BY DEF Abandon
<1>2. id \in DOMAIN game /\ id \in MatchId /\ game[id] \in GameState
  BY <1>1 DEF lookup, RegistryConsistent, TypeOK
<1>3. opponent \in Player
  BY <1>2 DEF GameState
<1>4. todo' \in [Thread -> Seq(Effect)]
  <2>1. notify(opponent, "opponent_left", id, game[id]) \in Effect
    BY <1>2, <1>3, EffectsTyped
  <2> QED
    BY <1>1, <2>1 DEF TypeOK
<1> QED
  BY <1>1, <1>4, TypeForget DEF Abandon, TypeOK, stores

LEMMA TypeWork ==
  ASSUME TypeOK, NEW t \in Thread, Work(t)
  PROVE  TypeOK'
<1>1. CASE Persist(t)
  <2>1. Doing(t, "persist") /\ Advance(t, Tail(todo[t]))
    BY <1>1 DEF Persist
  <2>2. Head(todo[t]).rec \in Record
    BY <2>1, HeadTyped DEF Effect
  <2>3. records' \subseteq Record /\ faults' \subseteq {"store", "restart"}
    BY <1>1, <2>2 DEF Persist, Stored, StoreFails, TypeOK
  <2>4. todo' \in [Thread -> Seq(Effect)] /\ mu' \in Thread \cup {NoThread}
    BY <2>1, HeadTyped, TypeAdvance
  <2> QED
    BY <1>1, <2>3, <2>4 DEF Persist, TypeOK
<1>2. CASE RecordLoad(t)
  <2> DEFINE h == Head(todo[t])
             copy == [stats[h.player] EXCEPT ![h.outcome] = @ + 1]
             save == [op |-> "save", player |-> h.player, stats |-> copy]
  <2>1. Doing(t, "credit")
    BY <1>2 DEF RecordLoad
  <2>2. h.player \in Player /\ h.outcome \in Outcomes
    BY <2>1, HeadTyped DEF Effect
  <2>3. copy \in Stats
    BY <2>2, RaisedStats DEF TypeOK
  <2>4. save \in Effect
    BY <2>2, <2>3 DEF Effect
  <2>5. <<save>> \o Tail(todo[t]) \in Seq(Effect) /\ Tail(todo[t]) \in Seq(Effect)
    BY <2>1, <2>4, HeadTyped
  <2>6. Advance(t, <<save>> \o Tail(todo[t])) \/ Advance(t, Tail(todo[t]))
    BY <1>2 DEF RecordLoad
  <2>7. todo' \in [Thread -> Seq(Effect)] /\ mu' \in Thread \cup {NoThread}
    BY <2>5, <2>6, TypeAdvance
  <2>8. faults' \subseteq {"store", "restart"} /\ overlap' \in BOOLEAN
    BY <1>2 DEF RecordLoad, StoreFails, TypeOK
  <2> QED
    BY <1>2, <2>7, <2>8 DEF RecordLoad, TypeOK, stores
<1>3. CASE RecordSave(t)
  <2>1. Doing(t, "save") /\ Advance(t, Tail(todo[t]))
    BY <1>3 DEF RecordSave
  <2>2. Head(todo[t]).player \in Player /\ Head(todo[t]).stats \in Stats
    BY <2>1, HeadTyped DEF Effect
  <2>3. stats' \in [Player -> Stats] /\ faults' \subseteq {"store", "restart"}
    BY <1>3, <2>2 DEF RecordSave, StoreFails, TypeOK
  <2>4. todo' \in [Thread -> Seq(Effect)] /\ mu' \in Thread \cup {NoThread}
    BY <2>1, HeadTyped, TypeAdvance
  <2> QED
    BY <1>3, <2>3, <2>4 DEF RecordSave, TypeOK
<1>4. CASE Dispatch(t)
  <2>1. Doing(t, "notify") /\ Advance(t, Tail(todo[t]))
    BY <1>4 DEF Dispatch
  <2>2. Head(todo[t]).ev \in Event
    BY <2>1, HeadTyped DEF Effect
  <2>3. todo' \in [Thread -> Seq(Effect)] /\ mu' \in Thread \cup {NoThread}
    BY <2>1, HeadTyped, TypeAdvance
  <2> QED
    BY <1>4, <2>2, <2>3 DEF Dispatch, TypeOK, stores
<1> QED
  BY <1>1, <1>2, <1>3, <1>4 DEF Work

LEMMA TypeRestart == TypeOK /\ Restart => TypeOK'
<1> SUFFICES ASSUME TypeOK, Restart PROVE TypeOK'
  OBVIOUS
<1>1. byPlayer' \in [DOMAIN byPlayer' -> MatchId] /\ DOMAIN byPlayer' \subseteq Player
  BY DEF Restart
<1>2. todo' \in [Thread -> Seq(Effect)]
  BY DEF Restart
<1> QED
  BY <1>1, <1>2 DEF Restart, TypeOK, stores

----------------------------------------------------------------------------
(* The registry.                                                           *)

LEMMA RegistryStart ==
  ASSUME TypeOK, RegistryConsistent,
         NEW t \in Thread, NEW x \in Player, NEW o \in Player, Start(t, x, o)
  PROVE  RegistryConsistent'
<1>1. PICK id \in MatchId \ DOMAIN game :
        /\ game' = Put(game, {id}, [x |-> x, o |-> o, moves |-> 0,
                                    status |-> "in_progress"])
        /\ active' = active \cup {id}
        /\ byPlayer' = Put(byPlayer, {x, o}, id)
  BY DEF Start
<1>2. x # o /\ x \notin DOMAIN byPlayer /\ o \notin DOMAIN byPlayer
  BY DEF Start, busy
<1>3. /\ DOMAIN game' = DOMAIN game \cup {id}
      /\ \A i \in DOMAIN game : game'[i] = game[i]
      /\ game'[id] = [x |-> x, o |-> o, moves |-> 0, status |-> "in_progress"]
  BY <1>1 DEF Put
<1>4. /\ DOMAIN byPlayer' = DOMAIN byPlayer \cup {x, o}
      /\ byPlayer'[x] = id /\ byPlayer'[o] = id
      /\ \A p \in DOMAIN byPlayer : byPlayer'[p] = byPlayer[p]
  BY <1>1, <1>2 DEF Put
<1>5. ASSUME NEW i \in active'
      PROVE  /\ i \in DOMAIN game'
             /\ ~IsFinished(game'[i].status)
             /\ game'[i].x # game'[i].o
             /\ \A p \in {game'[i].x, game'[i].o} :
                  p \in DOMAIN byPlayer' /\ byPlayer'[p] = i
  <2>1. CASE i = id
    BY <1>2, <1>3, <1>4, <2>1 DEF IsFinished
  <2>2. CASE i \in active
    BY <1>3, <1>4, <2>2 DEF RegistryConsistent, Seats
  <2> QED
    BY <1>1, <1>5, <2>1, <2>2
<1>6. ASSUME NEW p \in DOMAIN byPlayer'
      PROVE  byPlayer'[p] \in active' /\ p \in {game'[byPlayer'[p]].x, game'[byPlayer'[p]].o}
  <2>1. CASE p \in {x, o}
    BY <1>1, <1>3, <1>4, <2>1
  <2>2. CASE p \in DOMAIN byPlayer
    <3>1. byPlayer[p] \in active /\ p \in Seats(byPlayer[p])
      BY <2>2 DEF RegistryConsistent
    <3>2. byPlayer[p] \in DOMAIN game
      BY <3>1 DEF RegistryConsistent
    <3>3. byPlayer'[p] = byPlayer[p] /\ game'[byPlayer[p]] = game[byPlayer[p]]
      BY <1>3, <1>4, <2>2, <3>2
    <3> QED
      BY <1>1, <3>1, <3>3 DEF Seats
  <2> QED
    BY <1>4, <1>6, <2>1, <2>2
<1> QED
  BY <1>5, <1>6 DEF RegistryConsistent, Seats

(* Both players of a live match are in byPlayer under it and nowhere else, *)
(* so forgetting it takes out exactly its two entries.                     *)
LEMMA RegistryForget ==
  ASSUME TypeOK, RegistryConsistent, NEW id \in active, forget(id),
         DOMAIN game' = DOMAIN game,
         \A i \in DOMAIN game : i # id => game'[i] = game[i]
  PROVE  RegistryConsistent'
<1>1. /\ active' = active \ {id}
      /\ DOMAIN byPlayer' = DOMAIN byPlayer \ Seats(id)
      /\ \A p \in DOMAIN byPlayer' : byPlayer'[p] = byPlayer[p]
  BY DEF forget, Restrict
<1>2. ASSUME NEW i \in active'
      PROVE  /\ i \in DOMAIN game'
             /\ ~IsFinished(game'[i].status)
             /\ game'[i].x # game'[i].o
             /\ \A p \in {game'[i].x, game'[i].o} :
                  p \in DOMAIN byPlayer' /\ byPlayer'[p] = i
  <2>1. i \in active /\ i # id /\ i \in DOMAIN game /\ game'[i] = game[i]
    BY <1>1, <1>2 DEF RegistryConsistent
  <2>2. \A p \in Seats(i) : byPlayer[p] = i /\ p \in DOMAIN byPlayer
    BY <2>1 DEF RegistryConsistent
  <2>3. \A p \in Seats(id) : byPlayer[p] = id
    BY DEF RegistryConsistent
  <2> QED
    BY <1>1, <2>1, <2>2, <2>3 DEF RegistryConsistent, Seats
<1>3. ASSUME NEW p \in DOMAIN byPlayer'
      PROVE  byPlayer'[p] \in active' /\ p \in {game'[byPlayer'[p]].x, game'[byPlayer'[p]].o}
  <2>1. /\ p \in DOMAIN byPlayer /\ p \notin Seats(id)
        /\ byPlayer'[p] = byPlayer[p]
        /\ byPlayer[p] \in active /\ p \in Seats(byPlayer[p])
    BY <1>1, <1>3 DEF RegistryConsistent
  <2>2. byPlayer[p] # id
    BY <2>1
  <2> QED
    BY <1>1, <2>1, <2>2 DEF RegistryConsistent, Seats
<1> QED
  BY <1>2, <1>3 DEF RegistryConsistent, Seats

LEMMA RegistryMove ==
  ASSUME TypeOK, RegistryConsistent, NEW t \in Thread, NEW p \in Player, Move(t, p)
  PROVE  RegistryConsistent'
<1> DEFINE id == byPlayer[p]
<1>1. id \in active /\ id \in DOMAIN game
  BY MoveCases DEF lookup, RegistryConsistent
<1>2. PICK g \in GameState :
        /\ g.x = game[id].x /\ g.o = game[id].o
        /\ game' = [game EXCEPT ![id] = g]
        /\ Finishing(t, p, id, g) \/ Continuing(t, p, id, g)
  BY <1>1, MoveCases
<1>3. /\ DOMAIN game' = DOMAIN game
      /\ \A i \in DOMAIN game : i # id => game'[i] = game[i]
      /\ game'[id] = g
  BY <1>1, <1>2
<1>4. CASE Finishing(t, p, id, g)
  BY <1>1, <1>3, <1>4, RegistryForget DEF Finishing
<1>5. CASE Continuing(t, p, id, g)
  <2>1. active' = active /\ byPlayer' = byPlayer /\ ~IsFinished(g.status)
    BY <1>5 DEF Continuing
  <2>2. \A i \in DOMAIN game : game'[i].x = game[i].x /\ game'[i].o = game[i].o
    BY <1>2, <1>3
  <2>3. \A i \in active : i \in DOMAIN game' /\ ~IsFinished(game'[i].status)
    BY <1>3, <2>1 DEF RegistryConsistent
  <2> HIDE DEF id
  <2>4. \A i \in active :
          /\ game'[i].x # game'[i].o
          /\ \A q \in {game'[i].x, game'[i].o} : q \in DOMAIN byPlayer /\ byPlayer[q] = i
    BY <2>2 DEF RegistryConsistent, Seats
  <2>5. ASSUME NEW q \in DOMAIN byPlayer
        PROVE  byPlayer[q] \in active /\ q \in {game'[byPlayer[q]].x, game'[byPlayer[q]].o}
    <3>1. /\ byPlayer[q] \in active /\ byPlayer[q] \in DOMAIN game
          /\ q \in {game[byPlayer[q]].x, game[byPlayer[q]].o}
      BY DEF RegistryConsistent, Seats
    <3> QED
      BY <2>2, <3>1
  <2> QED
    BY <2>1, <2>3, <2>4, <2>5 DEF RegistryConsistent, Seats
<1> QED
  BY <1>2, <1>4, <1>5

LEMMA RegistryAbandon ==
  ASSUME TypeOK, RegistryConsistent, NEW t \in Thread, NEW p \in Player, Abandon(t, p)
  PROVE  RegistryConsistent'
<1>1. byPlayer[p] \in active /\ forget(byPlayer[p]) /\ game' = game
  BY DEF Abandon, lookup
<1> QED
  BY <1>1, RegistryForget

LEMMA RegistrySame ==
  ASSUME RegistryConsistent, UNCHANGED <<active, byPlayer, game>>
  PROVE  RegistryConsistent'
BY DEF RegistryConsistent, Seats

(* The inductive invariant of the registry.  The type alone does not hold  *)
(* by itself: that a move and an abandon find a match object for the id    *)
(* they look up is what RegistryConsistent says.                           *)
Inv == TypeOK /\ RegistryConsistent

LEMMA InvNext == Inv /\ [Next]_vars => Inv'
<1> SUFFICES ASSUME Inv, [Next]_vars PROVE Inv'
  OBVIOUS
<1> USE DEF Inv
<1>1. ASSUME NEW t \in Thread, NEW x \in Player, NEW o \in Player, Start(t, x, o)
      PROVE  Inv'
  BY <1>1, TypeStart, RegistryStart
<1>2. ASSUME NEW t \in Thread, NEW p \in Player, Move(t, p)
      PROVE  Inv'
  BY <1>2, TypeMove, RegistryMove
<1>3. ASSUME NEW t \in Thread, NEW p \in Player, Abandon(t, p)
      PROVE  Inv'
  BY <1>3, TypeAbandon, RegistryAbandon
<1>4. ASSUME NEW t \in Thread, Work(t)
      PROVE  Inv'
  <2>1. UNCHANGED <<active, byPlayer, game>>
    BY <1>4 DEF Work, Persist, RecordLoad, RecordSave, Dispatch
  <2> QED
    BY <1>4, <2>1, TypeWork, RegistrySame
<1>5. CASE Restart
  BY <1>5, TypeRestart DEF Restart, RegistryConsistent
<1>6. CASE UNCHANGED vars
  BY <1>6, RegistrySame DEF vars, TypeOK
<1> QED
  BY <1>1, <1>2, <1>3, <1>4, <1>5, <1>6 DEF Next, Work

LEMMA InvInit == Init => Inv
BY TypeInit DEF Init, Inv, RegistryConsistent

(* Every call, failure and restart of Games keeps the types and the two    *)
(* maps of the registry in agreement.                                      *)
THEOREM Invariance == Spec => []Inv
BY InvInit, InvNext, PTL DEF Spec

(* Whatever the goroutines do, in whatever order and whatever fails, the   *)
(* maps, the calls and the stores keep their types.                        *)
THEOREM GamesTyped == Spec => []TypeOK
BY Invariance, PTL DEF Inv

(* active and byPlayer never part: nobody is left marked as playing a      *)
(* match that is over, and no live match has lost one of its players.      *)
THEOREM RegistrySound == Spec => []RegistryConsistent
BY Invariance, PTL DEF Inv

----------------------------------------------------------------------------
(* The refinement of Tables.                                               *)

Open(id) == [id |-> id, x |-> game[id].x, o |-> game[id].o]
Seated == {Open(id) : id \in active}

(* Sitting at a table of the refinement is being in byPlayer.              *)
LEMMA SeatedAreBusy ==
  ASSUME Inv
  PROVE  Seating!SeatedPlayers \subseteq DOMAIN byPlayer
<1> SUFFICES ASSUME NEW p \in Seating!SeatedPlayers PROVE p \in DOMAIN byPlayer
  OBVIOUS
<1>1. PICK id \in active : p \in {game[id].x, game[id].o}
  BY DEF Seating!SeatedPlayers
<1> QED
  BY <1>1 DEF Inv, RegistryConsistent, Seats

LEMMA OpensATable ==
  ASSUME Inv, NEW t \in Thread, NEW x \in Player, NEW o \in Player, Start(t, x, o)
  PROVE  Seating!Next
<1>1. PICK id \in MatchId \ DOMAIN game :
        /\ game' = Put(game, {id}, [x |-> x, o |-> o, moves |-> 0,
                                    status |-> "in_progress"])
        /\ active' = active \cup {id}
  BY DEF Start
<1>2. x # o /\ x \notin DOMAIN byPlayer /\ o \notin DOMAIN byPlayer
  BY DEF Start, busy
<1>3. {x, o} \cap Seating!SeatedPlayers = {}
  BY <1>2, SeatedAreBusy
<1>4. DOMAIN game' = DOMAIN game \cup {id}
  BY <1>1 DEF Put
<1>5. \A i \in active : i \in DOMAIN game /\ game'[i] = game[i]
  BY <1>1 DEF Put, Inv, RegistryConsistent
<1>6. game'[id].x = x /\ game'[id].o = o
  BY <1>1 DEF Put
<1>7. Seated' = Seated \cup {[id |-> id, x |-> x, o |-> o]}
  BY <1>1, <1>5, <1>6 DEF Seated, Open
<1>8. Seating!Open(id, x, o)
  BY <1>2, <1>3, <1>4, <1>7 DEF Seating!Open, Seated, Open
<1> QED
  BY <1>8 DEF Seating!Next

LEMMA ClosesATable ==
  ASSUME Inv, NEW id \in active, forget(id), DOMAIN game' = DOMAIN game,
         \A i \in DOMAIN game : game'[i].x = game[i].x /\ game'[i].o = game[i].o
  PROVE  Seating!Next
<1>1. active' = active \ {id}
  BY DEF forget
<1>2. \A i \in active : Open(i)' = Open(i)
  BY DEF Open, Inv, RegistryConsistent
<1>3. \A i \in active : Open(i) = Open(id) => i = id
  BY DEF Open
<1>4. Seated' = Seated \ {Open(id)}
  BY <1>1, <1>2, <1>3 DEF Seated
<1>5. Open(id) \in Seated
  BY DEF Seated, Open
<1>6. Seating!Close(Open(id))
  BY <1>4, <1>5 DEF Seating!Close, Seated, Open
<1>7. Open(id) \in {[id |-> i, x |-> game[i].x, o |-> game[i].o] : i \in active}
  BY DEF Open
<1> QED
  BY <1>6, <1>7 DEF Seating!Next, Seating!Close

LEMMA MovesATable ==
  ASSUME Inv, NEW t \in Thread, NEW p \in Player, Move(t, p)
  PROVE  Seating!Next \/ UNCHANGED <<Seated, DOMAIN game>>
<1> DEFINE id == byPlayer[p]
<1>1. id \in active /\ id \in DOMAIN game
  BY MoveCases DEF lookup, Inv, RegistryConsistent
<1>2. PICK g \in GameState :
        /\ g.x = game[id].x /\ g.o = game[id].o
        /\ game' = [game EXCEPT ![id] = g]
        /\ Finishing(t, p, id, g) \/ Continuing(t, p, id, g)
  BY <1>1, MoveCases DEF Inv
<1>3. /\ DOMAIN game' = DOMAIN game
      /\ \A i \in DOMAIN game : game'[i].x = game[i].x /\ game'[i].o = game[i].o
  BY <1>1, <1>2
<1>4. CASE Finishing(t, p, id, g)
  BY <1>1, <1>3, <1>4, ClosesATable DEF Finishing
<1>5. CASE Continuing(t, p, id, g)
  <2>1. active' = active
    BY <1>5 DEF Continuing
  <2>2. \A i \in active : Open(i)' = Open(i)
    BY <1>3 DEF Open, Inv, RegistryConsistent
  <2> QED
    BY <1>3, <2>1, <2>2 DEF Seated
<1> QED
  BY <1>2, <1>4, <1>5

(* Games keeps what Tables promises its callers: matches open one by one   *)
(* for players who sit nowhere, and close for both at once.                *)
THEOREM GamesImplementsTables == Spec => ImplementsTables
<1>1. Init => Seating!Init
  BY DEF Init, Seating!Init
<1>2. Inv /\ [Next]_vars => [Seating!Next]_<<Seated, DOMAIN game>>
  <2> SUFFICES ASSUME Inv, [Next]_vars, ~UNCHANGED <<Seated, DOMAIN game>>
               PROVE  Seating!Next
    OBVIOUS
  <2>1. ASSUME NEW t \in Thread, NEW x \in Player, NEW o \in Player, Start(t, x, o)
        PROVE  Seating!Next
    BY <2>1, OpensATable
  <2>2. ASSUME NEW t \in Thread, NEW p \in Player, Move(t, p)
        PROVE  Seating!Next
    BY <2>2, MovesATable
  <2>3. ASSUME NEW t \in Thread, NEW p \in Player, Abandon(t, p)
        PROVE  Seating!Next
    <3>1. byPlayer[p] \in active /\ forget(byPlayer[p]) /\ game' = game
      BY <2>3 DEF Abandon, lookup
    <3> QED
      BY <3>1, ClosesATable
  <2>4. ~(\E t \in Thread : Work(t))
    BY DEF Work, Persist, RecordLoad, RecordSave, Dispatch, Seated, Open
  <2>5. CASE Restart
    BY <2>5 DEF Restart, Seating!Restart, Seating!Next
  <2>6. ~UNCHANGED vars
    BY DEF vars, Seated, Open
  <2> QED
    BY <2>1, <2>2, <2>3, <2>4, <2>5, <2>6 DEF Next, Work
<1> QED
  BY <1>1, <1>2, Invariance, PTL DEF Spec, ImplementsTables, Seating!Spec, Seated, Open

----------------------------------------------------------------------------
(* match_started comes first.                                              *)

StartedEvent(p, id) == [to |-> p, type |-> "match_started", id |-> id, moves |-> 0]
Pending(t, ev) == Holds(todo[t], [op |-> "notify", ev |-> ev])

(* While Start holds the mutex the two openings may still be ahead of it;  *)
(* nothing else about that match can be, since every other call waits.     *)
Openings ==
  /\ mu # NoThread => todo[mu] # <<>>
  /\ \A id \in active : \A p \in Seats(id) :
       \/ StartedEvent(p, id) \in told
       \/ mu # NoThread /\ Pending(mu, StartedEvent(p, id))
  /\ \A t \in Thread, ev \in Event : Pending(t, ev) =>
       ev = StartedEvent(ev.to, ev.id) \/ StartedEvent(ev.to, ev.id) \in told
  /\ StartedFirst

LEMMA OpeningsAdvance ==
  ASSUME TypeOK, Openings, NEW t \in Thread, NEW rest \in Seq(Effect), Advance(t, rest),
         UNCHANGED <<active, game>>, told \subseteq told', told' \subseteq Event,
         \A ev \in Event : Holds(rest, [op |-> "notify", ev |-> ev]) => Pending(t, ev),
         \A ev \in Event : Pending(t, ev) =>
           Holds(rest, [op |-> "notify", ev |-> ev]) \/ ev \in told',
         \A ev \in told' : ev \in told \/ Pending(t, ev),
         RegistryConsistent
  PROVE  Openings'
<1>1. /\ todo'[t] = rest
      /\ \A u \in Thread : u # t => todo'[u] = todo[u]
      /\ mu' = IF mu = t /\ rest = <<>> THEN NoThread ELSE mu
  BY DEF Advance, TypeOK
<1>2. \A u \in Thread, ev \in Event : Pending(u, ev)' => Pending(u, ev)
  BY <1>1 DEF Pending
<1>3. mu' # NoThread => todo'[mu'] # <<>>
  BY <1>1, NoThreadAssumption DEF Openings, TypeOK
<1>4. ASSUME NEW id \in active, NEW p \in Seats(id), StartedEvent(p, id) \notin told'
      PROVE  mu' # NoThread
             /\ Holds(todo'[mu'], [op |-> "notify", ev |-> StartedEvent(p, id)])
  <2> DEFINE e == StartedEvent(p, id)
  <2>1. mu \in Thread /\ Pending(mu, e)
    BY <1>4 DEF Openings, TypeOK
  <2>2. e \in Event
    BY <1>4 DEF StartedEvent, Event, TypeOK, RegistryConsistent, Seats, GameState
  <2>3. CASE mu = t
    <3>1. Holds(rest, [op |-> "notify", ev |-> e])
      BY <1>4, <2>1, <2>2, <2>3
    <3>2. rest # <<>>
      BY <3>1 DEF Holds
    <3> QED
      BY <1>1, <2>3, <3>1, <3>2, NoThreadAssumption DEF Pending
  <2>4. CASE mu # t
    BY <1>1, <2>1, <2>4, NoThreadAssumption DEF Pending
  <2> QED
    BY <2>3, <2>4
<1>5. ASSUME NEW u \in Thread, NEW ev \in Event, Pending(u, ev)'
      PROVE  ev = StartedEvent(ev.to, ev.id) \/ StartedEvent(ev.to, ev.id) \in told'
  BY <1>2, <1>5 DEF Openings
<1>6. StartedFirst'
  <2> SUFFICES ASSUME NEW ev \in told'
               PROVE  StartedEvent(ev.to, ev.id) \in told'
    BY DEF StartedFirst, StartedEvent
  <2>1. CASE ev \in told
    BY <2>1 DEF Openings, StartedFirst, StartedEvent
  <2>2. CASE Pending(t, ev)
    BY <2>2 DEF Openings
  <2> QED
    BY <2>1, <2>2
<1> QED
  BY <1>3, <1>4, <1>5, <1>6 DEF Openings, Seats, StartedEvent, Pending

LEMMA OpeningsWork ==
  ASSUME TypeOK, TypeOK', RegistryConsistent, Openings, NEW t \in Thread, Work(t)
  PROVE  Openings'
<1> DEFINE N(ev) == [op |-> "notify", ev |-> ev]
<1>1. ASSUME NEW op, Doing(t, op)
      PROVE  /\ Tail(todo[t]) \in Seq(Effect)
             /\ \A ev \in Event : Pending(t, ev) <=>
                  Head(todo[t]) = N(ev) \/ Holds(Tail(todo[t]), N(ev))
  BY <1>1, HeadTyped, HeadOrTail DEF Pending
<1>2. ASSUME NEW op \in {"persist", "credit", "save"}, Doing(t, op)
      PROVE  \A ev \in Event : Pending(t, ev) <=> Holds(Tail(todo[t]), N(ev))
  <2>1. \A ev \in Event : Head(todo[t]) # N(ev)
    BY <1>2 DEF Doing
  <2> QED
    BY <1>1, <1>2, <2>1
<1>3. CASE Persist(t) \/ RecordSave(t)
  <2>1. /\ \E op \in {"persist", "save"} : Doing(t, op)
        /\ Advance(t, Tail(todo[t])) /\ UNCHANGED <<active, game, told>>
    BY <1>3 DEF Persist, RecordSave
  <2>2. told' \subseteq Event
    BY DEF TypeOK
  <2> QED
    BY <1>1, <1>2, <2>1, <2>2, OpeningsAdvance
<1>4. CASE RecordLoad(t)
  <2> DEFINE h == Head(todo[t])
             save == [op |-> "save", player |-> h.player,
                      stats |-> [stats[h.player] EXCEPT ![h.outcome] = @ + 1]]
  <2>1. Doing(t, "credit") /\ UNCHANGED <<active, game, told>>
    BY <1>4 DEF RecordLoad
  <2>2. told' \subseteq Event /\ Tail(todo[t]) \in Seq(Effect)
    BY <1>1, <2>1 DEF TypeOK
  <2>3. CASE Advance(t, Tail(todo[t]))
    BY <1>2, <2>1, <2>2, <2>3, OpeningsAdvance
  <2>4. CASE Advance(t, <<save>> \o Tail(todo[t]))
    <3>1. h.player \in Player /\ h.outcome \in Outcomes
      BY <2>1, HeadTyped DEF Effect
    <3>2. [stats[h.player] EXCEPT ![h.outcome] = @ + 1] \in Stats
      BY <3>1, RaisedStats DEF TypeOK
    <3>3. save \in Effect
      BY <3>1, <3>2 DEF Effect
    <3>4. <<save>> \o Tail(todo[t]) \in Seq(Effect)
      BY <2>2, <3>3
    <3>5. \A ev \in Event : save # N(ev)
      OBVIOUS
    <3>6. \A ev \in Event :
            Holds(<<save>> \o Tail(todo[t]), N(ev)) <=> Holds(Tail(todo[t]), N(ev))
      <4> DEFINE rest == Tail(todo[t])
      <4> HIDE DEF save, rest
      <4>1. \A e : Holds(<<save>> \o rest, e) <=> save = e \/ Holds(rest, e)
        BY <2>2, <3>3, Prepended DEF rest
      <4> QED
        BY <3>5, <4>1 DEF rest
    <3> HIDE DEF save
    <3> QED
      BY <1>2, <2>1, <2>2, <2>4, <3>4, <3>6, OpeningsAdvance
  <2> QED
    BY <1>4, <2>3, <2>4 DEF RecordLoad
<1>5. CASE Dispatch(t)
  <2> DEFINE e == Head(todo[t]).ev
  <2>1. /\ Doing(t, "notify") /\ Advance(t, Tail(todo[t]))
        /\ told' = told \cup {e} /\ UNCHANGED <<active, game>>
    BY <1>5 DEF Dispatch
  <2>2. e \in Event /\ Head(todo[t]) = N(e)
    BY <2>1, HeadTyped DEF Effect
  <2>3. \A ev \in Event : Head(todo[t]) = N(ev) => ev = e
    OBVIOUS
  <2>4. told' \subseteq Event
    BY DEF TypeOK
  <2> HIDE DEF e
  <2> QED
    BY <1>1, <2>1, <2>2, <2>3, <2>4, OpeningsAdvance
<1> QED
  BY <1>3, <1>4, <1>5 DEF Work

(* A call that finds the mutex free finds both openings of every live      *)
(* match told, so whatever it has to say of that match comes after.        *)
LEMMA OpeningsCall ==
  ASSUME TypeOK, Openings, RegistryConsistent, mu = NoThread,
         NEW t \in Thread, NEW id \in active, NEW rest,
         todo' = [todo EXCEPT ![t] = rest],
         \A ev \in Event : Holds(rest, [op |-> "notify", ev |-> ev]) =>
           ev.id = id /\ ev.to \in Seats(id),
         UNCHANGED <<mu, told>>, active' \subseteq active,
         \A i \in active : Seats(i)' = Seats(i)
  PROVE  Openings'
<1>1. ASSUME NEW i \in active, NEW p \in Seats(i)
      PROVE  StartedEvent(p, i) \in told
  BY <1>1 DEF Openings
<1>2. ASSUME NEW u \in Thread, NEW ev \in Event, Pending(u, ev)'
      PROVE  ev = StartedEvent(ev.to, ev.id) \/ StartedEvent(ev.to, ev.id) \in told
  <2>1. CASE u = t
    <3>1. Holds(rest, [op |-> "notify", ev |-> ev])
      BY <1>2, <2>1 DEF Pending, TypeOK
    <3> QED
      BY <1>1, <3>1
  <2>2. CASE u # t
    <3>1. Pending(u, ev)
      BY <1>2, <2>2 DEF Pending, TypeOK
    <3> QED
      BY <3>1 DEF Openings
  <2> QED
    BY <2>1, <2>2
<1>3. StartedFirst'
  BY DEF Openings, StartedFirst
<1>4. \A i \in active' : \A p \in Seats(i)' : StartedEvent(p, i) \in told'
  BY <1>1
<1> QED
  BY <1>2, <1>3, <1>4 DEF Openings, StartedEvent

LEMMA SaidOfAMatch ==
  ASSUME NEW id, NEW g, NEW type, NEW ev
  PROVE  LET n == [op |-> "notify", ev |-> ev] IN
         /\ Holds(<<record(id, g)>> \o events(type, id, g), n) =>
              n \in {notify(g.x, type, id, g), notify(g.o, type, id, g)}
         /\ Holds(<<record(id, g)>> \o results(g) \o events(type, id, g), n) =>
              n \in {notify(g.x, type, id, g), notify(g.o, type, id, g)}
<1> DEFINE n == [op |-> "notify", ev |-> ev]
           nx == notify(g.x, type, id, g)
           no == notify(g.o, type, id, g)
           r == record(id, g)
           cx == [op |-> "credit", player |-> g.x, outcome |-> OutcomeFor(g, g.x)]
           co == [op |-> "credit", player |-> g.o, outcome |-> OutcomeFor(g, g.o)]
<1>1. n # r /\ n # cx /\ n # co
  BY DEF record
<1>2. events(type, id, g) = <<nx, no>> /\ results(g) = <<cx, co>>
  BY DEF events, results
<1> HIDE DEF n, nx, no, r, cx, co
<1> DEFINE S == {nx, no, r, cx, co}
<1>3. <<r>> \in Seq(S) /\ <<cx, co>> \in Seq(S) /\ <<nx, no>> \in Seq(S)
  OBVIOUS
<1>4. /\ Holds(<<r>>, n) => n = r
      /\ Holds(<<cx, co>>, n) => n \in {cx, co}
      /\ Holds(<<nx, no>>, n) => n \in {nx, no}
  BY DEF Holds
<1>5. Holds(<<r>> \o <<nx, no>>, n) => n \in {nx, no}
  BY <1>1, <1>3, <1>4, Concatenated
<1>6. Holds(<<r>> \o <<cx, co>> \o <<nx, no>>, n) => n \in {nx, no}
  <2>1. <<r>> \o <<cx, co>> \in Seq(S)
        /\ (Holds(<<r>> \o <<cx, co>>, n) => n \in {r, cx, co})
    BY <1>3, <1>4, Concatenated
  <2> QED
    BY <1>1, <1>3, <1>4, <2>1, Concatenated
<1> QED
  BY <1>2, <1>5, <1>6 DEF n, nx, no, r

LEMMA OpeningsStart ==
  ASSUME TypeOK, RegistryConsistent, Openings,
         NEW t \in Thread, NEW x \in Player, NEW o \in Player, Start(t, x, o)
  PROVE  Openings'
<1> DEFINE g == [x |-> x, o |-> o, moves |-> 0, status |-> "in_progress"]
<1>1. PICK id \in MatchId \ DOMAIN game :
        /\ game' = Put(game, {id}, g)
        /\ active' = active \cup {id}
        /\ todo' = [todo EXCEPT ![t] = <<record(id, g)>> \o events("match_started", id, g)]
  BY DEF Start
<1>2. mu = NoThread /\ mu' = t /\ told' = told
  BY DEF Start
<1> DEFINE call == <<record(id, g)>> \o events("match_started", id, g)
<1> DEFINE nx == [op |-> "notify", ev |-> StartedEvent(x, id)]
           no == [op |-> "notify", ev |-> StartedEvent(o, id)]
<1>3. events("match_started", id, g) = <<nx, no>>
  BY DEF events, notify, StartedEvent
<1>4. Holds(call, nx) /\ Holds(call, no) /\ call # <<>>
  <2> DEFINE r == record(id, g)
  <2> HIDE DEF nx, no, r
  <2>1. <<r>> \in Seq({r, nx, no}) /\ <<nx, no>> \in Seq({r, nx, no})
    OBVIOUS
  <2>2. Holds(<<nx, no>>, nx) /\ Holds(<<nx, no>>, no)
    BY DEF Holds
  <2>3. Holds(<<r>> \o <<nx, no>>, nx) /\ Holds(<<r>> \o <<nx, no>>, no)
    BY <2>1, <2>2, Concatenated
  <2>4. call = <<r>> \o <<nx, no>>
    BY <1>3 DEF r
  <2>5. call # <<>>
    BY <2>3, <2>4 DEF Holds
  <2> QED
    BY <2>3, <2>4, <2>5
<1>5. \A ev : Holds(call, [op |-> "notify", ev |-> ev]) =>
        ev \in {StartedEvent(x, id), StartedEvent(o, id)}
  <2> SUFFICES ASSUME NEW ev, Holds(call, [op |-> "notify", ev |-> ev])
               PROVE  ev \in {StartedEvent(x, id), StartedEvent(o, id)}
    OBVIOUS
  <2>1. [op |-> "notify", ev |-> ev] \in
          {notify(g.x, "match_started", id, g), notify(g.o, "match_started", id, g)}
    BY SaidOfAMatch
  <2> QED
    BY <2>1 DEF notify, StartedEvent
<1>6. todo'[t] = call /\ \A u \in Thread : u # t => todo'[u] = todo[u]
  BY <1>1 DEF TypeOK
<1> HIDE DEF call
<1>7. mu' # NoThread => todo'[mu'] # <<>>
  BY <1>2, <1>4, <1>6
<1>8. ASSUME NEW i \in active', NEW p \in Seats(i)'
      PROVE  \/ StartedEvent(p, i) \in told'
             \/ mu' # NoThread /\ Holds(todo'[mu'], [op |-> "notify", ev |-> StartedEvent(p, i)])
  <2>1. CASE i = id
    <3>1. Seats(i)' = {x, o}
      BY <1>1, <2>1 DEF Seats, Put
    <3> QED
      BY <1>2, <1>4, <1>6, <1>8, <2>1, <3>1, NoThreadAssumption
  <2>2. CASE i # id
    <3>1. i \in active /\ i \in DOMAIN game
      BY <1>1, <1>8, <2>2 DEF RegistryConsistent
    <3>2. Seats(i)' = Seats(i)
      BY <1>1, <2>2, <3>1 DEF Seats, Put
    <3> QED
      BY <1>2, <1>8, <3>1, <3>2 DEF Openings
  <2> QED
    BY <2>1, <2>2
<1>9. ASSUME NEW u \in Thread, NEW ev \in Event,
             Holds(todo'[u], [op |-> "notify", ev |-> ev])
      PROVE  ev = StartedEvent(ev.to, ev.id) \/ StartedEvent(ev.to, ev.id) \in told'
  <2>1. CASE u = t
    BY <1>5, <1>6, <1>9, <2>1 DEF StartedEvent
  <2>2. CASE u # t
    BY <1>2, <1>6, <1>9, <2>2 DEF Openings, Pending
  <2> QED
    BY <2>1, <2>2
<1>10. StartedFirst'
  BY <1>2 DEF Openings, StartedFirst
<1> QED
  BY <1>7, <1>8, <1>9, <1>10 DEF Openings, Pending, StartedEvent

LEMMA OpeningsMove ==
  ASSUME TypeOK, RegistryConsistent, Openings,
         NEW t \in Thread, NEW p \in Player, Move(t, p)
  PROVE  Openings'
<1> DEFINE id == byPlayer[p]
<1>1. id \in active /\ id \in DOMAIN game /\ mu = NoThread
  BY MoveCases DEF lookup, RegistryConsistent
<1>2. PICK g \in GameState :
        /\ g.x = game[id].x /\ g.o = game[id].o
        /\ game' = [game EXCEPT ![id] = g]
        /\ Finishing(t, p, id, g) \/ Continuing(t, p, id, g)
  BY <1>1, MoveCases
<1>3. UNCHANGED <<mu, told>>
  BY DEF Move
<1>4. \A i \in active : Seats(i)' = Seats(i)
  <2>1. \A i \in active : i \in DOMAIN game
    BY DEF RegistryConsistent
  <2> QED
    BY <1>1, <1>2, <2>1 DEF Seats
<1>5. \A type, ev : [op |-> "notify", ev |-> ev] \in
          {notify(g.x, type, id, g), notify(g.o, type, id, g)}
        => ev.id = id /\ ev.to \in Seats(id)
  BY <1>2 DEF notify, Seats
<1> HIDE DEF id
<1>6. CASE Finishing(t, p, id, g)
  <2> DEFINE rest == <<record(id, g)>> \o results(g) \o events("match_ended", id, g)
  <2>1. active' \subseteq active /\ todo' = [todo EXCEPT ![t] = rest]
    BY <1>6 DEF Finishing, forget
  <2>2. \A ev \in Event : Holds(rest, [op |-> "notify", ev |-> ev]) =>
          ev.id = id /\ ev.to \in Seats(id)
    <3> SUFFICES ASSUME NEW ev \in Event, Holds(rest, [op |-> "notify", ev |-> ev])
                 PROVE  ev.id = id /\ ev.to \in Seats(id)
      BY Zenon
    <3>1. [op |-> "notify", ev |-> ev] \in
            {notify(g.x, "match_ended", id, g), notify(g.o, "match_ended", id, g)}
      BY SaidOfAMatch
    <3> QED
      BY <1>5, <3>1
  <2> HIDE DEF rest
  <2> QED
    BY <1>1, <1>3, <1>4, <2>1, <2>2, OpeningsCall
<1>7. CASE Continuing(t, p, id, g)
  <2> DEFINE rest == <<record(id, g)>> \o events("state_changed", id, g)
  <2>1. active' \subseteq active /\ todo' = [todo EXCEPT ![t] = rest]
    BY <1>7 DEF Continuing
  <2>2. \A ev \in Event : Holds(rest, [op |-> "notify", ev |-> ev]) =>
          ev.id = id /\ ev.to \in Seats(id)
    <3> SUFFICES ASSUME NEW ev \in Event, Holds(rest, [op |-> "notify", ev |-> ev])
                 PROVE  ev.id = id /\ ev.to \in Seats(id)
      BY Zenon
    <3>1. [op |-> "notify", ev |-> ev] \in
            {notify(g.x, "state_changed", id, g), notify(g.o, "state_changed", id, g)}
      BY SaidOfAMatch
    <3> QED
      BY <1>5, <3>1
  <2> HIDE DEF rest
  <2> QED
    BY <1>1, <1>3, <1>4, <2>1, <2>2, OpeningsCall
<1> QED
  BY <1>2, <1>6, <1>7 DEF id

LEMMA OpeningsAbandon ==
  ASSUME TypeOK, RegistryConsistent, Openings,
         NEW t \in Thread, NEW p \in Player, Abandon(t, p)
  PROVE  Openings'
<1> DEFINE id == byPlayer[p]
           opponent == IF p = game[id].x THEN game[id].o ELSE game[id].x
           n == notify(opponent, "opponent_left", id, game[id])
           rest == <<n>>
<1>1. /\ id \in active /\ mu = NoThread /\ forget(id)
      /\ todo' = [todo EXCEPT ![t] = rest] /\ UNCHANGED <<mu, game, told>>
  BY DEF Abandon, lookup
<1>2. \A ev \in Event : Holds(rest, [op |-> "notify", ev |-> ev]) =>
        ev.id = id /\ ev.to \in Seats(id)
  <2> SUFFICES ASSUME NEW ev \in Event, Holds(rest, [op |-> "notify", ev |-> ev])
               PROVE  ev.id = id /\ ev.to \in Seats(id)
    BY Zenon
  <2>1. [op |-> "notify", ev |-> ev] = n
    BY DEF Holds
  <2> QED
    BY <2>1 DEF notify, Seats
<1>3. active' \subseteq active /\ \A i \in active : Seats(i)' = Seats(i)
  BY <1>1 DEF forget, Seats
<1> HIDE DEF id, rest
<1> QED
  BY <1>1, <1>2, <1>3, OpeningsCall

(* A player hears of a match first that it has started: whatever saves,    *)
(* events and calls interleave, no event of a match overtakes its opening. *)
THEOREM OpeningsSound == Spec => []StartedFirst
<1>1. Init => Openings
  BY DEF Init, Openings, StartedFirst, Pending, Holds
<1>2. Inv /\ Inv' /\ Openings /\ [Next]_vars => Openings'
  <2> SUFFICES ASSUME Inv, Inv', Openings, [Next]_vars PROVE Openings'
    OBVIOUS
  <2> USE DEF Inv
  <2>1. ASSUME NEW t \in Thread, NEW x \in Player, NEW o \in Player, Start(t, x, o)
        PROVE  Openings'
    BY <2>1, OpeningsStart
  <2>2. ASSUME NEW t \in Thread, NEW p \in Player, Move(t, p)
        PROVE  Openings'
    BY <2>2, OpeningsMove
  <2>3. ASSUME NEW t \in Thread, NEW p \in Player, Abandon(t, p)
        PROVE  Openings'
    BY <2>3, OpeningsAbandon
  <2>4. ASSUME NEW t \in Thread, Work(t)
        PROVE  Openings'
    BY <2>4, OpeningsWork
  <2>5. CASE Restart
    BY <2>5 DEF Restart, Openings, StartedFirst, Pending, Holds
  <2>6. CASE UNCHANGED vars
    BY <2>6 DEF vars, Openings, StartedFirst, Pending, Seats
  <2> QED
    BY <2>1, <2>2, <2>3, <2>4, <2>5, <2>6 DEF Next, Work
<1>3. Openings => StartedFirst
  BY DEF Openings
<1> QED
  BY <1>1, <1>2, <1>3, Invariance, PTL DEF Spec
=============================================================================

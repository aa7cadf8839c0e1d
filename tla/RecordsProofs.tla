---------------------------- MODULE RecordsProofs ----------------------------
(***************************************************************************)
(* Proofs about what leaves usecase.Games: a match ends once, what the     *)
(* match store holds is true, the opening record is saved first, no result *)
(* is counted twice, and none is lost unless a store fails or two updates  *)
(* of one player overlap.                                                  *)
(*                                                                         *)
(* All are about a snapshot taken under the mutex that reaches the         *)
(* notifier or a store much later, so their invariants speak of what has   *)
(* been handed out and of what is still on its way alike.                  *)
(***************************************************************************)
EXTENDS GamesProofs, FiniteSetTheorems

Write(r) == [op |-> "persist", rec |-> r]

Says(rest, ev) == Holds(rest, [op |-> "notify", ev |-> ev])
Saying(t, ev) == Says(todo[t], ev)
Writing(t, r) == Holds(todo[t], Write(r))

----------------------------------------------------------------------------
(* What a step of a call does to these.                                    *)

(* Nothing is added to any call but the save that follows a load.          *)
LEMMA WorkDrops ==
  ASSUME TypeOK, NEW t \in Thread, Work(t)
  PROVE  /\ UNCHANGED <<active, byPlayer, game>>
         /\ \A u \in Thread : \A ev : Saying(u, ev)' => Saying(u, ev)
         /\ \A u \in Thread : \A r : Writing(u, r)' => Writing(u, r)
         /\ \A u \in Thread : u # t => todo'[u] = todo[u]
         /\ Doing(t, "persist") => todo'[t] = Tail(todo[t])
         /\ mu' = mu \/ (mu' = NoThread /\ mu = t /\ todo'[t] = <<>>)
<1> DEFINE rest == Tail(todo[t])
           h == Head(todo[t])
           save == [op |-> "save", player |-> h.player,
                    stats |-> [stats[h.player] EXCEPT ![h.outcome] = @ + 1]]
<1>1. UNCHANGED <<active, byPlayer, game>>
  BY DEF Work, Persist, RecordLoad, RecordSave, Dispatch
<1>2. todo[t] \in Seq(Effect) /\ todo[t] # <<>> /\ rest \in Seq(Effect)
  BY HeadTyped DEF Work, Persist, RecordLoad, RecordSave, Dispatch
<1>3. Advance(t, rest) \/ (Doing(t, "credit") /\ Advance(t, <<save>> \o rest))
  BY DEF Work, Persist, RecordLoad, RecordSave, Dispatch
<1>4. ASSUME NEW e, Holds(rest, e) PROVE Holds(todo[t], e)
  BY <1>2, <1>4, HeadOrTail
<1>5. ASSUME Doing(t, "credit"), NEW e, Holds(<<save>> \o rest, e)
      PROVE  e = save \/ Holds(rest, e)
  <2>1. h.player \in Player /\ h.outcome \in Outcomes
    BY <1>5, HeadTyped DEF Effect
  <2>2. [stats[h.player] EXCEPT ![h.outcome] = @ + 1] \in Stats
    BY <2>1, RaisedStats DEF TypeOK
  <2>3. save \in Effect
    BY <2>1, <2>2 DEF Effect
  <2> HIDE DEF save, rest
  <2> QED
    BY <1>2, <1>5, <2>3, Prepended
<1>7. \A u \in Thread : u # t => todo'[u] = todo[u]
  BY <1>3 DEF Advance, TypeOK
<1>8. todo'[t] = rest \/ (Doing(t, "credit") /\ todo'[t] = <<save>> \o rest)
  BY <1>3 DEF Advance, TypeOK
<1>9. \A ev : save # [op |-> "notify", ev |-> ev]
  OBVIOUS
<1>10. \A r : save # Write(r)
  BY DEF Write
<1>14. Doing(t, "persist") => todo'[t] = rest
  BY <1>8 DEF Doing
<1>11. mu' = mu \/ (mu' = NoThread /\ mu = t /\ todo'[t] = <<>>)
  BY <1>3 DEF Advance, TypeOK
<1> HIDE DEF rest, h, save
<1>12. \A u \in Thread : \A ev : Saying(u, ev)' => Saying(u, ev)
  BY <1>4, <1>5, <1>7, <1>8, <1>9 DEF Saying, Says
<1>13. \A u \in Thread : \A r : Writing(u, r)' => Writing(u, r)
  BY <1>4, <1>5, <1>7, <1>8, <1>10 DEF Writing, Write
<1> QED
  BY <1>1, <1>7, <1>14, <1>11, <1>12, <1>13 DEF rest

LEMMA WorkTells ==
  ASSUME TypeOK, NEW t \in Thread, Work(t)
  PROVE  \A ev \in told' : ev \in told \/ Saying(t, ev)
<1>1. CASE Dispatch(t)
  <2>1. Doing(t, "notify") /\ told' = told \cup {Head(todo[t]).ev}
    BY <1>1 DEF Dispatch
  <2>2. Head(todo[t]) = [op |-> "notify", ev |-> Head(todo[t]).ev]
    BY <2>1, HeadTyped DEF Effect
  <2>3. Saying(t, Head(todo[t]).ev)
    BY <2>1, <2>2, HeadTyped, HeadOrTail DEF Saying, Says
  <2> QED
    BY <2>1, <2>3
<1>2. CASE ~Dispatch(t)
  BY <1>2 DEF Work, Persist, RecordLoad, RecordSave
<1> QED
  BY <1>1, <1>2

LEMMA WorkSaves ==
  ASSUME TypeOK, NEW t \in Thread, Work(t)
  PROVE  \/ records' = records
         \/ \E r \in Record : Writing(t, r) /\ records' = Stored(r)
<1>1. CASE Persist(t)
  <2>1. Doing(t, "persist") /\ (records' = records \/ records' = Stored(Head(todo[t]).rec))
    BY <1>1 DEF Persist
  <2>2. Head(todo[t]) = Write(Head(todo[t]).rec) /\ Head(todo[t]).rec \in Record
    BY <2>1, HeadTyped DEF Effect, Write
  <2>3. Writing(t, Head(todo[t]).rec)
    BY <2>1, <2>2, HeadTyped, HeadOrTail DEF Writing
  <2> QED
    BY <2>1, <2>2, <2>3
<1>2. CASE ~Persist(t)
  BY <1>2 DEF Work, RecordLoad, RecordSave, Dispatch, stores
<1> QED
  BY <1>1, <1>2

(* A call writes the position it has reached and nothing else.             *)
LEMMA WrittenOfAMatch ==
  ASSUME NEW id, NEW g, NEW type, NEW r
  PROVE  /\ Holds(<<record(id, g)>> \o events(type, id, g), Write(r)) =>
              Write(r) = record(id, g)
         /\ Holds(<<record(id, g)>> \o results(g) \o events(type, id, g), Write(r)) =>
              Write(r) = record(id, g)
<1> DEFINE n == Write(r)
           nx == notify(g.x, type, id, g)
           no == notify(g.o, type, id, g)
           w == record(id, g)
           cx == [op |-> "credit", player |-> g.x, outcome |-> OutcomeFor(g, g.x)]
           co == [op |-> "credit", player |-> g.o, outcome |-> OutcomeFor(g, g.o)]
<1>1. n # nx /\ n # no /\ n # cx /\ n # co
  BY DEF notify, Write
<1>2. events(type, id, g) = <<nx, no>> /\ results(g) = <<cx, co>>
  BY DEF events, results
<1> HIDE DEF n, nx, no, w, cx, co
<1> DEFINE S == {nx, no, w, cx, co}
<1>3. <<w>> \in Seq(S) /\ <<cx, co>> \in Seq(S) /\ <<nx, no>> \in Seq(S)
  OBVIOUS
<1>4. /\ Holds(<<w>>, n) => n = w
      /\ Holds(<<cx, co>>, n) => n \in {cx, co}
      /\ Holds(<<nx, no>>, n) => n \in {nx, no}
  BY DEF Holds
<1>5. Holds(<<w>> \o <<nx, no>>, n) => n = w
  BY <1>1, <1>3, <1>4, Concatenated
<1>6. Holds(<<w>> \o <<cx, co>> \o <<nx, no>>, n) => n = w
  <2>1. <<w>> \o <<cx, co>> \in Seq(S)
        /\ (Holds(<<w>> \o <<cx, co>>, n) => n \in {w, cx, co})
    BY <1>3, <1>4, Concatenated
  <2>2. Holds(<<w>> \o <<cx, co>> \o <<nx, no>>, n)
          => Holds(<<w>> \o <<cx, co>>, n) \/ Holds(<<nx, no>>, n)
    BY <1>3, <2>1, Concatenated
  <2> QED
    BY <1>1, <1>4, <2>1, <2>2
<1> QED
  BY <1>2, <1>5, <1>6 DEF n, nx, no, w

----------------------------------------------------------------------------
(* A match ends once.                                                      *)

Ends == {"match_ended", "opponent_left"}
Said(ev) == ev \in told \/ \E t \in Thread : Saying(t, ev)

(* An ending is said of no match that is still in the registry, so a call  *)
(* that finds a match there is the first to end it.                        *)
Endings ==
  /\ \A ev \in Event : Said(ev) => ev.id \in DOMAIN game
  /\ \A ev \in Event : Said(ev) /\ ev.type \in Ends => ev.id \notin active
  /\ \A e, f \in Event :
       Said(e) /\ Said(f) /\ e.id = f.id /\ e.type = "opponent_left" /\ f.type \in Ends => e = f

LEMMA EndingsFewer ==
  ASSUME Endings, \A ev \in Event : Said(ev)' => Said(ev),
         active' \subseteq active, DOMAIN game \subseteq DOMAIN game'
  PROVE  Endings'
<1> DEFINE S(ev) == Said(ev)'
<1>1. \A ev \in Event : S(ev) => Said(ev)
  OBVIOUS
<1>2. \A ev \in Event : S(ev) => ev.id \in DOMAIN game'
  BY DEF Endings
<1>3. \A ev \in Event : S(ev) /\ ev.type \in Ends => ev.id \notin active'
  BY DEF Endings
<1>4. \A e, f \in Event :
        S(e) /\ S(f) /\ e.id = f.id /\ e.type = "opponent_left" /\ f.type \in Ends => e = f
  BY DEF Endings
<1> QED
  BY <1>2, <1>3, <1>4 DEF Endings

(* What a call has to say: of which match, and whether it ends it.         *)
About(rest, id) == \A ev : Says(rest, ev) => ev.id = id
Quiet(rest) == \A ev : Says(rest, ev) => ev.type \notin Ends
OnlyEnded(rest) == \A ev : Says(rest, ev) => ev.type = "match_ended"
OnlyOne(rest) == \A e, f : Says(rest, e) /\ Says(rest, f) => e = f

LEMMA EndingsCall ==
  ASSUME TypeOK, Endings, NEW t \in Thread, NEW id, NEW rest,
         todo' = [todo EXCEPT ![t] = rest], told' = told,
         id \in DOMAIN game', DOMAIN game \subseteq DOMAIN game',
         active' \cap DOMAIN game \subseteq active,
         About(rest, id),
         Quiet(rest) \/ (id \in active \ active' /\ (OnlyEnded(rest) \/ OnlyOne(rest)))
  PROVE  Endings'
<1> DEFINE S(ev) == Said(ev)'
<1>1. \A u \in Thread : todo'[u] = IF u = t THEN rest ELSE todo[u]
  BY DEF TypeOK
<1>2. \A ev : S(ev) => Said(ev) \/ Says(rest, ev)
  BY <1>1 DEF Said, Saying
<1>6. \A ev : Says(rest, ev) /\ ev.type \in Ends => id \in active \ active'
  BY DEF Quiet
<1> HIDE DEF S
<1>3. \A ev \in Event : S(ev) => ev.id \in DOMAIN game'
  BY <1>2 DEF Endings, About
<1>4. \A ev \in Event : S(ev) /\ ev.type \in Ends => ev.id \notin active'
  <2> SUFFICES ASSUME NEW ev \in Event, S(ev), ev.type \in Ends PROVE ev.id \notin active'
    OBVIOUS
  <2>1. CASE Said(ev)
    BY <2>1 DEF Endings
  <2>2. CASE Says(rest, ev)
    BY <1>6, <2>2 DEF About
  <2> QED
    BY <1>2, <2>1, <2>2
<1>5. ASSUME NEW e \in Event, NEW f \in Event, S(e), S(f), e.id = f.id,
             e.type = "opponent_left", f.type \in Ends
      PROVE  e = f
  <2>1. e.type \in Ends /\ e.type # "match_ended"
    BY <1>5 DEF Ends
  <2>2. CASE Said(e) /\ Said(f)
    BY <1>5, <2>2 DEF Endings
  <2>3. CASE Says(rest, e) /\ Says(rest, f)
    BY <2>1, <2>3 DEF Quiet, OnlyEnded, OnlyOne
  <2>4. ~(Says(rest, e) /\ Said(f))
    BY <1>5, <1>6, <2>1 DEF Endings, About
  <2>5. ~(Said(e) /\ Says(rest, f))
    BY <1>5, <1>6, <2>1 DEF Endings, About
  <2> QED
    BY <1>2, <1>5, <2>2, <2>3, <2>4, <2>5
<1> QED
  BY <1>3, <1>4, <1>5 DEF Endings, S

LEMMA SaysOfAMatch ==
  ASSUME NEW id, NEW g, NEW type
  PROVE  LET rest == <<record(id, g)>> \o events(type, id, g)
             last == <<record(id, g)>> \o results(g) \o events(type, id, g)
         IN /\ About(rest, id) /\ (type \notin Ends => Quiet(rest))
            /\ About(last, id) /\ (type = "match_ended" => OnlyEnded(last))
<1> DEFINE rest == <<record(id, g)>> \o events(type, id, g)
           last == <<record(id, g)>> \o results(g) \o events(type, id, g)
<1>1. ASSUME NEW ev, Says(rest, ev) \/ Says(last, ev)
      PROVE  ev.id = id /\ ev.type = type
  <2>1. [op |-> "notify", ev |-> ev] \in {notify(g.x, type, id, g), notify(g.o, type, id, g)}
    BY <1>1, SaidOfAMatch DEF Says
  <2> QED
    BY <2>1 DEF notify
<1>2. \A ev : Says(rest, ev) \/ Says(last, ev) => ev.id = id /\ ev.type = type
  BY <1>1
<1> HIDE DEF rest, last
<1>3. About(rest, id) /\ About(last, id)
  BY <1>2 DEF About
<1>4. (type \notin Ends => Quiet(rest)) /\ (type = "match_ended" => OnlyEnded(last))
  BY <1>2 DEF Quiet, OnlyEnded
<1> QED
  BY <1>3, <1>4 DEF rest, last

LEMMA EndingsStart ==
  ASSUME Inv, Endings, NEW t \in Thread, NEW x \in Player, NEW o \in Player, Start(t, x, o)
  PROVE  Endings'
<1> DEFINE g == [x |-> x, o |-> o, moves |-> 0, status |-> "in_progress"]
<1>1. PICK id \in MatchId \ DOMAIN game :
        /\ game' = Put(game, {id}, g)
        /\ active' = active \cup {id}
        /\ todo' = [todo EXCEPT ![t] = <<record(id, g)>> \o events("match_started", id, g)]
        /\ told' = told
  BY DEF Start
<1> DEFINE rest == <<record(id, g)>> \o events("match_started", id, g)
<1> HIDE DEF g
<1>2. About(rest, id) /\ Quiet(rest)
  BY SaysOfAMatch DEF Ends
<1>3. DOMAIN game' = DOMAIN game \cup {id}
  BY <1>1 DEF Put
<1>4. todo' = [todo EXCEPT ![t] = rest]
  BY <1>1
<1> HIDE DEF rest
<1>5. active' \cap DOMAIN game \subseteq active
  BY <1>1
<1> QED
  BY <1>1, <1>2, <1>3, <1>4, <1>5, EndingsCall DEF Inv

LEMMA EndingsMove ==
  ASSUME Inv, Endings, NEW t \in Thread, NEW p \in Player, Move(t, p)
  PROVE  Endings'
<1> DEFINE id == byPlayer[p]
<1>1. id \in active /\ id \in DOMAIN game
  BY MoveCases DEF lookup, Inv, RegistryConsistent
<1>2. PICK g \in GameState :
        /\ game' = [game EXCEPT ![id] = g]
        /\ Finishing(t, p, id, g) \/ Continuing(t, p, id, g)
  BY <1>1, MoveCases DEF Inv
<1>3. told' = told /\ DOMAIN game' = DOMAIN game
  BY <1>2 DEF Move
<1> HIDE DEF id
<1>4. CASE Finishing(t, p, id, g)
  <2> DEFINE rest == <<record(id, g)>> \o results(g) \o events("match_ended", id, g)
  <2>1. About(rest, id) /\ OnlyEnded(rest)
    BY SaysOfAMatch
  <2>2. todo' = [todo EXCEPT ![t] = rest] /\ active' = active \ {id}
    BY <1>4 DEF Finishing, forget
  <2> HIDE DEF rest
  <2>3. id \in active \ active' /\ active' \cap DOMAIN game \subseteq active
    BY <1>1, <2>2
  <2> QED
    BY <1>1, <1>3, <2>1, <2>2, <2>3, EndingsCall DEF Inv
<1>5. CASE Continuing(t, p, id, g)
  <2> DEFINE rest == <<record(id, g)>> \o events("state_changed", id, g)
  <2>1. About(rest, id) /\ Quiet(rest)
    BY SaysOfAMatch DEF Ends
  <2>2. todo' = [todo EXCEPT ![t] = rest] /\ active' = active
    BY <1>5 DEF Continuing
  <2> HIDE DEF rest
  <2>3. active' \cap DOMAIN game \subseteq active
    BY <2>2
  <2> QED
    BY <1>1, <1>3, <2>1, <2>2, <2>3, EndingsCall DEF Inv
<1> QED
  BY <1>2, <1>4, <1>5

LEMMA EndingsAbandon ==
  ASSUME Inv, Endings, NEW t \in Thread, NEW p \in Player, Abandon(t, p)
  PROVE  Endings'
<1> DEFINE id == byPlayer[p]
           opponent == IF p = game[id].x THEN game[id].o ELSE game[id].x
           n == notify(opponent, "opponent_left", id, game[id])
           rest == <<n>>
<1>1. /\ id \in active /\ id \in DOMAIN game /\ active' = active \ {id} /\ game' = game
      /\ todo' = [todo EXCEPT ![t] = rest] /\ told' = told
  BY DEF Abandon, lookup, forget, Inv, RegistryConsistent
<1>2. \A ev : Says(rest, ev) => [op |-> "notify", ev |-> ev] = n
  BY DEF Says, Holds
<1>3. About(rest, id)
  <2> SUFFICES ASSUME NEW ev, Says(rest, ev) PROVE ev.id = id
    BY DEF About
  <2>1. [op |-> "notify", ev |-> ev] = n
    BY <1>2
  <2> QED
    BY <2>1 DEF notify
<1> HIDE DEF n, rest
<1>4. OnlyOne(rest)
  <2> SUFFICES ASSUME NEW e, NEW f, Says(rest, e), Says(rest, f) PROVE e = f
    BY DEF OnlyOne
  <2>1. [op |-> "notify", ev |-> e] = [op |-> "notify", ev |-> f]
    BY <1>2
  <2> QED
    BY <2>1
<1> HIDE DEF id
<1>5. id \in active \ active' /\ active' \cap DOMAIN game \subseteq active
  BY <1>1
<1> QED
  BY <1>1, <1>3, <1>4, <1>5, EndingsCall DEF Inv

(* Games: however a finishing move, the resignations of both players and   *)
(* their disconnects race, one player at most hears that the other left,   *)
(* and then nobody hears that the match ended.                             *)
THEOREM EndingsSound == Spec => []EndedOnce
<1>1. Init => Endings
  BY DEF Init, Endings, Said, Saying, Says, Holds
<1>2. Inv /\ Endings /\ [Next]_vars => Endings'
  <2> SUFFICES ASSUME Inv, Endings, [Next]_vars PROVE Endings'
    OBVIOUS
  <2>1. ASSUME NEW t \in Thread, Work(t) PROVE Endings'
    <3>1. \A ev \in Event : Said(ev)' => Said(ev)
      BY <2>1, WorkDrops, WorkTells DEF Inv, Said
    <3> QED
      BY <2>1, <3>1, WorkDrops, EndingsFewer DEF Inv
  <2>2. CASE Restart
    <3>1. \A ev \in Event : Said(ev)' => Said(ev)
      BY <2>2 DEF Restart, Said, Saying, Says, Holds
    <3> QED
      BY <2>2, <3>1, EndingsFewer DEF Restart
  <2>3. CASE UNCHANGED vars
    <3>1. \A ev \in Event : Said(ev)' => Said(ev)
      BY <2>3 DEF vars, Said, Saying
    <3> QED
      BY <2>3, <3>1, EndingsFewer DEF vars
  <2> QED
    BY <2>1, <2>2, <2>3, EndingsStart, EndingsMove, EndingsAbandon DEF Next, Work
<1>3. Inv /\ Endings => EndedOnce
  BY DEF Inv, TypeOK, Endings, EndedOnce, Said, Ends
<1> QED
  BY <1>1, <1>2, <1>3, Invariance, PTL DEF Spec

----------------------------------------------------------------------------
(* What the match store holds is true.                                     *)

(* A position the match really had, and its verdict if it is the last.     *)
TrueOf(G, r) ==
  /\ r.id \in DOMAIN G
  /\ r.x = G[r.id].x /\ r.o = G[r.id].o
  /\ r.moves <= G[r.id].moves
  /\ r.moves = G[r.id].moves => r.status = G[r.id].status
  /\ IsFinished(r.status) => r.moves = G[r.id].moves

Written(r) == r \in records \/ \E t \in Thread : Writing(t, r)

Recording ==
  /\ \A r, s \in records : r.id = s.id => r = s
  /\ \A r \in Record : Written(r) => TrueOf(game, r)

(* The opening record of a match is written by the holder of the mutex, as *)
(* the next thing it does; nobody else has a record of that match to write *)
(* and none is stored.                                                     *)
OpeningNext(t, r) ==
  /\ mu = t
  /\ Head(todo[t]) = Write(r) /\ \A s : ~Holds(Tail(todo[t]), Write(s))
  /\ \A s \in records : s.id # r.id
  /\ \A u \in Thread \ {t}, s \in Record : Writing(u, s) => s.id # r.id

Openers == \A t \in Thread, r \in Record : Writing(t, r) /\ r.moves = 0 => OpeningNext(t, r)

LEMMA NobodyOpens ==
  ASSUME Openers, mu = NoThread
  PROVE  \A t \in Thread, r \in Record : Writing(t, r) => r.moves # 0
BY NoThreadAssumption DEF Openers, OpeningNext

LEMMA TrueStays ==
  ASSUME TypeOK, NEW id \in DOMAIN game, ~IsFinished(game[id].status),
         NEW g \in GameState, g.x = game[id].x, g.o = game[id].o,
         g.moves = game[id].moves + 1, game' = [game EXCEPT ![id] = g],
         NEW r \in Record, TrueOf(game, r)
  PROVE  TrueOf(game', r)
<1>1. game[id].moves \in Nat /\ r.moves \in Nat
  BY DEF TypeOK, GameState, Record
<1>2. DOMAIN game' = DOMAIN game /\ game'[id] = g
      /\ \A i \in DOMAIN game : i # id => game'[i] = game[i]
  OBVIOUS
<1>3. CASE r.id = id
  <2>1. r.moves <= game[id].moves /\ ~IsFinished(r.status)
    BY <1>3 DEF TrueOf
  <2> QED
    BY <1>1, <1>2, <1>3, <2>1 DEF TrueOf
<1>4. CASE r.id # id
  BY <1>2, <1>4 DEF TrueOf
<1> QED
  BY <1>3, <1>4

LEMMA TheRecord ==
  ASSUME NEW id, NEW g, NEW r, Write(r) = record(id, g)
  PROVE  /\ r.id = id /\ r.x = g.x /\ r.o = g.o /\ r.moves = g.moves /\ r.status = g.status
BY DEF Write, record

(* A call that writes at most one record, that of the match it is about.   *)
LEMMA RecordingCall ==
  ASSUME TypeOK, Recording, NEW t \in Thread, NEW id, NEW g, NEW rest,
         todo' = [todo EXCEPT ![t] = rest], records' = records,
         \A r \in Record : TrueOf(game, r) => TrueOf(game', r),
         \A r : Holds(rest, Write(r)) => Write(r) = record(id, g),
         id \in DOMAIN game', game'[id] = g, g \in GameState
  PROVE  Recording'
<1>1. \A u \in Thread : todo'[u] = IF u = t THEN rest ELSE todo[u]
  BY DEF TypeOK
<1>2. \A r : Written(r)' => Written(r) \/ Holds(rest, Write(r))
  BY <1>1 DEF Written, Writing
<1>3. ASSUME NEW r \in Record, Written(r)' PROVE TrueOf(game', r)
  <2>1. CASE Written(r)
    BY <2>1 DEF Recording
  <2>2. CASE Holds(rest, Write(r))
    BY <2>2, TheRecord DEF TrueOf, GameState
  <2> QED
    BY <1>2, <1>3, <2>1, <2>2
<1>4. \A r, s \in records' : r.id = s.id => r = s
  BY DEF Recording
<1>5. \A r \in Record : Written(r)' => TrueOf(game, r)'
  BY <1>3 DEF TrueOf
<1> QED
  BY <1>4, <1>5 DEF Recording

LEMMA OpenersCall ==
  ASSUME TypeOK, Openers, mu = NoThread, NEW t \in Thread, NEW rest,
         todo' = [todo EXCEPT ![t] = rest],
         \A r \in Record : Holds(rest, Write(r)) => r.moves # 0
  PROVE  Openers'
<1>1. \A u \in Thread : todo'[u] = IF u = t THEN rest ELSE todo[u]
  BY DEF TypeOK
<1>2. \A u \in Thread, r \in Record : Writing(u, r)' => r.moves # 0
  BY <1>1, NobodyOpens DEF Writing
<1> QED
  BY <1>2 DEF Openers

LEMMA RecordsMove ==
  ASSUME Inv, Recording, Openers, NEW t \in Thread, NEW p \in Player, Move(t, p)
  PROVE  Recording' /\ Openers'
<1> DEFINE id == byPlayer[p]
<1>1. id \in active /\ id \in DOMAIN game /\ mu = NoThread /\ ~IsFinished(game[id].status)
  BY MoveCases DEF lookup, Inv, RegistryConsistent
<1>2. PICK g \in GameState :
        /\ g.x = game[id].x /\ g.o = game[id].o /\ g.moves = game[id].moves + 1
        /\ game' = [game EXCEPT ![id] = g]
        /\ Finishing(t, p, id, g) \/ Continuing(t, p, id, g)
  BY <1>1, MoveCases DEF Inv
<1>3. records' = records
  BY DEF Move, stores
<1> HIDE DEF id
<1>4. \A r \in Record : TrueOf(game, r) => TrueOf(game', r)
  BY <1>1, <1>2, TrueStays DEF Inv
<1>5. id \in DOMAIN game' /\ game'[id] = g /\ g.moves # 0
  BY <1>1, <1>2 DEF Inv, TypeOK, GameState
<1>6. PICK rest : /\ todo' = [todo EXCEPT ![t] = rest]
                  /\ \A r : Holds(rest, Write(r)) => Write(r) = record(id, g)
  <2>1. CASE Finishing(t, p, id, g)
    <3> DEFINE rest == <<record(id, g)>> \o results(g) \o events("match_ended", id, g)
    <3>1. \A r : Holds(rest, Write(r)) => Write(r) = record(id, g)
      BY WrittenOfAMatch
    <3> QED
      BY <2>1, <3>1 DEF Finishing
  <2>2. CASE Continuing(t, p, id, g)
    <3> DEFINE rest == <<record(id, g)>> \o events("state_changed", id, g)
    <3>1. \A r : Holds(rest, Write(r)) => Write(r) = record(id, g)
      BY WrittenOfAMatch
    <3> QED
      BY <2>2, <3>1 DEF Continuing
  <2> QED
    BY <1>2, <2>1, <2>2
<1>7. Recording'
  BY <1>3, <1>4, <1>5, <1>6, RecordingCall DEF Inv
<1>8. \A r \in Record : Holds(rest, Write(r)) => r.moves # 0
  BY <1>5, <1>6, TheRecord
<1>9. Openers'
  BY <1>1, <1>6, <1>8, OpenersCall DEF Inv
<1> QED
  BY <1>7, <1>9

LEMMA RecordsAbandon ==
  ASSUME Inv, Recording, Openers, NEW t \in Thread, NEW p \in Player, Abandon(t, p)
  PROVE  Recording' /\ Openers'
<1> DEFINE id == byPlayer[p]
           opponent == IF p = game[id].x THEN game[id].o ELSE game[id].x
           n == notify(opponent, "opponent_left", id, game[id])
           rest == <<n>>
<1>1. /\ mu = NoThread /\ id \in DOMAIN game /\ game' = game /\ records' = records
      /\ todo' = [todo EXCEPT ![t] = rest]
  BY DEF Abandon, lookup, Inv, RegistryConsistent, stores
<1>2. \A r : n # Write(r)
  BY DEF notify, Write
<1> HIDE DEF n
<1>3. \A r : ~Holds(rest, Write(r))
  BY <1>2 DEF Holds
<1> HIDE DEF rest, id
<1>4. game[id] \in GameState
  BY <1>1 DEF Inv, TypeOK
<1>5. Recording'
  BY <1>1, <1>3, <1>4, RecordingCall DEF Inv
<1>6. Openers'
  BY <1>1, <1>3, OpenersCall DEF Inv
<1> QED
  BY <1>5, <1>6

LEMMA RecordsStart ==
  ASSUME Inv, Recording, Openers,
         NEW t \in Thread, NEW x \in Player, NEW o \in Player, Start(t, x, o)
  PROVE  Recording' /\ Openers'
<1> DEFINE g == [x |-> x, o |-> o, moves |-> 0, status |-> "in_progress"]
<1>1. PICK id \in MatchId \ DOMAIN game :
        /\ game' = Put(game, {id}, g)
        /\ todo' = [todo EXCEPT ![t] = <<record(id, g)>> \o events("match_started", id, g)]
  BY DEF Start
<1>2. mu = NoThread /\ mu' = t /\ records' = records
  BY DEF Start, stores
<1> DEFINE rest == <<record(id, g)>> \o events("match_started", id, g)
<1>3. g \in GameState
  BY DEF GameState, Statuses
<1> HIDE DEF g
<1>4. \A r : Holds(rest, Write(r)) => Write(r) = record(id, g)
  BY WrittenOfAMatch
<1>5. /\ DOMAIN game' = DOMAIN game \cup {id} /\ game'[id] = g
      /\ \A i \in DOMAIN game : game'[i] = game[i]
  BY <1>1 DEF Put
<1>6. \A r \in Record : TrueOf(game, r) => TrueOf(game', r)
  BY <1>1, <1>5 DEF TrueOf
<1>7. todo' = [todo EXCEPT ![t] = rest]
  BY <1>1
<1>8. Head(rest) = record(id, g) /\ \A s : ~Holds(Tail(rest), Write(s))
  <2> DEFINE w == record(id, g)
             nx == notify(g.x, "match_started", id, g)
             no == notify(g.o, "match_started", id, g)
  <2> DEFINE both == <<nx, no>>
  <2>1. rest = <<w>> \o both
    BY DEF events
  <2>2. \A s : nx # Write(s) /\ no # Write(s)
    BY DEF notify, Write
  <2>3. both \in Seq({w, nx, no})
    OBVIOUS
  <2>4. \A s : ~Holds(both, Write(s))
    BY <2>2 DEF Holds
  <2> HIDE DEF w, both, rest
  <2>5. /\ <<w>> \o both \in Seq({w, nx, no}) /\ <<w>> \o both # <<>>
        /\ Head(<<w>> \o both) = w /\ Tail(<<w>> \o both) = both
    BY <2>3
  <2> QED
    BY <2>1, <2>4, <2>5 DEF w
<1> HIDE DEF rest
<1>9. Recording'
  BY <1>2, <1>3, <1>4, <1>5, <1>6, <1>7, RecordingCall DEF Inv
<1>10. \A u \in Thread : todo'[u] = IF u = t THEN rest ELSE todo[u]
  BY <1>7 DEF Inv, TypeOK
<1>11. \A r \in Record : Written(r) => r.id # id
  BY <1>1 DEF Recording, TrueOf
<1>12. ASSUME NEW u \in Thread, NEW r \in Record, Writing(u, r)', r.moves = 0
       PROVE  OpeningNext(u, r)'
  <2>1. u = t
    BY <1>2, <1>10, <1>12, NobodyOpens DEF Writing
  <2>2. Write(r) = record(id, g) /\ r.id = id
    BY <1>4, <1>10, <1>12, <2>1, TheRecord DEF Writing
  <2>3. \A s \in records' : s.id # r.id
    BY <1>2, <1>11, <2>2 DEF Written, Inv, TypeOK
  <2>4. \A v \in Thread \ {u}, s \in Record : Writing(v, s)' => s.id # r.id
    BY <1>10, <1>11, <2>1, <2>2 DEF Written, Writing
  <2> QED
    BY <1>2, <1>8, <1>10, <2>1, <2>2, <2>3, <2>4 DEF OpeningNext, Writing
<1> QED
  BY <1>9, <1>12 DEF Openers

LEMMA RecordsWork ==
  ASSUME Inv, Recording, Openers, NEW t \in Thread, Work(t)
  PROVE  Recording' /\ Openers'
<1>1. /\ game' = game
      /\ \A u \in Thread : \A r : Writing(u, r)' => Writing(u, r)
      /\ \A u \in Thread : u # t => todo'[u] = todo[u]
      /\ Doing(t, "persist") => todo'[t] = Tail(todo[t])
      /\ mu' = mu \/ mu = t
  BY WorkDrops DEF Inv
<1>2. \/ records' = records
      \/ \E r \in Record : Writing(t, r) /\ records' = Stored(r)
  BY WorkSaves DEF Inv
<1>3. \A s \in records' : s \in records \/ Writing(t, s)
  BY <1>2 DEF Stored
<1>4. \A r, s \in records' : r.id = s.id => r = s
  BY <1>2 DEF Stored, Recording
<1>5. \A r : Written(r)' => Written(r)
  BY <1>1, <1>3 DEF Written
<1>6. Recording'
  BY <1>1, <1>4, <1>5 DEF Recording
<1>7. ASSUME NEW u \in Thread, NEW r \in Record, Writing(u, r)', r.moves = 0
      PROVE  OpeningNext(u, r)'
  <2>1. OpeningNext(u, r)
    BY <1>1, <1>7 DEF Openers
  <2>2. u # t
    <3> SUFFICES ASSUME u = t PROVE FALSE
      OBVIOUS
    <3>1. Doing(t, "persist")
      BY <1>1, <1>7, <2>1 DEF OpeningNext, Doing, Idle, Writing, Write, Holds
    <3> QED
      BY <1>1, <1>7, <2>1, <3>1 DEF OpeningNext, Writing
  <2>3. mu' = u /\ todo'[u] = todo[u]
    BY <1>1, <2>1, <2>2 DEF OpeningNext
  <2>4. \A s \in records' : s.id # r.id
    BY <1>2, <2>1, <2>2 DEF OpeningNext, Stored
  <2>5. \A v \in Thread \ {u}, s \in Record : Writing(v, s)' => s.id # r.id
    BY <1>1, <2>1 DEF OpeningNext
  <2> QED
    BY <2>1, <2>3, <2>4, <2>5 DEF OpeningNext
<1> QED
  BY <1>6, <1>7 DEF Openers

LEMMA RecordsNext == Inv /\ Recording /\ Openers /\ [Next]_vars => Recording' /\ Openers'
<1> SUFFICES ASSUME Inv, Recording, Openers, [Next]_vars PROVE Recording' /\ Openers'
  OBVIOUS
<1>1. CASE Restart
  <2>1. records' = records /\ game' = game /\ \A t \in Thread : \A r : ~Writing(t, r)'
    BY <1>1 DEF Restart, stores, Writing, Holds
  <2> QED
    BY <2>1 DEF Recording, Written, Openers
<1>2. CASE UNCHANGED vars
  BY <1>2 DEF vars, stores, Recording, Written, Writing, Openers, OpeningNext
<1> QED
  BY <1>1, <1>2, RecordsStart, RecordsMove, RecordsAbandon, RecordsWork DEF Next, Work

LEMMA RecordsInit == Init => Recording /\ Openers
BY DEF Init, Recording, Written, Writing, Openers, Holds

(* Games: what the match store holds of a match is a position it had, with *)
(* its verdict, however the saves of concurrent calls interleave, fail or  *)
(* are cut short.                                                          *)
THEOREM RecordsSound == Spec => []StoredRecordsTrue
<1>1. Inv /\ Recording => StoredRecordsTrue
  <2> SUFFICES ASSUME Inv, Recording PROVE StoredRecordsTrue
    OBVIOUS
  <2>1. \A r \in records : TrueOf(game, r)
    BY DEF Recording, Written, Inv, TypeOK
  <2> QED
    BY <2>1 DEF StoredRecordsTrue, TrueOf, Recording
<1> QED
  BY <1>1, RecordsInit, RecordsNext, Invariance, PTL DEF Spec

(* Games.Start saves under the mutex: the record without moves reaches the *)
(* store before any other record of its match.                             *)
THEOREM OpeningsFirst == Spec => OpeningSavedFirst
<1> DEFINE First == \A r \in records' \ records : r.moves = 0 => \A s \in records : s.id # r.id
<1>1. Inv /\ Recording /\ Openers /\ [Next]_vars => First
  <2> SUFFICES ASSUME Inv, Openers, [Next]_vars, NEW r \in records' \ records, r.moves = 0
               PROVE  \A s \in records : s.id # r.id
    OBVIOUS
  <2>1. PICK t \in Thread : Work(t)
    BY DEF Next, Work, vars, stores, Start, Move, Abandon, Restart
  <2>2. r \in Record /\ Writing(t, r)
    BY <2>1, WorkSaves DEF Inv, Stored
  <2> QED
    BY <2>2 DEF Openers, OpeningNext
<1> QED
  BY <1>1, RecordsInit, RecordsNext, Invariance, PTL DEF Spec, OpeningSavedFirst
----------------------------------------------------------------------------
(* No result is counted twice.                                             *)

Credit(p, k) == [op |-> "credit", player |-> p, outcome |-> k]
Copy(p, s) == [op |-> "save", player |-> p, stats |-> s]

Owing(p, k) == {t \in Thread : Holds(todo[t], Credit(p, k))}

(* n results of p, and those that are still owed, are no more than ended.  *)
Covered(p, k, n) == n + Cardinality(Owing(p, k)) <= Cardinality(Ended(p, k))

(* A call credits each of its results once.                                *)
CreditsOnce(q) == \A i, j \in DOMAIN q : q[i].op = "credit" /\ q[i] = q[j] => i = j

(* What is stored is covered, and so is every copy on its way to the       *)
(* store: a copy is raised when its credit is taken off the list.          *)
Counting ==
  /\ \A t \in Thread : CreditsOnce(todo[t])
  /\ \A p \in Player, k \in Outcomes :
       /\ IsFiniteSet(Owing(p, k)) /\ IsFiniteSet(Ended(p, k))
       /\ Covered(p, k, stats[p][k])
  /\ \A t \in Thread, p \in Player, s \in Stats, k \in Outcomes :
       Holds(todo[t], Copy(p, s)) => Covered(p, k, s[k])

LEMMA StatsAreNumbers ==
  ASSUME NEW s \in Stats, NEW k \in Outcomes
  PROVE  /\ s[k] \in Nat
         /\ \A j \in Outcomes : [s EXCEPT ![k] = s[k] + 1][j] = IF j = k THEN s[k] + 1 ELSE s[j]
BY DEF Stats, Outcomes

LEMMA OnceInTheTail ==
  ASSUME NEW q \in Seq(Effect), q # <<>>, CreditsOnce(q)
  PROVE  /\ CreditsOnce(Tail(q))
         /\ Head(q).op = "credit" => ~Holds(Tail(q), Head(q))
         /\ \A h : h.op # "credit" => CreditsOnce(<<h>> \o Tail(q))
<1> DEFINE rest == Tail(q)
<1>1. /\ Len(q) \in Nat /\ Len(q) > 0 /\ DOMAIN q = 1 .. Len(q)
      /\ DOMAIN rest = 1 .. Len(q) - 1
      /\ \A i \in 1 .. Len(q) - 1 : rest[i] = q[i + 1]
      /\ Head(q) = q[1]
  OBVIOUS
<1>2. CreditsOnce(rest)
  <2> SUFFICES ASSUME NEW i \in DOMAIN rest, NEW j \in DOMAIN rest,
                      rest[i].op = "credit", rest[i] = rest[j]
               PROVE  i = j
    BY DEF CreditsOnce
  <2>1. i + 1 \in DOMAIN q /\ j + 1 \in DOMAIN q /\ q[i + 1] = q[j + 1] /\ q[i + 1].op = "credit"
    BY <1>1
  <2>2. i + 1 = j + 1
    BY <2>1 DEF CreditsOnce
  <2> QED
    BY <1>1, <2>2
<1>3. Head(q).op = "credit" => ~Holds(rest, Head(q))
  <2> SUFFICES ASSUME q[1].op = "credit", NEW i \in DOMAIN rest, rest[i] = q[1] PROVE FALSE
    BY <1>1 DEF Holds
  <2>1. 1 \in DOMAIN q /\ i + 1 \in DOMAIN q /\ q[i + 1] = q[1]
    BY <1>1
  <2>2. i + 1 = 1
    BY <2>1 DEF CreditsOnce
  <2> QED
    BY <1>1, <2>2
<1>4. ASSUME NEW h, h.op # "credit" PROVE CreditsOnce(<<h>> \o rest)
  <2> DEFINE new == <<h>> \o rest
  <2>1. /\ DOMAIN new = 1 .. Len(q)
        /\ \A i \in 1 .. Len(q) : new[i] = IF i = 1 THEN h ELSE q[i]
    <3>1. rest \in Seq(Effect \cup {h}) /\ <<h>> \in Seq(Effect \cup {h}) /\ Len(rest) = Len(q) - 1
      BY <1>1
    <3>2. /\ DOMAIN new = 1 .. Len(q)
          /\ \A i \in 1 .. Len(q) : new[i] = IF i <= 1 THEN <<h>>[i] ELSE rest[i - 1]
      BY <1>1, <3>1
    <3> QED
      BY <1>1, <3>2
  <2> QED
    BY <1>1, <1>4, <2>1 DEF CreditsOnce
<1> QED
  BY <1>2, <1>3, <1>4

(* What the lists of the calls hold of credits and copies.                 *)
LEMMA CreditsOfACall ==
  ASSUME NEW id, NEW g, NEW type
  PROVE  LET short == <<record(id, g)>> \o events(type, id, g)
             long == <<record(id, g)>> \o results(g) \o events(type, id, g)
         IN /\ CreditsOnce(short)
            /\ \A p, k : ~Holds(short, Credit(p, k))
            /\ \A p, s : ~Holds(short, Copy(p, s)) /\ ~Holds(long, Copy(p, s))
            /\ g.x # g.o => CreditsOnce(long)
            /\ \A p, k : Holds(long, Credit(p, k)) <=> p \in {g.x, g.o} /\ k = OutcomeFor(g, p)
<1> DEFINE nx == notify(g.x, type, id, g)
           no == notify(g.o, type, id, g)
           w == record(id, g)
           cx == Credit(g.x, OutcomeFor(g, g.x))
           co == Credit(g.o, OutcomeFor(g, g.o))
           short == <<w>> \o <<nx, no>>
           long == <<w>> \o <<cx, co>> \o <<nx, no>>
<1>1. nx.op = "notify" /\ no.op = "notify" /\ w.op = "persist" /\ cx.op = "credit" /\ co.op = "credit"
  BY DEF notify, record, Credit
<1>2. cx.player = g.x /\ co.player = g.o
  BY DEF Credit
<1>3. events(type, id, g) = <<nx, no>> /\ results(g) = <<cx, co>>
  BY DEF events, results, Credit
<1>4. \A p, k : cx = Credit(p, k) \/ co = Credit(p, k) <=> p \in {g.x, g.o} /\ k = OutcomeFor(g, p)
  BY DEF Credit
<1>5. \A p, k, s : Credit(p, k).op = "credit" /\ Copy(p, s).op = "save"
  BY DEF Credit, Copy
<1> HIDE DEF nx, no, w, cx, co
<1>6. /\ DOMAIN short = 1 .. 3
      /\ short[1] = w /\ short[2] = nx /\ short[3] = no
  OBVIOUS
<1>7. /\ DOMAIN long = 1 .. 5
      /\ long[1] = w /\ long[2] = cx /\ long[3] = co /\ long[4] = nx /\ long[5] = no
  OBVIOUS
<1> HIDE DEF short, long
<1>8. \A e : Holds(short, e) <=> e \in {w, nx, no}
  BY <1>6 DEF Holds
<1>9. \A e : Holds(long, e) <=> e \in {w, cx, co, nx, no}
  BY <1>7 DEF Holds
<1>10. CreditsOnce(short)
  BY <1>1, <1>6 DEF CreditsOnce
<1>11. g.x # g.o => CreditsOnce(long)
  BY <1>1, <1>2, <1>7 DEF CreditsOnce
<1>12. \A p, k : ~Holds(short, Credit(p, k))
  BY <1>1, <1>5, <1>8
<1>13. \A p, s : ~Holds(short, Copy(p, s)) /\ ~Holds(long, Copy(p, s))
  BY <1>1, <1>5, <1>8, <1>9
<1>14. \A p, k : Holds(long, Credit(p, k)) <=> p \in {g.x, g.o} /\ k = OutcomeFor(g, p)
  BY <1>1, <1>4, <1>5, <1>9
<1> QED
  BY <1>3, <1>10, <1>11, <1>12, <1>13, <1>14 DEF short, long, w

----------------------------------------------------------------------------
(* How the sums change.                                                    *)

LEMMA CoveredFewer ==
  ASSUME NEW p, NEW k, NEW n \in Nat, IsFiniteSet(Owing(p, k)), IsFiniteSet(Ended(p, k)),
         Owing(p, k)' \subseteq Owing(p, k), Ended(p, k)' = Ended(p, k), Covered(p, k, n)
  PROVE  Covered(p, k, n)' /\ IsFiniteSet(Owing(p, k)')
<1>1. /\ IsFiniteSet(Owing(p, k)')
      /\ Cardinality(Owing(p, k)') <= Cardinality(Owing(p, k))
  BY FS_Subset
<1>2. Cardinality(Owing(p, k)') \in Nat /\ Cardinality(Owing(p, k)) \in Nat
      /\ Cardinality(Ended(p, k)) \in Nat
  BY <1>1, FS_CardinalityType
<1> QED
  BY <1>1, <1>2 DEF Covered

LEMMA CoveredMore ==
  ASSUME NEW p, NEW k, NEW n \in Nat, IsFiniteSet(Owing(p, k)), IsFiniteSet(Ended(p, k)),
         NEW t, t \notin Owing(p, k), Owing(p, k)' = Owing(p, k) \cup {t},
         NEW id, id \notin Ended(p, k), Ended(p, k)' = Ended(p, k) \cup {id},
         Covered(p, k, n)
  PROVE  Covered(p, k, n)' /\ IsFiniteSet(Owing(p, k)') /\ IsFiniteSet(Ended(p, k)')
<1>1. IsFiniteSet(Owing(p, k)') /\ Cardinality(Owing(p, k)') = Cardinality(Owing(p, k)) + 1
  BY FS_AddElement
<1>2. IsFiniteSet(Ended(p, k)') /\ Cardinality(Ended(p, k)') = Cardinality(Ended(p, k)) + 1
  BY FS_AddElement
<1>3. Cardinality(Owing(p, k)) \in Nat /\ Cardinality(Ended(p, k)) \in Nat
  BY FS_CardinalityType
<1> QED
  BY <1>1, <1>2, <1>3 DEF Covered

(* A credit that is taken off the list covers the raised copy.             *)
LEMMA CoveredRaised ==
  ASSUME NEW p, NEW k, NEW n \in Nat, IsFiniteSet(Owing(p, k)), IsFiniteSet(Ended(p, k)),
         NEW t \in Owing(p, k), Owing(p, k)' = Owing(p, k) \ {t},
         Ended(p, k)' = Ended(p, k), Covered(p, k, n)
  PROVE  (n + 1) + Cardinality(Owing(p, k)') <= Cardinality(Ended(p, k)')
<1>1. Cardinality(Owing(p, k)') = Cardinality(Owing(p, k)) - 1
  BY FS_RemoveElement
<1>2. Cardinality(Owing(p, k)) \in Nat /\ Cardinality(Ended(p, k)) \in Nat
  BY FS_CardinalityType
<1> QED
  BY <1>1, <1>2 DEF Covered

LEMMA CountingInit == Init => Counting
<1> SUFFICES ASSUME Init PROVE Counting
  OBVIOUS
<1>1. \A t \in Thread : CreditsOnce(todo[t]) /\ \A e : ~Holds(todo[t], e)
  BY DEF Init, CreditsOnce, Holds
<1>2. \A p \in Player, k \in Outcomes : Owing(p, k) = {} /\ Ended(p, k) = {} /\ stats[p][k] = 0
  BY <1>1 DEF Init, Owing, Ended, Outcomes
<1>3. IsFiniteSet({}) /\ Cardinality({}) = 0
  BY FS_EmptySet
<1>4. \A p \in Player, k \in Outcomes : Covered(p, k, stats[p][k])
  BY <1>2, <1>3 DEF Covered
<1> QED
  BY <1>1, <1>2, <1>3, <1>4 DEF Counting

(* Nothing new is owed, no match ends and no copy is made or stored.       *)
LEMMA CountingFewer ==
  ASSUME TypeOK, Counting, \A t \in Thread : CreditsOnce(todo[t])',
         \A p \in Player, k \in Outcomes :
           Owing(p, k)' \subseteq Owing(p, k) /\ Ended(p, k)' = Ended(p, k),
         \A t \in Thread, p \in Player, s \in Stats :
           Holds(todo[t], Copy(p, s))' => Holds(todo[t], Copy(p, s)),
         stats' = stats
  PROVE  Counting'
<1>1. ASSUME NEW p \in Player, NEW k \in Outcomes, NEW n \in Nat, Covered(p, k, n)
      PROVE  Covered(p, k, n)' /\ IsFiniteSet(Owing(p, k)') /\ IsFiniteSet(Ended(p, k)')
  BY <1>1, CoveredFewer DEF Counting
<1>2. \A p \in Player, k \in Outcomes : stats[p][k] \in Nat
  BY StatsAreNumbers DEF TypeOK
<1>3. \A s \in Stats, k \in Outcomes : s[k] \in Nat
  BY StatsAreNumbers
<1>4. \A p \in Player, k \in Outcomes :
        /\ IsFiniteSet(Owing(p, k)') /\ IsFiniteSet(Ended(p, k)')
        /\ Covered(p, k, stats[p][k])'
  <2> SUFFICES ASSUME NEW p \in Player, NEW k \in Outcomes
               PROVE  /\ IsFiniteSet(Owing(p, k)') /\ IsFiniteSet(Ended(p, k)')
                      /\ Covered(p, k, stats[p][k])'
    OBVIOUS
  <2>1. Covered(p, k, stats[p][k]) /\ stats[p][k] \in Nat
    BY <1>2 DEF Counting
  <2>2. /\ IsFiniteSet(Owing(p, k)') /\ IsFiniteSet(Ended(p, k)')
        /\ stats[p][k] + Cardinality(Owing(p, k)') <= Cardinality(Ended(p, k)')
    BY <1>1, <2>1 DEF Covered
  <2> QED
    BY <2>2 DEF Covered
<1>5. ASSUME NEW t \in Thread, NEW p \in Player, NEW s \in Stats, NEW k \in Outcomes,
             Holds(todo[t], Copy(p, s))'
      PROVE  Covered(p, k, s[k])'
  BY <1>1, <1>3, <1>5 DEF Counting
<1> QED
  BY <1>4, <1>5 DEF Counting

LEMMA CountingWork ==
  ASSUME Inv, Counting, NEW t \in Thread, Work(t)
  PROVE  Counting'
<1> DEFINE rest == Tail(todo[t])
           h == Head(todo[t])
<1>1. /\ game' = game
      /\ \A u \in Thread : u # t => todo'[u] = todo[u]
  BY WorkDrops DEF Inv
<1>2. /\ todo[t] \in Seq(Effect) /\ todo[t] # <<>> /\ rest \in Seq(Effect) /\ h \in Effect
      /\ CreditsOnce(rest) /\ \A e : Holds(todo[t], e) <=> h = e \/ Holds(rest, e)
  <2>1. todo[t] \in Seq(Effect) /\ todo[t] # <<>> /\ rest \in Seq(Effect) /\ h \in Effect
    BY HeadTyped DEF Inv, Work, Persist, RecordLoad, RecordSave, Dispatch
  <2>2. CreditsOnce(rest)
    BY <2>1, OnceInTheTail DEF Counting
  <2>3. \A e : Holds(todo[t], e) <=> h = e \/ Holds(rest, e)
    BY <2>1, HeadOrTail
  <2> QED
    BY <2>1, <2>2, <2>3
<1>3. \A p, k : Ended(p, k)' = Ended(p, k)
  BY <1>1 DEF Ended, Seats
<1>4. ASSUME todo'[t] = rest, stats' = stats
      PROVE  Counting'
  <2>1. \A u \in Thread : \A e : Holds(todo'[u], e) => Holds(todo[u], e)
    BY <1>1, <1>2, <1>4
  <2>2. \A u \in Thread : CreditsOnce(todo'[u])
    BY <1>1, <1>2, <1>4 DEF Counting
  <2>3. \A p, k : Owing(p, k)' \subseteq Owing(p, k)
    BY <2>1 DEF Owing
  <2> QED
    BY <1>3, <1>4, <2>1, <2>2, <2>3, CountingFewer DEF Inv
<1>5. ASSUME Doing(t, "save"), todo'[t] = rest,
             stats' = [stats EXCEPT ![h.player] = h.stats]
      PROVE  Counting'
  <2>1. h.player \in Player /\ h.stats \in Stats /\ h = Copy(h.player, h.stats)
    BY <1>5, HeadTyped DEF Inv, Effect, Copy
  <2>2. Holds(todo[t], Copy(h.player, h.stats))
    BY <1>2, <2>1
  <2>3. \A u \in Thread : \A e : Holds(todo'[u], e) => Holds(todo[u], e)
    BY <1>1, <1>2, <1>5
  <2>4. \A u \in Thread : CreditsOnce(todo'[u])
    BY <1>1, <1>2, <1>5 DEF Counting
  <2>5. \A p, k : Owing(p, k)' \subseteq Owing(p, k)
    BY <2>3 DEF Owing
  <2>6. ASSUME NEW p \in Player, NEW k \in Outcomes, NEW n \in Nat, Covered(p, k, n)
        PROVE  /\ n + Cardinality(Owing(p, k)') <= Cardinality(Ended(p, k)')
               /\ IsFiniteSet(Owing(p, k)') /\ IsFiniteSet(Ended(p, k)')
    BY <1>3, <2>5, <2>6, CoveredFewer DEF Counting, Covered
  <2>7. \A p \in Player : stats'[p] = IF p = h.player THEN h.stats ELSE stats[p]
    BY <1>5 DEF Inv, TypeOK
  <2>8. \A p \in Player : stats[p] \in Stats
    BY DEF Inv, TypeOK
  <2> HIDE DEF h, rest
  <2>9. ASSUME NEW p \in Player, NEW k \in Outcomes
        PROVE  /\ IsFiniteSet(Owing(p, k)') /\ IsFiniteSet(Ended(p, k)')
               /\ stats'[p][k] + Cardinality(Owing(p, k)') <= Cardinality(Ended(p, k)')
    <3>1. stats'[p][k] \in Nat
      BY <2>1, <2>7, <2>8, StatsAreNumbers
    <3>2. Covered(p, k, stats'[p][k])
      BY <2>1, <2>2, <2>7 DEF Counting
    <3> QED
      BY <2>6, <3>1, <3>2
  <2>10. ASSUME NEW u \in Thread, NEW p \in Player, NEW s \in Stats, NEW k \in Outcomes,
                Holds(todo'[u], Copy(p, s))
         PROVE  s[k] + Cardinality(Owing(p, k)') <= Cardinality(Ended(p, k)')
    <3>1. Covered(p, k, s[k]) /\ s[k] \in Nat
      BY <2>3, <2>10, StatsAreNumbers DEF Counting
    <3> QED
      BY <2>6, <3>1
  <2> QED
    BY <2>4, <2>9, <2>10 DEF Counting, Covered
<1>6. ASSUME Doing(t, "credit"), stats' = stats,
             todo'[t] = <<Copy(h.player, [stats[h.player] EXCEPT ![h.outcome] = @ + 1])>> \o rest
      PROVE  Counting'
  <2>1. PICK x \in Player, z \in Outcomes : h = Credit(x, z)
    BY <1>6, HeadTyped DEF Inv, Effect, Credit
  <2>2. stats[x] \in Stats /\ [stats[x] EXCEPT ![z] = stats[x][z] + 1] \in Stats
    BY <2>1, RaisedStats DEF Inv, TypeOK
  <2>3. PICK raised \in Stats : raised = [stats[x] EXCEPT ![z] = stats[x][z] + 1]
    BY <2>2
  <2>4. /\ stats[x][z] \in Nat
        /\ \A j \in Outcomes : raised[j] = IF j = z THEN stats[x][z] + 1 ELSE stats[x][j]
    BY <2>2, <2>3, StatsAreNumbers
  <2>5. PICK new \in Effect : new = Copy(x, raised)
    BY <2>3 DEF Copy, Effect
  <2>6. /\ h.op = "credit" /\ new.op = "save"
        /\ \A p, k : h = Credit(p, k) <=> p = x /\ k = z
        /\ \A p, k : new # Credit(p, k)
    BY <2>1, <2>5 DEF Credit, Copy
  <2>7. todo'[t] = <<new>> \o rest
    <3>1. h.player = x /\ h.outcome = z
      BY <2>1 DEF Credit
    <3>2. Copy(h.player, [stats[h.player] EXCEPT ![h.outcome] = @ + 1]) = new
      BY <3>1, <2>3, <2>5
    <3> QED
      BY <1>6, <3>2
  <2>8. ~Holds(rest, h) /\ CreditsOnce(<<new>> \o rest)
    BY <1>2, <2>6, OnceInTheTail DEF Counting
  <2> HIDE DEF h, rest
  <2>9. \A e : Holds(todo'[t], e) <=> new = e \/ Holds(rest, e)
    BY <1>2, <2>5, <2>7, Prepended
  <2>10. \A u \in Thread : CreditsOnce(todo'[u])
    BY <1>1, <2>7, <2>8 DEF Counting
  <2>11. \A p, k : Owing(p, k)' \subseteq Owing(p, k)
    BY <1>1, <1>2, <2>6, <2>9 DEF Owing
  <2>12. t \in Owing(x, z) /\ Owing(x, z)' = Owing(x, z) \ {t}
    BY <1>1, <1>2, <2>1, <2>6, <2>8, <2>9 DEF Owing
  <2>13. ASSUME NEW p \in Player, NEW k \in Outcomes, NEW n \in Nat, Covered(p, k, n)
         PROVE  /\ n + Cardinality(Owing(p, k)') <= Cardinality(Ended(p, k)')
                /\ IsFiniteSet(Owing(p, k)') /\ IsFiniteSet(Ended(p, k)')
    BY <1>3, <2>11, <2>13, CoveredFewer DEF Counting, Covered
  <2>14. \A p \in Player, k \in Outcomes : Covered(p, k, stats[p][k]) /\ stats[p][k] \in Nat
    BY StatsAreNumbers DEF Counting, Inv, TypeOK
  <2>15. \A p \in Player, k \in Outcomes :
           /\ IsFiniteSet(Owing(p, k)') /\ IsFiniteSet(Ended(p, k)')
           /\ stats'[p][k] + Cardinality(Owing(p, k)') <= Cardinality(Ended(p, k)')
    BY <1>6, <2>13, <2>14
  <2>16. ASSUME NEW k \in Outcomes
         PROVE  raised[k] + Cardinality(Owing(x, k)') <= Cardinality(Ended(x, k)')
    <3>1. CASE k = z
      <4>1. IsFiniteSet(Owing(x, z)) /\ IsFiniteSet(Ended(x, z)) /\ Covered(x, z, stats[x][z])
        BY DEF Counting
      <4>2. (stats[x][z] + 1) + Cardinality(Owing(x, z)') <= Cardinality(Ended(x, z)')
        BY <1>3, <2>4, <2>12, <4>1, CoveredRaised
      <4> QED
        BY <2>4, <3>1, <4>2
    <3>2. CASE k # z
      BY <2>4, <2>13, <2>14, <3>2
    <3> QED
      BY <3>1, <3>2
  <2>17. ASSUME NEW u \in Thread, NEW p \in Player, NEW s \in Stats, NEW k \in Outcomes,
                Holds(todo'[u], Copy(p, s))
         PROVE  s[k] + Cardinality(Owing(p, k)') <= Cardinality(Ended(p, k)')
    <3>1. CASE new = Copy(p, s)
      <4>1. p = x /\ s = raised
        BY <2>5, <3>1 DEF Copy
      <4> QED
        BY <2>16, <4>1
    <3>2. CASE new # Copy(p, s)
      <4>1. Holds(todo[u], Copy(p, s))
        BY <1>1, <1>2, <2>9, <2>17, <3>2
      <4>2. Covered(p, k, s[k]) /\ s[k] \in Nat
        BY <4>1, StatsAreNumbers DEF Counting
      <4> QED
        BY <2>13, <4>2
    <3> QED
      BY <3>1, <3>2
  <2> QED
    BY <2>10, <2>15, <2>17 DEF Counting, Covered
<1>7. CASE Persist(t) \/ Dispatch(t)
  BY <1>4, <1>7 DEF Persist, Dispatch, Advance, stores, Inv, TypeOK
<1>8. CASE RecordSave(t)
  BY <1>4, <1>5, <1>8 DEF RecordSave, Advance, Inv, TypeOK
<1>9. CASE RecordLoad(t)
  BY <1>4, <1>6, <1>9 DEF RecordLoad, Advance, stores, Inv, TypeOK, Copy
<1> QED
  BY <1>7, <1>8, <1>9 DEF Work

(* A call that credits nothing.                                            *)
LEMMA CountingCall ==
  ASSUME TypeOK, Counting, NEW t \in Thread, NEW rest,
         todo' = [todo EXCEPT ![t] = rest], stats' = stats,
         CreditsOnce(rest), \A p, k : ~Holds(rest, Credit(p, k)),
         \A p, s : ~Holds(rest, Copy(p, s)),
         \A p, k : Ended(p, k)' = Ended(p, k)
  PROVE  Counting'
<1>1. \A u \in Thread : todo'[u] = IF u = t THEN rest ELSE todo[u]
  BY DEF TypeOK
<1>2. \A u \in Thread : CreditsOnce(todo'[u])
  BY <1>1 DEF Counting
<1>3. \A p, k : Owing(p, k)' \subseteq Owing(p, k)
  BY <1>1 DEF Owing
<1>4. \A u \in Thread, p \in Player, s \in Stats :
        Holds(todo'[u], Copy(p, s)) => Holds(todo[u], Copy(p, s))
  BY <1>1
<1> QED
  BY <1>2, <1>3, <1>4, CountingFewer

LEMMA CountingStart ==
  ASSUME Inv, Counting, NEW t \in Thread, NEW x \in Player, NEW o \in Player, Start(t, x, o)
  PROVE  Counting'
<1> DEFINE g == [x |-> x, o |-> o, moves |-> 0, status |-> "in_progress"]
<1>1. PICK id \in MatchId \ DOMAIN game :
        /\ game' = Put(game, {id}, g)
        /\ todo' = [todo EXCEPT ![t] = <<record(id, g)>> \o events("match_started", id, g)]
        /\ stats' = stats
  BY DEF Start, stores
<1> DEFINE rest == <<record(id, g)>> \o events("match_started", id, g)
<1>2. g.status = "in_progress"
  OBVIOUS
<1> HIDE DEF g
<1>3. /\ CreditsOnce(rest) /\ \A p, k : ~Holds(rest, Credit(p, k))
      /\ \A p, s : ~Holds(rest, Copy(p, s))
  BY CreditsOfACall
<1>4. \A p, k : Ended(p, k)' = Ended(p, k)
  <2>1. DOMAIN game' = DOMAIN game \cup {id} /\ game'[id] = g
        /\ \A i \in DOMAIN game : game'[i] = game[i]
    BY <1>1 DEF Put
  <2>2. ~IsFinished(game'[id].status)
    BY <1>2, <2>1 DEF IsFinished
  <2> QED
    BY <2>1, <2>2 DEF Ended, Seats
<1>5. todo' = [todo EXCEPT ![t] = rest] /\ stats' = stats
  BY <1>1
<1> HIDE DEF rest
<1> QED
  BY <1>3, <1>4, <1>5, CountingCall DEF Inv

LEMMA CountingAbandon ==
  ASSUME Inv, Counting, NEW t \in Thread, NEW p \in Player, Abandon(t, p)
  PROVE  Counting'
<1> DEFINE id == byPlayer[p]
           opponent == IF p = game[id].x THEN game[id].o ELSE game[id].x
           n == notify(opponent, "opponent_left", id, game[id])
           rest == <<n>>
<1>1. todo' = [todo EXCEPT ![t] = rest] /\ stats' = stats /\ game' = game
  BY DEF Abandon, stores
<1>2. n.op = "notify"
  BY DEF notify
<1>3. \A q, k, s : Credit(q, k).op = "credit" /\ Copy(q, s).op = "save"
  BY DEF Credit, Copy
<1> HIDE DEF n
<1>4. CreditsOnce(rest) /\ \A e : Holds(rest, e) => e = n
  BY <1>2 DEF CreditsOnce, Holds
<1>5. \A q, k : Ended(q, k)' = Ended(q, k)
  BY <1>1 DEF Ended, Seats
<1> HIDE DEF rest
<1>6. /\ \A q, k : ~Holds(rest, Credit(q, k))
      /\ \A q, s : ~Holds(rest, Copy(q, s))
  BY <1>2, <1>3, <1>4
<1> QED
  BY <1>1, <1>4, <1>5, <1>6, CountingCall DEF Inv

(* The move that ends a match owes each player one result and adds the     *)
(* match to what has ended for both.                                       *)
LEMMA CountingEnd ==
  ASSUME Inv, Counting, NEW t \in Thread, todo[t] = <<>>, NEW id \in active,
         NEW g \in GameState, g.x = game[id].x, g.o = game[id].o, IsFinished(g.status),
         game' = [game EXCEPT ![id] = g], stats' = stats,
         todo' = [todo EXCEPT ![t] = <<record(id, g)>> \o results(g) \o events("match_ended", id, g)]
  PROVE  Counting'
<1> DEFINE long == <<record(id, g)>> \o results(g) \o events("match_ended", id, g)
           Due(p, k) == p \in {g.x, g.o} /\ k = OutcomeFor(g, p)
<1>1. /\ id \in DOMAIN game /\ ~IsFinished(game[id].status) /\ g.x # g.o
      /\ DOMAIN game' = DOMAIN game /\ game'[id] = g
      /\ \A i \in DOMAIN game \ {id} : game'[i] = game[i]
  BY DEF Inv, RegistryConsistent
<1>2. /\ CreditsOnce(long) /\ \A p, s : ~Holds(long, Copy(p, s))
      /\ \A p, k : Holds(long, Credit(p, k)) <=> Due(p, k)
  BY <1>1, CreditsOfACall
<1>3. \A u \in Thread : todo'[u] = IF u = t THEN long ELSE todo[u]
  BY DEF Inv, TypeOK
<1>4. \A e : ~Holds(todo[t], e)
  BY DEF Holds
<1> HIDE DEF long
<1>5. \A p, k : /\ t \notin Owing(p, k)
                /\ Owing(p, k)' = IF Due(p, k) THEN Owing(p, k) \cup {t} ELSE Owing(p, k)
  BY <1>2, <1>3, <1>4 DEF Owing
<1>6. \A p, k : /\ id \notin Ended(p, k)
                /\ Ended(p, k)' = IF Due(p, k) THEN Ended(p, k) \cup {id} ELSE Ended(p, k)
  BY <1>1 DEF Ended, Seats
<1> HIDE DEF Due
<1>7. ASSUME NEW p \in Player, NEW k \in Outcomes, NEW n \in Nat, Covered(p, k, n)
      PROVE  /\ n + Cardinality(Owing(p, k)') <= Cardinality(Ended(p, k)')
             /\ IsFiniteSet(Owing(p, k)') /\ IsFiniteSet(Ended(p, k)')
  <2>1. IsFiniteSet(Owing(p, k)) /\ IsFiniteSet(Ended(p, k))
    BY DEF Counting
  <2>2. CASE Due(p, k)
    BY <1>5, <1>6, <1>7, <2>1, <2>2, CoveredMore DEF Covered
  <2>3. CASE ~Due(p, k)
    BY <1>5, <1>6, <1>7, <2>1, <2>3, CoveredFewer DEF Covered
  <2> QED
    BY <2>2, <2>3
<1>8. \A u \in Thread : CreditsOnce(todo'[u])
  BY <1>2, <1>3 DEF Counting
<1>9. ASSUME NEW p \in Player, NEW k \in Outcomes
      PROVE  /\ IsFiniteSet(Owing(p, k)') /\ IsFiniteSet(Ended(p, k)')
             /\ stats'[p][k] + Cardinality(Owing(p, k)') <= Cardinality(Ended(p, k)')
  <2>1. Covered(p, k, stats[p][k]) /\ stats[p][k] \in Nat
    BY StatsAreNumbers DEF Counting, Inv, TypeOK
  <2> QED
    BY <1>7, <2>1
<1>10. ASSUME NEW u \in Thread, NEW p \in Player, NEW s \in Stats, NEW k \in Outcomes,
              Holds(todo'[u], Copy(p, s))
       PROVE  s[k] + Cardinality(Owing(p, k)') <= Cardinality(Ended(p, k)')
  <2>1. Covered(p, k, s[k]) /\ s[k] \in Nat
    BY <1>2, <1>3, <1>10, StatsAreNumbers DEF Counting
  <2> QED
    BY <1>7, <2>1
<1> QED
  BY <1>8, <1>9, <1>10 DEF Counting, Covered

LEMMA CountingMove ==
  ASSUME Inv, Counting, NEW t \in Thread, NEW p \in Player, Move(t, p)
  PROVE  Counting'
<1> DEFINE id == byPlayer[p]
<1>1. /\ id \in active /\ id \in DOMAIN game /\ todo[t] = <<>>
      /\ ~IsFinished(game[id].status)
  BY MoveCases DEF lookup, Inv, RegistryConsistent
<1>2. PICK g \in GameState :
        /\ g.x = game[id].x /\ g.o = game[id].o
        /\ game' = [game EXCEPT ![id] = g]
        /\ Finishing(t, p, id, g) \/ Continuing(t, p, id, g)
  BY <1>1, MoveCases DEF Inv
<1>3. stats' = stats
  BY DEF Move, stores
<1> HIDE DEF id
<1>4. CASE Finishing(t, p, id, g)
  BY <1>1, <1>2, <1>3, <1>4, CountingEnd DEF Finishing
<1>5. CASE Continuing(t, p, id, g)
  <2> DEFINE rest == <<record(id, g)>> \o events("state_changed", id, g)
  <2>1. /\ CreditsOnce(rest) /\ \A q, k : ~Holds(rest, Credit(q, k))
        /\ \A q, s : ~Holds(rest, Copy(q, s))
    BY CreditsOfACall
  <2>2. todo' = [todo EXCEPT ![t] = rest] /\ ~IsFinished(g.status)
    BY <1>5 DEF Continuing
  <2>3. DOMAIN game' = DOMAIN game /\ game'[id] = g
        /\ \A i \in DOMAIN game \ {id} : game'[i] = game[i]
    BY <1>1, <1>2
  <2>4. \A q, k : Ended(q, k)' = Ended(q, k)
    BY <1>1, <2>2, <2>3 DEF Ended, Seats
  <2> HIDE DEF rest
  <2> QED
    BY <1>3, <2>1, <2>2, <2>4, CountingCall DEF Inv
<1> QED
  BY <1>2, <1>4, <1>5

LEMMA CountingNext == Inv /\ Counting /\ [Next]_vars => Counting'
<1> SUFFICES ASSUME Inv, Counting, [Next]_vars PROVE Counting'
  OBVIOUS
<1>1. CASE Restart
  <2>1. /\ game' = game /\ stats' = stats
        /\ \A t \in Thread : CreditsOnce(todo'[t]) /\ \A e : ~Holds(todo'[t], e)
    BY <1>1 DEF Restart, stores, CreditsOnce, Holds
  <2>2. \A p, k : Owing(p, k)' \subseteq Owing(p, k) /\ Ended(p, k)' = Ended(p, k)
    BY <2>1 DEF Owing, Ended, Seats
  <2> QED
    BY <2>1, <2>2, CountingFewer DEF Inv
<1>2. CASE UNCHANGED vars
  BY <1>2 DEF vars, stores, Counting, Covered, Owing, Ended, Seats
<1> QED
  BY <1>1, <1>2, CountingStart, CountingMove, CountingAbandon, CountingWork DEF Next, Work

(* Games: however the updates of the calls overlap, fail or are cut short, *)
(* no player has more wins, losses or draws than matches ended so for them.*)
THEOREM CreditsSound == Spec => []NeverOverCounted
<1>1. Inv /\ Counting => NeverOverCounted
  <2> SUFFICES ASSUME Inv, Counting, NEW p \in Player, NEW k \in Outcomes
               PROVE  stats[p][k] <= Cardinality(Ended(p, k))
    BY DEF NeverOverCounted
  <2>1. stats[p][k] \in Nat /\ Covered(p, k, stats[p][k])
    BY StatsAreNumbers DEF Inv, TypeOK, Counting
  <2>2. Cardinality(Owing(p, k)) \in Nat /\ Cardinality(Ended(p, k)) \in Nat
    BY FS_CardinalityType DEF Counting
  <2> QED
    BY <2>1, <2>2 DEF Covered
<1> QED
  BY <1>1, CountingInit, CountingNext, Invariance, PTL DEF Spec

----------------------------------------------------------------------------
(* Every result is counted exactly, unless a store fails or two updates of *)
(* one player's stats overlap.                                             *)

Update == {"credit", "save"}

(* A call has one update of a player's stats to make at most, and a copy   *)
(* is saved as soon as it is made.                                         *)
Shape(q) ==
  /\ \A i, j \in DOMAIN q :
       q[i].op \in Update /\ q[j].op \in Update /\ q[i].player = q[j].player => i = j
  /\ \A i \in DOMAIN q : q[i].op = "save" => i = 1

Free(q, p) == \A i \in DOMAIN q : q[i].op \in Update => q[i].player # p

(* This effect will give p one more result k than the n there are.         *)
Owes(e, p, k, n) ==
  \/ e.op = "credit" /\ e.player = p /\ e.outcome = k
  \/ e.op = "save" /\ e.player = p /\ e.stats[k] > n
OwesIn(q, p, k, n) == \E i \in DOMAIN q : Owes(q[i], p, k, n)
Debtors(p, k) == {t \in Thread : OwesIn(todo[t], p, k, stats[p][k])}

Shaped == \A t \in Thread : Shape(todo[t])

(* Without an overlap one copy of a player's stats is on its way at most,  *)
(* and it is what is stored with one result more.                          *)
Alone ==
  ~overlap =>
    /\ \A t, u \in Thread, p \in Player : Saving(t, p) /\ Saving(u, p) => t = u
    /\ \A t \in Thread, p \in Player : Saving(t, p) =>
         \E k \in Outcomes : Head(todo[t]).stats = [stats[p] EXCEPT ![k] = stats[p][k] + 1]

(* Saved and owed results of p add up to the matches that ended so.        *)
Exact(p, k) ==
  /\ IsFiniteSet(Debtors(p, k)) /\ IsFiniteSet(Ended(p, k))
  /\ stats[p][k] + Cardinality(Debtors(p, k)) = Cardinality(Ended(p, k))

Sums == faults = {} /\ ~overlap => \A p \in Player, k \in Outcomes : Exact(p, k)

Balanced == Shaped /\ Alone /\ Sums

LEMMA ShapeOfTheRest ==
  ASSUME NEW q \in Seq(Effect), q # <<>>, Shape(q)
  PROVE  LET r == Tail(q) IN
         /\ Shape(r) /\ \A i \in DOMAIN r : r[i].op # "save"
         /\ Head(q).op \in Update => Free(r, Head(q).player)
         /\ \A e : e.op \in Update /\ Head(q).op \in Update /\ e.player = Head(q).player
                     => Shape(<<e>> \o r)
         /\ \A p, k, n : OwesIn(q, p, k, n) <=> Owes(Head(q), p, k, n) \/ OwesIn(r, p, k, n)
         /\ \A e, p, k, n : OwesIn(<<e>> \o r, p, k, n) <=> Owes(e, p, k, n) \/ OwesIn(r, p, k, n)
<1> DEFINE r == Tail(q)
           n == Len(q)
<1>1. /\ n \in Nat /\ n > 0 /\ DOMAIN q = 1 .. n /\ DOMAIN r = 1 .. n - 1
      /\ \A i \in 1 .. n - 1 : r[i] = q[i + 1] /\ i + 1 \in 1 .. n
      /\ Head(q) = q[1] /\ 1 \in 1 .. n /\ r \in Seq(Effect)
  OBVIOUS
<1>2. \A i \in 1 .. n : i = 1 \/ (i - 1 \in 1 .. n - 1 /\ r[i - 1] = q[i])
  <2>1. \A i \in 1 .. n : i = 1 \/ (i - 1 \in 1 .. n - 1 /\ (i - 1) + 1 = i)
    BY <1>1
  <2> QED
    BY <1>1, <2>1
<1>3. ASSUME NEW e
      PROVE  LET z == <<e>> \o r IN
             DOMAIN z = 1 .. n /\ \A i \in 1 .. n : z[i] = IF i = 1 THEN e ELSE q[i]
  <2> DEFINE z == <<e>> \o r
  <2>1. r \in Seq(Effect \cup {e}) /\ <<e>> \in Seq(Effect \cup {e}) /\ Len(r) = n - 1
    BY <1>1
  <2>2. /\ DOMAIN z = 1 .. n
        /\ \A i \in 1 .. n : z[i] = IF i <= 1 THEN <<e>>[i] ELSE r[i - 1]
    BY <1>1, <2>1
  <2> QED
    BY <1>1, <1>2, <2>2
<1> HIDE DEF n, r
<1>4. \A i \in 1 .. n - 1 : r[i].op # "save"
  <2> SUFFICES ASSUME NEW i \in 1 .. n - 1, r[i].op = "save" PROVE FALSE
    OBVIOUS
  <2>1. q[i + 1].op = "save" /\ i + 1 \in DOMAIN q
    BY <1>1
  <2>2. i + 1 = 1
    BY <2>1 DEF Shape
  <2> QED
    BY <1>1, <2>2
<1>5. Shape(r)
  <2>1. ASSUME NEW i \in 1 .. n - 1, NEW j \in 1 .. n - 1, r[i].op \in Update, r[j].op \in Update,
               r[i].player = r[j].player
        PROVE  i = j
    <3>1. /\ i + 1 \in DOMAIN q /\ j + 1 \in DOMAIN q
          /\ q[i + 1].op \in Update /\ q[j + 1].op \in Update
          /\ q[i + 1].player = q[j + 1].player
      BY <1>1, <2>1
    <3>2. i + 1 = j + 1
      BY <3>1 DEF Shape
    <3> QED
      BY <1>1, <3>2
  <2> QED
    BY <1>1, <1>4, <2>1 DEF Shape
<1>6. Head(q).op \in Update => Free(r, Head(q).player)
  <2> SUFFICES ASSUME q[1].op \in Update, NEW i \in 1 .. n - 1, r[i].op \in Update,
                      r[i].player = q[1].player
               PROVE  FALSE
    BY <1>1 DEF Free
  <2>1. i + 1 = 1
    BY <1>1 DEF Shape
  <2> QED
    BY <1>1, <2>1
<1>7. ASSUME NEW e, e.op \in Update, Head(q).op \in Update, e.player = Head(q).player
      PROVE  Shape(<<e>> \o r)
  <2> DEFINE z == <<e>> \o r
  <2>1. DOMAIN z = 1 .. n /\ \A i \in 1 .. n : z[i] = IF i = 1 THEN e ELSE q[i]
    BY <1>3
  <2> HIDE DEF z
  <2>2. ASSUME NEW i \in 1 .. n, z[i].op = "save" PROVE i = 1
    BY <1>1, <2>1, <2>2 DEF Shape
  <2>3. ASSUME NEW i \in 1 .. n, NEW j \in 1 .. n, z[i].op \in Update, z[j].op \in Update,
               z[i].player = z[j].player
        PROVE  i = j
    <3>1. q[i].op \in Update /\ q[j].op \in Update /\ q[i].player = q[j].player
      BY <1>1, <1>7, <2>1, <2>3
    <3> QED
      BY <1>1, <3>1 DEF Shape
  <2>4. Shape(z)
    BY <2>1, <2>2, <2>3 DEF Shape
  <2> QED
    BY <2>4 DEF z
<1>8. ASSUME NEW p, NEW k, NEW m
      PROVE  OwesIn(q, p, k, m) <=> Owes(Head(q), p, k, m) \/ OwesIn(r, p, k, m)
  BY <1>1, <1>2 DEF OwesIn
<1>9. ASSUME NEW e, NEW p, NEW k, NEW m
      PROVE  OwesIn(<<e>> \o r, p, k, m) <=> Owes(e, p, k, m) \/ OwesIn(r, p, k, m)
  <2> DEFINE z == <<e>> \o r
  <2>1. DOMAIN z = 1 .. n /\ \A i \in 1 .. n : z[i] = IF i = 1 THEN e ELSE q[i]
    BY <1>3
  <2> HIDE DEF z
  <2>2. OwesIn(z, p, k, m) <=> \E i \in 1 .. n : Owes(z[i], p, k, m)
    BY <2>1 DEF OwesIn
  <2>3. z[1] = e /\ \A i \in 1 .. n - 1 : z[i + 1] = r[i]
    <3>1. \A i \in 1 .. n - 1 : i + 1 # 1
      BY <1>1
    <3> QED
      BY <1>1, <2>1, <3>1
  <2>4. \A i \in 1 .. n : i = 1 \/ (i - 1 \in 1 .. n - 1 /\ z[i] = r[i - 1])
    BY <1>2, <2>1
  <2>5. OwesIn(z, p, k, m) <=> Owes(e, p, k, m) \/ OwesIn(r, p, k, m)
    BY <1>1, <2>2, <2>3, <2>4 DEF OwesIn
  <2> QED
    BY <2>5 DEF z
<1> QED
  BY <1>1, <1>4, <1>5, <1>6, <1>7, <1>8, <1>9 DEF r

LEMMA FreeOwesNothing ==
  ASSUME NEW q, NEW p, Free(q, p), NEW k, NEW n
  PROVE  ~OwesIn(q, p, k, n)
BY DEF Free, OwesIn, Owes, Update

LEMMA SaveFirst ==
  ASSUME NEW q \in Seq(Effect), Shape(q), NEW p, NEW k, NEW n, NEW m,
         ~(q # <<>> /\ Head(q).op = "save" /\ Head(q).player = p)
  PROVE  OwesIn(q, p, k, n) <=> OwesIn(q, p, k, m)
<1>1. \A i \in DOMAIN q : q[i].op = "save" => i = 1 /\ q # <<>> /\ Head(q) = q[1]
  BY DEF Shape
<1>2. \A i \in DOMAIN q : q[i].op = "save" => q[i].player # p
  BY <1>1
<1> QED
  BY <1>2 DEF OwesIn, Owes

LEMMA BalancedInit == Init => Balanced
<1> SUFFICES ASSUME Init PROVE Balanced
  OBVIOUS
<1>1. \A t \in Thread : todo[t] = <<>>
  BY DEF Init
<1>2. Shaped /\ Alone
  BY <1>1 DEF Shaped, Shape, Alone, Saving, Doing, Idle
<1>3. \A p \in Player, k \in Outcomes : Debtors(p, k) = {} /\ Ended(p, k) = {} /\ stats[p][k] = 0
  BY <1>1 DEF Init, Debtors, OwesIn, Ended, Outcomes
<1>4. IsFiniteSet({}) /\ Cardinality({}) = 0
  BY FS_EmptySet
<1> QED
  BY <1>2, <1>3, <1>4 DEF Balanced, Sums, Exact

(* Nobody loads, saves or finishes a match.                                *)
LEMMA BalancedFewer ==
  ASSUME Balanced, Shaped', stats' = stats, overlap' = overlap,
         \A t \in Thread, p \in Player : Saving(t, p)' => Saving(t, p) /\ todo'[t] = todo[t],
         faults' = {} => /\ faults = {}
                         /\ \A p \in Player, k \in Outcomes :
                              Debtors(p, k)' = Debtors(p, k) /\ Ended(p, k)' = Ended(p, k)
  PROVE  Balanced'
<1>1. Alone'
  <2> SUFFICES ASSUME ~overlap
               PROVE  /\ \A t, u \in Thread, p \in Player : Saving(t, p)' /\ Saving(u, p)' => t = u
                      /\ \A t \in Thread, p \in Player : Saving(t, p)' =>
                           \E k \in Outcomes :
                             Head(todo'[t]).stats = [stats'[p] EXCEPT ![k] = stats'[p][k] + 1]
    BY DEF Alone
  <2>1. /\ \A t, u \in Thread, p \in Player : Saving(t, p) /\ Saving(u, p) => t = u
        /\ \A t \in Thread, p \in Player : Saving(t, p) =>
             \E k \in Outcomes : Head(todo[t]).stats = [stats[p] EXCEPT ![k] = stats[p][k] + 1]
    BY DEF Balanced, Alone
  <2>2. ASSUME NEW t \in Thread, NEW p \in Player, Saving(t, p)'
        PROVE  \E k \in Outcomes :
                 Head(todo'[t]).stats = [stats'[p] EXCEPT ![k] = stats'[p][k] + 1]
    <3>1. Saving(t, p) /\ todo'[t] = todo[t]
      BY <2>2
    <3> QED
      BY <2>1, <3>1
  <2> QED
    BY <2>1, <2>2
<1>2. Sums'
  <2> SUFFICES ASSUME faults' = {}, ~overlap, NEW p \in Player, NEW k \in Outcomes
               PROVE  Exact(p, k)'
    BY DEF Sums
  <2>1. Exact(p, k)
    BY DEF Balanced, Sums
  <2> QED
    BY <2>1 DEF Exact
<1> QED
  BY <1>1, <1>2 DEF Balanced

(* A call begins that credits nothing.                                     *)
LEMMA BalancedCall ==
  ASSUME TypeOK, Balanced, NEW t \in Thread, todo[t] = <<>>, NEW rest,
         todo' = [todo EXCEPT ![t] = rest], stats' = stats, overlap' = overlap, faults' = faults,
         \A i \in DOMAIN rest : rest[i].op \notin Update,
         \A p \in Player, k \in Outcomes : Ended(p, k)' = Ended(p, k),
         rest # <<>> => Head(rest).op \notin Update
  PROVE  Balanced'
<1>1. \A u \in Thread : todo'[u] = IF u = t THEN rest ELSE todo[u]
  BY DEF TypeOK
<1>2. Shaped'
  BY <1>1 DEF Balanced, Shaped, Shape, Update
<1>3. \A u \in Thread, p \in Player : Saving(u, p)' => Saving(u, p) /\ todo'[u] = todo[u]
  BY <1>1 DEF Saving, Doing, Idle, Update
<1>4. \A p \in Player, k \in Outcomes : Debtors(p, k)' = Debtors(p, k)
  <2> SUFFICES ASSUME NEW p \in Player, NEW k \in Outcomes PROVE Debtors(p, k)' = Debtors(p, k)
    OBVIOUS
  <2>1. ~OwesIn(rest, p, k, stats[p][k]) /\ ~OwesIn(todo[t], p, k, stats[p][k])
    BY DEF OwesIn, Owes, Update
  <2> QED
    BY <1>1, <2>1 DEF Debtors
<1> QED
  BY <1>2, <1>3, <1>4, BalancedFewer

LEMMA UpdatesOfACall ==
  ASSUME NEW id, NEW g, NEW type
  PROVE  LET short == <<record(id, g)>> \o events(type, id, g)
             long == <<record(id, g)>> \o results(g) \o events(type, id, g)
         IN /\ \A i \in DOMAIN short : short[i].op \notin Update
            /\ Head(short).op \notin Update /\ Head(long).op \notin Update
            /\ g.x # g.o => Shape(long)
            /\ \A p, k, n : OwesIn(long, p, k, n) <=> p \in {g.x, g.o} /\ k = OutcomeFor(g, p)
<1> DEFINE nx == notify(g.x, type, id, g)
           no == notify(g.o, type, id, g)
           w == record(id, g)
           cx == Credit(g.x, OutcomeFor(g, g.x))
           co == Credit(g.o, OutcomeFor(g, g.o))
           short == <<w>> \o <<nx, no>>
           long == <<w>> \o <<cx, co>> \o <<nx, no>>
<1>1. nx.op = "notify" /\ no.op = "notify" /\ w.op = "persist" /\ cx.op = "credit" /\ co.op = "credit"
  BY DEF notify, record, Credit
<1>2. cx.player = g.x /\ co.player = g.o /\ cx.outcome = OutcomeFor(g, g.x)
      /\ co.outcome = OutcomeFor(g, g.o)
  BY DEF Credit
<1>3. events(type, id, g) = <<nx, no>> /\ results(g) = <<cx, co>>
  BY DEF events, results, Credit
<1> HIDE DEF nx, no, w, cx, co
<1>4. /\ DOMAIN short = 1 .. 3 /\ Head(short) = w
      /\ short[1] = w /\ short[2] = nx /\ short[3] = no
  OBVIOUS
<1>5. /\ DOMAIN long = 1 .. 5 /\ Head(long) = w
      /\ long[1] = w /\ long[2] = cx /\ long[3] = co /\ long[4] = nx /\ long[5] = no
  OBVIOUS
<1> HIDE DEF short, long
<1>6. \A i \in DOMAIN short : short[i].op \notin Update
  BY <1>1, <1>4 DEF Update
<1>7. Head(short).op \notin Update /\ Head(long).op \notin Update
  BY <1>1, <1>4, <1>5 DEF Update
<1>8. \A i \in DOMAIN long : long[i].op \in Update => i \in {2, 3} /\ long[i].op # "save"
  BY <1>1, <1>5 DEF Update
<1>9. g.x # g.o => Shape(long)
  BY <1>2, <1>5, <1>8 DEF Shape, Update
<1>10. ASSUME NEW p, NEW k, NEW n
       PROVE  OwesIn(long, p, k, n) <=> p \in {g.x, g.o} /\ k = OutcomeFor(g, p)
  <2>1. \A i \in DOMAIN long : Owes(long[i], p, k, n) => i \in {2, 3} /\ long[i].op = "credit"
    BY <1>8 DEF Owes, Update
  <2>2. Owes(cx, p, k, n) <=> g.x = p /\ k = OutcomeFor(g, p)
    BY <1>1, <1>2 DEF Owes
  <2>3. Owes(co, p, k, n) <=> g.o = p /\ k = OutcomeFor(g, p)
    BY <1>1, <1>2 DEF Owes
  <2>4. OwesIn(long, p, k, n) <=> Owes(cx, p, k, n) \/ Owes(co, p, k, n)
    BY <1>5, <2>1 DEF OwesIn
  <2> QED
    BY <2>2, <2>3, <2>4
<1> QED
  BY <1>3, <1>6, <1>7, <1>9, <1>10 DEF short, long, w

LEMMA BalancedStart ==
  ASSUME Inv, Balanced, NEW t \in Thread, NEW x \in Player, NEW o \in Player, Start(t, x, o)
  PROVE  Balanced'
<1> DEFINE g == [x |-> x, o |-> o, moves |-> 0, status |-> "in_progress"]
<1>1. PICK id \in MatchId \ DOMAIN game :
        /\ game' = Put(game, {id}, g)
        /\ todo' = [todo EXCEPT ![t] = <<record(id, g)>> \o events("match_started", id, g)]
        /\ stats' = stats /\ overlap' = overlap /\ faults' = faults /\ todo[t] = <<>>
  BY DEF Start, stores, Idle
<1> DEFINE rest == <<record(id, g)>> \o events("match_started", id, g)
<1>2. g.status = "in_progress"
  OBVIOUS
<1> HIDE DEF g
<1>3. /\ \A i \in DOMAIN rest : rest[i].op \notin Update
      /\ Head(rest).op \notin Update
  BY UpdatesOfACall
<1>4. \A p, k : Ended(p, k)' = Ended(p, k)
  <2>1. DOMAIN game' = DOMAIN game \cup {id} /\ game'[id] = g
        /\ \A i \in DOMAIN game : game'[i] = game[i]
    BY <1>1 DEF Put
  <2>2. ~IsFinished(game'[id].status)
    BY <1>2, <2>1 DEF IsFinished
  <2> QED
    BY <2>1, <2>2 DEF Ended, Seats
<1>5. todo' = [todo EXCEPT ![t] = rest]
  BY <1>1
<1> HIDE DEF rest
<1> QED
  BY <1>1, <1>3, <1>4, <1>5, BalancedCall DEF Inv

LEMMA BalancedAbandon ==
  ASSUME Inv, Balanced, NEW t \in Thread, NEW p \in Player, Abandon(t, p)
  PROVE  Balanced'
<1> DEFINE id == byPlayer[p]
           opponent == IF p = game[id].x THEN game[id].o ELSE game[id].x
           n == notify(opponent, "opponent_left", id, game[id])
           rest == <<n>>
<1>1. /\ todo' = [todo EXCEPT ![t] = rest] /\ stats' = stats /\ game' = game
      /\ overlap' = overlap /\ faults' = faults /\ todo[t] = <<>>
  BY DEF Abandon, stores, Idle
<1>2. n.op \notin Update
  BY DEF notify, Update
<1> HIDE DEF n
<1>3. Head(rest).op \notin Update /\ \A i \in DOMAIN rest : rest[i].op \notin Update
  BY <1>2
<1>4. \A q, k : Ended(q, k)' = Ended(q, k)
  BY <1>1 DEF Ended, Seats
<1> HIDE DEF rest
<1> QED
  BY <1>1, <1>3, <1>4, BalancedCall DEF Inv

(* The move that ends a match owes each player one result and adds the     *)
(* match to what has ended for both.                                       *)
LEMMA BalancedEnd ==
  ASSUME Inv, Balanced, NEW t \in Thread, todo[t] = <<>>, NEW id \in active,
         NEW g \in GameState, g.x = game[id].x, g.o = game[id].o, IsFinished(g.status),
         game' = [game EXCEPT ![id] = g], stats' = stats, overlap' = overlap, faults' = faults,
         todo' = [todo EXCEPT ![t] = <<record(id, g)>> \o results(g) \o events("match_ended", id, g)]
  PROVE  Balanced'
<1> DEFINE long == <<record(id, g)>> \o results(g) \o events("match_ended", id, g)
           Due(p, k) == p \in {g.x, g.o} /\ k = OutcomeFor(g, p)
<1>1. /\ id \in DOMAIN game /\ ~IsFinished(game[id].status) /\ g.x # g.o
      /\ DOMAIN game' = DOMAIN game /\ game'[id] = g
      /\ \A i \in DOMAIN game \ {id} : game'[i] = game[i]
  BY DEF Inv, RegistryConsistent
<1>2. /\ Shape(long) /\ Head(long).op \notin Update
      /\ \A p, k, n : OwesIn(long, p, k, n) <=> Due(p, k)
  BY <1>1, UpdatesOfACall
<1>3. \A u \in Thread : todo'[u] = IF u = t THEN long ELSE todo[u]
  BY DEF Inv, TypeOK
<1> HIDE DEF long
<1>4. \A p, k : /\ t \notin Debtors(p, k)
                /\ Debtors(p, k)' = IF Due(p, k) THEN Debtors(p, k) \cup {t} ELSE Debtors(p, k)
  <2> SUFFICES ASSUME NEW p, NEW k
               PROVE  /\ t \notin Debtors(p, k)
                      /\ Debtors(p, k)' =
                           IF Due(p, k) THEN Debtors(p, k) \cup {t} ELSE Debtors(p, k)
    OBVIOUS
  <2>1. ~OwesIn(todo[t], p, k, stats[p][k])
    BY DEF OwesIn
  <2>2. OwesIn(long, p, k, stats[p][k]) <=> Due(p, k)
    BY <1>2
  <2> HIDE DEF Due
  <2> QED
    BY <1>3, <2>1, <2>2 DEF Debtors
<1>5. \A p, k : /\ id \notin Ended(p, k)
                /\ Ended(p, k)' = IF Due(p, k) THEN Ended(p, k) \cup {id} ELSE Ended(p, k)
  BY <1>1 DEF Ended, Seats
<1> HIDE DEF Due
<1>6. Shaped'
  BY <1>2, <1>3 DEF Balanced, Shaped
<1>7. \A u \in Thread, p \in Player : Saving(u, p)' => u # t /\ Saving(u, p) /\ todo'[u] = todo[u]
  BY <1>2, <1>3 DEF Saving, Doing, Idle, Update
<1>8. Alone'
  BY <1>7 DEF Balanced, Alone
<1>9. ASSUME NEW p \in Player, NEW k \in Outcomes, Exact(p, k) PROVE Exact(p, k)'
  <2>1. /\ IsFiniteSet(Debtors(p, k)) /\ IsFiniteSet(Ended(p, k))
        /\ stats[p][k] + Cardinality(Debtors(p, k)) = Cardinality(Ended(p, k))
        /\ stats[p][k] \in Nat
    BY <1>9, StatsAreNumbers DEF Exact, Inv, TypeOK
  <2>2. Cardinality(Debtors(p, k)) \in Nat /\ Cardinality(Ended(p, k)) \in Nat
    BY <2>1, FS_CardinalityType
  <2>3. CASE Due(p, k)
    <3>1. Debtors(p, k)' = Debtors(p, k) \cup {t} /\ t \notin Debtors(p, k)
      BY <1>4, <2>3
    <3>2. Ended(p, k)' = Ended(p, k) \cup {id} /\ id \notin Ended(p, k)
      BY <1>5, <2>3
    <3>3. IsFiniteSet(Debtors(p, k)') /\ Cardinality(Debtors(p, k)') = Cardinality(Debtors(p, k)) + 1
      BY <2>1, <3>1, FS_AddElement
    <3>4. IsFiniteSet(Ended(p, k)') /\ Cardinality(Ended(p, k)') = Cardinality(Ended(p, k)) + 1
      BY <2>1, <3>2, FS_AddElement
    <3> QED
      BY <2>1, <2>2, <3>3, <3>4 DEF Exact
  <2>4. CASE ~Due(p, k)
    BY <1>4, <1>5, <1>9, <2>4 DEF Exact
  <2> QED
    BY <2>3, <2>4
<1>10. Sums'
  BY <1>9 DEF Balanced, Sums
<1> QED
  BY <1>6, <1>8, <1>10 DEF Balanced

LEMMA BalancedMove ==
  ASSUME Inv, Balanced, NEW t \in Thread, NEW p \in Player, Move(t, p)
  PROVE  Balanced'
<1> DEFINE id == byPlayer[p]
<1>1. /\ id \in active /\ id \in DOMAIN game /\ todo[t] = <<>>
      /\ ~IsFinished(game[id].status)
  BY MoveCases DEF lookup, Inv, RegistryConsistent
<1>2. PICK g \in GameState :
        /\ g.x = game[id].x /\ g.o = game[id].o
        /\ game' = [game EXCEPT ![id] = g]
        /\ Finishing(t, p, id, g) \/ Continuing(t, p, id, g)
  BY <1>1, MoveCases DEF Inv
<1>3. stats' = stats /\ overlap' = overlap /\ faults' = faults
  BY DEF Move, stores
<1> HIDE DEF id
<1>4. CASE Finishing(t, p, id, g)
  BY <1>1, <1>2, <1>3, <1>4, BalancedEnd DEF Finishing
<1>5. CASE Continuing(t, p, id, g)
  <2> DEFINE rest == <<record(id, g)>> \o events("state_changed", id, g)
  <2>1. Head(rest).op \notin Update /\ \A i \in DOMAIN rest : rest[i].op \notin Update
    BY UpdatesOfACall
  <2>2. todo' = [todo EXCEPT ![t] = rest] /\ ~IsFinished(g.status)
    BY <1>5 DEF Continuing
  <2>3. DOMAIN game' = DOMAIN game /\ game'[id] = g
        /\ \A i \in DOMAIN game \ {id} : game'[i] = game[i]
    BY <1>1, <1>2
  <2>4. \A q, k : Ended(q, k)' = Ended(q, k)
    BY <1>1, <2>2, <2>3 DEF Ended, Seats
  <2> HIDE DEF rest
  <2> QED
    BY <1>1, <1>3, <2>1, <2>2, <2>4, BalancedCall DEF Inv
<1> QED
  BY <1>2, <1>4, <1>5

(* An effect that is neither a credit nor a copy is done, or one of them   *)
(* fails.                                                                  *)
LEMMA BalancedDrop ==
  ASSUME Inv, Balanced, NEW t \in Thread, todo[t] \in Seq(Effect), todo[t] # <<>>,
         todo' = [todo EXCEPT ![t] = Tail(todo[t])],
         stats' = stats, overlap' = overlap, game' = game,
         faults \subseteq faults',
         faults' = {} => Head(todo[t]).op \notin Update
  PROVE  Balanced'
<1> DEFINE q == todo[t]
           r == Tail(q)
<1>1. /\ Shape(r) /\ \A i \in DOMAIN r : r[i].op # "save"
      /\ \A p, k, n : OwesIn(q, p, k, n) <=> Owes(Head(q), p, k, n) \/ OwesIn(r, p, k, n)
  BY ShapeOfTheRest DEF Balanced, Shaped
<1>2. \A u \in Thread : todo'[u] = IF u = t THEN r ELSE todo[u]
  BY DEF Inv, TypeOK
<1>3. r # <<>> => Head(r).op # "save"
  <2>1. r \in Seq(Effect)
    OBVIOUS
  <2> HIDE DEF r
  <2>2. r # <<>> => 1 \in DOMAIN r /\ Head(r) = r[1]
    BY <2>1
  <2> QED
    BY <1>1, <2>2
<1> HIDE DEF q, r
<1>4. Shaped'
  BY <1>1, <1>2 DEF Balanced, Shaped
<1>5. \A u \in Thread, p \in Player : Saving(u, p)' => Saving(u, p) /\ todo'[u] = todo[u]
  BY <1>2, <1>3 DEF Saving, Doing, Idle
<1>6. ASSUME faults' = {}, NEW p \in Player, NEW k \in Outcomes
      PROVE  Debtors(p, k)' = Debtors(p, k) /\ Ended(p, k)' = Ended(p, k)
  <2>1. ~Owes(Head(q), p, k, stats[p][k])
    BY <1>6 DEF Owes, Update, q
  <2>2. OwesIn(r, p, k, stats[p][k]) <=> OwesIn(todo[t], p, k, stats[p][k])
    BY <1>1, <2>1 DEF q
  <2> QED
    BY <1>2, <2>2 DEF Debtors, Ended, Seats
<1> QED
  BY <1>4, <1>5, <1>6, BalancedFewer

(* The stats of x are loaded and raised.                                   *)
LEMMA BalancedLoad ==
  ASSUME Inv, Balanced, NEW t \in Thread, todo[t] \in Seq(Effect), todo[t] # <<>>,
         NEW x \in Player, NEW z \in Outcomes, Head(todo[t]) = Credit(x, z),
         todo' = [todo EXCEPT ![t] =
                    <<Copy(x, [stats[x] EXCEPT ![z] = stats[x][z] + 1])>> \o Tail(todo[t])],
         overlap' = (overlap \/ \E u \in Thread \ {t} : Saving(u, x)),
         stats' = stats, game' = game, faults' = faults
  PROVE  Balanced'
<1> DEFINE q == todo[t]
           r == Tail(q)
           raised == [stats[x] EXCEPT ![z] = stats[x][z] + 1]
           e == Copy(x, raised)
           new == <<e>> \o r
<1>1. /\ Head(q).op = "credit" /\ Head(q).player = x /\ Head(q).outcome = z
      /\ e.op = "save" /\ e.player = x /\ e.stats = raised
  BY DEF Credit, Copy
<1>2. "credit" \in Update /\ "save" \in Update /\ "credit" # "save"
  BY DEF Update
<1>3. raised \in Stats /\ stats[x] \in Stats
  BY RaisedStats DEF Inv, TypeOK
<1>4. /\ stats[x][z] \in Nat
      /\ \A k \in Outcomes : raised[k] = IF k = z THEN stats[x][z] + 1 ELSE stats[x][k]
      /\ \A k \in Outcomes : stats[x][k] \in Nat
  BY <1>3, StatsAreNumbers
<1>5. /\ Free(r, x) /\ Shape(new)
      /\ \A p, k, n : OwesIn(q, p, k, n) <=> Owes(Head(q), p, k, n) \/ OwesIn(r, p, k, n)
      /\ \A p, k, n : OwesIn(new, p, k, n) <=> Owes(e, p, k, n) \/ OwesIn(r, p, k, n)
  <2>1. Shape(q)
    BY DEF Balanced, Shaped
  <2> HIDE DEF e
  <2>2. /\ (Head(q).op \in Update => Free(r, Head(q).player))
        /\ (e.op \in Update /\ Head(q).op \in Update /\ e.player = Head(q).player => Shape(new))
        /\ \A p, k, n : OwesIn(q, p, k, n) <=> Owes(Head(q), p, k, n) \/ OwesIn(r, p, k, n)
        /\ \A p, k, n : OwesIn(new, p, k, n) <=> Owes(e, p, k, n) \/ OwesIn(r, p, k, n)
    BY <2>1, ShapeOfTheRest
  <2> QED
    BY <1>1, <1>2, <2>2
<1>6. new # <<>> /\ Head(new) = e
  <2>1. r \in Seq(Effect)
    OBVIOUS
  <2>2. e \in Effect
    BY <1>3 DEF Copy, Effect
  <2> HIDE DEF e, r
  <2> QED
    BY <2>1, <2>2
<1>7. \A u \in Thread : todo'[u] = IF u = t THEN new ELSE todo[u]
  BY DEF Inv, TypeOK
<1> HIDE DEF q, r, e, new
<1>8. Shaped'
  BY <1>5, <1>7 DEF Balanced, Shaped
<1>9. \A u \in Thread, p \in Player :
        Saving(u, p)' <=> IF u = t THEN p = x ELSE Saving(u, p)
  <2> SUFFICES ASSUME NEW u \in Thread, NEW p \in Player
               PROVE  Saving(u, p)' <=> IF u = t THEN p = x ELSE Saving(u, p)
    OBVIOUS
  <2>1. CASE u = t
    <3>1. todo'[u] = new /\ new # <<>> /\ Head(new).op = "save" /\ Head(new).player = x
      BY <1>1, <1>6, <1>7, <2>1
    <3> QED
      BY <2>1, <3>1 DEF Saving, Doing, Idle
  <2>2. CASE u # t
    <3>1. todo'[u] = todo[u]
      BY <1>7, <2>2
    <3> QED
      BY <2>2, <3>1 DEF Saving, Doing, Idle
  <2> QED
    BY <2>1, <2>2
<1>10. Alone'
  <2> SUFFICES ASSUME ~overlap, \A u \in Thread \ {t} : ~Saving(u, x)
               PROVE  /\ \A u, v \in Thread, p \in Player : Saving(u, p)' /\ Saving(v, p)' => u = v
                      /\ \A u \in Thread, p \in Player : Saving(u, p)' =>
                           \E k \in Outcomes :
                             Head(todo'[u]).stats = [stats'[p] EXCEPT ![k] = stats'[p][k] + 1]
    BY DEF Alone
  <2>1. /\ \A u, v \in Thread, p \in Player : Saving(u, p) /\ Saving(v, p) => u = v
        /\ \A u \in Thread, p \in Player : Saving(u, p) =>
             \E k \in Outcomes : Head(todo[u]).stats = [stats[p] EXCEPT ![k] = stats[p][k] + 1]
    BY DEF Balanced, Alone
  <2>2. \A u, v \in Thread, p \in Player : Saving(u, p)' /\ Saving(v, p)' => u = v
    BY <1>9, <2>1
  <2>3. ASSUME NEW u \in Thread, NEW p \in Player, Saving(u, p)'
        PROVE  \E k \in Outcomes :
                 Head(todo'[u]).stats = [stats'[p] EXCEPT ![k] = stats'[p][k] + 1]
    <3>1. CASE u = t
      <4>1. p = x /\ Head(todo'[u]).stats = raised
        BY <1>1, <1>6, <1>7, <1>9, <2>3, <3>1
      <4> QED
        BY <4>1
    <3>2. CASE u # t
      <4>1. Saving(u, p) /\ todo'[u] = todo[u]
        BY <1>7, <1>9, <2>3, <3>2
      <4>2. PICK k \in Outcomes : Head(todo[u]).stats = [stats[p] EXCEPT ![k] = stats[p][k] + 1]
        BY <2>1, <4>1
      <4> QED
        BY <4>1, <4>2
    <3> QED
      BY <3>1, <3>2
  <2> QED
    BY <2>2, <2>3
<1>11. ASSUME NEW p \in Player, NEW k \in Outcomes
       PROVE  Debtors(p, k)' = Debtors(p, k) /\ Ended(p, k)' = Ended(p, k)
  <2>1. OwesIn(new, p, k, stats[p][k]) <=> OwesIn(q, p, k, stats[p][k])
    <3>1. CASE p # x
      BY <1>1, <1>5, <3>1 DEF Owes
    <3>2. CASE p = x
      <4>1. ~OwesIn(r, p, k, stats[p][k])
        BY <1>5, <3>2, FreeOwesNothing
      <4>2. Owes(e, p, k, stats[p][k]) <=> raised[k] > stats[x][k]
        BY <1>1, <1>2, <3>2 DEF Owes
      <4>3. Owes(Head(q), p, k, stats[p][k]) <=> k = z
        BY <1>1, <1>2, <3>2 DEF Owes
      <4>4. raised[k] > stats[x][k] <=> k = z
        <5> HIDE DEF raised
        <5> QED
          BY <1>4
      <4> QED
        BY <1>5, <4>1, <4>2, <4>3, <4>4
    <3> QED
      BY <3>1, <3>2
  <2> QED
    BY <1>7, <2>1 DEF Debtors, Ended, Seats, q
<1>12. Sums'
  BY <1>11 DEF Balanced, Sums, Exact
<1> QED
  BY <1>8, <1>10, <1>12 DEF Balanced

(* The raised copy is stored.                                              *)
LEMMA BalancedSave ==
  ASSUME Inv, Balanced, NEW t \in Thread, todo[t] \in Seq(Effect), todo[t] # <<>>,
         NEW x \in Player, NEW s \in Stats, Head(todo[t]) = Copy(x, s),
         todo' = [todo EXCEPT ![t] = Tail(todo[t])],
         stats' = [stats EXCEPT ![x] = s],
         overlap' = overlap, game' = game, faults' = faults
  PROVE  Balanced'
<1> DEFINE q == todo[t]
           r == Tail(q)
<1>1. Head(q).op = "save" /\ Head(q).player = x /\ Head(q).stats = s
  BY DEF Copy
<1>2. /\ Shape(r) /\ \A i \in DOMAIN r : r[i].op # "save"
      /\ Free(r, x)
      /\ \A p, k, n : OwesIn(q, p, k, n) <=> Owes(Head(q), p, k, n) \/ OwesIn(r, p, k, n)
  <2>1. Shape(q)
    BY DEF Balanced, Shaped
  <2>2. "save" \in Update
    BY DEF Update
  <2> QED
    BY <1>1, <2>1, <2>2, ShapeOfTheRest
<1>3. \A u \in Thread : todo'[u] = IF u = t THEN r ELSE todo[u]
  BY DEF Inv, TypeOK
<1>4. r \in Seq(Effect) /\ (r # <<>> => Head(r).op # "save")
  <2>1. r \in Seq(Effect)
    OBVIOUS
  <2> HIDE DEF r
  <2>2. r # <<>> => 1 \in DOMAIN r /\ Head(r) = r[1]
    BY <2>1
  <2> QED
    BY <1>2, <2>1, <2>2
<1>5. /\ \A p \in Player : stats[p] \in Stats /\ (stats'[p] = IF p = x THEN s ELSE stats[p])
  BY DEF Inv, TypeOK
<1> HIDE DEF r
<1>6. Shaped'
  BY <1>2, <1>3 DEF Balanced, Shaped
<1>7. Saving(t, x)
  BY <1>1 DEF Saving, Doing, Idle, q
<1>8. \A u \in Thread, p \in Player : Saving(u, p)' => u # t /\ Saving(u, p) /\ todo'[u] = todo[u]
  BY <1>3, <1>4 DEF Saving, Doing, Idle
<1> HIDE DEF q
<1>9. ASSUME ~overlap
      PROVE  /\ \A u, v \in Thread, p \in Player : Saving(u, p) /\ Saving(v, p) => u = v
             /\ \A u \in Thread, p \in Player : Saving(u, p) =>
                  \E k \in Outcomes : Head(todo[u]).stats = [stats[p] EXCEPT ![k] = stats[p][k] + 1]
  BY <1>9 DEF Balanced, Alone
<1>10. Alone'
  <2> SUFFICES ASSUME ~overlap
               PROVE  /\ \A u, v \in Thread, p \in Player : Saving(u, p)' /\ Saving(v, p)' => u = v
                      /\ \A u \in Thread, p \in Player : Saving(u, p)' =>
                           \E k \in Outcomes :
                             Head(todo'[u]).stats = [stats'[p] EXCEPT ![k] = stats'[p][k] + 1]
    BY DEF Alone
  <2>1. \A u, v \in Thread, p \in Player : Saving(u, p)' /\ Saving(v, p)' => u = v
    BY <1>8, <1>9
  <2>2. ASSUME NEW u \in Thread, NEW p \in Player, Saving(u, p)'
        PROVE  \E k \in Outcomes :
                 Head(todo'[u]).stats = [stats'[p] EXCEPT ![k] = stats'[p][k] + 1]
    <3>1. u # t /\ Saving(u, p) /\ todo'[u] = todo[u]
      BY <1>8, <2>2
    <3>2. p # x
      BY <1>7, <1>9, <3>1
    <3>3. stats'[p] = stats[p]
      BY <1>5, <3>2
    <3>4. PICK k \in Outcomes : Head(todo[u]).stats = [stats[p] EXCEPT ![k] = stats[p][k] + 1]
      BY <1>9, <3>1
    <3> QED
      BY <3>1, <3>3, <3>4
  <2> QED
    BY <2>1, <2>2
<1>11. ASSUME ~overlap, NEW p \in Player, NEW k \in Outcomes, Exact(p, k)
       PROVE  Exact(p, k)'
  <2>1. PICK z \in Outcomes : s = [stats[x] EXCEPT ![z] = stats[x][z] + 1]
    <3>1. \E z \in Outcomes : Head(todo[t]).stats = [stats[x] EXCEPT ![z] = stats[x][z] + 1]
      BY <1>7, <1>9, <1>11
    <3>2. Head(todo[t]).stats = s
      BY <1>1 DEF q
    <3> QED
      BY <3>1, <3>2
  <2>2. /\ \A j \in Outcomes : stats[x][j] \in Nat
        /\ \A j \in Outcomes : s[j] = IF j = z THEN stats[x][z] + 1 ELSE stats[x][j]
    BY <1>5, <2>1, StatsAreNumbers
  <2>3. /\ IsFiniteSet(Debtors(p, k)) /\ IsFiniteSet(Ended(p, k))
        /\ stats[p][k] + Cardinality(Debtors(p, k)) = Cardinality(Ended(p, k))
    BY <1>11 DEF Exact
  <2>4. Cardinality(Debtors(p, k)) \in Nat /\ Cardinality(Ended(p, k)) \in Nat
    BY <2>3, FS_CardinalityType
  <2>5. Ended(p, k)' = Ended(p, k)
    BY DEF Ended, Seats
  <2>6. \A u \in Thread : u # t =>
          (OwesIn(todo'[u], p, k, stats'[p][k]) <=> OwesIn(todo[u], p, k, stats[p][k]))
    <3> SUFFICES ASSUME NEW u \in Thread, u # t
                 PROVE  OwesIn(todo[u], p, k, stats'[p][k]) <=> OwesIn(todo[u], p, k, stats[p][k])
      BY <1>3
    <3>1. CASE p # x
      BY <1>5, <3>1
    <3>2. CASE p = x
      <4>1. ~Saving(u, x)
        BY <1>7, <1>9, <1>11
      <4>2. todo[u] \in Seq(Effect) /\ Shape(todo[u])
        BY DEF Inv, TypeOK, Balanced, Shaped
      <4>3. ~(todo[u] # <<>> /\ Head(todo[u]).op = "save" /\ Head(todo[u]).player = p)
        BY <3>2, <4>1 DEF Saving, Doing, Idle
      <4> QED
        BY <4>2, <4>3, SaveFirst
    <3> QED
      BY <3>1, <3>2
  <2>7. CASE p # x
    <3>1. stats'[p] = stats[p]
      BY <1>5, <2>7
    <3>2. OwesIn(r, p, k, stats[p][k]) <=> OwesIn(todo[t], p, k, stats[p][k])
      BY <1>1, <1>2, <2>7 DEF Owes, q
    <3>3. Debtors(p, k)' = Debtors(p, k)
      BY <1>3, <2>6, <3>1, <3>2 DEF Debtors
    <3> QED
      BY <2>3, <2>5, <3>1, <3>3 DEF Exact
  <2>8. CASE p = x
    <3>1. ~OwesIn(r, p, k, stats'[p][k]) /\ ~OwesIn(r, p, k, stats[p][k])
      BY <1>2, <2>8, FreeOwesNothing
    <3>2. OwesIn(todo[t], p, k, stats[p][k]) <=> s[k] > stats[x][k]
      <4>1. Owes(Head(q), p, k, stats[p][k]) <=> s[k] > stats[x][k]
        BY <1>1, <2>8 DEF Owes
      <4> QED
        BY <1>2, <3>1, <4>1 DEF q
    <3>3. s[k] > stats[x][k] <=> k = z
      BY <2>2
    <3>4. t \notin Debtors(p, k)'
      BY <1>3, <3>1 DEF Debtors
    <3>5. \A u \in Thread : u # t => (u \in Debtors(p, k)' <=> u \in Debtors(p, k))
      BY <2>6 DEF Debtors
    <3>6. t \in Debtors(p, k) <=> k = z
      BY <3>2, <3>3 DEF Debtors
    <3>7. Debtors(p, k) \subseteq Thread /\ Debtors(p, k)' \subseteq Thread
      BY DEF Debtors
    <3>8. stats'[p][k] = s[k]
      BY <1>5, <2>8
    <3>9. CASE k = z
      <4>1. Debtors(p, k)' = Debtors(p, k) \ {t} /\ t \in Debtors(p, k)
        BY <3>4, <3>5, <3>6, <3>7, <3>9
      <4>2. IsFiniteSet(Debtors(p, k)') /\ Cardinality(Debtors(p, k)') = Cardinality(Debtors(p, k)) - 1
        BY <2>3, <4>1, FS_RemoveElement
      <4>3. stats'[p][k] = stats[p][k] + 1 /\ stats[p][k] \in Nat
        BY <2>2, <2>8, <3>8, <3>9
      <4>4. stats'[p][k] + Cardinality(Debtors(p, k)') = Cardinality(Ended(p, k)')
        BY <2>3, <2>4, <2>5, <4>2, <4>3
      <4>5. IsFiniteSet(Ended(p, k)')
        BY <2>3, <2>5
      <4> HIDE DEF Ended
      <4> QED
        BY <4>2, <4>4, <4>5 DEF Exact
    <3>10. CASE k # z
      <4>0. \A u \in Thread : u \in Debtors(p, k)' <=> u \in Debtors(p, k)
        BY <3>4, <3>5, <3>6, <3>10
      <4>1. Debtors(p, k)' = Debtors(p, k)
        BY <3>7, <4>0, Zenon
      <4>2. stats'[p][k] = stats[p][k]
        BY <2>2, <2>8, <3>8, <3>10
      <4> QED
        BY <2>3, <2>5, <4>1, <4>2 DEF Exact
    <3> QED
      BY <3>9, <3>10
  <2> QED
    BY <2>7, <2>8
<1>12. Sums'
  BY <1>11 DEF Balanced, Sums
<1> QED
  BY <1>6, <1>10, <1>12 DEF Balanced

LEMMA BalancedWork ==
  ASSUME Inv, Balanced, NEW t \in Thread, Work(t)
  PROVE  Balanced'
<1>1. todo[t] \in Seq(Effect) /\ todo[t] # <<>> /\ Head(todo[t]) \in Effect
  BY HeadTyped DEF Inv, Work, Persist, RecordLoad, RecordSave, Dispatch
<1>2. game' = game
  BY WorkDrops DEF Inv
<1>3. CASE Persist(t) \/ Dispatch(t)
  <2>1. /\ stats' = stats /\ overlap' = overlap /\ faults \subseteq faults'
        /\ todo' = [todo EXCEPT ![t] = Tail(todo[t])]
        /\ Head(todo[t]).op \notin Update
    BY <1>3 DEF Persist, Dispatch, Advance, stores, StoreFails, Doing, Update
  <2> QED
    BY <1>1, <1>2, <2>1, BalancedDrop
<1>4. CASE RecordLoad(t)
  <2>1. PICK x \in Player, z \in Outcomes : Head(todo[t]) = Credit(x, z)
    BY <1>1, <1>4 DEF RecordLoad, Doing, Effect, Credit
  <2>2. Head(todo[t]).player = x /\ Head(todo[t]).outcome = z
    BY <2>1 DEF Credit
  <2>3. stats' = stats
    BY <1>4 DEF RecordLoad, stores
  <2>4. \/ /\ overlap' = (overlap \/ \E u \in Thread \ {t} : Saving(u, x))
           /\ faults' = faults
           /\ todo' = [todo EXCEPT ![t] =
                <<Copy(x, [stats[x] EXCEPT ![z] = stats[x][z] + 1])>> \o Tail(todo[t])]
        \/ /\ faults' = faults \cup {"store"} /\ overlap' = overlap
           /\ todo' = [todo EXCEPT ![t] = Tail(todo[t])]
    BY <1>4, <2>2 DEF RecordLoad, Advance, StoreFails, Copy
  <2>5. CASE /\ faults' = faults \cup {"store"} /\ overlap' = overlap
             /\ todo' = [todo EXCEPT ![t] = Tail(todo[t])]
    BY <1>1, <1>2, <2>3, <2>5, BalancedDrop
  <2>6. CASE /\ overlap' = (overlap \/ \E u \in Thread \ {t} : Saving(u, x))
             /\ faults' = faults
             /\ todo' = [todo EXCEPT ![t] =
                  <<Copy(x, [stats[x] EXCEPT ![z] = stats[x][z] + 1])>> \o Tail(todo[t])]
    BY <1>1, <1>2, <2>1, <2>3, <2>6, BalancedLoad
  <2> QED
    BY <2>4, <2>5, <2>6
<1>5. CASE RecordSave(t)
  <2>1. PICK x \in Player, s \in Stats : Head(todo[t]) = Copy(x, s)
    BY <1>1, <1>5 DEF RecordSave, Doing, Effect, Copy
  <2>2. Head(todo[t]).player = x /\ Head(todo[t]).stats = s
    BY <2>1 DEF Copy
  <2>3. /\ overlap' = overlap /\ todo' = [todo EXCEPT ![t] = Tail(todo[t])]
        /\ \/ stats' = [stats EXCEPT ![x] = s] /\ faults' = faults
           \/ stats' = stats /\ faults' = faults \cup {"store"}
    BY <1>5, <2>2 DEF RecordSave, Advance, StoreFails
  <2>4. CASE stats' = [stats EXCEPT ![x] = s] /\ faults' = faults
    BY <1>1, <1>2, <2>1, <2>3, <2>4, BalancedSave
  <2>5. CASE stats' = stats /\ faults' = faults \cup {"store"}
    BY <1>1, <1>2, <2>3, <2>5, BalancedDrop
  <2> QED
    BY <2>3, <2>4, <2>5
<1> QED
  BY <1>3, <1>4, <1>5 DEF Work

LEMMA BalancedNext == Inv /\ Balanced /\ [Next]_vars => Balanced'
<1> SUFFICES ASSUME Inv, Balanced, [Next]_vars PROVE Balanced'
  OBVIOUS
<1>1. CASE Restart
  <2>1. /\ stats' = stats /\ overlap' = overlap /\ faults' # {}
        /\ \A t \in Thread : todo'[t] = <<>>
    BY <1>1 DEF Restart, stores
  <2>2. Shaped' /\ \A t \in Thread, p \in Player : ~Saving(t, p)'
    BY <2>1 DEF Shaped, Shape, Saving, Doing, Idle
  <2> QED
    BY <2>1, <2>2, BalancedFewer
<1>2. CASE UNCHANGED vars
  <2>1. /\ Shaped' /\ stats' = stats /\ overlap' = overlap /\ faults' = faults /\ todo' = todo
        /\ game' = game
    BY <1>2 DEF vars, stores, Balanced, Shaped
  <2>2. \A t \in Thread, p \in Player : Saving(t, p)' => Saving(t, p)
    BY <2>1 DEF Saving, Doing, Idle
  <2>3. \A p \in Player, k \in Outcomes :
          Debtors(p, k)' = Debtors(p, k) /\ Ended(p, k)' = Ended(p, k)
    BY <2>1 DEF Debtors, Ended, Seats
  <2> QED
    BY <2>1, <2>2, <2>3, BalancedFewer
<1> QED
  BY <1>1, <1>2, BalancedStart, BalancedMove, BalancedAbandon, BalancedWork DEF Next, Work

(* Games: while no store fails, nothing restarts and no two calls update   *)
(* one player's stats at once, what is saved of a player's wins, losses    *)
(* and draws and what the calls still owe add up to the matches that ended *)
(* so: no result is lost on the way.                                       *)
THEOREM CreditsExact == Spec => []CreditsAddUp
<1>1. \A p \in Player, k \in Outcomes : Owed(p, k) = Cardinality(Debtors(p, k))
  BY DEF Owed, Debtors, OwesIn, Owes
<1>2. Balanced => CreditsAddUp
  BY <1>1 DEF Balanced, Sums, Exact, CreditsAddUp
<1> QED
  BY <1>2, BalancedInit, BalancedNext, Invariance, PTL DEF Spec
=============================================================================

------------------------------- MODULE Games -------------------------------
(***************************************************************************)
(* usecase.Games: the registry of live matches, the only owner of their    *)
(* state, driven by any number of goroutines (every HTTP request and every *)
(* socket's readPump is one).  A call does its critical section in one     *)
(* step and leaves the rest of its body, which runs outside the lock, in   *)
(* todo[t]: saves, results and events, in program order.  Start alone      *)
(* keeps the mutex to its end (defer Unlock), so only Start holds mu       *)
(* between steps.                                                          *)
(*                                                                         *)
(* A match is its length and status (Verdicts; Match implements that       *)
(* reduction).  Calls the code refuses change nothing and are not steps.   *)
(***************************************************************************)
EXTENDS Verdicts, Sequences, FiniteSets, Functions

CONSTANTS
  Player, MatchId,
  Thread,   \* the goroutines that call into Games
  NoThread  \* nobody holds the mutex

ASSUME NoThreadAssumption == NoThread \notin Thread

VARIABLES
  mu,       \* who holds Games.mu between steps
  active,   \* keys of the map active
  byPlayer, \* the map byPlayer, a partial function on Player
  game,     \* the match objects ever made; those not in active are garbage
  todo,     \* what is left of each thread's call
  records,  \* the match store: the last record saved under each id
  stats,    \* the player store: wins, losses and draws of each player
  told,     \* the events handed to the Notifier
  faults,   \* history: whether a store call failed or the process restarted
  overlap   \* history: a player's stats were loaded between the load and the
            \* save of another thread's update of them

stores == <<records, stats>>
vars == <<mu, active, byPlayer, game, todo, records, stats, told, faults, overlap>>

GameState == [x : Player, o : Player, moves : Nat, status : Statuses]
Record == [id : MatchId, x : Player, o : Player, moves : Nat, status : Statuses]
Outcomes == {"win", "loss", "draw"}
Stats == [win : Nat, loss : Nat, draw : Nat]
Event == [to : Player, type : {"match_started", "state_changed", "match_ended",
                               "opponent_left"},
          id : MatchId, moves : Nat]

(* What is left of a call is a sequence of these; a credit is a load of    *)
(* the player's stats followed by a save of the raised copy.               *)
Effect ==
       [op : {"persist"}, rec : Record]
  \cup [op : {"credit"}, player : Player, outcome : Outcomes]
  \cup [op : {"save"}, player : Player, stats : Stats]
  \cup [op : {"notify"}, ev : Event]

IsFinished(s) == s # "in_progress"
Seats(id) == {game[id].x, game[id].o}

----------------------------------------------------------------------------
(* Snapshots taken under the lock.                                         *)

(* Mutant of record: the status is the one before the move was settled.    *)
recordUnsettled(id, g) ==
  [op |-> "persist",
   rec |-> [id |-> id, x |-> g.x, o |-> g.o, moves |-> g.moves, status |-> "in_progress"]]

record(id, g) ==
  [op |-> "persist",
   rec |-> [id |-> id, x |-> g.x, o |-> g.o, moves |-> g.moves, status |-> g.status]]

notify(p, type, id, g) ==
  [op |-> "notify", ev |-> [to |-> p, type |-> type, id |-> id, moves |-> g.moves]]

events(type, id, g) == <<notify(g.x, type, id, g), notify(g.o, type, id, g)>>

(* Mutant of OutcomeFor: a loss is left undecided.                         *)
OutcomeForWinners(g, p) ==
  CASE g.status = "draw" -> "draw"
    [] g.status = "x_won" /\ p = g.x -> "win"
    [] g.status = "o_won" /\ p = g.o -> "win"
    [] OTHER -> "undecided"

(* What a finished match means for one of its players.                     *)
OutcomeFor(g, p) ==
  CASE g.status = "draw" -> "draw"
    [] g.status = "x_won" -> IF p = g.x THEN "win" ELSE "loss"
    [] OTHER -> IF p = g.o THEN "win" ELSE "loss"

(* Mutant of results: only the player who sits as X is credited.           *)
resultsOneSided(g) ==
  << [op |-> "credit", player |-> g.x, outcome |-> OutcomeFor(g, g.x)] >>

(* Mutant of results: both players are credited from the seat of X.        *)
resultsForX(g) ==
  << [op |-> "credit", player |-> g.x, outcome |-> OutcomeFor(g, g.x)],
     [op |-> "credit", player |-> g.o, outcome |-> OutcomeFor(g, g.x)] >>

results(g) ==
  << [op |-> "credit", player |-> g.x, outcome |-> OutcomeFor(g, g.x)],
     [op |-> "credit", player |-> g.o, outcome |-> OutcomeFor(g, g.o)] >>

----------------------------------------------------------------------------
(* The registry.                                                           *)

(* Mutant of forget: the player who sits as O keeps their entry.           *)
forgetXOnly(id) ==
  /\ active' = active \ {id}
  /\ byPlayer' = Restrict(byPlayer, DOMAIN byPlayer \ {game[id].x})

(* Mutant of forget: the end of a match leaves it in the registry.         *)
forgetNothing(id) == UNCHANGED <<active, byPlayer>>

forget(id) ==
  /\ active' = active \ {id}
  /\ byPlayer' = Restrict(byPlayer, DOMAIN byPlayer \ Seats(id))

(* Mutant of busy: nobody looks whether the players already sit.           *)
busyUnchecked(p) == FALSE

busy(p) == p \in DOMAIN byPlayer

lookup(p) == p \in DOMAIN byPlayer /\ byPlayer[p] \in active

Put(f, ks, v) == [k \in DOMAIN f \cup ks |-> IF k \in ks THEN v ELSE f[k]]

Init ==
  /\ mu = NoThread
  /\ active = {}
  /\ byPlayer = [p \in {} |-> p]
  /\ game = [id \in {} |-> id]
  /\ todo = [t \in Thread |-> <<>>]
  /\ records = {}
  /\ stats = [p \in Player |-> [win |-> 0, loss |-> 0, draw |-> 0]]
  /\ told = {}
  /\ faults = {}
  /\ overlap = FALSE

Idle(t) == todo[t] = <<>>

(* Mutant of Start: the mutex is released before the opening record is     *)
(* saved and the players are told, as Move does.                           *)
StartUnlocking(t, x, o) ==
  /\ Idle(t) /\ mu = NoThread
  /\ x # o /\ ~busy(x) /\ ~busy(o)
  /\ \E id \in MatchId \ DOMAIN game :
       LET g == [x |-> x, o |-> o, moves |-> 0, status |-> "in_progress"] IN
       /\ game' = Put(game, {id}, g)
       /\ active' = active \cup {id}
       /\ byPlayer' = Put(byPlayer, {x, o}, id)
       /\ todo' = [todo EXCEPT ![t] = <<record(id, g)>> \o events("match_started", id, g)]
  /\ UNCHANGED <<mu, stores, told, faults, overlap>>

(* Both players are looked up (a read that changes nothing), a match is    *)
(* made under a fresh id and registered unless either is busy; the mutex   *)
(* stays held while the opening record is saved and both are told.         *)
Start(t, x, o) ==
  /\ Idle(t) /\ mu = NoThread
  /\ x # o /\ ~busy(x) /\ ~busy(o)
  /\ \E id \in MatchId \ DOMAIN game :
       LET g == [x |-> x, o |-> o, moves |-> 0, status |-> "in_progress"] IN
       /\ game' = Put(game, {id}, g)
       /\ active' = active \cup {id}
       /\ byPlayer' = Put(byPlayer, {x, o}, id)
       /\ todo' = [todo EXCEPT ![t] = <<record(id, g)>> \o events("match_started", id, g)]
  /\ mu' = t
  /\ UNCHANGED <<stores, told, faults, overlap>>

(* The side to move.                                                       *)
Mover(g) == IF MarkOfMove(g.moves + 1) = "X" THEN g.x ELSE g.o

(* An accepted move: the match advances under the lock, leaves the         *)
(* registry if that ended it, and the record, the results and the events   *)
(* are snapshots the thread carries out of the lock.                       *)
Move(t, p) ==
  /\ Idle(t) /\ mu = NoThread
  /\ lookup(p)
  /\ LET id == byPlayer[p] IN
     /\ ~IsFinished(game[id].status)
     /\ p = Mover(game[id])
     /\ \E s \in StatusAfter(game[id].moves + 1) :
          LET g == [game[id] EXCEPT !.moves = @ + 1, !.status = s] IN
          /\ game' = [game EXCEPT ![id] = g]
          /\ \/ /\ IsFinished(s)
                /\ forget(id)
                /\ todo' = [todo EXCEPT ![t] =
                     <<record(id, g)>> \o results(g) \o events("match_ended", id, g)]
             \/ /\ ~IsFinished(s)
                /\ UNCHANGED <<active, byPlayer>>
                /\ todo' = [todo EXCEPT ![t] =
                     <<record(id, g)>> \o events("state_changed", id, g)]
  /\ UNCHANGED <<mu, stores, told, faults, overlap>>

(* The match is dropped, nothing is saved or credited, and the opponent of *)
(* p is told once the lock is released.                                    *)
Abandon(t, p) ==
  /\ Idle(t) /\ mu = NoThread
  /\ lookup(p)
  /\ LET id == byPlayer[p]
         opponent == IF p = game[id].x THEN game[id].o ELSE game[id].x
     IN /\ forget(id)
        /\ todo' = [todo EXCEPT ![t] = <<notify(opponent, "opponent_left", id, game[id])>>]
  /\ UNCHANGED <<mu, game, stores, told, faults, overlap>>

----------------------------------------------------------------------------
(* The rest of a call, one effect at a time.                               *)

(* Mutant of Advance: a call that fails to save returns at once.           *)
AdvanceGivingUp(t, rest) ==
  LET left == IF faults' # faults THEN <<>> ELSE rest IN
  /\ todo' = [todo EXCEPT ![t] = left]
  /\ mu' = IF mu = t /\ left = <<>> THEN NoThread ELSE mu

(* Mutant of Advance: a call that is done forgets to unlock.              *)
AdvanceHolding(t, rest) ==
  /\ todo' = [todo EXCEPT ![t] = rest]
  /\ mu' = mu

(* The thread goes on with rest; a call that is done returns, and Start's  *)
(* deferred Unlock runs.                                                   *)
Advance(t, rest) ==
  /\ todo' = [todo EXCEPT ![t] = rest]
  /\ mu' = IF mu = t /\ rest = <<>> THEN NoThread ELSE mu

Doing(t, op) == ~Idle(t) /\ Head(todo[t]).op = op

(* A closed database, or a request whose context was cancelled.            *)
StoreFails == faults' = faults \cup {"store"}

Stored(r) == {s \in records : s.id # r.id} \cup {r}

(* MatchStore.Save replaces the record of that id; its error is logged.    *)
Persist(t) ==
  /\ Doing(t, "persist")
  /\ \/ records' = Stored(Head(todo[t]).rec) /\ UNCHANGED faults
     \/ StoreFails /\ UNCHANGED records
  /\ Advance(t, Tail(todo[t]))
  /\ UNCHANGED <<active, byPlayer, game, stats, told, overlap>>

Saving(t, p) == Doing(t, "save") /\ Head(todo[t]).player = p

(* players.ByID hands out a copy of the stored row, which Record raises;   *)
(* when it fails the result is skipped.                                    *)
RecordLoad(t) ==
  /\ Doing(t, "credit")
  /\ LET p == Head(todo[t]).player
         copy == [stats[p] EXCEPT ![Head(todo[t]).outcome] = @ + 1]
     IN \/ /\ overlap' = (overlap \/ \E u \in Thread \ {t} : Saving(u, p))
           /\ UNCHANGED faults
           /\ Advance(t, <<[op |-> "save", player |-> p, stats |-> copy]>> \o Tail(todo[t]))
        \/ /\ StoreFails
           /\ UNCHANGED overlap
           /\ Advance(t, Tail(todo[t]))
  /\ UNCHANGED <<active, byPlayer, game, stores, told>>

(* players.Save overwrites the row with the copy.                          *)
RecordSave(t) ==
  /\ Doing(t, "save")
  /\ \/ /\ stats' = [stats EXCEPT ![Head(todo[t]).player] = Head(todo[t]).stats]
        /\ UNCHANGED faults
     \/ StoreFails /\ UNCHANGED stats
  /\ Advance(t, Tail(todo[t]))
  /\ UNCHANGED <<active, byPlayer, game, records, told, overlap>>

Dispatch(t) ==
  /\ Doing(t, "notify")
  /\ told' = told \cup {Head(todo[t]).ev}
  /\ UNCHANGED <<active, byPlayer, game, stores, faults, overlap>>
  /\ Advance(t, Tail(todo[t]))

(* The process stops and comes back: both maps and every call are gone,    *)
(* the SQLite stores are not, and no match is restored from them.          *)
Restart ==
  /\ mu' = NoThread
  /\ active' = {}
  /\ byPlayer' = [p \in {} |-> p]
  /\ todo' = [t \in Thread |-> <<>>]
  /\ faults' = faults \cup {"restart"}
  /\ UNCHANGED <<game, stores, told, overlap>>

Work(t) == Persist(t) \/ RecordLoad(t) \/ RecordSave(t) \/ Dispatch(t)

Next ==
  \/ \E t \in Thread, x, o \in Player : Start(t, x, o)
  \/ \E t \in Thread, p \in Player : Move(t, p)
  \/ \E t \in Thread, p \in Player : Abandon(t, p)
  \/ \E t \in Thread : Persist(t)
  \/ \E t \in Thread : RecordLoad(t)
  \/ \E t \in Thread : RecordSave(t)
  \/ \E t \in Thread : Dispatch(t)
  \/ Restart

Spec == Init /\ [][Next]_vars

(* Nothing a call does after its critical section can block: the stores    *)
(* return or fail, Notify must not block, and the scheduler runs every     *)
(* goroutine that can run.                                                 *)
FairSpec == Spec /\ \A t \in Thread : WF_vars(Work(t))

----------------------------------------------------------------------------
(* Type invariant.                                                         *)
TypeOK ==
  /\ mu \in Thread \cup {NoThread}
  /\ active \subseteq MatchId
  /\ DOMAIN byPlayer \subseteq Player
  /\ byPlayer \in [DOMAIN byPlayer -> MatchId]
  /\ DOMAIN game \subseteq MatchId
  /\ game \in [DOMAIN game -> GameState]
  /\ todo \in [Thread -> Seq(Effect)]
  /\ records \subseteq Record
  /\ stats \in [Player -> Stats]
  /\ told \subseteq Event
  /\ faults \subseteq {"store", "restart"}
  /\ overlap \in BOOLEAN

(* The two maps stay in step: a live match is unfinished and is where both *)
(* its players are, and nobody is recorded as playing anywhere else.  A    *)
(* leftover entry would answer ALREADY_IN_MATCH for ever.                  *)
RegistryConsistent ==
  /\ \A id \in active :
       /\ id \in DOMAIN game
       /\ ~IsFinished(game[id].status)
       /\ game[id].x # game[id].o
       /\ \A p \in Seats(id) : p \in DOMAIN byPlayer /\ byPlayer[p] = id
  /\ \A p \in DOMAIN byPlayer :
       /\ byPlayer[p] \in active
       /\ p \in Seats(byPlayer[p])

(* The registry seats each player at one table and ends a match for both   *)
(* players at once.                                                        *)
Seating == INSTANCE Tables WITH
  seated <- {[id |-> id, x |-> game[id].x, o |-> game[id].o] : id \in active},
  opened <- DOMAIN game

ImplementsTables == Seating!Spec

(* match_started is the first a player hears of a match: it is why Start   *)
(* tells both players before it releases the mutex, since the first move   *)
(* can come from another goroutine right after.                            *)
StartedFirst ==
  \A e \in told : [to |-> e.to, type |-> "match_started", id |-> e.id, moves |-> 0] \in told

(* The record without moves never replaces one with moves, whatever the    *)
(* order in which Start and the first Move get to the store.               *)
OpeningSavedFirst ==
  [][\A r \in records' \ records : r.moves = 0 => \A s \in records : s.id # r.id]_vars

(* A match ends once: a finishing move and an abandon that race for it     *)
(* never both tell their ending, and one player at most is left behind.    *)
EndedOnce ==
  \A e, f \in told :
    (e.id = f.id /\ e.type = "opponent_left" /\ f.type \in {"match_ended", "opponent_left"})
      => e = f

(* What the store holds of a match is a position it really had, one per    *)
(* match, and a verdict only if the match reached it.                      *)
StoredRecordsTrue ==
  /\ \A r, s \in records : r.id = s.id => r = s
  /\ \A r \in records :
       /\ r.id \in DOMAIN game
       /\ r.x = game[r.id].x /\ r.o = game[r.id].o
       /\ r.moves <= game[r.id].moves
       /\ r.moves = game[r.id].moves => r.status = game[r.id].status
       /\ IsFinished(r.status) => r.moves = game[r.id].moves

(* Matches that ended for p with this outcome.                             *)
Ended(p, outcome) ==
  {id \in DOMAIN game : IsFinished(game[id].status) /\ p \in Seats(id)
                          /\ OutcomeFor(game[id], p) = outcome}

(* No result is ever counted twice or for the wrong side, whatever fails,  *)
(* overlaps or is cut short.                                               *)
NeverOverCounted ==
  \A p \in Player, k \in Outcomes : stats[p][k] <= Cardinality(Ended(p, k))

(* Credits of this outcome some thread still has to save for p.            *)
Owed(p, k) ==
  Cardinality({t \in Thread : \E i \in DOMAIN todo[t] :
    LET e == todo[t][i] IN
    \/ e.op = "credit" /\ e.player = p /\ e.outcome = k
    \/ e.op = "save" /\ e.player = p /\ e.stats[k] > stats[p][k]})

(* Without failures, and when no two threads update one player's stats at  *)
(* once, every result is counted exactly: what is saved and what is still  *)
(* owed add up to the matches that ended.                                  *)
CreditsAddUp ==
  (faults = {} /\ ~overlap) =>
    \A p \in Player, k \in Outcomes : stats[p][k] + Owed(p, k) = Cardinality(Ended(p, k))

----------------------------------------------------------------------------
(* Start's deferred Unlock runs: the mutex is always free again, so no     *)
(* caller of Games waits for ever behind the saves and events of a Start.  *)
LockReleased == mu # NoThread ~> mu = NoThread

(* Both players were handed the event of the n-th move.                    *)
Announced(id, n) ==
  \A p \in Seats(id) : \E e \in told :
    /\ e.to = p /\ e.id = id /\ e.moves = n
    /\ e.type \in {"state_changed", "match_ended"}

(* Persistence failures never fail a move: once a move is on the board,    *)
(* both players are told of it although its saves may all fail; only a     *)
(* restart forgets it.                                                     *)
EveryMoveAnnounced ==
  \A id \in MatchId, n \in 1 .. MaxMoves :
    (id \in DOMAIN game /\ game[id].moves >= n) ~>
      ("restart" \in faults \/ (id \in DOMAIN game /\ Announced(id, n)))

----------------------------------------------------------------------------
(* Claims of the repository that the code does not keep.                   *)

(* matches.Save "is written once per move with a longer history each time" *)
(* (internal/adapter/sqlite/match_store.go): two movers leave the lock in  *)
(* order and reach the store in any order.                                 *)
StoredHistoryGrows ==
  [][\A r \in records, s \in records' : r.id = s.id => r.moves <= s.moves]_vars

(* "results are persisted, and a leaderboard tracks wins, losses and       *)
(* draws" (README.md): without any failure, once no call is running, every *)
(* match that ended is in the stats of both players.                       *)
EveryResultCounted ==
  (faults = {} /\ \A t \in Thread : Idle(t)) =>
    \A p \in Player, k \in Outcomes : stats[p][k] = Cardinality(Ended(p, k))
=============================================================================

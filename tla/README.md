# gotic_tac in TLA+

gotic_tac is a multiplayer tic-tac-toe server: players register, queue for an
opponent, play over HTTP or a WebSocket, and are ranked. This directory holds
TLA+ modules of it, from the board to the exit of the process, the TLC
configurations that check them on small instances, and TLAPS proofs of what
holds for every instance.

Paths below are relative to the repository; `internal/` is left out of them.

## 1. The system

| Part | State | Operations | Called by |
| --- | --- | --- | --- |
| Domain (`domain/board.go`, `match.go`) | a board, a turn, a status, the list of moves; no lock | `ApplyMove`, `RestoreMatch`, `OutcomeFor`, the line scans | the game service, under its lock |
| Game service (`usecase/games.go`) | two maps under one mutex: live matches by id, the match of each player | `Start`, `Move`, `Abandon`, `State`, `InMatch` | matchmaking; every socket's reader; every HTTP request |
| Matchmaking (`usecase/matchmaking.go`) | a FIFO slice under a mutex of its own | `Join`, `Leave`, `Waiting` | readers and requests |
| Hub (`adapter/transport/hub.go`) | one client per player, under an RW lock | `register`, `unregister`, `Notify` | `handleWS`, the reader's cleanup, the game service |
| Connections (`adapter/transport/conn.go`) | per socket: a buffered channel, a done channel, two goroutines | `handleWS`, `readPump`, `writePump`, `push`, `close`, `dispatch` | the network, the hub |
| HTTP (`adapter/transport/http.go`) | none | the same commands, one per request | the network |
| Authentication (`usecase/auth.go`) | none; the player store | `Register`, `Login`, `Authenticate` | HTTP |
| Leaderboard (`usecase/leaderboard.go`) | none; the player store | `Top` | HTTP |
| Stores (`adapter/sqlite`, `adapter/memory`) | players, matches | `Create`, `ByName`, `ByID`, `Save`, `Top` | the use cases |
| Process (`cmd/server`) | the HTTP server, the database handle | `run`: serve, `Shutdown`, close, exit | a signal |
| Client (`cmd/client`) | - | a terminal | - |

A match lives in memory only. `Move` changes it under the game service's mutex,
takes snapshots (a record to save, the results, the events), releases the mutex
and then saves, credits and notifies, in that order, on the caller's goroutine.
`Start` is the exception: it holds the mutex to its end. `Join` takes three
locks one after the other (the registry's to ask `InMatch`, the queue's, and the
registry's again in `Start`) and holds none of them across the next. A socket's
reader runs the commands of its player and, when it ends, takes the player out
of the hub, the queue and the match. A socket lives against two clocks: its
writer pings every nine tenths of `pongWait`, and its reader is given up after
`pongWait` without a pong. `Register`, `Login` and the credit of a result each
read the player store, decide, and write it, with no lock and no transaction
over the two.

What makes this hard, and what the properties below are about:

- goroutines that leave a lock in one order and reach a store or a peer in
  another (saves of consecutive moves, credits of two matches of one player,
  the opening of a match against its first move);
- decisions on a state that was read under a lock that has been released
  (`Join`, `resign`, `Notify`, the cleanup of a replaced socket);
- matches that end from several sides at once (the last move, either player's
  resignation, either player's disconnect);
- failures that must change nothing else (a save fails and the move goes on; a
  `Start` fails after both players have left the queue; a restart at any point);
- goroutines and entries that must not outlive their purpose (a replaced
  session, a leftover entry in a map, a full send channel);
- copies that are out of date when they are written back (`Save` of a player)
  and checks that are out of date when acted on (a name that was free);
- two implementations of one port that must not differ in anything a use case
  can see;
- deadlines that have to fit into one another (ping, pong, write, shutdown).

`PROJECT.json` lists the hazards one by one, at the line where each bites.

## 2. Modules

Abstract specifications say what a part promises; the part's own module is
shown to implement it, and the parts above it are written against it:
`Match` implements `TicTacToe` and `Progress`; `Games` is written against
`Progress` and implements `Tables`; `Matchmaking` and `Sessions` are written
against `Tables`; both player stores implement `Directory`.

| Module | Models | Correspondence |
| --- | --- | --- |
| `Board` | `domain/board.go`, `mark.go` | A board is a function from cells to marks. The three scans, `Winner`, `IsFull` and `Set` are operators of the same names. |
| `TicTacToe` | abstract | The rules: who owns which square, whose turn, the result. Its lines are the hand-written table of `domain/board_test.go`, not the scans. |
| `Match` | `domain/match.go` | `match` is the struct. `MoveError` is the chain of early returns of `ApplyMove`, `Played` its effect with `settle`; `RestoreMatch` is a fold of `Replay` over a history. |
| `Encoding` | `adapter/sqlite/encoding.go`, the rows of `match_store.go` | A text is the sequence of its characters: `encodeMoves`, `decodeMoves` (with `strconv.Atoi` as it is: signs, leading zeros), `parseStatus`, and `Save` and `ByID` of a match on a row of text. |
| `StoredMatch` | a match and its row together | No state of its own: `Match` with `Encoding`, what of it must survive the way to the row and back, and the ways a row may be damaged. |
| `Verdicts`, `Progress` | abstract | A match reduced to its length and status: the side that moves n-th, and the statuses possible after n moves. `Match` implements `Progress` with the real bounds (5 and 9). |
| `Tables` | abstract | What the registry promises: open matches, each player at one table at most, both players leaving together. |
| `Games` | `usecase/games.go` | `active`, `byPlayer` and `mu` are the fields; `game` the match objects; `todo[t]` what is left of the call of goroutine `t` once its critical section is over: `persist`, `credit` (a load), `save`, `notify`. `records` and `stats` are the stores, `told` what the notifier was handed. |
| `Matchmaking` | `usecase/matchmaking.go` | `queue` is the slice; `at[r]` is how far request `r` is in `Join`: idle, checked (`InMatch` has said no), pairing (both popped, `Start` not run yet). The matches are `Tables`. |
| `Sessions` | `adapter/transport/hub.go`, `conn.go`, the commands of `http.go` | `clients` is the hub's map; `phase`, `done`, `pending`, `writer` are a socket's reader, done channel, send channel and writer. `job[g]` is what goroutine `g` still has to do, one operation of the shared state at a time. The matches are `Tables`, the queue a set: `Matchmaking` shows (and proves) that it never holds two. |
| `Directory` | abstract: `adapter/storetest/storetest.go` | The contract both player stores are tested against: names unique whatever their capitals, lookups, saves that change statistics only, the order of `Top`. |
| `SQLitePlayers` | `adapter/sqlite/player_store.go` | A table with its unique index: `Create`, `ByName`, `ByID`, `Save`, `Top`, one statement each. |
| `MemoryPlayers` | `adapter/memory/player_store.go` | Two maps. `Top` is every order the unstable sort of a map may yield. |
| `Accounts` | `usecase/auth.go`, `usecase/leaderboard.go`, `Player.Record`, what `Games.record` writes | `call[r]` is how far request `r` is: after the lookup (free, taken), after `Create` (created), with the hash it read (compare), with the copy it loaded (credit). Both stores are given the same calls; the SQLite one answers. |
| `Keepalive` | `adapter/transport/conn.go`, again | The two pumps of one socket against the clock: ticker, read deadline, write deadline, pings and pongs on the wire. |
| `Server` | `cmd/server/main.go` | `main` is where `run` is, `request` what the HTTP server has in hand, `open` the database; composed with `Keepalive`. |
| `MC*` | - | Instances for TLC: symmetry sets, and what only a finite check needs. |
| `Lemmas`, `*Proofs` | - | Lemmas on lists of what is left to do, on induction and on folds; theorems and proofs about the module they extend. |

Every action is one critical section, with its early returns as guards. Calls
that are refused and change nothing are not steps, except where the answer is
itself of interest (`JoinRefused`, `Ask`). Identifiers are assumed fresh, as
UUIDs are. Mutants (operators whose comment begins "Mutant of") are plausible
mistakes in one definition, kept beside it: each property is known to notice at
least one.

History variables record what no field does: `faults` and `overlap` in `Games`
(has a store call failed, have two updates of one player overlapped), `doubled`
in `Matchmaking` (has a player asked to join while being served), `missed`,
`came` and `raced` in `Sessions` (events that did not fit; who was queued by a
request after their last socket had ended; who was about to be seated when a
cleanup of theirs looked for a match), `granted` in `Accounts` (the tokens given, and for what),
`owed` and `late` in `Keepalive` (how long a tick has waited for its answer).
Properties with a precondition on one of them say what
holds without that circumstance; the same state space contains it.

## 3. Runs

| Run | What it shows | Instance |
| --- | --- | --- |
| `match_rules` | all games on the real board, with their rows; 549,946 states | two players and a stranger, cells -1..9 |
| `games_safety` | registry, events, records and results under two concurrent goroutines, failing stores, restarts; 2,575,379 states | 3 players, 2 matches, 2 goroutines, a match of at most 2 moves |
| `games_live` | the mutex comes back; every move is announced; 91,790 states | 2 players, 1 match, 3 goroutines, at most 3 moves |
| `matchmaking_safety` | the queue and the pairs; 5,828 states | 3 players, 3 matches, 3 requests |
| `sessions_hub` | the hub, the sessions, their cleanup and their end; 423,830 states | 2 players, one of them with 2 sockets, 1 goroutine that serves requests of either, 1 match, a send channel of 1 frame |
| `accounts` | registering, logging in, crediting results and the leaderboard over both stores; 421,438 states | two spellings of one name, a second name, an empty one; 3 passwords, one too short; 3 ids, 2 requests, 1 result per player |
| `server_life` | a socket and a request against the clock, until the process ends; about 1.4 million states | `pongWait` 10, `writeWait` 2, `grace` 1, a send channel of 1 frame, 1 request |
| `games_history`, `games_stats`, `matchmaking_busy`, `sessions_late`, `sessions_ghost` | five statements of the repository the code does not keep (section 5) | smaller ones of the same |

Why the bounds are enough. Two goroutines are the least that interleave, and
every hazard of `Games` is between two calls; three in the liveness run let a
third wait behind a `Start`. Two matches give a rematch and two matches that
share a player. A match of two moves has a move that continues, one that wins
and one that draws, by either side; a longer one repeats the same handler. (The
lengths are constants of `Verdicts`, and the proofs hold for any.) Three
requests in `Matchmaking` let one player ask twice while another pairs. Two
sockets of one player are a reconnect. The request goroutine makes the opponent's
joins, moves and resignations, and the socket player's own (a client may mix the
two), and meets the sockets and their cleanups in every order. With one frame of buffer, a client is slow as soon as its writer is one
frame behind. `TamperDepth` of `StoredMatch` bounds the histories that are extended
by an arbitrary stored move: five moves are the shortest finished game.
`DamageDepth` bounds those whose text is damaged at every place: three moves
give a text with a first, a middle and a last part, and the check is quadratic
in its length. (The proofs have neither bound.) Sockets are used once each, and match identifiers are finite.

In `accounts` two requests are the least that race; three identifiers let a
refused registration hold one while two accounts exist, and two accounts tie or
do not with at most one result each (`MaxPlayed`), which is enough for every
clause of the order of `Top`; `Limit` has numbers below, at and above every bound
of `clamp`. Names are numbered in byte order, the tie-break of
both stores. No name of the instance is longer than `MaxNameLength`: that end of
the check is the same conjunct (`ValidName`) as the empty name, and the proofs
have it. In `server_life` one unit of time is 6 s: `pongWait` is 60 s and the
ping period 54 s exactly, `writeWait` about 10 s. `MaxUnread` says that a ping
written while one is unread counts as that one; commands that wait in the
connection's buffer count as one long one; a command may take any time at all,
since `dispatch` has no limit.

`CHECK_DEADLOCK FALSE` is set for `match_rules`, where a finished match accepts
no call, and for `server_life`, where the process ends.

Fairness. `games_live` assumes that a goroutine with work left in its call does
its next step: the stores return or fail (they have contexts and one
connection), and `Notify` must not block, which is the contract in
`usecase/ports.go` and what `Sessions` models of the hub. Nothing is assumed
about callers: nobody has to move. `sessions_hub` assumes the same of every
goroutine, that a writer returns to its `select` (each write has a deadline of
10 s) and, as strong fairness, that a closed connection finally yields an error
to its reader: it may first deliver frames already buffered, but only so many.
In `Sessions` a peer that vanishes is a read or write failure that may happen
but does not have to; that it does happen is what `Keepalive` shows.
`server_life` assumes that time passes, that the ticker fires, that a pump with
something it can do does it (a command comes to an end; one of a set of ready
cases of `select` is taken), and that `run` goes on. Nothing is assumed of the
peer, which need not answer, or of a handler, which need not return.

### Properties

- Domain: `ImplementsRules`, `OutcomesFollowTheBoard` (scans, `settle` and
  `OutcomeFor` against the table of lines), `StoredMatchReplays` (a row of text
  reads back and replays to the same match), `RestoreAcceptsLegalGamesOnly` and
  `AcceptedTextSpellsItsGame` (what is accepted of stored moves is a legal game,
  and the very one that is written there), `ImplementsProgress` (what the layer above relies on).
- Game service: `RegistryConsistent`, `ImplementsTables`, `EndedOnce` (the races
  for the end of a match), `StartedFirst` and `OpeningSavedFirst` (why `Start`
  holds the mutex), `StoredRecordsTrue`, `NeverOverCounted`, `CreditsAddUp`
  (persistence that may fail, overlap or stop anywhere), `LockReleased`,
  `EveryMoveAnnounced`.
- Matchmaking: `LoneWaiter`, `WaiterTakesX`, `OnePlaceEach`.
- Sessions: `HubFindsTheLive`, `HubHoldsNoGhost` (register against a late
  unregister), `MissedMeansClosed` (no session with a gap), `QuitLeavesNothing`
  (the cleanup and the order of its two calls, with requests of the same player
  beside it), `OrphansEnd` (both goroutines
  of a session that was closed or that the hub let go of).
- Accounts: `SQLiteKeepsContract`, `MemoryKeepsContract`, `StoresAnswerAlike`
  (the stores under racing registrations and stale saves),
  `LeaderboardExact` (limits, ties, ranks: one answer from either store),
  `TokenOpensOwnAccount` (who loses a race for a name gets no token for it),
  `RefusalsTrue` (no failure is read as a taken name or a wrong password).
- Process: `OnlyTheLateDropped` (six seconds for a pong, whatever the pumps are
  busy with), `VanishedFreed`, `RequestsBeforeClose`, `StopsForSure` (sockets are
  served by handlers that never return, and `Shutdown` does not know them).

## 4. Proofs

TLAPS checks the following for every value of the constants (any number of
players, matches, goroutines and requests, any integers as cells). The
assumptions are the ones the modules state: two distinct players in a match
(`DistinctPlayers`, what `NewMatch` enforces), cells are integers, at least one
move before a win and no more moves than the board has cells (`VerdictBounds`),
a value that is not a goroutine for "nobody holds the mutex" and one that is not
a player for a socket nobody is on (`NoOwnerAssumption`), sockets with one player
each (`ClientAssumption`) and readers that serve no requests (`GoroutinesDiffer`),
a send channel with room for a frame (`SendBufferAssumption`), names that are ordered and keys that are functions of
them (`NamesAreOrdered`, `NamesHaveLengths`), a value that is no account for
`PLAYER_NOT_FOUND` (`NotFoundAssumption`), limits of the leaderboard that are
integers, the default one positive and no more than the largest
(`LimitsAreOrdered`), a value that is no mark, number, status or history for a
failure to read a row (`UnreadableIsNoValue`), a board whose cells have one digit
(`CellsHaveOneDigit`), and positive deadlines (`DeadlinesArePositive`,
`GraceIsPositive`).

`MatchProofs`. `MatchTyped`, `OutcomesSound` and `MatchImplementsRules` follow
from one inductive invariant: the match is well typed, its status is what
`settle` makes of its board, and X and O do not both own a line. The last part is
needed because `Winner` reports the first line it meets: only when one side at
most owns a line does the status say who. Lemmas: the scans together own exactly
the eight lines of the table (`Columns`, `Rows`, `LineTable`,
`WinnerOwnsALine`), and an accepted call is a step of the rules
(`AcceptedCall`, `RulesNext`). `MatchImplementsProgress` counts squares
(`Counted`): X owns as many as O, or one more after its move, and together they
own as many as moves were made. So a line, three squares, takes five moves
(`LineIsThree`), and a full board is the ninth (`TakenSquares`).

The second half of `MatchProofs` is about data of any length. The induction
theorems of the library take an operator, which no installed prover can
instantiate, so `Lemmas` states induction of a set of numbers (`SetInduction`,
from the well-foundedness of the naturals): the set of those n for which all
histories, or all texts, of length n have the property. With it a fold, and a
function that recurses on the length of a prefix, are shown to satisfy the
equations they are chosen by, and from then on only those equations are used.

- `RestoreIsExact`: `RestoreMatch` accepts exactly the legal games. Replaying n
  moves is replaying n - 1 and one more, and as long as nothing was refused the
  board is the one the moves make, whose turn and status the next legality
  condition asks about. `HistoryReplays` is the same read along a behaviour: the
  history replays to the match it belongs to. It needs the invariant of the first
  half, because `Replay` goes through the very checks of `ApplyMove`.
  `RestoreSound` follows from the two.
- `EncodingRoundTrip`: the text is read from left to right, and `Split` holds the
  parts so far. At the end of the n-th move they are the parts of n moves; a comma
  opens an empty one and a character lengthens the last, so no part can run into
  the next. `StoredMatchSound` adds that every cell of an accepted move is on the
  board, which is one digit.
- `NeverMisread`, of any text at all, damaged or invented: if it is read as a legal
  game, its parts are marks followed by numbers, each number is of a cell on the
  board, and so only its last digit counts and what is before it are signs and
  zeros. Taken from the text these leave what `encodeMoves` writes of that game.
  `DamagedRowSound` is the case of a damaged row. (`strconv.Atoi` refuses a number
  that overflows; the model reads it. It is no cell of the board either way, so
  the row is refused, by `decodeMoves` there and by `RestoreMatch` here.)

`GamesProofs`. `TypeOK /\ RegistryConsistent` is inductive once each action is
seen as a change of one match; `RegistrySound` is the second half.
`GamesImplementsTables` maps `Start` to `Open`, a finishing `Move` and `Abandon`
to `Close`, and everything else to a stutter. `OpeningsSound` is the deep one.
Its invariant (`Openings`) says that each player of a live match has been handed
`match_started`, or the holder of the mutex still has it to hand out; that no
goroutine has any other event of a match left for a player who has not been
handed it; and that a holder of the mutex is never out of work. It is inductive
because every call that makes an event needs the mutex free.

`MatchmakingProofs`. The four properties of the run are inductive together.
`QueueHoldsOne` makes the pair of `JoinQueue` the waiter and the newcomer
(`PairsAreFair`); `PlacesExclusive` is proved player by player (`Placed`): each
step adds a player to one place only after they have left, or were seen not to
be in, the others.

`RecordsProofs` builds on these. `EndingsSound`: an ending is said, or about to
be, of no match that is still in the registry (`Endings`), so whoever finds a
match there is the first to end it. `RecordsSound`: what is stored, and what any
goroutine still has to write, is a position the match once had (`Recording`);
that is kept by every order of saves because a later position does not make an
earlier one untrue. `OpeningsFirst`: the record without moves is the next thing
the holder of the mutex does, and nobody else has a record of that match to write
(`Openers`). `CreditsSound`: for every player and outcome, the stored number, or
the number in any copy on its way to the store, plus the credits still on lists is
at most the number of matches that ended so (`Counting`). A finishing move adds
one to both sides for each player; taking a credit off its list pays for the
raised copy made of it, even when another goroutine holds a copy of the same row;
a failure or a restart only takes from the left side.

`CreditsExact` is the same sum as an equality, while nothing fails and no two
updates of one player overlap. A bound survives a copy that is out of date, an
equality does not, so its invariant (`Balanced`) also says what `overlap` rules
out: one copy of a player's stats is on its way at most, it is what is stored with
one result more (`Alone`), it is the next thing its goroutine does, and no call
has two updates of one player (`Shaped`). Then a save raises one result by one and
takes one goroutine off the ones that owe it, and a load changes neither.

`SessionsProofs`. Each promise made under a lock is an entry of the job of some
goroutine, and each theorem is an invariant that names who still owes what.
`Owned` ties sockets, players and jobs together. `LiveFound`, `NoGhosts` and
`MissedClosed` are inductive with it: `handleWS` replaces an entry of the hub and
gets the old client to close in the same step, `unregister` removes an entry only
if it is still the caller's, and a push that finds the channel full turns into
the close of that very client. `QuittersGone` needs three more: a socket queues
and abandons for its own player only, and queues only while it is read, a request
does it for anybody at any time, and a cleanup that has the queue to leave has the
match to abandon after it (`Errands`); nobody is at two tables; and, of a player
who has had a socket, whoever waits has one that is read or still has to leave,
whoever plays or is being seated one that is read or still has to abandon, unless
a request queued them after the last had ended (`came`) or a `Start` was under way
when a cleanup looked (`raced`), which is the window the code leaves open
(`Places`). A request that queues a player while a socket of theirs is read, or
between the steps of a cleanup, is covered: the cleanup still has its two calls to
make, or the player is marked. With the two calls swapped, `Errands` fails.

`AccountsProofs`. Whatever a call in progress remembers of an account, its id,
its name and its hash, stays true (`CallsRemember`), because nothing ever changes
these; only the statistics of a copy can be stale. So a `Save` of any copy is a
`Save` of `Directory` (`SQLiteImplements`, `MemoryImplements`), a token goes to
the account it was asked for (`TokensSound`), and the maps of the second store
hold what the table of the first holds (`Twins`, `StoresAgree`).
`LeaderboardSound` is a fact about orders. A finite set that is strictly and
totally ordered can be listed in order in one way (`OneInOrder`): the number of
elements before an element tells it from all others (`RanksDiffer`), and in a
list in order that number is where it stands (`PlacedByRank`). Both comparisons
are such an order, because names are unique and are compared last (`RowsOrdered`,
`PlayersOfRows`), so whatever the sort does with ties, and in whatever order the
map is read, the list is the same. Without the names (the mutant `lessByRecord`)
two players may tie and the lemma does not apply. `RefusalsSound`
adds that names are unique: the account whose hash refused the password is the
only one that could have had it, for every spelling of the name that
`ValidateName` accepts.

`ServerProofs`. `PunctualPeersStay` holds for every `pongWait` of at least two
units, not only for one that ten divides. Its invariant (`Timely`) says where the
answer to the last tick is, in the ticker's channel, in the writer, at the peer
or on its way back, and that by then the deadline is at least `Slack` less the
time it has been owed; when none is owed, the deadline lies at least `Slack`
after the next tick. `StoreOutlivesRequests` follows from where `run` is
(`Orderly`).

Every invariant and every action property a passing run checks is a theorem.
Only model-checked are the liveness properties (`LockReleased`,
`EveryMoveAnnounced`, `OrphansEnd`, `VanishedFreed`, `StopsForSure`): they need
fairness and `ENABLED`, which are out of the prover's reach.

## 5. Where the code and its documentation disagree

1. Saves of consecutive moves may arrive in the wrong order, and the stored
   history shrinks (`games_history`; `usecase/games.go:118`). It stays a true
   position the match once had (`StoredRecordsTrue`), never the opening one over
   a later one (`OpeningSavedFirst`).
2. Two results of one player may be credited from the same loaded row, and one is
   lost, without any failure (`games_stats`; `usecase/games.go:249`). None is
   ever counted twice or for the wrong side (`NeverOverCounted`).
3. A player can be queued and seated at once, and an innocent player is told
   `ALREADY_IN_MATCH` (`matchmaking_busy`; `usecase/matchmaking.go:24`).
4. The cleanup of an old socket abandons the match its player has begun on a
   newer one (`sessions_late`; `adapter/transport/conn.go:131`).
5. A match may begin with a player whose socket was closed and cleaned up between
   the queue and `Start`; nobody is left to abort it (`sessions_ghost`;
   `adapter/transport/conn.go:129`). `QuitLeavesNothing` says that there is no
   other such window (a player who comes back over HTTP is not left behind).

Three more behaviours are in the model and have no run of their own.

- `Start` saves and notifies under the mutex of the registry
  (`usecase/games.go:83`), where the repository's `README.md:381-382` says "Events
  are delivered after it is released". It is also what makes `match_started` come
  first: with the mutex released before, `StartedFirst` fails (its mutant).
- A damaged row may be read as a plausible but wrong game.
  `adapter/sqlite/encoding_test.go:54-55` says of its cases that "a corrupt row
  must surface as an error rather than decoding into a plausible but wrong game",
  and for these (marks and cells that are none) it does. But `X0,O3,X1` cut to
  `X0,O3`, or with one cell replaced by another that is free, is a legal game, and
  no checksum and no comparison with the status column tells it from the one that
  was stored. `AcceptedTextSpellsItsGame` therefore says less: the game that is
  read is the one the text spells.
- Replies are lost when the send channel is full, without the client being dropped.

## 6. Not modelled

- JSON, status codes and the routing table (formatting), except for which
  command each request is.
- The SQL engine and the opening of the file. Each statement is one atomic step,
  as the single connection of `sqlite/db.go` makes it.
- The in-memory match store (`adapter/memory/match_store.go`): a map of records
  that copies what it is given, used by tests. A record is a value in the model,
  so the copy has nothing to show.
- bcrypt, JWT and UUIDs: libraries. A hash answers for one password, a token
  names one player, identifiers are fresh. The expiry of a token refuses a request
  before it reaches any state.
- Where the two player stores do differ, no use case can go: an account created
  under an id that is taken (the map is overwritten, the table answers
  `NAME_TAKEN`), and a save under another name (the map by name keeps the old
  key).
- Configuration (environment variables, read once), and the exit status: when the
  address cannot be served, `run` returns what `Shutdown` answers, nil, and the
  process ends with status 0. No line of the repository promises another.
- The terminal client, which keeps no state of the game.
- In `Sessions`, whether a resignation by socket hits a later match of the same
  player: it needs a second match within the handling of one frame, and the
  instance has one.

What a next step would be: two matches in `sessions_hub`; and the one step between
the modules that is not stated as a theorem, that a system of `Match` objects in
place of the reduced ones of `Games` has the properties of `Games` (each half is
proved: `MatchImplementsProgress`, and `Games` for every `MinWin` and `MaxMoves`).

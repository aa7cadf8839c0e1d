------------------------------ MODULE Sessions ------------------------------
(***************************************************************************)
(* internal/adapter/transport: the Hub; for each socket the goroutine that *)
(* reads (handleWS, then readPump) and the one that writes (writePump);    *)
(* and the goroutines that serve HTTP requests.  Below them are the        *)
(* matches (Tables, which Games implements) and the queue (a set here;     *)
(* Matchmaking has the details).                                           *)
(*                                                                         *)
(* job[g] is what is left of what goroutine g is doing, one operation of   *)
(* the shared state at a time; a reader with an empty job is blocked in    *)
(* ReadJSON.  Frames are counted, not told apart.  Whose turn it is, is    *)
(* Games' business, and so is the mutex it holds while it tells both       *)
(* players of a start.                                                     *)
(***************************************************************************)
EXTENDS Naturals, Sequences, Functions

CONSTANTS
  Player, MatchId,
  Socket,    \* connections, each used once
  Client,    \* the player who connects by each of them
  Request,   \* the goroutines that serve HTTP, for any player
  NoOwner,   \* the owner of a socket that is not connected yet
  SendBuffer \* frames the send channel holds: 16 in the code

ASSUME SendBufferAssumption == SendBuffer \in Nat \ {0}
ASSUME ClientAssumption == Client \in [Socket -> Player]
ASSUME NoOwnerAssumption == NoOwner \notin Player
ASSUME GoroutinesDiffer == Socket \cap Request = {}

VARIABLES
  clients,        \* Hub.clients, a partial function from players to sockets
  owner, phase,   \* the player of each socket; "unused", "open" or "over"
  done,           \* the done channel is closed, and so is the connection
  pending,        \* frames in the send channel that can still be sent
  writer,         \* the writePump: "none", "pumping" or "gone"
  job,            \* what each goroutine still has to do
  waiting,        \* the players in the queue
  seated, opened, \* the matches, as in Tables
  missed,         \* history: the open sockets an event did not fit in
  came,           \* history: who was queued by a request after their last
                  \* socket had ended, and was not taken out by its cleanup
  raced           \* history: who was being seated at the last cleanup of theirs

hub == <<clients, owner>>
pumps == <<done, pending, writer>>
matches == <<seated, opened>>
history == <<missed, came, raced>>
vars == <<hub, phase, pumps, job, waiting, matches, history>>

Goroutine == Socket \cup Request
Matches == INSTANCE Tables

Ops ==
       [op : {"queue", "leave", "abandon"}, p : Player]
  \cup [op : {"start"}, x : Player, o : Player]
  \cup [op : {"notify"}, to : Player]
  \cup [op : {"push", "close"}, who : Socket]
  \cup [op : {"reply", "unregister"}]

Do(op, p) == [op |-> op, p |-> p]
Notify(p) == [op |-> "notify", to |-> p]
Push(c) == [op |-> "push", who |-> c]
Close(c) == [op |-> "close", who |-> c]
Unregister == [op |-> "unregister"]

InMatch(p) == p \in Matches!SeatedPlayers
Online == {clients[p] : p \in DOMAIN clients}

(* p has connected, and no socket of theirs is read any more.              *)
Parted(p) ==
  /\ \E c \in Socket : owner[c] = p
  /\ \A c \in Socket : owner[c] = p => phase[c] = "over"

(* Somebody is about to seat p.                                            *)
BeingSeated(p) ==
  \E g \in Goroutine : \E i \in DOMAIN job[g] :
    job[g][i].op = "start" /\ p \in {job[g][i].x, job[g][i].o}

ToClose(c) == \E g \in Goroutine : \E i \in DOMAIN job[g] : job[g][i] = Close(c)

Init ==
  /\ clients = [p \in {} |-> p]
  /\ owner = [c \in Socket |-> NoOwner]
  /\ phase = [c \in Socket |-> "unused"]
  /\ done = [c \in Socket |-> FALSE]
  /\ pending = [c \in Socket |-> 0]
  /\ writer = [c \in Socket |-> "none"]
  /\ job = [g \in Goroutine |-> <<>>]
  /\ waiting = {}
  /\ Matches!Init
  /\ missed = {} /\ came = {} /\ raced = {}

Reading(c) == phase[c] = "open" /\ job[c] = <<>>

(* g takes the next command of p: a frame read from p's socket, or a       *)
(* request of p, who may have sockets as well.                             *)
Serves(g, p) ==
  \/ g \in Socket /\ Reading(g) /\ owner[g] = p
  \/ g \in Request /\ job[g] = <<>>

Doing(g, op) == job[g] # <<>> /\ Head(job[g]).op = op
Todo(g, ops) == job' = [job EXCEPT ![g] = ops]
Instead(g, ops) == Todo(g, ops \o Tail(job[g]))
Proceed(g) == Instead(g, <<>>)

(* A frame is answered with a frame; what HTTP answers changes nothing.    *)
ThenReply(g, ops) ==
  Todo(g, IF g \in Socket THEN ops \o <<[op |-> "reply"]>> ELSE ops)

----------------------------------------------------------------------------
(* Mutant of register: the session it replaces is not closed.              *)
registerLeaking(c, p) ==
  /\ clients' = [q \in DOMAIN clients \cup {p} |-> IF q = p THEN c ELSE clients[q]]
  /\ UNCHANGED job

(* Mutant of register: the client is registered before it has its player.  *)
registerNameless(c, p) ==
  LET q == owner[c] IN
  /\ clients' = [r \in DOMAIN clients \cup {q} |-> IF r = q THEN c ELSE clients[r]]
  /\ UNCHANGED job

(* Under the hub's lock the newer session takes the entry; the older one   *)
(* is closed after the lock is released.                                   *)
register(c, p) ==
  /\ clients' = [q \in DOMAIN clients \cup {p} |-> IF q = p THEN c ELSE clients[q]]
  /\ \/ p \in DOMAIN clients /\ Todo(c, <<Close(clients[p])>>)
     \/ p \notin DOMAIN clients /\ UNCHANGED job

(* handleWS: an authenticated request is upgraded and registered.  The     *)
(* writer starts right after; it touches nothing but its own socket.       *)
(* Unused sockets of one player are all alike, so one of them will do.     *)
handleWS(c, p) ==
  /\ phase[c] = "unused" /\ p = Client[c]
  /\ c = CHOOSE d \in Socket : phase[d] = "unused" /\ p = Client[d]
  /\ phase' = [phase EXCEPT ![c] = "open"]
  /\ owner' = [owner EXCEPT ![c] = p]
  /\ register(c, p)
  /\ writer' = [writer EXCEPT ![c] = "pumping"]
  /\ UNCHANGED <<done, pending, waiting, matches, history>>

(* client.close: idempotent, and what was still to be sent is not.         *)
close(c) ==
  /\ done' = [done EXCEPT ![c] = TRUE]
  /\ pending' = [pending EXCEPT ![c] = 0]
  /\ missed' = missed \ {c}

CloseClient(g) ==
  /\ Doing(g, "close")
  /\ close(Head(job[g]).who)
  /\ Proceed(g)
  /\ UNCHANGED <<hub, phase, writer, waiting, matches, came, raced>>

----------------------------------------------------------------------------
(* The commands, by frame or by request.                                   *)

Fits(c) == ~done[c] /\ pending[c] < SendBuffer

(* A reply that does not fit is dropped, and the client is kept.           *)
PushReply(c) == pending' = [pending EXCEPT ![c] = IF Fits(c) THEN @ + 1 ELSE @]

(* A frame that changes nothing: state, an unknown or a refused command.   *)
Ask(c) ==
  /\ Reading(c)
  /\ PushReply(c)
  /\ UNCHANGED <<hub, phase, done, writer, job, waiting, matches, history>>

JoinCheck(g, p) ==
  /\ Serves(g, p)
  /\ ~InMatch(p)
  /\ ThenReply(g, <<Do("queue", p)>>)
  /\ UNCHANGED <<hub, phase, pumps, waiting, matches, history>>

Enqueue(g) ==
  LET p == Head(job[g]).p IN
  /\ Doing(g, "queue")
  /\ \/ p \in waiting /\ UNCHANGED waiting /\ Proceed(g)
     \/ waiting = {} /\ waiting' = {p} /\ Proceed(g)
     \/ \E x \in waiting :
          /\ p \notin waiting
          /\ waiting' = waiting \ {x}
          /\ Instead(g, <<[op |-> "start", x |-> x, o |-> p]>>)
  /\ came' = IF g \in Request /\ p \notin waiting /\ Parted(p) THEN came \cup {p} ELSE came
  /\ UNCHANGED <<hub, phase, pumps, matches, missed, raced>>

(* Start seats the two, and tells them, unless one is busy or the lookups  *)
(* fail.                                                                   *)
Start(g) ==
  LET j == Head(job[g]) IN
  /\ Doing(g, "start")
  /\ \/ \E id \in MatchId :
          /\ Matches!Open(id, j.x, j.o)
          /\ Instead(g, <<Notify(j.x), Notify(j.o)>>)
     \/ UNCHANGED matches /\ Proceed(g)
  /\ UNCHANGED <<hub, phase, pumps, waiting, history>>

(* A move is announced to both; the last one ends the match.               *)
Move(g, p) ==
  /\ Serves(g, p)
  /\ \E s \in seated :
       /\ p \in {s.x, s.o}
       /\ Matches!Close(s) \/ UNCHANGED matches
       /\ ThenReply(g, <<Notify(s.x), Notify(s.o)>>)
  /\ UNCHANGED <<hub, phase, pumps, waiting, history>>

(* Resign asks InMatch, and abandons in a step of its own.                 *)
ResignCheck(g, p) ==
  /\ Serves(g, p)
  /\ InMatch(p)
  /\ ThenReply(g, <<Do("abandon", p)>>)
  /\ UNCHANGED <<hub, phase, pumps, waiting, matches, history>>

(* Leaving the queue, on request or in the cleanup.                        *)
Leave(g, p) ==
  /\ \/ Serves(g, p) /\ ThenReply(g, <<>>) /\ UNCHANGED came
     \/ Doing(g, "leave") /\ p = Head(job[g]).p /\ Proceed(g) /\ came' = came \ {p}
  /\ waiting' = waiting \ {p}
  /\ UNCHANGED <<hub, phase, pumps, matches, missed, raced>>

InCleanup(g) == g \in Socket /\ phase[g] = "over"

(* Abandoning the match, on request or in the cleanup.                     *)
Abandon(g) ==
  LET p == Head(job[g]).p IN
  /\ Doing(g, "abandon")
  /\ \/ \E s \in seated :
          /\ p \in {s.x, s.o}
          /\ Matches!Close(s)
          /\ Instead(g, <<Notify(IF p = s.x THEN s.o ELSE s.x)>>)
     \/ ~InMatch(p) /\ UNCHANGED matches /\ Proceed(g)
  /\ raced' = IF ~InCleanup(g) THEN raced
              ELSE IF BeingSeated(p) THEN raced \cup {p} ELSE raced \ {p}
  /\ UNCHANGED <<hub, phase, pumps, waiting, missed, came>>

----------------------------------------------------------------------------
(* Hub.Notify reads the entry under the lock and pushes without it.        *)
NotifyLookup(g) ==
  LET p == Head(job[g]).to IN
  /\ Doing(g, "notify")
  /\ \/ p \in DOMAIN clients /\ Instead(g, <<Push(clients[p])>>)
     \/ p \notin DOMAIN clients /\ Proceed(g)
  /\ UNCHANGED <<hub, phase, pumps, waiting, matches, history>>

(* Mutant of Dropped: what push answers is ignored, as readPump does.      *)
DroppedSilently(c) == <<>>

(* What Notify does about a client that an event did not fit in.           *)
Dropped(c) == <<Close(c)>>

NotifyPush(g) ==
  LET c == Head(job[g]).who IN
  /\ Doing(g, "push")
  /\ \/ /\ Fits(c)
        /\ pending' = [pending EXCEPT ![c] = @ + 1]
        /\ UNCHANGED missed
        /\ Proceed(g)
     \/ /\ ~Fits(c)
        /\ missed' = IF done[c] THEN missed ELSE missed \cup {c}
        /\ UNCHANGED pending
        /\ Instead(g, Dropped(c))
  /\ UNCHANGED <<hub, phase, done, writer, waiting, matches, came, raced>>

Reply(c) ==
  /\ Doing(c, "reply")
  /\ PushReply(c)
  /\ Proceed(c)
  /\ UNCHANGED <<hub, phase, done, writer, waiting, matches, history>>

----------------------------------------------------------------------------
(* The end of a session.                                                   *)

(* Mutant of cleanup: the match is abandoned before the queue is left.     *)
cleanupSwapped(c) ==
  <<Unregister, Do("abandon", owner[c]), Do("leave", owner[c]), Close(c)>>

(* Mutant of cleanup: the hub is not told.                                 *)
cleanupSilent(c) ==
  <<Do("leave", owner[c]), Do("abandon", owner[c]), Close(c)>>

(* What readPump defers.                                                   *)
cleanup(c) ==
  <<Unregister, Do("leave", owner[c]), Do("abandon", owner[c]), Close(c)>>

(* The peer closed, vanished or sent too much, or this side closed.        *)
ReadFails(c) ==
  /\ Reading(c)
  /\ phase' = [phase EXCEPT ![c] = "over"]
  /\ Todo(c, cleanup(c))
  /\ UNCHANGED <<hub, pumps, waiting, matches, history>>

(* Mutant of current: whoever is registered for the player is removed.     *)
currentAnyone(c) == owner[c] \in DOMAIN clients

(* c is the session the hub holds for its player.                          *)
current(c) == owner[c] \in DOMAIN clients /\ clients[owner[c]] = c

unregister(c) ==
  /\ Doing(c, "unregister")
  /\ \/ current(c) /\ clients' = Restrict(clients, DOMAIN clients \ {owner[c]})
     \/ ~current(c) /\ UNCHANGED clients
  /\ Proceed(c)
  /\ UNCHANGED <<owner, phase, pumps, waiting, matches, history>>

----------------------------------------------------------------------------
(* The writePump.                                                          *)

WriteFrame(c) ==
  /\ writer[c] = "pumping"
  /\ pending[c] > 0
  /\ pending' = [pending EXCEPT ![c] = @ - 1]
  /\ UNCHANGED <<hub, phase, done, writer, job, waiting, matches, history>>

(* A frame or a ping is not written in time.                               *)
WriteFails(c) ==
  /\ writer[c] = "pumping"
  /\ close(c)
  /\ writer' = [writer EXCEPT ![c] = "gone"]
  /\ UNCHANGED <<hub, phase, job, waiting, matches, came, raced>>

WriterSeesDone(c) ==
  /\ writer[c] = "pumping"
  /\ done[c]
  /\ writer' = [writer EXCEPT ![c] = "gone"]
  /\ UNCHANGED <<hub, phase, done, pending, job, waiting, matches, history>>

Work(g) ==
  \/ CloseClient(g) \/ Enqueue(g) \/ Start(g)
  \/ \E p \in Player : Doing(g, "leave") /\ Leave(g, p)
  \/ Abandon(g) \/ NotifyLookup(g) \/ NotifyPush(g)
  \/ g \in Socket /\ (Reply(g) \/ unregister(g))

Next ==
  \/ \E c \in Socket, p \in Player : handleWS(c, p)
  \/ \E g \in Goroutine : CloseClient(g)
  \/ \E c \in Socket : Ask(c)
  \/ \E g \in Goroutine, p \in Player : JoinCheck(g, p)
  \/ \E g \in Goroutine : Enqueue(g)
  \/ \E g \in Goroutine : Start(g)
  \/ \E g \in Goroutine, p \in Player : Move(g, p)
  \/ \E g \in Goroutine, p \in Player : ResignCheck(g, p)
  \/ \E g \in Goroutine, p \in Player : Leave(g, p)
  \/ \E g \in Goroutine : Abandon(g)
  \/ \E g \in Goroutine : NotifyLookup(g)
  \/ \E g \in Goroutine : NotifyPush(g)
  \/ \E c \in Socket : Reply(c)
  \/ \E c \in Socket : ReadFails(c)
  \/ \E c \in Socket : unregister(c)
  \/ \E c \in Socket : WriteFrame(c)
  \/ \E c \in Socket : WriteFails(c)
  \/ \E c \in Socket : WriterSeesDone(c)

Spec == Init /\ [][Next]_vars

(* A goroutine that has something to do does it: no operation of the hub,  *)
(* the queue or the games blocks.  A closed connection yields at most what *)
(* was already read from it, then an error.  The writer has a deadline on  *)
(* every write, so it gets back to its select.                             *)
FairSpec ==
  /\ Spec
  /\ \A g \in Goroutine : WF_vars(Work(g))
  /\ \A c \in Socket : SF_vars(done[c] /\ ReadFails(c)) /\ WF_vars(WriterSeesDone(c))

----------------------------------------------------------------------------
(* Type invariant.                                                         *)
TypeOK ==
  /\ DOMAIN clients \subseteq Player
  /\ clients \in [DOMAIN clients -> Socket]
  /\ owner \in [Socket -> Player \cup {NoOwner}]
  /\ phase \in [Socket -> {"unused", "open", "over"}]
  /\ done \in [Socket -> BOOLEAN]
  /\ pending \in [Socket -> 0 .. SendBuffer]
  /\ writer \in [Socket -> {"none", "pumping", "gone"}]
  /\ job \in [Goroutine -> Seq(Ops)]
  /\ waiting \subseteq Player
  /\ seated \subseteq Matches!Table
  /\ opened \subseteq MatchId
  /\ missed \subseteq Socket /\ came \subseteq Player /\ raced \subseteq Player

(* Events find the session a player is on: every socket that is open is    *)
(* the one in the hub, or its replacement is about to close it.  A late    *)
(* disconnect of an older socket never evicts a newer one.                 *)
HubFindsTheLive ==
  \A c \in Socket : (phase[c] = "open" /\ ~done[c]) => current(c) \/ ToClose(c)

(* The hub keeps no session whose reader has finished: what is in it will  *)
(* still be unregistered by its own reader.                                *)
HubHoldsNoGhost ==
  \A c \in Online : phase[c] = "over" => Doing(c, "unregister")

(* A session that an event did not fit in does not go on with a gap in     *)
(* what its player has seen: somebody is about to close it.               *)
MissedMeansClosed == \A c \in missed : ToClose(c)

(* The cleanup of p's sockets is over, too.                                *)
Disconnected(p) == Parted(p) /\ \A c \in Socket : owner[c] = p => job[c] = <<>>

(* When all of a player's sockets are gone, so is the player, out of the   *)
(* queue and out of every match, except who has come over HTTP since (a    *)
(* game can be played without a socket) and who was just about to be       *)
(* seated when the cleanup looked for a match.  Leave before Abandon makes *)
(* this true, whatever requests of the same player run beside the cleanup. *)
QuitLeavesNothing ==
  \A p \in Player :
    Disconnected(p) /\ p \notin came \cup raced => p \notin waiting /\ ~InMatch(p)

Gone(c) == phase[c] = "over" /\ job[c] = <<>> /\ writer[c] = "gone"

(* A session that was replaced, dropped for being slow, or ended gives     *)
(* back both of its goroutines.                                            *)
OrphansEnd ==
  \A c \in Socket : (phase[c] # "unused" /\ (done[c] \/ c \notin Online)) ~> Gone(c)

----------------------------------------------------------------------------
(* A claim of the repository that the code does not keep: "a disconnect    *)
(* aborts the match" (README.md).  A cleanup that runs while somebody else *)
(* is about to seat its player finds neither a place in the queue nor a    *)
(* match, and the match then begins with a player who has gone.            *)
DisconnectAborts ==
  \A p \in Player : Disconnected(p) /\ p \notin came => ~InMatch(p)

(* A claim of the repository that the code does not keep: the opponent of  *)
(* opponent_left "disconnected or resigned" (README.md).  The cleanup of a *)
(* replaced socket abandons the match its player is in by then, although   *)
(* the player has reconnected and may have begun it on the newer socket.   *)
OpponentLeftHasGone ==
  [][\A c \in Socket :
       (phase[c] = "over" /\ Doing(c, "abandon") /\ job'[c] # job[c] /\ seated' # seated)
         => \A d \in Online : owner[d] = owner[c] => done[d]]_vars
=============================================================================

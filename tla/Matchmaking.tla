---------------------------- MODULE Matchmaking ----------------------------
(***************************************************************************)
(* usecase.Matchmaking over its port Matches, which is the module Tables   *)
(* (Games implements it).  A Join is three steps, because three locks are  *)
(* taken one after the other: InMatch reads the registry, the queue is     *)
(* changed under the queue's own mutex, and Start runs with neither held.  *)
(* Requests of one player may overlap: a client has a socket and as many   *)
(* HTTP requests as it cares to make.                                      *)
(***************************************************************************)
EXTENDS Sequences, Naturals, SequencesExt

CONSTANTS
  Player, MatchId,
  Request \* the goroutines that serve Join

VARIABLES
  seated, opened, \* the matches, as in Tables
  queue,          \* the waiting players, longest first
  at,             \* how far each request has got with its Join
  answer,         \* the error the latest step answered a Join with, if it did
  doubled         \* history: a player asked to join who was already being served

vars == <<seated, opened, queue, at, answer, doubled>>

Matches == INSTANCE Tables

Idle == [step |-> "idle"]
Checked(p) == [step |-> "checked", p |-> p]
Pairing(x, o, p) == [step |-> "pairing", x |-> x, o |-> o, p |-> p]

Stages ==
       {Idle}
  \cup {Checked(p) : p \in Player}
  \cup {Pairing(x, o, p) : x, o, p \in Player}

Answers ==
  [to : Player,
   code : {"ALREADY_QUEUED", "ALREADY_IN_MATCH", "PLAYER_NOT_FOUND", "INTERNAL"}]

InMatch(p) == p \in Matches!SeatedPlayers
Queued(p) == p \in ToSet(queue)
Checking(r, p) == at[r].step = "checked" /\ at[r].p = p
Pairs(r, p) == at[r].step = "pairing" /\ p \in {at[r].x, at[r].o}

(* p is somewhere between asking for an opponent and being given one.      *)
Served(p) == Queued(p) \/ \E r \in Request : Checking(r, p) \/ Pairs(r, p)

Init ==
  /\ Matches!Init
  /\ queue = <<>>
  /\ at = [r \in Request |-> Idle]
  /\ answer = {}
  /\ doubled = FALSE

(* Mutant of Refuse: every error is sent under one catch-all code.         *)
RefuseCatchAll(p, code) == answer' = {[to |-> p, code |-> "ERROR"]}

Refuse(p, code) == answer' = {[to |-> p, code |-> code]}
NoError == answer' = {}

(* Mutant of JoinCheck: InMatch is not asked.                              *)
JoinUnchecked(r, p) ==
  /\ at[r] = Idle
  /\ at' = [at EXCEPT ![r] = Checked(p)]
  /\ doubled' = (doubled \/ Served(p))
  /\ NoError
  /\ UNCHANGED <<seated, opened, queue>>

(* The registry is asked, and what it said may be stale at the next step.  *)
JoinCheck(r, p) ==
  /\ at[r] = Idle
  /\ ~InMatch(p)
  /\ at' = [at EXCEPT ![r] = Checked(p)]
  /\ doubled' = (doubled \/ Served(p))
  /\ NoError
  /\ UNCHANGED <<seated, opened, queue>>

(* A player in a match is refused.                                         *)
JoinRefused(r, p) ==
  /\ at[r] = Idle
  /\ InMatch(p)
  /\ Refuse(p, "ALREADY_IN_MATCH")
  /\ UNCHANGED <<seated, opened, queue, at, doubled>>

(* Mutant of alreadyQueued: it is not looked whether p waits.              *)
neverQueued(p) == FALSE

alreadyQueued(p) == Queued(p)

firstTwo(q) == <<q[1], q[2]>>

(* Mutant of withoutTwo: the pair stays in the queue until it is seated.   *)
withThePair(q) == q

withoutTwo(q) == SubSeq(q, 3, Len(q))

(* Under the queue's mutex: a player who already waits is refused; anybody *)
(* else is appended, and the two who have waited longest leave together.   *)
JoinQueue(r) ==
  /\ at[r].step = "checked"
  /\ LET p == at[r].p
         joined == Append(queue, p)
     IN \/ /\ alreadyQueued(p)
           /\ UNCHANGED queue
           /\ at' = [at EXCEPT ![r] = Idle]
           /\ Refuse(p, "ALREADY_QUEUED")
        \/ /\ ~alreadyQueued(p)
           /\ Len(joined) < 2
           /\ queue' = joined
           /\ at' = [at EXCEPT ![r] = Idle]
           /\ NoError
        \/ /\ ~alreadyQueued(p)
           /\ Len(joined) >= 2
           /\ queue' = withoutTwo(joined)
           /\ at' = [at EXCEPT ![r] = Pairing(firstTwo(joined)[1], firstTwo(joined)[2], p)]
           /\ NoError
  /\ UNCHANGED <<seated, opened, doubled>>

Return(r) == at' = [at EXCEPT ![r] = Idle]

(* Start's lookups fail: one of the two has no account, the database does  *)
(* not answer, or the joiner's request was cancelled.  Neither player goes *)
(* back to the queue.                                                      *)
StartFails(r) ==
  /\ at[r].step = "pairing"
  /\ Return(r)
  /\ \E code \in {"PLAYER_NOT_FOUND", "INTERNAL"} : Refuse(at[r].p, code)
  /\ UNCHANGED <<seated, opened, queue, doubled>>

(* Start finds one of the two in a match: the joiner gets the error and    *)
(* neither goes back to the queue.                                         *)
StartBusy(r) ==
  /\ at[r].step = "pairing"
  /\ InMatch(at[r].x) \/ InMatch(at[r].o)
  /\ Return(r)
  /\ Refuse(at[r].p, "ALREADY_IN_MATCH")
  /\ UNCHANGED <<seated, opened, queue, doubled>>

StartSeats(r) ==
  /\ at[r].step = "pairing"
  /\ \E id \in MatchId : Matches!Open(id, at[r].x, at[r].o)
  /\ Return(r)
  /\ NoError
  /\ UNCHANGED <<queue, doubled>>

(* A waiting player leaves the queue, on request or because the socket     *)
(* closed.  For anybody else Leave changes nothing.                        *)
Leave(p) ==
  /\ \E i \in DOMAIN queue : queue[i] = p /\ queue' = RemoveAt(queue, i)
  /\ NoError
  /\ UNCHANGED <<seated, opened, at, doubled>>

(* A match ends by its last move or by an abandon.                         *)
Ends ==
  /\ \E s \in seated : Matches!Close(s)
  /\ NoError
  /\ UNCHANGED <<queue, at, doubled>>

Restart ==
  /\ Matches!Restart
  /\ queue' = <<>>
  /\ NoError
  /\ at' = [r \in Request |-> Idle]
  /\ UNCHANGED doubled

Next ==
  \/ \E r \in Request, p \in Player : JoinCheck(r, p)
  \/ \E r \in Request, p \in Player : JoinRefused(r, p)
  \/ \E r \in Request : JoinQueue(r)
  \/ \E r \in Request : StartFails(r)
  \/ \E r \in Request : StartBusy(r)
  \/ \E r \in Request : StartSeats(r)
  \/ \E p \in Player : Leave(p)
  \/ Ends
  \/ Restart

Spec == Init /\ [][Next]_vars

----------------------------------------------------------------------------
(* Type invariant.                                                         *)
TypeOK ==
  /\ seated \subseteq Matches!Table
  /\ opened \subseteq MatchId
  /\ queue \in Seq(Player)
  /\ at \in [Request -> Stages]
  /\ answer \subseteq Answers
  /\ doubled \in BOOLEAN

(* Two players who wait are paired at once: between two calls the queue    *)
(* holds at most one.                                                      *)
LoneWaiter == Len(queue) <= 1

(* Nobody is paired with themselves, however often they ask, and the one   *)
(* who waited takes X: the player whose Join completed the pair is O.      *)
WaiterTakesX ==
  \A r \in Request : at[r].step = "pairing" => at[r].x # at[r].o /\ at[r].o = at[r].p

(* As long as nobody asks to join while an earlier request of theirs is    *)
(* still being served, every player is in one place: not queued and in a   *)
(* match, not in two pairs at once, not paired while in a match.  Only     *)
(* then is everyone who was popped from the queue sure of a seat.          *)
OnePlaceEach ==
  ~doubled =>
    \A p \in Player :
      /\ Queued(p) => ~InMatch(p)
      /\ \A r \in Request : Checking(r, p) \/ Pairs(r, p) => ~InMatch(p) /\ ~Queued(p)
      /\ \A r, q \in Request :
           (Checking(r, p) \/ Pairs(r, p)) /\ (Checking(q, p) \/ Pairs(q, p)) => r = q

----------------------------------------------------------------------------
(* A claim of the repository that the code does not keep: a player is told *)
(* ALREADY_IN_MATCH, "you are already playing a match"                     *)
(* (internal/usecase/errors.go), only while playing one.                   *)
BusyMeansPlaying ==
  \A a \in answer : a.code = "ALREADY_IN_MATCH" => InMatch(a.to)
=============================================================================

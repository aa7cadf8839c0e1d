----------------------------- MODULE Keepalive -----------------------------
(***************************************************************************)
(* The two goroutines of one socket against the clock: writePump, which    *)
(* pings at every tick of its ticker and writes the frames sent to the     *)
(* player, and readPump, whose read deadline only a pong puts off.         *)
(* Sessions has the hub, what commands do and peers that close, and leaves *)
(* time out; here time is counted in units and a command is a stretch of   *)
(* it.                                                                     *)
(***************************************************************************)
EXTENDS Integers

CONSTANTS
  pongWait,   \* the read deadline
  writeWait,  \* the deadline of one write
  sendBuffer, \* capacity of the channel send
  MaxUnread   \* bound on the pings, and on the pongs, on the wire

ASSUME DeadlinesArePositive ==
  /\ pongWait \in Nat /\ pongWait >= 2
  /\ writeWait \in Nat \ {0}
  /\ sendBuffer \in Nat \ {0} /\ MaxUnread \in Nat \ {0}

pingPeriod == (pongWait * 9) \div 10

(* What is left of the read deadline when a tick falls.                    *)
Slack == pongWait - pingPeriod

VARIABLES
  deadline, \* until the read deadline
  tick,     \* until the ticker fires
  ticked,   \* a tick waits in the ticker's channel
  writer,   \* what writePump is doing
  left,     \* until the deadline of the write it is in
  reader,   \* what readPump is doing
  send,     \* frames in the channel
  closed,   \* client.close has been called
  peer,     \* whether the peer is there
  pings, pongs, \* on the wire
  owed,     \* history: how long ago the tick that has no answer yet fell
  late      \* history: such a tick has waited for Slack

wire == <<pings, pongs>>
history == <<owed, late>>
socket == <<deadline, tick, ticked, writer, left, reader, send, closed, peer, wire, history>>

Settled == -1 \* of owed: every tick has its answer, or it no longer matters

Init ==
  /\ deadline = pongWait /\ tick = pingPeriod /\ ticked = FALSE
  /\ writer = "waiting" /\ left = 0
  /\ reader = "reading"
  /\ send = 0 /\ closed = FALSE
  /\ peer = "here"
  /\ pings = 0 /\ pongs = 0
  /\ owed = Settled /\ late = FALSE

Least(a, b) == IF a < b THEN a ELSE b
Down(t) == IF t = 0 THEN 0 ELSE t - 1
Writing == writer \in {"pinging", "sending"}

----------------------------------------------------------------------------
(* A unit of time passes, unless a timer has run out: the ticker fires and *)
(* a blocked read or write returns at that moment.  Everything else may    *)
(* take its time.                                                          *)
Due ==
  \/ tick = 0 /\ writer # "ended"
  \/ deadline = 0 /\ reader = "reading"
  \/ left = 0 /\ Writing

TooLong == owed # Settled /\ owed + 1 >= Slack

Elapse ==
  /\ ~Due
  /\ deadline' = IF reader = "ended" THEN deadline ELSE Down(deadline)
  /\ tick' = IF writer = "ended" THEN tick ELSE tick - 1
  /\ left' = Down(left)
  /\ late' = (late \/ TooLong)
  /\ owed' = IF owed = Settled \/ late \/ TooLong THEN Settled ELSE owed + 1
  /\ UNCHANGED <<ticked, writer, reader, send, closed, peer, wire>>

(* Mutant of Fire: the ticker is made with pongWait.                       *)
FireLate ==
  /\ tick = 0 /\ writer # "ended"
  /\ tick' = pongWait /\ ticked' = TRUE
  /\ owed' = IF late \/ owed # Settled THEN owed ELSE 0
  /\ UNCHANGED <<deadline, writer, left, reader, send, closed, peer, wire, late>>

(* A tick that finds the last one still waiting is dropped by the ticker.  *)
Fire ==
  /\ tick = 0 /\ writer # "ended"
  /\ tick' = pingPeriod /\ ticked' = TRUE
  /\ owed' = IF late \/ owed # Settled THEN owed ELSE 0
  /\ UNCHANGED <<deadline, writer, left, reader, send, closed, peer, wire, late>>

----------------------------------------------------------------------------
(* writePump.                                                              *)

Write(what) == writer' = what /\ left' = writeWait

TakeTick ==
  /\ writer = "waiting" /\ ticked
  /\ Write("pinging") /\ ticked' = FALSE
  /\ UNCHANGED <<deadline, tick, reader, send, closed, peer, wire, history>>

TakeFrame ==
  /\ writer = "waiting" /\ send > 0
  /\ Write("sending") /\ send' = send - 1
  /\ UNCHANGED <<deadline, tick, ticked, reader, closed, peer, wire, history>>

WriteDone ==
  /\ Writing /\ ~closed
  /\ writer' = "waiting" /\ left' = 0
  /\ pings' = IF writer = "pinging" THEN Least(pings + 1, MaxUnread) ELSE pings
  /\ UNCHANGED <<deadline, tick, ticked, reader, send, closed, peer, pongs, history>>

(* The goroutine ends, through its deferred close.                         *)
WriterEnds ==
  /\ writer' = "ended" /\ left' = 0 /\ closed' = TRUE
  /\ UNCHANGED <<deadline, tick, ticked, reader, send, peer, wire, history>>

(* Too slow, or the connection is closed or known to be dead.              *)
WriteFails ==
  /\ Writing /\ (left = 0 \/ closed \/ peer = "gone")
  /\ WriterEnds

SeeDone == writer = "waiting" /\ closed /\ WriterEnds

----------------------------------------------------------------------------
(* readPump.                                                               *)

(* Mutant of ReadPong: there is no pong handler.                           *)
ReadPongUnhandled ==
  /\ reader = "reading" /\ ~closed /\ pongs > 0
  /\ pongs' = pongs - 1
  /\ owed' = Settled
  /\ UNCHANGED <<deadline, tick, ticked, writer, left, reader, send, closed, peer, pings, late>>

(* The pong handler, which runs only while the pump reads.                 *)
ReadPong ==
  /\ reader = "reading" /\ ~closed /\ pongs > 0
  /\ pongs' = pongs - 1
  /\ deadline' = pongWait
  /\ owed' = Settled
  /\ UNCHANGED <<tick, ticked, writer, left, reader, send, closed, peer, pings, late>>

(* A command arrives in time.  More that arrived with it and wait in the   *)
(* connection's buffer count as part of it.                                *)
ReadCommand ==
  /\ reader = "reading" /\ ~closed /\ peer = "here" /\ deadline > 0
  /\ reader' = "dispatching"
  /\ UNCHANGED <<deadline, tick, ticked, writer, left, send, closed, peer, wire, history>>

(* push never blocks: what does not fit is lost.                           *)
Push == send' = IF closed \/ send = sendBuffer THEN send ELSE send + 1

(* The command is done and its reply is pushed.                            *)
Dispatched ==
  /\ reader = "dispatching"
  /\ reader' = "reading"
  /\ Push
  /\ UNCHANGED <<deadline, tick, ticked, writer, left, closed, peer, wire, history>>

(* Mutant of cleanup: the client is not closed.                            *)
cleanupOpen ==
  /\ reader' = "ended"
  /\ UNCHANGED <<deadline, tick, ticked, writer, left, send, closed, peer, wire, history>>

(* The deferred calls of readPump; the last one closes the client.         *)
cleanup ==
  /\ reader' = "ended" /\ closed' = TRUE
  /\ UNCHANGED <<deadline, tick, ticked, writer, left, send, peer, wire, history>>

ReadTimesOut == reader = "reading" /\ deadline = 0 /\ cleanup

ReadFails == reader = "reading" /\ closed /\ cleanup

----------------------------------------------------------------------------
(* Hub.Notify, and Hub.register of a newer session.                        *)
Notify ==
  /\ Push
  /\ closed' = (closed \/ send = sendBuffer)
  /\ UNCHANGED <<deadline, tick, ticked, writer, left, reader, peer, wire, history>>

Replaced ==
  /\ closed' = TRUE
  /\ UNCHANGED <<deadline, tick, ticked, writer, left, reader, send, peer, wire, history>>

----------------------------------------------------------------------------
(* The peer: it answers pings, and may vanish without closing its end.     *)
(* What arrives after the deadline is not read, and counts as on its way   *)
(* for that long.                                                          *)
Answer ==
  /\ peer = "here" /\ deadline > 0 /\ pings > 0 /\ pongs < MaxUnread
  /\ pings' = pings - 1 /\ pongs' = pongs + 1
  /\ UNCHANGED <<deadline, tick, ticked, writer, left, reader, send, closed, peer, history>>

Vanish ==
  /\ peer = "here" /\ peer' = "gone"
  /\ UNCHANGED <<deadline, tick, ticked, writer, left, reader, send, closed, wire, history>>

Peer == Answer \/ Vanish
Others == Notify \/ Replaced
Writer == TakeTick \/ TakeFrame \/ WriteDone \/ WriteFails \/ SeeDone
Reader == ReadPong \/ ReadCommand \/ Dispatched \/ ReadTimesOut \/ ReadFails
Timers == Elapse \/ Fire
=============================================================================

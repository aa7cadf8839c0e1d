---------------------------- MODULE ServerProofs ----------------------------
(***************************************************************************)
(* Proofs about the server process and its socket, for any deadlines, any  *)
(* buffer and any number of requests.                                      *)
(*                                                                         *)
(* While no answer has been late, one tick at most is without an answer,   *)
(* and it is in exactly one place: in the ticker's channel, being written, *)
(* on its way to the peer or on its way back.  So every pong that is read  *)
(* answers the latest tick, and the read deadline stays Slack ahead of the *)
(* next one.                                                               *)
(***************************************************************************)
EXTENDS Server, TLAPS

(* The one place where the unanswered tick is.                             *)
InChannel == ticked /\ writer # "pinging" /\ pings = 0 /\ pongs = 0
InWriter == ~ticked /\ writer = "pinging" /\ pings = 0 /\ pongs = 0
AtPeer == ~ticked /\ writer # "pinging" /\ pings = 1 /\ pongs = 0
Returned == ~ticked /\ writer # "pinging" /\ pings = 0 /\ pongs = 1
Nowhere == ~ticked /\ writer # "pinging" /\ pings = 0 /\ pongs = 0

Alive == ~closed /\ reader # "ended"

AllAnswered == Nowhere /\ deadline >= tick + Slack
OneWaits ==
  /\ InChannel \/ InWriter \/ AtPeer \/ Returned
  /\ deadline >= Slack - owed
  /\ tick = pingPeriod - owed

Timely ==
  Alive /\ ~late =>
    /\ writer # "ended"
    /\ owed = Settled => AllAnswered
    /\ owed # Settled => OneWaits

(* Where run() is tells what it has closed and whom it has waited for.     *)
Orderly ==
  /\ ~open => main \in {"returned", "gone"}
  /\ main \in {"closing", "returned"} => Idle \/ patience = 0
  /\ main = "gone" => Idle

(* The last tenth of pongWait is no longer than the rest.                  *)
LEMMA Periods ==
  /\ pingPeriod \in Nat /\ Slack \in Nat
  /\ 0 < Slack /\ Slack <= pingPeriod
  /\ pongWait = pingPeriod + Slack
BY DeadlinesArePositive, SMTT(30) DEF pingPeriod, Slack

LEMMA InitTyped == ServerInit => TypeOK
<1> SUFFICES ASSUME ServerInit PROVE TypeOK
  OBVIOUS
<1>1. Measures
  BY Periods, DeadlinesArePositive, GraceIsPositive
  DEF ServerInit, Init, Measures, Settled
<1>2. Flags
  BY DEF ServerInit, Init, Flags
<1> QED
  BY <1>1, <1>2 DEF TypeOK

LEMMA StepFlags == Flags /\ [ServerNext]_vars => Flags'
<1> SUFFICES ASSUME Flags, [ServerNext]_vars PROVE Flags'
  OBVIOUS
<1> USE DEF Flags, process, wire, history, socket
<1>1. CASE Fire /\ UNCHANGED process
  BY <1>1 DEF Fire
<1>7. CASE Pass
  <2>1. UNCHANGED <<ticked, closed, open>> /\ late' = (late \/ TooLong)
    BY <1>7, Zenon DEF Pass, Elapse
  <2>2. late' \in BOOLEAN
    BY <2>1, Zenon
  <2> QED
    BY <2>1, <2>2, Zenon
<1>2. CASE (Writer \/ Reader) /\ UNCHANGED process
  <2>1. CASE Writer
    BY <1>2, <2>1 DEF Writer, TakeTick, TakeFrame, WriteDone, WriteFails, SeeDone, WriterEnds
  <2>2. CASE Reader
    BY <1>2, <2>2 DEF Reader, ReadPong, ReadCommand, Dispatched, ReadTimesOut, ReadFails, cleanup
  <2> QED
    BY <1>2, <2>1, <2>2
<1>3. CASE (Others \/ Peer) /\ UNCHANGED process
  <2>1. UNCHANGED <<ticked, late, open>>
    BY <1>3, Zenon DEF Others, Notify, Replaced, Peer, Answer, Vanish
  <2>2. closed' \in BOOLEAN
    <3>1. CASE Notify
      BY <3>1, Zenon DEF Notify
    <3>2. CASE Replaced
      BY <3>2, Zenon DEF Replaced
    <3>3. CASE Peer
      BY <3>3, Zenon DEF Peer, Answer, Vanish
    <3> QED
      BY <1>3, <3>1, <3>2, <3>3 DEF Others
  <2> QED
    BY <2>1, <2>2, Zenon
<1>4. CASE Requests \/ Stop
  BY <1>4 DEF Requests, Accept, Respond, Stop
<1>5. CASE Run
  BY <1>5 DEF Run, Shutdown, Drained, CloseStore, Exit
<1>6. CASE UNCHANGED vars
  BY <1>6 DEF vars
<1> QED
  BY <1>1, <1>2, <1>3, <1>4, <1>5, <1>6, <1>7 DEF ServerNext, Socket

LEMMA StepMeasures == Measures /\ [ServerNext]_vars => Measures'
<1> SUFFICES ASSUME Measures, [ServerNext]_vars PROVE Measures'
  OBVIOUS
<1> USE Periods, DeadlinesArePositive, GraceIsPositive DEF Measures, process, wire, history, Settled
<1>1. CASE Pass
  <2>1. owed' \in Settled .. Slack - 1
    BY <1>1 DEF Pass, Elapse, TooLong
  <2> QED
    BY <1>1, <2>1 DEF Pass, Elapse, Due, Down
<1>2. CASE Fire /\ UNCHANGED process
  BY <1>2 DEF Fire
<1>3. CASE Writer /\ UNCHANGED process
  <2>1. CASE TakeTick
    BY <1>3, <2>1 DEF TakeTick, Write
  <2>2. CASE TakeFrame
    BY <1>3, <2>2 DEF TakeFrame, Write
  <2>3. CASE WriteDone
    BY <1>3, <2>3 DEF WriteDone, Least
  <2>4. CASE WriteFails \/ SeeDone
    BY <1>3, <2>4 DEF WriteFails, SeeDone, WriterEnds
  <2> QED
    BY <1>3, <2>1, <2>2, <2>3, <2>4 DEF Writer
<1>4. CASE Reader /\ UNCHANGED process
  <2>1. CASE ReadPong
    BY <1>4, <2>1 DEF ReadPong
  <2>2. CASE ReadCommand
    BY <1>4, <2>2 DEF ReadCommand
  <2>3. CASE Dispatched
    BY <1>4, <2>3 DEF Dispatched, Push
  <2>4. CASE ReadTimesOut \/ ReadFails
    BY <1>4, <2>4 DEF ReadTimesOut, ReadFails, cleanup
  <2> QED
    BY <1>4, <2>1, <2>2, <2>3, <2>4 DEF Reader
<1>5. CASE Others /\ UNCHANGED process
  <2>1. CASE Notify
    BY <1>5, <2>1 DEF Notify, Push
  <2>2. CASE Replaced
    BY <1>5, <2>2 DEF Replaced
  <2> QED
    BY <1>5, <2>1, <2>2 DEF Others
<1>6. CASE Peer /\ UNCHANGED process
  BY <1>6 DEF Peer, Answer, Vanish
<1>7. CASE Requests
  BY <1>7 DEF Requests, Accept, Respond, socket
<1>8. CASE Stop
  BY <1>8 DEF Stop, socket
<1>9. CASE Run
  <2>1. CASE Exit
    BY <2>1 DEF Exit
  <2>2. CASE Shutdown \/ Drained \/ CloseStore
    BY <2>2 DEF Shutdown, Drained, CloseStore, socket
  <2> QED
    BY <1>9, <2>1, <2>2 DEF Run
<1>10. CASE UNCHANGED vars
  BY <1>10 DEF vars, socket
<1> QED
  BY <1>1, <1>2, <1>3, <1>4, <1>5, <1>6, <1>7, <1>8, <1>9, <1>10 DEF ServerNext, Socket

LEMMA StepTyped == TypeOK /\ [ServerNext]_vars => TypeOK'
BY StepMeasures, StepFlags DEF TypeOK

LEMMA InitTimely == ServerInit => Timely
BY Periods DEF ServerInit, Init, Timely, Alive, AllAnswered, Nowhere

LEMMA StepTimely == TypeOK /\ Timely /\ [ServerNext]_vars => Timely'
<1> SUFFICES ASSUME TypeOK, Timely, [ServerNext]_vars, (Alive /\ ~late)'
             PROVE  /\ writer' # "ended"
                    /\ owed' = Settled => AllAnswered'
                    /\ owed' # Settled => OneWaits'
  BY DEF Timely
<1> USE Periods, DeadlinesArePositive
    DEF TypeOK, Measures, wire, history, Settled, Alive, AllAnswered, OneWaits,
        InChannel, InWriter, AtPeer, Returned, Nowhere
<1>1. CASE Pass
  <2>1. Alive /\ ~late /\ ~TooLong
    BY <1>1, Zenon DEF Pass, Elapse
  <2>2. CASE owed = Settled
    BY <1>1, <2>1, <2>2 DEF Timely, Pass, Elapse, Due, Down
  <2>3. CASE owed # Settled
    <3>1. owed' = owed + 1 /\ owed + 1 < Slack
      BY <1>1, <2>1, <2>3 DEF Pass, Elapse, TooLong
    <3>2. deadline' = deadline - 1 /\ tick' = tick - 1
      BY <1>1, <2>1, <2>3, <3>1 DEF Timely, Pass, Elapse, Down
    <3> QED
      BY <1>1, <2>1, <2>3, <3>1, <3>2 DEF Timely, Pass, Elapse
  <2> QED
    BY <2>2, <2>3
<1>2. CASE Fire /\ UNCHANGED process
  BY <1>2 DEF Timely, Fire
<1>3. CASE Writer /\ UNCHANGED process
  <2>1. CASE TakeTick
    BY <2>1 DEF Timely, TakeTick, Write
  <2>2. CASE TakeFrame
    BY <2>2 DEF Timely, TakeFrame, Write
  <2>3. CASE WriteDone
    BY <2>3 DEF Timely, WriteDone, Least, Writing
  <2>4. CASE WriteFails \/ SeeDone
    BY <2>4 DEF WriteFails, SeeDone, WriterEnds
  <2> QED
    BY <1>3, <2>1, <2>2, <2>3, <2>4 DEF Writer
<1>4. CASE Reader /\ UNCHANGED process
  <2>1. CASE ReadPong
    BY <2>1 DEF Timely, ReadPong
  <2>2. CASE ReadCommand
    BY <2>2 DEF Timely, ReadCommand
  <2>3. CASE Dispatched
    BY <2>3 DEF Timely, Dispatched
  <2>4. CASE ReadTimesOut \/ ReadFails
    BY <2>4 DEF ReadTimesOut, ReadFails, cleanup
  <2> QED
    BY <1>4, <2>1, <2>2, <2>3, <2>4 DEF Reader
<1>5. CASE Others /\ UNCHANGED process
  <2>1. Alive /\ ~late
    <3>1. CASE Notify
      BY <3>1, Zenon DEF Notify
    <3>2. CASE Replaced
      BY <3>2 DEF Replaced
    <3> QED
      BY <1>5, <3>1, <3>2 DEF Others
  <2>2. UNCHANGED <<deadline, tick, ticked, writer, wire, owed>>
    BY <1>5, Zenon DEF Others, Notify, Replaced
  <2> QED
    BY <2>1, <2>2 DEF Timely
<1>6. CASE Peer /\ UNCHANGED process
  <2>1. CASE Answer
    BY <2>1 DEF Timely, Answer
  <2>2. CASE Vanish
    BY <2>2 DEF Timely, Vanish
  <2> QED
    BY <1>6, <2>1, <2>2 DEF Peer
<1>7. CASE UNCHANGED socket
  BY <1>7 DEF Timely, socket
<1>8. CASE Exit
  BY <1>8 DEF Exit
<1> QED
  <2>1. Requests \/ Stop \/ Shutdown \/ Drained \/ CloseStore \/ UNCHANGED vars => UNCHANGED socket
    BY DEF Requests, Accept, Respond, Stop, Shutdown, Drained, CloseStore, vars
  <2> QED
    BY <1>1, <1>2, <1>3, <1>4, <1>5, <1>6, <1>7, <1>8, <2>1 DEF ServerNext, Socket, Run

LEMMA InitOrderly == ServerInit => Orderly
BY DEF ServerInit, Orderly

LEMMA StepOrderly == TypeOK /\ Orderly /\ [ServerNext]_vars => Orderly'
<1> SUFFICES ASSUME TypeOK, Orderly, [ServerNext]_vars PROVE Orderly'
  OBVIOUS
<1> USE DEF TypeOK, Measures, Orderly, Idle
<1>1. CASE UNCHANGED process
  BY <1>1 DEF process
<1>2. CASE Requests
  BY <1>2 DEF Requests, Accept, Respond
<1>3. CASE Stop \/ Shutdown
  BY <1>3 DEF Stop, Shutdown
<1>4. CASE Drained
  BY <1>4 DEF Drained
<1>5. CASE CloseStore
  BY <1>5 DEF CloseStore
<1>6. CASE Exit
  BY <1>6 DEF Exit
<1>7. CASE Pass
  BY <1>7 DEF Pass
<1> QED
  BY <1>1, <1>2, <1>3, <1>4, <1>5, <1>6, <1>7 DEF ServerNext, Socket, Run, vars

----------------------------------------------------------------------------
(* The process and its socket keep their types whatever the deadlines are. *)
THEOREM ServerTyped == Spec => []TypeOK
<1>1. ServerInit => TypeOK
  BY InitTyped
<1>2. TypeOK /\ [ServerNext]_vars => TypeOK'
  BY StepTyped
<1> QED
  BY <1>1, <1>2, PTL DEF Spec

(* For every pongWait: a peer whose answers take less than Slack, counted  *)
(* from the tick, is never dropped by the read deadline.                   *)
THEOREM PunctualPeersStay == Spec => []OnlyTheLateDropped
<1>1. ServerInit => Timely
  BY InitTimely
<1>2. TypeOK /\ Timely /\ [ServerNext]_vars => Timely'
  BY StepTimely
<1>3. TypeOK /\ Timely => OnlyTheLateDropped
  BY Periods
  DEF TypeOK, Measures, Timely, OnlyTheLateDropped, Alive, AllAnswered, OneWaits, Settled
<1> QED
  BY <1>1, <1>2, <1>3, ServerTyped, PTL DEF Spec

(* However many requests there are: the database is closed under none that *)
(* Shutdown has not waited for to the end of its time.                     *)
THEOREM StoreOutlivesRequests == Spec => []RequestsBeforeClose
<1>1. ServerInit => Orderly
  BY InitOrderly
<1>2. TypeOK /\ Orderly /\ [ServerNext]_vars => Orderly'
  BY StepOrderly
<1>3. Orderly => RequestsBeforeClose
  BY DEF Orderly, RequestsBeforeClose, Idle
<1> QED
  BY <1>1, <1>2, <1>3, ServerTyped, PTL DEF Spec
=============================================================================

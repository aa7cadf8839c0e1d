---------------------------- MODULE SessionsProofs ----------------------------
(***************************************************************************)
(* Proofs about the hub and the connections: the hub finds the session a   *)
(* player is on and keeps none that has ended, a session that missed an    *)
(* event is closed, and a player whose sockets are all gone is gone from   *)
(* the queue and from the matches.                                         *)
(*                                                                         *)
(* Everything turns on what a goroutine still has to do: a promise made    *)
(* under a lock (close the session I replaced, leave the queue, abandon    *)
(* the match) is kept by an entry of its job.                              *)
(***************************************************************************)
EXTENDS Sessions, Lemmas

Reply1 == [op |-> "reply"]
Seat(x, o) == [op |-> "start", x |-> x, o |-> o]

LEMMA OpsTyped ==
  /\ \A p \in Player :
       /\ Do("queue", p) \in Ops /\ Do("leave", p) \in Ops /\ Do("abandon", p) \in Ops
       /\ Notify(p) \in Ops
  /\ \A x, o \in Player : Seat(x, o) \in Ops
  /\ \A c \in Socket : Push(c) \in Ops /\ Close(c) \in Ops
  /\ Unregister \in Ops /\ Reply1 \in Ops
BY DEF Ops, Do, Notify, Seat, Push, Close, Unregister, Reply1

LEMMA OpTyped ==
  ASSUME NEW e \in Ops
  PROVE  /\ e.op \in {"queue", "leave", "abandon"} => e.p \in Player /\ e = Do(e.op, e.p)
         /\ e.op = "start" => e.x \in Player /\ e.o \in Player /\ e = Seat(e.x, e.o)
         /\ e.op = "notify" => e.to \in Player /\ e = Notify(e.to)
         /\ e.op = "push" => e.who \in Socket /\ e = Push(e.who)
         /\ e.op = "close" => e.who \in Socket /\ e = Close(e.who)
         /\ e.op = "unregister" => e = Unregister
         /\ e.op = "reply" => e = Reply1
BY DEF Ops, Do, Notify, Seat, Push, Close, Unregister, Reply1

LEMMA HeadTyped ==
  ASSUME TypeOK, NEW g \in Goroutine, job[g] # <<>>
  PROVE  Head(job[g]) \in Ops /\ Tail(job[g]) \in Seq(Ops) /\ job[g] \in Seq(Ops)
<1>1. job[g] \in Seq(Ops)
  BY DEF TypeOK
<1> QED
  BY <1>1

----------------------------------------------------------------------------
(* How a step changes what its goroutine has to do.                        *)

JobStep(g, old, new) ==
  /\ job' \in [Goroutine -> Seq(Ops)]
  /\ \A h \in Goroutine : h # g => job'[h] = job[h]
  /\ \A e : Holds(job'[g], e) => Holds(job[g], e) \/ Holds(new, e)
  /\ \A e : Holds(job[g], e) => Holds(job'[g], e) \/ e = old
  /\ \A e : Holds(new, e) => Holds(job'[g], e)

LEMMA Began ==
  ASSUME TypeOK, NEW g \in Goroutine, NEW new \in Seq(Ops), NEW old,
         job[g] = <<>>, Todo(g, new)
  PROVE  JobStep(g, old, new) /\ job'[g] = new
<1>1. job \in [Goroutine -> Seq(Ops)] /\ job' = [job EXCEPT ![g] = new]
  BY DEF TypeOK, Todo
<1>2. job' \in [Goroutine -> Seq(Ops)] /\ job'[g] = new
      /\ \A h \in Goroutine : h # g => job'[h] = job[h]
  BY <1>1
<1>3. \A e : ~Holds(job[g], e)
  BY DEF Holds
<1> QED
  BY <1>2, <1>3 DEF JobStep

LEMMA Went ==
  ASSUME TypeOK, NEW g \in Goroutine, NEW new \in Seq(Ops),
         job[g] # <<>>, Instead(g, new)
  PROVE  JobStep(g, Head(job[g]), new) /\ job'[g] = new \o Tail(job[g])
<1> DEFINE rest == new \o Tail(job[g])
<1>1. job \in [Goroutine -> Seq(Ops)] /\ job' = [job EXCEPT ![g] = rest]
  BY DEF TypeOK, Todo, Instead
<1>2. Tail(job[g]) \in Seq(Ops) /\ job[g] \in Seq(Ops)
  BY HeadTyped
<1>3. rest \in Seq(Ops)
  BY <1>2
<1>4. \A e : Holds(rest, e) <=> Holds(new, e) \/ Holds(Tail(job[g]), e)
  BY <1>2, Concatenated
<1>5. \A e : Holds(job[g], e) <=> Head(job[g]) = e \/ Holds(Tail(job[g]), e)
  BY <1>2, HeadOrTail
<1> HIDE DEF rest
<1>6. job' \in [Goroutine -> Seq(Ops)] /\ job'[g] = rest
      /\ \A h \in Goroutine : h # g => job'[h] = job[h]
  BY <1>1, <1>3
<1>7. JobStep(g, Head(job[g]), new)
  BY <1>4, <1>5, <1>6 DEF JobStep
<1> QED
  BY <1>6, <1>7 DEF rest

LEMMA Proceeded ==
  ASSUME TypeOK, NEW g \in Goroutine, job[g] # <<>>, Proceed(g)
  PROVE  JobStep(g, Head(job[g]), <<>>) /\ job'[g] = Tail(job[g])
<1>1. Instead(g, <<>>) /\ <<>> \in Seq(Ops)
  BY DEF Proceed
<1>2. Tail(job[g]) \in Seq(Ops)
  BY HeadTyped
<1>3. <<>> \o Tail(job[g]) = Tail(job[g])
  BY <1>2
<1> QED
  BY <1>1, <1>3, Went

(* A command of p, taken by a goroutine that has nothing else to do.       *)
Command(g, p) ==
  /\ Serves(g, p)
  /\ JoinCheck(g, p) \/ Move(g, p) \/ ResignCheck(g, p) \/ Leave(g, p)

FromCommand(p, e) ==
  e \in {Do("queue", p), Do("abandon", p), Reply1} \/ \E q \in Player : e = Notify(q)

Alone(c) ==
  Ask(c) \/ WriteFrame(c) \/ WriteFails(c) \/ WriterSeesDone(c)

LEMMA NextCases ==
  ASSUME Next
  PROVE  \/ \E c \in Socket, p \in Player : handleWS(c, p)
         \/ \E c \in Socket : ReadFails(c)
         \/ \E c \in Socket : Alone(c)
         \/ \E g \in Goroutine, p \in Player : Command(g, p)
         \/ \E g \in Goroutine : Work(g)
<1>1. ASSUME NEW g \in Goroutine, NEW p \in Player,
             JoinCheck(g, p) \/ Move(g, p) \/ ResignCheck(g, p)
      PROVE  Command(g, p)
  BY <1>1 DEF Command, JoinCheck, Move, ResignCheck
<1>2. ASSUME NEW g \in Goroutine, NEW p \in Player, Leave(g, p)
      PROVE  Command(g, p) \/ Work(g)
  BY <1>2 DEF Command, Leave, Work
<1>3. \A c \in Socket : c \in Goroutine
  BY DEF Goroutine
<1> QED
  BY <1>1, <1>2, <1>3 DEF Next, Alone, Work

LEMMA ServesIdle ==
  ASSUME NEW g, NEW p, Serves(g, p)
  PROVE  job[g] = <<>>
BY DEF Serves, Reading

LEMMA CommandShape ==
  ASSUME TypeOK, NEW g \in Goroutine, NEW p \in Player, Command(g, p)
  PROVE  /\ UNCHANGED <<clients, owner, phase, done, pending, writer, missed, came, raced>>
         /\ \E new \in Seq(Ops) :
              /\ \A old : JobStep(g, old, new)
              /\ \A e : Holds(new, e) => FromCommand(p, e)
<1>1. job[g] = <<>>
  BY ServesIdle DEF Command
<1>2. UNCHANGED <<clients, owner, phase, done, pending, writer, missed, came, raced>>
  BY <1>1 DEF Command, JoinCheck, Move, ResignCheck, Leave, Doing, hub, pumps, history
<1>3. ASSUME NEW new \in Seq(Ops), ThenReply(g, new)
      PROVE  \E all \in Seq(Ops) :
               /\ Todo(g, all) /\ \A e : Holds(all, e) => Holds(new, e) \/ e = Reply1
  <2>1. Reply1 \in Ops
    BY OpsTyped
  <2>2. Todo(g, IF g \in Socket THEN new \o <<Reply1>> ELSE new)
    BY <1>3 DEF ThenReply, Reply1
  <2> DEFINE all == new \o <<Reply1>>
             r == Reply1
  <2> HIDE DEF r
  <2>3. <<r>> \in Seq(Ops) /\ \A e : Holds(<<r>>, e) => e = r
    BY <2>1 DEF r, Holds
  <2>4. all \in Seq(Ops) /\ \A e : Holds(all, e) => Holds(new, e) \/ e = Reply1
    BY <2>3, Concatenated DEF r
  <2> QED
    BY <2>2, <2>4
<1>4. PICK new \in Seq(Ops) :
        /\ ThenReply(g, new)
        /\ \A e : Holds(new, e) =>
             e \in {Do("queue", p), Do("abandon", p)} \/ \E q \in Player : e = Notify(q)
  <2> DEFINE Good(new) ==
        /\ new \in Seq(Ops)
        /\ ThenReply(g, new)
        /\ \A e : Holds(new, e) =>
             e \in {Do("queue", p), Do("abandon", p)} \/ \E q \in Player : e = Notify(q)
  <2>1. CASE JoinCheck(g, p)
    <3>1. <<Do("queue", p)>> \in Seq(Ops)
      BY OpsTyped
    <3>2. Good(<<Do("queue", p)>>)
      BY <2>1, <3>1 DEF JoinCheck, Holds
    <3> QED
      BY <3>2
  <2>2. CASE ResignCheck(g, p)
    <3>1. <<Do("abandon", p)>> \in Seq(Ops)
      BY OpsTyped
    <3>2. Good(<<Do("abandon", p)>>)
      BY <2>2, <3>1 DEF ResignCheck, Holds
    <3> QED
      BY <3>2
  <2>3. CASE Leave(g, p)
    <3>1. ThenReply(g, <<>>)
      BY <1>1, <2>3 DEF Leave, Doing
    <3>2. Good(<<>>)
      BY <3>1 DEF Holds
    <3> QED
      BY <3>2
  <2>4. CASE Move(g, p)
    <3>1. PICK s \in seated : ThenReply(g, <<Notify(s.x), Notify(s.o)>>)
      BY <2>4 DEF Move
    <3>2. s.x \in Player /\ s.o \in Player
      BY DEF TypeOK, Matches!Table
    <3>3. <<Notify(s.x), Notify(s.o)>> \in Seq(Ops)
      BY <3>2, OpsTyped
    <3>4. Good(<<Notify(s.x), Notify(s.o)>>)
      BY <3>1, <3>2, <3>3 DEF Holds
    <3> QED
      BY <3>4
  <2> QED
    BY <2>1, <2>2, <2>3, <2>4 DEF Command
<1>5. PICK all \in Seq(Ops) :
        Todo(g, all) /\ \A e : Holds(all, e) => Holds(new, e) \/ e = Reply1
  BY <1>3, <1>4
<1>6. \A old : JobStep(g, old, all)
  BY <1>1, <1>5, Began
<1> QED
  BY <1>2, <1>4, <1>5, <1>6 DEF FromCommand

(* What is left to do grows, within a call, by what concerns others only.  *)
ForOthers == {"start", "notify", "push", "close"}

FromWork(g, e) ==
  /\ e.op \in ForOthers
  /\ e.op = "start" => Enqueue(g) /\ \E x \in waiting : e = Seat(x, Head(job[g]).p)

LEMMA WorkShape ==
  ASSUME TypeOK, NEW g \in Goroutine, Work(g)
  PROVE  /\ job[g] # <<>> /\ UNCHANGED <<owner, phase>>
         /\ Doing(g, "unregister") => g \in Socket /\ unregister(g)
         /\ clients' = clients \/ (g \in Socket /\ unregister(g))
         /\ Head(job[g]).op \in {"unregister", "leave", "close"} => job'[g] = Tail(job[g])
         /\ \E new \in Seq(Ops) :
              /\ JobStep(g, Head(job[g]), new)
              /\ \A e : Holds(new, e) => FromWork(g, e)
<1> DEFINE h == Head(job[g])
           Moves(new) == /\ new \in Seq(Ops) /\ Instead(g, new)
                         /\ \A e : Holds(new, e) => FromWork(g, e)
<1>1. job[g] # <<>> /\ UNCHANGED <<owner, phase>>
  BY DEF Work, CloseClient, Enqueue, Start, Leave, Serves, Reading, Abandon, NotifyLookup,
         NotifyPush, Reply, unregister, Doing, hub
<1>2. h \in Ops
  BY <1>1, HeadTyped
<1>3. Doing(g, "unregister") => g \in Socket /\ unregister(g)
  BY <1>1 DEF Work, CloseClient, Enqueue, Start, Leave, Abandon, NotifyLookup, NotifyPush, Reply, Doing
<1>4. clients' = clients \/ (g \in Socket /\ unregister(g))
  BY DEF Work, CloseClient, Enqueue, Start, Leave, Abandon, NotifyLookup, NotifyPush, Reply, hub
<1>5. h.op \in {"unregister", "leave", "close"} => Proceed(g)
  BY <1>1 DEF Work, CloseClient, Enqueue, Start, Leave, Abandon, NotifyLookup, NotifyPush, Reply,
              unregister, Doing, Serves, Reading
<1>6. \E new : Moves(new)
  <2>1. CASE Proceed(g)
    <3>1. Moves(<<>>)
      BY <2>1 DEF Proceed, Holds
    <3> QED
      BY <3>1
  <2>2. ASSUME NEW e \in Ops, FromWork(g, e), Instead(g, <<e>>)
        PROVE  \E new : Moves(new)
    <3>1. Moves(<<e>>)
      BY <2>2 DEF Holds
    <3> QED
      BY <3>1
  <2>3. CASE Enqueue(g)
    <3>1. Proceed(g) \/ \E x \in waiting : Instead(g, <<Seat(x, h.p)>>)
      BY <2>3 DEF Enqueue, Seat
    <3>2. h.p \in Player /\ waiting \subseteq Player
      BY <1>2, <2>3, OpTyped DEF Enqueue, Doing, TypeOK
    <3>3. \A x \in waiting : Seat(x, h.p) \in Ops /\ FromWork(g, Seat(x, h.p))
      BY <2>3, <3>2, OpsTyped DEF Seat, ForOthers, FromWork
    <3> QED
      BY <2>1, <2>2, <3>1, <3>3
  <2>4. ASSUME NEW e \in Ops, NEW f \in Ops, FromWork(g, e), FromWork(g, f),
               Instead(g, <<e, f>>)
        PROVE  \E new : Moves(new)
    <3>1. Moves(<<e, f>>)
      BY <2>4 DEF Holds
    <3> QED
      BY <3>1
  <2>5. CASE Start(g)
    <3>1. Proceed(g) \/ Instead(g, <<Notify(h.x), Notify(h.o)>>)
      BY <2>5 DEF Start
    <3>2. h.x \in Player /\ h.o \in Player
      BY <1>2, <2>5, OpTyped DEF Start, Doing
    <3>3. /\ Notify(h.x) \in Ops /\ FromWork(g, Notify(h.x))
          /\ Notify(h.o) \in Ops /\ FromWork(g, Notify(h.o))
      BY <3>2, OpsTyped DEF Notify, ForOthers, FromWork
    <3> QED
      BY <2>1, <2>4, <3>1, <3>3
  <2>6. CASE Abandon(g)
    <3>1. Proceed(g) \/ \E s \in seated :
            Instead(g, <<Notify(IF h.p = s.x THEN s.o ELSE s.x)>>)
      BY <2>6 DEF Abandon
    <3>2. \A s \in seated : (IF h.p = s.x THEN s.o ELSE s.x) \in Player
      BY DEF TypeOK, Matches!Table
    <3>3. \A q \in Player : Notify(q) \in Ops /\ FromWork(g, Notify(q))
      BY OpsTyped DEF Notify, ForOthers, FromWork
    <3> QED
      BY <2>1, <2>2, <3>1, <3>2, <3>3
  <2>7. CASE NotifyLookup(g)
    <3>1. Proceed(g) \/ (h.to \in DOMAIN clients /\ Instead(g, <<Push(clients[h.to])>>))
      BY <2>7 DEF NotifyLookup
    <3>2. \A c \in Socket : Push(c) \in Ops /\ FromWork(g, Push(c))
      BY OpsTyped DEF Push, ForOthers, FromWork
    <3>3. h.to \in DOMAIN clients => clients[h.to] \in Socket
      BY DEF TypeOK
    <3> QED
      BY <2>1, <2>2, <3>1, <3>2, <3>3
  <2>8. CASE NotifyPush(g)
    <3>1. Proceed(g) \/ Instead(g, <<Close(h.who)>>)
      BY <2>8 DEF NotifyPush, Dropped
    <3>2. h.who \in Socket
      BY <1>2, <2>8, OpTyped DEF NotifyPush, Doing
    <3>3. Close(h.who) \in Ops /\ FromWork(g, Close(h.who))
      BY <3>2, OpsTyped DEF Close, ForOthers, FromWork
    <3> QED
      BY <2>1, <2>2, <3>1, <3>3
  <2>9. CASE (\E p \in Player : Doing(g, "leave") /\ Leave(g, p))
    BY <1>5, <2>1, <2>9 DEF Doing
  <2> QED
    BY <2>1, <2>3, <2>5, <2>6, <2>7, <2>8, <2>9 DEF Work, CloseClient, Reply, unregister
<1>7. \E new \in Seq(Ops) : JobStep(g, h, new) /\ \A e : Holds(new, e) => FromWork(g, e)
  BY <1>1, <1>6, Went
<1>8. h.op \in {"unregister", "leave", "close"} => job'[g] = Tail(job[g])
  BY <1>1, <1>5, Proceeded
<1> QED
  BY <1>1, <1>3, <1>4, <1>7, <1>8

----------------------------------------------------------------------------
(* Type correctness, with what ties sockets, players and jobs together: a  *)
(* socket that is not connected has nothing to do, the hub holds a player  *)
(* under nobody else's name, and only a reader that has finished has its   *)
(* session to unregister.                                                  *)
Owned ==
  /\ \A c \in Socket : phase[c] = "unused" => job[c] = <<>> /\ owner[c] \notin Player
  /\ \A c \in Socket : phase[c] # "unused" => owner[c] \in Player
  /\ \A p \in DOMAIN clients : owner[clients[p]] = p /\ phase[clients[p]] # "unused"
  /\ \A g \in Goroutine : Holds(job[g], Unregister) => g \in Socket /\ phase[g] = "over"

LEMMA RegisterShape ==
  ASSUME TypeOK, Owned, NEW c \in Socket, NEW p \in Player, handleWS(c, p)
  PROVE  \E new \in Seq(Ops) :
           /\ \A old : JobStep(c, old, new)
           /\ \A e : Holds(new, e) => \E d \in Socket : e = Close(d)
           /\ p \in DOMAIN clients => Holds(new, Close(clients[p]))
<1>1. job[c] = <<>> /\ c \in Goroutine
  BY DEF handleWS, Owned, Goroutine
<1>2. CASE p \in DOMAIN clients
  <2> DEFINE d == clients[p]
             new == <<Close(d)>>
  <2>1. d \in Socket /\ Todo(c, new)
    BY <1>2 DEF handleWS, register, TypeOK
  <2>2. new \in Seq(Ops)
    BY <2>1, OpsTyped
  <2>3. \A e : Holds(new, e) <=> e = Close(d)
    BY DEF Holds
  <2>4. \A old : JobStep(c, old, new)
    BY <1>1, <2>1, <2>2, Began
  <2> QED
    BY <2>1, <2>2, <2>3, <2>4
<1>3. CASE p \notin DOMAIN clients
  <2>1. job' = job
    BY <1>3 DEF handleWS, register
  <2>2. (\A old : JobStep(c, old, <<>>)) /\ \A e : ~Holds(<<>>, e)
    BY <2>1 DEF JobStep, TypeOK, Holds
  <2>3. <<>> \in Seq(Ops)
    OBVIOUS
  <2> QED
    BY <1>3, <2>2, <2>3
<1> QED
  BY <1>2, <1>3

LEMMA CleanupShape ==
  ASSUME TypeOK, Owned, NEW c \in Socket, ReadFails(c)
  PROVE  /\ \A old : JobStep(c, old, cleanup(c))
         /\ job'[c] = cleanup(c) /\ job[c] = <<>> /\ cleanup(c) \in Seq(Ops)
         /\ Head(cleanup(c)) = Unregister
         /\ \A e : Holds(cleanup(c), e) <=>
              e \in {Unregister, Do("leave", owner[c]), Do("abandon", owner[c]), Close(c)}
<1>1. job[c] = <<>> /\ c \in Goroutine /\ owner[c] \in Player /\ Todo(c, cleanup(c))
  BY DEF ReadFails, Reading, Owned, Goroutine
<1>3. cleanup(c) \in Seq(Ops)
  BY <1>1, OpsTyped DEF cleanup
<1>4. \A e : Holds(cleanup(c), e) <=>
        e \in {Unregister, Do("leave", owner[c]), Do("abandon", owner[c]), Close(c)}
  <2> DEFINE a == Unregister
             b == Do("leave", owner[c])
             d == Do("abandon", owner[c])
             f == Close(c)
  <2> HIDE DEF a, b, d, f
  <2>1. \A e : Holds(<<a, b, d, f>>, e) <=> e \in {a, b, d, f}
    BY DEF Holds
  <2> QED
    BY <2>1 DEF cleanup, a, b, d, f
<1>5. Head(cleanup(c)) = Unregister
  BY DEF cleanup
<1> QED
  BY <1>1, <1>3, <1>4, <1>5, Began

LEMMA JobTyped ==
  ASSUME TypeOK, Owned, Next
  PROVE  job' \in [Goroutine -> Seq(Ops)]
<1>1. ASSUME NEW c \in Socket, Alone(c) PROVE job' = job
  BY <1>1 DEF Alone, Ask, WriteFrame, WriteFails, WriterSeesDone
<1>2. ASSUME NEW c \in Socket, NEW p \in Player, handleWS(c, p)
      PROVE  job' \in [Goroutine -> Seq(Ops)]
  BY <1>2, RegisterShape DEF JobStep
<1>3. ASSUME NEW c \in Socket, ReadFails(c) PROVE job' \in [Goroutine -> Seq(Ops)]
  BY <1>3, CleanupShape DEF JobStep
<1>4. ASSUME NEW g \in Goroutine, NEW p \in Player, Command(g, p)
      PROVE  job' \in [Goroutine -> Seq(Ops)]
  BY <1>4, CommandShape DEF JobStep
<1>5. ASSUME NEW g \in Goroutine, Work(g) PROVE job' \in [Goroutine -> Seq(Ops)]
  BY <1>5, WorkShape DEF JobStep
<1> QED
  BY <1>1, <1>2, <1>3, <1>4, <1>5, NextCases DEF TypeOK

(* The players' side of the type: the hub, the queue and the matches.      *)
PlayersTyped ==
  /\ DOMAIN clients \subseteq Player
  /\ clients \in [DOMAIN clients -> Socket]
  /\ waiting \subseteq Player
  /\ seated \subseteq Matches!Table
  /\ opened \subseteq MatchId

(* The sockets' side: who they belong to and what their pumps do.          *)
SocketsTyped ==
  /\ owner \in [Socket -> Player \cup {NoOwner}]
  /\ phase \in [Socket -> {"unused", "open", "over"}]
  /\ pending \in [Socket -> 0 .. SendBuffer]
  /\ writer \in [Socket -> {"none", "pumping", "gone"}]
  /\ missed \subseteq Socket

FlagsTyped == done \in [Socket -> BOOLEAN] /\ came \subseteq Player /\ raced \subseteq Player

LEMMA TypeParts ==
  TypeOK <=> PlayersTyped /\ SocketsTyped /\ FlagsTyped /\ job \in [Goroutine -> Seq(Ops)]
BY DEF TypeOK, PlayersTyped, SocketsTyped, FlagsTyped

LEMMA PlayersTypedNext ==
  ASSUME TypeOK, Next
  PROVE  PlayersTyped'
<1>1. ASSUME NEW c \in Socket, NEW p \in Player, handleWS(c, p) PROVE PlayersTyped'
  <2> DEFINE D == DOMAIN clients \cup {p}
  <2>1. clients' = [q \in D |-> IF q = p THEN c ELSE clients[q]]
    BY <1>1 DEF handleWS, register
  <2>2. DOMAIN clients' = D /\ \A q \in D : clients'[q] \in Socket
    BY <2>1 DEF TypeOK
  <2>3. UNCHANGED <<waiting, seated, opened>>
    BY <1>1 DEF handleWS, matches
  <2> QED
    BY <2>1, <2>2, <2>3 DEF TypeOK, PlayersTyped
<1>2. ASSUME NEW c \in Socket, ReadFails(c) \/ Alone(c) PROVE PlayersTyped'
  BY <1>2 DEF TypeOK, PlayersTyped, ReadFails, Alone, Ask, WriteFrame, WriteFails,
              WriterSeesDone, hub, matches
<1>3. ASSUME NEW s \in seated, Matches!Close(s)
      PROVE  seated' \subseteq Matches!Table /\ opened' \subseteq MatchId
  BY <1>3 DEF Matches!Close, TypeOK
<1>4. ASSUME NEW g \in Goroutine, NEW p \in Player, Command(g, p) PROVE PlayersTyped'
  <2>1. clients' = clients /\ waiting' \subseteq waiting
    BY <1>4, CommandShape DEF Command, JoinCheck, Move, ResignCheck, Leave
  <2>2. UNCHANGED <<seated, opened>> \/ \E s \in seated : Matches!Close(s)
    BY <1>4 DEF Command, JoinCheck, Move, ResignCheck, Leave, matches
  <2> QED
    BY <1>3, <2>1, <2>2 DEF TypeOK, PlayersTyped
<1>5. ASSUME NEW g \in Goroutine, Work(g) PROVE PlayersTyped'
  <2>1. job[g] # <<>> /\ Head(job[g]) \in Ops
    BY <1>5, WorkShape, HeadTyped
  <2>2. DOMAIN clients' \subseteq DOMAIN clients /\ clients' \in [DOMAIN clients' -> Socket]
    <3>1. CASE clients' = clients
      BY <3>1 DEF TypeOK
    <3>2. CASE clients' = Restrict(clients, DOMAIN clients \ {owner[g]})
      BY <3>2 DEF TypeOK, Restrict
    <3> QED
      BY <1>5, <3>1, <3>2, WorkShape DEF unregister
  <2>3. waiting' \subseteq Player
    <3>1. CASE Enqueue(g)
      BY <2>1, <3>1, OpTyped DEF Enqueue, Doing, TypeOK
    <3>2. CASE waiting' \subseteq waiting
      BY <3>2 DEF TypeOK
    <3> QED
      BY <1>5, <3>1, <3>2 DEF Work, CloseClient, Start, Leave, Abandon, NotifyLookup, NotifyPush,
                              Reply, unregister
  <2>4. seated' \subseteq Matches!Table /\ opened' \subseteq MatchId
    <3>1. CASE Start(g)
      <4>1. Head(job[g]).x \in Player /\ Head(job[g]).o \in Player
        BY <2>1, <3>1, OpTyped DEF Start, Doing
      <4> QED
        BY <3>1, <4>1 DEF Start, matches, Matches!Open, Matches!Table, TypeOK
    <3>2. CASE Abandon(g)
      BY <1>3, <3>2 DEF Abandon, matches, TypeOK
    <3>3. CASE UNCHANGED matches
      BY <3>3 DEF matches, TypeOK
    <3> QED
      BY <1>5, <3>1, <3>2, <3>3 DEF Work, CloseClient, Enqueue, Leave, NotifyLookup, NotifyPush,
                                    Reply, unregister
  <2> QED
    BY <2>2, <2>3, <2>4 DEF TypeOK, PlayersTyped
<1> QED
  BY <1>1, <1>2, <1>4, <1>5, NextCases

LEMMA ClosedTyped ==
  ASSUME TypeOK, NEW c \in Socket, close(c)
  PROVE  /\ done' \in [Socket -> BOOLEAN]
         /\ pending' \in [Socket -> 0 .. SendBuffer]
         /\ missed' \subseteq Socket
BY SendBufferAssumption DEF TypeOK, close

LEMMA SocketsTypedNext ==
  ASSUME TypeOK, Owned, Next
  PROVE  SocketsTyped'
<1>1. SocketsTyped
  BY TypeParts
<1>2. ASSUME NEW c \in Socket, PushReply(c) PROVE pending' \in [Socket -> 0 .. SendBuffer]
  <2>1. Fits(c) => pending[c] + 1 \in 0 .. SendBuffer
    BY <1>1, SendBufferAssumption DEF SocketsTyped, Fits
  <2>2. pending' = [pending EXCEPT ![c] = pending[c] + 1] \/ pending' = pending
    BY <1>1, <1>2 DEF PushReply, SocketsTyped
  <2>3. ~Fits(c) => pending' = pending
    BY <1>1, <1>2 DEF PushReply, SocketsTyped
  <2> QED
    BY <1>1, <2>1, <2>2, <2>3 DEF SocketsTyped
<1>3. ASSUME NEW c \in Socket, NEW p \in Player, handleWS(c, p) PROVE SocketsTyped'
  BY <1>1, <1>3 DEF SocketsTyped, handleWS, history
<1>4. ASSUME NEW c \in Socket, ReadFails(c) PROVE SocketsTyped'
  BY <1>1, <1>4 DEF SocketsTyped, ReadFails, hub, pumps, history
<1>5. ASSUME NEW c \in Socket, Alone(c) PROVE SocketsTyped'
  <2>1. CASE Ask(c)
    BY <1>1, <1>2, <2>1 DEF SocketsTyped, Ask, hub, history
  <2>2. CASE WriteFrame(c)
    BY <1>1, <2>2, SendBufferAssumption DEF SocketsTyped, WriteFrame, hub, history
  <2>3. CASE WriteFails(c)
    BY <1>1, <2>3, ClosedTyped DEF SocketsTyped, WriteFails, hub
  <2>4. CASE WriterSeesDone(c)
    BY <1>1, <2>4 DEF SocketsTyped, WriterSeesDone, hub, history
  <2> QED
    BY <1>5, <2>1, <2>2, <2>3, <2>4 DEF Alone
<1>6. ASSUME NEW g \in Goroutine, NEW p \in Player, Command(g, p) PROVE SocketsTyped'
  BY <1>1, <1>6, CommandShape DEF SocketsTyped
<1>7. ASSUME NEW g \in Goroutine, Work(g) PROVE SocketsTyped'
  <2>1. job[g] # <<>> /\ Head(job[g]) \in Ops /\ UNCHANGED <<owner, phase>>
    BY <1>7, WorkShape, HeadTyped
  <2>2. CASE CloseClient(g)
    <3>1. Head(job[g]).who \in Socket
      BY <2>1, <2>2, OpTyped DEF CloseClient, Doing
    <3> QED
      BY <1>1, <2>1, <2>2, <3>1, ClosedTyped DEF SocketsTyped, CloseClient
  <2>3. CASE NotifyPush(g)
    <3> DEFINE c == Head(job[g]).who
    <3>1. c \in Socket
      BY <2>1, <2>3, OpTyped DEF NotifyPush, Doing
    <3>2. writer' = writer
      BY <2>3 DEF NotifyPush
    <3>3. missed' = missed \/ missed' = missed \cup {c}
      BY <2>3 DEF NotifyPush
    <3>4. pending' = pending \/ (Fits(c) /\ pending' = [pending EXCEPT ![c] = pending[c] + 1])
      BY <1>1, <2>3, <3>1 DEF NotifyPush, SocketsTyped
    <3>5. Fits(c) => pending[c] + 1 \in 0 .. SendBuffer
      BY <1>1, <3>1, SendBufferAssumption DEF SocketsTyped, Fits
    <3> HIDE DEF c
    <3> QED
      BY <1>1, <2>1, <3>1, <3>2, <3>3, <3>4, <3>5 DEF SocketsTyped
  <2>4. CASE g \in Socket /\ Reply(g)
    BY <1>1, <1>2, <2>1, <2>4 DEF SocketsTyped, Reply, history
  <2>5. CASE UNCHANGED <<pending, writer, missed>>
    BY <1>1, <2>1, <2>5 DEF SocketsTyped
  <2>6. CASE Enqueue(g) \/ Start(g) \/ (\E p \in Player : Leave(g, p)) \/ Abandon(g)
             \/ NotifyLookup(g) \/ unregister(g)
    BY <2>5, <2>6 DEF Enqueue, Start, Leave, Abandon, NotifyLookup, unregister, pumps, history
  <2> QED
    BY <1>7, <2>2, <2>3, <2>4, <2>6 DEF Work
<1> QED
  BY <1>3, <1>4, <1>5, <1>6, <1>7, NextCases

LEMMA FlagsTypedNext ==
  ASSUME TypeOK, Next
  PROVE  FlagsTyped'
<1>1. FlagsTyped
  BY TypeParts
<1>2. UNCHANGED <<done, came, raced>> => FlagsTyped'
  BY <1>1 DEF FlagsTyped
<1>3. ASSUME NEW c \in Socket, NEW p \in Player, handleWS(c, p) PROVE FlagsTyped'
  BY <1>2, <1>3 DEF handleWS, history
<1>4. ASSUME NEW c \in Socket, ReadFails(c) PROVE FlagsTyped'
  BY <1>2, <1>4 DEF ReadFails, pumps, history
<1>5. ASSUME NEW c \in Socket, Alone(c) PROVE FlagsTyped'
  <2>1. CASE WriteFails(c)
    BY <1>1, <2>1, ClosedTyped DEF FlagsTyped, WriteFails
  <2>2. CASE Ask(c) \/ WriteFrame(c) \/ WriterSeesDone(c)
    BY <1>2, <2>2 DEF Ask, WriteFrame, WriterSeesDone, history
  <2> QED
    BY <1>5, <2>1, <2>2 DEF Alone
<1>6. ASSUME NEW g \in Goroutine, NEW p \in Player, Command(g, p) PROVE FlagsTyped'
  BY <1>2, <1>6, CommandShape
<1>7. ASSUME NEW g \in Goroutine, Work(g) PROVE FlagsTyped'
  <2>1. CASE CloseClient(g)
    <3>1. Head(job[g]).who \in Socket
      BY <2>1, HeadTyped, OpTyped DEF CloseClient, Doing
    <3> QED
      BY <1>1, <2>1, <3>1, ClosedTyped DEF FlagsTyped, CloseClient
  <2>2. CASE Enqueue(g) \/ Abandon(g)
    <3>1. Head(job[g]).p \in Player
      BY <2>2, HeadTyped, OpTyped DEF Enqueue, Abandon, Doing
    <3>2. UNCHANGED done
      BY <2>2 DEF Enqueue, Abandon, pumps
    <3>3. came' \subseteq Player
      BY <1>1, <2>2, <3>1 DEF FlagsTyped, Enqueue, Abandon
    <3>4. raced' \subseteq Player
      BY <1>1, <2>2, <3>1 DEF FlagsTyped, Enqueue, Abandon
    <3> QED
      BY <1>1, <3>2, <3>3, <3>4 DEF FlagsTyped
  <2>3. CASE \E p \in Player : Leave(g, p)
    BY <1>1, <2>3 DEF FlagsTyped, Leave, pumps
  <2>4. CASE Start(g) \/ NotifyLookup(g) \/ NotifyPush(g) \/ Reply(g) \/ unregister(g)
    BY <1>2, <2>4 DEF Start, NotifyLookup, NotifyPush, Reply, unregister, pumps, history
  <2> QED
    BY <1>7, <2>1, <2>2, <2>3, <2>4 DEF Work
<1> QED
  BY <1>3, <1>4, <1>5, <1>6, <1>7, NextCases

LEMMA NotUnregister ==
  /\ \A c : Close(c) # Unregister
  /\ \A p : Notify(p) # Unregister
  /\ \A p : Do("queue", p) # Unregister /\ Do("abandon", p) # Unregister
  /\ Reply1 # Unregister /\ Unregister.op \notin ForOthers
BY DEF Close, Notify, Do, Reply1, Unregister, ForOthers

LEMMA OwnedNext ==
  ASSUME TypeOK, Owned, Next
  PROVE  Owned'
<1>1. \A c \in Socket : c \in Goroutine
  BY DEF Goroutine
<1>2. ASSUME NEW c \in Socket, NEW p \in Player, handleWS(c, p) PROVE Owned'
  <2>1. /\ phase[c] = "unused" /\ phase' = [phase EXCEPT ![c] = "open"]
        /\ owner' = [owner EXCEPT ![c] = p]
        /\ clients' = [q \in DOMAIN clients \cup {p} |-> IF q = p THEN c ELSE clients[q]]
    BY <1>2 DEF handleWS, register
  <2>2. PICK new : /\ JobStep(c, Reply1, new)
                   /\ \A e : Holds(new, e) => \E d \in Socket : e = Close(d)
    BY <1>2, RegisterShape
  <2>3. /\ phase'[c] = "open" /\ owner'[c] = p
        /\ \A d \in Socket : d # c => phase'[d] = phase[d] /\ owner'[d] = owner[d]
    BY <2>1 DEF TypeOK
  <2>4. \A d \in Socket : phase'[d] = "unused" => job'[d] = <<>> /\ owner'[d] \notin Player
    BY <1>1, <2>2, <2>3 DEF Owned, JobStep
  <2>5. \A d \in Socket : phase'[d] # "unused" => owner'[d] \in Player
    BY <2>3 DEF Owned
  <2>6. \A q \in DOMAIN clients' : owner'[clients'[q]] = q /\ phase'[clients'[q]] # "unused"
    BY <2>1, <2>3 DEF Owned, TypeOK
  <2>7. \A g \in Goroutine : Holds(job'[g], Unregister) => g \in Socket /\ phase'[g] = "over"
    <3>1. ~Holds(new, Unregister)
      BY <2>2, NotUnregister
    <3>2. \A g \in Goroutine : Holds(job'[g], Unregister) => Holds(job[g], Unregister)
      BY <2>2, <3>1 DEF JobStep
    <3> QED
      BY <2>1, <2>3, <3>2 DEF Owned
  <2> QED
    BY <2>4, <2>5, <2>6, <2>7 DEF Owned
<1>3. ASSUME NEW c \in Socket, ReadFails(c) PROVE Owned'
  <2>1. /\ phase[c] = "open" /\ phase' = [phase EXCEPT ![c] = "over"]
        /\ owner' = owner /\ clients' = clients
    BY <1>3 DEF ReadFails, Reading, hub
  <2>2. JobStep(c, Reply1, cleanup(c))
    BY <1>3, CleanupShape
  <2>3. phase'[c] = "over" /\ \A d \in Socket : d # c => phase'[d] = phase[d]
    BY <2>1 DEF TypeOK
  <2>4. \A d \in Socket : phase'[d] = "unused" => job'[d] = <<>> /\ owner'[d] \notin Player
    BY <1>1, <2>1, <2>2, <2>3 DEF Owned, JobStep
  <2>5. \A g \in Goroutine : Holds(job'[g], Unregister) => g \in Socket /\ phase'[g] = "over"
    BY <2>2, <2>3 DEF Owned, JobStep
  <2>6. \A d \in Socket : phase'[d] # "unused" => owner'[d] \in Player
    BY <2>1, <2>3 DEF Owned
  <2>7. \A q \in DOMAIN clients' : owner'[clients'[q]] = q /\ phase'[clients'[q]] # "unused"
    BY <2>1, <2>3 DEF Owned, TypeOK
  <2> QED
    BY <2>4, <2>5, <2>6, <2>7 DEF Owned
<1>4. ASSUME NEW c \in Socket, Alone(c) PROVE Owned'
  BY <1>4 DEF Owned, Alone, Ask, WriteFrame, WriteFails, WriterSeesDone, hub
<1>5. ASSUME NEW g \in Goroutine, NEW p \in Player, Command(g, p) PROVE Owned'
  <2>1. UNCHANGED <<clients, owner, phase>>
    BY <1>5, CommandShape
  <2>2. PICK new \in Seq(Ops) :
          (\A old : JobStep(g, old, new)) /\ \A e : Holds(new, e) => FromCommand(p, e)
    BY <1>5, CommandShape
  <2>3. ~Holds(new, Unregister)
    BY <2>2, NotUnregister DEF FromCommand
  <2>4. \A h \in Goroutine : Holds(job'[h], Unregister) => Holds(job[h], Unregister)
    BY <2>2, <2>3 DEF JobStep
  <2>5. g \in Socket => phase[g] # "unused"
    BY <1>5, GoroutinesDiffer DEF Command, Serves, Reading
  <2>6. \A d \in Socket : phase'[d] = "unused" => job'[d] = <<>> /\ owner'[d] \notin Player
    BY <1>1, <2>1, <2>2, <2>5 DEF Owned, JobStep
  <2> QED
    BY <2>1, <2>4, <2>6 DEF Owned
<1>6. ASSUME NEW g \in Goroutine, Work(g) PROVE Owned'
  <2>1. job[g] # <<>> /\ UNCHANGED <<owner, phase>>
    BY <1>6, WorkShape
  <2>2. PICK new : JobStep(g, Head(job[g]), new) /\ \A e : Holds(new, e) => FromWork(g, e)
    BY <1>6, WorkShape
  <2>3. ~Holds(new, Unregister)
    BY <2>2, NotUnregister DEF FromWork
  <2>4. \A h \in Goroutine : Holds(job'[h], Unregister) => Holds(job[h], Unregister)
    BY <2>2, <2>3 DEF JobStep
  <2>5. \A d \in Socket : phase'[d] = "unused" => job'[d] = <<>> /\ owner'[d] \notin Player
    BY <1>1, <2>1, <2>2 DEF Owned, JobStep
  <2>6. \A q \in DOMAIN clients' : q \in DOMAIN clients /\ clients'[q] = clients[q]
    BY <1>6, WorkShape DEF unregister, Restrict
  <2> QED
    BY <2>1, <2>4, <2>5, <2>6 DEF Owned
<1> QED
  BY <1>2, <1>3, <1>4, <1>5, <1>6, NextCases

LEMMA Nothing == Init => \A g \in Goroutine : job[g] = <<>> /\ \A e : ~Holds(job[g], e)
BY DEF Init, Holds

LEMMA SocketsInit == Init => TypeOK /\ Owned
<1> SUFFICES ASSUME Init PROVE TypeOK /\ Owned
  OBVIOUS
<1>1. SocketsTyped /\ PlayersTyped
  BY SendBufferAssumption DEF Init, Matches!Init, SocketsTyped, PlayersTyped
<1>2. FlagsTyped
  BY DEF Init, FlagsTyped
<1>3. job \in [Goroutine -> Seq(Ops)]
  BY DEF Init
<1>4. Owned
  BY Nothing, NoOwnerAssumption DEF Init, Owned, Goroutine
<1> QED
  BY <1>1, <1>2, <1>3, <1>4, TypeParts

LEMMA SocketsNext == TypeOK /\ Owned /\ [Next]_vars => TypeOK' /\ Owned'
<1> SUFFICES ASSUME TypeOK, Owned, [Next]_vars PROVE TypeOK' /\ Owned'
  OBVIOUS
<1>1. CASE UNCHANGED vars
  BY <1>1 DEF vars, hub, pumps, matches, history, TypeOK, Owned
<1>2. CASE Next
  <2>1. job' \in [Goroutine -> Seq(Ops)]
    BY <1>2, JobTyped
  <2>2. SocketsTyped' /\ PlayersTyped' /\ FlagsTyped'
    BY <1>2, SocketsTypedNext, PlayersTypedNext, FlagsTypedNext
  <2>3. TypeOK'
    BY <2>1, <2>2 DEF TypeOK, PlayersTyped, SocketsTyped, FlagsTyped
  <2> QED
    BY <1>2, <2>3, OwnedNext
<1> QED
  BY <1>1, <1>2

(* Sessions: no send channel is ever fuller than it is, and every job is   *)
(* made of things the code can be about to do.                             *)
THEOREM SessionsTyped == Spec => []TypeOK
BY SocketsInit, SocketsNext, PTL DEF Spec

----------------------------------------------------------------------------
(* The hub.                                                                *)

LEMMA Closes ==
  ASSUME TypeOK, NEW d \in Socket, close(d), NEW c \in Socket, ~done'[c]
  PROVE  ~done[c]
<1>1. done' = [done EXCEPT ![d] = TRUE]
  BY DEF close
<1>2. done'[c] = IF c = d THEN TRUE ELSE done[c]
  BY <1>1 DEF TypeOK
<1> QED
  BY <1>2

LEMMA ToCloseStays ==
  ASSUME NEW g \in Goroutine, NEW old, NEW new, JobStep(g, old, new),
         NEW c \in Socket, ToClose(c), old # Close(c)
  PROVE  ToClose(c)'
<1>1. PICK h \in Goroutine : Holds(job[h], Close(c))
  BY DEF ToClose, Holds
<1>2. Holds(job'[h], Close(c))
  BY <1>1 DEF JobStep
<1> QED
  BY <1>2 DEF ToClose, Holds

LEMMA ToCloseAdded ==
  ASSUME NEW g \in Goroutine, NEW old, NEW new, JobStep(g, old, new),
         NEW c \in Socket, Holds(new, Close(c))
  PROVE  ToClose(c)'
<1>1. Holds(job'[g], Close(c))
  BY DEF JobStep
<1> QED
  BY <1>1 DEF ToClose, Holds

LEMMA WorkKeepsClosing ==
  ASSUME TypeOK, NEW g \in Goroutine, Work(g), NEW c \in Socket, ToClose(c)
  PROVE  ToClose(c)' \/ (done'[c] /\ c \notin missed')
<1>1. CASE Head(job[g]) # Close(c)
  BY <1>1, WorkShape, ToCloseStays
<1>2. CASE Head(job[g]) = Close(c)
  <2>1. Head(job[g]).op = "close" /\ Head(job[g]).who = c
    BY <1>2 DEF Close
  <2>2. CloseClient(g)
    BY <2>1 DEF Work, CloseClient, Enqueue, Start, Abandon, NotifyLookup, NotifyPush,
                Reply, unregister, Doing
  <2>3. close(c)
    BY <2>1, <2>2 DEF CloseClient
  <2>4. done' = [done EXCEPT ![c] = TRUE] /\ c \notin missed'
    BY <2>3 DEF close
  <2>5. done'[c]
    BY <2>4 DEF TypeOK
  <2> QED
    BY <2>4, <2>5
<1> QED
  BY <1>1, <1>2

(* An event that does not fit leaves the session marked and the order to   *)
(* close it in the same step.                                              *)
LEMMA WorkMisses ==
  ASSUME TypeOK, NEW g \in Goroutine, Work(g), NEW c \in missed', c \notin missed
  PROVE  ToClose(c)'
<1>1. NotifyPush(g)
  BY DEF Work, CloseClient, Enqueue, Start, Leave, Abandon, NotifyLookup, Reply, unregister,
         history, close
<1>2. c = Head(job[g]).who /\ Instead(g, <<Close(c)>>) /\ job[g] # <<>>
  BY <1>1 DEF NotifyPush, Doing, Dropped
<1>3. c \in Socket
  BY <1>1, <1>2, HeadTyped, OpTyped DEF NotifyPush, Doing
<1>4. <<Close(c)>> \in Seq(Ops) /\ Holds(<<Close(c)>>, Close(c))
  BY <1>3, OpsTyped DEF Holds
<1>5. JobStep(g, Head(job[g]), <<Close(c)>>)
  BY <1>2, <1>4, Went
<1> QED
  BY <1>3, <1>4, <1>5, ToCloseAdded

LEMMA WorkDone ==
  ASSUME TypeOK, NEW g \in Goroutine, Work(g), NEW c \in Socket, ~done'[c]
  PROVE  ~done[c]
<1>1. CASE CloseClient(g)
  <2>1. Head(job[g]).who \in Socket
    BY <1>1, HeadTyped, OpTyped DEF CloseClient, Doing
  <2> QED
    BY <1>1, <2>1, Closes DEF CloseClient
<1>2. CASE ~CloseClient(g)
  BY <1>2 DEF Work, Enqueue, Start, Leave, Abandon, NotifyLookup, NotifyPush, Reply, unregister, pumps
<1> QED
  BY <1>1, <1>2

Hubs == HubFindsTheLive /\ HubHoldsNoGhost /\ MissedMeansClosed

(* A step that leaves the hub and the phases alone, adds to nothing but    *)
(* its own job and takes from it no promise to close or to unregister.     *)
LEMMA HubsUntouched ==
  ASSUME Hubs, UNCHANGED <<clients, owner, phase>>,
         \A c \in Socket : ~done'[c] => ~done[c],
         \A c \in Socket : ToClose(c) => ToClose(c)',
         \A c \in missed' : c \in missed,
         \A c \in Online : Doing(c, "unregister") => Doing(c, "unregister")',
         TypeOK
  PROVE  Hubs'
<1>1. HubFindsTheLive'
  BY DEF Hubs, HubFindsTheLive, current
<1>2. HubHoldsNoGhost'
  BY DEF Hubs, HubHoldsNoGhost, Online
<1>3. MissedMeansClosed'
  BY DEF Hubs, MissedMeansClosed, TypeOK
<1> QED
  BY <1>1, <1>2, <1>3 DEF Hubs

LEMMA HubsConnect ==
  ASSUME TypeOK, Owned, Hubs, NEW c \in Socket, NEW p \in Player, handleWS(c, p)
  PROVE  Hubs'
<1>1. /\ phase[c] = "unused" /\ phase' = [phase EXCEPT ![c] = "open"]
      /\ owner' = [owner EXCEPT ![c] = p]
      /\ clients' = [q \in DOMAIN clients \cup {p} |-> IF q = p THEN c ELSE clients[q]]
      /\ done' = done /\ missed' = missed
  BY DEF handleWS, register, history
<1>2. PICK new \in Seq(Ops) :
        /\ \A old : JobStep(c, old, new)
        /\ p \in DOMAIN clients => Holds(new, Close(clients[p]))
  BY RegisterShape
<1>3. c \in Goroutine /\ job[c] = <<>>
  BY <1>1 DEF Goroutine, Owned
<1>4. /\ phase'[c] = "open" /\ owner'[c] = p
      /\ \A d \in Socket : d # c => phase'[d] = phase[d] /\ owner'[d] = owner[d]
  BY <1>1 DEF TypeOK
<1>5. \A d \in Socket : ToClose(d) => ToClose(d)'
  <2>1. JobStep(c, Reply1, new) /\ \A d \in Socket : Close(d) # Reply1
    BY <1>2 DEF Close, Reply1
  <2> QED
    BY <1>3, <2>1, ToCloseStays
<1>6. HubFindsTheLive'
  <2> SUFFICES ASSUME NEW d \in Socket, phase'[d] = "open", ~done'[d]
               PROVE  current(d)' \/ ToClose(d)'
    BY DEF HubFindsTheLive
  <2>1. CASE d = c
    BY <1>1, <1>4, <2>1 DEF current
  <2>2. CASE d # c
    <3>1. current(d) \/ ToClose(d)
      BY <1>1, <1>4, <2>2 DEF Hubs, HubFindsTheLive
    <3>2. CASE current(d) /\ owner[d] = p
      <4>1. Holds(new, Close(d))
        BY <1>2, <3>2 DEF current
      <4> QED
        BY <1>2, <1>3, <4>1, ToCloseAdded
    <3>3. CASE current(d) /\ owner[d] # p
      BY <1>1, <1>4, <2>2, <3>3 DEF current
    <3> QED
      BY <1>5, <3>1, <3>2, <3>3
  <2> QED
    BY <2>1, <2>2
<1>7. HubHoldsNoGhost'
  <2> SUFFICES ASSUME NEW d \in Online', phase'[d] = "over" PROVE Doing(d, "unregister")'
    BY DEF HubHoldsNoGhost
  <2>1. d \in Online /\ d # c /\ d \in Socket
    <3>1. d # c
      BY <1>4
    <3>2. PICK q \in DOMAIN clients' : d = clients'[q]
      BY DEF Online
    <3>3. q \in DOMAIN clients /\ d = clients[q]
      BY <1>1, <3>1, <3>2
    <3> QED
      BY <3>1, <3>3 DEF Online, TypeOK
  <2>2. Doing(d, "unregister") /\ d \in Goroutine
    BY <1>4, <2>1 DEF Hubs, HubHoldsNoGhost, Goroutine
  <2>3. job'[d] = job[d]
    BY <1>2, <2>1, <2>2 DEF JobStep
  <2> QED
    BY <2>2, <2>3 DEF Doing
<1>8. MissedMeansClosed'
  BY <1>1, <1>5 DEF Hubs, MissedMeansClosed, TypeOK
<1> QED
  BY <1>6, <1>7, <1>8 DEF Hubs

LEMMA HubsReadFails ==
  ASSUME TypeOK, Owned, Hubs, NEW c \in Socket, ReadFails(c)
  PROVE  Hubs'
<1>1. /\ phase' = [phase EXCEPT ![c] = "over"] /\ clients' = clients /\ owner' = owner
      /\ done' = done /\ missed' = missed
  BY DEF ReadFails, hub, pumps, history
<1>2. JobStep(c, Reply1, cleanup(c)) /\ job'[c] = cleanup(c) /\ c \in Goroutine
  BY CleanupShape DEF Goroutine
<1>3. \A d \in Socket : ToClose(d) => ToClose(d)'
  <2>1. \A d \in Socket : Close(d) # Reply1
    BY DEF Close, Reply1
  <2> QED
    BY <1>2, <2>1, ToCloseStays
<1>4. phase'[c] = "over" /\ \A d \in Socket : d # c => phase'[d] = phase[d]
  BY <1>1 DEF TypeOK
<1>5. HubFindsTheLive'
  BY <1>1, <1>3, <1>4 DEF Hubs, HubFindsTheLive, current
<1>6. Doing(c, "unregister")'
  BY <1>2 DEF Doing, cleanup, Unregister
<1>7. HubHoldsNoGhost'
  <2> SUFFICES ASSUME NEW d \in Online', phase'[d] = "over", d # c
               PROVE  Doing(d, "unregister")'
    BY <1>6 DEF HubHoldsNoGhost
  <2>1. d \in Online /\ d \in Socket
    BY <1>1 DEF Online, TypeOK
  <2>2. Doing(d, "unregister") /\ job'[d] = job[d]
    BY <1>2, <1>4, <2>1 DEF Hubs, HubHoldsNoGhost, JobStep, Goroutine
  <2> QED
    BY <2>2 DEF Doing
<1>8. MissedMeansClosed'
  BY <1>1, <1>3 DEF Hubs, MissedMeansClosed, TypeOK
<1> QED
  BY <1>5, <1>7, <1>8 DEF Hubs

LEMMA HubsAlone ==
  ASSUME TypeOK, Hubs, NEW c \in Socket, Alone(c)
  PROVE  Hubs'
<1>1. UNCHANGED <<clients, owner, phase, job>>
  BY DEF Alone, Ask, WriteFrame, WriteFails, WriterSeesDone, hub
<1>2. \A d \in Socket : ~done'[d] => ~done[d]
  <2>1. CASE WriteFails(c)
    BY <2>1, Closes DEF WriteFails
  <2>2. CASE ~WriteFails(c)
    BY <2>2 DEF Alone, Ask, WriteFrame, WriterSeesDone
  <2> QED
    BY <2>1, <2>2
<1>3. \A d \in missed' : d \in missed
  BY DEF Alone, Ask, WriteFrame, WriteFails, WriterSeesDone, history, close
<1>4. \A d \in Socket : ToClose(d) => ToClose(d)'
  BY <1>1 DEF ToClose
<1>5. \A d \in Online : Doing(d, "unregister") => Doing(d, "unregister")'
  BY <1>1 DEF Doing
<1> QED
  BY <1>1, <1>2, <1>3, <1>4, <1>5, HubsUntouched

LEMMA HubsCommand ==
  ASSUME TypeOK, Hubs, NEW g \in Goroutine, NEW p \in Player, Command(g, p)
  PROVE  Hubs'
<1>1. UNCHANGED <<clients, owner, phase, done, missed>>
  BY CommandShape
<1>2. PICK new \in Seq(Ops) : \A old : JobStep(g, old, new)
  BY CommandShape
<1>3. JobStep(g, Reply1, new) /\ \A d \in Socket : Close(d) # Reply1
  BY <1>2 DEF Close, Reply1
<1>4. \A d \in Socket : ToClose(d) => ToClose(d)'
  BY <1>3, ToCloseStays
<1>5. job[g] = <<>>
  BY ServesIdle DEF Command
<1>6. \A d \in Online : Doing(d, "unregister") => Doing(d, "unregister")'
  BY <1>3, <1>5 DEF Doing, JobStep, Online, TypeOK, Goroutine
<1> QED
  BY <1>1, <1>4, <1>6, HubsUntouched

LEMMA HubsWork ==
  ASSUME TypeOK, Owned, Hubs, NEW g \in Goroutine, Work(g)
  PROVE  Hubs'
<1>1. job[g] # <<>> /\ UNCHANGED <<owner, phase>>
  BY WorkShape
<1>2. PICK new \in Seq(Ops) : JobStep(g, Head(job[g]), new)
  BY WorkShape
<1>3. clients' = clients \/ (g \in Socket /\ unregister(g))
  BY WorkShape
<1>4. CASE g \in Socket /\ unregister(g)
  <2>1. Holds(job[g], Unregister)
    BY <1>1, <1>4, HeadTyped, OpTyped, HeadOrTail DEF unregister, Doing
  <2>2. phase[g] = "over"
    BY <2>1 DEF Owned
  <2>3. clients' = clients \/ (current(g) /\ clients' = Restrict(clients, DOMAIN clients \ {owner[g]}))
    BY <1>4 DEF unregister
  <2>4. \A q \in DOMAIN clients' : q \in DOMAIN clients /\ clients'[q] = clients[q]
    BY <2>3 DEF Restrict
  <2>5. \A c \in Socket : c # g /\ current(c) => current(c)'
    BY <1>1, <2>3 DEF current, Restrict
  <2>6. \A q \in DOMAIN clients' : clients'[q] # g
    BY <2>3, <2>4, <1>4 DEF Owned, Restrict, current, unregister
  <2>7. HubFindsTheLive'
    <3> SUFFICES ASSUME NEW c \in Socket, phase'[c] = "open", ~done'[c]
                 PROVE  current(c)' \/ ToClose(c)'
      BY DEF HubFindsTheLive
    <3>1. ~done[c] /\ (current(c) \/ ToClose(c))
      BY <1>1, WorkDone DEF Hubs, HubFindsTheLive
    <3> QED
      BY <1>1, <2>2, <2>5, <3>1, WorkKeepsClosing
  <2>8. HubHoldsNoGhost'
    <3> SUFFICES ASSUME NEW c \in Online', phase'[c] = "over" PROVE Doing(c, "unregister")'
      BY DEF HubHoldsNoGhost
    <3>1. c \in Online /\ c # g /\ c \in Goroutine
      BY <2>4, <2>6 DEF Online, TypeOK, Goroutine
    <3>2. Doing(c, "unregister") /\ job'[c] = job[c]
      BY <1>1, <1>2, <3>1 DEF Hubs, HubHoldsNoGhost, JobStep
    <3> QED
      BY <3>2 DEF Doing
  <2> QED
    BY <2>7, <2>8, WorkKeepsClosing, WorkMisses DEF Hubs, MissedMeansClosed, TypeOK
<1>5. CASE clients' = clients /\ ~(g \in Socket /\ unregister(g))
  <2>1. HubFindsTheLive'
    <3> SUFFICES ASSUME NEW c \in Socket, phase'[c] = "open", ~done'[c]
                 PROVE  current(c)' \/ ToClose(c)'
      BY DEF HubFindsTheLive
    <3>1. ~done[c] /\ (current(c) \/ ToClose(c))
      BY <1>1, WorkDone DEF Hubs, HubFindsTheLive
    <3>2. current(c) => current(c)'
      BY <1>1, <1>5 DEF current
    <3> QED
      BY <3>1, <3>2, WorkKeepsClosing
  <2>2. HubHoldsNoGhost'
    <3> SUFFICES ASSUME NEW c \in Online', phase'[c] = "over" PROVE Doing(c, "unregister")'
      BY DEF HubHoldsNoGhost
    <3>1. c \in Online /\ c \in Goroutine /\ Doing(c, "unregister")
      BY <1>1, <1>5 DEF Online, TypeOK, Goroutine, Hubs, HubHoldsNoGhost
    <3>2. c # g
      BY <1>5, <3>1, WorkShape
    <3>3. job'[c] = job[c]
      BY <1>2, <3>1, <3>2 DEF JobStep
    <3> QED
      BY <3>1, <3>3 DEF Doing
  <2> QED
    BY <2>1, <2>2, WorkKeepsClosing, WorkMisses DEF Hubs, MissedMeansClosed, TypeOK
<1> QED
  BY <1>3, <1>4, <1>5

LEMMA HubsInit == Init => Hubs
BY DEF Init, Hubs, HubFindsTheLive, HubHoldsNoGhost, MissedMeansClosed, Online

LEMMA HubsNext == TypeOK /\ Owned /\ Hubs /\ [Next]_vars => Hubs'
<1> SUFFICES ASSUME TypeOK, Owned, Hubs, [Next]_vars PROVE Hubs'
  OBVIOUS
<1>1. CASE UNCHANGED vars
  BY <1>1 DEF vars, hub, pumps, history, Hubs, HubFindsTheLive, HubHoldsNoGhost, MissedMeansClosed,
              Online, current, ToClose, Doing
<1> QED
  BY <1>1, HubsConnect, HubsReadFails, HubsAlone, HubsCommand, HubsWork, NextCases

(* Sessions: events find the session a player is on, however connects,     *)
(* replacements and late disconnects interleave.                           *)
THEOREM LiveFound == Spec => []HubFindsTheLive
<1>1. Hubs => HubFindsTheLive
  BY DEF Hubs
<1> QED
  BY <1>1, SocketsInit, SocketsNext, HubsInit, HubsNext, PTL DEF Spec

(* Sessions: the hub keeps no session whose reader has finished.           *)
THEOREM NoGhosts == Spec => []HubHoldsNoGhost
<1>1. Hubs => HubHoldsNoGhost
  BY DEF Hubs
<1> QED
  BY <1>1, SocketsInit, SocketsNext, HubsInit, HubsNext, PTL DEF Spec

(* Sessions: a session an event did not fit in is about to be closed.      *)
THEOREM MissedClosed == Spec => []MissedMeansClosed
<1>1. Hubs => MissedMeansClosed
  BY DEF Hubs
<1> QED
  BY <1>1, SocketsInit, SocketsNext, HubsInit, HubsNext, PTL DEF Spec

----------------------------------------------------------------------------
(* Who quits leaves nothing.                                               *)

(* What sockets do, they do for their own players, and queue them only     *)
(* while they are read; requests do it for anybody.  Only a cleanup leaves *)
(* the queue in a step of its own, and it has the match to abandon after.  *)
Errands ==
  \A g \in Goroutine, p \in Player :
    /\ Holds(job[g], Do("queue", p)) =>
         g \in Request \/ (g \in Socket /\ owner[g] = p /\ phase[g] = "open")
    /\ Holds(job[g], Do("abandon", p)) => g \in Request \/ (g \in Socket /\ owner[g] = p)
    /\ Holds(job[g], Do("leave", p)) =>
         g \in Socket /\ owner[g] = p /\ job[g] \in {cleanup(g), Tail(cleanup(g))}

LEMMA DoIsDo ==
  /\ \A op, p, op2, p2 : Do(op, p) = Do(op2, p2) => op = op2 /\ p = p2
  /\ \A op, p : Do(op, p).op = op /\ Do(op, p).p = p
  /\ \A op, p, c : Do(op, p) # Close(c)
  /\ \A op, p, q : Do(op, p) # Notify(q)
  /\ \A op, p : Do(op, p) # Reply1 /\ Do(op, p) # Unregister
BY DEF Do, Close, Notify, Reply1, Unregister

LEMMA NothingHeld == \A e : ~Holds(<<>>, e)
BY DEF Holds

LEMMA CleanupParts ==
  ASSUME NEW c
  PROVE  LET later == Tail(cleanup(c)) IN
         /\ cleanup(c) # <<>> /\ Head(cleanup(c)).op = "unregister"
         /\ later # <<>> /\ Head(later).op = "leave"
         /\ \A p : ~Holds(Tail(later), Do("leave", p))
         /\ Holds(later, Do("abandon", owner[c])) /\ Holds(cleanup(c), Do("abandon", owner[c]))
<1> DEFINE a == Do("leave", owner[c])
           b == Do("abandon", owner[c])
           d == Close(c)
           later == Tail(cleanup(c))
<1>1. /\ cleanup(c) = <<Unregister, a, b, d>>
      /\ later = <<a, b, d>> /\ Tail(later) = <<b, d>>
  BY DEF cleanup
<1>2. /\ Unregister.op = "unregister" /\ a.op = "leave"
      /\ \A p : b # Do("leave", p) /\ d # Do("leave", p)
  BY DoIsDo DEF Unregister
<1> HIDE DEF a, b, d, later
<1>3. Holds(<<Unregister, a, b, d>>, b) /\ Holds(<<a, b, d>>, b)
  <2>1. /\ 3 \in DOMAIN <<Unregister, a, b, d>> /\ <<Unregister, a, b, d>>[3] = b
        /\ 2 \in DOMAIN <<a, b, d>> /\ <<a, b, d>>[2] = b
    OBVIOUS
  <2> QED
    BY <2>1 DEF Holds
<1>4. \A p : ~Holds(<<b, d>>, Do("leave", p))
  BY <1>2 DEF Holds
<1>5. /\ cleanup(c) # <<>> /\ Head(cleanup(c)) = Unregister /\ later # <<>> /\ Head(later) = a
  BY <1>1
<1> QED
  BY <1>1, <1>2, <1>3, <1>4, <1>5 DEF later, b

LEMMA ErrandsConnect ==
  ASSUME TypeOK, Owned, Errands, NEW c \in Socket, NEW q \in Player, handleWS(c, q)
  PROVE  Errands'
<1>1. /\ phase[c] = "unused" /\ phase' = [phase EXCEPT ![c] = "open"]
      /\ owner' = [owner EXCEPT ![c] = q] /\ job[c] = <<>>
  BY DEF handleWS, Owned
<1>2. PICK new \in Seq(Ops) :
        /\ \A old : JobStep(c, old, new)
        /\ \A e : Holds(new, e) => \E d \in Socket : e = Close(d)
  BY RegisterShape
<1>3. JobStep(c, Reply1, new) /\ \A op, p : ~Holds(new, Do(op, p))
  BY <1>2, DoIsDo
<1>4. \A op, p : ~Holds(job'[c], Do(op, p))
  BY <1>1, <1>3, NothingHeld DEF JobStep
<1>5. ASSUME NEW g \in Goroutine, g # c
      PROVE  /\ job'[g] = job[g]
             /\ g \in Socket => owner'[g] = owner[g] /\ phase'[g] = phase[g] /\ cleanup(g)' = cleanup(g)
  <2>1. job'[g] = job[g]
    BY <1>3, <1>5 DEF JobStep
  <2>2. g \in Socket => owner'[g] = owner[g] /\ phase'[g] = phase[g]
    BY <1>1, <1>5 DEF TypeOK
  <2> QED
    BY <2>1, <2>2 DEF cleanup
<1>6. ASSUME NEW g \in Goroutine, NEW p \in Player, g # c
      PROVE  /\ Holds(job'[g], Do("queue", p)) =>
                  g \in Request \/ (g \in Socket /\ owner'[g] = p /\ phase'[g] = "open")
             /\ Holds(job'[g], Do("abandon", p)) =>
                  g \in Request \/ (g \in Socket /\ owner'[g] = p)
             /\ Holds(job'[g], Do("leave", p)) =>
                  g \in Socket /\ owner'[g] = p /\ job'[g] \in {cleanup(g)', Tail(cleanup(g)')}
  BY <1>5, <1>6 DEF Errands
<1> QED
  BY <1>4, <1>6 DEF Errands

LEMMA ErrandsReadFails ==
  ASSUME TypeOK, Owned, Errands, NEW c \in Socket, ReadFails(c)
  PROVE  Errands'
<1>1. phase' = [phase EXCEPT ![c] = "over"] /\ owner' = owner
  BY DEF ReadFails, hub
<1>2. /\ JobStep(c, Reply1, cleanup(c)) /\ job'[c] = cleanup(c)
      /\ \A e : Holds(cleanup(c), e) <=>
           e \in {Unregister, Do("leave", owner[c]), Do("abandon", owner[c]), Close(c)}
  BY CleanupShape
<1>3. \A g : cleanup(g)' = cleanup(g)
  BY <1>1 DEF cleanup
<1>4. /\ \A p : ~Holds(job'[c], Do("queue", p))
      /\ \A p : Holds(job'[c], Do("abandon", p)) \/ Holds(job'[c], Do("leave", p)) => p = owner[c]
  BY <1>2, DoIsDo
<1>5. \A g \in Goroutine : g # c => job'[g] = job[g] /\ (g \in Socket => phase'[g] = phase[g])
  BY <1>1, <1>2 DEF JobStep, TypeOK
<1> QED
  BY <1>1, <1>2, <1>3, <1>4, <1>5 DEF Errands

LEMMA ErrandsCommand ==
  ASSUME TypeOK, Owned, Errands, NEW g \in Goroutine, NEW q \in Player, Command(g, q)
  PROVE  Errands'
<1>1. UNCHANGED <<owner, phase>> /\ job[g] = <<>> /\ Serves(g, q)
  BY CommandShape, ServesIdle DEF Command
<1>2. PICK new \in Seq(Ops) :
        (\A old : JobStep(g, old, new)) /\ \A e : Holds(new, e) => FromCommand(q, e)
  BY CommandShape
<1>3. JobStep(g, Reply1, new)
  BY <1>2
<1>4. /\ \A p : ~Holds(new, Do("leave", p))
      /\ \A p : Holds(new, Do("queue", p)) \/ Holds(new, Do("abandon", p)) => p = q
  BY <1>2, DoIsDo DEF FromCommand
<1>5. /\ \A p : ~Holds(job'[g], Do("leave", p))
      /\ \A p : Holds(job'[g], Do("queue", p)) \/ Holds(job'[g], Do("abandon", p)) => p = q
  BY <1>1, <1>3, <1>4, NothingHeld DEF JobStep
<1>6. g \in Request \/ (g \in Socket /\ owner[g] = q /\ phase[g] = "open")
  BY <1>1 DEF Serves, Reading
<1>7. \A h \in Goroutine : h # g => job'[h] = job[h]
  BY <1>3 DEF JobStep
<1>8. \A h : cleanup(h)' = cleanup(h)
  BY <1>1 DEF cleanup
<1>9. ASSUME NEW p \in Player
      PROVE  /\ Holds(job'[g], Do("queue", p)) =>
                  g \in Request \/ (g \in Socket /\ owner[g] = p /\ phase[g] = "open")
             /\ Holds(job'[g], Do("abandon", p)) =>
                  g \in Request \/ (g \in Socket /\ owner[g] = p)
             /\ ~Holds(job'[g], Do("leave", p))
  BY <1>5, <1>6
<1> QED
  BY <1>1, <1>7, <1>8, <1>9 DEF Errands

LEMMA ErrandsWork ==
  ASSUME TypeOK, Owned, Errands, NEW g \in Goroutine, Work(g)
  PROVE  Errands'
<1>1. UNCHANGED <<owner, phase>> /\ job[g] # <<>>
  BY WorkShape
<1>2. PICK new \in Seq(Ops) : JobStep(g, Head(job[g]), new) /\ \A e : Holds(new, e) => FromWork(g, e)
  BY WorkShape
<1>3. \A op \in {"queue", "leave", "abandon"} : \A p : ~Holds(new, Do(op, p))
  BY <1>2, DoIsDo DEF FromWork, ForOthers
<1>4. \A op \in {"queue", "leave", "abandon"} : \A p :
        Holds(job'[g], Do(op, p)) => Holds(job[g], Do(op, p))
  BY <1>2, <1>3 DEF JobStep
<1>5. \A h \in Goroutine : h # g => job'[h] = job[h]
  BY <1>2 DEF JobStep
<1>6. \A h : cleanup(h)' = cleanup(h)
  BY <1>1 DEF cleanup
<1>7. ASSUME NEW p \in Player, Holds(job'[g], Do("leave", p))
      PROVE  job'[g] = Tail(cleanup(g))
  <2>1. job[g] \in {cleanup(g), Tail(cleanup(g))}
    BY <1>4, <1>7 DEF Errands
  <2>2. job'[g] = Tail(job[g])
    BY <2>1, CleanupParts, WorkShape
  <2> QED
    BY <1>7, <2>1, <2>2, CleanupParts
<1>8. ASSUME NEW p \in Player
      PROVE  /\ Holds(job'[g], Do("queue", p)) =>
                  g \in Request \/ (g \in Socket /\ owner[g] = p /\ phase[g] = "open")
             /\ Holds(job'[g], Do("abandon", p)) =>
                  g \in Request \/ (g \in Socket /\ owner[g] = p)
             /\ Holds(job'[g], Do("leave", p)) =>
                  g \in Socket /\ owner[g] = p /\ job'[g] \in {cleanup(g), Tail(cleanup(g))}
  BY <1>4, <1>7 DEF Errands
<1> QED
  BY <1>1, <1>5, <1>6, <1>8 DEF Errands

LEMMA ErrandsNext == TypeOK /\ Owned /\ Errands /\ [Next]_vars => Errands'
<1> SUFFICES ASSUME TypeOK, Owned, Errands, [Next]_vars PROVE Errands'
  OBVIOUS
<1>1. CASE UNCHANGED <<owner, phase, job>>
  BY <1>1 DEF Errands, cleanup
<1>2. UNCHANGED vars \/ (\E c \in Socket : Alone(c)) => UNCHANGED <<owner, phase, job>>
  BY DEF vars, hub, Alone, Ask, WriteFrame, WriteFails, WriterSeesDone
<1> QED
  BY <1>1, <1>2, ErrandsConnect, ErrandsReadFails, ErrandsCommand, ErrandsWork, NextCases

LEMMA InMatchIs == \A p : InMatch(p) <=> \E s \in seated : p \in {s.x, s.o}
BY DEF InMatch, Matches!SeatedPlayers

(* What a step of a call or a command does to the matches and the queue.   *)
LEMMA SeatsOfWork ==
  ASSUME Matches!OneTableEach, NEW g \in Goroutine, Work(g)
  PROVE  /\ Matches!OneTableEach'
         /\ \A p : InMatch(p)' =>
              \/ InMatch(p) /\ ~(Abandon(g) /\ p = Head(job[g]).p)
              \/ Start(g) /\ p \in {Head(job[g]).x, Head(job[g]).o}
<1> DEFINE j == Head(job[g])
<1>1. CASE Start(g)
  <2>1. UNCHANGED seated \/ \E id \in MatchId : Matches!Open(id, j.x, j.o)
    BY <1>1 DEF Start, matches
  <2>2. ASSUME NEW id \in MatchId, Matches!Open(id, j.x, j.o)
        PROVE  /\ Matches!OneTableEach'
               /\ \A p : InMatch(p)' => InMatch(p) \/ p \in {j.x, j.o}
    <3> DEFINE s == [id |-> id, x |-> j.x, o |-> j.o]
    <3>1. /\ seated' = seated \cup {s} /\ s.x # s.o /\ s.x = j.x /\ s.o = j.o
          /\ \A r \in seated : {s.x, s.o} \cap {r.x, r.o} = {}
      BY <2>2 DEF Matches!Open, Matches!SeatedPlayers
    <3> HIDE DEF s
    <3> QED
      BY <3>1 DEF Matches!OneTableEach, InMatch, Matches!SeatedPlayers
  <2>3. ~Abandon(g)
    BY <1>1 DEF Start, Abandon, Doing
  <2> QED
    BY <1>1, <2>1, <2>2, <2>3 DEF Matches!OneTableEach, InMatch, Matches!SeatedPlayers
<1>2. CASE Abandon(g)
  <2>1. CASE \E s \in seated : j.p \in {s.x, s.o} /\ Matches!Close(s)
    <3>1. PICK s \in seated : j.p \in {s.x, s.o} /\ seated' = seated \ {s}
      BY <2>1 DEF Matches!Close
    <3>2. PICK q : q = j.p
      OBVIOUS
    <3>3. Matches!OneTableEach'
      BY <3>1 DEF Matches!OneTableEach
    <3>4. ASSUME NEW r \in seated', q \in {r.x, r.o} PROVE FALSE
      <4>1. q \in {s.x, s.o} \cap {r.x, r.o} /\ r \in seated /\ r # s
        BY <3>1, <3>2, <3>4
      <4> QED
        BY <4>1 DEF Matches!OneTableEach
    <3>5. \A p : InMatch(p)' => InMatch(p) /\ p # q
      BY <3>1, <3>4 DEF InMatch, Matches!SeatedPlayers
    <3> QED
      BY <3>2, <3>3, <3>5
  <2>2. CASE ~InMatch(j.p) /\ UNCHANGED matches
    BY <2>2 DEF matches, Matches!OneTableEach, InMatch, Matches!SeatedPlayers
  <2> QED
    BY <1>2, <2>1, <2>2 DEF Abandon
<1>3. CASE ~Start(g) /\ ~Abandon(g)
  <2>1. seated' = seated
    BY <1>3 DEF Work, CloseClient, Enqueue, Leave, NotifyLookup, NotifyPush, Reply, unregister, matches
  <2> QED
    BY <1>3, <2>1 DEF Matches!OneTableEach, InMatch, Matches!SeatedPlayers
<1> QED
  BY <1>1, <1>2, <1>3

LEMMA SeatsOfOthers ==
  ASSUME Matches!OneTableEach,
         \/ \E c \in Socket, p \in Player : handleWS(c, p)
         \/ \E c \in Socket : ReadFails(c) \/ Alone(c)
         \/ \E g \in Goroutine, p \in Player : Command(g, p)
         \/ UNCHANGED vars
  PROVE  Matches!OneTableEach' /\ \A p : InMatch(p)' => InMatch(p)
<1>1. UNCHANGED seated \/ \E s \in seated : Matches!Close(s)
  BY DEF handleWS, ReadFails, Alone, Ask, WriteFrame, WriteFails, WriterSeesDone, Command,
         JoinCheck, Move, ResignCheck, Leave, vars, matches
<1>2. seated' \subseteq seated
  BY <1>1 DEF Matches!Close
<1> QED
  BY <1>2 DEF Matches!OneTableEach, InMatch, Matches!SeatedPlayers

LEMMA SeatingKept ==
  ASSUME NEW g \in Goroutine, NEW old, NEW new, JobStep(g, old, new),
         \A e : Holds(new, e) => e.op # "start",
         NEW p, BeingSeated(p)'
  PROVE  BeingSeated(p)
<1>1. PICK h \in Goroutine : \E i \in DOMAIN job'[h] :
        job'[h][i].op = "start" /\ p \in {job'[h][i].x, job'[h][i].o}
  BY DEF BeingSeated
<1>2. PICK e : Holds(job'[h], e) /\ e.op = "start" /\ p \in {e.x, e.o}
  BY <1>1 DEF Holds
<1>3. Holds(job[h], e)
  BY <1>2 DEF JobStep
<1> QED
  BY <1>2, <1>3 DEF BeingSeated, Holds

(* A pairing seats the player it has just queued and one who waited.       *)
LEMMA SeatingOfWork ==
  ASSUME TypeOK, NEW g \in Goroutine, Work(g), NEW p, BeingSeated(p)'
  PROVE  BeingSeated(p) \/ (Enqueue(g) /\ (p = Head(job[g]).p \/ p \in waiting))
<1>1. PICK new \in Seq(Ops) : JobStep(g, Head(job[g]), new) /\ \A e : Holds(new, e) => FromWork(g, e)
  BY WorkShape
<1>2. CASE \A e : Holds(new, e) => e.op # "start"
  BY <1>1, <1>2, SeatingKept
<1>3. PICK h \in Goroutine : \E i \in DOMAIN job'[h] :
        job'[h][i].op = "start" /\ p \in {job'[h][i].x, job'[h][i].o}
  BY DEF BeingSeated
<1>4. PICK e : Holds(job'[h], e) /\ e.op = "start" /\ p \in {e.x, e.o}
  BY <1>3 DEF Holds
<1>5. Holds(job[h], e) \/ Holds(new, e)
  BY <1>1, <1>4 DEF JobStep
<1>6. CASE Holds(job[h], e)
  BY <1>4, <1>6 DEF BeingSeated, Holds
<1>7. CASE Holds(new, e)
  <2>1. Enqueue(g) /\ \E x \in waiting : e = Seat(x, Head(job[g]).p)
    BY <1>1, <1>4, <1>7 DEF FromWork
  <2>2. \A x, o : Seat(x, o).x = x /\ Seat(x, o).o = o
    BY DEF Seat
  <2> QED
    BY <1>4, <2>1, <2>2
<1> QED
  BY <1>5, <1>6, <1>7

(* One of the player's sockets is still read, or has yet to do this.       *)
Present(p, op) ==
  \E c \in Socket : owner[c] = p /\ (phase[c] = "open" \/ Holds(job[c], Do(op, p)))

HasSocket(p) == \E c \in Socket : owner[c] = p

(* A player in the queue or in a match has a cleanup coming that will take *)
(* them out, unless a request came, or a seating was under way, too late   *)
(* for the last one.                                                       *)
Placed(p) ==
  /\ p \in waiting => Present(p, "leave") \/ p \in came
  /\ InMatch(p) \/ BeingSeated(p) => Present(p, "abandon") \/ p \in came \/ p \in raced

Places == \A p \in Player : HasSocket(p) => Placed(p)

LEMMA PresentStays ==
  ASSUME NEW g \in Goroutine, NEW old, NEW new, JobStep(g, old, new),
         UNCHANGED <<owner, phase>>, NEW p, NEW op, Present(p, op),
         old # Do(op, p) \/ g \in Request
  PROVE  Present(p, op)'
<1>1. PICK c \in Socket : owner[c] = p /\ (phase[c] = "open" \/ Holds(job[c], Do(op, p)))
  BY DEF Present
<1>2. Holds(job[c], Do(op, p)) => Holds(job'[c], Do(op, p))
  <2>1. CASE old # Do(op, p)
    BY <1>1, <2>1 DEF JobStep, Goroutine
  <2>2. CASE g \in Request
    BY <1>1, <2>2, GoroutinesDiffer DEF JobStep, Goroutine
  <2> QED
    BY <2>1, <2>2
<1> QED
  BY <1>1, <1>2 DEF Present

LEMMA PresentOpen ==
  ASSUME TypeOK, NEW c \in Socket, phase[c] = "unused" \/ phase[c] = "open", job[c] = <<>>,
         \A d \in Socket : d # c => owner'[d] = owner[d] /\ phase'[d] = phase[d] /\ job'[d] = job[d],
         phase[c] = "open" => owner'[c] = owner[c] /\
           \A op \in {"leave", "abandon"} : Holds(job'[c], Do(op, owner[c])),
         NEW p, NEW op \in {"leave", "abandon"}, Present(p, op)
  PROVE  Present(p, op)'
<1>1. PICK d \in Socket : owner[d] = p /\ (phase[d] = "open" \/ Holds(job[d], Do(op, p)))
  BY DEF Present
<1>2. CASE d = c
  <2>1. phase[c] = "open"
    BY <1>1, <1>2, NothingHeld
  <2>2. owner'[c] = p /\ Holds(job'[c], Do(op, p))
    BY <1>1, <1>2, <2>1
  <2> QED
    BY <2>2 DEF Present
<1>3. CASE d # c
  BY <1>1, <1>3 DEF Present
<1> QED
  BY <1>2, <1>3

(* A late request is forgotten when a cleanup leaves the queue, and a      *)
(* seating under way when one abandons the match.                          *)
LEMMA HistoryWork ==
  ASSUME TypeOK, NEW g \in Goroutine, Work(g), NEW p
  PROVE  LET j == Head(job[g]) IN
         /\ p \in came => p \in came' \/ (j = Do("leave", p) /\ p \notin waiting')
         /\ p \in raced => p \in raced' \/ (Abandon(g) /\ InCleanup(g) /\ j.p = p)
<1> DEFINE j == Head(job[g])
<1>1. job[g] # <<>> /\ j \in Ops
  BY WorkShape, HeadTyped
<1>2. CASE Enqueue(g)
  BY <1>2 DEF Enqueue
<1>3. CASE Abandon(g)
  <2>1. came' = came
    BY <1>3 DEF Abandon
  <2>2. raced' = raced \/ (InCleanup(g) /\ (raced' = raced \cup {j.p} \/ raced' = raced \ {j.p}))
    BY <1>3 DEF Abandon
  <2> QED
    BY <1>3, <2>1, <2>2
<1>4. CASE \E q \in Player : Leave(g, q)
  <2>1. PICK q \in Player : Leave(g, q)
    BY <1>4
  <2>2. j.op = "leave" /\ q = j.p /\ came' = came \ {q} /\ waiting' = waiting \ {q} /\ raced' = raced
    BY <1>1, <2>1 DEF Leave, Doing, Serves, Reading
  <2>3. j = Do("leave", q)
    BY <1>1, <2>2, OpTyped
  <2> QED
    BY <2>2, <2>3
<1>5. CASE CloseClient(g) \/ Start(g) \/ NotifyLookup(g) \/ NotifyPush(g) \/ Reply(g) \/ unregister(g)
  BY <1>5 DEF CloseClient, Start, NotifyLookup, NotifyPush, Reply, unregister, history
<1> QED
  BY <1>2, <1>3, <1>4, <1>5 DEF Work

(* Who queues a player: one of the player's sockets that is being read, or *)
(* a request while there is one, or a request that comes too late.         *)
LEMMA QueuedWork ==
  ASSUME TypeOK, Owned, Errands, NEW g \in Goroutine, Enqueue(g), job[g] # <<>>,
         NEW p \in Player, p = Head(job[g]).p, p \notin waiting, HasSocket(p)
  PROVE  p \in came' \/ \E c \in Socket : owner[c] = p /\ phase[c] = "open"
<1>1. Head(job[g]) = Do("queue", p) /\ Holds(job[g], Head(job[g]))
  BY HeadTyped, OpTyped, HeadOrTail DEF Enqueue, Doing
<1>2. g \in Request \/ (g \in Socket /\ owner[g] = p /\ phase[g] = "open")
  BY <1>1 DEF Errands
<1>3. CASE g \in Request /\ Parted(p)
  BY <1>3 DEF Enqueue
<1>4. CASE ~Parted(p)
  BY <1>4 DEF Parted, HasSocket, Owned, TypeOK
<1> QED
  BY <1>2, <1>3, <1>4

(* The abandon of a cleanup leaves its player in no match, and marks them  *)
(* if somebody is about to seat them.                                      *)
LEMMA CleanupAbandons ==
  ASSUME TypeOK, Matches!OneTableEach, NEW g \in Goroutine, Work(g), Abandon(g), InCleanup(g),
         NEW p, p = Head(job[g]).p
  PROVE  p \in raced' \/ (~InMatch(p)' /\ ~BeingSeated(p)')
<1>1. ~Start(g) /\ ~Enqueue(g)
  BY DEF Abandon, Start, Enqueue, Doing
<1>2. ~InMatch(p)'
  BY <1>1, SeatsOfWork
<1>3. CASE BeingSeated(p)
  BY <1>3 DEF Abandon
<1>4. CASE ~BeingSeated(p)
  BY <1>1, <1>2, <1>4, SeatingOfWork
<1> QED
  BY <1>3, <1>4

LEMMA PlacedWork ==
  ASSUME TypeOK, Owned, Errands, Matches!OneTableEach, NEW g \in Goroutine, Work(g),
         NEW p \in Player, HasSocket(p), Placed(p)
  PROVE  Placed(p)'
<1> DEFINE j == Head(job[g])
<1>1. UNCHANGED <<owner, phase>> /\ job[g] # <<>> /\ j \in Ops /\ Holds(job[g], j)
  BY WorkShape, HeadTyped, HeadOrTail
<1>2. PICK new \in Seq(Ops) : JobStep(g, j, new)
  BY WorkShape
<1>3. ASSUME NEW op, Present(p, op), ~Present(p, op)'
      PROVE  j = Do(op, p) /\ g \notin Request
  BY <1>1, <1>2, <1>3, PresentStays
<1>4. ASSUME Enqueue(g), j.p = p, p \notin waiting
      PROVE  p \in came' \/ \A op : Present(p, op)'
  <2>1. p \in came' \/ \E c \in Socket : owner[c] = p /\ phase[c] = "open"
    BY <1>1, <1>4, QueuedWork
  <2> QED
    BY <1>1, <2>1 DEF Present
<1>5. ASSUME p \in waiting' PROVE Present(p, "leave")' \/ p \in came'
  <2>1. CASE p \in waiting
    <3> SUFFICES ASSUME ~Present(p, "leave")', p \notin came' PROVE FALSE
      OBVIOUS
    <3>1. j = Do("leave", p)
      BY <1>3, <1>5, <2>1, HistoryWork DEF Placed
    <3>2. j.op = "leave" /\ j.p = p
      BY <3>1, DoIsDo
    <3>3. waiting' = waiting \ {p}
      BY <1>1, <3>2 DEF Work, CloseClient, Enqueue, Start, Leave, Abandon, NotifyLookup, NotifyPush,
                        Reply, unregister, Doing, Serves, Reading
    <3> QED
      BY <1>5, <3>3
  <2>2. CASE p \notin waiting
    <3>1. Enqueue(g) /\ j.p = p
      BY <1>5, <2>2 DEF Work, CloseClient, Enqueue, Start, Leave, Abandon, NotifyLookup, NotifyPush,
                        Reply, unregister
    <3> QED
      BY <1>4, <2>2, <3>1
  <2> QED
    BY <2>1, <2>2
<1>6. ASSUME NEW c \in Socket, owner[c] = p, Holds(job[c], Do("leave", p))
      PROVE  Holds(job[c], Do("abandon", p))
  <2>1. job[c] \in {cleanup(c), Tail(cleanup(c))}
    BY <1>6 DEF Errands, Goroutine
  <2>2. Holds(Tail(cleanup(c)), Do("abandon", p)) /\ Holds(cleanup(c), Do("abandon", p))
    BY <1>6, CleanupParts
  <2> QED
    BY <2>1, <2>2
<1>7. p \in waiting => Present(p, "abandon") \/ p \in came
  BY <1>6 DEF Placed, Present
<1>8. ASSUME InMatch(p)' \/ BeingSeated(p)', ~(Enqueue(g) /\ j.p = p /\ p \notin waiting)
      PROVE  Present(p, "abandon") \/ p \in came \/ p \in raced
  <2>1. Start(g) /\ p \in {j.x, j.o} => BeingSeated(p)
    <3>1. Start(g) => j.op = "start"
      BY DEF Start, Doing
    <3> QED
      BY <1>1, <3>1 DEF BeingSeated, Holds
  <2>2. InMatch(p) \/ BeingSeated(p) \/ p \in waiting
    BY <1>8, <2>1, SeatsOfWork, SeatingOfWork
  <2> QED
    BY <1>7, <2>2 DEF Placed
<1>9. ASSUME InMatch(p)' \/ BeingSeated(p)'
      PROVE  Present(p, "abandon")' \/ p \in came' \/ p \in raced'
  <2> SUFFICES ASSUME ~Present(p, "abandon")', p \notin came', p \notin raced' PROVE FALSE
    OBVIOUS
  <2>1. ~(Abandon(g) /\ InCleanup(g) /\ j.p = p)
    BY <1>9, CleanupAbandons
  <2>2. Present(p, "abandon") \/ p \in came \/ p \in raced
    BY <1>4, <1>8, <1>9
  <2>3. CASE Present(p, "abandon")
    <3>1. j = Do("abandon", p) /\ g \notin Request
      BY <1>3, <2>3
    <3>2. j.op = "abandon" /\ j.p = p
      BY <3>1, DoIsDo
    <3>3. g \in Socket /\ owner[g] = p
      BY <1>1, <3>1 DEF Errands
    <3>4. phase[g] # "open" /\ phase[g] # "unused"
      BY <1>1, <3>3 DEF Present, Owned
    <3>5. InCleanup(g)
      BY <3>3, <3>4 DEF TypeOK, InCleanup
    <3>6. Abandon(g)
      BY <1>1, <3>2 DEF Work, CloseClient, Enqueue, Start, Leave, NotifyLookup, NotifyPush, Reply,
                        unregister, Doing, Serves, Reading
    <3> QED
      BY <2>1, <3>2, <3>5, <3>6
  <2>4. CASE p \in came
    <3>1. j = Do("leave", p)
      BY <2>4, HistoryWork
    <3>2. g \in Socket /\ owner[g] = p
      BY <1>1, <3>1 DEF Errands
    <3>3. Present(p, "abandon")
      BY <1>1, <1>6, <3>1, <3>2 DEF Present
    <3> QED
      BY <1>3, <3>1, <3>3, DoIsDo
  <2>5. CASE p \in raced
    BY <2>1, <2>5, HistoryWork
  <2> QED
    BY <2>2, <2>3, <2>4, <2>5
<1> QED
  BY <1>5, <1>9 DEF Placed

(* Steps that seat nobody, queue nobody and keep every promise.            *)
LEMMA PlacedKept ==
  ASSUME NEW p, Placed(p), p \in waiting' => p \in waiting, UNCHANGED <<came, raced>>,
         InMatch(p)' => InMatch(p), BeingSeated(p)' => BeingSeated(p),
         \A op \in {"leave", "abandon"} : Present(p, op) => Present(p, op)'
  PROVE  Placed(p)'
BY DEF Placed

LEMMA PlacedOthers ==
  ASSUME TypeOK, Owned, Matches!OneTableEach, Places,
         \/ \E c \in Socket, q \in Player : handleWS(c, q)
         \/ \E c \in Socket : ReadFails(c)
         \/ \E c \in Socket : Alone(c)
         \/ \E g \in Goroutine, q \in Player : Command(g, q)
         \/ UNCHANGED vars,
         NEW p \in Player, HasSocket(p)'
  PROVE  Placed(p)'
<1>1. InMatch(p)' => InMatch(p)
  BY SeatsOfOthers
<1>2. UNCHANGED <<came, raced>>
  BY CommandShape DEF handleWS, ReadFails, Alone, Ask, WriteFrame, WriteFails, WriterSeesDone,
                      vars, history
<1>3. p \in waiting' => p \in waiting
  BY DEF handleWS, ReadFails, Alone, Ask, WriteFrame, WriteFails, WriterSeesDone, Command,
         JoinCheck, Move, ResignCheck, Leave, vars
<1>4. UNCHANGED owner => Placed(p)
  BY DEF HasSocket, Places
<1>5. CASE UNCHANGED <<owner, phase, job>>
  <2>1. BeingSeated(p)' => BeingSeated(p)
    BY <1>5 DEF BeingSeated
  <2>2. \A op \in {"leave", "abandon"} : Present(p, op) => Present(p, op)'
    BY <1>5 DEF Present
  <2> QED
    BY <1>1, <1>2, <1>3, <1>4, <1>5, <2>1, <2>2, PlacedKept
<1>6. UNCHANGED vars \/ (\E c \in Socket : Alone(c)) => UNCHANGED <<owner, phase, job>>
  BY DEF vars, hub, Alone, Ask, WriteFrame, WriteFails, WriterSeesDone
<1>7. ASSUME NEW g \in Goroutine, NEW q \in Player, Command(g, q) PROVE Placed(p)'
  <2>1. UNCHANGED <<owner, phase>>
    BY <1>7, CommandShape
  <2>2. PICK new \in Seq(Ops) :
          (\A old : JobStep(g, old, new)) /\ \A e : Holds(new, e) => FromCommand(q, e)
    BY <1>7, CommandShape
  <2>3. JobStep(g, Reply1, new)
    BY <2>2
  <2>4. \A e : Holds(new, e) => e.op # "start"
    BY <2>2 DEF FromCommand, Do, Notify, Reply1
  <2>5. BeingSeated(p)' => BeingSeated(p)
    BY <2>3, <2>4, SeatingKept
  <2>6. \A op \in {"leave", "abandon"} : Present(p, op) => Present(p, op)'
    BY <2>1, <2>3, DoIsDo, PresentStays
  <2> QED
    BY <1>1, <1>2, <1>3, <1>4, <2>1, <2>5, <2>6, PlacedKept
<1>8. ASSUME NEW c \in Socket, ReadFails(c) PROVE Placed(p)'
  <2>1. /\ phase[c] = "open" /\ phase' = [phase EXCEPT ![c] = "over"] /\ owner' = owner
    BY <1>8 DEF ReadFails, Reading, hub
  <2>2. JobStep(c, Reply1, cleanup(c)) /\ job[c] = <<>> /\ job'[c] = cleanup(c)
    BY <1>8, CleanupShape
  <2>3. \A e : Holds(cleanup(c), e) <=>
          e \in {Unregister, Do("leave", owner[c]), Do("abandon", owner[c]), Close(c)}
    BY <1>8, CleanupShape
  <2>4. \A e : Holds(cleanup(c), e) => e.op # "start"
    BY <2>3 DEF Do, Unregister, Close
  <2>5. BeingSeated(p)' => BeingSeated(p)
    BY <2>2, <2>4, SeatingKept DEF Goroutine
  <2>6. \A d \in Socket : d # c => owner'[d] = owner[d] /\ phase'[d] = phase[d] /\ job'[d] = job[d]
    BY <2>1, <2>2 DEF JobStep, TypeOK, Goroutine
  <2>7. \A op \in {"leave", "abandon"} : Holds(job'[c], Do(op, owner[c]))
    BY <2>2, <2>3
  <2>8. \A op \in {"leave", "abandon"} : Present(p, op) => Present(p, op)'
    BY <2>1, <2>2, <2>6, <2>7, PresentOpen
  <2> QED
    BY <1>1, <1>2, <1>3, <1>4, <2>1, <2>5, <2>8, PlacedKept
<1>9. ASSUME NEW c \in Socket, NEW q \in Player, handleWS(c, q) PROVE Placed(p)'
  <2>1. /\ phase[c] = "unused" /\ phase' = [phase EXCEPT ![c] = "open"]
        /\ owner' = [owner EXCEPT ![c] = q] /\ job[c] = <<>>
    BY <1>9 DEF handleWS, Owned
  <2>2. owner'[c] = q /\ phase'[c] = "open"
    BY <2>1 DEF TypeOK
  <2>3. CASE p = q
    BY <2>2, <2>3 DEF Placed, Present
  <2>4. CASE p # q
    <3>1. PICK new \in Seq(Ops) :
            /\ \A old : JobStep(c, old, new)
            /\ \A e : Holds(new, e) => \E d \in Socket : e = Close(d)
      BY <1>9, RegisterShape
    <3>2. JobStep(c, Reply1, new) /\ \A e : Holds(new, e) => e.op # "start"
      BY <3>1 DEF Close
    <3>3. BeingSeated(p)' => BeingSeated(p)
      BY <3>2, SeatingKept DEF Goroutine
    <3>4. \A d \in Socket : d # c => owner'[d] = owner[d] /\ phase'[d] = phase[d] /\ job'[d] = job[d]
      BY <2>1, <3>2 DEF JobStep, TypeOK, Goroutine
    <3>5. \A op \in {"leave", "abandon"} : Present(p, op) => Present(p, op)'
      BY <2>1, <3>4, PresentOpen
    <3>6. Placed(p)
      BY <2>2, <2>4, <3>4 DEF HasSocket, Places
    <3> QED
      BY <1>1, <1>2, <1>3, <3>3, <3>5, <3>6, PlacedKept
  <2> QED
    BY <2>3, <2>4
<1> QED
  BY <1>5, <1>6, <1>7, <1>8, <1>9

Quits == Errands /\ Matches!OneTableEach /\ Places

LEMMA QuitsInit == Init => Quits
<1> SUFFICES ASSUME Init PROVE Quits
  OBVIOUS
<1>1. Errands
  BY Nothing DEF Errands
<1>2. Matches!OneTableEach
  BY DEF Init, Matches!Init, Matches!OneTableEach
<1>3. Places
  BY NoOwnerAssumption DEF Init, Places, HasSocket
<1> QED
  BY <1>1, <1>2, <1>3 DEF Quits

LEMMA QuitsNext == TypeOK /\ Owned /\ Quits /\ [Next]_vars => Quits'
<1> SUFFICES ASSUME TypeOK, Owned, Errands, Matches!OneTableEach, Places, [Next]_vars PROVE Quits'
  BY DEF Quits
<1>1. Errands'
  BY ErrandsNext
<1>2. CASE \E g \in Goroutine : Work(g)
  <2>1. PICK g \in Goroutine : Work(g)
    BY <1>2
  <2>2. Matches!OneTableEach'
    BY <2>1, SeatsOfWork
  <2>3. ASSUME NEW p \in Player, HasSocket(p)' PROVE Placed(p)'
    <3>1. HasSocket(p) /\ Placed(p)
      BY <2>1, <2>3, WorkShape DEF Places, HasSocket
    <3> QED
      BY <2>1, <3>1, PlacedWork
  <2> QED
    BY <1>1, <2>2, <2>3 DEF Quits, Places
<1>3. CASE \/ \E c \in Socket, q \in Player : handleWS(c, q)
           \/ \E c \in Socket : ReadFails(c)
           \/ \E c \in Socket : Alone(c)
           \/ \E g \in Goroutine, q \in Player : Command(g, q)
           \/ UNCHANGED vars
  <2>1. Matches!OneTableEach'
    BY <1>3, SeatsOfOthers
  <2>2. ASSUME NEW p \in Player, HasSocket(p)' PROVE Placed(p)'
    BY <1>3, <2>2, PlacedOthers
  <2> QED
    BY <1>1, <2>1, <2>2 DEF Quits, Places
<1> QED
  BY <1>2, <1>3, NextCases

(* Sessions: when all of a player's sockets are gone, so is the player,    *)
(* out of the queue and out of every match, whatever requests of the same  *)
(* player run beside the cleanup, except who came over HTTP since and who  *)
(* was about to be seated when the last cleanup looked for a match.        *)
THEOREM QuittersGone == Spec => []QuitLeavesNothing
<1>1. Quits => QuitLeavesNothing
  <2> SUFFICES ASSUME Quits, NEW p \in Player, Disconnected(p), p \notin came \cup raced
               PROVE  p \notin waiting /\ ~InMatch(p)
    BY DEF QuitLeavesNothing
  <2>1. HasSocket(p) /\ \A op : ~Present(p, op)
    BY NothingHeld DEF Present, HasSocket, Disconnected, Parted
  <2> QED
    BY <2>1 DEF Quits, Places, Placed
<1> QED
  BY <1>1, SocketsInit, SocketsNext, QuitsInit, QuitsNext, PTL DEF Spec
=============================================================================

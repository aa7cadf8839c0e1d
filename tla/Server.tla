------------------------------- MODULE Server -------------------------------
(***************************************************************************)
(* cmd/server: the life of the process, from the moment it serves to its   *)
(* exit, with the requests of the HTTP server and one socket (Keepalive)   *)
(* running in it against the same clock.                                   *)
(***************************************************************************)
EXTENDS Keepalive, FiniteSets

CONSTANTS
  Request, \* the requests of the HTTP server
  grace    \* how long Shutdown waits for them

ASSUME GraceIsPositive == grace \in Nat \ {0}

VARIABLES
  main,      \* where run() is
  patience,  \* what is left of grace
  request,   \* what each request is doing
  open       \* the database is open

process == <<main, patience, request, open>>
vars == <<socket, process>>

ServerInit ==
  /\ Init
  /\ main = "serving" /\ patience = grace
  /\ open = TRUE
  /\ request = [r \in Request |-> "none"]

----------------------------------------------------------------------------
(* Requests.  A socket is none of them: its connection was hijacked.       *)

(* Shutdown closes the listener; a connection accepted just before it may  *)
(* still bring its first request.                                          *)
Accept(r) ==
  /\ main \in {"serving", "stopping", "draining"} /\ request[r] = "none"
  /\ request' = [request EXCEPT ![r] = "handled"]
  /\ UNCHANGED <<socket, main, patience, open>>

(* The handler reads or writes the store and answers.                      *)
Respond(r) ==
  /\ request[r] = "handled"
  /\ request' = [request EXCEPT ![r] = "none"]
  /\ UNCHANGED <<socket, main, patience, open>>

----------------------------------------------------------------------------
(* run().                                                                  *)

(* SIGTERM or an interrupt; or ListenAndServe fails, accepts nobody and    *)
(* calls stop.                                                             *)
Stop ==
  /\ main = "serving" /\ main' = "stopping"
  /\ UNCHANGED <<socket, patience, request, open>>

(* srv.Shutdown with its timeout: no new connection is accepted.           *)
Shutdown ==
  /\ main = "stopping" /\ main' = "draining"
  /\ UNCHANGED <<socket, patience, request, open>>

Idle == \A r \in Request : request[r] = "none"

(* Mutant of Drained: the socket is waited for, and nothing ends the wait. *)
DrainedOfAll ==
  /\ main = "draining" /\ main' = "closing"
  /\ Idle /\ reader = "ended"
  /\ UNCHANGED <<socket, patience, request, open>>

(* Mutant of Drained: nothing is waited for.                               *)
DrainedAtOnce ==
  /\ main = "draining" /\ main' = "closing"
  /\ UNCHANGED <<socket, patience, request, open>>

(* It returns when the requests are done or the time is up.                *)
Drained ==
  /\ main = "draining" /\ main' = "closing"
  /\ Idle \/ patience = 0
  /\ UNCHANGED <<socket, patience, request, open>>

(* The deferred db.Close.                                                  *)
CloseStore ==
  /\ main = "closing" /\ main' = "returned"
  /\ open' = FALSE
  /\ UNCHANGED <<socket, patience, request>>

(* The process ends and takes with it every goroutine, timer and socket.   *)
Exit ==
  /\ main = "returned" /\ main' = "gone"
  /\ request' = [r \in Request |-> "none"] /\ patience' = 0
  /\ reader' = "ended" /\ writer' = "ended" /\ closed' = TRUE
  /\ deadline' = 0 /\ tick' = 0 /\ left' = 0 /\ ticked' = FALSE
  /\ send' = 0 /\ pings' = 0 /\ pongs' = 0
  /\ UNCHANGED <<peer, history, open>>

(* Time, for the socket and for Shutdown alike.                            *)
Pass ==
  /\ ~(main = "draining" /\ patience = 0)
  /\ Elapse
  /\ patience' = IF main = "draining" THEN patience - 1 ELSE patience
  /\ UNCHANGED <<main, request, open>>

Socket == (Peer \/ Others \/ Writer \/ Reader \/ Fire) /\ UNCHANGED process
Requests == \E r \in Request : Accept(r) \/ Respond(r)
Run == Shutdown \/ Drained \/ CloseStore \/ Exit

ServerNext == main # "gone" /\ (Socket \/ Requests \/ Stop \/ Run \/ Pass)

(* Time passes, goroutines run when they can, and a command comes to an    *)
(* end.  Nothing is asked of the peer, and nothing of a handler.           *)
Fairness ==
  /\ WF_vars(main # "gone" /\ Pass)
  /\ WF_vars(main # "gone" /\ Fire /\ UNCHANGED process)
  /\ WF_vars(main # "gone" /\ Writer /\ UNCHANGED process)
  /\ WF_vars(main # "gone" /\ Reader /\ UNCHANGED process)
  /\ WF_vars(Run)

Spec == ServerInit /\ [][ServerNext]_vars /\ Fairness

----------------------------------------------------------------------------
Measures ==
  /\ deadline \in 0 .. pongWait /\ tick \in 0 .. pingPeriod /\ left \in 0 .. writeWait
  /\ writer \in {"waiting", "pinging", "sending", "ended"}
  /\ reader \in {"reading", "dispatching", "ended"}
  /\ send \in 0 .. sendBuffer
  /\ peer \in {"here", "gone"}
  /\ pings \in 0 .. MaxUnread /\ pongs \in 0 .. MaxUnread
  /\ owed \in Settled .. Slack - 1
  /\ main \in {"serving", "stopping", "draining", "closing", "returned", "gone"}
  /\ patience \in 0 .. grace
  /\ request \in [Request -> {"none", "handled"}]

Flags == ticked \in BOOLEAN /\ closed \in BOOLEAN /\ late \in BOOLEAN /\ open \in BOOLEAN

(* Type invariant of the process and of its socket: no timer runs below    *)
(* zero and no channel beyond its capacity.                                *)
TypeOK == Measures /\ Flags

(* A live socket runs into its read deadline only if the answer to some    *)
(* tick took Slack to be read, of the six seconds that 60 leaves after 54: *)
(* the frame before the ping, the way there and back, the peer, and the    *)
(* command the pump was busy with all count.  No peer that answers in time *)
(* is dropped, whatever else is sent.                                      *)
OnlyTheLateDropped == reader = "reading" /\ deadline = 0 /\ ~closed => late

(* A peer who vanishes without closing does not hold its two goroutines    *)
(* for ever, even while frames are still being written to it.              *)
VanishedFreed == peer = "gone" ~> reader = "ended" /\ writer = "ended"

(* The database is closed under no request, but one that Shutdown has      *)
(* waited for to the end of its time.                                      *)
RequestsBeforeClose == \A r \in Request : ~open /\ request[r] = "handled" => patience = 0

(* Once told to stop, the process ends, whether or not the requests in it  *)
(* do, and although an open socket never does.                             *)
StopsForSure == main = "stopping" ~> main = "gone"
=============================================================================

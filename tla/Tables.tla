------------------------------- MODULE Tables -------------------------------
(***************************************************************************)
(* What the match registry promises its callers: matches open and close,   *)
(* and a player sits in at most one of them.  Games implements this        *)
(* module, and Matchmaking is written against it.                          *)
(***************************************************************************)
CONSTANTS Player, MatchId

VARIABLES
  seated, \* the open matches: [id, x, o]
  opened  \* the ids ever given to a match

Table == [id : MatchId, x : Player, o : Player]

SeatedPlayers == UNION {{s.x, s.o} : s \in seated}

Init == seated = {} /\ opened = {}

(* Two different players who sit nowhere are seated under a fresh id.      *)
Open(id, x, o) ==
  /\ x # o
  /\ {x, o} \cap SeatedPlayers = {}
  /\ id \notin opened
  /\ seated' = seated \cup {[id |-> id, x |-> x, o |-> o]}
  /\ opened' = opened \cup {id}

(* A match ends for both of its players at once.                           *)
Close(s) ==
  /\ s \in seated
  /\ seated' = seated \ {s}
  /\ UNCHANGED opened

(* Open matches live in memory only.                                       *)
Restart == seated' = {} /\ UNCHANGED opened

Next ==
  \/ \E id \in MatchId, x, o \in Player : Open(id, x, o)
  \/ \E s \in seated : Close(s)
  \/ Restart

Spec == Init /\ [][Next]_<<seated, opened>>

(* A player sits at no two tables, and at no table against themselves.     *)
OneTableEach ==
  /\ \A s \in seated : s.x # s.o
  /\ \A s, r \in seated : {s.x, s.o} \cap {r.x, r.o} # {} => s = r
=============================================================================

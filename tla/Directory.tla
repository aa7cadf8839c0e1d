------------------------------ MODULE Directory ------------------------------
(***************************************************************************)
(* What every player store promises: the suite of                          *)
(* internal/adapter/storetest, which both stores run.  Names are unique    *)
(* whatever their capitals, an account is found by any spelling of its     *)
(* name and shown with its own, a save changes statistics only, and the    *)
(* best come first.  SQLitePlayers and MemoryPlayers implement it.         *)
(***************************************************************************)
EXTENDS Integers, FiniteSets, Sequences, SequencesExt

CONSTANTS
  nameKey,  \* the key under which a name is unique, a function on names
  NotFound  \* the answer PLAYER_NOT_FOUND

VARIABLE players \* the accounts: [id, name, hash, stats]

(* The only account in S, if there is one.                                 *)
TheOne(S) == IF S = {} THEN NotFound ELSE CHOOSE p \in S : TRUE

ByName(n) == TheOne({p \in players : nameKey[p.name] = nameKey[n]})
ByID(i) == TheOne({p \in players : p.id = i})

(* More wins, or as many wins and fewer losses.                            *)
Outranks(p, q) ==
  \/ p.stats.wins > q.stats.wins
  \/ p.stats.wins = q.stats.wins /\ p.stats.losses < q.stats.losses

(* s lists as many of the accounts as asked for, best first.               *)
IsTop(s, limit) ==
  /\ Len(s) = IF limit < Cardinality(players) THEN limit ELSE Cardinality(players)
  /\ IsInjective(s) /\ ToSet(s) \subseteq players
  /\ \A i, j \in DOMAIN s : i < j => ~Outranks(s[j], s[i])
  /\ \A p \in players \ ToSet(s), i \in DOMAIN s : ~Outranks(p, s[i])

Init == players = {}

Create(p) ==
  /\ \A q \in players : q.id # p.id /\ nameKey[q.name] # nameKey[p.name]
  /\ players' = players \cup {p}

Save(p) ==
  \E q \in players :
    /\ q.id = p.id /\ q.name = p.name /\ q.hash = p.hash
    /\ players' = (players \ {q}) \cup {p}

Next == \E p \in players' : Create(p) \/ Save(p)

Spec == Init /\ [][Next]_players
=============================================================================

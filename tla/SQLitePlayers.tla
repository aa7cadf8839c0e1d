---------------------------- MODULE SQLitePlayers ----------------------------
(***************************************************************************)
(* sqlite.PlayerStore: the table players, with a primary key and a UNIQUE  *)
(* index on name_key.  Each statement is one step of the database, which   *)
(* has a single connection.                                                *)
(***************************************************************************)
EXTENDS Integers, FiniteSets, Sequences, SequencesExt

CONSTANTS nameKey, NotFound

VARIABLE rows

row(p) ==
  [id |-> p.id, name |-> p.name, name_key |-> nameKey[p.name],
   hash |-> p.hash, stats |-> p.stats]

scanPlayer(r) == [id |-> r.id, name |-> r.name, hash |-> r.hash, stats |-> r.stats]

(* A query for at most one row; no row is PLAYER_NOT_FOUND.                *)
queryOne(R) == IF R = {} THEN NotFound ELSE scanPlayer(CHOOSE r \in R : TRUE)

ByName(n) == queryOne({r \in rows : r.name_key = nameKey[n]})
ByID(i) == queryOne({r \in rows : r.id = i})

(* Mutant of isUniqueViolation: the index is on name.                      *)
isUniqueViolationOfName(p) == \E r \in rows : r.id = p.id \/ r.name = p.name

isUniqueViolation(p) == \E r \in rows : r.id = p.id \/ r.name_key = nameKey[p.name]

CreateError(p) == IF isUniqueViolation(p) THEN "NAME_TAKEN" ELSE "none"

Create(p) == rows' = IF isUniqueViolation(p) THEN rows ELSE rows \cup {row(p)}

(* Every column of the row is overwritten, unless the name now clashes.    *)
Save(p) ==
  rows' = IF \E r \in rows : r.id # p.id /\ r.name_key = nameKey[p.name] THEN rows
          ELSE {IF r.id = p.id THEN row(p) ELSE r : r \in rows}

(* ORDER BY wins DESC, losses ASC, name ASC.                               *)
before(r, q) ==
  \/ r.stats.wins > q.stats.wins
  \/ r.stats.wins = q.stats.wins /\ r.stats.losses < q.stats.losses
  \/ r.stats.wins = q.stats.wins /\ r.stats.losses = q.stats.losses /\ r.name < q.name

(* What Top may answer: the first rows in an order that respects before.   *)
Top(limit) ==
  {[i \in 1 .. (IF limit < Len(s) THEN limit ELSE Len(s)) |-> scanPlayer(s[i])] :
     s \in {s \in SetToSeqs(rows) : \A i, j \in DOMAIN s : i < j => ~before(s[j], s[i])}}
=============================================================================

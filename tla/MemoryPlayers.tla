---------------------------- MODULE MemoryPlayers ----------------------------
(***************************************************************************)
(* memory.PlayerStore: two maps under one lock, players by id and ids by   *)
(* the key of the name.  Each method is one critical section and hands     *)
(* out copies.                                                             *)
(***************************************************************************)
EXTENDS Integers, FiniteSets, Sequences, SequencesExt, Functions

CONSTANTS nameKey, NotFound

VARIABLES byID, byName

(* Mutant of keyOf: names are looked up as they are spelled.               *)
keyOfSpelling(n) == n

keyOf(n) == nameKey[n]

copyOf(i) == IF i \in DOMAIN byID THEN byID[i] ELSE NotFound

ByName(n) == IF keyOf(n) \in DOMAIN byName THEN copyOf(byName[keyOf(n)]) ELSE NotFound
ByID(i) == copyOf(i)

Put(f, k, v) == [x \in DOMAIN f \cup {k} |-> IF x = k THEN v ELSE f[x]]

(* Mutant of taken: nobody looks.                                          *)
takenNever(p) == FALSE

taken(p) == keyOf(p.name) \in DOMAIN byName

CreateError(p) == IF taken(p) THEN "NAME_TAKEN" ELSE "none"

Create(p) ==
  /\ byID' = IF taken(p) THEN byID ELSE Put(byID, p.id, p)
  /\ byName' = IF taken(p) THEN byName ELSE Put(byName, keyOf(p.name), p.id)

Save(p) ==
  /\ byID' = IF p.id \in DOMAIN byID THEN Put(byID, p.id, p) ELSE byID
  /\ UNCHANGED byName

(* Mutant of less: players with equal records are not told apart.          *)
lessByRecord(a, b) ==
  \/ a.stats.wins > b.stats.wins
  \/ a.stats.wins = b.stats.wins /\ a.stats.losses < b.stats.losses

(* The comparison Top sorts by.                                            *)
less(a, b) ==
  \/ a.stats.wins > b.stats.wins
  \/ a.stats.wins = b.stats.wins /\ a.stats.losses < b.stats.losses
  \/ a.stats.wins = b.stats.wins /\ a.stats.losses = b.stats.losses /\ a.name < b.name

(* What Top may answer: sort.Slice is not stable and the map is read in    *)
(* any order, so every arrangement without an inversion is possible.       *)
Top(limit) ==
  {SubSeq(s, 1, IF limit < Len(s) THEN limit ELSE Len(s)) :
     s \in {s \in SetToSeqs(Range(byID)) : \A i, j \in DOMAIN s : i < j => ~less(s[j], s[i])}}
=============================================================================

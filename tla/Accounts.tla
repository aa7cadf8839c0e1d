------------------------------ MODULE Accounts ------------------------------
(***************************************************************************)
(* usecase.Auth and usecase.Leaderboard, and what usecase.Games writes     *)
(* about players, served by concurrent requests over a player store.  A    *)
(* call reads and writes the store several times and holds nothing in      *)
(* between.                                                                *)
(*                                                                         *)
(* Both stores are here and are given the same calls, as                   *)
(* internal/adapter/storetest does: the SQLite one is wired in and         *)
(* answers, the in-memory one is its twin.                                 *)
(***************************************************************************)
EXTENDS Integers, FiniteSets, Sequences

CONSTANTS
  PlayerId,
  Name,     \* trimmed names, numbered in byte order
  nameKey,  \* a name in small letters
  bytes,    \* the length of a name
  Raw,      \* names as clients type them
  trim,     \* the name left of one without the spaces around it
  Password,
  length,   \* the length of a password
  MaxNameLength, MinPasswordLength, MaxPasswordLength,
  DefaultLimit, MaxLimit, \* of the leaderboard
  Limit,    \* the limits of it that clients ask for
  Request,  \* the goroutines that serve requests
  NotFound,
  MaxPlayed \* bound on the results of one player

ASSUME NamesAreOrdered == Name \subseteq Int /\ nameKey \in [Name -> Name]
ASSUME NamesHaveLengths ==
  /\ bytes \in [Name -> Nat] /\ trim \in [Raw -> Name]
  /\ MaxNameLength \in Nat
ASSUME PasswordsHaveLengths == length \in [Password -> Nat]
ASSUME LimitsAreOrdered ==
  /\ DefaultLimit \in Nat \ {0} /\ MaxLimit \in Nat
  /\ DefaultLimit <= MaxLimit
  /\ Limit \subseteq Int

VARIABLES
  rows,         \* the SQLite store
  byID, byName, \* the in-memory store
  call,         \* what each request is in the middle of
  granted       \* history: the tokens given, for what name and password

stores == <<rows, byID, byName>>
vars == <<stores, call, granted>>

SQLite == INSTANCE SQLitePlayers
Memory == INSTANCE MemoryPlayers

----------------------------------------------------------------------------
(* Names, passwords, tokens.                                               *)

(* Mutant of ValidName: an empty name passes.                              *)
ValidNameOrEmpty(n) == bytes[n] <= MaxNameLength

(* NormalizeName, of a trimmed name.                                       *)
ValidName(n) == bytes[n] # 0 /\ bytes[n] <= MaxNameLength

ValidPassword(w) == MinPasswordLength <= length[w] /\ length[w] <= MaxPasswordLength

Hashes == [digestOf : Password]
Hash(w) == [digestOf |-> w]
Compare(hash, w) == hash.digestOf = w

Outcomes == {"wins", "losses", "draws"}
Stats == [Outcomes -> Nat]
Played(s) == s.wins + s.losses + s.draws

Player ==
  [id : PlayerId, name : {n \in Name : bytes[n] \in 1 .. MaxNameLength},
   hash : Hashes, stats : Stats]

ASSUME NotFoundAssumption == NotFound \notin Player

NewPlayer(i, n, hash) ==
  [id |-> i, name |-> n, hash |-> hash, stats |-> [k \in Outcomes |-> 0]]

(* Player.Record.                                                          *)
Recorded(p, outcome) == [p EXCEPT !.stats[outcome] = @ + 1]

(* A token names a player; Verify finds the name again until it expires.   *)
Issue(i) == [sub |-> i]
Verify(token) == token.sub

Init ==
  /\ rows = {}
  /\ byID = [i \in {} |-> i]
  /\ byName = [n \in {} |-> n]
  /\ call = [r \in Request |-> [stage |-> "idle"]]
  /\ granted = {}

----------------------------------------------------------------------------
(* Requests.  One that was refused keeps what it was refused until the     *)
(* next.                                                                   *)

Free(r) == call[r].stage \in {"idle", "taken", "invalid"}
At(r, stage) == call[r].stage = stage

Becomes(r, c) == call' = [call EXCEPT ![r] = c]
Answered(r, answer, n, w) == Becomes(r, [stage |-> answer, name |-> n, password |-> w])

Grant(r, i) ==
  /\ granted' = granted \cup
       {[token |-> Issue(i), name |-> call[r].name, password |-> call[r].password]}
  /\ Becomes(r, [stage |-> "idle"])

(* Register, first step: what was typed is checked and the name looked up. *)
RegisterLookup(r, raw, w) ==
  LET n == trim[raw] IN
  /\ Free(r)
  /\ ValidName(n) /\ ValidPassword(w)
  /\ Answered(r, IF SQLite!ByName(n) = NotFound THEN "free" ELSE "taken", n, w)
  /\ UNCHANGED <<stores, granted>>

(* Mutant of RegisterCreate: what Create answers is ignored.               *)
RegisterCreateBlindly(r) ==
  /\ At(r, "free")
  /\ \E i \in PlayerId \ {q.id : q \in rows} :
       LET p == NewPlayer(i, call[r].name, Hash(call[r].password)) IN
       /\ SQLite!Create(p) /\ Memory!Create(p)
       /\ Becomes(r, [stage |-> "created", name |-> p.name,
                      password |-> call[r].password, id |-> i])
  /\ UNCHANGED granted

(* Second step: the account is created under a fresh id, unless somebody   *)
(* else has taken the name since the lookup.                               *)
RegisterCreate(r) ==
  /\ At(r, "free")
  /\ \E i \in PlayerId \ {q.id : q \in rows} :
       LET p == NewPlayer(i, call[r].name, Hash(call[r].password)) IN
       /\ SQLite!Create(p) /\ Memory!Create(p)
       /\ \/ /\ SQLite!CreateError(p) = "NAME_TAKEN"
             /\ Answered(r, "taken", p.name, call[r].password)
          \/ /\ SQLite!CreateError(p) = "none"
             /\ Becomes(r, [stage |-> "created", name |-> p.name,
                            password |-> call[r].password, id |-> i])
  /\ UNCHANGED granted

(* Third step: its owner is given a token.                                 *)
RegisterIssue(r) ==
  /\ At(r, "created")
  /\ Grant(r, call[r].id)
  /\ UNCHANGED stores

(* Mutant of LoginLookup: a failure of the store is no account.            *)
LoginLookupLossy(r, raw, w) ==
  /\ Free(r)
  /\ Answered(r, "invalid", trim[raw], w)
  /\ UNCHANGED <<stores, granted>>

(* Login, first step: an unusable or unknown name is refused.              *)
LoginLookup(r, raw, w) ==
  LET n == trim[raw]
      p == SQLite!ByName(n)
  IN
  /\ Free(r)
  /\ \/ ~ValidName(n) /\ Answered(r, "invalid", n, w)
     \/ ValidName(n) /\ p = NotFound /\ Answered(r, "invalid", n, w)
     \/ /\ ValidName(n) /\ p # NotFound
        /\ Becomes(r, [stage |-> "compare", name |-> n, password |-> w, id |-> p.id, hash |-> p.hash])
  /\ UNCHANGED <<stores, granted>>

(* Mutant of LoginCompare: the hash is not compared.                       *)
LoginUncompared(r) ==
  /\ At(r, "compare")
  /\ Grant(r, call[r].id)
  /\ UNCHANGED stores

(* Second step: the hash read then is compared, which takes its time.      *)
LoginCompare(r) ==
  /\ At(r, "compare")
  /\ \/ Compare(call[r].hash, call[r].password) /\ Grant(r, call[r].id)
     \/ /\ ~Compare(call[r].hash, call[r].password)
        /\ Answered(r, "invalid", call[r].name, call[r].password)
        /\ UNCHANGED granted
  /\ UNCHANGED stores

(* A match of an authenticated player has ended: Games loads a copy of the *)
(* player and raises it.                                                   *)
CreditLoad(r, g, outcome) ==
  LET p == SQLite!ByID(Verify(g.token)) IN
  /\ Free(r)
  /\ p # NotFound
  /\ Played(p.stats) < MaxPlayed
  /\ Becomes(r, [stage |-> "credit", player |-> Recorded(p, outcome)])
  /\ UNCHANGED <<stores, granted>>

(* The copy is saved, whole.                                               *)
CreditSave(r) ==
  /\ At(r, "credit")
  /\ SQLite!Save(call[r].player) /\ Memory!Save(call[r].player)
  /\ Becomes(r, [stage |-> "idle"])
  /\ UNCHANGED granted

(* The next thing the call asks for fails: the store, the hasher or the    *)
(* token issuer; or the process stops.  What it has written stays.         *)
GiveUp(r) ==
  /\ ~Free(r)
  /\ Becomes(r, [stage |-> "idle"])
  /\ UNCHANGED <<stores, granted>>

Next ==
  \/ \E r \in Request, raw \in Raw, w \in Password : RegisterLookup(r, raw, w)
  \/ \E r \in Request : RegisterCreate(r)
  \/ \E r \in Request : RegisterIssue(r)
  \/ \E r \in Request, raw \in Raw, w \in Password : LoginLookup(r, raw, w)
  \/ \E r \in Request : LoginCompare(r)
  \/ \E r \in Request, g \in granted, outcome \in Outcomes : CreditLoad(r, g, outcome)
  \/ \E r \in Request : CreditSave(r)
  \/ \E r \in Request : GiveUp(r)

Spec == Init /\ [][Next]_vars

----------------------------------------------------------------------------
(* The leaderboard.                                                        *)

(* Mutant of clamp: only what is too much is clamped.                      *)
clampAbove(limit) == IF limit > MaxLimit THEN MaxLimit ELSE limit

clamp(limit) ==
  CASE limit <= 0 -> DefaultLimit
    [] limit > MaxLimit -> MaxLimit
    [] OTHER -> limit

(* What Leaderboard.Top may answer: the store's order, ranked.             *)
Standings(limit) ==
  {[i \in DOMAIN s |-> [rank |-> i, player |-> s[i]]] : s \in SQLite!Top(clamp(limit))}

----------------------------------------------------------------------------
(* Type invariant: in particular no account has a name that is empty or    *)
(* too long.                                                               *)
Calls ==
       [stage : {"idle"}]
  \cup [stage : {"free", "taken", "invalid"}, name : Name, password : Password]
  \cup [stage : {"created"}, name : Name, password : Password, id : PlayerId]
  \cup [stage : {"compare"}, name : Name, password : Password,
        id : PlayerId, hash : Hashes]
  \cup [stage : {"credit"}, player : Player]

TypeOK ==
  /\ \A r \in rows :
       /\ r = SQLite!row(SQLite!scanPlayer(r))
       /\ SQLite!scanPlayer(r) \in Player
  /\ DOMAIN byID \subseteq PlayerId /\ byID \in [DOMAIN byID -> Player]
  /\ DOMAIN byName \subseteq Name /\ byName \in [DOMAIN byName -> PlayerId]
  /\ call \in [Request -> Calls]
  /\ granted \subseteq [token : [sub : PlayerId], name : Name, password : Password]

(* Each store keeps the contract of internal/adapter/storetest, whatever   *)
(* requests overlap: registrations that race for one name (in any          *)
(* spelling) make one account, and a save of a stale copy changes nothing  *)
(* but statistics.                                                         *)
InSQLite == INSTANCE Directory WITH players <- {SQLite!scanPlayer(r) : r \in rows}
SQLiteKeepsContract == InSQLite!Spec

InMemory == INSTANCE Directory WITH players <- {byID[i] : i \in DOMAIN byID}
MemoryKeepsContract == InMemory!Spec

(* "No use case can tell the difference" between the stores: after any     *)
(* calls the use cases make, both answer every lookup alike and as the     *)
(* contract says, and would accept or refuse the same new account.         *)
StoresAnswerAlike ==
  /\ \A n \in Name :
       {SQLite!ByName(n), Memory!ByName(n)} = {InSQLite!ByName(n)}
  /\ \A i \in PlayerId :
       {SQLite!ByID(i), Memory!ByID(i)} = {InSQLite!ByID(i)}
  /\ \A n \in Name, w \in Password, i \in PlayerId \ {q.id : q \in rows} :
       LET p == NewPlayer(i, n, Hash(w)) IN SQLite!CreateError(p) = Memory!CreateError(p)

(* The leaderboard has one answer, the same from either store, for every   *)
(* limit a client may ask for, ties included: the best, ranked, and nobody *)
(* who outranks one of them left out; and it is never longer than it may   *)
(* be.                                                                     *)
LeaderboardExact ==
  \A limit \in Limit :
    \E b \in Standings(limit) :
      LET s == [i \in DOMAIN b |-> b[i].player] IN
      /\ Standings(limit) = {b}
      /\ Memory!Top(clamp(limit)) = {s}
      /\ InSQLite!IsTop(s, clamp(limit))
      /\ Len(b) <= MaxLimit /\ \A i \in DOMAIN b : b[i].rank = i
      /\ rows # {} => s # <<>>

(* The account a token opens is the one of the name it was asked for, made *)
(* with the password it was asked with.                                    *)
TokenOpensOwnAccount ==
  \A g \in granted : \E q \in rows :
    /\ q.id = Verify(g.token)
    /\ q.name_key = nameKey[g.name]
    /\ Compare(q.hash, g.password)

(* A refusal is true: NAME_TAKEN of a name that somebody has, and          *)
(* INVALID_CREDENTIALS never of a password and a usable spelling of a name *)
(* that an account was made with: whoever registered but never got the     *)
(* token can still log in.                                                 *)
RefusalsTrue ==
  [][\A r \in Request : call'[r] # call[r] =>
       /\ call'[r].stage = "taken" =>
            \E q \in rows : q.name_key = nameKey[call'[r].name]
       /\ call'[r].stage = "invalid" =>
            ~\E q \in rows :
               /\ ValidName(call'[r].name)
               /\ q.name_key = nameKey[call'[r].name]
               /\ Compare(q.hash, call'[r].password)]_vars
=============================================================================

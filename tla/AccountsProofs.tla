--------------------------- MODULE AccountsProofs ---------------------------
(***************************************************************************)
(* Proofs about the accounts, for any names, passwords and number of       *)
(* requests.                                                               *)
(*                                                                         *)
(* Whatever the calls in progress remember of an account, its id, its name *)
(* and its hash, stays true: a save writes back what somebody has read,    *)
(* and only the statistics in it can be stale.                             *)
(*                                                                         *)
(* The leaderboard has one answer because no two accounts tie: a set that  *)
(* is finite and strictly ordered can be listed in order in one way.       *)
(***************************************************************************)
EXTENDS Accounts, FiniteSetTheorems, TLAPS

(* One row of each id and of each key.                                     *)
Unique == \A q, s \in rows : q.id = s.id \/ q.name_key = s.name_key => q = s

(* The two maps hold what the table holds.                                 *)
Twins ==
  /\ DOMAIN byID = {q.id : q \in rows}
  /\ DOMAIN byName = {q.name_key : q \in rows}
  /\ \A q \in rows : byID[q.id] = SQLite!scanPlayer(q) /\ byName[q.name_key] = q.id

(* An account made with that name, in some spelling, and that hash.        *)
Owns(R, i, n, hash) == \E q \in R : q.id = i /\ q.name_key = nameKey[n] /\ q.hash = hash

Was(R, p) == \E q \in R : q.id = p.id /\ q.name = p.name /\ q.hash = p.hash

Remembered(R, c) ==
  /\ c.stage = "free" => ValidName(c.name)
  /\ c.stage = "created" => Owns(R, c.id, c.name, Hash(c.password))
  /\ c.stage = "compare" => Owns(R, c.id, c.name, c.hash)
  /\ c.stage = "credit" => Was(R, c.player)

CallsRemember == \A r \in Request : Remembered(rows, call[r])

Granted(R, g) == Owns(R, Verify(g.token), g.name, Hash(g.password))
TokensTrue == \A g \in granted : Granted(rows, g)

Inv == TypeOK /\ Unique /\ Twins /\ CallsRemember /\ TokensTrue

----------------------------------------------------------------------------
(* What a step does to the stores.                                         *)

Created(p) ==
  /\ \A q \in rows : q.id # p.id /\ q.name_key # nameKey[p.name]
  /\ rows' = rows \cup {SQLite!row(p)}
  /\ byID' = Memory!Put(byID, p.id, p)
  /\ byName' = Memory!Put(byName, nameKey[p.name], p.id)

Saved(p) ==
  /\ Was(rows, p)
  /\ rows' = {IF q.id = p.id THEN SQLite!row(p) ELSE q : q \in rows}
  /\ byID' = Memory!Put(byID, p.id, p)
  /\ byName' = byName

StoreStep == UNCHANGED stores \/ \E p \in Player : Created(p) \/ Saved(p)

LEMMA Rows ==
  ASSUME TypeOK, NEW q \in rows
  PROVE  /\ q.id \in PlayerId /\ q.name \in Name /\ q.name_key = nameKey[q.name]
         /\ q.hash \in Hashes /\ q.stats \in Stats
         /\ SQLite!scanPlayer(q) \in Player
         /\ q = SQLite!row(SQLite!scanPlayer(q))
BY DEF TypeOK, SQLite!row, SQLite!scanPlayer, Player

(* What a call keeps at each stage.                                        *)
LEMMA FreeCall ==
  ASSUME TypeOK, CallsRemember, NEW r \in Request, At(r, "free")
  PROVE  /\ call[r].name \in Name /\ call[r].password \in Password
         /\ ValidName(call[r].name)
<1>1. call[r] \in Calls /\ Remembered(rows, call[r]) /\ call[r].stage = "free"
  BY DEF TypeOK, CallsRemember, At
<1> QED
  BY <1>1 DEF Calls, Remembered

LEMMA CreditCall ==
  ASSUME TypeOK, CallsRemember, NEW r \in Request, At(r, "credit")
  PROVE  call[r].player \in Player /\ Was(rows, call[r].player)
<1>1. call[r] \in Calls /\ Remembered(rows, call[r]) /\ call[r].stage = "credit"
  BY DEF TypeOK, CallsRemember, At
<1> QED
  BY <1>1 DEF Calls, Remembered

LEMMA FreshPlayer ==
  ASSUME NEW i \in PlayerId, NEW n \in Name, ValidName(n), NEW w \in Password
  PROVE  NewPlayer(i, n, Hash(w)) \in Player
<1>1. bytes[n] \in 1 .. MaxNameLength
  BY NamesHaveLengths DEF ValidName
<1> QED
  BY <1>1 DEF NewPlayer, Player, Hash, Hashes, Stats

LEMMA Creating ==
  ASSUME TypeOK, Twins, NEW p \in Player, p.id \notin {q.id : q \in rows},
         SQLite!Create(p), Memory!Create(p)
  PROVE  /\ UNCHANGED stores \/ Created(p)
         /\ SQLite!CreateError(p) = "none" => Created(p)
<1>1. SQLite!isUniqueViolation(p) <=> \E q \in rows : q.name_key = nameKey[p.name]
  BY DEF SQLite!isUniqueViolation
<1>2. Memory!taken(p) <=> \E q \in rows : q.name_key = nameKey[p.name]
  BY DEF Memory!taken, Memory!keyOf, Twins
<1>3. CASE \E q \in rows : q.name_key = nameKey[p.name]
  <2>1. UNCHANGED stores
    BY <1>1, <1>2, <1>3 DEF SQLite!Create, Memory!Create, stores
  <2> QED
    BY <1>1, <1>3, <2>1 DEF SQLite!CreateError
<1>4. CASE ~\E q \in rows : q.name_key = nameKey[p.name]
  BY <1>1, <1>2, <1>4 DEF SQLite!Create, Memory!Create, Created, Memory!keyOf
<1> QED
  BY <1>3, <1>4

LEMMA Saving ==
  ASSUME TypeOK, Unique, Twins, NEW p \in Player, Was(rows, p), SQLite!Save(p), Memory!Save(p)
  PROVE  Saved(p)
<1>1. PICK q \in rows : q.id = p.id /\ q.name = p.name /\ q.hash = p.hash
  BY DEF Was
<1>2. q.name_key = nameKey[p.name]
  BY <1>1, Rows
<1>3. ~\E r \in rows : r.id # p.id /\ r.name_key = nameKey[p.name]
  BY <1>1, <1>2 DEF Unique
<1>4. p.id \in DOMAIN byID
  BY <1>1 DEF Twins
<1> QED
  BY <1>3, <1>4 DEF SQLite!Save, Memory!Save, Saved

LEMMA StepsOfTheStores ==
  ASSUME Inv, [Next]_vars
  PROVE  StoreStep
<1> USE DEF Inv
<1>1. ASSUME NEW r \in Request, RegisterCreate(r) PROVE StoreStep
  <2>1. PICK i \in PlayerId \ {q.id : q \in rows} :
          LET p == NewPlayer(i, call[r].name, Hash(call[r].password)) IN
          SQLite!Create(p) /\ Memory!Create(p)
    BY <1>1 DEF RegisterCreate
  <2> DEFINE p == NewPlayer(i, call[r].name, Hash(call[r].password))
  <2>2. call[r].name \in Name /\ call[r].password \in Password /\ ValidName(call[r].name)
    BY <1>1, FreeCall DEF RegisterCreate
  <2>4. p \in Player
    BY <2>2, FreshPlayer
  <2>3. p.id = i
    BY DEF NewPlayer
  <2> HIDE DEF p
  <2> QED
    BY <2>1, <2>3, <2>4, Creating DEF StoreStep, p
<1>2. ASSUME NEW r \in Request, CreditSave(r) PROVE StoreStep
  <2>1. call[r].player \in Player /\ Was(rows, call[r].player)
    BY <1>2, CreditCall DEF CreditSave
  <2> QED
    BY <1>2, <2>1, Saving DEF CreditSave, StoreStep
<1>3. ASSUME NEW r \in Request, NEW raw \in Raw, NEW w \in Password,
             RegisterLookup(r, raw, w) \/ LoginLookup(r, raw, w)
      PROVE  StoreStep
  BY <1>3 DEF RegisterLookup, LoginLookup, StoreStep, stores
<1>4. ASSUME NEW r \in Request, RegisterIssue(r) \/ LoginCompare(r) \/ GiveUp(r)
      PROVE  StoreStep
  BY <1>4 DEF RegisterIssue, LoginCompare, GiveUp, StoreStep, stores
<1>5. ASSUME NEW r \in Request, NEW g \in granted, NEW k \in Outcomes, CreditLoad(r, g, k)
      PROVE  StoreStep
  BY <1>5 DEF CreditLoad, StoreStep, stores
<1>6. CASE UNCHANGED vars
  BY <1>6 DEF vars, StoreStep, stores
<1> QED
  BY <1>1, <1>2, <1>3, <1>4, <1>5, <1>6 DEF Next

----------------------------------------------------------------------------
(* The stores stay twins, and no account is lost or renamed.               *)

(* Every account of R is in S.                                             *)
Kept(R, S) == \A q \in R : \E s \in S :
          s.id = q.id /\ s.name = q.name /\ s.name_key = q.name_key /\ s.hash = q.hash

StoresTyped ==
  /\ \A r \in rows :
       /\ r = SQLite!row(SQLite!scanPlayer(r))
       /\ SQLite!scanPlayer(r) \in Player
  /\ DOMAIN byID \subseteq PlayerId /\ byID \in [DOMAIN byID -> Player]
  /\ DOMAIN byName \subseteq Name /\ byName \in [DOMAIN byName -> PlayerId]

LEMMA PlayerRow ==
  ASSUME NEW p \in Player
  PROVE  /\ p.id \in PlayerId /\ p.name \in Name /\ nameKey[p.name] \in Name
         /\ SQLite!row(p).id = p.id /\ SQLite!row(p).name = p.name
         /\ SQLite!row(p).name_key = nameKey[p.name] /\ SQLite!row(p).hash = p.hash
         /\ SQLite!scanPlayer(SQLite!row(p)) = p
BY NamesAreOrdered DEF SQLite!row, SQLite!scanPlayer, Player

LEMMA CreatedKeeps ==
  ASSUME TypeOK, Unique, Twins, NEW p \in Player, Created(p)
  PROVE  StoresTyped' /\ Unique' /\ Twins' /\ Kept(rows, rows')
<1> DEFINE new == SQLite!row(p)
<1>1. /\ new.id = p.id /\ new.name_key = nameKey[p.name]
      /\ SQLite!scanPlayer(new) = p
      /\ p.id \in PlayerId /\ nameKey[p.name] \in Name
  BY PlayerRow
<1>2. /\ rows' = rows \cup {new}
      /\ byID' = Memory!Put(byID, p.id, p)
      /\ byName' = Memory!Put(byName, nameKey[p.name], p.id)
      /\ \A q \in rows : q.id # p.id /\ q.name_key # nameKey[p.name]
  BY DEF Created
<1> HIDE DEF new
<1>3. StoresTyped'
  <2>1. \A r \in rows' : r = SQLite!row(SQLite!scanPlayer(r)) /\ SQLite!scanPlayer(r) \in Player
    BY <1>1, <1>2, Rows DEF new
  <2>2. DOMAIN byID' \subseteq PlayerId /\ byID' \in [DOMAIN byID' -> Player]
    BY <1>1, <1>2 DEF TypeOK, Memory!Put
  <2>3. DOMAIN byName' \subseteq Name /\ byName' \in [DOMAIN byName' -> PlayerId]
    BY <1>1, <1>2 DEF TypeOK, Memory!Put
  <2> QED
    BY <2>1, <2>2, <2>3 DEF StoresTyped
<1>4. Unique'
  BY <1>1, <1>2 DEF Unique
<1>5. Twins'
  <2>1. DOMAIN byID' = {q.id : q \in rows'} /\ DOMAIN byName' = {q.name_key : q \in rows'}
    BY <1>1, <1>2 DEF Twins, Memory!Put
  <2>2. \A q \in rows' : byID'[q.id] = SQLite!scanPlayer(q) /\ byName'[q.name_key] = q.id
    BY <1>1, <1>2 DEF Twins, Memory!Put
  <2> QED
    BY <2>1, <2>2 DEF Twins
<1>6. Kept(rows, rows')
  BY <1>2 DEF Kept
<1> QED
  BY <1>3, <1>4, <1>5, <1>6

LEMMA SavedKeeps ==
  ASSUME TypeOK, Unique, Twins, NEW p \in Player, Saved(p)
  PROVE  StoresTyped' /\ Unique' /\ Twins' /\ Kept(rows, rows')
<1> DEFINE new == SQLite!row(p)
           saved(q) == IF q.id = p.id THEN new ELSE q
<1>1. /\ new.id = p.id /\ new.name = p.name /\ new.name_key = nameKey[p.name]
      /\ new.hash = p.hash /\ SQLite!scanPlayer(new) = p /\ p.id \in PlayerId
  BY PlayerRow
<1>2. PICK old \in rows : old.id = p.id /\ old.name = p.name /\ old.hash = p.hash
  BY DEF Saved, Was
<1>3. old.name_key = nameKey[p.name]
  BY <1>2, Rows
<1>4. /\ rows' = {saved(q) : q \in rows}
      /\ byID' = Memory!Put(byID, p.id, p) /\ byName' = byName
  BY DEF Saved
<1>5. \A q \in rows : q.id = p.id => q = old
  BY <1>2 DEF Unique
<1> HIDE DEF new
<1>6. \A q \in rows :
        /\ saved(q).id = q.id /\ saved(q).name = q.name
        /\ saved(q).name_key = q.name_key /\ saved(q).hash = q.hash
  BY <1>1, <1>2, <1>3, <1>5
<1>7. StoresTyped'
  <2>1. \A r \in rows' : r = SQLite!row(SQLite!scanPlayer(r)) /\ SQLite!scanPlayer(r) \in Player
    BY <1>1, <1>4, Rows DEF new
  <2>2. DOMAIN byID' \subseteq PlayerId /\ byID' \in [DOMAIN byID' -> Player]
    BY <1>1, <1>4 DEF TypeOK, Memory!Put
  <2>3. DOMAIN byName' \subseteq Name /\ byName' \in [DOMAIN byName' -> PlayerId]
    BY <1>4 DEF TypeOK
  <2> QED
    BY <2>1, <2>2, <2>3 DEF StoresTyped
<1>8. Unique'
  BY <1>4, <1>6 DEF Unique
<1>9. Twins'
  <2>1. DOMAIN byID' = {q.id : q \in rows} /\ DOMAIN byName' = {q.name_key : q \in rows}
    BY <1>2, <1>4 DEF Twins, Memory!Put
  <2>2. {q.id : q \in rows} = {q.id : q \in rows'} /\ {q.name_key : q \in rows} = {q.name_key : q \in rows'}
    BY <1>4, <1>6
  <2>3. \A q \in rows : byID'[q.id] = SQLite!scanPlayer(saved(q))
    BY <1>1, <1>2, <1>4 DEF Twins, Memory!Put
  <2>4. \A q \in rows : byName'[q.name_key] = q.id
    BY <1>4 DEF Twins
  <2>5. \A q \in rows' : byID'[q.id] = SQLite!scanPlayer(q) /\ byName'[q.name_key] = q.id
    BY <1>4, <1>6, <2>3, <2>4
  <2> QED
    BY <2>1, <2>2, <2>5 DEF Twins
<1>10. Kept(rows, rows')
  BY <1>4, <1>6 DEF Kept
<1> QED
  BY <1>7, <1>8, <1>9, <1>10

LEMMA StoresKeep ==
  ASSUME TypeOK, Unique, Twins, StoreStep
  PROVE  StoresTyped' /\ Unique' /\ Twins' /\ Kept(rows, rows')
<1>1. CASE UNCHANGED stores
  <2>1. StoresTyped'
    BY <1>1 DEF TypeOK, StoresTyped, stores
  <2> QED
    BY <1>1, <2>1 DEF Unique, Twins, Kept, stores
<1> QED
  BY <1>1, CreatedKeeps, SavedKeeps DEF StoreStep

----------------------------------------------------------------------------
(* The calls keep their type and remember what is true.                    *)

LEMMA RememberedStays ==
  ASSUME NEW R, NEW S, Kept(R, S), NEW c, Remembered(R, c)
  PROVE  Remembered(S, c)
<1>1. \A i, n, hash : Owns(R, i, n, hash) => Owns(S, i, n, hash)
  BY DEF Kept, Owns
<1>2. Was(R, c.player) => Was(S, c.player)
  BY DEF Kept, Was
<1> QED
  BY <1>1, <1>2 DEF Remembered

(* One call goes on with c, and all the others as they were.               *)
LEMMA CallGoesOn ==
  ASSUME TypeOK, CallsRemember, Kept(rows, rows'), NEW r \in Request, NEW c \in Calls,
         Becomes(r, c), Remembered(rows', c)
  PROVE  call' \in [Request -> Calls] /\ CallsRemember'
<1>1. call' \in [Request -> Calls] /\ \A s \in Request : call'[s] = IF s = r THEN c ELSE call[s]
  BY DEF Becomes, TypeOK
<1>2. \A s \in Request : Remembered(rows', call[s])
  BY RememberedStays DEF CallsRemember
<1> QED
  BY <1>1, <1>2 DEF CallsRemember

LEMMA RefusedCall ==
  ASSUME NEW R, NEW stage \in {"free", "taken", "invalid"}, NEW n \in Name, NEW w \in Password,
         stage = "free" => ValidName(n)
  PROVE  LET c == [stage |-> stage, name |-> n, password |-> w] IN
         c \in Calls /\ Remembered(R, c)
BY DEF Calls, Remembered

LEMMA IdleCall ==
  ASSUME NEW R
  PROVE  [stage |-> "idle"] \in Calls /\ Remembered(R, [stage |-> "idle"])
BY DEF Calls, Remembered

LEMMA RegisterKeeps ==
  ASSUME Inv, Kept(rows, rows'), NEW r \in Request, NEW raw \in Raw, NEW w \in Password,
         RegisterLookup(r, raw, w)
  PROVE  call' \in [Request -> Calls] /\ CallsRemember'
<1> DEFINE n == trim[raw]
           stage == IF SQLite!ByName(n) = NotFound THEN "free" ELSE "taken"
<1>1. n \in Name /\ ValidName(n) /\ stage \in {"free", "taken"}
  BY NamesHaveLengths DEF RegisterLookup
<1>2. Becomes(r, [stage |-> stage, name |-> n, password |-> w])
  BY DEF RegisterLookup, Answered
<1> HIDE DEF n, stage
<1> QED
  BY <1>1, <1>2, RefusedCall, CallGoesOn DEF Inv

LEMMA LoginKeeps ==
  ASSUME Inv, Kept(rows, rows'), NEW r \in Request, NEW raw \in Raw, NEW w \in Password,
         LoginLookup(r, raw, w)
  PROVE  call' \in [Request -> Calls] /\ CallsRemember'
<1> DEFINE n == trim[raw]
           p == SQLite!ByName(n)
           found == [stage |-> "compare", name |-> n, password |-> w, id |-> p.id, hash |-> p.hash]
<1>1. n \in Name /\ rows' = rows
  BY NamesHaveLengths DEF LoginLookup, stores
<1>2. \/ Becomes(r, [stage |-> "invalid", name |-> n, password |-> w])
      \/ p # NotFound /\ Becomes(r, found)
  BY DEF LoginLookup, Answered
<1>3. ASSUME p # NotFound PROVE found \in Calls /\ Remembered(rows, found)
  <2>1. PICK q \in rows : q.name_key = nameKey[n] /\ p = SQLite!scanPlayer(q)
    BY <1>3 DEF SQLite!ByName, SQLite!queryOne
  <2>2. p.id = q.id /\ p.hash = q.hash
    BY <2>1 DEF SQLite!scanPlayer
  <2>3. q.id \in PlayerId /\ q.hash \in Hashes
    BY Rows DEF Inv
  <2> HIDE DEF p
  <2>4. found \in Calls
    BY <1>1, <2>2, <2>3 DEF Calls
  <2>5. Owns(rows, p.id, n, p.hash)
    BY <2>1, <2>2 DEF Owns
  <2> QED
    BY <2>4, <2>5 DEF Remembered
<1> HIDE DEF n, p, found
<1> QED
  BY <1>1, <1>2, <1>3, RefusedCall, CallGoesOn DEF Inv

LEMMA CreateKeeps ==
  ASSUME Inv, Kept(rows, rows'), NEW r \in Request, RegisterCreate(r)
  PROVE  call' \in [Request -> Calls] /\ CallsRemember'
<1> DEFINE n == call[r].name
           w == call[r].password
<1>1. n \in Name /\ w \in Password /\ ValidName(n)
  BY FreeCall DEF Inv, RegisterCreate
<1>2. PICK i \in PlayerId \ {q.id : q \in rows} :
        LET p == NewPlayer(i, n, Hash(w)) IN
        /\ SQLite!Create(p) /\ Memory!Create(p)
        /\ \/ Answered(r, "taken", p.name, w)
           \/ /\ SQLite!CreateError(p) = "none"
              /\ Becomes(r, [stage |-> "created", name |-> p.name, password |-> w, id |-> i])
  BY DEF RegisterCreate
<1> DEFINE p == NewPlayer(i, n, Hash(w))
           made == [stage |-> "created", name |-> n, password |-> w, id |-> i]
<1>3. p \in Player /\ p.id = i /\ p.name = n /\ p.hash = Hash(w)
  BY <1>1, FreshPlayer DEF NewPlayer
<1> HIDE DEF n, w, p
<1>4. \/ Becomes(r, [stage |-> "taken", name |-> n, password |-> w])
      \/ SQLite!CreateError(p) = "none" /\ Becomes(r, made)
  BY <1>2, <1>3 DEF Answered, p
<1>5. ASSUME SQLite!CreateError(p) = "none" PROVE made \in Calls /\ Remembered(rows', made)
  <2>1. Created(p)
    BY <1>2, <1>3, <1>5, Creating DEF Inv, p
  <2>2. SQLite!row(p) \in rows' /\ SQLite!row(p).id = i
        /\ SQLite!row(p).name_key = nameKey[n] /\ SQLite!row(p).hash = Hash(w)
    BY <1>3, <2>1, PlayerRow DEF Created
  <2>3. Owns(rows', i, n, Hash(w))
    BY <2>2 DEF Owns
  <2>4. made \in Calls
    BY <1>1 DEF Calls
  <2> QED
    BY <2>3, <2>4 DEF Remembered
<1> HIDE DEF made
<1> QED
  BY <1>1, <1>4, <1>5, RefusedCall, CallGoesOn DEF Inv

LEMMA CreditKeeps ==
  ASSUME Inv, Kept(rows, rows'), NEW r \in Request, NEW g \in granted, NEW k \in Outcomes,
         CreditLoad(r, g, k)
  PROVE  call' \in [Request -> Calls] /\ CallsRemember'
<1> DEFINE p == SQLite!ByID(Verify(g.token))
           loaded == [stage |-> "credit", player |-> Recorded(p, k)]
<1>1. p # NotFound /\ Becomes(r, loaded) /\ rows' = rows
  BY DEF CreditLoad, stores
<1>2. PICK q \in rows : p = SQLite!scanPlayer(q)
  BY <1>1 DEF SQLite!ByID, SQLite!queryOne
<1>3. p \in Player /\ p.id = q.id /\ p.name = q.name /\ p.hash = q.hash
  BY <1>2, Rows DEF Inv, SQLite!scanPlayer
<1> HIDE DEF p
<1>4. /\ Recorded(p, k) \in Player /\ Recorded(p, k).id = p.id
      /\ Recorded(p, k).name = p.name /\ Recorded(p, k).hash = p.hash
  BY <1>3 DEF Recorded, Player, Stats
<1>5. loaded \in Calls /\ Remembered(rows', loaded)
  BY <1>1, <1>3, <1>4 DEF Calls, Remembered, Was
<1> HIDE DEF loaded
<1> QED
  BY <1>1, <1>5, CallGoesOn DEF Inv

LEMMA CallsKeep ==
  ASSUME Inv, [Next]_vars, Kept(rows, rows')
  PROVE  call' \in [Request -> Calls] /\ CallsRemember'
<1>1. ASSUME NEW r \in Request, RegisterIssue(r) \/ CreditSave(r) \/ GiveUp(r)
      PROVE  call' \in [Request -> Calls] /\ CallsRemember'
  <2>1. Becomes(r, [stage |-> "idle"])
    BY <1>1 DEF RegisterIssue, Grant, CreditSave, GiveUp
  <2> QED
    BY <2>1, IdleCall, CallGoesOn DEF Inv
<1>2. ASSUME NEW r \in Request, LoginCompare(r)
      PROVE  call' \in [Request -> Calls] /\ CallsRemember'
  <2>1. call[r] \in Calls /\ call[r].stage = "compare"
    BY <1>2 DEF Inv, TypeOK, LoginCompare, At
  <2>2. call[r].name \in Name /\ call[r].password \in Password
    BY <2>1 DEF Calls
  <2>3. \/ Becomes(r, [stage |-> "idle"])
        \/ Becomes(r, [stage |-> "invalid", name |-> call[r].name, password |-> call[r].password])
    BY <1>2 DEF LoginCompare, Grant, Answered
  <2> QED
    BY <2>2, <2>3, IdleCall, RefusedCall, CallGoesOn DEF Inv
<1>3. CASE UNCHANGED vars
  BY <1>3 DEF Inv, TypeOK, CallsRemember, vars, stores
<1> QED
  BY <1>1, <1>2, <1>3, RegisterKeeps, LoginKeeps, CreateKeeps, CreditKeeps DEF Next

----------------------------------------------------------------------------
(* Tokens.                                                                 *)

GrantTyped == granted \subseteq [token : [sub : PlayerId], name : Name, password : Password]

LEMMA TokenStays ==
  ASSUME NEW R, NEW S, Kept(R, S), NEW g, Granted(R, g)
  PROVE  Granted(S, g)
BY DEF Kept, Granted, Owns

LEMMA Granting ==
  ASSUME Inv, NEW r \in Request, call[r].stage \in {"created", "compare"}, rows' = rows,
         call[r].stage = "compare" => Compare(call[r].hash, call[r].password),
         Grant(r, call[r].id)
  PROVE  GrantTyped' /\ TokensTrue'
<1> DEFINE i == call[r].id
           n == call[r].name
           w == call[r].password
           g == [token |-> Issue(i), name |-> n, password |-> w]
<1>1. call[r] \in Calls /\ Remembered(rows, call[r])
  BY DEF Inv, TypeOK, CallsRemember
<1>2. i \in PlayerId /\ n \in Name /\ w \in Password
      /\ (call[r].stage = "compare" => call[r].hash \in Hashes)
  BY <1>1 DEF Calls
<1>3. Owns(rows, i, n, Hash(w))
  <2>1. CASE call[r].stage = "created"
    BY <1>1, <2>1 DEF Remembered
  <2>2. CASE call[r].stage = "compare"
    <3>1. call[r].hash = Hash(w)
      BY <1>2, <2>2 DEF Hashes, Hash, Compare
    <3> QED
      BY <1>1, <2>2, <3>1 DEF Remembered
  <2> QED
    BY <2>1, <2>2
<1>4. granted' = granted \cup {g}
  BY DEF Grant
<1> HIDE DEF i, n, w
<1>5. g \in [token : [sub : PlayerId], name : Name, password : Password]
  BY <1>2 DEF Issue
<1>6. Granted(rows, g)
  BY <1>3 DEF Granted, Verify, Issue
<1> HIDE DEF g
<1> QED
  BY <1>4, <1>5, <1>6 DEF Inv, TypeOK, GrantTyped, TokensTrue

LEMMA TokensKeep ==
  ASSUME Inv, [Next]_vars, Kept(rows, rows')
  PROVE  GrantTyped' /\ TokensTrue'
<1>1. ASSUME NEW r \in Request, RegisterIssue(r)
      PROVE  GrantTyped' /\ TokensTrue'
  BY <1>1, Granting DEF RegisterIssue, At, stores
<1>2. ASSUME NEW r \in Request, LoginCompare(r), granted' # granted
      PROVE  GrantTyped' /\ TokensTrue'
  BY <1>2, Granting DEF LoginCompare, At, stores
<1>3. CASE granted' = granted
  BY <1>3, TokenStays DEF Inv, TypeOK, GrantTyped, TokensTrue
<1>4. \/ granted' = granted
      \/ \E r \in Request : RegisterIssue(r)
      \/ \E r \in Request : LoginCompare(r)
  <2>1. ASSUME NEW r \in Request, NEW raw \in Raw, NEW w \in Password,
               RegisterLookup(r, raw, w) \/ LoginLookup(r, raw, w)
        PROVE  granted' = granted
    BY <2>1 DEF RegisterLookup, LoginLookup
  <2>2. ASSUME NEW r \in Request, RegisterCreate(r) \/ CreditSave(r) \/ GiveUp(r)
        PROVE  granted' = granted
    BY <2>2 DEF RegisterCreate, CreditSave, GiveUp
  <2>3. ASSUME NEW r \in Request, NEW g \in granted, NEW k \in Outcomes, CreditLoad(r, g, k)
        PROVE  granted' = granted
    BY <2>3 DEF CreditLoad
  <2> QED
    BY <2>1, <2>2, <2>3 DEF Next, vars
<1> QED
  BY <1>1, <1>2, <1>3, <1>4

----------------------------------------------------------------------------
(* The theorems.                                                           *)

LEMMA InitInv == Init => Inv
<1> SUFFICES ASSUME Init PROVE Inv
  OBVIOUS
<1>1. TypeOK
  BY IdleCall DEF Init, TypeOK
<1>2. Unique /\ Twins /\ TokensTrue
  BY DEF Init, Unique, Twins, TokensTrue
<1>3. CallsRemember
  BY IdleCall DEF Init, CallsRemember
<1> QED
  BY <1>1, <1>2, <1>3 DEF Inv

LEMMA StepInv == Inv /\ [Next]_vars => Inv'
<1> SUFFICES ASSUME Inv, [Next]_vars PROVE Inv'
  OBVIOUS
<1>1. StoresTyped' /\ Unique' /\ Twins' /\ Kept(rows, rows')
  BY StepsOfTheStores, StoresKeep DEF Inv
<1>2. TypeOK'
  BY <1>1, CallsKeep, TokensKeep DEF TypeOK, StoresTyped, GrantTyped
<1> QED
  BY <1>1, <1>2, CallsKeep, TokensKeep DEF Inv

LEMMA Invariance == Spec => []Inv
BY InitInv, StepInv, PTL DEF Spec

(* Accounts, calls and tokens keep their types, and no account is made     *)
(* under a name that is empty or too long, however many requests overlap.  *)
THEOREM AccountsTyped == Spec => []TypeOK
<1>1. Inv => TypeOK
  BY DEF Inv
<1> QED
  BY <1>1, Invariance, PTL

(* Auth: a token opens the account of the name and the password it was     *)
(* asked with, for ever, although the hash compared was read earlier.      *)
THEOREM TokensSound == Spec => []TokenOpensOwnAccount
<1>1. Inv => TokenOpensOwnAccount
  <2> SUFFICES ASSUME Inv, NEW g \in granted
               PROVE  \E q \in rows : /\ q.id = Verify(g.token)
                                      /\ q.name_key = nameKey[g.name]
                                      /\ Compare(q.hash, g.password)
    BY DEF TokenOpensOwnAccount
  <2>1. PICK q \in rows : /\ q.id = Verify(g.token) /\ q.name_key = nameKey[g.name]
                          /\ q.hash = Hash(g.password)
    BY DEF Inv, TokensTrue, Granted, Owns
  <2>2. Compare(q.hash, g.password)
    BY <2>1 DEF Compare, Hash
  <2> QED
    BY <2>1, <2>2
<1> QED
  BY <1>1, Invariance, PTL

----------------------------------------------------------------------------
(* Both stores implement Directory.                                        *)

Listed == {SQLite!scanPlayer(r) : r \in rows}
Mapped == {byID[i] : i \in DOMAIN byID}

LEMMA CreatedLists ==
  ASSUME TypeOK, NEW p \in Player, Created(p)
  PROVE  InSQLite!Create(p) /\ p \in Listed'
<1>1. \A q \in rows : SQLite!scanPlayer(q).id = q.id
                      /\ nameKey[SQLite!scanPlayer(q).name] = q.name_key
  BY Rows DEF SQLite!scanPlayer
<1>2. \A u \in Listed : u.id # p.id /\ nameKey[u.name] # nameKey[p.name]
  BY <1>1 DEF Listed, Created
<1>3. Listed' = Listed \cup {p}
  BY PlayerRow DEF Listed, Created
<1> QED
  BY <1>2, <1>3 DEF InSQLite!Create, Listed

LEMMA SavedLists ==
  ASSUME TypeOK, Unique, NEW p \in Player, Saved(p)
  PROVE  InSQLite!Save(p) /\ p \in Listed'
<1> DEFINE new == SQLite!row(p)
<1>1. PICK old \in rows : old.id = p.id /\ old.name = p.name /\ old.hash = p.hash
  BY DEF Saved, Was
<1>2. \A q \in rows : q.id = p.id <=> q = old
  BY <1>1 DEF Unique
<1>3. SQLite!scanPlayer(new) = p
  BY PlayerRow
<1>4. rows' = {IF q.id = p.id THEN new ELSE q : q \in rows}
  BY DEF Saved
<1> HIDE DEF new
<1>5. rows' = (rows \ {old}) \cup {new}
  BY <1>1, <1>2, <1>4
<1>6. \A q \in rows : SQLite!scanPlayer(q).id = q.id
  BY DEF SQLite!scanPlayer
<1>7. \A q \in rows : SQLite!scanPlayer(q) = SQLite!scanPlayer(old) => q = old
  BY <1>1, <1>2, <1>6
<1>8. Listed' = (Listed \ {SQLite!scanPlayer(old)}) \cup {p}
  BY <1>3, <1>5, <1>7 DEF Listed
<1>9. SQLite!scanPlayer(old).id = p.id /\ SQLite!scanPlayer(old).name = p.name
      /\ SQLite!scanPlayer(old).hash = p.hash /\ SQLite!scanPlayer(old) \in Listed
  BY <1>1 DEF SQLite!scanPlayer, Listed
<1> QED
  BY <1>8, <1>9 DEF InSQLite!Save, Listed

LEMMA StepsOfTheDirectory ==
  ASSUME Inv, [Next]_vars
  PROVE  [InSQLite!Next]_Listed
<1>1. CASE UNCHANGED stores
  BY <1>1 DEF stores, Listed
<1>2. ASSUME NEW p \in Player, Created(p) \/ Saved(p) PROVE InSQLite!Next
  BY <1>2, CreatedLists, SavedLists DEF Inv, InSQLite!Next, Listed
<1> QED
  BY <1>1, <1>2, StepsOfTheStores DEF StoreStep

(* sqlite.PlayerStore implements the contract of the store suite: names    *)
(* stay unique whatever their capitals, and a save changes nothing but     *)
(* statistics, although requests write back copies read earlier.           *)
THEOREM SQLiteImplements == Spec => SQLiteKeepsContract
<1>1. Init => InSQLite!Init
  BY DEF Init, InSQLite!Init
<1>2. Inv /\ [Next]_vars => [InSQLite!Next]_{SQLite!scanPlayer(r) : r \in rows}
  BY StepsOfTheDirectory DEF Listed
<1> QED
  BY <1>1, <1>2, Invariance, PTL DEF Spec, SQLiteKeepsContract, InSQLite!Spec

(* memory.PlayerStore, given the same calls, implements it as well.        *)
THEOREM MemoryImplements == Spec => MemoryKeepsContract
<1>1. Init => InMemory!Init
  BY DEF Init, InMemory!Init
<1>2. Inv /\ Inv' /\ [Next]_vars => [InMemory!Next]_Mapped
  <2> SUFFICES ASSUME Inv, Inv', [Next]_vars PROVE [InMemory!Next]_Mapped
    OBVIOUS
  <2>1. Mapped = Listed /\ Mapped' = Listed'
    BY DEF Inv, Twins, Listed, Mapped
  <2>2. InSQLite!Next => InMemory!Next
    BY <2>1 DEF InSQLite!Next, InSQLite!Create, InSQLite!Save,
                InMemory!Next, InMemory!Create, InMemory!Save, Listed, Mapped
  <2> QED
    BY <2>1, <2>2, StepsOfTheDirectory
<1> QED
  BY <1>1, <1>2, Invariance, PTL DEF Spec, MemoryKeepsContract, InMemory!Spec, Mapped

----------------------------------------------------------------------------
(* Both stores answer as Directory does.                                   *)

LEMMA OneRow ==
  ASSUME NEW R, NEW q, R = {q}
  PROVE  SQLite!queryOne(R) = SQLite!scanPlayer(q)
BY DEF SQLite!queryOne

LEMMA OneListed ==
  ASSUME NEW S, NEW p, S = {p}
  PROVE  InSQLite!TheOne(S) = p
BY DEF InSQLite!TheOne

LEMMA SameByName ==
  ASSUME Inv, NEW n \in Name
  PROVE  SQLite!ByName(n) = InSQLite!ByName(n) /\ Memory!ByName(n) = InSQLite!ByName(n)
<1> DEFINE R == {q \in rows : q.name_key = nameKey[n]}
           S == {p \in Listed : nameKey[p.name] = nameKey[n]}
<1>1. \A q \in rows : SQLite!scanPlayer(q).name = q.name /\ q.name_key = nameKey[q.name]
  BY Rows DEF Inv, SQLite!scanPlayer
<1>2. CASE R = {}
  <2>1. S = {}
    BY <1>1, <1>2 DEF Listed
  <2>2. Memory!ByName(n) = NotFound
    BY <1>2 DEF Inv, Twins, Memory!ByName, Memory!keyOf
  <2> QED
    BY <1>2, <2>1, <2>2
    DEF SQLite!ByName, SQLite!queryOne, InSQLite!ByName, InSQLite!TheOne, Listed
<1>3. CASE R # {}
  <2>1. PICK q \in rows : q.name_key = nameKey[n]
    BY <1>3
  <2>2. R = {q}
    BY <2>1 DEF Inv, Unique
  <2>3. S = {SQLite!scanPlayer(q)}
    BY <1>1, <2>1, <2>2 DEF Listed
  <2>4. Memory!ByName(n) = SQLite!scanPlayer(q)
    BY <2>1 DEF Inv, Twins, Memory!ByName, Memory!keyOf, Memory!copyOf
  <2>5. SQLite!ByName(n) = SQLite!scanPlayer(q)
    BY <2>2, OneRow DEF SQLite!ByName
  <2>6. InSQLite!ByName(n) = SQLite!scanPlayer(q)
    BY <2>3, OneListed DEF InSQLite!ByName, Listed
  <2> QED
    BY <2>4, <2>5, <2>6
<1> QED
  BY <1>2, <1>3

LEMMA SameByID ==
  ASSUME Inv, NEW i \in PlayerId
  PROVE  SQLite!ByID(i) = InSQLite!ByID(i) /\ Memory!ByID(i) = InSQLite!ByID(i)
<1> DEFINE R == {q \in rows : q.id = i}
           S == {p \in Listed : p.id = i}
<1>1. \A q \in rows : SQLite!scanPlayer(q).id = q.id
  BY DEF SQLite!scanPlayer
<1>2. CASE R = {}
  <2>1. S = {}
    BY <1>1, <1>2 DEF Listed
  <2>2. Memory!ByID(i) = NotFound
    BY <1>2 DEF Inv, Twins, Memory!ByID, Memory!copyOf
  <2> QED
    BY <1>2, <2>1, <2>2
    DEF SQLite!ByID, SQLite!queryOne, InSQLite!ByID, InSQLite!TheOne, Listed
<1>3. CASE R # {}
  <2>1. PICK q \in rows : q.id = i
    BY <1>3
  <2>2. R = {q}
    BY <2>1 DEF Inv, Unique
  <2>3. S = {SQLite!scanPlayer(q)}
    BY <1>1, <2>1, <2>2 DEF Listed
  <2>4. Memory!ByID(i) = SQLite!scanPlayer(q)
    BY <2>1 DEF Inv, Twins, Memory!ByID, Memory!copyOf
  <2>5. SQLite!ByID(i) = SQLite!scanPlayer(q)
    BY <2>2, OneRow DEF SQLite!ByID
  <2>6. InSQLite!ByID(i) = SQLite!scanPlayer(q)
    BY <2>3, OneListed DEF InSQLite!ByID, Listed
  <2> QED
    BY <2>4, <2>5, <2>6
<1> QED
  BY <1>2, <1>3

(* "No use case can tell the difference" between the two stores: whatever  *)
(* calls have been made, both answer every lookup as the contract does and *)
(* accept or refuse the same new account.                                  *)
THEOREM StoresAgree == Spec => []StoresAnswerAlike
<1>1. Inv => StoresAnswerAlike
  <2> SUFFICES ASSUME Inv PROVE StoresAnswerAlike
    OBVIOUS
  <2>1. ASSUME NEW n \in Name, NEW w \in Password, NEW i \in PlayerId \ {q.id : q \in rows}
        PROVE  LET p == NewPlayer(i, n, Hash(w)) IN
               SQLite!CreateError(p) = Memory!CreateError(p)
    <3> DEFINE p == NewPlayer(i, n, Hash(w))
    <3>1. p.id = i /\ p.name = n
      BY DEF NewPlayer
    <3> HIDE DEF p
    <3>2. SQLite!isUniqueViolation(p) <=> \E q \in rows : q.name_key = nameKey[p.name]
      BY <2>1, <3>1 DEF SQLite!isUniqueViolation
    <3>3. Memory!taken(p) <=> \E q \in rows : q.name_key = nameKey[p.name]
      BY DEF Memory!taken, Memory!keyOf, Inv, Twins
    <3>4. SQLite!CreateError(p) = Memory!CreateError(p)
      BY <3>2, <3>3 DEF SQLite!CreateError, Memory!CreateError
    <3> QED
      BY <3>4 DEF p
  <2> QED
    BY <2>1, SameByName, SameByID DEF StoresAnswerAlike
<1> QED
  BY <1>1, Invariance, PTL
----------------------------------------------------------------------------
(* Refusals.                                                               *)

TrueRefusal(c) ==
  /\ c.stage = "taken" => \E q \in rows : q.name_key = nameKey[c.name]
  /\ c.stage = "invalid" =>
       ~\E q \in rows :
          /\ ValidName(c.name)
          /\ q.name_key = nameKey[c.name]
          /\ Compare(q.hash, c.password)

LEMMA LookedUp ==
  ASSUME TypeOK, NEW n
  PROVE  SQLite!ByName(n) = NotFound <=> ~\E q \in rows : q.name_key = nameKey[n]
<1> DEFINE R == {q \in rows : q.name_key = nameKey[n]}
<1>1. CASE R = {}
  BY <1>1 DEF SQLite!ByName, SQLite!queryOne
<1>2. CASE R # {}
  <2>1. (CHOOSE q \in R : TRUE) \in rows
    BY <1>2
  <2>2. SQLite!scanPlayer(CHOOSE q \in R : TRUE) \in Player
    BY <2>1, Rows
  <2>3. SQLite!ByName(n) # NotFound
    BY <1>2, <2>2, NotFoundAssumption DEF SQLite!ByName, SQLite!queryOne
  <2> QED
    BY <1>2, <2>3
<1> QED
  BY <1>1, <1>2

(* A hash that was read and does not match was the account's only one.     *)
LEMMA ComparedTruly ==
  ASSUME Inv, NEW r \in Request, At(r, "compare"), ~Compare(call[r].hash, call[r].password)
  PROVE  TrueRefusal([stage |-> "invalid", name |-> call[r].name, password |-> call[r].password])
<1>1. PICK q \in rows : q.name_key = nameKey[call[r].name] /\ q.hash = call[r].hash
  BY DEF Inv, CallsRemember, Remembered, At, Owns
<1>2. \A s \in rows : s.name_key = nameKey[call[r].name] => s = q
  BY <1>1 DEF Inv, Unique
<1> QED
  BY <1>1, <1>2 DEF TrueRefusal

(* A step answers one call at most, and truly.                             *)
LEMMA AnsweredTruly ==
  ASSUME Inv, [Next]_vars, NEW r \in Request, call'[r] # call[r]
  PROVE  TrueRefusal(call'[r])
<1> USE DEF Inv
<1>0. \A s \in Request : \A c : Becomes(s, c) => (s = r /\ call'[r] = c)
  BY DEF Becomes, TypeOK
<1>1. ASSUME NEW s \in Request, NEW raw \in Raw, NEW w \in Password, RegisterLookup(s, raw, w)
      PROVE  TrueRefusal(call'[r])
  <2> DEFINE c == [stage |-> IF SQLite!ByName(trim[raw]) = NotFound THEN "free" ELSE "taken",
                   name |-> trim[raw], password |-> w]
  <2>1. call'[r] = c
    BY <1>0, <1>1 DEF RegisterLookup, Answered
  <2>2. TrueRefusal(c)
    BY LookedUp DEF TrueRefusal
  <2> QED
    BY <2>1, <2>2
<1>2. ASSUME NEW s \in Request, RegisterCreate(s)
      PROVE  TrueRefusal(call'[r])
  <2>1. PICK i \in PlayerId \ {q.id : q \in rows} :
          LET p == NewPlayer(i, call[s].name, Hash(call[s].password)) IN
          \/ /\ SQLite!CreateError(p) = "NAME_TAKEN"
             /\ Answered(s, "taken", p.name, call[s].password)
          \/ /\ SQLite!CreateError(p) = "none"
             /\ Becomes(s, [stage |-> "created", name |-> p.name,
                            password |-> call[s].password, id |-> i])
    BY <1>2 DEF RegisterCreate
  <2> DEFINE p == NewPlayer(i, call[s].name, Hash(call[s].password))
  <2>2. p.id = i
    BY DEF NewPlayer
  <2> HIDE DEF p
  <2>3. CASE SQLite!CreateError(p) = "NAME_TAKEN" /\ Answered(s, "taken", p.name, call[s].password)
    <3>1. \E q \in rows : q.name_key = nameKey[p.name]
      BY <2>2, <2>3 DEF SQLite!CreateError, SQLite!isUniqueViolation
    <3>2. call'[r] = [stage |-> "taken", name |-> p.name, password |-> call[s].password]
      BY <1>0, <2>3 DEF Answered
    <3> QED
      BY <3>1, <3>2 DEF TrueRefusal
  <2>4. CASE Becomes(s, [stage |-> "created", name |-> p.name,
                         password |-> call[s].password, id |-> i])
    BY <1>0, <2>4 DEF TrueRefusal
  <2> QED
    BY <2>1, <2>3, <2>4 DEF p
<1>3. ASSUME NEW s \in Request, NEW raw \in Raw, NEW w \in Password, LoginLookup(s, raw, w)
      PROVE  TrueRefusal(call'[r])
  <2> DEFINE n == trim[raw]
             p == SQLite!ByName(n)
  <2>1. CASE (~ValidName(n) \/ p = NotFound) /\ Answered(s, "invalid", n, w)
    <3>1. call'[r] = [stage |-> "invalid", name |-> n, password |-> w]
      BY <1>0, <2>1 DEF Answered
    <3>2. ValidName(n) => ~\E q \in rows : q.name_key = nameKey[n]
      BY <2>1, LookedUp
    <3> HIDE DEF n
    <3> QED
      BY <3>1, <3>2 DEF TrueRefusal
  <2>2. CASE Becomes(s, [stage |-> "compare", name |-> n, password |-> w,
                         id |-> p.id, hash |-> p.hash])
    BY <1>0, <2>2 DEF TrueRefusal
  <2> QED
    BY <1>3, <2>1, <2>2 DEF LoginLookup
<1>4. ASSUME NEW s \in Request, LoginCompare(s)
      PROVE  TrueRefusal(call'[r])
  <2>1. CASE Grant(s, call[s].id)
    BY <1>0, <2>1 DEF Grant, TrueRefusal
  <2>2. CASE /\ ~Compare(call[s].hash, call[s].password)
             /\ Answered(s, "invalid", call[s].name, call[s].password)
    BY <1>0, <1>4, <2>2, ComparedTruly DEF LoginCompare, Answered
  <2> QED
    BY <1>4, <2>1, <2>2 DEF LoginCompare
<1>5. ASSUME NEW s \in Request, RegisterIssue(s) \/ CreditSave(s) \/ GiveUp(s)
      PROVE  TrueRefusal(call'[r])
  <2>1. Becomes(s, [stage |-> "idle"])
    BY <1>5 DEF RegisterIssue, CreditSave, GiveUp, Grant
  <2> QED
    BY <1>0, <2>1 DEF TrueRefusal
<1>6. ASSUME NEW s \in Request, NEW g \in granted, NEW outcome \in Outcomes,
             CreditLoad(s, g, outcome)
      PROVE  TrueRefusal(call'[r])
  <2>1. \E q : Becomes(s, [stage |-> "credit", player |-> q])
    BY <1>6 DEF CreditLoad
  <2> QED
    BY <1>0, <2>1 DEF TrueRefusal
<1>7. ~UNCHANGED vars
  BY DEF vars
<1> QED
  BY <1>1, <1>2, <1>3, <1>4, <1>5, <1>6, <1>7 DEF Next

(* Accounts: NAME_TAKEN is said of a name somebody has, and a password is  *)
(* refused only where no account of that name has it, whatever fails or    *)
(* overlaps.                                                               *)
THEOREM RefusalsSound == Spec => RefusalsTrue
<1>1. Inv /\ [Next]_vars =>
        [\A r \in Request : call'[r] # call[r] => TrueRefusal(call'[r])]_vars
  BY AnsweredTruly
<1> QED
  BY <1>1, Invariance, PTL DEF Spec, RefusalsTrue, TrueRefusal

----------------------------------------------------------------------------
(* A finite set that is ordered can be listed in order, in one way.        *)

(* R, a set of pairs, orders S strictly and totally.                       *)
Orders(R, S) ==
  /\ \A x \in S : <<x, x>> \notin R
  /\ \A x, y \in S : x = y \/ <<x, y>> \in R \/ <<y, x>> \in R
  /\ \A x, y, z \in S : <<x, y>> \in R /\ <<y, z>> \in R => <<x, z>> \in R

Lists(S) ==
  {s \in [1 .. Cardinality(S) -> S] :
     \A i, j \in 1 .. Cardinality(S) : i # j => s[i] # s[j]}

InOrder(R, s) == \A i, j \in DOMAIN s : i < j => <<s[j], s[i]>> \notin R

Below(R, S, x) == {y \in S : <<y, x>> \in R}

(* How many elements are before x tells x from the others.                 *)
LEMMA RanksDiffer ==
  ASSUME NEW S, IsFiniteSet(S), NEW R, Orders(R, S)
  PROVE  LET rank == [x \in S |-> Cardinality(Below(R, S, x)) + 1] IN
         /\ rank \in Bijection(S, 1 .. Cardinality(S))
         /\ \A x, y \in S : <<x, y>> \in R => rank[x] < rank[y]
<1> DEFINE n == Cardinality(S)
           rank == [x \in S |-> Cardinality(Below(R, S, x)) + 1]
<1>1. n \in Nat
  BY FS_CardinalityType
<1>2. ASSUME NEW x \in S
      PROVE  /\ IsFiniteSet(Below(R, S, x)) /\ Cardinality(Below(R, S, x)) \in Nat
             /\ Cardinality(Below(R, S, x)) < n
  <2>1. Below(R, S, x) \in SUBSET S /\ x \notin Below(R, S, x)
    BY DEF Below, Orders
  <2>2. /\ IsFiniteSet(Below(R, S, x)) /\ Cardinality(Below(R, S, x)) <= n
        /\ n # Cardinality(Below(R, S, x))
    BY <2>1, FS_Subset
  <2>3. Cardinality(Below(R, S, x)) \in Nat
    BY <2>2, FS_CardinalityType
  <2> QED
    BY <1>1, <2>2, <2>3
<1>3. ASSUME NEW x \in S, NEW y \in S, <<x, y>> \in R
      PROVE  Cardinality(Below(R, S, x)) < Cardinality(Below(R, S, y))
  <2>1. /\ Below(R, S, x) \in SUBSET Below(R, S, y)
        /\ x \in Below(R, S, y) /\ x \notin Below(R, S, x)
    BY <1>3 DEF Below, Orders
  <2>2. /\ Cardinality(Below(R, S, x)) <= Cardinality(Below(R, S, y))
        /\ Cardinality(Below(R, S, y)) # Cardinality(Below(R, S, x))
    BY <1>2, <2>1, FS_Subset
  <2> QED
    BY <1>2, <2>2
<1>4. \A x \in S : rank[x] = Cardinality(Below(R, S, x)) + 1 /\ rank[x] \in 1 .. n
  BY <1>1, <1>2
<1>5. \A x, y \in S : <<x, y>> \in R => rank[x] < rank[y]
  BY <1>2, <1>3, <1>4
<1>6. rank \in [S -> 1 .. n]
  BY <1>4
<1> HIDE DEF rank
<1>7. rank \in Injection(S, 1 .. n)
  <2> SUFFICES ASSUME NEW x \in S, NEW y \in S, rank[x] = rank[y]
               PROVE  x = y
    BY <1>6 DEF Injection, IsInjective
  <2>1. rank[x] \in Nat /\ rank[y] \in Nat
    BY <1>4
  <2>2. <<x, y>> \notin R /\ <<y, x>> \notin R
    BY <1>5, <2>1
  <2> QED
    BY <2>2 DEF Orders
<1>8. IsFiniteSet(1 .. n) /\ Cardinality(1 .. n) = n
  BY <1>1, FS_Interval
<1>9. rank \in Surjection(S, 1 .. n)
  BY <1>7, <1>8, FS_Injection
<1> QED
  BY <1>5, <1>7, <1>9 DEF rank, Bijection

(* In a list in order, an element is at its rank.                          *)
LEMMA PlacedByRank ==
  ASSUME NEW S, IsFiniteSet(S), NEW R, Orders(R, S), NEW s \in Lists(S), InOrder(R, s),
         NEW i \in 1 .. Cardinality(S)
  PROVE  Cardinality(Below(R, S, s[i])) + 1 = i
<1> DEFINE n == Cardinality(S)
           B == Below(R, S, s[i])
           f == [j \in 1 .. i - 1 |-> s[j]]
<1>1. n \in Nat /\ IsFiniteSet(1 .. n) /\ Cardinality(1 .. n) = n
  BY FS_CardinalityType, FS_Interval
<1>2. s \in Injection(1 .. n, S)
  BY DEF Lists, Injection, IsInjective
<1>3. s \in Surjection(1 .. n, S)
  BY <1>1, <1>2, FS_Injection
<1>4. /\ s \in [1 .. n -> S]
      /\ \A j, k \in 1 .. n : j # k => s[j] # s[k]
      /\ \A x \in S : \E j \in 1 .. n : s[j] = x
      /\ \A j, k \in 1 .. n : j < k => <<s[k], s[j]>> \notin R
  BY <1>3 DEF Lists, Surjection, InOrder
<1>5. i - 1 \in Nat /\ \A j \in 1 .. i - 1 : j \in 1 .. n /\ j < i
  BY <1>1
<1>6. \A j \in 1 .. i - 1 : s[j] \in B
  <2> SUFFICES ASSUME NEW j \in 1 .. i - 1 PROVE s[j] \in B
    OBVIOUS
  <2>1. j \in 1 .. n /\ j # i /\ <<s[i], s[j]>> \notin R /\ s[j] # s[i]
    BY <1>4, <1>5
  <2>2. s[i] \in S /\ s[j] \in S
    BY <1>4, <2>1
  <2>3. <<s[j], s[i]>> \in R
    BY <2>1, <2>2 DEF Orders
  <2> QED
    BY <2>2, <2>3 DEF Below
<1>7. \A x \in B : \E j \in 1 .. i - 1 : s[j] = x
  <2> SUFFICES ASSUME NEW x \in B PROVE \E j \in 1 .. i - 1 : s[j] = x
    OBVIOUS
  <2>1. x \in S /\ <<x, s[i]>> \in R /\ s[i] \in S
    BY <1>4 DEF Below
  <2>2. PICK j \in 1 .. n : s[j] = x
    BY <1>4, <2>1
  <2>3. j # i
    BY <2>1, <2>2 DEF Orders
  <2>4. ~(i < j)
    BY <1>4, <2>1, <2>2
  <2> QED
    BY <1>1, <2>2, <2>3, <2>4
<1> HIDE DEF B
<1>8. f \in [1 .. i - 1 -> B]
  BY <1>6
<1>9. f \in Injection(1 .. i - 1, B)
  <2>1. \A j, k \in 1 .. i - 1 : f[j] = f[k] => j = k
    BY <1>4, <1>5
  <2> QED
    BY <1>8, <2>1 DEF Injection, IsInjective
<1>10. f \in Surjection(1 .. i - 1, B)
  BY <1>7, <1>8 DEF Surjection
<1>11. ExistsBijection(1 .. i - 1, B)
  BY <1>9, <1>10 DEF ExistsBijection, Bijection
<1>12. IsFiniteSet(1 .. i - 1) /\ Cardinality(1 .. i - 1) = i - 1
  BY <1>5, FS_Interval
<1>13. Cardinality(B) = i - 1
  BY <1>11, <1>12, FS_Bijection
<1> QED
  BY <1>13 DEF B

LEMMA OneInOrder ==
  ASSUME NEW S, IsFiniteSet(S), NEW R, Orders(R, S)
  PROVE  \E s : {t \in Lists(S) : InOrder(R, t)} = {s}
<1> DEFINE n == Cardinality(S)
           rank == [x \in S |-> Cardinality(Below(R, S, x)) + 1]
           s == [i \in 1 .. n |-> CHOOSE x \in S : rank[x] = i]
<1>1. /\ rank \in Bijection(S, 1 .. n)
      /\ \A x, y \in S : <<x, y>> \in R => rank[x] < rank[y]
  BY RanksDiffer
<1>2. \A t \in Lists(S) : InOrder(R, t) => \A i \in 1 .. n : t[i] \in S /\ rank[t[i]] = i
  <2> SUFFICES ASSUME NEW t \in Lists(S), InOrder(R, t), NEW i \in 1 .. n
               PROVE  t[i] \in S /\ rank[t[i]] = i
    OBVIOUS
  <2>1. t[i] \in S
    BY DEF Lists
  <2> QED
    BY <2>1, PlacedByRank
<1> HIDE DEF rank
<1>3. /\ \A x, y \in S : rank[x] = rank[y] => x = y
      /\ \A i \in 1 .. n : \E x \in S : rank[x] = i
  BY <1>1 DEF Bijection, Injection, IsInjective, Surjection
<1>4. \A i \in 1 .. n : s[i] \in S /\ rank[s[i]] = i
  BY <1>3
<1>5. s \in [1 .. n -> S]
  BY <1>4
<1> HIDE DEF s
<1>6. s \in Lists(S)
  BY <1>4, <1>5 DEF Lists
<1>7. InOrder(R, s)
  <2> SUFFICES ASSUME NEW i \in 1 .. n, NEW j \in 1 .. n, i < j, <<s[j], s[i]>> \in R
               PROVE  FALSE
    BY <1>5 DEF InOrder
  <2>1. rank[s[j]] < rank[s[i]]
    BY <1>1, <1>4
  <2> QED
    BY <1>4, <2>1
<1>8. \A t \in Lists(S) : InOrder(R, t) => t = s
  <2> SUFFICES ASSUME NEW t \in Lists(S), InOrder(R, t) PROVE t = s
    OBVIOUS
  <2>1. t \in [1 .. n -> S]
    BY DEF Lists
  <2>2. \A i \in 1 .. n : t[i] = s[i]
    BY <1>2, <1>3, <1>4
  <2>3. t = [i \in 1 .. n |-> t[i]] /\ s = [i \in 1 .. n |-> s[i]]
    BY <1>5, <2>1
  <2> QED
    BY <2>2, <2>3, Zenon
<1> QED
  BY <1>6, <1>7, <1>8

----------------------------------------------------------------------------
(* The leaderboard.                                                        *)

Finite == IsFiniteSet(rows)

LEMMA FiniteStep ==
  ASSUME Inv, Finite, [Next]_vars
  PROVE  Finite'
<1>1. CASE UNCHANGED stores
  BY <1>1 DEF stores, Finite
<1>2. ASSUME NEW p \in Player, Created(p) PROVE Finite'
  BY <1>2, FS_AddElement DEF Created, Finite
<1>3. ASSUME NEW p \in Player, Saved(p) PROVE Finite'
  <2> DEFINE f == [q \in rows |-> IF q.id = p.id THEN SQLite!row(p) ELSE q]
  <2>1. f \in Surjection(rows, rows')
    BY <1>3 DEF Saved, Surjection
  <2> QED
    BY <2>1, FS_Surjection DEF Finite
<1> QED
  BY <1>1, <1>2, <1>3, StepsOfTheStores DEF StoreStep

RowOrder == {e \in rows \X rows : SQLite!before(e[1], e[2])}
PlayerOrder == {e \in Listed \X Listed : Memory!less(e[1], e[2])}

(* No two rows tie: their names differ, and names are ordered.             *)
LEMMA RowsOrdered ==
  ASSUME Inv
  PROVE  Orders(RowOrder, rows)
<1>1. ASSUME NEW q \in rows
      PROVE  q.name \in Int /\ q.stats.wins \in Int /\ q.stats.losses \in Int
  <2>1. q.name \in Name /\ q.stats \in [Outcomes -> Nat]
    BY Rows DEF Inv, Stats
  <2>2. "wins" \in Outcomes /\ "losses" \in Outcomes
    BY DEF Outcomes
  <2>3. q.name \in Int
    BY <2>1, NamesAreOrdered
  <2>4. q.stats.wins \in Nat /\ q.stats.losses \in Nat
    BY <2>1, <2>2
  <2> QED
    BY <2>3, <2>4
<1>2. \A q, r \in rows : q.name = r.name => q = r
  BY Rows DEF Inv, Unique
<1>3. \A q, r \in rows : <<q, r>> \in RowOrder <=> SQLite!before(q, r)
  BY DEF RowOrder
<1>4. \A q \in rows : ~SQLite!before(q, q)
  BY <1>1 DEF SQLite!before
<1>5. \A q, r \in rows : q = r \/ SQLite!before(q, r) \/ SQLite!before(r, q)
  BY <1>1, <1>2 DEF SQLite!before
<1>6. \A q, r, u \in rows :
        SQLite!before(q, r) /\ SQLite!before(r, u) => SQLite!before(q, u)
  BY <1>1 DEF SQLite!before
<1> QED
  BY <1>3, <1>4, <1>5, <1>6 DEF Orders

(* The players are the rows, without the keys.                             *)
LEMMA PlayersOfRows ==
  ASSUME Inv, Finite
  PROVE  /\ Mapped = Listed
         /\ \A q, r \in rows : SQLite!scanPlayer(q) = SQLite!scanPlayer(r) => q = r
         /\ \A q, r \in rows :
              Memory!less(SQLite!scanPlayer(q), SQLite!scanPlayer(r)) <=> SQLite!before(q, r)
         /\ IsFiniteSet(Listed) /\ Cardinality(Listed) = Cardinality(rows)
         /\ Orders(PlayerOrder, Listed)
<1> DEFINE f == [q \in rows |-> SQLite!scanPlayer(q)]
<1>1. Mapped = Listed
  BY DEF Inv, Twins, Mapped, Listed
<1>2. \A q, r \in rows : SQLite!scanPlayer(q) = SQLite!scanPlayer(r) => q = r
  BY DEF Inv, Unique, SQLite!scanPlayer
<1>3. \A q, r \in rows :
        Memory!less(SQLite!scanPlayer(q), SQLite!scanPlayer(r)) <=> SQLite!before(q, r)
  BY DEF Memory!less, SQLite!before, SQLite!scanPlayer
<1>4. f \in Bijection(rows, Listed)
  BY <1>2 DEF Listed, Bijection, Injection, IsInjective, Surjection
<1>5. IsFiniteSet(Listed) /\ Cardinality(Listed) = Cardinality(rows)
  BY <1>4, FS_Bijection DEF Finite, ExistsBijection
<1>6. \A x \in Listed : \E q \in rows : x = SQLite!scanPlayer(q)
  BY DEF Listed
<1>7. \A q, r \in rows :
        <<SQLite!scanPlayer(q), SQLite!scanPlayer(r)>> \in PlayerOrder <=> <<q, r>> \in RowOrder
  BY <1>3 DEF PlayerOrder, RowOrder, Listed
<1>8. Orders(RowOrder, rows)
  BY RowsOrdered
<1>9. Orders(PlayerOrder, Listed)
  <2>1. \A x \in Listed : <<x, x>> \notin PlayerOrder
    BY <1>6, <1>7, <1>8 DEF Orders
  <2>2. \A x, y \in Listed : x = y \/ <<x, y>> \in PlayerOrder \/ <<y, x>> \in PlayerOrder
    BY <1>6, <1>7, <1>8 DEF Orders
  <2>3. \A x, y, z \in Listed :
          <<x, y>> \in PlayerOrder /\ <<y, z>> \in PlayerOrder => <<x, z>> \in PlayerOrder
    BY <1>6, <1>7, <1>8 DEF Orders
  <2> QED
    BY <2>1, <2>2, <2>3 DEF Orders
<1> QED
  BY <1>1, <1>2, <1>3, <1>5, <1>9

(* What each store may answer is the first of the one list in order.       *)
LEMMA OneAnswer ==
  ASSUME Inv, Finite, NEW limit \in Nat
  PROVE  LET n == Cardinality(rows)
             m == IF limit < n THEN limit ELSE n
         IN \E q \in Lists(Listed) :
              /\ InOrder(PlayerOrder, q)
              /\ SQLite!Top(limit) = {[i \in 1 .. m |-> q[i]]}
              /\ Memory!Top(limit) = {[i \in 1 .. m |-> q[i]]}
<1> DEFINE n == Cardinality(rows)
           m == IF limit < n THEN limit ELSE n
<1>1. n \in Nat /\ m \in Nat /\ m <= n
  BY FS_CardinalityType DEF Finite
<1>2. PICK s : {t \in Lists(rows) : InOrder(RowOrder, t)} = {s}
  BY OneInOrder, RowsOrdered DEF Finite
<1> DEFINE q == [i \in 1 .. n |-> SQLite!scanPlayer(s[i])]
<1>3. /\ s \in [1 .. n -> rows] /\ InOrder(RowOrder, s)
      /\ \A i, j \in 1 .. n : i # j => s[i] # s[j]
  BY <1>2 DEF Lists
<1>4. \A i \in 1 .. n : s[i] \in rows /\ q[i] = SQLite!scanPlayer(s[i]) /\ q[i] \in Listed
  BY <1>3 DEF Listed
<1>5. q \in Lists(Listed)
  BY <1>3, <1>4, PlayersOfRows DEF Lists
<1>6. DOMAIN q = 1 .. n /\ DOMAIN s = 1 .. n
  BY <1>3
<1> HIDE DEF q
<1>7. InOrder(PlayerOrder, q)
  <2> SUFFICES ASSUME NEW i \in 1 .. n, NEW j \in 1 .. n, i < j, <<q[j], q[i]>> \in PlayerOrder
               PROVE  FALSE
    BY <1>6 DEF InOrder
  <2>1. Memory!less(q[j], q[i])
    BY DEF PlayerOrder
  <2>2. SQLite!before(s[j], s[i])
    BY <1>4, <2>1, PlayersOfRows
  <2>3. <<s[j], s[i]>> \in RowOrder
    BY <1>4, <2>2 DEF RowOrder
  <2> QED
    BY <1>3, <1>6, <2>3 DEF InOrder
<1>8. {t \in Lists(Listed) : InOrder(PlayerOrder, t)} = {q}
  <2>1. PICK r : {t \in Lists(Listed) : InOrder(PlayerOrder, t)} = {r}
    <3>1. IsFiniteSet(Listed) /\ Orders(PlayerOrder, Listed)
      BY PlayersOfRows
    <3> QED
      BY <3>1, OneInOrder
  <2>2. q = r
    BY <1>5, <1>7, <2>1
  <2> QED
    BY <2>1, <2>2
<1>9. SQLite!Top(limit) = {[i \in 1 .. m |-> q[i]]}
  <2>1. SQLite!SetToSeqs(rows) = Lists(rows)
    BY DEF SQLite!SetToSeqs, SQLite!Cardinality, Cardinality, Lists
  <2>2. ASSUME NEW t \in Lists(rows)
        PROVE  (\A i, j \in DOMAIN t : i < j => ~SQLite!before(t[j], t[i])) <=> InOrder(RowOrder, t)
    <3>1. \A i \in DOMAIN t : t[i] \in rows
      BY DEF Lists
    <3> QED
      BY <3>1 DEF InOrder, RowOrder
  <2>3. {t \in SQLite!SetToSeqs(rows) :
           \A i, j \in DOMAIN t : i < j => ~SQLite!before(t[j], t[i])} = {s}
    BY <1>2, <2>1, <2>2
  <2>4. SQLite!Top(limit) =
          {[i \in 1 .. (IF limit < Len(s) THEN limit ELSE Len(s)) |-> SQLite!scanPlayer(s[i])]}
    BY <2>3 DEF SQLite!Top
  <2>5. Len(s) = n
    BY <1>1, <1>3
  <2>6. \A i \in 1 .. m : SQLite!scanPlayer(s[i]) = q[i]
    BY <1>1, <1>4
  <2>7. [i \in 1 .. m |-> SQLite!scanPlayer(s[i])] = [i \in 1 .. m |-> q[i]]
    BY <2>6
  <2> QED
    BY <2>4, <2>5, <2>7
<1>10. Memory!Top(limit) = {[i \in 1 .. m |-> q[i]]}
  <2>1. Memory!Range(byID) = Listed
    BY PlayersOfRows DEF Memory!Range, Mapped
  <2>2. Memory!SetToSeqs(Listed) = Lists(Listed)
    BY DEF Memory!SetToSeqs, Memory!Cardinality, Cardinality, Lists
  <2>3. ASSUME NEW t \in Lists(Listed)
        PROVE  (\A i, j \in DOMAIN t : i < j => ~Memory!less(t[j], t[i])) <=> InOrder(PlayerOrder, t)
    <3>1. \A i \in DOMAIN t : t[i] \in Listed
      BY DEF Lists
    <3> QED
      BY <3>1 DEF InOrder, PlayerOrder
  <2>4. {t \in Memory!SetToSeqs(Memory!Range(byID)) :
           \A i, j \in DOMAIN t : i < j => ~Memory!less(t[j], t[i])} = {q}
    BY <1>8, <2>1, <2>2, <2>3
  <2>5. Memory!Top(limit) = {SubSeq(q, 1, IF limit < Len(q) THEN limit ELSE Len(q))}
    BY <2>4 DEF Memory!Top
  <2>6. q \in [1 .. n -> Listed]
    BY <1>5, PlayersOfRows DEF Lists
  <2>7. Len(q) = n /\ q \in Seq(Listed)
    BY <1>1, <2>6
  <2>8. SubSeq(q, 1, m) = [i \in 1 .. m |-> q[i]]
    BY <1>1, <2>7
  <2> QED
    BY <2>5, <2>7, <2>8
<1> QED
  BY <1>5, <1>7, <1>9, <1>10

(* That list is a leaderboard as the contract has it.                      *)
LEMMA AnswerIsTop ==
  ASSUME Inv, Finite, NEW limit \in Nat, NEW q \in Lists(Listed), InOrder(PlayerOrder, q)
  PROVE  LET n == Cardinality(rows)
             m == IF limit < n THEN limit ELSE n
         IN InSQLite!IsTop([i \in 1 .. m |-> q[i]], limit)
<1> DEFINE n == Cardinality(rows)
           m == IF limit < n THEN limit ELSE n
           s == [i \in 1 .. m |-> q[i]]
<1>1. n \in Nat /\ m \in Nat /\ m <= n /\ \A i \in 1 .. m : i \in 1 .. n
  BY FS_CardinalityType DEF Finite
<1>2. /\ IsFiniteSet(Listed) /\ Cardinality(Listed) = n
      /\ Orders(PlayerOrder, Listed)
  BY PlayersOfRows
<1>3. /\ q \in [1 .. n -> Listed]
      /\ \A i, j \in 1 .. n : i # j => q[i] # q[j]
      /\ \A i, j \in 1 .. n : i < j => <<q[j], q[i]>> \notin PlayerOrder
  BY <1>2 DEF Lists, InOrder
<1>4. q \in Surjection(1 .. n, Listed)
  <2>1. q \in Injection(1 .. n, Listed)
    BY <1>3 DEF Injection, IsInjective
  <2>2. Cardinality(1 .. n) = n
    BY <1>1, FS_Interval
  <2> QED
    BY <1>2, <2>1, <2>2, FS_Injection
<1>5. \A x \in Listed : \E i \in 1 .. n : q[i] = x
  BY <1>4 DEF Surjection
<1>6. \A x, y \in Listed : InSQLite!Outranks(x, y) => <<x, y>> \in PlayerOrder
  BY DEF PlayerOrder, InSQLite!Outranks, Memory!less
<1>7. s \in [1 .. m -> Listed] /\ \A i \in 1 .. m : s[i] = q[i] /\ s[i] \in Listed
  BY <1>1, <1>3
<1> HIDE DEF s
<1>8. DOMAIN s = 1 .. m /\ Len(s) = m
  BY <1>1, <1>7
<1>9. InSQLite!Cardinality(Listed) = n
  <2>1. InSQLite!Cardinality(Listed) = Cardinality(Listed)
    BY DEF InSQLite!Cardinality, Cardinality
  <2> QED
    BY <1>2, <2>1
<1>10. InSQLite!ToSet(s) = {s[i] : i \in 1 .. m}
  BY <1>8 DEF InSQLite!ToSet
<1>11. InSQLite!IsInjective(s)
  BY <1>1, <1>3, <1>7, <1>8 DEF InSQLite!IsInjective
<1>12. \A i, j \in 1 .. m : i < j => ~InSQLite!Outranks(s[j], s[i])
  BY <1>1, <1>3, <1>6, <1>7
<1>13. ASSUME NEW x \in Listed, x \notin {s[i] : i \in 1 .. m}, NEW i \in 1 .. m
       PROVE  ~InSQLite!Outranks(x, s[i])
  <2>1. PICK j \in 1 .. n : q[j] = x
    BY <1>5
  <2>2. j \notin 1 .. m
    BY <1>7, <1>13, <2>1
  <2>3. i < j
    BY <1>1, <2>2
  <2> QED
    BY <1>1, <1>3, <1>6, <1>7, <2>1, <2>3
<1>14. {s[i] : i \in 1 .. m} \subseteq Listed
  BY <1>7
<1>15. InSQLite!IsTop(s, limit)
  BY <1>8, <1>9, <1>10, <1>11, <1>12, <1>13, <1>14 DEF InSQLite!IsTop, Listed
<1> QED
  BY <1>15 DEF s

(* Leaderboard.Top: whatever the accounts and the limit, ties included,    *)
(* there is one answer, either store gives it, and it is the best players, *)
(* ranked.                                                                 *)
THEOREM LeaderboardSound == Spec => []LeaderboardExact
<1>1. ASSUME Inv, Finite PROVE LeaderboardExact
  <2> SUFFICES ASSUME NEW limit \in Limit
               PROVE  \E b \in Standings(limit) :
                        LET s == [i \in DOMAIN b |-> b[i].player] IN
                        /\ Standings(limit) = {b}
                        /\ Memory!Top(clamp(limit)) = {s}
                        /\ InSQLite!IsTop(s, clamp(limit))
                        /\ Len(b) <= MaxLimit /\ \A i \in DOMAIN b : b[i].rank = i
                        /\ rows # {} => s # <<>>
    BY DEF LeaderboardExact
  <2> DEFINE k == clamp(limit)
             n == Cardinality(rows)
             m == IF k < n THEN k ELSE n
  <2>1. k \in Nat /\ k > 0 /\ k <= MaxLimit
    BY LimitsAreOrdered DEF clamp
  <2>2. n \in Nat /\ (rows # {} => n > 0)
    BY <1>1, FS_CardinalityType, FS_EmptySet DEF Finite
  <2> HIDE DEF k
  <2>3. PICK q \in Lists(Listed) :
          /\ InOrder(PlayerOrder, q)
          /\ SQLite!Top(k) = {[i \in 1 .. m |-> q[i]]}
          /\ Memory!Top(k) = {[i \in 1 .. m |-> q[i]]}
    BY <1>1, <2>1, OneAnswer
  <2> DEFINE s == [i \in 1 .. m |-> q[i]]
             b == [i \in 1 .. m |-> [rank |-> i, player |-> s[i]]]
  <2>4. InSQLite!IsTop(s, k)
    BY <1>1, <2>1, <2>3, AnswerIsTop
  <2>5. DOMAIN s = 1 .. m /\ (rows # {} => 1 \in 1 .. m)
    BY <2>1, <2>2
  <2>6. Standings(limit) = {[i \in DOMAIN t |-> [rank |-> i, player |-> t[i]]] : t \in {s}}
    BY <2>3 DEF Standings, k
  <2>13. m \in Nat /\ m <= MaxLimit
    BY <2>1, <2>2, LimitsAreOrdered
  <2> HIDE DEF m, n
  <2>7. Standings(limit) = {b}
    BY <2>5, <2>6
  <2>8. DOMAIN b = 1 .. m /\ \A i \in 1 .. m : b[i].rank = i /\ b[i].player = s[i]
    OBVIOUS
  <2>9. [i \in DOMAIN b |-> b[i].player] = s
    BY <2>8
  <2>14. Len(b) <= MaxLimit
    BY <2>13
  <2>10. rows # {} => s # <<>>
    BY <2>5
  <2>11. b \in Standings(limit)
    BY <2>7
  <2>12. Memory!Top(k) = {s}
    BY <2>3
  <2> HIDE DEF s, b
  <2> WITNESS b \in Standings(limit)
  <2> QED
    BY <2>4, <2>7, <2>8, <2>9, <2>10, <2>12, <2>14 DEF k
<1>2. Init => Finite
  BY FS_EmptySet DEF Init, Finite
<1>3. Inv /\ Finite /\ [Next]_vars => Finite'
  BY FiniteStep
<1> QED
  BY <1>1, <1>2, <1>3, Invariance, PTL DEF Spec
=============================================================================

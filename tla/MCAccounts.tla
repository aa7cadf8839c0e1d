----------------------------- MODULE MCAccounts -----------------------------
(***************************************************************************)
(* A small instance of Accounts.  The names, in byte order, are the empty  *)
(* one (0), Alice (1), alice (2) and bob (3); a client may type spaces     *)
(* around one.  Two accounts are enough for a tie, and the third id is for *)
(* a registration that is refused.                                         *)
(***************************************************************************)
EXTENDS Accounts, TLC

MCName == 0 .. 3
MCnameKey == <<2, 2, 3>> @@ 0 :> 0
MCbytes == <<5, 5, 3>> @@ 0 :> 0
MCRaw == {"   ", "Alice", " alice ", "bob"}
MCtrim == "   " :> 0 @@ "Alice" :> 1 @@ " alice " :> 2 @@ "bob" :> 3
MCPassword == {"password123", "qwertyuiop", "seven77"}
MClength == "password123" :> 11 @@ "qwertyuiop" :> 10 @@ "seven77" :> 7

(* Below, at and above every limit of the leaderboard.                     *)
MCLimit == {-1, 0, 1, 2, 3}

Symmetry == Permutations(PlayerId) \cup Permutations(Request)
=============================================================================

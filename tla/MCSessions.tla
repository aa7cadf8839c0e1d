---------------------------- MODULE MCSessions ----------------------------
(***************************************************************************)
(* Small instances of Sessions: alice has two sockets, one after the other *)
(* or one replacing the other, bob has none, and the requests are of       *)
(* either, so that what happens to alice's sockets meets everything that   *)
(* she or her opponent may do over HTTP.  A send channel of one frame is   *)
(* full as soon as the writer falls one frame behind.                      *)
(***************************************************************************)
EXTENDS Sessions, TLC

CONSTANTS alice, bob

MCPlayer == {alice, bob}
MCClient == [c \in Socket |-> alice]
=============================================================================

------------------------------ MODULE Progress ------------------------------
(***************************************************************************)
(* A match reduced to its length and its status.  Games is written against *)
(* this reduction, and Match implements it, so nothing Games assumes of a  *)
(* match is more than the domain delivers.                                 *)
(***************************************************************************)
EXTENDS Verdicts

VARIABLES length, standing

Init == length = 0 /\ standing = "in_progress"

Next ==
  /\ standing = "in_progress"
  /\ length' = length + 1
  /\ standing' \in StatusAfter(length')

Spec == Init /\ [][Next]_<<length, standing>>
=============================================================================

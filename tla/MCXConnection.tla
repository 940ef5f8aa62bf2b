--------------------------- MODULE MCXConnection ---------------------------
(* Small instances of XConnection for TLC: two server processes, so that  *)
(* what the first leaves behind can meet the second.                       *)
EXTENDS XConnection, TLC

Servers == Permutations(Server)
=============================================================================

--------------------------- MODULE MCTouchScreen ---------------------------
(* Small instances of TouchScreen for TLC: a grid of four positions.       *)
EXTENDS TouchScreen, TLC

Fingers == Permutations(Finger)
=============================================================================

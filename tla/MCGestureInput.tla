--------------------------- MODULE MCGestureInput ---------------------------
(* Small instances of GestureInput for TLC.                                *)
EXTENDS GestureInput, TLC

Fingers == Permutations(Finger)
=============================================================================

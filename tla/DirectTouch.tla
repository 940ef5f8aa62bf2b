---------------------------- MODULE DirectTouch ----------------------------
(***************************************************************************)
(* InputEventSender.sendTouchEvent: in touch mode each finger is a touch   *)
(* of its own at the X server.  Coordinates are left out.                  *)
(***************************************************************************)
CONSTANT Finger      \* pointer ids, 0 to 9 in the code

VARIABLES
    pointers,        \* [Finger -> BOOLEAN]
    remote           \* touches that have begun, and not ended, at the X server

touch == <<pointers, remote>>

DirectInit == pointers = [f \in Finger |-> FALSE] /\ remote = {}

(* Two mutants of SendMove: `pointers` sized by the event, and the loop of  *)
(* ends run before the event is recorded.                                  *)
SendMoveSized(fingers) ==
    /\ pointers' = [f \in fingers |-> TRUE]
    /\ remote' = remote

SendMoveLate(fingers) ==
    /\ pointers' = [f \in Finger |-> f \in fingers \/ pointers[f]]
    /\ remote' = {f \in remote : pointers[f]}

(* MOVE and the hover events: an update for each finger of the event, an   *)
(* end for each id that is not set in `pointers`.                          *)
SendMove(fingers) ==
    /\ pointers' = [f \in Finger |-> f \in fingers \/ pointers[f]]
    /\ remote' = {f \in remote : pointers'[f]}

SendBegin(f) == remote' = remote \cup {f} /\ UNCHANGED pointers

(* Any other event, ACTION_CANCEL included: the touch of the active        *)
(* pointer is updated and ended.                                           *)
SendEnd(f) == remote' = remote \ {f} /\ UNCHANGED pointers
=============================================================================

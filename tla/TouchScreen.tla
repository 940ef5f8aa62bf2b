---------------------------- MODULE TouchScreen ----------------------------
(***************************************************************************)
(* TouchInputHandler.handleTouchEvent for fingers on the touch screen: one *)
(* MotionEvent goes to sendTouchEvent, in touch mode, and then to          *)
(* SwipeDetector.  GestureInput has what else that call does.              *)
(***************************************************************************)
EXTENDS SwipeDetector, DirectTouch, Functions

VARIABLES
    at,              \* [the fingers on the screen -> position]
    touchMode        \* mInputStrategy is a NullInputStrategy

(* History: what the X server was not told.                                *)
VARIABLES
    unseen,          \* fingers on the screen that came outside touch mode
    stuck            \* touches that have not ended with their finger

told == <<unseen, stuck>>
vars == <<swipe, touch, at, touchMode, told>>

Touching == DOMAIN at

TypeOK ==
    /\ mInSwipe \in BOOLEAN /\ mInGesture \in BOOLEAN
    /\ DOMAIN mFirst \subseteq Finger
    /\ \A f \in DOMAIN mFirst : mFirst[f] \in Position
    /\ pointers \in [Finger -> BOOLEAN] /\ remote \subseteq Finger
    /\ Touching \subseteq Finger
    /\ \A f \in Touching : at[f] \in Position
    /\ touchMode \in BOOLEAN
    /\ unseen \subseteq Finger /\ stuck \subseteq Finger

Init ==
    /\ SwipeInit /\ DirectInit
    /\ at = <<>>
    /\ touchMode \in BOOLEAN
    /\ unseen = {} /\ stuck = {}

(* The fingers of a set leave without an end for their touch.              *)
LeaveUntold(fingers) ==
    /\ unseen' = unseen \cap Touching'
    /\ stuck' = (stuck \cup fingers) \cap remote'

FingerDown(f, p) ==
    /\ f \notin Touching
    /\ at' = [g \in Touching \cup {f} |-> IF g = f THEN p ELSE at[g]]
    /\ IF touchMode THEN SendBegin(f) ELSE UNCHANGED touch
    /\ SwipeOnTouchEvent(IF Touching = {} THEN "DOWN" ELSE "POINTER_DOWN", at')
    /\ IF touchMode THEN unseen' = unseen /\ stuck' = stuck \ {f}
                    ELSE unseen' = unseen \cup {f} /\ stuck' = stuck
    /\ UNCHANGED touchMode

FingersMove(now) ==
    /\ Touching # {}
    /\ at' = now
    /\ IF touchMode THEN SendMove(Touching) ELSE UNCHANGED touch
    /\ SwipeOnTouchEvent("MOVE", now)
    /\ LeaveUntold({})
    /\ UNCHANGED touchMode

(* The event still carries the finger that leaves.                         *)
FingerUp(f) ==
    /\ f \in Touching
    /\ at' = Restrict(at, Touching \ {f})
    /\ IF touchMode THEN SendEnd(f) ELSE UNCHANGED touch
    /\ SwipeOnTouchEvent(IF Touching = {f} THEN "UP" ELSE "POINTER_UP", at)
    /\ LeaveUntold(IF touchMode THEN {} ELSE {f})
    /\ UNCHANGED touchMode

(* Every finger leaves, with one event, which has one active pointer.      *)
Cancel(f) ==
    /\ f \in Touching
    /\ at' = <<>>
    /\ IF touchMode THEN SendEnd(f) ELSE UNCHANGED touch
    /\ SwipeOnTouchEvent("CANCEL", at)
    /\ LeaveUntold(IF touchMode THEN Touching \ {f} ELSE Touching)
    /\ UNCHANGED touchMode

(* A finger above the screen.                                              *)
Hover(f) ==
    /\ Touching = {}
    /\ IF touchMode THEN SendMove({f}) ELSE UNCHANGED touch
    /\ SwipeReset
    /\ UNCHANGED <<at, touchMode>>
    /\ LeaveUntold({})

(* "Sometimes Android does not send ACTION_POINTER_UP/ACTION_UP."          *)
LostUp(f) ==
    /\ f \in Touching
    /\ at' = Restrict(at, Touching \ {f})
    /\ UNCHANGED <<swipe, touch, touchMode>>
    /\ LeaveUntold({f})

(* setInputMode, whatever is on the screen.                                *)
SetInputMode ==
    /\ touchMode' = ~touchMode
    /\ UNCHANGED <<swipe, touch, at, told>>

Next ==
    \/ \E f \in Finger :
          \/ \E p \in Position : FingerDown(f, p)
          \/ FingerUp(f) \/ Cancel(f) \/ Hover(f) \/ LostUp(f)
    \/ \E now \in [Touching -> Position] : FingersMove(now)
    \/ SetInputMode

Spec == Init /\ [][Next]_vars

----------------------------------------------------------------------------
(* A finger on the screen is a touch at the X server: the clean-up of      *)
(* stuck pointers never ends the touch of a finger that is there, unless   *)
(* the X server was not told that it came.  And a touch is a finger on the *)
(* screen, unless the X server was not told that it went.                  *)
TouchesAreFingers ==
    /\ Touching \ unseen \subseteq remote
    /\ remote \subseteq Touching \cup stuck

(* Two fingers are compared with their own first positions, never with     *)
(* those of fingers that were there before, even if events were missed.    *)
FirstPairIsCurrent ==
    mInGesture /\ Cardinality(Touching) = 2 => DOMAIN mFirst = Touching
=============================================================================

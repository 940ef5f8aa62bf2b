--------------------------- MODULE SwipeDetector ---------------------------
(***************************************************************************)
(* SwipeDetector: whether two fingers move together (a swipe, which        *)
(* scrolls) or not (a pinch).  The handler is an operator of the event's   *)
(* action and of the positions it carries, by finger; TouchScreen calls it.*)
(***************************************************************************)
EXTENDS Integers, FiniteSets

CONSTANTS
    Coordinate,      \* of the touch screen
    TouchSlop        \* mTouchSlopSquare is its square

ASSUME CoordinateAssumption == Coordinate \subseteq Int /\ TouchSlop \in Nat

VARIABLES
    mInSwipe,
    mInGesture,
    mFirst           \* [pair -> position], mFirstX0 ... mFirstY1

swipe == <<mInSwipe, mInGesture, mFirst>>

Position == Coordinate \X Coordinate

SwipeInit == mInSwipe = FALSE /\ mInGesture = FALSE /\ mFirst = <<>>

SwipeReset == mInSwipe' = FALSE /\ mInGesture' = FALSE /\ mFirst' = mFirst

(* The first event of the gesture.                                         *)
StoreFirst(now) ==
    mInGesture' = TRUE /\ mFirst' = now /\ mInSwipe' = FALSE

ScalarProduct(v, w) == v[1] * w[1] + v[2] * w[2]

Delta(now, f) == <<now[f][1] - mFirst[f][1], now[f][2] - mFirst[f][2]>>

FingerMoved(now, f) ==
    ScalarProduct(Delta(now, f), Delta(now, f)) > TouchSlop * TouchSlop

(* Both fingers have left the slop, in the same direction.                 *)
SameWay(now) ==
    \A f, g \in DOMAIN now :
        FingerMoved(now, f) /\ ScalarProduct(Delta(now, f), Delta(now, g)) > 0

(* A mutant of SwipeOnTouchEvent, which forgets nothing when a finger      *)
(* comes or goes.                                                          *)
SwipeUnreset(action, now) ==
    IF Cardinality(DOMAIN now) # 2 \/ action # "MOVE" THEN UNCHANGED swipe
    ELSE IF ~mInGesture THEN StoreFirst(now)
    ELSE /\ mInSwipe' = (DOMAIN now = DOMAIN mFirst /\ SameWay(now))
         /\ UNCHANGED <<mInGesture, mFirst>>

(* onTouchEvent.                                                           *)
SwipeOnTouchEvent(action, now) ==
    LET two == Cardinality(DOMAIN now) = 2 IN
    \/ /\ ~two \/ action \notin {"MOVE", "POINTER_DOWN"}
       /\ SwipeReset
    \/ /\ two /\ action = "POINTER_DOWN"
       /\ StoreFirst(now)
    \/ /\ two /\ action = "MOVE" /\ mInSwipe
       /\ UNCHANGED swipe
    \/ /\ two /\ action = "MOVE" /\ ~mInSwipe /\ ~mInGesture
       /\ StoreFirst(now)
    \/ /\ two /\ action = "MOVE" /\ ~mInSwipe /\ mInGesture
       /\ mInSwipe' = SameWay(now)
       /\ UNCHANGED <<mInGesture, mFirst>>
=============================================================================

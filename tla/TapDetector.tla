---------------------------- MODULE TapDetector ----------------------------
(***************************************************************************)
(* TapGestureDetector: turns the MotionEvents of one gesture into at most  *)
(* one onTap or onLongPress call.  Two positions are equal when they are   *)
(* within the touch slop of each other.  The long-press message and the    *)
(* events are handled one at a time by the same looper.                    *)
(***************************************************************************)
EXTENDS Naturals, FiniteSets

CONSTANTS
    Finger,       \* pointer ids
    Position,     \* positions more than the touch slop apart
    None,         \* null, or a finger that is not down
    AllowCancel   \* environment: Android may send ACTION_CANCEL

ASSUME FingerAssumption == IsFiniteSet(Finger)
ASSUME NoneAssumption == None \notin Position

VARIABLES
    at,                 \* [Finger -> position or None], the fingers on the screen
    mInitialPositions,  \* [Finger -> position or None], by pointer id
    mPointerCount,
    mInitialPoint,
    mTapCancelled,
    longPress,          \* the long-press message is in the handler's queue
    note,               \* the call this step makes to the listener
    told,               \* calls made in this gesture
    strayed             \* some finger left the place where it went down

vars  == <<at, mInitialPositions, mPointerCount, mInitialPoint, mTapCancelled,
           longPress, note, told, strayed>>

Silent == [kind |-> "none", count |-> 0, point |-> None]
Notes  == [kind : {"none", "tap", "long"}, count : Nat, point : Position \cup {None}]

Touching == {f \in Finger : at[f] # None}

TypeOK ==
    /\ at \in [Finger -> Position \cup {None}]
    /\ mInitialPositions \in [Finger -> Position \cup {None}]
    /\ mPointerCount \in Nat
    /\ mInitialPoint \in Position \cup {None}
    /\ mTapCancelled \in BOOLEAN
    /\ longPress \in BOOLEAN
    /\ note \in Notes
    /\ told \in Nat
    /\ strayed \in BOOLEAN

Init ==
    /\ at = [f \in Finger |-> None]
    /\ mInitialPositions = [f \in Finger |-> None]
    /\ mPointerCount = 0
    /\ mInitialPoint = None
    /\ mTapCancelled = FALSE
    /\ longPress = FALSE
    /\ note = Silent
    /\ told = 0
    /\ strayed = FALSE

Notify(kind) ==
    /\ note' = [kind |-> kind, count |-> mPointerCount, point |-> mInitialPoint]
    /\ told' = told + 1

Quiet == note' = Silent /\ UNCHANGED told

(* A mutant of TrackDownEvent, with its test inverted.                     *)
TrackDownInverted(f, p) ==
    mInitialPoint' = IF mInitialPoint # None THEN p ELSE mInitialPoint

(* trackDownEvent: the first point is kept when one is already stored.     *)
TrackDownEvent(f, p) ==
    mInitialPoint' = IF mInitialPoint = None THEN p ELSE mInitialPoint

(* ACTION_DOWN: reset, trackDownEvent, and the long-press message.         *)
Down(f, p) ==
    /\ Touching = {}
    /\ at' = [at EXCEPT ![f] = p]
    /\ mInitialPositions' = [g \in Finger |-> IF g = f THEN p ELSE None]
    /\ TrackDownEvent(f, p)
    /\ mPointerCount' = 1
    /\ mTapCancelled' = FALSE
    /\ longPress' = TRUE
    /\ note' = Silent /\ told' = 0
    /\ strayed' = FALSE

PointerDown(f, p) ==
    /\ Touching # {} /\ f \notin Touching
    /\ at' = [at EXCEPT ![f] = p]
    /\ mInitialPositions' = [mInitialPositions EXCEPT ![f] = p]
    /\ TrackDownEvent(f, p)
    /\ LET count == Cardinality(Touching \cup {f})
       IN  mPointerCount' = IF count > mPointerCount THEN count
                                                     ELSE mPointerCount
    /\ Quiet
    /\ UNCHANGED <<mTapCancelled, longPress, strayed>>

(* A mutant of MotionDetected, which waits for every finger to move.       *)
EveryFingerMoved(now) ==
    \A f \in Touching : /\ mInitialPositions[f] # None
                        /\ now[f] # mInitialPositions[f]

(* trackMoveEvent: some finger is beyond the slop of its initial position. *)
MotionDetected(now) ==
    \E f \in Touching : /\ mInitialPositions[f] # None
                        /\ now[f] # mInitialPositions[f]

(* A pointer without a stored position gets one.                           *)
StoreMissing(now) ==
    [f \in Finger |-> IF f \in Touching /\ mInitialPositions[f] = None
                      THEN now[f] ELSE mInitialPositions[f]]

(* ACTION_MOVE, which carries every finger's position.                     *)
Move(now) ==
    /\ Touching # {}
    /\ now \in [Finger -> Position \cup {None}]
    /\ \A f \in Finger : now[f] = None <=> at[f] = None
    /\ at' = now
    /\ \/ /\ ~mTapCancelled /\ MotionDetected(now)
          /\ longPress' = FALSE /\ mTapCancelled' = TRUE
          /\ UNCHANGED mInitialPositions
       \/ /\ ~mTapCancelled /\ ~MotionDetected(now)
          /\ mInitialPositions' = StoreMissing(now)
          /\ UNCHANGED <<longPress, mTapCancelled>>
       \/ /\ mTapCancelled
          /\ UNCHANGED <<mInitialPositions, longPress, mTapCancelled>>
    /\ strayed' = (strayed \/ now # at)
    /\ Quiet
    /\ UNCHANGED <<mPointerCount, mInitialPoint>>

(* ACTION_UP: the last finger leaves.                                      *)
Up(f) ==
    /\ Touching = {f}
    /\ at' = [at EXCEPT ![f] = None]
    /\ longPress' = FALSE
    /\ IF mTapCancelled THEN Quiet ELSE Notify("tap")
    /\ mInitialPoint' = None
    /\ UNCHANGED <<mInitialPositions, mPointerCount, mTapCancelled, strayed>>

PointerUp(f) ==
    /\ f \in Touching /\ Touching # {f}
    /\ at' = [at EXCEPT ![f] = None]
    /\ longPress' = FALSE
    /\ mInitialPositions' = [mInitialPositions EXCEPT ![f] = None]
    /\ Quiet
    /\ UNCHANGED <<mPointerCount, mInitialPoint, mTapCancelled, strayed>>

(* ACTION_CANCEL ends the gesture, and only removes the message.           *)
Cancel ==
    /\ AllowCancel
    /\ Touching # {}
    /\ at' = [f \in Finger |-> None]
    /\ longPress' = FALSE
    /\ Quiet
    /\ UNCHANGED <<mInitialPositions, mPointerCount, mInitialPoint,
                   mTapCancelled, strayed>>

(* A mutant of LongPress, after which the tap is still possible.           *)
LongPressThenTap ==
    /\ longPress
    /\ longPress' = FALSE
    /\ Notify("long")
    /\ UNCHANGED <<at, mInitialPositions, mPointerCount, mInitialPoint,
                   mTapCancelled, strayed>>

(* handleMessage, when the long-press timeout is over.                     *)
LongPress ==
    /\ longPress
    /\ longPress' = FALSE
    /\ mTapCancelled' = TRUE
    /\ Notify("long")
    /\ mInitialPoint' = None
    /\ UNCHANGED <<at, mInitialPositions, mPointerCount, strayed>>

Next ==
    \/ \E f \in Finger :
          \/ \E p \in Position : Down(f, p) \/ PointerDown(f, p)
          \/ Up(f) \/ PointerUp(f)
    \/ \E now \in [Finger -> Position \cup {None}] : Move(now)
    \/ Cancel \/ LongPress

Spec == Init /\ [][Next]_vars

----------------------------------------------------------------------------
(* A gesture is a tap, a long press, or nothing: the timer and the last    *)
(* finger never both speak.                                                *)
OneNotification == told <= 1

(* A tap is reported only for fingers that stayed where they went down; a  *)
(* long press only while every finger of the gesture is still down, and it *)
(* says how many they are.                                                 *)
NotificationMeansStill ==
    /\ note.kind # "none" => ~strayed
    /\ note.kind = "long" => note.count = Cardinality(Touching) /\ note.count > 0

(* Both dereferences of the first point, in ACTION_UP and in handleMessage, *)
(* find one.                                                               *)
PointIsKnown == Touching # {} /\ ~mTapCancelled => mInitialPoint # None
=============================================================================

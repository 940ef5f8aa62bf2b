---------------------------- MODULE GestureInput ----------------------------
(***************************************************************************)
(* TouchInputHandler.handleTouchEvent for fingers: the input strategy sees *)
(* the event, then Android's GestureDetector, then TapGestureDetector, all *)
(* in one call on the UI thread.  Gestures become presses and releases of  *)
(* the remote mouse's buttons.  SwipeDetector's verdict is a free choice   *)
(* here; TouchScreen computes it.                                          *)
(***************************************************************************)
EXTENDS TapDetector, Sequences

CONSTANTS
    Inside,          \* the positions that lie on the remote screen's image
    CutDrags,        \* environment: a cancel or a change of the preferences
                     \* may come while a drag holds a button
    MaxDelayed       \* bound: delayed taps in the queue

ASSUME InsideAssumption == Inside \subseteq Position

Undefined == "UNDEFINED"
Buttons   == {"LEFT", "RIGHT", "MIDDLE"}
Modes     == {"touch", "simulated", "trackpad"}

VARIABLES
    mode,            \* which strategy mInputStrategy is
    mHeldButton,     \* of the current strategy object
    tapToMove,
    delayedTap,      \* BUTTON_LEFT messages in mGestureListenerHandler
    mIsDragging, mSuppressCursorMovement, mSwipeCompleted,
    doubleTappable,  \* for GestureDetector a second tap would be a double tap
    doubleTapping,   \* GestureDetector is in the second tap of a double tap
    sent,            \* button events this step sends, in order
    moved,           \* what this step does besides: "cursor", "wheel", "swipe"
    pressed          \* buttons down at the remote

detector == <<doubleTappable, doubleTapping>>
flags    == <<mIsDragging, mSuppressCursorMovement, mSwipeCompleted>>
prefs    == <<mode, tapToMove>>
all      == <<vars, mode, mHeldButton, tapToMove, delayedTap, mIsDragging,
              mSuppressCursorMovement, mSwipeCompleted, doubleTappable,
              doubleTapping, sent, moved, pressed>>

GestureTypeOK ==
    /\ TypeOK
    /\ mode \in Modes
    /\ mHeldButton \in Buttons \cup {Undefined}
    /\ tapToMove \in BOOLEAN
    /\ delayedTap \in Nat
    /\ \A b \in {mIsDragging, mSuppressCursorMovement, mSwipeCompleted,
                 doubleTappable, doubleTapping} : b \in BOOLEAN
    /\ sent \in Seq([button : Buttons, down : BOOLEAN])
    /\ moved \in {"none", "cursor", "wheel", "swipe"}
    /\ pressed \subseteq Buttons

GestureInit ==
    /\ Init
    /\ mode \in Modes
    /\ mHeldButton = Undefined
    /\ tapToMove \in BOOLEAN
    /\ delayedTap = 0
    /\ mIsDragging = FALSE
    /\ mSuppressCursorMovement = FALSE
    /\ mSwipeCompleted = FALSE
    /\ doubleTappable = FALSE
    /\ doubleTapping = FALSE
    /\ sent = <<>>
    /\ moved = "none"
    /\ pressed = {}

----------------------------------------------------------------------------
(* The remote.                                                             *)

MouseDown(b)  == <<[button |-> b, down |-> TRUE]>>
MouseUp(b)    == <<[button |-> b, down |-> FALSE]>>

(* A mutant of MouseClick.                                                 *)
ClickSwapped(b) == MouseUp(b) \o MouseDown(b)

MouseClick(b) == MouseDown(b) \o MouseUp(b)

(* The last event of a button decides, if there is one.                    *)
PressedAfter(events) ==
    {b \in Buttons :
        \/ b \in pressed /\ \A i \in DOMAIN events : events[i].button # b
        \/ \E i \in DOMAIN events :
              /\ events[i] = [button |-> b, down |-> TRUE]
              /\ \A j \in i + 1..Len(events) : events[j].button # b}

Send(events) == sent' = events /\ pressed' = PressedAfter(events)

----------------------------------------------------------------------------
(* The strategies and the listener.                                        *)

(* A mutant of mouseButtonFromPointerCount, with one button too many.      *)
ButtonOfAnyCount(n) ==
    CASE n = 1 -> "LEFT" [] n = 2 -> "RIGHT" [] OTHER -> "BACK"

MouseButtonFromPointerCount(n) ==
    CASE n = 1 -> "LEFT" [] n = 2 -> "RIGHT" [] n = 3 -> "MIDDLE"
      [] OTHER -> Undefined

(* onTap of the strategy: NullInputStrategy does nothing.                  *)
StrategyTap(b) == IF mode = "touch" THEN <<>> ELSE MouseClick(b)

(* Whether onPressAndHold presses the button.                              *)
Holds(force) == \/ mode = "simulated"
                \/ mode = "trackpad" /\ (~tapToMove \/ force)

(* The button of a tap or a long press, if it is one for the remote.       *)
GestureButton(n) ==
    IF mode # "trackpad" /\ n.point \notin Inside
    THEN Undefined ELSE MouseButtonFromPointerCount(n.count)

DelaysTap(b) == b = "LEFT" /\ tapToMove /\ mode = "trackpad"

----------------------------------------------------------------------------
(* Events.                                                                 *)

(* onDoubleTapEvent takes the second tap of tap-to-move for a drag.        *)
DragByDoubleTap ==
    /\ delayedTap' = 0
    /\ Send(MouseDown("LEFT")) /\ mHeldButton' = "LEFT"

(* The mIsDragging that onDoubleTapEvent sets is cleared again at the end  *)
(* of handleTouchEvent.                                                    *)
GestureDown(f, p, double) ==
    /\ Down(f, p)
    /\ double => doubleTappable
    /\ doubleTapping' = double /\ doubleTappable' = FALSE
    /\ \/ /\ double /\ tapToMove /\ mode = "trackpad"
          /\ DragByDoubleTap
       \/ /\ ~(double /\ tapToMove /\ mode = "trackpad")
          /\ Send(<<>>)
          /\ UNCHANGED <<delayedTap, mHeldButton>>
    /\ mIsDragging' = FALSE
    /\ mSuppressCursorMovement' = FALSE
    /\ mSwipeCompleted' = FALSE
    /\ moved' = "none"
    /\ UNCHANGED prefs

GesturePointerDown(f, p) ==
    /\ PointerDown(f, p)
    /\ doubleTapping' = FALSE /\ doubleTappable' = FALSE
    /\ Send(<<>>) /\ moved' = "none"
    /\ UNCHANGED <<prefs, mHeldButton, delayedTap, flags>>

(* onScroll, once the fingers have left the slop, or at once in the second *)
(* tap of a double tap.                                                    *)
OnScroll ==
    LET n == Cardinality(Touching) IN
    \/ /\ n >= 3 /\ ~mSwipeCompleted          \* past the swipe threshold
       /\ moved' = "swipe"
       /\ mSuppressCursorMovement' = TRUE /\ mSwipeCompleted' = TRUE
    \/ /\ n = 2                               \* isSwiping
       /\ moved' = IF mode = "touch" THEN "none" ELSE "wheel"
       /\ mSuppressCursorMovement' = TRUE
       /\ UNCHANGED mSwipeCompleted
    \/ /\ n = 1 /\ ~mSuppressCursorMovement
       /\ mode = "trackpad" \/ (mode = "simulated" /\ mIsDragging)
       /\ moved' = "cursor"
       /\ UNCHANGED <<mSuppressCursorMovement, mSwipeCompleted>>

NoScroll ==
    moved' = "none"
    /\ UNCHANGED <<mSuppressCursorMovement, mSwipeCompleted>>

GestureMove(now) ==
    /\ Move(now)
    /\ \/ NoScroll
       \/ (strayed' \/ doubleTapping) /\ OnScroll
    /\ doubleTappable' = FALSE
    /\ Send(<<>>)
    /\ UNCHANGED <<prefs, mHeldButton, delayedTap, mIsDragging, doubleTapping>>

(* Two mutants of Release: of the wrong button, and by one strategy only.  *)
ReleaseLeft == IF mHeldButton = Undefined THEN <<>> ELSE MouseUp("LEFT")

ReleaseSimulated ==
    IF mHeldButton = Undefined \/ mode = "trackpad"
    THEN <<>> ELSE MouseUp(mHeldButton)

(* onMotionEvent of either strategy, before the detectors run.             *)
Release == IF mHeldButton = Undefined THEN <<>> ELSE MouseUp(mHeldButton)

GestureUp(f) ==
    /\ Up(f)
    /\ LET b == IF note'.kind = "tap" THEN GestureButton(note') ELSE Undefined
       IN  /\ Send(Release \o (IF b = Undefined \/ DelaysTap(b)
                               THEN <<>> ELSE StrategyTap(b)))
           /\ delayedTap' = delayedTap + (IF DelaysTap(b) THEN 1 ELSE 0)
    /\ delayedTap' <= MaxDelayed
    /\ mHeldButton' = Undefined
    /\ doubleTappable' =
          (~mTapCancelled /\ mPointerCount = 1 /\ ~doubleTapping)
    /\ doubleTapping' = FALSE
    /\ moved' = "none"
    /\ UNCHANGED <<prefs, flags>>

GesturePointerUp(f) ==
    /\ PointerUp(f)
    /\ Send(<<>>) /\ moved' = "none"
    /\ UNCHANGED <<prefs, mHeldButton, delayedTap, flags, detector>>

(* The strategies only look at ACTION_UP.                                  *)
GestureCancel ==
    /\ CutDrags \/ mHeldButton = Undefined
    /\ Cancel
    /\ doubleTapping' = FALSE /\ doubleTappable' = FALSE
    /\ Send(<<>>) /\ moved' = "none"
    /\ UNCHANGED <<prefs, mHeldButton, delayedTap, flags>>

(* onPressAndHold, and the flag that onLongPress sets.                     *)
PressAndHold(b) ==
    /\ Send(MouseDown(b)) /\ mHeldButton' = b
    /\ mIsDragging' = TRUE

(* Android's long-press timeout is longer than its double-tap timeout, so  *)
(* the taps before this gesture have been sent.                            *)
GestureLongPress ==
    /\ delayedTap = 0
    /\ LongPress
    /\ LET b == GestureButton(note') IN
       \/ /\ b # Undefined /\ Holds(FALSE)
          /\ PressAndHold(b)
       \/ /\ b = Undefined \/ ~Holds(FALSE)
          /\ Send(<<>>)
          /\ UNCHANGED <<mHeldButton, mIsDragging>>
    /\ moved' = "none"
    /\ UNCHANGED <<prefs, delayedTap, mSuppressCursorMovement, mSwipeCompleted,
                   detector>>

(* mGestureListenerHandler: the tap, one double-tap timeout after it.      *)
DelayedTap ==
    /\ delayedTap > 0
    /\ delayedTap' = delayedTap - 1
    /\ Send(StrategyTap("LEFT"))
    /\ doubleTappable' = (doubleTappable /\ delayedTap > 1)
    /\ Quiet /\ moved' = "none"
    /\ UNCHANGED <<at, mInitialPositions, mPointerCount, mInitialPoint,
                   mTapCancelled, longPress, strayed, prefs, mHeldButton,
                   flags, doubleTapping>>

(* onPreferencesChanged: setInputMode makes a new strategy every time.     *)
OnPreferencesChanged(m, t) ==
    /\ CutDrags \/ mHeldButton = Undefined
    /\ mode' = m /\ tapToMove' = t
    /\ mHeldButton' = Undefined
    /\ Send(<<>>) /\ Quiet /\ moved' = "none"
    /\ UNCHANGED <<at, mInitialPositions, mPointerCount, mInitialPoint,
                   mTapCancelled, longPress, strayed, delayedTap, flags,
                   detector>>

GestureNext ==
    \/ \E f \in Finger :
          \/ \E p \in Position :
                \/ \E double \in BOOLEAN : GestureDown(f, p, double)
                \/ GesturePointerDown(f, p)
          \/ GestureUp(f) \/ GesturePointerUp(f)
    \/ \E now \in [Finger -> Position \cup {None}] : GestureMove(now)
    \/ GestureCancel \/ GestureLongPress \/ DelayedTap
    \/ \E m \in Modes, t \in BOOLEAN : OnPreferencesChanged(m, t)

GestureSpec == GestureInit /\ [][GestureNext]_all

----------------------------------------------------------------------------
(* "Mouse-button currently held down, or BUTTON_UNDEFINED otherwise": the  *)
(* strategy knows what the remote has down, so nothing stays stuck, and in *)
(* simulated-touch mode the flag that lets a drag move the cursor is set   *)
(* for as long as the button is down.                                      *)
HeldMatchesRemote ==
    /\ pressed = {mHeldButton} \ {Undefined}
    /\ mode = "simulated" /\ mHeldButton # Undefined => mIsDragging

(* With no finger on the screen, no button is down at the remote.          *)
LiftedMeansReleased == Touching = {} => pressed = {}

(* The remote never sees a press of a button that is down, nor a release   *)
(* of one that is up.                                                      *)
Alternates(events) ==
    \A i \in 1..Len(events) :
        events[i].down <=>
            events[i].button \notin PressedAfter(SubSeq(events, 1, i - 1))

PressesAlternate == [][Alternates(sent')]_all
=============================================================================

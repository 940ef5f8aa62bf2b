--------------------------- MODULE PointerDevices ---------------------------
(***************************************************************************)
(* The devices other than fingers that press buttons of the one remote     *)
(* mouse: a hardware mouse, a stylus, the DeX touchpad, and the on-screen  *)
(* mouse buttons.  Each listener keeps its own idea of what it has pressed. *)
(* The buttons of a device are named after those the tables map them to.   *)
(***************************************************************************)
EXTENDS Naturals, FiniteSets

CONSTANTS
    MouseButtons,    \* the buttons the hardware mouse has
    DexButtons,      \* the buttons the DeX touchpad has
    MaxPosted        \* bound: presses that are posted and have not run

Button == {"LEFT", "MIDDLE", "RIGHT"}

ASSUME DeviceAssumption ==
    /\ MouseButtons \subseteq Button /\ DexButtons \subseteq Button
    /\ MaxPosted \in Nat

Undefined == "UNDEFINED"
Gestures  == {"none", "tap", "drag", "scroll", "click"}

VARIABLES
    mouseSavedBS,    \* HardwareMouseListener.savedBS
    penDown,         \* the stylus touches the screen
    button,          \* StylusListener.button
    helperMode,      \* STYLUS_INPUT_HELPER_MODE
    dexGesture,      \* what the finger on the DeX touchpad does
    dexSavedBS,      \* DexListener.savedBS
    onTap, mIsDragging, mIsScrolling,
    posted,          \* how often mouseDownRunnable is in the handler's queue
    tapPending,      \* DexListener.mScroller may still report a tap
    auxPressed,      \* on-screen mouse buttons being touched
    remote           \* buttons down at the X server

(* History.                                                                *)
VARIABLES
    contended,       \* since something was held: by two at a time
    abandoned        \* buttons whose press ended with no event to release it

pen   == <<penDown, button, helperMode>>
flags == <<onTap, mIsDragging, mIsScrolling>>
dex   == <<dexGesture, dexSavedBS, flags, posted, tapPending>>
vars  == <<mouseSavedBS, pen, dex, auxPressed, remote, contended,
           abandoned>>

TypeOK ==
    /\ mouseSavedBS \subseteq MouseButtons /\ dexSavedBS \subseteq DexButtons
    /\ auxPressed \subseteq Button /\ remote \subseteq Button
    /\ button \in Button \cup {Undefined} /\ helperMode \in Button
    /\ dexGesture \in Gestures
    /\ penDown \in BOOLEAN /\ onTap \in BOOLEAN /\ mIsDragging \in BOOLEAN
    /\ mIsScrolling \in BOOLEAN /\ posted \in 0..MaxPosted
    /\ tapPending \in BOOLEAN /\ contended \in BOOLEAN
    /\ abandoned \subseteq Button

Init ==
    /\ mouseSavedBS = {} /\ dexSavedBS = {} /\ auxPressed = {} /\ remote = {}
    /\ penDown = FALSE /\ button = Undefined /\ helperMode = "LEFT"
    /\ dexGesture = "none" /\ posted = 0 /\ tapPending = FALSE
    /\ onTap = FALSE /\ mIsDragging = FALSE /\ mIsScrolling = FALSE
    /\ contended = FALSE /\ abandoned = {}

----------------------------------------------------------------------------
(* What each device has pressed by its own record, or may be about to.     *)

LeftIf(b) == IF b THEN {"LEFT"} ELSE {}

Holding ==
    [mouse    |-> mouseSavedBS,
     pen      |-> IF penDown THEN {button} ELSE {},
     aux      |-> auxPressed,
     dex      |-> dexSavedBS \cup LeftIf(dexGesture \in {"tap", "drag"}),
     scroller |-> LeftIf(tapPending)]

(* The scroller clicks whenever it likes, but leaves no button down.       *)
Held == UNION {Holding[d] : d \in {"mouse", "pen", "aux", "dex"}}

Contention ==
    \E d, e \in DOMAIN Holding : d # e /\ Holding[d] \cap Holding[e] # {}

(* A button stays abandoned as long as it is down, or about to be.         *)
ObserveLeft(buttons) ==
    /\ contended' = (Held' # {} /\ (contended \/ Contention'))
    /\ abandoned' = (abandoned \cup buttons)
                        \cap (remote' \cup LeftIf(posted' > 0))

Observe == ObserveLeft({})

----------------------------------------------------------------------------
(* A mutant of ButtonsAfter, which sends every button with every event.    *)
EveryButtonSent(saved, now) == now

(* Both listeners send the buttons that differ from the state they saved.  *)
ButtonsAfter(saved, now) == (remote \ (saved \ now)) \cup (now \ saved)

(* Any event of the mouse but a scroll; events that went to another window *)
(* may have changed any of its buttons in between.                         *)
MouseEvent(now) ==
    /\ remote' = ButtonsAfter(mouseSavedBS, now)
    /\ mouseSavedBS' = now
    /\ UNCHANGED <<pen, dex, auxPressed>>
    /\ Observe

----------------------------------------------------------------------------
(* A mutant of StylusButton, for the pen with both buttons pressed.        *)
StylusNoButton(primary, secondary) ==
    IF primary /\ secondary THEN Undefined ELSE helperMode

(* The pen's own buttons count only when the helper says "left".           *)
StylusButton(primary, secondary) ==
    CASE helperMode # "LEFT" -> helperMode
      [] helperMode = "LEFT" /\ secondary -> "MIDDLE"
      [] helperMode = "LEFT" /\ primary /\ ~secondary -> "RIGHT"
      [] OTHER -> "LEFT"

(* ACTION_DOWN or ACTION_PRIMARY_DOWN.                                     *)
PenDown(primary, secondary) ==
    /\ ~penDown
    /\ penDown' = TRUE
    /\ button' = StylusButton(primary, secondary)
    /\ remote' = remote \cup {button'}
    /\ UNCHANGED <<helperMode, mouseSavedBS, dex, auxPressed>>
    /\ Observe

(* A mutant of PenReleases, which asks the helper again.                   *)
ReleasesSelected == helperMode

PenReleases == button

(* ACTION_UP or ACTION_PRIMARY_UP; only the first forgets the button.      *)
PenUp(forget) ==
    /\ penDown
    /\ penDown' = FALSE
    /\ remote' = remote \ {PenReleases}
    /\ button' = IF forget THEN Undefined ELSE button
    /\ UNCHANGED <<helperMode, mouseSavedBS, dex, auxPressed>>
    /\ Observe

(* ACTION_CANCEL, which the listener has no branch for.                    *)
PenCancel ==
    /\ penDown
    /\ penDown' = FALSE
    /\ UNCHANGED <<button, helperMode, mouseSavedBS, dex, auxPressed, remote>>
    /\ ObserveLeft({button})

(* The floating stylus menu, or a change of preferences.                   *)
SelectStylusButton(b) ==
    /\ helperMode' = b
    /\ UNCHANGED <<penDown, button, mouseSavedBS, dex, auxPressed, remote>>
    /\ Observe

----------------------------------------------------------------------------
(* The on-screen mouse buttons.                                            *)

AuxDown(b) ==
    /\ b \notin auxPressed
    /\ auxPressed' = auxPressed \cup {b} /\ remote' = remote \cup {b}
    /\ UNCHANGED <<mouseSavedBS, pen, dex>>
    /\ Observe

AuxUp(b) ==
    /\ b \in auxPressed
    /\ auxPressed' = auxPressed \ {b} /\ remote' = remote \ {b}
    /\ UNCHANGED <<mouseSavedBS, pen, dex>>
    /\ Observe

(* The button was hidden, or its touch taken by another view: the listener *)
(* has no branch for ACTION_CANCEL.                                        *)
AuxCancel(b) ==
    /\ b \in auxPressed
    /\ auxPressed' = auxPressed \ {b}
    /\ UNCHANGED <<mouseSavedBS, pen, dex, remote>>
    /\ ObserveLeft({b})

----------------------------------------------------------------------------
(* The DeX touchpad.  A gesture is flagged as a scroll, or as a drag, or   *)
(* not; an unflagged one with a physical button is a click.                *)

DexDown(gesture, now) ==
    /\ dexGesture = "none" /\ gesture # "none"
    /\ gesture = "tap" => now = dexSavedBS
    /\ gesture = "click" => now # dexSavedBS
    /\ dexGesture' = gesture
    /\ dexSavedBS' = now
    /\ remote' = ButtonsAfter(dexSavedBS, now) \cup LeftIf(gesture = "tap")
    /\ mIsScrolling' = (mIsScrolling \/ gesture = "scroll")
    /\ mIsDragging' = (mIsDragging \/ gesture = "drag")
    /\ onTap' = (onTap \/ gesture = "tap")
    /\ posted' = IF gesture = "drag" THEN posted + 1 ELSE posted
    /\ posted' <= MaxPosted
    /\ tapPending' = (tapPending \/ gesture = "scroll")
    /\ UNCHANGED <<mouseSavedBS, pen, auxPressed>>
    /\ Observe

(* ACTION_BUTTON_PRESS and ACTION_BUTTON_RELEASE, in a gesture that is not *)
(* a tap.                                                                  *)
DexButton(now) ==
    /\ dexGesture \notin {"none", "tap"}
    /\ \/ dexSavedBS \subseteq now /\ now # {} /\ onTap' = TRUE
       \/ now \subseteq dexSavedBS /\ onTap' = FALSE
    /\ posted' = 0
    /\ mIsDragging' = FALSE
    /\ dexSavedBS' = now
    /\ remote' = ButtonsAfter(dexSavedBS, now)
    /\ UNCHANGED <<mouseSavedBS, pen, auxPressed, dexGesture, mIsScrolling,
                   tapPending>>
    /\ Observe

(* mouseDownRunnable.                                                      *)
MouseDownRunnable ==
    /\ posted > 0
    /\ posted' = posted - 1
    /\ remote' = remote \cup {"LEFT"}
    /\ UNCHANGED <<mouseSavedBS, pen, auxPressed, dexGesture, dexSavedBS, flags,
                   tapPending>>
    /\ Observe

(* A drag that ends before its posted press, and a tap that began with a   *)
(* button still held after a cancelled gesture, leave the left button to   *)
(* nobody.                                                                 *)
LeftByDexUp ==
    LeftIf(posted > 0 \/ (dexGesture = "tap" /\ dexSavedBS # {}))

(* ACTION_UP carries the flags of its gesture, and no button.              *)
DexUp ==
    /\ dexGesture # "none"
    /\ dexGesture' = "none"
    /\ dexSavedBS' = {}
    /\ LET taps == dexGesture \in {"tap", "click"} /\ dexSavedBS = {} /\ onTap
       IN  /\ remote' = ButtonsAfter(dexSavedBS, {})
                            \ LeftIf(dexGesture = "drag" \/ taps)
           /\ onTap' = (onTap /\ ~taps)
    /\ mIsScrolling' = (mIsScrolling /\ dexGesture # "scroll")
    /\ mIsDragging' = (mIsDragging /\ dexGesture # "drag")
    /\ UNCHANGED <<mouseSavedBS, pen, auxPressed, posted, tapPending>>
    /\ ObserveLeft(LeftByDexUp)

(* ACTION_MOVE in a scroll: mScroller turns the wheel.                     *)
DexMove ==
    /\ dexGesture = "scroll" /\ mIsScrolling
    /\ tapPending' = FALSE
    /\ UNCHANGED <<mouseSavedBS, pen, auxPressed, dexGesture, dexSavedBS, flags,
                   posted, remote>>
    /\ Observe

(* onSingleTapConfirmed, or twice for an onDoubleTapEvent: whole clicks.   *)
ScrollerClick ==
    /\ tapPending
    /\ tapPending' \in BOOLEAN
    /\ remote' = remote \ {"LEFT"}
    /\ UNCHANGED <<mouseSavedBS, pen, auxPressed, dexGesture, dexSavedBS, flags,
                   posted>>
    /\ Observe

(* ACTION_HOVER_EXIT, and ACTION_CANCEL in a gesture.                      *)
DexReset ==
    /\ dexGesture' = "none"
    /\ onTap' = FALSE /\ mIsScrolling' = FALSE /\ mIsDragging' = FALSE
    /\ UNCHANGED <<mouseSavedBS, pen, auxPressed, dexSavedBS, posted,
                   tapPending, remote>>
    /\ ObserveLeft(LeftIf(dexGesture \in {"tap", "drag"}))

Next ==
    \/ \E now \in SUBSET MouseButtons : MouseEvent(now)
    \/ \E primary, secondary \in BOOLEAN : PenDown(primary, secondary)
    \/ \E forget \in BOOLEAN : PenUp(forget)
    \/ PenCancel
    \/ \E b \in Button :
          SelectStylusButton(b) \/ AuxDown(b) \/ AuxUp(b) \/ AuxCancel(b)
    \/ \E now \in SUBSET DexButtons :
          \/ \E gesture \in Gestures : DexDown(gesture, now)
          \/ DexButton(now)
    \/ MouseDownRunnable \/ DexUp \/ DexMove
    \/ ScrollerClick \/ DexReset

Spec == Init /\ [][Next]_vars

----------------------------------------------------------------------------
(* Nothing stays stuck: a button that is down at the X server is one that  *)
(* some device still holds by its own record, whatever the devices did to  *)
(* each other, or one whose press ended with no event to release it.       *)
PressedIsHeld == remote \subseteq Held \cup abandoned

(* Nothing is dropped: as long as no two devices have held one button      *)
(* together, each button a device holds is down at the X server.           *)
HeldIsPressed ==
    ~contended =>
        mouseSavedBS \cup Holding.pen \cup auxPressed \cup dexSavedBS
            \cup LeftIf(dexGesture = "tap" \/ (mIsDragging /\ posted = 0))
        \subseteq remote
=============================================================================

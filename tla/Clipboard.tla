------------------------------ MODULE Clipboard ------------------------------
(***************************************************************************)
(* The clipboard of LorieView: clips that come from X11, clips that other  *)
(* apps copy, and the announcements of the latter to the X server.  Stamps *)
(* are of the wall clock, which may be set; time passes with Tick only.    *)
(***************************************************************************)
EXTENDS Naturals

CONSTANTS
    MaxTime,      \* bound: the clock goes from 0 to MaxTime
    EchoWindow    \* the 150 ms of setClipboardText

ASSUME ClipboardAssumption == MaxTime \in Nat /\ EchoWindow \in Nat

Time == 0..MaxTime

VARIABLES
    now,                    \* System.currentTimeMillis()
    clip,                   \* the primary clip of Android
    lastClipboardTimestamp,
    setting,                \* setClipboardText is between its two lines
    clipboardSyncEnabled,
    focus,                  \* the window of the view has the focus
    needsFocus,             \* this Android shows clips to focused windows only
    listening,              \* clipboardListener is registered
    notified                \* a change is queued for the listeners

(* History: what the promises of the code depend on.                       *)
VARIABLES
    steady,      \* sync is on since the focus was gained
    sinceX11,    \* time since setClipboardText, up to one more than the window
    ticked,      \* time has passed since the last clip
    ahead,       \* set forward since setClipboardText
    caughtUp     \* set back since then: when the clock will have caught up

view == <<clipboardSyncEnabled, focus, listening, steady>>
clock == <<now, sinceX11, ticked, ahead, caughtUp>>
vars == <<clock, clip, lastClipboardTimestamp, setting, needsFocus, notified,
          view>>

(* excused: a clip of X11 that may be announced after all, or a copy of    *)
(* the user that may not.                                                  *)
Clip == [owner : {"X11", "user"}, text : BOOLEAN, stamp : Time,
         excused : BOOLEAN, announced : BOOLEAN]

TypeOK ==
    /\ now \in Time /\ clip \in Clip
    /\ lastClipboardTimestamp \in 0..MaxTime + EchoWindow
    /\ clipboardSyncEnabled \in BOOLEAN /\ focus \in BOOLEAN
    /\ needsFocus \in BOOLEAN /\ notified \in BOOLEAN
    /\ listening \in BOOLEAN /\ steady \in BOOLEAN /\ setting \in BOOLEAN
    /\ listening => focus
    /\ steady => listening /\ clipboardSyncEnabled
    /\ sinceX11 \in 0..EchoWindow + 1
    /\ ticked \in BOOLEAN /\ ahead \in BOOLEAN
    /\ caughtUp \in 0..MaxTime + EchoWindow + 1

(* The view is made after the clip that is there.                          *)
Init ==
    /\ now \in Time /\ lastClipboardTimestamp = now
    /\ clip \in {c \in Clip : /\ c.owner = "user" /\ c.excused
                              /\ ~c.announced /\ c.stamp <= now}
    /\ needsFocus \in BOOLEAN /\ notified = FALSE
    /\ clipboardSyncEnabled = FALSE /\ focus = FALSE
    /\ listening = FALSE /\ steady = FALSE /\ setting = FALSE
    /\ sinceX11 = EchoWindow + 1 /\ ticked = FALSE
    /\ ahead = FALSE /\ caughtUp = 0

----------------------------------------------------------------------------
Tick ==
    /\ now < MaxTime
    /\ now' = now + 1
    /\ sinceX11' = IF setting \/ sinceX11 > EchoWindow THEN sinceX11
                                                      ELSE sinceX11 + 1
    /\ ticked' = TRUE
    /\ UNCHANGED <<ahead, caughtUp, clip, lastClipboardTimestamp, setting,
                   needsFocus, notified, view>>

(* The user, or the network, sets the clock.                               *)
SetClock(t) ==
    /\ now' = t
    /\ ahead' = (ahead \/ t > now)
    /\ caughtUp' = IF t < now /\ caughtUp <= now + EchoWindow
                   THEN now + EchoWindow + 1 ELSE caughtUp
    /\ UNCHANGED <<sinceX11, ticked, clip, lastClipboardTimestamp, setting,
                   needsFocus, notified, view>>

(* The clip is set; listeners will hear of it.                             *)
SetPrimaryClip(owner, text, excused) ==
    /\ clip' = [owner |-> owner, text |-> text, stamp |-> now,
                excused |-> excused, announced |-> FALSE]
    /\ ticked' = FALSE

(* A copy within 150 ms of a clip of X11, or while one is being set, in    *)
(* the same millisecond as the clip before it, or made while a clock that  *)
(* was set back has not caught up.                                         *)
MayBeMissed ==
    sinceX11 <= EchoWindow \/ ~ticked \/ now < caughtUp

UserCopies ==
    /\ \E text \in BOOLEAN : SetPrimaryClip("user", text, MayBeMissed)
    /\ notified' = (notified \/ listening)
    /\ UNCHANGED <<now, sinceX11, ahead, caughtUp, lastClipboardTimestamp,
                   setting, needsFocus, view>>

(* A clipboard manager sets a clip of X11 again, at any time.  It may come *)
(* back after the 150 ms, or if the clock was set forward meanwhile.       *)
MayComeBack == ~setting /\ (sinceX11 > EchoWindow \/ ahead)

ManagerCopies ==
    /\ clip.owner = "X11"
    /\ SetPrimaryClip("X11", clip.text, MayComeBack)
    /\ notified' = (notified \/ listening)
    /\ UNCHANGED <<now, sinceX11, ahead, caughtUp, lastClipboardTimestamp,
                   setting, needsFocus, view>>

(* Text comes from X11, on the UI thread.  Whether Android notifies a      *)
(* listener of the same app is left open: the comment says it does not.    *)
SetClipboardText ==
    /\ ~setting
    /\ SetPrimaryClip("X11", TRUE, FALSE)
    /\ notified' \in {notified, notified \/ listening}
    /\ setting' = TRUE
    /\ sinceX11' = 0 /\ ahead' = FALSE /\ caughtUp' = 0
    /\ UNCHANGED <<now, lastClipboardTimestamp, needsFocus, view>>

(* A mutant of Ahead, without the 150 ms.                                  *)
AheadNone == now

Ahead == now + EchoWindow

(* Its last line.  A clock that was set back after the clip was stamped    *)
(* leaves the timestamp behind the stamp.                                  *)
SetTimestamp ==
    /\ setting
    /\ setting' = FALSE
    /\ lastClipboardTimestamp' = Ahead
    /\ clip' = [clip EXCEPT !.excused = @ \/ caughtUp > 0]
    /\ ahead' = FALSE
    /\ UNCHANGED <<now, sinceX11, ticked, caughtUp, needsFocus, notified, view>>

Announces(sync, hasFocus) ==
    /\ sync /\ (hasFocus \/ ~needsFocus)
    /\ lastClipboardTimestamp < clip.stamp
    /\ clip.text

(* checkForClipboardChange                                                 *)
Check(sync, hasFocus) ==
    IF Announces(sync, hasFocus)
    THEN /\ lastClipboardTimestamp' = clip.stamp
         /\ clip' = [clip EXCEPT !.announced = TRUE]
    ELSE UNCHANGED <<lastClipboardTimestamp, clip>>

(* handleClipboardChange, for listeners that are still there.              *)
HandleClipboardChange ==
    /\ notified /\ ~setting
    /\ notified' = FALSE
    /\ IF listening THEN Check(clipboardSyncEnabled, focus)
                    ELSE UNCHANGED <<lastClipboardTimestamp, clip>>
    /\ UNCHANGED <<clock, setting, needsFocus, view>>

(* A mutant of FocusGained, which only listens to what comes.              *)
FocusUnchecked ==
    /\ ~focus /\ ~setting
    /\ focus' = TRUE
    /\ listening' = clipboardSyncEnabled /\ steady' = clipboardSyncEnabled
    /\ UNCHANGED <<clock, clip, lastClipboardTimestamp, setting, needsFocus,
                   notified, clipboardSyncEnabled>>

(* A mutant of FocusGained, which only looks, and registers nothing.       *)
FocusUnlistened ==
    /\ ~focus /\ ~setting
    /\ focus' = TRUE /\ steady' = clipboardSyncEnabled
    /\ Check(clipboardSyncEnabled, TRUE)
    /\ UNCHANGED <<clock, setting, needsFocus, notified, clipboardSyncEnabled,
                   listening>>

FocusGained ==
    /\ ~focus /\ ~setting
    /\ focus' = TRUE
    /\ listening' = clipboardSyncEnabled /\ steady' = clipboardSyncEnabled
    /\ Check(clipboardSyncEnabled, TRUE)
    /\ UNCHANGED <<clock, setting, needsFocus, notified, clipboardSyncEnabled>>

FocusLost ==
    /\ focus /\ ~setting
    /\ focus' = FALSE /\ listening' = FALSE /\ steady' = FALSE
    /\ UNCHANGED <<clock, clip, lastClipboardTimestamp, setting, needsFocus,
                   notified, clipboardSyncEnabled>>

(* setClipboardSyncEnabled, after a connection or a change of preferences: *)
(* the listener is left as it is.                                          *)
SetClipboardSyncEnabled ==
    /\ ~setting
    /\ clipboardSyncEnabled' = ~clipboardSyncEnabled
    /\ steady' = FALSE
    /\ UNCHANGED <<clock, clip, lastClipboardTimestamp, setting, needsFocus,
                   notified, focus, listening>>

Next ==
    \/ Tick \/ \E t \in Time : SetClock(t)
    \/ UserCopies \/ ManagerCopies
    \/ SetClipboardText \/ SetTimestamp \/ HandleClipboardChange
    \/ FocusGained \/ FocusLost \/ SetClipboardSyncEnabled

Spec == Init /\ [][Next]_vars

----------------------------------------------------------------------------
(* "Not cool in the case if user installed some clipboard manager": what   *)
(* came from X11 is not announced back to it, nor is what a manager made   *)
(* of it within 150 ms, unless the clock was set in that time: back        *)
(* between the two lines of setClipboardText, or forward after them.       *)
NoEcho == clip.owner = "X11" /\ clip.announced => clip.excused

(* A text copied before or after the window gains the focus has been       *)
(* announced when no notification is left, unless sync was switched in     *)
(* between or the copy is one of those of MayBeMissed.                     *)
CopiesAreAnnounced ==
    (steady /\ ~notified /\ clip.owner = "user" /\ clip.text /\ ~clip.excused)
        => clip.announced
=============================================================================

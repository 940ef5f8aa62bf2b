--------------------------- MODULE ClipboardProofs ---------------------------
(***************************************************************************)
(* Proofs about Clipboard, for any clock and any width of the window.      *)
(***************************************************************************)
EXTENDS Clipboard, TLAPS

(* No later than the clock, or than it once showed before it was set back. *)
Shown(t)   == t <= now \/ t < caughtUp
Outdone(t) == t < now \/ t < caughtUp

(* A clip's stamp is a time the clock has shown.                           *)
StampInv == Shown(clip.stamp) /\ (ticked => Outdone(clip.stamp))

(* Within the window the timestamp is ahead by what is left of it, no more *)
(* and, unless the clock was set forward, no less; after it, not at all.   *)
TimestampInv ==
    IF sinceX11 <= EchoWindow
    THEN LET left == EchoWindow - sinceX11
         IN  /\ lastClipboardTimestamp <= now + left
                    \/ lastClipboardTimestamp < caughtUp
             /\ ~ahead => now + left <= lastClipboardTimestamp
    ELSE /\ Shown(lastClipboardTimestamp)
         /\ ticked => Outdone(lastClipboardTimestamp)

(* A clip of X11 is covered by the timestamp, a copy of the user is not.   *)
ClipInv ==
    ~clip.excused =>
        /\ clip.owner = "X11" => clip.stamp <= lastClipboardTimestamp
        /\ clip.owner = "user" /\ ~clip.announced =>
              lastClipboardTimestamp < clip.stamp

(* Between the two lines of setClipboardText nothing is promised to a copy *)
(* of the user.                                                            *)
SettingInv ==
    setting => sinceX11 = 0 /\ (clip.owner = "user" => clip.excused)

Consistent == StampInv /\ SettingInv /\ (~setting => TimestampInv /\ ClipInv)

IInv == TypeOK /\ Consistent /\ NoEcho /\ CopiesAreAnnounced

----------------------------------------------------------------------------
LEMMA InitInv == Init => IInv
<1> SUFFICES ASSUME Init
             PROVE  IInv
  OBVIOUS
<1>1. /\ now \in 0..MaxTime /\ clip \in Clip
      /\ MaxTime \in Nat /\ EchoWindow \in Nat
  BY ClipboardAssumption DEF Init, Time
<1>2. TypeOK
  <2>1. /\ lastClipboardTimestamp \in 0..MaxTime + EchoWindow
        /\ sinceX11 \in 0..EchoWindow + 1
        /\ caughtUp \in 0..MaxTime + EchoWindow + 1
    BY <1>1 DEF Init
  <2>2. QED
    BY <1>1, <2>1, Zenon DEF Init, TypeOK
<1>3. Consistent
  BY <1>1 DEF Init, Consistent, StampInv, SettingInv, TimestampInv, ClipInv,
              Shown, Outdone
<1>4. QED
  BY <1>2, <1>3 DEF Init, IInv, NoEcho, CopiesAreAnnounced

(* The times of the state are natural numbers.                             *)
LEMMA Times ==
    ASSUME TypeOK
    PROVE  /\ now \in Nat /\ now <= MaxTime /\ MaxTime \in Nat
           /\ lastClipboardTimestamp \in Nat /\ EchoWindow \in Nat
           /\ clip.stamp \in Nat /\ clip.stamp <= MaxTime
           /\ sinceX11 \in Nat /\ caughtUp \in Nat
           /\ sinceX11 <= EchoWindow + 1
           /\ caughtUp <= MaxTime + EchoWindow + 1
BY ClipboardAssumption DEF TypeOK, Time, Clip

----------------------------------------------------------------------------
(* The clock, which changes nothing else.                                  *)

LEMMA TickStep ==
    ASSUME IInv, Tick
    PROVE  IInv'
<1>1. /\ now' = now + 1 /\ now < MaxTime /\ ticked'
      /\ sinceX11' = IF setting \/ sinceX11 > EchoWindow THEN sinceX11
                                                         ELSE sinceX11 + 1
      /\ UNCHANGED <<ahead, caughtUp, clip, lastClipboardTimestamp, setting,
                     needsFocus, notified, clipboardSyncEnabled, focus,
                     listening, steady>>
  BY DEF Tick, view
<1>2. TypeOK'
  BY <1>1, Times DEF IInv, TypeOK, Time
<1>3. Consistent'
  <2>1. StampInv' /\ SettingInv'
    BY <1>1, Times
    DEF IInv, Consistent, StampInv, SettingInv, Shown, Outdone
  <2>2. ~setting => TimestampInv'
    BY <1>1, Times
    DEF IInv, Consistent, TimestampInv, Shown, Outdone
  <2>3. QED
    BY <1>1, <2>1, <2>2 DEF IInv, Consistent, ClipInv
<1>4. QED
  BY <1>1, <1>2, <1>3 DEF IInv, NoEcho, CopiesAreAnnounced

LEMMA SetClockStep ==
    ASSUME IInv, NEW t \in Time, SetClock(t)
    PROVE  IInv'
<1>1. /\ now' = t
      /\ ahead' <=> ahead \/ t > now
      /\ ahead' \in BOOLEAN
      /\ UNCHANGED <<sinceX11, ticked, clip, lastClipboardTimestamp, setting,
                     needsFocus, notified, clipboardSyncEnabled, focus,
                     listening, steady>>
  BY DEF SetClock, view
<1>2. /\ caughtUp' >= caughtUp
      /\ t < now => caughtUp' > now + EchoWindow
      /\ caughtUp' \in 0..MaxTime + EchoWindow + 1
  BY Times DEF SetClock, IInv
<1>3. t \in Nat /\ t <= MaxTime
  BY ClipboardAssumption DEF Time
<1>4. TypeOK'
  BY <1>1, <1>2 DEF IInv, TypeOK
<1>5. Consistent'
  <2>1. \A n \in Nat : /\ Shown(n) => Shown(n)'
                       /\ Outdone(n) => Outdone(n)'
    BY <1>1, <1>2, <1>3, Times DEF IInv, Shown, Outdone
  <2>2. StampInv' /\ SettingInv'
    BY <1>1, <2>1, Times DEF IInv, Consistent, StampInv, SettingInv
  <2>3. ASSUME ~setting, sinceX11 <= EchoWindow
        PROVE  TimestampInv'
    BY <1>1, <1>2, <1>3, <2>3, Times DEF IInv, Consistent, TimestampInv
  <2>4. ASSUME ~setting, ~(sinceX11 <= EchoWindow)
        PROVE  TimestampInv'
    BY <1>1, <2>1, <2>4, Times DEF IInv, Consistent, TimestampInv
  <2>5. QED
    BY <1>1, <2>2, <2>3, <2>4 DEF IInv, Consistent, ClipInv
<1>6. QED
  BY <1>1, <1>4, <1>5 DEF IInv, NoEcho, CopiesAreAnnounced

----------------------------------------------------------------------------
(* Clips.                                                                  *)

(* A new clip, of another app or of X11.                                   *)
LEMMA ClipIsSet ==
    ASSUME TypeOK, NEW owner \in {"X11", "user"}, NEW text \in BOOLEAN,
           NEW excused \in BOOLEAN, SetPrimaryClip(owner, text, excused)
    PROVE  /\ clip' \in Clip /\ clip'.owner = owner /\ clip'.stamp = now
           /\ clip'.excused = excused /\ ~clip'.announced
           /\ ticked' = FALSE
<1>1. clip' = [owner |-> owner, text |-> text, stamp |-> now,
               excused |-> excused, announced |-> FALSE]
  BY DEF SetPrimaryClip
<1>2. now \in Time
  BY DEF TypeOK
<1>3. clip' \in Clip
  BY <1>1, <1>2, Zenon DEF Clip
<1>4. QED
  BY <1>1, <1>3 DEF SetPrimaryClip

(* Any other app's copy, of the user's or of X11's.                        *)
LEMMA CopyStep ==
    ASSUME IInv, UserCopies \/ ManagerCopies
    PROVE  IInv'
<1>1. PICK owner \in {"X11", "user"}, excused \in BOOLEAN :
        /\ clip' \in Clip /\ clip'.owner = owner /\ clip'.stamp = now
        /\ clip'.excused = excused /\ ~clip'.announced
        /\ owner = "user" => (excused <=> MayBeMissed)
        /\ owner = "X11" => (excused <=> MayComeBack)
  <2>1. CASE UserCopies
    <3>1. PICK text \in BOOLEAN : SetPrimaryClip("user", text, MayBeMissed)
      BY <2>1 DEF UserCopies
    <3>2. MayBeMissed \in BOOLEAN
      BY DEF MayBeMissed
    <3>3. QED
      BY <3>1, <3>2, ClipIsSet DEF IInv
  <2>2. CASE ManagerCopies
    <3>1. SetPrimaryClip("X11", clip.text, MayComeBack)
      BY <2>2 DEF ManagerCopies
    <3>2. MayComeBack \in BOOLEAN /\ clip.text \in BOOLEAN
      BY DEF MayComeBack, IInv, TypeOK, Clip
    <3>3. QED
      BY <3>1, <3>2, ClipIsSet DEF IInv
  <2>3. QED
    BY <2>1, <2>2
<1>2. /\ ticked' = FALSE /\ notified' = (notified \/ listening)
      /\ UNCHANGED <<now, sinceX11, ahead, caughtUp, lastClipboardTimestamp,
                     setting, needsFocus, clipboardSyncEnabled, focus,
                     listening, steady>>
  BY DEF UserCopies, ManagerCopies, SetPrimaryClip, view
<1>3. TypeOK'
  BY <1>1, <1>2 DEF IInv, TypeOK
<1>4. StampInv' /\ SettingInv'
  BY <1>1, <1>2, Times DEF IInv, Consistent, StampInv, SettingInv, Shown,
                           MayBeMissed
<1>5. ~setting => TimestampInv' /\ ClipInv'
  <2> SUFFICES ASSUME ~setting
               PROVE  TimestampInv' /\ ClipInv'
    OBVIOUS
  <2>1. TimestampInv
    BY DEF IInv, Consistent
  <2>2. TimestampInv'
    BY <1>2, <2>1 DEF TimestampInv, Shown
  <2>3. ~excused /\ owner = "user" => lastClipboardTimestamp < now
    BY <1>1, <2>1, Times DEF IInv, TimestampInv, Outdone, MayBeMissed
  <2>4. ~excused /\ owner = "X11" => now <= lastClipboardTimestamp
    BY <1>1, <2>1, Times DEF IInv, TimestampInv, MayComeBack
  <2>5. QED
    BY <1>1, <1>2, <2>2, <2>3, <2>4 DEF ClipInv
<1>6. NoEcho' /\ CopiesAreAnnounced'
  BY <1>1, <1>2 DEF IInv, TypeOK, NoEcho, CopiesAreAnnounced
<1>7. QED
  BY <1>2, <1>3, <1>4, <1>5, <1>6 DEF IInv, Consistent

(* The two lines of setClipboardText.                                      *)
LEMMA SetClipboardTextStep ==
    ASSUME IInv, SetClipboardText
    PROVE  IInv'
<1>1. /\ clip' \in Clip /\ clip'.owner = "X11" /\ clip'.stamp = now
      /\ ~clip'.excused /\ ~clip'.announced /\ ticked' = FALSE
  BY ClipIsSet DEF SetClipboardText, IInv
<1>2. /\ setting' = TRUE /\ sinceX11' = 0 /\ ahead' = FALSE /\ caughtUp' = 0
      /\ notified' \in BOOLEAN
      /\ UNCHANGED <<now, lastClipboardTimestamp, needsFocus,
                     clipboardSyncEnabled, focus, listening, steady>>
  BY DEF SetClipboardText, view, IInv, TypeOK
<1>3. TypeOK'
  <2>1. /\ sinceX11' \in 0..EchoWindow + 1
        /\ caughtUp' \in 0..MaxTime + EchoWindow + 1
    BY <1>2, Times DEF IInv
  <2>2. QED
    BY <1>1, <1>2, <2>1, Zenon DEF IInv, TypeOK
<1>4. Consistent'
  BY <1>1, <1>2, Times DEF IInv, Consistent, StampInv, SettingInv, Shown
<1>5. QED
  BY <1>1, <1>3, <1>4 DEF IInv, NoEcho, CopiesAreAnnounced

LEMMA SetTimestampStep ==
    ASSUME IInv, SetTimestamp
    PROVE  IInv'
<1>1. /\ setting /\ setting' = FALSE /\ ahead' = FALSE
      /\ lastClipboardTimestamp' = now + EchoWindow
      /\ UNCHANGED <<now, sinceX11, ticked, caughtUp, needsFocus, notified,
                     clipboardSyncEnabled, focus, listening, steady>>
  BY DEF SetTimestamp, Ahead, view
<1>2. /\ clip' \in Clip
      /\ clip'.owner = clip.owner /\ clip'.stamp = clip.stamp
      /\ clip'.announced = clip.announced /\ clip'.text = clip.text
      /\ clip'.excused <=> (clip.excused \/ caughtUp > 0)
  <2>1. /\ clip' = [clip EXCEPT !.excused = clip.excused \/ caughtUp > 0]
        /\ clip \in Clip /\ (clip.excused \/ caughtUp > 0) \in BOOLEAN
    BY DEF SetTimestamp, IInv, TypeOK
  <2>2. QED
    BY <2>1 DEF Clip
<1>3. TypeOK'
  <2>1. lastClipboardTimestamp' \in 0..MaxTime + EchoWindow
    BY <1>1, Times DEF IInv
  <2>2. QED
    BY <1>1, <1>2, <2>1, Zenon DEF IInv, TypeOK
<1>4. StampInv' /\ SettingInv'
  BY <1>1, <1>2 DEF IInv, Consistent, StampInv, SettingInv, Shown, Outdone
<1>5. TimestampInv' /\ ClipInv'
  <2>1. sinceX11 = 0 /\ (clip.owner = "user" => clip.excused)
    BY <1>1 DEF IInv, Consistent, SettingInv
  <2>2. clip.stamp <= now \/ clip.stamp < caughtUp
    BY DEF IInv, Consistent, StampInv, Shown
  <2>3. QED
    BY <1>1, <1>2, <2>1, <2>2, Times DEF IInv, TimestampInv, ClipInv
<1>6. NoEcho' /\ CopiesAreAnnounced'
  BY <1>1, <1>2 DEF IInv, NoEcho, CopiesAreAnnounced
<1>7. QED
  BY <1>3, <1>4, <1>5, <1>6 DEF IInv, Consistent

----------------------------------------------------------------------------
(* checkForClipboardChange announces what the user copied, and nothing     *)
(* that came from X11 and is not excused.                                  *)
LEMMA CheckKeeps ==
    ASSUME IInv, ~setting, NEW sync, NEW hasFocus, Check(sync, hasFocus),
           UNCHANGED <<clock, setting>>
    PROVE  /\ clip' \in Clip
           /\ lastClipboardTimestamp' \in 0..MaxTime + EchoWindow
           /\ Consistent' /\ NoEcho'
           /\ clip'.owner = clip.owner /\ clip'.text = clip.text
           /\ clip'.excused = clip.excused
           /\ clip.announced => clip'.announced
           /\ sync /\ hasFocus /\ clip.owner = "user" /\ clip.text
              /\ ~clip.excused => clip'.announced
<1>1. /\ StampInv /\ SettingInv /\ TimestampInv /\ ClipInv
      /\ UNCHANGED <<now, sinceX11, ticked, ahead, caughtUp>>
  BY DEF IInv, Consistent, clock
<1>2. CASE Announces(sync, hasFocus)
  <2>1. /\ lastClipboardTimestamp' = clip.stamp
        /\ clip' = [clip EXCEPT !.announced = TRUE]
        /\ lastClipboardTimestamp < clip.stamp
    BY <1>2 DEF Check, Announces
  <2>2. /\ clip' \in Clip /\ clip'.owner = clip.owner /\ clip'.text = clip.text
        /\ clip'.excused = clip.excused /\ clip'.announced
        /\ clip'.stamp = clip.stamp
    BY <2>1 DEF IInv, TypeOK, Clip
  <2>3. clip.owner = "X11" => clip.excused
    BY <1>1, <2>1, Times DEF IInv, ClipInv
  <2>4. lastClipboardTimestamp' \in 0..MaxTime + EchoWindow
    BY <2>1, Times DEF IInv
  <2>5. TimestampInv'
    BY <1>1, <2>1, Times DEF IInv, TimestampInv, StampInv, Shown, Outdone
  <2>6. StampInv' /\ SettingInv' /\ ClipInv' /\ NoEcho'
    BY <1>1, <2>1, <2>2, <2>3, Times
    DEF IInv, StampInv, SettingInv, ClipInv, NoEcho, Shown, Outdone
  <2>7. QED
    BY <2>2, <2>3, <2>4, <2>5, <2>6 DEF Consistent
<1>3. CASE ~Announces(sync, hasFocus)
  <2>1. UNCHANGED <<lastClipboardTimestamp, clip>>
    BY <1>3 DEF Check
  <2>2. sync /\ hasFocus /\ clip.text => ~(lastClipboardTimestamp < clip.stamp)
    BY <1>3 DEF Announces
  <2>3. Consistent' /\ NoEcho'
    BY <1>1, <2>1 DEF IInv, Consistent, StampInv, SettingInv, TimestampInv,
                      ClipInv, NoEcho, Shown, Outdone
  <2>4. QED
    BY <1>1, <2>1, <2>2, <2>3 DEF IInv, TypeOK, ClipInv
<1>4. QED
  BY <1>2, <1>3

LEMMA HandleStep ==
    ASSUME IInv, HandleClipboardChange
    PROVE  IInv'
<1>1. /\ UNCHANGED <<clock, setting, needsFocus, view>>
      /\ ~setting /\ notified' = FALSE
  BY DEF HandleClipboardChange
<1>2. CASE listening
  <2>1. Check(clipboardSyncEnabled, focus)
    BY <1>2 DEF HandleClipboardChange
  <2>2. QED
    BY <1>1, <1>2, <2>1, CheckKeeps
    DEF IInv, clock, view, TypeOK, CopiesAreAnnounced
<1>3. CASE ~listening
  <2>1. UNCHANGED <<lastClipboardTimestamp, clip>>
    BY <1>3 DEF HandleClipboardChange
  <2>2. Consistent' /\ NoEcho'
    BY <1>1, <2>1 DEF IInv, clock, Consistent, StampInv, SettingInv,
                      TimestampInv, ClipInv, NoEcho, Shown, Outdone
  <2>3. TypeOK' /\ CopiesAreAnnounced'
    BY <1>1, <1>3, <2>1 DEF IInv, clock, view, TypeOK, CopiesAreAnnounced
  <2>4. QED
    BY <2>2, <2>3 DEF IInv
<1>4. QED
  BY <1>2, <1>3

LEMMA FocusGainedStep ==
    ASSUME IInv, FocusGained
    PROVE  IInv'
<1>1. /\ UNCHANGED <<clock, setting, needsFocus, notified,
                     clipboardSyncEnabled>>
      /\ ~setting /\ focus' = TRUE /\ listening' = clipboardSyncEnabled
      /\ steady' = clipboardSyncEnabled
  BY DEF FocusGained
<1>2. Check(clipboardSyncEnabled, TRUE)
  BY Zenon DEF FocusGained
<1>3. QED
  BY <1>1, <1>2, CheckKeeps DEF IInv, clock, TypeOK, CopiesAreAnnounced

LEMMA StepInv ==
    ASSUME IInv, [Next]_vars
    PROVE  IInv'
<1>1. ASSUME UNCHANGED <<clock, clip, lastClipboardTimestamp, setting>>
      PROVE  Consistent' /\ NoEcho'
  BY <1>1 DEF IInv, clock, Consistent, StampInv, SettingInv, TimestampInv,
              ClipInv, NoEcho, Shown, Outdone
<1>2. CASE FocusLost
  <2>1. TypeOK' /\ CopiesAreAnnounced'
    BY <1>2 DEF FocusLost, IInv, clock, TypeOK, CopiesAreAnnounced
  <2>2. QED
    BY <1>1, <1>2, <2>1 DEF FocusLost, IInv
<1>3. CASE SetClipboardSyncEnabled
  <2>1. TypeOK' /\ CopiesAreAnnounced'
    BY <1>3 DEF SetClipboardSyncEnabled, IInv, clock, TypeOK,
                CopiesAreAnnounced
  <2>2. QED
    BY <1>1, <1>3, <2>1 DEF SetClipboardSyncEnabled, IInv
<1>4. CASE UNCHANGED vars
  <2>1. TypeOK' /\ CopiesAreAnnounced'
    BY <1>4 DEF vars, view, IInv, clock, TypeOK, CopiesAreAnnounced
  <2>2. QED
    BY <1>1, <1>4, <2>1 DEF vars, IInv
<1>5. QED
  BY <1>2, <1>3, <1>4, TickStep, SetClockStep, CopyStep, SetClipboardTextStep,
     SetTimestampStep, HandleStep, FocusGainedStep DEF Next

LEMMA Inductive == Spec => []IInv
<1>1. QED
  BY InitInv, StepInv, PTL DEF Spec

----------------------------------------------------------------------------
(* Clip, clock and flags keep their types, and only a window with the      *)
(* focus listens.                                                          *)
THEOREM TypeCorrect == Spec => []TypeOK
<1>1. IInv => TypeOK
  BY DEF IInv
<1>2. QED
  BY <1>1, Inductive, PTL

(* What came from X11 is announced back to it only if a manager set it     *)
(* again after the window, or the clock was set within it.                 *)
THEOREM NothingComesBack == Spec => []NoEcho
<1>1. IInv => NoEcho
  BY DEF IInv
<1>2. QED
  BY <1>1, Inductive, PTL

(* A text copied while sync is on, after the window, on a clock that is    *)
(* not behind an earlier reading of its own, is announced.                 *)
THEOREM CopiesReachX == Spec => []CopiesAreAnnounced
<1>1. IInv => CopiesAreAnnounced
  BY DEF IInv
<1>2. QED
  BY <1>1, Inductive, PTL
=============================================================================

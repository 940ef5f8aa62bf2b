---------------------------- MODULE GestureProofs ----------------------------
(***************************************************************************)
(* Safety of TapDetector, by itself and within GestureInput, and of the    *)
(* remote mouse's buttons, for any fingers and positions, with or without  *)
(* ACTION_CANCEL.  HandlerInv holds wherever drags are cut short; GInv     *)
(* needs them whole.                                                       *)
(***************************************************************************)
EXTENDS GestureInput, FiniteSetTheorems, SequenceTheorems, TLAPS

(* While the gesture may still be a tap, nothing has moved, nothing was    *)
(* reported, and the first point is stored.                                *)
Eligible ==
    Touching # {} /\ ~mTapCancelled =>
        /\ mInitialPoint # None
        /\ ~strayed
        /\ told = 0
        /\ \A f \in Touching : mInitialPositions[f] = at[f]

(* The long-press message is queued only until the first finger leaves.    *)
Armed ==
    longPress => /\ Touching # {}
                 /\ ~mTapCancelled
                 /\ mPointerCount = Cardinality(Touching)

IInv == /\ TypeOK
        /\ Eligible
        /\ Armed
        /\ OneNotification
        /\ NotificationMeansStill

(* The fingers on the screen are finitely many.                            *)
LEMMA TouchingFinite ==
  /\ IsFiniteSet(Touching)
  /\ Cardinality(Touching) \in Nat
  /\ Touching # {} => Cardinality(Touching) > 0
<1>1. IsFiniteSet(Touching)
  BY FingerAssumption, FS_Subset DEF Touching
<1> QED
  BY <1>1, FS_CardinalityType, FS_EmptySet

(* The invariant holds at the start.                                       *)
LEMMA InitIInv == Init => IInv
<1> SUFFICES ASSUME Init PROVE IInv
  OBVIOUS
<1>1. TypeOK
  <2>1. /\ mTapCancelled \in BOOLEAN /\ longPress \in BOOLEAN
        /\ strayed \in BOOLEAN
    BY DEF Init
  <2> QED
    BY <2>1 DEF Init, TypeOK, Notes, Silent
<1>2. Touching = {}
  BY DEF Init, Touching
<1> QED
  BY <1>1, <1>2
  DEF Init, IInv, Eligible, Armed, OneNotification, NotificationMeansStill,
      Silent

(* ACTION_DOWN starts a gesture.                                           *)
LEMMA DownStep ==
  ASSUME IInv, NEW f \in Finger, NEW p \in Position, Down(f, p)
  PROVE  IInv'
<1>1. Touching' = {f}
  BY NoneAssumption DEF IInv, TypeOK, Down, Touching
<1>2. Cardinality(Touching') = 1
  BY <1>1, FS_Singleton
<1>3. TypeOK'
  <2>1. /\ mTapCancelled' \in BOOLEAN /\ longPress' \in BOOLEAN
        /\ strayed' \in BOOLEAN
    BY DEF Down
  <2> QED
    BY <2>1 DEF IInv, TypeOK, Down, TrackDownEvent, Notes, Silent
<1>4. Eligible'
  <2>1. mInitialPoint' # None /\ mInitialPositions'[f] = p /\ at'[f] = p
    BY NoneAssumption DEF IInv, TypeOK, Down, TrackDownEvent
  <2> QED
    BY <1>1, <2>1 DEF Eligible, Down
<1>5. Armed'
  BY <1>1, <1>2 DEF Armed, Down
<1>6. OneNotification' /\ NotificationMeansStill'
  BY DEF Down, OneNotification, NotificationMeansStill, Silent
<1> QED
  BY <1>3, <1>4, <1>5, <1>6 DEF IInv

(* ACTION_POINTER_DOWN adds a finger.                                      *)
LEMMA PointerDownStep ==
  ASSUME IInv, NEW f \in Finger, NEW p \in Position, PointerDown(f, p)
  PROVE  IInv'
<1>1. Touching' = Touching \cup {f}
  BY NoneAssumption DEF IInv, TypeOK, PointerDown, Touching
<1>2. f \notin Touching /\ Touching # {}
  BY DEF PointerDown
<1>3. Cardinality(Touching \cup {f}) = Cardinality(Touching) + 1
  BY <1>2, TouchingFinite, FS_AddElement
<1>4. TypeOK'
  <2>1. mPointerCount' \in Nat
    BY <1>3, TouchingFinite DEF IInv, TypeOK, PointerDown
  <2> QED
    BY <2>1 DEF IInv, TypeOK, PointerDown, TrackDownEvent, Quiet, Notes, Silent
<1>5. Eligible'
  <2>1. /\ mInitialPositions' = [mInitialPositions EXCEPT ![f] = p]
        /\ at' = [at EXCEPT ![f] = p]
        /\ UNCHANGED <<mTapCancelled, strayed, told>>
    BY DEF PointerDown, Quiet
  <2>2. mInitialPoint # None => mInitialPoint' # None
    BY DEF PointerDown, TrackDownEvent
  <2>3. \A g \in Touching : g \in Finger
    BY DEF Touching
  <2> QED
    BY <1>1, <1>2, <2>1, <2>2, <2>3 DEF IInv, TypeOK, Eligible
<1>6. Armed'
  BY <1>1, <1>2, <1>3, TouchingFinite DEF IInv, TypeOK, Armed, PointerDown
<1>7. OneNotification' /\ NotificationMeansStill'
  BY DEF IInv, PointerDown, Quiet, Silent, OneNotification,
         NotificationMeansStill
<1> QED
  BY <1>4, <1>5, <1>6, <1>7 DEF IInv

(* ACTION_MOVE either stays within the slop or ends the tap.               *)
LEMMA MoveStep ==
  ASSUME IInv, NEW now \in [Finger -> Position \cup {None}], Move(now)
  PROVE  IInv'
<1>1. Touching' = Touching
  BY DEF Move, Touching
<1>2. TypeOK'
  <2>1. strayed' \in BOOLEAN
    BY DEF IInv, TypeOK, Move
  <2>2. mTapCancelled' \in BOOLEAN /\ longPress' \in BOOLEAN
    BY DEF IInv, TypeOK, Move
  <2>3. mInitialPositions' \in [Finger -> Position \cup {None}]
    BY DEF IInv, TypeOK, Move, StoreMissing
  <2> QED
    BY <2>1, <2>2, <2>3 DEF IInv, TypeOK, Move, Quiet, Notes, Silent
<1>3. Eligible'
  <2>1. SUFFICES ASSUME Touching # {}, ~mTapCancelled'
                 PROVE  /\ mInitialPoint' # None
                        /\ ~strayed' /\ told' = 0
                        /\ \A f \in Touching : mInitialPositions'[f] = at'[f]
    BY <1>1 DEF Eligible
  <2>2. /\ ~mTapCancelled /\ ~MotionDetected(now)
        /\ mInitialPositions' = StoreMissing(now)
    BY <2>1 DEF Move
  <2>3. \A f \in Touching : /\ mInitialPositions[f] = at[f]
                            /\ at[f] # None /\ f \in Finger
    BY <2>1, <2>2 DEF IInv, Eligible, Touching
  <2>4. \A f \in Touching : now[f] = mInitialPositions[f]
    BY <2>2, <2>3 DEF MotionDetected
  <2>5. now = at
    <3>1. \A f \in Finger : now[f] = at[f]
      BY <2>3, <2>4 DEF Move, Touching
    <3> QED
      BY <3>1 DEF IInv, TypeOK
  <2>6. \A f \in Touching : mInitialPositions'[f] = at[f]
    BY <2>2, <2>3 DEF StoreMissing
  <2> QED
    BY <2>1, <2>2, <2>5, <2>6 DEF IInv, Eligible, Move, Quiet
<1>4. Armed'
  BY <1>1 DEF IInv, Armed, Move
<1>5. OneNotification' /\ NotificationMeansStill'
  BY DEF IInv, Move, Quiet, Silent, OneNotification, NotificationMeansStill
<1> QED
  BY <1>2, <1>3, <1>4, <1>5 DEF IInv

(* ACTION_UP of the last finger.                                           *)
LEMMA UpStep ==
  ASSUME IInv, NEW f \in Finger, Up(f)
  PROVE  IInv'
<1>1. Touching' = {}
  BY DEF IInv, TypeOK, Up, Touching
<1>2. Touching # {}
  BY DEF Up
<1>3. TypeOK'
  <2>1. note' \in Notes /\ told' \in Nat
    BY DEF IInv, TypeOK, Up, Quiet, Notify, Notes, Silent
  <2>2. longPress' \in BOOLEAN
    BY DEF Up
  <2> QED
    BY <2>1, <2>2 DEF IInv, TypeOK, Up
<1>4. Eligible' /\ Armed'
  BY <1>1 DEF Eligible, Armed, Up
<1>5. OneNotification' /\ NotificationMeansStill'
  BY <1>2
  DEF IInv, Eligible, Up, Quiet, Notify, Silent, OneNotification,
      NotificationMeansStill
<1> QED
  BY <1>3, <1>4, <1>5 DEF IInv

(* ACTION_POINTER_UP of one finger among several.                          *)
LEMMA PointerUpStep ==
  ASSUME IInv, NEW f \in Finger, PointerUp(f)
  PROVE  IInv'
<1>1. Touching' = Touching \ {f}
  BY DEF IInv, TypeOK, PointerUp, Touching
<1>2. TypeOK'
  <2>1. longPress' \in BOOLEAN
    BY DEF PointerUp
  <2> QED
    BY <2>1 DEF IInv, TypeOK, PointerUp, Quiet, Notes, Silent
<1>3. Eligible'
  <2>1. /\ mInitialPositions' = [mInitialPositions EXCEPT ![f] = None]
        /\ at' = [at EXCEPT ![f] = None]
        /\ UNCHANGED <<mTapCancelled, strayed, told, mInitialPoint>>
    BY DEF PointerUp, Quiet
  <2>2. \A g \in Touching : g \in Finger
    BY DEF Touching
  <2> QED
    BY <1>1, <2>1, <2>2 DEF IInv, TypeOK, Eligible
<1>4. Armed'
  BY DEF Armed, PointerUp
<1>5. OneNotification' /\ NotificationMeansStill'
  BY DEF IInv, PointerUp, Quiet, Silent, OneNotification,
         NotificationMeansStill
<1> QED
  BY <1>2, <1>3, <1>4, <1>5 DEF IInv

(* ACTION_CANCEL.                                                          *)
LEMMA CancelStep ==
  ASSUME IInv, Cancel
  PROVE  IInv'
<1>1. Touching' = {}
  BY DEF Cancel, Touching
<1>2. TypeOK'
  <2>1. longPress' \in BOOLEAN
    BY DEF Cancel
  <2> QED
    BY <2>1 DEF IInv, TypeOK, Cancel, Quiet, Notes, Silent
<1>3. Eligible' /\ Armed'
  BY <1>1 DEF Eligible, Armed, Cancel
<1>4. OneNotification' /\ NotificationMeansStill'
  BY DEF IInv, Cancel, Quiet, Silent, OneNotification,
         NotificationMeansStill
<1> QED
  BY <1>2, <1>3, <1>4 DEF IInv

(* The long-press timeout.                                                 *)
LEMMA LongPressStep ==
  ASSUME IInv, LongPress
  PROVE  IInv'
<1>1. Touching' = Touching
  BY DEF LongPress, Touching
<1>2. TypeOK'
  <2>1. longPress' \in BOOLEAN /\ mTapCancelled' \in BOOLEAN
    BY DEF LongPress
  <2> QED
    BY <2>1 DEF IInv, TypeOK, LongPress, Notify, Notes
<1>3. Eligible' /\ Armed'
  BY DEF Eligible, Armed, LongPress
<1>4. OneNotification' /\ NotificationMeansStill'
  BY <1>1, TouchingFinite
  DEF IInv, Eligible, Armed, LongPress, Notify, OneNotification,
      NotificationMeansStill
<1> QED
  BY <1>2, <1>3, <1>4 DEF IInv

(* The inductive invariant.                                                *)
THEOREM Inductive == Spec => []IInv
<1>1. IInv /\ UNCHANGED vars => IInv'
  BY DEF vars, IInv, TypeOK, Eligible, Armed, OneNotification,
         NotificationMeansStill, Touching
<1>2. IInv /\ [Next]_vars => IInv'
  BY <1>1, DownStep, PointerDownStep, MoveStep, UpStep, PointerUpStep,
     CancelStep, LongPressStep
  DEF Next
<1> QED
  BY InitIInv, <1>2, PTL DEF Spec

(* The state keeps its types.                                              *)
THEOREM TypeCorrect == Spec => []TypeOK
<1>1. IInv => TypeOK
  BY DEF IInv
<1> QED
  BY Inductive, <1>1, PTL

(* A gesture is reported at most once, as a tap or as a long press.        *)
THEOREM ReportedOnce == Spec => []OneNotification
<1>1. IInv => OneNotification
  BY DEF IInv
<1> QED
  BY Inductive, <1>1, PTL

(* What is reported is true of the fingers: none has strayed, and those of *)
(* a long press are all still down.                                        *)
THEOREM ReportsAreTrue == Spec => []NotificationMeansStill
<1>1. IInv => NotificationMeansStill
  BY DEF IInv
<1> QED
  BY Inductive, <1>1, PTL

(* Neither dereference of the first point meets a null.                    *)
THEOREM PointIsAlwaysKnown == Spec => []PointIsKnown
<1>1. IInv => PointIsKnown
  BY DEF IInv, Eligible, PointIsKnown
<1> QED
  BY Inductive, <1>1, PTL

----------------------------------------------------------------------------
(* Every button event is one of the three the remote knows.                *)
Events == [button : Buttons, down : BOOLEAN]

(* Whatever is cut short: the detector's invariant, the types, and a held  *)
(* button that is down at the remote while no click is queued.             *)
FlagsOK ==
    /\ mode \in Modes
    /\ tapToMove \in BOOLEAN
    /\ delayedTap \in Nat
    /\ mIsDragging \in BOOLEAN /\ mSuppressCursorMovement \in BOOLEAN
    /\ mSwipeCompleted \in BOOLEAN
    /\ doubleTappable \in BOOLEAN /\ doubleTapping \in BOOLEAN
    /\ moved \in {"none", "cursor", "wheel", "swipe"}

HeldIsDown ==
    mHeldButton # Undefined => mHeldButton \in pressed /\ delayedTap = 0

HandlerInv ==
    /\ IInv /\ FlagsOK
    /\ mHeldButton \in Buttons \cup {Undefined}
    /\ sent \in Seq(Events)
    /\ pressed \subseteq Buttons
    /\ HeldIsDown

LEMMA ButtonOfCount ==
    ASSUME NEW n \in Nat
    PROVE  MouseButtonFromPointerCount(n) \in Buttons \cup {Undefined}
<1>1. CASE n = 1
  BY <1>1 DEF MouseButtonFromPointerCount, Buttons
<1>2. CASE n = 2
  BY <1>2 DEF MouseButtonFromPointerCount, Buttons
<1>3. CASE n = 3
  BY <1>3 DEF MouseButtonFromPointerCount, Buttons
<1>4. CASE n \notin {1, 2, 3}
  BY <1>4 DEF MouseButtonFromPointerCount, Undefined
<1> QED
  BY <1>1, <1>2, <1>3, <1>4

LEMMA ButtonOfGesture ==
    ASSUME NEW n, n.count \in Nat
    PROVE  GestureButton(n) \in Buttons \cup {Undefined}
BY ButtonOfCount DEF GestureButton

(* Nothing sent leaves the buttons as they are.                            *)
LEMMA SentNothing ==
    ASSUME pressed \subseteq Buttons
    PROVE  /\ <<>> \in Seq(Events) /\ Alternates(<<>>)
           /\ PressedAfter(<<>>) = pressed
BY DEF Alternates, PressedAfter

(* What was sent before an event, seen from the queue with that event.     *)
LEMMA Before ==
    ASSUME NEW S, NEW q \in Seq(S), NEW e \in S
    PROVE  /\ Append(q, e) \in Seq(S)
           /\ Len(Append(q, e)) = Len(q) + 1
           /\ Append(q, e)[Len(q) + 1] = e
           /\ \A i \in 1..Len(q) : /\ Append(q, e)[i] = q[i]
                                    /\ SubSeq(Append(q, e), 1, i - 1)
                                          = SubSeq(q, 1, i - 1)
           /\ SubSeq(Append(q, e), 1, Len(q)) = q
<1>1. /\ Append(q, e) \in Seq(S) /\ Len(Append(q, e)) = Len(q) + 1
      /\ Append(q, e)[Len(q) + 1] = e
      /\ \A i \in 1..Len(q) : Append(q, e)[i] = q[i]
  OBVIOUS
<1>2. ASSUME NEW i \in 1..Len(q)
      PROVE  SubSeq(Append(q, e), 1, i - 1) = SubSeq(q, 1, i - 1)
  BY AppendIsConcat, SubSeqOfConcat1, <<e>> \in Seq(S), 1 \in 1..Len(q) + 1,
     i - 1 \in 1 - 1..Len(q)
<1>3. SubSeq(Append(q, e), 1, Len(q)) = q
  BY AppendIsConcat, SubSeqOfConcat1, SubSeqFull, <<e>> \in Seq(S),
     1 \in 1..Len(q) + 1, Len(q) \in 1 - 1..Len(q)
<1> QED
  BY <1>1, <1>2, <1>3

(* One more event presses its button, or releases it.                      *)
LEMMA SentOneMore ==
    ASSUME NEW q \in Seq(Events), NEW e \in Events
    PROVE  /\ Append(q, e) \in Seq(Events)
           /\ PressedAfter(Append(q, e)) =
                 IF e.down THEN PressedAfter(q) \cup {e.button}
                           ELSE PressedAfter(q) \ {e.button}
           /\ Alternates(q) /\ (e.down <=> e.button \notin PressedAfter(q))
                 => Alternates(Append(q, e))
<1> DEFINE r == Append(q, e)
<1>1. /\ r \in Seq(Events) /\ Len(r) = Len(q) + 1 /\ r[Len(q) + 1] = e
      /\ \A i \in 1..Len(q) : /\ r[i] = q[i]
                               /\ SubSeq(r, 1, i - 1) = SubSeq(q, 1, i - 1)
      /\ SubSeq(r, 1, Len(q)) = q
  BY Before
<1>2. /\ e.button \in Buttons /\ e.down \in BOOLEAN
      /\ e = [button |-> e.button, down |-> e.down]
  BY DEF Events
<1> HIDE DEF r
<1>3. /\ DOMAIN q = 1..Len(q) /\ DOMAIN r = 1..(Len(q) + 1)
      /\ Len(q) \in Nat
  BY <1>1
<1>4. ASSUME NEW b \in Buttons, b # e.button
      PROVE  b \in PressedAfter(r) <=> b \in PressedAfter(q)
  <2>1. /\ \A i \in DOMAIN q : i \in 1..Len(q) /\ i \in DOMAIN r /\ r[i] = q[i]
        /\ \A i \in DOMAIN r : i \in DOMAIN q \/ r[i] = e
    BY <1>1, <1>3
  <2>2. (\A i \in DOMAIN r : r[i].button # b)
            <=> (\A i \in DOMAIN q : q[i].button # b)
    BY <1>4, <1>1, <2>1
  <2>3. ASSUME NEW i \in 1..Len(q)
        PROVE  (\A j \in i + 1..Len(r) : r[j].button # b)
                   <=> (\A j \in i + 1..Len(q) : q[j].button # b)
    <3>1. \A j \in i + 1..Len(q) : j \in i + 1..Len(r) /\ r[j] = q[j]
      BY <1>1, <1>3
    <3>2. \A j \in i + 1..Len(r) :
              (j \in i + 1..Len(q) /\ r[j] = q[j]) \/ r[j] = e
      BY <1>1, <1>3
    <3> QED
      BY <1>4, <3>1, <3>2
  <2>4. e # [button |-> b, down |-> TRUE]
    BY <1>4
  <2>5. (\E i \in DOMAIN r : /\ r[i] = [button |-> b, down |-> TRUE]
                             /\ \A j \in i + 1..Len(r) : r[j].button # b)
        <=> (\E i \in DOMAIN q : /\ q[i] = [button |-> b, down |-> TRUE]
                                 /\ \A j \in i + 1..Len(q) : q[j].button # b)
    BY <2>1, <2>3, <2>4
  <2> QED
    BY <2>2, <2>5 DEF PressedAfter
<1>5. e.button \in PressedAfter(r) <=> e.down
  <2>1. /\ Len(r) \in DOMAIN r /\ r[Len(r)] = e /\ Len(r) \in Nat
        /\ \A j \in Len(r) + 1..Len(r) : FALSE
    BY <1>1, <1>3
  <2>2. CASE e.down = TRUE
    BY <1>2, <2>1, <2>2 DEF PressedAfter
  <2>3. CASE e.down = FALSE
    <3>1. e # [button |-> e.button, down |-> TRUE]
      BY <2>3
    <3>2. \A i \in DOMAIN r : i = Len(r) \/ Len(r) \in i + 1..Len(r)
      BY <1>1, <1>3
    <3> QED
      BY <2>1, <2>3, <3>1, <3>2 DEF PressedAfter
  <2> QED
    BY <1>2, <2>2, <2>3
<1>6. PressedAfter(r) \subseteq Buttons /\ PressedAfter(q) \subseteq Buttons
  BY DEF PressedAfter
<1>7. PressedAfter(r) = IF e.down THEN PressedAfter(q) \cup {e.button}
                                  ELSE PressedAfter(q) \ {e.button}
  BY <1>2, <1>4, <1>5, <1>6
<1>8. ASSUME Alternates(q), e.down <=> e.button \notin PressedAfter(q)
      PROVE  Alternates(r)
  <2>1. SUFFICES ASSUME NEW i \in 1..Len(r)
                 PROVE  r[i].down <=>
                            r[i].button \notin PressedAfter(SubSeq(r, 1, i - 1))
    BY DEF Alternates
  <2>2. CASE i \in 1..Len(q)
    BY <1>1, <1>8, <2>2 DEF Alternates
  <2>3. CASE i = Len(q) + 1
    <3>1. i - 1 = Len(q)
      BY <1>3, <2>3
    <3>2. r[i] = e /\ SubSeq(r, 1, i - 1) = q
      BY <1>1, <2>3, <3>1
    <3> QED
      BY <1>8, <3>2
  <2> QED
    BY <1>1, <1>3, <2>2, <2>3
<1> QED
  BY <1>1, <1>7, <1>8 DEF r

(* A press when no button is down, and a release of the one that is.       *)
LEMMA SentDown ==
    ASSUME pressed = {}, NEW b \in Buttons
    PROVE  /\ MouseDown(b) \in Seq(Events) /\ Alternates(MouseDown(b))
           /\ PressedAfter(MouseDown(b)) = {b}
<1> DEFINE e == [button |-> b, down |-> TRUE]
<1>1. e \in Events /\ e.button = b /\ e.down
  BY DEF Events
<1>2. MouseDown(b) = Append(<<>>, e)
  BY DEF MouseDown
<1> HIDE DEF e
<1> QED
  BY <1>1, <1>2, SentNothing, SentOneMore

LEMMA SentUp ==
    ASSUME NEW b \in Buttons, pressed = {b}
    PROVE  /\ MouseUp(b) \in Seq(Events) /\ Alternates(MouseUp(b))
           /\ PressedAfter(MouseUp(b)) = {}
<1> DEFINE e == [button |-> b, down |-> FALSE]
<1>1. e \in Events /\ e.button = b /\ ~e.down
  BY DEF Events
<1>2. MouseUp(b) = Append(<<>>, e)
  BY DEF MouseUp
<1> HIDE DEF e
<1> QED
  BY <1>1, <1>2, SentNothing, SentOneMore

(* A click after events that leave no button down.                         *)
LEMMA SentThenClick ==
    ASSUME NEW q \in Seq(Events), Alternates(q), PressedAfter(q) = {},
           NEW b \in Buttons
    PROVE  /\ q \o MouseClick(b) \in Seq(Events)
           /\ Alternates(q \o MouseClick(b))
           /\ PressedAfter(q \o MouseClick(b)) = {}
<1> DEFINE d == [button |-> b, down |-> TRUE]
           u == [button |-> b, down |-> FALSE]
<1>1. /\ d \in Events /\ d.button = b /\ d.down
      /\ u \in Events /\ u.button = b /\ ~u.down
  BY DEF Events
<1>2. MouseClick(b) = <<d>> \o <<u>>
  BY DEF MouseClick, MouseDown, MouseUp
<1> HIDE DEF d, u
<1>3. q \o MouseClick(b) = Append(Append(q, d), u)
  <2>1. <<d>> \in Seq(Events) /\ <<u>> \in Seq(Events)
    BY <1>1
  <2>2. q \o (<<d>> \o <<u>>) = (q \o <<d>>) \o <<u>>
    BY <2>1, ConcatAssociative
  <2>3. Append(q, d) = q \o <<d>> /\ Append(q, d) \in Seq(Events)
    BY <1>1, AppendIsConcat, SentOneMore
  <2>4. Append(Append(q, d), u) = Append(q, d) \o <<u>>
    BY <1>1, <2>3, AppendIsConcat
  <2> QED
    BY <1>2, <2>2, <2>3, <2>4
<1>4. /\ Append(q, d) \in Seq(Events) /\ Alternates(Append(q, d))
      /\ PressedAfter(Append(q, d)) = {b}
  BY <1>1, SentOneMore
<1>5. /\ Append(Append(q, d), u) \in Seq(Events)
      /\ Alternates(Append(Append(q, d), u))
      /\ PressedAfter(Append(Append(q, d), u)) = {}
  <2> DEFINE p == Append(q, d)
  <2>1. p \in Seq(Events) /\ Alternates(p) /\ PressedAfter(p) = {b}
    BY <1>4
  <2> HIDE DEF p
  <2>2. /\ Append(p, u) \in Seq(Events) /\ Alternates(Append(p, u))
        /\ PressedAfter(Append(p, u)) = {b} \ {b}
    BY <1>1, <2>1, SentOneMore
  <2> QED
    BY <2>2 DEF p
<1> QED
  BY <1>3, <1>5

(* What is released is down when it is.                                    *)
ReleasesFollow(events) ==
    \A i \in 1..Len(events) :
        ~events[i].down =>
            events[i].button \in PressedAfter(SubSeq(events, 1, i - 1))

LEMMA OneMoreRelease ==
    ASSUME NEW q \in Seq(Events), NEW e \in Events, ReleasesFollow(q),
           ~e.down => e.button \in PressedAfter(q)
    PROVE  ReleasesFollow(Append(q, e))
<1> DEFINE r == Append(q, e)
<1>1. /\ Len(r) = Len(q) + 1 /\ r[Len(q) + 1] = e /\ Len(q) \in Nat
      /\ \A i \in 1..Len(q) : /\ r[i] = q[i]
                               /\ SubSeq(r, 1, i - 1) = SubSeq(q, 1, i - 1)
      /\ SubSeq(r, 1, Len(q)) = q
  BY Before
<1> HIDE DEF r
<1>2. ASSUME NEW i \in 1..Len(r)
      PROVE  ~r[i].down => r[i].button \in PressedAfter(SubSeq(r, 1, i - 1))
  <2>1. CASE i \in 1..Len(q)
    BY <1>1, <2>1 DEF ReleasesFollow
  <2>2. CASE i = Len(q) + 1
    <3>1. i - 1 = Len(q)
      BY <1>1, <2>2
    <3> QED
      BY <1>1, <2>2, <3>1
  <2> QED
    BY <1>1, <2>1, <2>2
<1> QED
  BY <1>2 DEF ReleasesFollow, r

(* A click leaves its button up, and every other as it was.                *)
LEMMA ClickAfter ==
    ASSUME NEW q \in Seq(Events), ReleasesFollow(q), NEW b \in Buttons
    PROVE  /\ q \o MouseClick(b) \in Seq(Events)
           /\ ReleasesFollow(q \o MouseClick(b))
<1>1. PICK d \in Events, u \in Events :
         /\ d = [button |-> b, down |-> TRUE]
         /\ u = [button |-> b, down |-> FALSE]
  BY DEF Events
<1>2. /\ d.button = b /\ d.down /\ u.button = b /\ ~u.down
      /\ MouseClick(b) = <<d>> \o <<u>>
  BY <1>1 DEF MouseClick, MouseDown, MouseUp
<1>3. Append(q, d) \in Seq(Events) /\ Append(q, d) = q \o <<d>>
  BY AppendIsConcat, SentOneMore
<1>4. q \o MouseClick(b) = Append(Append(q, d), u)
  <2>1. q \o (<<d>> \o <<u>>) = (q \o <<d>>) \o <<u>>
    BY ConcatAssociative, <<d>> \in Seq(Events), <<u>> \in Seq(Events)
  <2>2. Append(Append(q, d), u) = Append(q, d) \o <<u>>
    BY <1>3, AppendIsConcat
  <2> QED
    BY <1>2, <1>3, <2>1, <2>2
<1>5. ReleasesFollow(Append(q, d)) /\ b \in PressedAfter(Append(q, d))
  BY <1>2, OneMoreRelease, SentOneMore
<1>6. /\ Append(Append(q, d), u) \in Seq(Events)
      /\ ReleasesFollow(Append(Append(q, d), u))
  BY <1>2, <1>3, <1>5, OneMoreRelease, SentOneMore
<1> QED
  BY <1>4, <1>6

----------------------------------------------------------------------------
(* Steps of the handler in any environment.                                *)

(* A step of the listener in which the detector takes no part.             *)
LEMMA DetectorIdle ==
    ASSUME IInv, Quiet,
           UNCHANGED <<at, mInitialPositions, mPointerCount, mInitialPoint,
                       mTapCancelled, longPress, strayed>>
    PROVE  IInv'
<1>1. Touching' = Touching
  BY DEF Touching
<1>2. TypeOK'
  <2>1. note' \in Notes /\ told' \in Nat
    BY DEF IInv, TypeOK, Quiet, Notes, Silent
  <2> QED
    BY <2>1 DEF IInv, TypeOK
<1>3. Eligible' /\ Armed'
  BY <1>1 DEF IInv, Eligible, Armed, Quiet
<1>4. OneNotification' /\ NotificationMeansStill'
  BY DEF IInv, Quiet, Silent, OneNotification, NotificationMeansStill
<1> QED
  BY <1>2, <1>3, <1>4 DEF IInv

(* Each step of the handler is one of the detector, or leaves it idle.     *)
LEMMA DetectorStep ==
    ASSUME IInv, GestureNext
    PROVE  IInv'
<1>1. CASE \E f \in Finger, p \in Position, double \in BOOLEAN :
              GestureDown(f, p, double)
  BY <1>1, DownStep DEF GestureDown
<1>2. CASE \E f \in Finger, p \in Position : GesturePointerDown(f, p)
  BY <1>2, PointerDownStep DEF GesturePointerDown
<1>3. CASE \E f \in Finger : GestureUp(f)
  BY <1>3, UpStep DEF GestureUp
<1>4. CASE \E f \in Finger : GesturePointerUp(f)
  BY <1>4, PointerUpStep DEF GesturePointerUp
<1>5. CASE \E now \in [Finger -> Position \cup {None}] : GestureMove(now)
  BY <1>5, MoveStep DEF GestureMove
<1>6. CASE GestureCancel
  BY <1>6, CancelStep DEF GestureCancel
<1>7. CASE GestureLongPress
  BY <1>7, LongPressStep DEF GestureLongPress
<1>8. CASE DelayedTap
  BY <1>8, DetectorIdle DEF DelayedTap
<1>9. CASE \E m \in Modes, t \in BOOLEAN : OnPreferencesChanged(m, t)
  BY <1>9, DetectorIdle DEF OnPreferencesChanged
<1> QED
  BY <1>1, <1>2, <1>3, <1>4, <1>5, <1>6, <1>7, <1>8, <1>9 DEF GestureNext

(* The types of the handler's own variables.                               *)
LEMMA FlagsStep ==
    ASSUME FlagsOK, GestureNext
    PROVE  FlagsOK'
<1>1. CASE \E f \in Finger, p \in Position, double \in BOOLEAN :
              GestureDown(f, p, double)
  <2>1. PICK f \in Finger, p \in Position, double \in BOOLEAN :
           GestureDown(f, p, double)
    BY <1>1
  <2>2. doubleTapping' \in BOOLEAN
    BY <2>1 DEF GestureDown
  <2>3. delayedTap' \in Nat
    BY <2>1 DEF FlagsOK, GestureDown, DragByDoubleTap
  <2> QED
    BY <2>1, <2>2, <2>3 DEF FlagsOK, GestureDown, prefs
<1>2. CASE \E f \in Finger, p \in Position : GesturePointerDown(f, p)
  BY <1>2 DEF FlagsOK, GesturePointerDown, prefs, flags
<1>3. CASE \E f \in Finger : GestureUp(f)
  <2>1. PICK f \in Finger : GestureUp(f)
    BY <1>3
  <2>2. doubleTappable' \in BOOLEAN
    BY <2>1 DEF GestureUp
  <2>3. delayedTap' \in Nat
    <3> DEFINE more(b) == IF DelaysTap(b) THEN 1 ELSE 0
    <3>1. \E b : delayedTap' = delayedTap + more(b)
      BY <2>1 DEF GestureUp
    <3>2. \A b : more(b) \in {0, 1}
      OBVIOUS
    <3> HIDE DEF more
    <3> QED
      BY <3>1, <3>2 DEF FlagsOK
  <2> QED
    BY <2>1, <2>2, <2>3 DEF FlagsOK, GestureUp, prefs, flags
<1>4. CASE \E f \in Finger : GesturePointerUp(f)
  BY <1>4 DEF FlagsOK, GesturePointerUp, prefs, flags, detector
<1>5. CASE \E now \in [Finger -> Position \cup {None}] : GestureMove(now)
  <2>1. PICK now \in [Finger -> Position \cup {None}] : GestureMove(now)
    BY <1>5
  <2>2. /\ moved' \in {"none", "cursor", "wheel", "swipe"}
        /\ mSuppressCursorMovement' \in BOOLEAN
        /\ mSwipeCompleted' \in BOOLEAN
    <3>1. CASE NoScroll
      BY <3>1 DEF NoScroll, FlagsOK
    <3>2. CASE OnScroll
      BY <3>2 DEF OnScroll, FlagsOK
    <3> QED
      BY <2>1, <3>1, <3>2 DEF GestureMove
  <2> QED
    BY <2>1, <2>2 DEF FlagsOK, GestureMove, prefs
<1>6. CASE GestureCancel
  BY <1>6 DEF FlagsOK, GestureCancel, prefs, flags
<1>7. CASE GestureLongPress
  BY <1>7 DEF FlagsOK, GestureLongPress, PressAndHold, prefs, detector
<1>8. CASE DelayedTap
  <2>1. doubleTappable' \in BOOLEAN /\ delayedTap' \in Nat
    BY <1>8 DEF DelayedTap, FlagsOK
  <2> QED
    BY <1>8, <2>1 DEF FlagsOK, DelayedTap, prefs, flags
<1>9. CASE \E m \in Modes, t \in BOOLEAN : OnPreferencesChanged(m, t)
  BY <1>9 DEF FlagsOK, OnPreferencesChanged, flags, detector
<1> QED
  BY <1>1, <1>2, <1>3, <1>4, <1>5, <1>6, <1>7, <1>8, <1>9 DEF GestureNext

(* What a step may send, and what the strategy holds after it.             *)
SendsNothing ==
    /\ Send(<<>>)
    /\ mHeldButton' \in {mHeldButton, Undefined}
    /\ delayedTap' \in 0..delayedTap

SendsPress ==
    \E b \in Buttons :
       Send(MouseDown(b)) /\ mHeldButton' = b /\ delayedTap' = 0

SendsRelease ==
    /\ mHeldButton' = Undefined
    /\ \/ Send(Release)
       \/ \E b \in Buttons : Send(Release \o MouseClick(b))

SendsDelayedClick ==
    /\ delayedTap > 0
    /\ Send(MouseClick("LEFT")) /\ UNCHANGED mHeldButton

(* ACTION_UP sends the release of what is held, then at most one click.    *)
LEMMA UpSends ==
    ASSUME IInv, NEW f \in Finger, GestureUp(f)
    PROVE  SendsRelease
<1> DEFINE b == IF note'.kind = "tap" THEN GestureButton(note') ELSE Undefined
           taps == IF b = Undefined \/ DelaysTap(b)
                   THEN <<>> ELSE StrategyTap(b)
<1>1. Send(Release \o taps) /\ mHeldButton' = Undefined
  BY DEF GestureUp
<1>2. b \in Buttons \cup {Undefined}
  <2>1. note'.count \in Nat
    BY UpStep DEF GestureUp, IInv, TypeOK, Notes
  <2> QED
    BY <2>1, ButtonOfGesture
<1> HIDE DEF b
<1>3. taps = <<>> \/ (b \in Buttons /\ taps = MouseClick(b))
  BY <1>2 DEF StrategyTap
<1>4. Release \o <<>> = Release
  <2>1. Release = <<>> \/ Release = MouseUp(mHeldButton)
    BY DEF Release
  <2>2. /\ <<>> \in Seq({[button |-> mHeldButton, down |-> FALSE]})
        /\ MouseUp(mHeldButton)
              \in Seq({[button |-> mHeldButton, down |-> FALSE]})
    BY DEF MouseUp
  <2> QED
    BY <2>1, <2>2, ConcatEmptySeq
<1> HIDE DEF taps
<1> QED
  BY <1>1, <1>3, <1>4 DEF SendsRelease

LEMMA WhatIsSent ==
    ASSUME IInv, FlagsOK, GestureNext
    PROVE  SendsNothing \/ SendsPress \/ SendsRelease \/ SendsDelayedClick
<1>1. delayedTap \in Nat
  BY DEF FlagsOK
<1>2. ASSUME Send(<<>>), UNCHANGED delayedTap,
             mHeldButton' \in {mHeldButton, Undefined}
      PROVE  SendsNothing
  BY <1>1, <1>2 DEF SendsNothing
<1>3. CASE \E f \in Finger, p \in Position, double \in BOOLEAN :
              GestureDown(f, p, double)
  <2>1. CASE DragByDoubleTap
    BY <2>1 DEF DragByDoubleTap, SendsPress, Buttons
  <2>2. CASE Send(<<>>) /\ UNCHANGED <<delayedTap, mHeldButton>>
    BY <1>2, <2>2
  <2> QED
    BY <1>3, <2>1, <2>2 DEF GestureDown
<1>4. CASE \E f \in Finger, p \in Position : GesturePointerDown(f, p)
  BY <1>2, <1>4 DEF GesturePointerDown
<1>5. CASE \E f \in Finger : GestureUp(f)
  BY <1>5, UpSends
<1>6. CASE \E f \in Finger : GesturePointerUp(f)
  BY <1>2, <1>6 DEF GesturePointerUp
<1>7. CASE \E now \in [Finger -> Position \cup {None}] : GestureMove(now)
  BY <1>2, <1>7 DEF GestureMove
<1>8. CASE GestureCancel
  BY <1>2, <1>8 DEF GestureCancel
<1>9. CASE GestureLongPress
  <2> DEFINE b == GestureButton(note')
  <2>1. note'.count \in Nat
    BY <1>9, LongPressStep DEF GestureLongPress, IInv, TypeOK, Notes
  <2>2. b \in Buttons \cup {Undefined}
    BY <2>1, ButtonOfGesture
  <2>3. /\ delayedTap = 0 /\ UNCHANGED delayedTap
        /\ \/ b # Undefined /\ PressAndHold(b)
           \/ Send(<<>>) /\ UNCHANGED mHeldButton
    BY <1>9 DEF GestureLongPress
  <2> HIDE DEF b
  <2> QED
    BY <1>2, <2>2, <2>3 DEF PressAndHold, SendsPress
<1>10. CASE DelayedTap
  <2>1. /\ delayedTap > 0 /\ delayedTap' = delayedTap - 1
        /\ Send(StrategyTap("LEFT")) /\ UNCHANGED mHeldButton
    BY <1>10 DEF DelayedTap
  <2> QED
    BY <1>1, <2>1 DEF StrategyTap, SendsNothing, SendsDelayedClick
<1>11. CASE \E m \in Modes, t \in BOOLEAN : OnPreferencesChanged(m, t)
  BY <1>2, <1>11 DEF OnPreferencesChanged
<1> QED
  BY <1>3, <1>4, <1>5, <1>6, <1>7, <1>8, <1>9, <1>10, <1>11 DEF GestureNext

(* No step releases a button that is up, and what is held stays down.      *)
LEMMA ButtonsStep ==
    ASSUME HandlerInv, GestureNext
    PROVE  /\ mHeldButton' \in Buttons \cup {Undefined}
           /\ sent' \in Seq(Events) /\ ReleasesFollow(sent')
           /\ pressed' \subseteq Buttons
           /\ HeldIsDown'
<1>1. \A events : Send(events) => /\ sent' = events
                                  /\ pressed' = PressedAfter(events)
                                  /\ pressed' \subseteq Buttons
  BY DEF Send, PressedAfter
<1>2. /\ <<>> \in Seq(Events) /\ ReleasesFollow(<<>>)
      /\ PressedAfter(<<>>) = pressed
  BY SentNothing DEF HandlerInv, ReleasesFollow
<1>3. CASE SendsNothing
  <2>1. /\ sent' = <<>> /\ pressed' = pressed
        /\ mHeldButton' \in {mHeldButton, Undefined}
        /\ delayedTap = 0 => delayedTap' = 0
    BY <1>1, <1>2, <1>3 DEF SendsNothing
  <2> QED
    BY <1>2, <2>1 DEF HandlerInv, HeldIsDown
<1>4. CASE SendsPress
  <2>1. PICK b \in Buttons : /\ Send(MouseDown(b))
                             /\ mHeldButton' = b /\ delayedTap' = 0
    BY <1>4 DEF SendsPress
  <2>2. PICK e \in Events : e = [button |-> b, down |-> TRUE]
    BY DEF Events
  <2>3. MouseDown(b) = Append(<<>>, e) /\ e.button = b /\ e.down
    BY <2>2 DEF MouseDown
  <2>4. /\ MouseDown(b) \in Seq(Events) /\ ReleasesFollow(MouseDown(b))
        /\ b \in PressedAfter(MouseDown(b))
    BY <1>2, <2>3, SentOneMore, OneMoreRelease
  <2> QED
    BY <1>1, <2>1, <2>4 DEF HeldIsDown
<1>5. CASE SendsRelease
  <2>1. Release \in Seq(Events) /\ ReleasesFollow(Release)
    <3>1. CASE mHeldButton = Undefined
      BY <1>2, <3>1 DEF Release
    <3>2. CASE mHeldButton # Undefined
      <4>1. mHeldButton \in Buttons /\ mHeldButton \in pressed
        BY <3>2 DEF HandlerInv, HeldIsDown
      <4>2. PICK e \in Events : e = [button |-> mHeldButton, down |-> FALSE]
        BY <4>1 DEF Events
      <4>3. MouseUp(mHeldButton) = Append(<<>>, e) /\ e.button = mHeldButton
        BY <4>2 DEF MouseUp
      <4>4. Release = MouseUp(mHeldButton)
        BY <3>2 DEF Release
      <4> QED
        BY <1>2, <4>1, <4>3, <4>4, SentOneMore, OneMoreRelease
    <3> QED
      BY <3>1, <3>2
  <2>2. sent' \in Seq(Events) /\ ReleasesFollow(sent')
    <3>1. CASE Send(Release)
      BY <1>1, <2>1, <3>1
    <3>2. ASSUME NEW b \in Buttons, Send(Release \o MouseClick(b))
          PROVE  sent' \in Seq(Events) /\ ReleasesFollow(sent')
      <4>1. sent' = Release \o MouseClick(b)
        BY <3>2 DEF Send
      <4>2. /\ Release \o MouseClick(b) \in Seq(Events)
            /\ ReleasesFollow(Release \o MouseClick(b))
        BY <2>1, ClickAfter
      <4> QED
        BY <4>1, <4>2
    <3> QED
      BY <1>5, <3>1, <3>2 DEF SendsRelease
  <2>3. mHeldButton' = Undefined /\ pressed' \subseteq Buttons
    BY <1>1, <1>5 DEF SendsRelease
  <2> QED
    BY <2>2, <2>3 DEF HeldIsDown
<1>6. CASE SendsDelayedClick
  <2>1. /\ sent' = MouseClick("LEFT") /\ pressed' \subseteq Buttons
        /\ mHeldButton' = Undefined
    BY <1>1, <1>6 DEF SendsDelayedClick, HandlerInv, HeldIsDown
  <2>2. MouseClick("LEFT") \in Seq(Events) /\ ReleasesFollow(MouseClick("LEFT"))
    <3>1. "LEFT" \in Buttons
      BY DEF Buttons
    <3>2. MouseClick("LEFT") \in Seq(Events)
      BY <3>1 DEF MouseClick, MouseDown, MouseUp, Events
    <3> QED
      BY <1>2, <3>1, <3>2, ClickAfter, ConcatEmptySeq
  <2> QED
    BY <2>1, <2>2 DEF HeldIsDown
<1> QED
  BY <1>3, <1>4, <1>5, <1>6, WhatIsSent DEF HandlerInv

LEMMA HandlerInitInv == GestureInit => HandlerInv
<1> SUFFICES ASSUME GestureInit PROVE HandlerInv
  OBVIOUS
<1>1. IInv
  BY InitIInv DEF GestureInit
<1>2. FlagsOK
  BY DEF GestureInit, FlagsOK
<1> QED
  BY <1>1, <1>2 DEF GestureInit, HandlerInv, HeldIsDown

LEMMA HandlerStutter ==
    ASSUME HandlerInv, UNCHANGED all
    PROVE  HandlerInv'
<1>1. IInv'
  BY DEF HandlerInv, all, vars, IInv, TypeOK, Eligible, Armed,
         OneNotification, NotificationMeansStill, Touching
<1> QED
  BY <1>1 DEF HandlerInv, FlagsOK, HeldIsDown, all

LEMMA HandlerInductive == GestureSpec => []HandlerInv
<1>1. ASSUME HandlerInv, GestureNext
      PROVE  HandlerInv'
  BY <1>1, DetectorStep, FlagsStep, ButtonsStep DEF HandlerInv
<1>2. HandlerInv /\ [GestureNext]_all => HandlerInv'
  BY <1>1, HandlerStutter
<1> QED
  BY HandlerInitInv, <1>2, PTL DEF GestureSpec

(* The handler's variables keep their types, drags cut short or not.       *)
THEOREM GestureTypeCorrect == GestureSpec => []GestureTypeOK
<1>1. HandlerInv => GestureTypeOK
  BY DEF HandlerInv, IInv, FlagsOK, GestureTypeOK, Events
<1> QED
  BY HandlerInductive, <1>1, PTL

(* Within the handler, too, the detector reports a gesture once at most,   *)
(* and truly, and never without a point.                                   *)
THEOREM DetectorWithinHandler ==
    GestureSpec => [](OneNotification /\ NotificationMeansStill
                                      /\ PointIsKnown)
<1>1. HandlerInv => OneNotification /\ NotificationMeansStill /\ PointIsKnown
  BY DEF HandlerInv, IInv, Eligible, PointIsKnown
<1> QED
  BY HandlerInductive, <1>1, PTL

(* A cancel or a change of the preferences in a drag leaves a button down, *)
(* that may be pressed again; but none is ever released that is up.        *)
THEOREM ReleasesFollowPresses ==
    GestureSpec => [][ReleasesFollow(sent')]_all
<1>1. HandlerInv /\ [GestureNext]_all => [ReleasesFollow(sent')]_all
  BY ButtonsStep
<1> QED
  BY HandlerInductive, <1>1, PTL DEF GestureSpec

----------------------------------------------------------------------------
(* What the strategy holds is tied to the fingers, to the delayed taps and *)
(* to the long press: a button is only held while a finger is down and no  *)
(* click is queued, and a long press meets a held button only in the drag  *)
(* of a double tap, to which it adds no press.                             *)
HoldInv ==
    mHeldButton # Undefined =>
        /\ Touching # {}
        /\ delayedTap = 0
        /\ longPress => mode = "trackpad" /\ tapToMove

GInv == HandlerInv /\ HeldMatchesRemote /\ HoldInv

(* The environment of the run: no cancel and no change of the preferences  *)
(* while a drag holds a button.                                            *)
WholeDrags == ~CutDrags

(* What a step has to show besides HandlerInv: that the events it sends    *)
(* are those of the button it holds.                                       *)
SentFor(held) ==
    /\ held \in Buttons \cup {Undefined}
    /\ sent' \in Seq(Events) /\ Alternates(sent')
    /\ pressed' = {held} \ {Undefined}

Dragging == mode = "simulated" /\ mHeldButton # Undefined => mIsDragging

LEMMA TypesInParts ==
    GInv => /\ IInv /\ FlagsOK /\ Dragging /\ HoldInv
            /\ mHeldButton \in Buttons \cup {Undefined}
            /\ pressed = {mHeldButton} \ {Undefined}
            /\ pressed \subseteq Buttons
BY DEF GInv, HandlerInv, Dragging, HeldMatchesRemote

(* A step that sends nothing and keeps what is held.                       *)
LEMMA NothingSent ==
    ASSUME GInv, Send(<<>>), UNCHANGED mHeldButton
    PROVE  SentFor(mHeldButton')
BY TypesInParts, SentNothing DEF Send, SentFor

(* ACTION_DOWN finds no button held; a double tap takes one for a drag.    *)
LEMMA GestureDownStep ==
    ASSUME GInv, NEW f \in Finger, NEW p \in Position, NEW double \in BOOLEAN,
           GestureDown(f, p, double)
    PROVE  HoldInv' /\ Dragging' /\ SentFor(mHeldButton')
<1>1. Down(f, p) /\ UNCHANGED prefs
  BY DEF GestureDown
<1>2. Touching' # {}
  BY <1>1, TypesInParts, NoneAssumption DEF IInv, TypeOK, Down, Touching
<1>3. mHeldButton = Undefined /\ pressed = {}
  BY <1>1, TypesInParts DEF HoldInv, Down
<1>4. CASE double /\ tapToMove /\ mode = "trackpad"
  <2>1. /\ Send(MouseDown("LEFT")) /\ mHeldButton' = "LEFT"
        /\ delayedTap' = 0
    BY <1>4 DEF GestureDown, DragByDoubleTap
  <2>2. SentFor(mHeldButton')
    <3>1. "LEFT" \in Buttons /\ "LEFT" # Undefined
      BY DEF Buttons, Undefined
    <3> QED
      BY <1>3, <2>1, <3>1, SentDown DEF Send, SentFor
  <2> QED
    BY <1>1, <1>2, <1>4, <2>1, <2>2 DEF HoldInv, Dragging, prefs
<1>5. CASE ~(double /\ tapToMove /\ mode = "trackpad")
  <2>1. Send(<<>>) /\ UNCHANGED <<delayedTap, mHeldButton>>
    BY <1>5 DEF GestureDown
  <2> QED
    BY <1>3, <2>1, NothingSent DEF HoldInv, Dragging
<1> QED
  BY <1>4, <1>5

(* Fingers that come, go and move while others stay.                       *)
LEMMA GesturePointerDownStep ==
    ASSUME GInv, NEW f \in Finger, NEW p \in Position, GesturePointerDown(f, p)
    PROVE  HoldInv' /\ Dragging' /\ SentFor(mHeldButton')
<1>1. /\ PointerDown(f, p) /\ Send(<<>>)
      /\ UNCHANGED <<prefs, mHeldButton, delayedTap, flags>>
  BY DEF GesturePointerDown
<1>2. Touching' # {}
  BY <1>1, TypesInParts, NoneAssumption
     DEF IInv, TypeOK, PointerDown, Touching
<1>3. HoldInv' /\ Dragging'
  BY <1>1, <1>2, TypesInParts
     DEF HoldInv, Dragging, PointerDown, prefs, flags
<1> QED
  BY <1>1, <1>3, NothingSent

LEMMA GestureMoveStep ==
    ASSUME GInv, NEW now \in [Finger -> Position \cup {None}], GestureMove(now)
    PROVE  HoldInv' /\ Dragging' /\ SentFor(mHeldButton')
<1>1. /\ Move(now) /\ Send(<<>>)
      /\ UNCHANGED <<prefs, mHeldButton, delayedTap, mIsDragging>>
  BY DEF GestureMove
<1>2. Touching' = Touching /\ (longPress' => longPress)
  BY <1>1 DEF Move, Touching
<1>3. HoldInv' /\ Dragging'
  BY <1>1, <1>2, TypesInParts DEF HoldInv, Dragging, prefs
<1> QED
  BY <1>1, <1>3, NothingSent

LEMMA GesturePointerUpStep ==
    ASSUME GInv, NEW f \in Finger, GesturePointerUp(f)
    PROVE  HoldInv' /\ Dragging' /\ SentFor(mHeldButton')
<1>1. /\ PointerUp(f) /\ Send(<<>>)
      /\ UNCHANGED <<prefs, mHeldButton, delayedTap, flags, detector>>
  BY DEF GesturePointerUp
<1>2. Touching' # {}
  BY <1>1, TypesInParts DEF IInv, TypeOK, PointerUp, Touching
<1>3. HoldInv' /\ Dragging'
  BY <1>1, <1>2, TypesInParts
     DEF HoldInv, Dragging, PointerUp, prefs, flags
<1> QED
  BY <1>1, <1>3, NothingSent

(* ACTION_UP releases what is held before it clicks, or delays a click.    *)
LEMMA GestureUpStep ==
    ASSUME GInv, NEW f \in Finger, GestureUp(f)
    PROVE  HoldInv' /\ Dragging' /\ SentFor(mHeldButton')
<1>1. /\ mHeldButton' = Undefined
      /\ Release \in Seq(Events) /\ Alternates(Release)
      /\ PressedAfter(Release) = {}
  <2>1. CASE mHeldButton = Undefined
    BY <2>1, TypesInParts, SentNothing DEF Release, GestureUp
  <2>2. CASE mHeldButton # Undefined
    BY <2>2, TypesInParts, SentUp DEF Release, GestureUp
  <2> QED
    BY <2>1, <2>2
<1>2. SentFor(Undefined)
  BY <1>1, UpSends, TypesInParts, SentThenClick
     DEF SendsRelease, Send, SentFor
<1> QED
  BY <1>1, <1>2 DEF HoldInv, Dragging

(* A cancel, with no button held.                                          *)
LEMMA GestureCancelStep ==
    ASSUME GInv, WholeDrags, GestureCancel
    PROVE  HoldInv' /\ Dragging' /\ SentFor(mHeldButton')
<1>1. Send(<<>>) /\ mHeldButton = Undefined /\ UNCHANGED mHeldButton
  BY DEF GestureCancel, WholeDrags
<1> QED
  BY <1>1, NothingSent DEF HoldInv, Dragging

(* The long press presses a button only where no double tap holds one.     *)
LEMMA GestureLongPressStep ==
    ASSUME GInv, GestureLongPress
    PROVE  HoldInv' /\ Dragging' /\ SentFor(mHeldButton')
<1> DEFINE b == GestureButton(note')
<1>1. /\ LongPress /\ delayedTap = 0
      /\ UNCHANGED <<prefs, delayedTap>>
      /\ \/ b # Undefined /\ Holds(FALSE) /\ PressAndHold(b)
         \/ Send(<<>>) /\ UNCHANGED <<mHeldButton, mIsDragging>>
  BY DEF GestureLongPress
<1>2. b \in Buttons \cup {Undefined}
  <2>1. note'.count \in Nat
    BY <1>1, TypesInParts, LongPressStep DEF IInv, TypeOK, Notes
  <2> QED
    BY <2>1, ButtonOfGesture
<1>3. longPress /\ ~longPress' /\ Touching # {} /\ Touching' = Touching
  BY <1>1, TypesInParts DEF IInv, Armed, LongPress, Touching
<1> HIDE DEF b
<1>4. CASE b # Undefined /\ Holds(FALSE) /\ PressAndHold(b)
  <2>1. mHeldButton = Undefined
    BY <1>3, <1>4, TypesInParts DEF HoldInv, Holds
  <2>2. SentFor(mHeldButton')
    BY <1>2, <1>4, <2>1, TypesInParts, SentDown
       DEF PressAndHold, Send, SentFor
  <2> QED
    BY <1>1, <1>3, <1>4, <2>2 DEF HoldInv, Dragging, PressAndHold
<1>5. CASE Send(<<>>) /\ UNCHANGED <<mHeldButton, mIsDragging>>
  BY <1>1, <1>3, <1>5, TypesInParts, NothingSent
     DEF HoldInv, Dragging, prefs
<1> QED
  BY <1>1, <1>4, <1>5

(* A delayed click comes while no button is held.                          *)
LEMMA DelayedTapStep ==
    ASSUME GInv, DelayedTap
    PROVE  HoldInv' /\ Dragging' /\ SentFor(mHeldButton')
<1>1. /\ delayedTap > 0 /\ Send(StrategyTap("LEFT"))
      /\ UNCHANGED mHeldButton
  BY DEF DelayedTap
<1>2. mHeldButton = Undefined /\ pressed = {}
  BY <1>1, TypesInParts DEF HoldInv
<1>3. SentFor(mHeldButton')
  <2>1. CASE mode = "touch"
    BY <1>1, <2>1, NothingSent DEF StrategyTap
  <2>2. CASE mode # "touch"
    <3>1. "LEFT" \in Buttons
      BY DEF Buttons
    <3>2. /\ <<>> \in Seq(Events) /\ Alternates(<<>>)
          /\ PressedAfter(<<>>) = {}
      BY <1>2, SentNothing
    <3>3. MouseClick("LEFT") \in Seq(Events)
      BY <3>1 DEF MouseClick, MouseDown, MouseUp, Events
    <3>4. <<>> \o MouseClick("LEFT") = MouseClick("LEFT")
      BY <3>3, ConcatEmptySeq
    <3>5. /\ Alternates(MouseClick("LEFT"))
          /\ PressedAfter(MouseClick("LEFT")) = {}
      BY <3>1, <3>2, <3>4, SentThenClick
    <3> QED
      BY <1>1, <1>2, <2>2, <3>3, <3>5 DEF StrategyTap, Send, SentFor
  <2> QED
    BY <2>1, <2>2
<1> QED
  BY <1>1, <1>2, <1>3 DEF HoldInv, Dragging

(* Another strategy, made while the one before holds nothing.              *)
LEMMA PreferencesStep ==
    ASSUME GInv, WholeDrags, NEW m \in Modes, NEW t \in BOOLEAN,
           OnPreferencesChanged(m, t)
    PROVE  HoldInv' /\ Dragging' /\ SentFor(mHeldButton')
<1>1. Send(<<>>) /\ mHeldButton = Undefined /\ mHeldButton' = Undefined
  BY DEF OnPreferencesChanged, WholeDrags
<1> QED
  BY <1>1, NothingSent DEF HoldInv, Dragging

----------------------------------------------------------------------------
LEMMA GestureInitInv == GestureInit => GInv
<1>1. GestureInit => HeldMatchesRemote /\ HoldInv
  BY DEF GestureInit, HeldMatchesRemote, HoldInv
<1> QED
  BY <1>1, HandlerInitInv DEF GInv

LEMMA GestureStep ==
    ASSUME GInv, WholeDrags, GestureNext
    PROVE  HeldMatchesRemote' /\ HoldInv' /\ Alternates(sent')
<1>1. HoldInv' /\ Dragging' /\ SentFor(mHeldButton')
  BY GestureDownStep, GesturePointerDownStep, GestureMoveStep, GestureUpStep,
     GesturePointerUpStep, GestureCancelStep, GestureLongPressStep,
     DelayedTapStep, PreferencesStep
     DEF GestureNext
<1> QED
  BY <1>1 DEF HeldMatchesRemote, Dragging, SentFor

LEMMA GestureStutter ==
    ASSUME GInv, UNCHANGED all
    PROVE  HeldMatchesRemote' /\ HoldInv'
BY DEF GInv, HeldMatchesRemote, HoldInv, Touching, all, vars

LEMMA GestureInductive ==
    ASSUME WholeDrags
    PROVE  GestureSpec => []GInv
<1>1. GInv /\ HandlerInv' /\ [GestureNext]_all => GInv'
  BY GestureStep, GestureStutter DEF GInv
<1> QED
  BY GestureInitInv, HandlerInductive, <1>1, PTL DEF GestureSpec

(* The strategy's mHeldButton is what the remote has down, whatever taps,  *)
(* long presses and delayed clicks come together.                          *)
THEOREM StrategyKnowsButtons ==
    ASSUME WholeDrags
    PROVE  GestureSpec => []HeldMatchesRemote
<1>1. GInv => HeldMatchesRemote
  BY DEF GInv
<1> QED
  BY GestureInductive, <1>1, PTL

(* When the last finger is lifted, no button is left down.                 *)
THEOREM LiftingReleases ==
    ASSUME WholeDrags
    PROVE  GestureSpec => []LiftedMeansReleased
<1>1. GInv => LiftedMeansReleased
  BY DEF GInv, HeldMatchesRemote, HoldInv, LiftedMeansReleased
<1> QED
  BY GestureInductive, <1>1, PTL

(* Presses and releases of each button alternate at the remote.            *)
THEOREM ButtonsAlternate ==
    ASSUME WholeDrags
    PROVE  GestureSpec => PressesAlternate
<1>1. GInv /\ [GestureNext]_all => [Alternates(sent')]_all
  BY GestureStep
<1> QED
  BY GestureInductive, <1>1, PTL DEF GestureSpec, PressesAlternate
=============================================================================

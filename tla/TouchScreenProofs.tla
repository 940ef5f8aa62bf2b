-------------------------- MODULE TouchScreenProofs --------------------------
(***************************************************************************)
(* Proofs about TouchScreen, for any fingers, any set of coordinates and   *)
(* any slop, with events that are lost and a mode that changes any time.   *)
(***************************************************************************)
EXTENDS TouchScreen, FiniteSetTheorems, TLAPS

(* A gesture is of two fingers, or of what lost events have left of them,  *)
(* and a swipe is part of a gesture.                                       *)
GestureIsOfPair ==
    /\ mInGesture => Cardinality(Touching) <= 2
    /\ mInSwipe => mInGesture

(* Fingers come one at a time, so that there are finitely many.            *)
IInv ==
    /\ TypeOK /\ IsFiniteSet(Touching)
    /\ TouchesAreFingers
    /\ FirstPairIsCurrent /\ GestureIsOfPair

(* The positions that an event carries.                                    *)
Carried(now) ==
    /\ DOMAIN now \subseteq Finger
    /\ \A f \in DOMAIN now : now[f] \in Position

----------------------------------------------------------------------------
(* What the swipe detector makes of an event: after it a gesture goes on   *)
(* only for two fingers that moved or came, and is measured from where     *)
(* they are, or from where it was measured before.                         *)
LEMMA SwipeOutcome ==
    ASSUME IInv, NEW action, NEW now, Carried(now),
           SwipeOnTouchEvent(action, now)
    PROVE  /\ mInSwipe' \in BOOLEAN /\ mInGesture' \in BOOLEAN
           /\ Carried(mFirst')
           /\ mInSwipe' => mInGesture'
           /\ mInGesture' =>
                 /\ Cardinality(DOMAIN now) = 2
                 /\ action \in {"MOVE", "POINTER_DOWN"}
                 /\ \/ mFirst' = now
                    \/ action = "MOVE" /\ mInGesture /\ mFirst' = mFirst
<1>1. /\ mInSwipe \in BOOLEAN /\ mInGesture \in BOOLEAN /\ Carried(mFirst)
      /\ mInSwipe => mInGesture
  BY DEF IInv, TypeOK, GestureIsOfPair, Carried
<1> DEFINE two == Cardinality(DOMAIN now) = 2
<1>2. CASE SwipeReset
  BY <1>1, <1>2 DEF SwipeReset
<1>3. CASE two /\ action \in {"MOVE", "POINTER_DOWN"} /\ StoreFirst(now)
  BY <1>3 DEF StoreFirst
<1>4. CASE two /\ action = "MOVE" /\ mInSwipe /\ UNCHANGED swipe
  BY <1>1, <1>4 DEF swipe
<1>5. CASE /\ two /\ action = "MOVE" /\ mInGesture
           /\ mInSwipe' = SameWay(now) /\ UNCHANGED <<mInGesture, mFirst>>
  <2>1. SameWay(now) \in BOOLEAN
    BY DEF SameWay
  <2> QED
    BY <1>1, <1>5, <2>1
<1> QED
  BY <1>2, <1>3, <1>4, <1>5 DEF SwipeOnTouchEvent

(* What a call of sendTouchEvent does to the touches.                      *)
LEMMA TouchOutcome ==
    ASSUME IInv, NEW f \in Finger, NEW fingers \in SUBSET Finger
    PROVE  /\ SendBegin(f) => /\ pointers' \in [Finger -> BOOLEAN]
                              /\ remote' = remote \cup {f}
           /\ SendEnd(f) => /\ pointers' \in [Finger -> BOOLEAN]
                            /\ remote' = remote \ {f}
           /\ SendMove(fingers) => /\ pointers' \in [Finger -> BOOLEAN]
                                   /\ remote' \subseteq remote
                                   /\ remote \cap fingers \subseteq remote'
<1>1. pointers \in [Finger -> BOOLEAN]
  BY DEF IInv, TypeOK
<1>2. ASSUME SendMove(fingers)
      PROVE  /\ pointers' \in [Finger -> BOOLEAN]
             /\ remote' \subseteq remote
             /\ remote \cap fingers \subseteq remote'
  <2>1. \A g \in Finger : (g \in fingers \/ pointers[g]) \in BOOLEAN
    OBVIOUS
  <2>2. pointers' \in [Finger -> BOOLEAN]
    BY <1>2, <2>1 DEF SendMove
  <2>3. \A g \in fingers : pointers'[g]
    BY <1>2 DEF SendMove
  <2> QED
    BY <1>2, <2>2, <2>3 DEF SendMove
<1> QED
  BY <1>1, <1>2 DEF SendBegin, SendEnd

----------------------------------------------------------------------------
LEMMA InitInv == Init => IInv
<1> SUFFICES ASSUME Init
             PROVE  IInv
  OBVIOUS
<1>1. Touching = {} /\ remote = {} /\ DOMAIN mFirst = {}
  BY DEF Init, DirectInit, SwipeInit, Touching
<1>2. IsFiniteSet(Touching)
  BY <1>1, FS_EmptySet
<1>3. TypeOK
  BY <1>1 DEF Init, DirectInit, SwipeInit, TypeOK
<1>4. TouchesAreFingers /\ FirstPairIsCurrent /\ GestureIsOfPair
  BY <1>1 DEF Init, SwipeInit, TouchesAreFingers, FirstPairIsCurrent,
              GestureIsOfPair
<1> QED
  BY <1>2, <1>3, <1>4 DEF IInv

(* What every event leaves of the fingers and the swipe detector, if the   *)
(* gesture that goes on is one of the fingers that stay.                   *)
LEMMA SwipeKeeps ==
    ASSUME IInv, NEW action, NEW now, Carried(now),
           SwipeOnTouchEvent(action, now),
           action \in {"MOVE", "POINTER_DOWN"} => at' = now,
           action = "MOVE" => Touching' = Touching
    PROVE  /\ mInSwipe' \in BOOLEAN /\ mInGesture' \in BOOLEAN
           /\ Carried(mFirst')
           /\ FirstPairIsCurrent' /\ GestureIsOfPair'
<1>1. mInGesture' => /\ Touching' = DOMAIN now
                     /\ Cardinality(Touching') = 2
  BY SwipeOutcome DEF Touching
<1>2. mInGesture' => DOMAIN mFirst' = Touching'
  <2>1. CASE mInGesture' /\ mFirst' = now
    BY <1>1, <2>1
  <2>2. CASE mInGesture' /\ action = "MOVE" /\ mInGesture /\ mFirst' = mFirst
    BY <1>1, <2>2 DEF IInv, FirstPairIsCurrent
  <2> QED
    BY <2>1, <2>2, SwipeOutcome
<1> QED
  BY <1>1, <1>2, SwipeOutcome DEF FirstPairIsCurrent, GestureIsOfPair

(* The fingers that are down carry their positions.                        *)
LEMMA AtIsCarried == IInv => Carried(at)
BY DEF IInv, TypeOK, Carried, Touching

(* What is left of the X server's ignorance when fingers leave.            *)
LEMMA Untold ==
    ASSUME TypeOK, NEW fingers, LeaveUntold(fingers), remote' \subseteq remote
    PROVE  /\ unseen' \subseteq Finger /\ stuck' \subseteq Finger
           /\ unseen' = unseen \cap Touching'
           /\ stuck' = (stuck \cup fingers) \cap remote'
BY DEF LeaveUntold, TypeOK

LEMMA DownStep ==
    ASSUME IInv, NEW f \in Finger, NEW p \in Position, FingerDown(f, p)
    PROVE  IInv'
<1>1. /\ Touching' = Touching \cup {f} /\ Carried(at')
      /\ touchMode' = touchMode
  BY AtIsCarried DEF FingerDown, Touching, Carried
<1>2. IsFiniteSet(Touching')
  BY <1>1, FS_AddElement DEF IInv
<1>3. /\ mInSwipe' \in BOOLEAN /\ mInGesture' \in BOOLEAN /\ Carried(mFirst')
      /\ FirstPairIsCurrent' /\ GestureIsOfPair'
  BY <1>1, SwipeKeeps DEF FingerDown
<1>4. /\ pointers' \in [Finger -> BOOLEAN]
      /\ remote' = IF touchMode THEN remote \cup {f} ELSE remote
  BY TouchOutcome DEF FingerDown, IInv, TypeOK, touch
<1>5. /\ touchMode => unseen' = unseen /\ stuck' = stuck \ {f}
      /\ ~touchMode => unseen' = unseen \cup {f} /\ stuck' = stuck
  BY DEF FingerDown
<1>6. TypeOK'
  BY <1>1, <1>3, <1>4, <1>5 DEF IInv, TypeOK, Carried, Touching
<1>7. TouchesAreFingers'
  BY <1>1, <1>4, <1>5 DEF IInv, TouchesAreFingers
<1> QED
  BY <1>2, <1>3, <1>6, <1>7 DEF IInv

LEMMA MoveStep ==
    ASSUME IInv, NEW now \in [Touching -> Position], FingersMove(now)
    PROVE  IInv'
<1>1. /\ at' = now /\ Touching' = Touching /\ Carried(now)
      /\ touchMode' = touchMode
  BY DEF FingersMove, Touching, Carried, IInv, TypeOK
<1>2. /\ mInSwipe' \in BOOLEAN /\ mInGesture' \in BOOLEAN /\ Carried(mFirst')
      /\ FirstPairIsCurrent' /\ GestureIsOfPair'
  BY <1>1, SwipeKeeps DEF FingersMove
<1>3. /\ pointers' \in [Finger -> BOOLEAN] /\ remote' \subseteq remote
      /\ touchMode => remote \cap Touching \subseteq remote'
      /\ ~touchMode => remote' = remote
  BY TouchOutcome DEF FingersMove, IInv, TypeOK, touch
<1>4. /\ unseen' \subseteq Finger /\ stuck' \subseteq Finger
      /\ unseen' = unseen \cap Touching' /\ stuck' = stuck \cap remote'
  BY <1>3, Untold DEF FingersMove, IInv
<1>5. TypeOK'
  BY <1>1, <1>2, <1>3, <1>4 DEF IInv, TypeOK, Carried, Touching
<1>6. TouchesAreFingers'
  BY <1>1, <1>3, <1>4 DEF IInv, TouchesAreFingers
<1> QED
  BY <1>1, <1>2, <1>5, <1>6 DEF IInv

(* A finger leaves with an event that still carries it.                    *)
LEMMA UpStep ==
    ASSUME IInv, NEW f \in Finger, FingerUp(f)
    PROVE  IInv'
<1>1. /\ Touching' = Touching \ {f} /\ Carried(at')
      /\ touchMode' = touchMode
  BY AtIsCarried DEF FingerUp, Restrict, Touching, Carried
<1>2. IsFiniteSet(Touching')
  BY <1>1, FS_RemoveElement DEF IInv
<1>3. /\ mInSwipe' \in BOOLEAN /\ mInGesture' \in BOOLEAN /\ Carried(mFirst')
      /\ FirstPairIsCurrent' /\ GestureIsOfPair'
  BY AtIsCarried, SwipeKeeps DEF FingerUp
<1>4. /\ pointers' \in [Finger -> BOOLEAN]
      /\ remote' = IF touchMode THEN remote \ {f} ELSE remote
  BY TouchOutcome DEF FingerUp, IInv, TypeOK, touch
<1>5. /\ unseen' \subseteq Finger /\ stuck' \subseteq Finger
      /\ unseen' = unseen \cap Touching'
      /\ stuck' = (stuck \cup IF touchMode THEN {} ELSE {f}) \cap remote'
  BY <1>4, Untold DEF FingerUp, IInv
<1>6. TypeOK'
  BY <1>1, <1>3, <1>4, <1>5 DEF IInv, TypeOK, Carried, Touching
<1>7. TouchesAreFingers'
  BY <1>1, <1>4, <1>5 DEF IInv, TouchesAreFingers
<1> QED
  BY <1>2, <1>3, <1>6, <1>7 DEF IInv

(* The event of a cancel ends the touch of one finger, in touch mode.      *)
LEMMA CancelStep ==
    ASSUME IInv, NEW f \in Finger, Cancel(f)
    PROVE  IInv'
<1>1. /\ Touching' = {} /\ touchMode' = touchMode
  BY DEF Cancel, Touching
<1>2. IsFiniteSet(Touching') /\ Carried(at')
  BY <1>1, FS_EmptySet DEF Cancel, Carried, Touching
<1>3. /\ mInSwipe' \in BOOLEAN /\ mInGesture' \in BOOLEAN /\ Carried(mFirst')
      /\ FirstPairIsCurrent' /\ GestureIsOfPair'
  BY AtIsCarried, SwipeKeeps DEF Cancel
<1>4. /\ pointers' \in [Finger -> BOOLEAN]
      /\ remote' = IF touchMode THEN remote \ {f} ELSE remote
  BY TouchOutcome DEF Cancel, IInv, TypeOK, touch
<1>5. /\ unseen' \subseteq Finger /\ stuck' \subseteq Finger
      /\ unseen' = unseen \cap Touching'
      /\ stuck' = (stuck \cup IF touchMode THEN Touching \ {f} ELSE Touching)
                     \cap remote'
  BY <1>4, Untold DEF Cancel, IInv
<1>6. TypeOK'
  BY <1>1, <1>2, <1>3, <1>4, <1>5 DEF IInv, TypeOK, Carried, Touching
<1>7. TouchesAreFingers'
  BY <1>1, <1>4, <1>5 DEF IInv, TouchesAreFingers
<1> QED
  BY <1>2, <1>3, <1>6, <1>7 DEF IInv

(* A finger above the screen, with none on it.                             *)
LEMMA HoverStep ==
    ASSUME IInv, NEW f \in Finger, Hover(f)
    PROVE  IInv'
<1>1. /\ Touching = {} /\ UNCHANGED <<at, touchMode>>
      /\ ~mInSwipe' /\ ~mInGesture' /\ mFirst' = mFirst
      /\ mInSwipe' \in BOOLEAN /\ mInGesture' \in BOOLEAN
  BY DEF Hover, SwipeReset
<1>2. /\ pointers' \in [Finger -> BOOLEAN] /\ remote' \subseteq remote
      /\ ~touchMode => remote' = remote
  BY TouchOutcome DEF Hover, IInv, TypeOK, touch
<1>3. /\ unseen' \subseteq Finger /\ stuck' \subseteq Finger
      /\ unseen' = unseen \cap Touching' /\ stuck' = stuck \cap remote'
  BY <1>2, Untold DEF Hover, IInv
<1>4. TypeOK'
  BY <1>1, <1>2, <1>3 DEF IInv, TypeOK, Touching
<1>5. TouchesAreFingers'
  BY <1>1, <1>2, <1>3 DEF IInv, TouchesAreFingers, Touching
<1> QED
  BY <1>1, <1>4, <1>5
     DEF IInv, FirstPairIsCurrent, GestureIsOfPair, Touching

(* A finger leaves unseen: a gesture of two is then one of fewer.          *)
LEMMA LostStep ==
    ASSUME IInv, NEW f \in Finger, LostUp(f)
    PROVE  IInv'
<1>1. /\ f \in Touching /\ Touching' = Touching \ {f} /\ Carried(at')
      /\ UNCHANGED <<mInSwipe, mInGesture, mFirst, pointers, remote, touchMode>>
  BY AtIsCarried DEF LostUp, Restrict, Touching, Carried, swipe, touch
<1>2. /\ IsFiniteSet(Touching') /\ Cardinality(Touching) \in Nat
      /\ Cardinality(Touching') = Cardinality(Touching) - 1
  BY <1>1, FS_RemoveElement, FS_CardinalityType DEF IInv
<1>3. /\ unseen' \subseteq Finger /\ stuck' \subseteq Finger
      /\ unseen' = unseen \cap Touching'
      /\ stuck' = (stuck \cup {f}) \cap remote'
  BY <1>1, Untold DEF LostUp, IInv
<1>4. TypeOK'
  BY <1>1, <1>3 DEF IInv, TypeOK, Carried, Touching
<1>5. TouchesAreFingers'
  BY <1>1, <1>3 DEF IInv, TouchesAreFingers
<1>6. FirstPairIsCurrent' /\ GestureIsOfPair'
  BY <1>1, <1>2 DEF IInv, FirstPairIsCurrent, GestureIsOfPair
<1> QED
  BY <1>2, <1>4, <1>5, <1>6 DEF IInv

(* The mode changes, and nobody is told.                                   *)
LEMMA ModeStep ==
    ASSUME IInv, SetInputMode
    PROVE  IInv'
<1>1. /\ touchMode' \in BOOLEAN
      /\ UNCHANGED <<mInSwipe, mInGesture, mFirst>>
      /\ UNCHANGED <<pointers, remote, at, unseen, stuck>>
  BY DEF SetInputMode, IInv, TypeOK, swipe, touch, told
<1> QED
  BY <1>1 DEF IInv, TypeOK, TouchesAreFingers,
              FirstPairIsCurrent, GestureIsOfPair, Touching

LEMMA Inductive == Spec => []IInv
<1>1. IInv /\ [Next]_vars => IInv'
  <2> SUFFICES ASSUME IInv, [Next]_vars
               PROVE  IInv'
    OBVIOUS
  <2>1. CASE UNCHANGED vars
    BY <2>1 DEF vars, swipe, touch, told, IInv, TypeOK, TouchesAreFingers,
                FirstPairIsCurrent, GestureIsOfPair,
                Touching
  <2> QED
    BY <2>1, DownStep, MoveStep, UpStep, CancelStep, HoverStep, LostStep,
       ModeStep DEF Next
<1> QED
  BY InitInv, <1>1, PTL DEF Spec

----------------------------------------------------------------------------
(* Touches, positions and the swipe detector keep their types.             *)
THEOREM TypeCorrect == Spec => []TypeOK
<1>1. IInv => TypeOK
  BY DEF IInv
<1> QED
  BY Inductive, <1>1, PTL

(* Every finger whose coming the X server was told of is a touch there,    *)
(* whatever was lost before, and every touch is a finger on the screen     *)
(* unless its end was not told.                                            *)
THEOREM FingersAreTouches == Spec => []TouchesAreFingers
<1>1. IInv => TouchesAreFingers
  BY DEF IInv
<1> QED
  BY Inductive, <1>1, PTL

(* Two fingers are measured from their own first positions.                *)
THEOREM PairIsItsOwn == Spec => []FirstPairIsCurrent
<1>1. IInv => FirstPairIsCurrent
  BY DEF IInv
<1> QED
  BY Inductive, <1>1, PTL

(* What a step may do that begins a swipe.                                  *)
SwipeBegins ==
    ~mInSwipe /\ mInSwipe' =>
        /\ Cardinality(Touching) = 2 /\ DOMAIN mFirst = Touching
        /\ Touching' = Touching /\ mFirst' = mFirst
        /\ SameWay(at')

(* Only a move with two fingers, measured before, can begin a swipe.       *)
LEMMA SwipeRises ==
    ASSUME NEW action, NEW now, SwipeOnTouchEvent(action, now),
           ~mInSwipe, mInSwipe'
    PROVE  /\ action = "MOVE" /\ mInGesture /\ SameWay(now)
           /\ Cardinality(DOMAIN now) = 2 /\ mFirst' = mFirst
BY DEF SwipeOnTouchEvent, SwipeReset, StoreFirst, swipe

(* When two fingers begin to scroll, it is the two that are on the screen: *)
(* each has left the slop, all in one direction, since the same two were   *)
(* first seen together.                                                    *)
THEOREM SwipesAreOfThePair == Spec => [][SwipeBegins]_vars
<1>1. ASSUME IInv, [Next]_vars
      PROVE  SwipeBegins
  <2>1. SUFFICES ASSUME ~mInSwipe, mInSwipe'
                 PROVE  /\ Cardinality(Touching) = 2 /\ DOMAIN mFirst = Touching
                        /\ Touching' = Touching /\ mFirst' = mFirst
                        /\ SameWay(at')
    BY DEF SwipeBegins
  <2>2. ASSUME NEW f \in Finger
        PROVE  /\ ~FingerUp(f) /\ ~Cancel(f) /\ ~Hover(f) /\ ~LostUp(f)
               /\ \A p \in Position : ~FingerDown(f, p)
    <3>1. \A action \in {"DOWN", "POINTER_DOWN", "UP", "POINTER_UP", "CANCEL"} :
              ~SwipeOnTouchEvent(action, at) /\ ~SwipeOnTouchEvent(action, at')
      BY <2>1, SwipeRises
    <3>2. ~FingerUp(f) /\ ~Cancel(f) /\ \A p \in Position : ~FingerDown(f, p)
      BY <3>1 DEF FingerDown, FingerUp, Cancel
    <3>3. ~Hover(f) /\ ~LostUp(f)
      BY <2>1 DEF Hover, SwipeReset, LostUp, swipe
    <3> QED
      BY <3>2, <3>3
  <2>3. ~SetInputMode /\ ~UNCHANGED vars
    <3>1. ASSUME mInSwipe' = mInSwipe PROVE FALSE
      <4>1. mInSwipe
        BY <2>1, <3>1
      <4> QED
        BY <2>1, <4>1
    <3>2. ~UNCHANGED swipe
      BY <3>1 DEF swipe
    <3> QED
      BY <3>2 DEF SetInputMode, vars
  <2>4. PICK now \in [Touching -> Position] : FingersMove(now)
    BY <1>1, <2>2, <2>3 DEF Next
  <2>5. /\ at' = now /\ DOMAIN now = Touching /\ Touching' = Touching
        /\ SwipeOnTouchEvent("MOVE", now)
    BY <2>4 DEF FingersMove, Touching
  <2>6. /\ mInGesture /\ SameWay(now)
        /\ Cardinality(DOMAIN now) = 2 /\ mFirst' = mFirst
    BY <2>1, <2>5, SwipeRises
  <2> QED
    BY <1>1, <2>5, <2>6 DEF IInv, FirstPairIsCurrent
<1> QED
  BY Inductive, <1>1, PTL DEF Spec
=============================================================================

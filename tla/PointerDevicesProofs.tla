------------------------ MODULE PointerDevicesProofs ------------------------
(***************************************************************************)
(* Proofs about PointerDevices, for any buttons of the two devices and any *)
(* number of posted presses.                                               *)
(***************************************************************************)
EXTENDS PointerDevices, TLAPS

----------------------------------------------------------------------------
(* The buttons the pen and the touchpad have down or are to press.         *)
PenHolds == IF penDown THEN {button} ELSE {}

DexHolds == dexSavedBS \cup LeftIf(dexGesture \in {"tap", "drag"})

(* What the flags of the touchpad say of its gesture, and of its buttons.  *)
DexInv ==
    /\ posted > 0 => dexGesture = "drag" \/ "LEFT" \in abandoned
    /\ mIsDragging => dexGesture = "drag"
    /\ dexGesture = "tap" => onTap
    /\ dexGesture = "none" /\ dexSavedBS # {} => ~onTap
    /\ dexGesture = "click" /\ dexSavedBS = {} => ~onTap

(* A pen on the screen has chosen a button.                                *)
PenInv == penDown => button # Undefined

(* No two devices hold one button together unless this is on record.       *)
ContentionSeen == Held = {} \/ contended \/ ~Contention

IInv ==
    /\ TypeOK /\ DexInv /\ PenInv
    /\ PressedIsHeld /\ ContentionSeen /\ HeldIsPressed

----------------------------------------------------------------------------
(* What is held, as a union of four sets, before and after a step.         *)
LEMMA HeldParts ==
    /\ Held = mouseSavedBS \cup PenHolds \cup auxPressed \cup DexHolds
    /\ Held' = (mouseSavedBS \cup PenHolds \cup auxPressed \cup DexHolds)'
<1>1. Held = mouseSavedBS \cup PenHolds \cup auxPressed \cup DexHolds
  BY DEF Held, Holding, PenHolds, DexHolds
<1>2. Held' = (mouseSavedBS \cup PenHolds \cup auxPressed \cup DexHolds)'
  BY DEF Held, Holding, PenHolds, DexHolds
<1>3. QED  BY <1>1, <1>2

(* Every step keeps the types.                                             *)
LEMMA TypeStep ==
    ASSUME TypeOK, Next
    PROVE  TypeOK'
<1>1. CASE \E now \in SUBSET MouseButtons : MouseEvent(now)
  BY <1>1, DeviceAssumption
     DEF MouseEvent, ButtonsAfter, pen, dex, flags, TypeOK, Button, LeftIf,
         Observe, ObserveLeft
<1>2. CASE \E primary, secondary \in BOOLEAN : PenDown(primary, secondary)
  BY <1>2, DeviceAssumption
     DEF PenDown, StylusButton, dex, flags, TypeOK, Button, LeftIf, Observe,
         ObserveLeft
<1>3. CASE \E forget \in BOOLEAN : PenUp(forget)
  BY <1>3, DeviceAssumption
     DEF PenUp, PenReleases, dex, flags, TypeOK, Button, LeftIf, Observe,
         ObserveLeft
<1>4. CASE PenCancel
  BY <1>4, DeviceAssumption
     DEF PenCancel, dex, flags, TypeOK, Button, LeftIf, Observe, ObserveLeft
<1>5. CASE \E b \in Button : SelectStylusButton(b)
  BY <1>5, DeviceAssumption
     DEF SelectStylusButton, dex, flags, TypeOK, Button, LeftIf, Observe,
         ObserveLeft
<1>6. CASE \E b \in Button : AuxDown(b)
  BY <1>6, DeviceAssumption
     DEF AuxDown, pen, dex, flags, TypeOK, Button, LeftIf, Observe, ObserveLeft
<1>7. CASE \E b \in Button : AuxUp(b)
  BY <1>7, DeviceAssumption
     DEF AuxUp, pen, dex, flags, TypeOK, Button, LeftIf, Observe, ObserveLeft
<1>8. CASE \E b \in Button : AuxCancel(b)
  BY <1>8, DeviceAssumption
     DEF AuxCancel, pen, dex, flags, TypeOK, Button, LeftIf, Observe,
         ObserveLeft
<1>9. CASE \E now \in SUBSET DexButtons :
                \E gesture \in Gestures : DexDown(gesture, now)
  BY <1>9, DeviceAssumption
     DEF DexDown, ButtonsAfter, pen, TypeOK, Button, LeftIf, Observe,
         ObserveLeft
<1>10. ASSUME NEW now \in SUBSET DexButtons, DexButton(now)
       PROVE  TypeOK'
  <2>1. now \subseteq Button /\ 0 \in 0..MaxPosted
    BY DeviceAssumption
  <2>2. /\ posted' = 0 /\ dexSavedBS' = now
        /\ remote' = ButtonsAfter(dexSavedBS, now)
        /\ onTap' \in BOOLEAN /\ contended' \in BOOLEAN
    BY <1>10, Zenon DEF DexButton, Observe, ObserveLeft
  <2>3. abandoned' \subseteq abandoned
    BY <1>10 DEF DexButton, Observe, ObserveLeft
  <2>4. remote' \subseteq Button
    BY <2>1, <2>2 DEF TypeOK, ButtonsAfter
  <2>5. QED
    BY <1>10, <2>1, <2>2, <2>3, <2>4 DEF DexButton, pen, TypeOK
<1>11. CASE MouseDownRunnable
  BY <1>11, DeviceAssumption
     DEF MouseDownRunnable, pen, flags, TypeOK, Button, LeftIf, Observe,
         ObserveLeft
<1>12. CASE DexUp
  BY <1>12, DeviceAssumption
     DEF DexUp, ButtonsAfter, LeftByDexUp, Gestures, pen, TypeOK, Button,
         LeftIf, Observe, ObserveLeft
<1>13. CASE DexMove
  BY <1>13, DeviceAssumption
     DEF DexMove, pen, flags, TypeOK, Button, LeftIf, Observe, ObserveLeft
<1>14. CASE ScrollerClick
  BY <1>14, DeviceAssumption
     DEF ScrollerClick, pen, flags, TypeOK, Button, LeftIf, Observe,
         ObserveLeft
<1>15. CASE DexReset
  BY <1>15, DeviceAssumption
     DEF DexReset, Gestures, pen, TypeOK, Button, LeftIf, Observe, ObserveLeft
<1>16. QED
  BY <1>1, <1>2, <1>3, <1>4, <1>5, <1>6, <1>7, <1>8, <1>9, <1>10,
     <1>11, <1>12, <1>13, <1>14, <1>15 DEF Next

(* Every step keeps the flags of the touchpad in line with its gesture.    *)
LEMMA DexStep ==
    ASSUME TypeOK, DexInv, Next
    PROVE  DexInv'
<1>1. CASE \E now \in SUBSET MouseButtons : MouseEvent(now)
  BY <1>1
     DEF MouseEvent, ButtonsAfter, pen, dex, flags, TypeOK, DexInv, LeftIf,
         Observe, ObserveLeft
<1>2. CASE \E primary, secondary \in BOOLEAN : PenDown(primary, secondary)
  BY <1>2
     DEF PenDown, StylusButton, dex, flags, TypeOK, DexInv, LeftIf, Observe,
         ObserveLeft
<1>3. CASE \E forget \in BOOLEAN : PenUp(forget)
  BY <1>3
     DEF PenUp, PenReleases, dex, flags, TypeOK, DexInv, LeftIf, Observe,
         ObserveLeft
<1>4. CASE PenCancel
  BY <1>4
     DEF PenCancel, dex, flags, TypeOK, DexInv, LeftIf, Observe, ObserveLeft
<1>5. CASE \E b \in Button : SelectStylusButton(b)
  BY <1>5
     DEF SelectStylusButton, dex, flags, TypeOK, DexInv, LeftIf, Observe,
         ObserveLeft
<1>6. CASE \E b \in Button : AuxDown(b)
  BY <1>6
     DEF AuxDown, pen, dex, flags, TypeOK, DexInv, LeftIf, Observe, ObserveLeft
<1>7. CASE \E b \in Button : AuxUp(b)
  BY <1>7
     DEF AuxUp, pen, dex, flags, TypeOK, DexInv, LeftIf, Observe, ObserveLeft
<1>8. CASE \E b \in Button : AuxCancel(b)
  BY <1>8
     DEF AuxCancel, pen, dex, flags, TypeOK, DexInv, LeftIf, Observe,
         ObserveLeft
<1>9. CASE \E now \in SUBSET DexButtons :
                \E gesture \in Gestures : DexDown(gesture, now)
  BY <1>9
     DEF DexDown, ButtonsAfter, pen, TypeOK, DexInv, LeftIf, Observe,
         ObserveLeft
<1>10. CASE \E now \in SUBSET DexButtons : DexButton(now)
  BY <1>10
     DEF DexButton, ButtonsAfter, pen, TypeOK, DexInv, LeftIf, Observe,
         ObserveLeft
<1>11. CASE MouseDownRunnable
  BY <1>11
     DEF MouseDownRunnable, pen, flags, TypeOK, DexInv, LeftIf, Observe,
         ObserveLeft
<1>12. CASE DexUp
  BY <1>12
     DEF DexUp, ButtonsAfter, LeftByDexUp, Gestures, pen, TypeOK, DexInv,
         LeftIf, Observe, ObserveLeft
<1>13. CASE DexMove
  BY <1>13
     DEF DexMove, pen, flags, TypeOK, DexInv, LeftIf, Observe, ObserveLeft
<1>14. CASE ScrollerClick
  BY <1>14
     DEF ScrollerClick, pen, flags, TypeOK, DexInv, LeftIf, Observe,
         ObserveLeft
<1>15. CASE DexReset
  BY <1>15
     DEF DexReset, Gestures, pen, TypeOK, DexInv, LeftIf, Observe, ObserveLeft
<1>16. QED
  BY <1>1, <1>2, <1>3, <1>4, <1>5, <1>6, <1>7, <1>8, <1>9, <1>10,
     <1>11, <1>12, <1>13, <1>14, <1>15 DEF Next

(* No step leaves a button down that nothing holds: who lets a button go   *)
(* releases it, even when another device holds it too, or abandons it.     *)
LEMMA PressedStep ==
    ASSUME TypeOK, DexInv, PressedIsHeld, Next
    PROVE  PressedIsHeld'
<1>1. CASE \E now \in SUBSET MouseButtons : MouseEvent(now)
  BY <1>1, HeldParts
     DEF MouseEvent, ButtonsAfter, pen, dex, flags, TypeOK, DexInv,
         PressedIsHeld, PenHolds, DexHolds, LeftIf, Observe, ObserveLeft
<1>2. CASE \E primary, secondary \in BOOLEAN : PenDown(primary, secondary)
  BY <1>2, HeldParts
     DEF PenDown, StylusButton, dex, flags, TypeOK, DexInv, PressedIsHeld,
         PenHolds, DexHolds, LeftIf, Observe, ObserveLeft
<1>3. CASE \E forget \in BOOLEAN : PenUp(forget)
  BY <1>3, HeldParts
     DEF PenUp, PenReleases, dex, flags, TypeOK, DexInv, PressedIsHeld,
         PenHolds, DexHolds, LeftIf, Observe, ObserveLeft
<1>4. CASE PenCancel
  BY <1>4, HeldParts
     DEF PenCancel, dex, flags, TypeOK, DexInv, PressedIsHeld, PenHolds,
         DexHolds, LeftIf, Observe, ObserveLeft
<1>5. CASE \E b \in Button : SelectStylusButton(b)
  BY <1>5, HeldParts
     DEF SelectStylusButton, dex, flags, TypeOK, DexInv, PressedIsHeld,
         PenHolds, DexHolds, LeftIf, Observe, ObserveLeft
<1>6. CASE \E b \in Button : AuxDown(b)
  BY <1>6, HeldParts
     DEF AuxDown, pen, dex, flags, TypeOK, DexInv, PressedIsHeld, PenHolds,
         DexHolds, LeftIf, Observe, ObserveLeft
<1>7. CASE \E b \in Button : AuxUp(b)
  BY <1>7, HeldParts
     DEF AuxUp, pen, dex, flags, TypeOK, DexInv, PressedIsHeld, PenHolds,
         DexHolds, LeftIf, Observe, ObserveLeft
<1>8. CASE \E b \in Button : AuxCancel(b)
  BY <1>8, HeldParts
     DEF AuxCancel, pen, dex, flags, TypeOK, DexInv, PressedIsHeld, PenHolds,
         DexHolds, LeftIf, Observe, ObserveLeft
<1>9. CASE \E now \in SUBSET DexButtons :
                \E gesture \in Gestures : DexDown(gesture, now)
  BY <1>9, HeldParts
     DEF DexDown, ButtonsAfter, pen, TypeOK, DexInv, PressedIsHeld, PenHolds,
         DexHolds, LeftIf, Observe, ObserveLeft
<1>10. CASE \E now \in SUBSET DexButtons : DexButton(now)
  BY <1>10, HeldParts
     DEF DexButton, ButtonsAfter, pen, TypeOK, DexInv, PressedIsHeld, PenHolds,
         DexHolds, LeftIf, Observe, ObserveLeft
<1>11. CASE MouseDownRunnable
  BY <1>11, HeldParts
     DEF MouseDownRunnable, pen, flags, TypeOK, DexInv, PressedIsHeld,
         PenHolds, DexHolds, LeftIf, Observe, ObserveLeft
<1>12. CASE DexUp
  BY <1>12, HeldParts
     DEF DexUp, ButtonsAfter, LeftByDexUp, Gestures, pen, TypeOK, DexInv,
         PressedIsHeld, PenHolds, DexHolds, LeftIf, Observe, ObserveLeft
<1>13. CASE DexMove
  BY <1>13, HeldParts
     DEF DexMove, pen, flags, TypeOK, DexInv, PressedIsHeld, PenHolds,
         DexHolds, LeftIf, Observe, ObserveLeft
<1>14. CASE ScrollerClick
  BY <1>14, HeldParts
     DEF ScrollerClick, pen, flags, TypeOK, DexInv, PressedIsHeld, PenHolds,
         DexHolds, LeftIf, Observe, ObserveLeft
<1>15. CASE DexReset
  BY <1>15, HeldParts
     DEF DexReset, Gestures, pen, TypeOK, DexInv, PressedIsHeld, PenHolds,
         DexHolds, LeftIf, Observe, ObserveLeft
<1>16. QED
  BY <1>1, <1>2, <1>3, <1>4, <1>5, <1>6, <1>7, <1>8, <1>9, <1>10,
     <1>11, <1>12, <1>13, <1>14, <1>15 DEF Next

(* The pen forgets its button only when it leaves the screen.              *)
LEMMA PenStep ==
    ASSUME TypeOK, PenInv, Next
    PROVE  PenInv'
<1>1. CASE \E now \in SUBSET MouseButtons : MouseEvent(now)
  BY <1>1
     DEF MouseEvent, ButtonsAfter, pen, dex, flags, PenInv, TypeOK, Button,
         Undefined
<1>2. CASE \E primary, secondary \in BOOLEAN : PenDown(primary, secondary)
  BY <1>2
     DEF PenDown, StylusButton, dex, flags, PenInv, TypeOK, Button, Undefined
<1>3. CASE \E forget \in BOOLEAN : PenUp(forget)
  BY <1>3 DEF PenUp, PenReleases, dex, flags, PenInv, TypeOK, Button, Undefined
<1>4. CASE PenCancel
  BY <1>4 DEF PenCancel, dex, flags, PenInv, TypeOK, Button, Undefined
<1>5. CASE \E b \in Button : SelectStylusButton(b)
  BY <1>5 DEF SelectStylusButton, dex, flags, PenInv, TypeOK, Button, Undefined
<1>6. CASE \E b \in Button : AuxDown(b)
  BY <1>6 DEF AuxDown, pen, dex, flags, PenInv, TypeOK, Button, Undefined
<1>7. CASE \E b \in Button : AuxUp(b)
  BY <1>7 DEF AuxUp, pen, dex, flags, PenInv, TypeOK, Button, Undefined
<1>8. CASE \E b \in Button : AuxCancel(b)
  BY <1>8 DEF AuxCancel, pen, dex, flags, PenInv, TypeOK, Button, Undefined
<1>9. CASE \E now \in SUBSET DexButtons :
                \E gesture \in Gestures : DexDown(gesture, now)
  BY <1>9
     DEF DexDown, ButtonsAfter, LeftIf, pen, PenInv, TypeOK, Button, Undefined
<1>10. CASE \E now \in SUBSET DexButtons : DexButton(now)
  BY <1>10 DEF DexButton, ButtonsAfter, pen, PenInv, TypeOK, Button, Undefined
<1>11. CASE MouseDownRunnable
  BY <1>11 DEF MouseDownRunnable, pen, flags, PenInv, TypeOK, Button, Undefined
<1>12. CASE DexUp
  BY <1>12
     DEF DexUp, ButtonsAfter, LeftIf, LeftByDexUp, Gestures, pen, PenInv,
         TypeOK, Button, Undefined
<1>13. CASE DexMove
  BY <1>13 DEF DexMove, pen, flags, PenInv, TypeOK, Button, Undefined
<1>14. CASE ScrollerClick
  BY <1>14 DEF ScrollerClick, pen, flags, PenInv, TypeOK, Button, Undefined
<1>15. CASE DexReset
  BY <1>15
     DEF DexReset, Gestures, LeftIf, pen, PenInv, TypeOK, Button, Undefined
<1>16. QED
  BY <1>1, <1>2, <1>3, <1>4, <1>5, <1>6, <1>7, <1>8, <1>9, <1>10,
     <1>11, <1>12, <1>13, <1>14, <1>15 DEF Next

(* A step records the contention it brings.                                *)
LEMMA Observed ==
    ASSUME Next
    PROVE  contended' = (Held' # {} /\ (contended \/ Contention'))
<1>1. CASE \E now \in SUBSET MouseButtons : MouseEvent(now)
  BY <1>1 DEF MouseEvent, ButtonsAfter, pen, dex, flags, Observe, ObserveLeft
<1>2. CASE \E primary, secondary \in BOOLEAN : PenDown(primary, secondary)
  BY <1>2 DEF PenDown, StylusButton, dex, flags, Observe, ObserveLeft
<1>3. CASE \E forget \in BOOLEAN : PenUp(forget)
  BY <1>3 DEF PenUp, PenReleases, dex, flags, Observe, ObserveLeft
<1>4. CASE PenCancel
  BY <1>4 DEF PenCancel, dex, flags, Observe, ObserveLeft
<1>5. CASE \E b \in Button : SelectStylusButton(b)
  BY <1>5 DEF SelectStylusButton, dex, flags, Observe, ObserveLeft
<1>6. CASE \E b \in Button : AuxDown(b)
  BY <1>6 DEF AuxDown, pen, dex, flags, Observe, ObserveLeft
<1>7. CASE \E b \in Button : AuxUp(b)
  BY <1>7 DEF AuxUp, pen, dex, flags, Observe, ObserveLeft
<1>8. CASE \E b \in Button : AuxCancel(b)
  BY <1>8 DEF AuxCancel, pen, dex, flags, Observe, ObserveLeft
<1>9. CASE \E now \in SUBSET DexButtons :
                \E gesture \in Gestures : DexDown(gesture, now)
  BY <1>9 DEF DexDown, ButtonsAfter, LeftIf, pen, Observe, ObserveLeft
<1>10. CASE \E now \in SUBSET DexButtons : DexButton(now)
  BY <1>10 DEF DexButton, ButtonsAfter, pen, Observe, ObserveLeft
<1>11. CASE MouseDownRunnable
  BY <1>11 DEF MouseDownRunnable, pen, flags, Observe, ObserveLeft
<1>12. CASE DexUp
  BY <1>12
     DEF DexUp, ButtonsAfter, LeftIf, LeftByDexUp, Gestures, pen, Observe,
         ObserveLeft
<1>13. CASE DexMove
  BY <1>13 DEF DexMove, pen, flags, Observe, ObserveLeft
<1>14. CASE ScrollerClick
  BY <1>14 DEF ScrollerClick, pen, flags, Observe, ObserveLeft
<1>15. CASE DexReset
  BY <1>15 DEF DexReset, Gestures, LeftIf, pen, Observe, ObserveLeft
<1>16. QED
  BY <1>1, <1>2, <1>3, <1>4, <1>5, <1>6, <1>7, <1>8, <1>9, <1>10,
     <1>11, <1>12, <1>13, <1>14, <1>15 DEF Next

(* The buttons that HeldIsPressed claims are down.                         *)
Claimed ==
    mouseSavedBS \cup PenHolds \cup auxPressed \cup dexSavedBS
        \cup LeftIf(dexGesture = "tap" \/ (mIsDragging /\ posted = 0))

(* HeldIsPressed in terms of Claimed, before and after a step.             *)
LEMMA HeldIsPressedMeans ==
    /\ HeldIsPressed <=> (~contended => Claimed \subseteq remote)
    /\ HeldIsPressed' <=> (~contended => Claimed \subseteq remote)'
<1>1. Holding.pen = PenHolds /\ Holding'.pen = PenHolds'
  BY DEF Holding, PenHolds
<1>2. QED
  BY <1>1 DEF HeldIsPressed, Claimed

(* Without contention each held button has one holder, and the scroller    *)
(* clicks none of them.                                                    *)
LEMMA Alone ==
    ASSUME ContentionSeen, ~contended
    PROVE  /\ mouseSavedBS \cap PenHolds = {}
           /\ mouseSavedBS \cap auxPressed = {}
           /\ mouseSavedBS \cap DexHolds = {}
           /\ PenHolds \cap auxPressed = {}
           /\ PenHolds \cap DexHolds = {}
           /\ auxPressed \cap DexHolds = {}
           /\ LeftIf(tapPending) \cap Held = {}
<1>1. CASE Held = {}
  BY <1>1, HeldParts
<1>2. CASE ~Contention
  <2>1. \A d, e \in {"mouse", "pen", "aux", "dex", "scroller"} :
           d # e => Holding[d] \cap Holding[e] = {}
    BY <1>2 DEF Contention, Holding
  <2>2. /\ Holding["mouse"] = mouseSavedBS /\ Holding["pen"] = PenHolds
        /\ Holding["aux"] = auxPressed /\ Holding["dex"] = DexHolds
        /\ Holding["scroller"] = LeftIf(tapPending)
    BY DEF Holding, PenHolds, DexHolds
  <2>3. QED
    BY <2>1, <2>2, HeldParts
<1>3. QED
  BY <1>1, <1>2 DEF ContentionSeen

(* Claimed buttons are held ones.                                          *)
LEMMA ClaimedIsHeld == DexInv' => Claimed' \subseteq Held'
<1>1. QED
  BY HeldParts DEF DexInv, Claimed, DexHolds, LeftIf

(* A step without contention before or after it releases no held button.   *)
LEMMA ClaimStep ==
    ASSUME TypeOK, DexInv, ContentionSeen, ~contended,
           Claimed \subseteq remote, Next
    PROVE  (Claimed \subseteq remote)'
<1>1. CASE \E now \in SUBSET MouseButtons : MouseEvent(now)
  BY <1>1, Alone, HeldParts
     DEF MouseEvent, ButtonsAfter, pen, dex, flags, TypeOK, DexInv, Claimed,
         PenHolds, DexHolds, LeftIf
<1>2. CASE \E primary, secondary \in BOOLEAN : PenDown(primary, secondary)
  BY <1>2, Alone, HeldParts
     DEF PenDown, StylusButton, dex, flags, TypeOK, DexInv, Claimed, PenHolds,
         DexHolds, LeftIf
<1>3. CASE \E forget \in BOOLEAN : PenUp(forget)
  BY <1>3, Alone, HeldParts
     DEF PenUp, PenReleases, dex, flags, TypeOK, DexInv, Claimed, PenHolds,
         DexHolds, LeftIf
<1>4. CASE PenCancel
  BY <1>4, Alone, HeldParts
     DEF PenCancel, dex, flags, TypeOK, DexInv, Claimed, PenHolds, DexHolds,
         LeftIf
<1>5. CASE \E b \in Button : SelectStylusButton(b)
  BY <1>5, Alone, HeldParts
     DEF SelectStylusButton, dex, flags, TypeOK, DexInv, Claimed, PenHolds,
         DexHolds, LeftIf
<1>6. CASE \E b \in Button : AuxDown(b)
  BY <1>6, Alone, HeldParts
     DEF AuxDown, pen, dex, flags, TypeOK, DexInv, Claimed, PenHolds, DexHolds,
         LeftIf
<1>7. CASE \E b \in Button : AuxUp(b)
  BY <1>7, Alone, HeldParts
     DEF AuxUp, pen, dex, flags, TypeOK, DexInv, Claimed, PenHolds, DexHolds,
         LeftIf
<1>8. CASE \E b \in Button : AuxCancel(b)
  BY <1>8, Alone, HeldParts
     DEF AuxCancel, pen, dex, flags, TypeOK, DexInv, Claimed, PenHolds,
         DexHolds, LeftIf
<1>9. CASE \E now \in SUBSET DexButtons :
                \E gesture \in Gestures : DexDown(gesture, now)
  BY <1>9, Alone, HeldParts
     DEF DexDown, ButtonsAfter, pen, TypeOK, DexInv, Claimed, PenHolds,
         DexHolds, LeftIf
<1>10. CASE \E now \in SUBSET DexButtons : DexButton(now)
  BY <1>10, Alone, HeldParts
     DEF DexButton, ButtonsAfter, pen, TypeOK, DexInv, Claimed, PenHolds,
         DexHolds, LeftIf
<1>11. CASE MouseDownRunnable
  BY <1>11, Alone, HeldParts
     DEF MouseDownRunnable, pen, flags, TypeOK, DexInv, Claimed, PenHolds,
         DexHolds, LeftIf
<1>12. CASE DexUp
  BY <1>12, Alone, HeldParts
     DEF DexUp, ButtonsAfter, LeftByDexUp, Gestures, pen, TypeOK, DexInv,
         Claimed, PenHolds, DexHolds, LeftIf
<1>13. CASE DexMove
  BY <1>13, Alone, HeldParts
     DEF DexMove, pen, flags, TypeOK, DexInv, Claimed, PenHolds, DexHolds,
         LeftIf
<1>14. CASE ScrollerClick
  BY <1>14, Alone, HeldParts
     DEF ScrollerClick, pen, flags, TypeOK, DexInv, Claimed, PenHolds,
         DexHolds, LeftIf
<1>15. CASE DexReset
  BY <1>15, Alone, HeldParts
     DEF DexReset, Gestures, pen, TypeOK, DexInv, Claimed, PenHolds, DexHolds,
         LeftIf
<1>16. QED
  BY <1>1, <1>2, <1>3, <1>4, <1>5, <1>6, <1>7, <1>8, <1>9, <1>10,
     <1>11, <1>12, <1>13, <1>14, <1>15 DEF Next

(* What is held is down, as long as nothing is held twice.                 *)
LEMMA HeldStep ==
    ASSUME TypeOK, DexInv, ContentionSeen, HeldIsPressed, Next
    PROVE  HeldIsPressed'
<1>1. Held' = {} \/ contended' \/ ~contended
  BY Observed
<1>2. CASE Held' = {}
  BY <1>2, DexStep, ClaimedIsHeld, HeldIsPressedMeans
<1>3. CASE contended'
  BY <1>3, HeldIsPressedMeans
<1>4. CASE ~contended
  BY <1>4, ClaimStep, HeldIsPressedMeans
<1>5. QED
  BY <1>1, <1>2, <1>3, <1>4

----------------------------------------------------------------------------
(* Nothing is pressed, held or flagged at first.                           *)
LEMMA InitInv == Init => IInv
<1>1. SUFFICES ASSUME Init PROVE IInv
  OBVIOUS
<1>2. TypeOK
  <2>1. 0 \in 0..MaxPosted
    BY DeviceAssumption
  <2>2. QED
    BY <1>1, <2>1, Zenon DEF Init, TypeOK, Button, Gestures
<1>3. DexInv /\ PenInv
  BY <1>1 DEF Init, DexInv, PenInv
<1>4. Held = {}
  BY <1>1, HeldParts DEF Init, PenHolds, DexHolds, LeftIf
<1>5. PressedIsHeld /\ ContentionSeen
  BY <1>1, <1>4 DEF Init, PressedIsHeld, ContentionSeen
<1>6. HeldIsPressed
  BY <1>1, HeldIsPressedMeans DEF Init, Claimed, PenHolds, LeftIf
<1>7. QED
  BY <1>2, <1>3, <1>5, <1>6 DEF IInv

(* IInv is inductive.                                                      *)
LEMMA StepInv ==
    ASSUME IInv, [Next]_vars
    PROVE  IInv'
<1>1. CASE Next
  <2>1. ContentionSeen'
    BY <1>1, Observed DEF ContentionSeen
  <2>2. QED
    BY <1>1, <2>1, TypeStep, DexStep, PenStep, PressedStep, HeldStep DEF IInv
<1>2. CASE UNCHANGED vars
  <2>1. TypeOK' /\ DexInv' /\ PenInv'
    BY <1>2 DEF IInv, vars, pen, dex, flags, TypeOK, DexInv, PenInv
  <2>2. Holding' = Holding
    BY <1>2 DEF vars, pen, dex, flags, Holding
  <2>3. PressedIsHeld' /\ ContentionSeen'
    BY <1>2, <2>2
       DEF IInv, vars, PressedIsHeld, ContentionSeen, Held, Contention
  <2>4. HeldIsPressed'
    BY <1>2, <2>2 DEF IInv, vars, pen, dex, flags, HeldIsPressed
  <2>5. QED
    BY <2>1, <2>3, <2>4 DEF IInv
<1>3. QED
  BY <1>1, <1>2

(* IInv holds in every reachable state.                                    *)
LEMMA Inductive == Spec => []IInv
<1>1. IInv /\ [Next]_vars => IInv'
  BY StepInv
<1>2. QED
  BY <1>1, InitInv, PTL DEF Spec

----------------------------------------------------------------------------
(* The listeners' states and the remote mouse keep their types.            *)
THEOREM TypeCorrect == Spec => []TypeOK
<1>1. IInv => TypeOK
  BY DEF IInv
<1>2. QED
  BY <1>1, Inductive, PTL

(* No button of the remote mouse stays down once every device has let go   *)
(* of it, unless its press was cancelled or left to nobody.                *)
THEOREM NoButtonIsStuck == Spec => []PressedIsHeld
<1>1. IInv => PressedIsHeld
  BY DEF IInv
<1>2. QED
  BY <1>1, Inductive, PTL

(* A button that one device holds, and never shared with another, is down. *)
THEOREM NoPressIsLost == Spec => []HeldIsPressed
<1>1. IInv => HeldIsPressed
  BY DEF IInv
<1>2. QED
  BY <1>1, Inductive, PTL
=============================================================================

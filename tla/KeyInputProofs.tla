--------------------------- MODULE KeyInputProofs ---------------------------
(***************************************************************************)
(* Proofs about KeyInput, for any set of keys, any two modifiers and any   *)
(* remapped keys, whenever the preferences change and the service stops.   *)
(***************************************************************************)
EXTENDS KeyInput, TLAPS

(* A key that is down at the X server or remembered as typed, and nothing  *)
(* happened to it.                                                         *)
Owed(k) == k \in RemoteKeys \cup mPressedTextKeys /\ k \notin astray

(* It is held, was sent in one way, as an event would send it now, and has *)
(* someone who will release it.                                            *)
Kept(k) ==
    /\ k \in phys
    /\ ~(k \in mPressedTextKeys /\ k \in RemoteKeys)
    /\ k \in mPressedTextKeys => ~prefs.preferScancodes
    /\ \A c \in {"key", "scan"} :
          <<k, c>> \in remote => <<k, c>> = CodeOf(k, ByScancode(phys))
    /\ (service /\ k \in pressedKeys) \/ k \in delivered

DeliveredNeedsFocus == ~focus => delivered = {}

IInv == TypeOK /\ DeliveredNeedsFocus /\ \A k \in Key : Owed(k) => Kept(k)

(* The empty keyboard satisfies the invariant.                             *)
LEMMA InitIInv == Init => IInv
  BY KeyAssumption
  DEF Init, IInv, TypeOK, DeliveredNeedsFocus, Owed, RemoteKeys

----------------------------------------------------------------------------
(* An event at the X server is one of two codes of its key.                *)
LEMMA CodeIsOneOfTwo ==
    ASSUME NEW k \in Key, NEW scan
    PROVE  /\ CodeOf(k, scan) \in {<<k, "key">>, <<k, "scan">>}
           /\ CodeOf(k, scan) \in Code
           /\ k \notin Remapped => CodeOf(k, scan) = <<k, "key">>
  BY DEF CodeOf, Code

(* A key that is owed after a step was not astray before it, is none of    *)
(* those the step sets astray, and keeps its code.                         *)
LEMMA StillOwed ==
    ASSUME NEW keys, Astray(keys), NEW k \in Key, Owed(k)'
    PROVE  /\ k \notin astray /\ k \notin keys
           /\ CodeOf(k, ByScancode(phys)') = CodeOf(k, ByScancode(phys))
  <1>1. k \notin astray /\ k \notin keys
    BY DEF Astray, Owed
  <1>2. ByScancode(phys)' # ByScancode(phys) => k \notin Remapped
    BY DEF Astray, Owed
  <1>3. CASE k \in Remapped
    BY <1>1, <1>2, <1>3
  <1>4. CASE k \notin Remapped
    BY <1>1, <1>4, CodeIsOneOfTwo
  <1> QED
    BY <1>3, <1>4

(* The sets stay within the keys.                                          *)
LEMMA AstrayKeys ==
    ASSUME NEW keys, Astray(keys), mPressedTextKeys' \subseteq Key
    PROVE  astray' \subseteq Key
  BY DEF Astray, RemoteKeys

----------------------------------------------------------------------------
(* A key down sends the key in one way, and no other.                      *)
LEMMA DownSends ==
    ASSUME TypeOK, NEW k \in Key, NEW held, SendDown(k, held)
    PROVE  /\ mPressedTextKeys' \subseteq Key /\ remote' \subseteq Code
           /\ \A j \in Key \ {k} :
                 /\ j \in mPressedTextKeys' <=> j \in mPressedTextKeys
                 /\ \A c \in {"key", "scan"} :
                       <<j, c>> \in remote' <=> <<j, c>> \in remote
           /\ k \notin mPressedTextKeys \cup RemoteKeys =>
                 /\ ~(k \in mPressedTextKeys' /\ k \in RemoteKeys')
                 /\ k \in mPressedTextKeys' => ~prefs.preferScancodes
                 /\ \A c \in {"key", "scan"} : <<k, c>> \in remote'
                       => <<k, c>> = CodeOf(k, ByScancode(held))
  <1>1. CASE AsText(k, held)
    BY <1>1 DEF SendDown, AsText, TypeOK, RemoteKeys
  <1>2. CASE ~AsText(k, held)
    BY <1>2, CodeIsOneOfTwo DEF SendDown, TypeOK, RemoteKeys
  <1> QED
    BY <1>1, <1>2

(* A key up leaves none of the keys that are owed, if its code is the one  *)
(* of the press, and adds none.                                            *)
LEMMA UpsRelease ==
    ASSUME IInv, NEW keys \in SUBSET Key, NEW scan, SendUps(keys, scan)
    PROVE  /\ mPressedTextKeys' \subseteq mPressedTextKeys
           /\ remote' \subseteq remote
           /\ \A k \in keys :
                 Owed(k) /\ CodeOf(k, scan) = CodeOf(k, ByScancode(phys))
                     => k \notin mPressedTextKeys' \cup RemoteKeys'
  <1> DEFINE typed == IF prefs.preferScancodes THEN {}
                                          ELSE keys \cap mPressedTextKeys
  <1>1. /\ mPressedTextKeys' = mPressedTextKeys \ typed
        /\ remote' = remote \ {CodeOf(k, scan) : k \in keys \ typed}
    BY DEF SendUps
  <1>2. ASSUME NEW k \in keys, Owed(k),
               CodeOf(k, scan) = CodeOf(k, ByScancode(phys))
        PROVE  k \notin mPressedTextKeys' \cup RemoteKeys'
    <2>1. Kept(k)
      BY <1>2 DEF IInv
    <2>2. CASE k \in mPressedTextKeys
      BY <1>1, <2>1, <2>2 DEF Kept, RemoteKeys
    <2>3. CASE k \notin mPressedTextKeys
      <3>1. CodeOf(k, scan) \notin remote'
        BY <1>1, <2>3
      <3>2. \A c \in {"key", "scan"} : <<k, c>> \notin remote'
        BY <1>1, <1>2, <2>1, <3>1 DEF Kept
      <3> QED
        BY <1>1, <2>3, <3>2 DEF RemoteKeys
    <2> QED
      BY <2>2, <2>3
  <1> QED
    BY <1>1, <1>2

----------------------------------------------------------------------------
(* A key goes down.                                                        *)
LEMMA DownStep ==
    ASSUME IInv, NEW k \in Key, KeyDown(k)
    PROVE  IInv'
  <1> DEFINE consumed == Intercept /\ ~FilteredOut(k)
  <1>1. /\ k \notin phys /\ phys' = phys \cup {k} /\ Astray({})
        /\ pressedKeys' = PressedWith(k)
        /\ UNCHANGED <<focus, captured, service, prefs>>
        /\ delivered' = IF ~consumed /\ focus THEN delivered \cup {k}
                                              ELSE delivered
        /\ IF focus THEN SendDown(k, phys') ELSE NothingSent
    BY DEF KeyDown, Intercept
  <1>2. /\ pressedKeys \subseteq pressedKeys' /\ pressedKeys' \subseteq Key
        /\ delivered \subseteq delivered' /\ delivered' \subseteq Key
        /\ focus => (service /\ k \in pressedKeys') \/ k \in delivered'
        /\ ~focus => delivered' = delivered
    BY <1>1 DEF PressedWith, Intercept, IInv, TypeOK
  <1>3. /\ mPressedTextKeys' \subseteq Key /\ remote' \subseteq Code
        /\ \A j \in Key \ {k} :
              /\ j \in mPressedTextKeys' <=> j \in mPressedTextKeys
              /\ \A c \in {"key", "scan"} :
                    <<j, c>> \in remote' <=> <<j, c>> \in remote
    BY <1>1, DownSends DEF NothingSent, IInv, TypeOK
  <1>4. TypeOK' /\ DeliveredNeedsFocus'
    BY <1>1, <1>2, <1>3, AstrayKeys DEF IInv, TypeOK, DeliveredNeedsFocus
  <1>5. ASSUME NEW j \in Key, Owed(j)', j # k
        PROVE  Kept(j)'
    <2>1. /\ j \notin astray
          /\ CodeOf(j, ByScancode(phys)') = CodeOf(j, ByScancode(phys))
      BY <1>1, <1>5, StillOwed
    <2>2. Owed(j)
      BY <1>3, <1>5, <2>1 DEF Owed, RemoteKeys
    <2>3. Kept(j)
      BY <2>2 DEF IInv
    <2> QED
      BY <1>1, <1>2, <1>3, <1>5, <2>1, <2>3 DEF Kept, RemoteKeys
  <1>6. ASSUME Owed(k)'
        PROVE  Kept(k)'
    <2>1. k \notin astray
      BY <1>1, <1>6, StillOwed
    <2>2. k \notin mPressedTextKeys \cup RemoteKeys
      BY <1>1, <2>1 DEF IInv, Owed, Kept
    <2>3. focus /\ SendDown(k, phys')
      BY <1>1, <1>6, <2>2 DEF NothingSent, Owed, RemoteKeys
    <2>4. /\ ~(k \in mPressedTextKeys' /\ k \in RemoteKeys')
          /\ k \in mPressedTextKeys' => ~prefs.preferScancodes
          /\ \A c \in {"key", "scan"} : <<k, c>> \in remote'
                => <<k, c>> = CodeOf(k, ByScancode(phys'))
      BY <2>2, <2>3, DownSends DEF IInv
    <2> QED
      BY <1>1, <1>2, <2>3, <2>4 DEF Kept, ByScancode
  <1> QED
    BY <1>4, <1>5, <1>6 DEF IInv

(* A step that sends nothing but releases, and leaves those of the keys of *)
(* one set to nobody.                                                      *)
LEMMA ReleaseKeeps ==
    ASSUME IInv, NEW keys, NEW lost, Astray(lost),
           mPressedTextKeys' \subseteq mPressedTextKeys,
           remote' \subseteq remote, prefs' = prefs,
           phys \ keys \subseteq phys',
           \A k \in keys : Owed(k) =>
              k \in lost \/ k \notin mPressedTextKeys' \cup RemoteKeys'
                \/ CodeOf(k, ByScancode(phys)') # CodeOf(k, ByScancode(phys)),
           \A k \in Key \ keys :
              (service /\ k \in pressedKeys) \/ k \in delivered =>
                 (service' /\ k \in pressedKeys') \/ k \in delivered'
                    \/ k \in lost
    PROVE  /\ \A k \in Key : Owed(k)' => Kept(k)'
           /\ astray' \subseteq Key
  <1>1. ASSUME NEW k \in Key, Owed(k)'
        PROVE  Kept(k)'
    <2>1. /\ k \notin astray /\ k \notin lost
          /\ CodeOf(k, ByScancode(phys)') = CodeOf(k, ByScancode(phys))
      BY <1>1, StillOwed
    <2>2. Owed(k)
      BY <1>1, <2>1 DEF Owed, RemoteKeys
    <2>3. Kept(k)
      BY <2>2 DEF IInv
    <2>4. k \notin keys
      BY <1>1, <2>1, <2>2 DEF Owed
    <2>5. k \in phys' /\ ((service' /\ k \in pressedKeys') \/ k \in delivered')
      BY <2>1, <2>3, <2>4 DEF Kept
    <2> QED
      BY <2>1, <2>3, <2>5 DEF Kept, RemoteKeys
  <1>2. mPressedTextKeys' \subseteq Key
    BY DEF IInv, TypeOK
  <1> QED
    BY <1>1, <1>2, AstrayKeys

(* A key comes up: its release is seen, or no one was to see it, or the    *)
(* filter dropped it.                                                      *)
LEMMA UpStep ==
    ASSUME IInv, NEW k \in Key, KeyUp(k)
    PROVE  IInv'
  <1> DEFINE dropped == InterceptsUp(k) /\ FilteredOut(k) /\ ~focus
             lost == IF dropped THEN {k} ELSE {}
             seen == (InterceptsUp(k) /\ ~FilteredOut(k)) \/ focus
  <1>1. /\ phys' = phys \ {k} /\ Astray(lost)
        /\ pressedKeys' = IF service THEN pressedKeys \ {k} ELSE pressedKeys
        /\ delivered' \in {delivered, delivered \ {k}}
        /\ UNCHANGED <<focus, captured, service, prefs>>
        /\ IF seen THEN SendUps({k}, ByScancode(phys')) ELSE NothingSent
    BY DEF KeyUp
  <1>2. mPressedTextKeys' \subseteq mPressedTextKeys /\ remote' \subseteq remote
    BY <1>1, UpsRelease DEF NothingSent
  <1>3. Owed(k) => k \in lost \/ k \notin mPressedTextKeys' \cup RemoteKeys'
             \/ CodeOf(k, ByScancode(phys)') # CodeOf(k, ByScancode(phys))
    <2>1. CASE seen
      <3>1. SendUps({k}, ByScancode(phys)')
        BY <1>1, <2>1 DEF ByScancode
      <3> QED
        BY <3>1, UpsRelease
    <2>2. CASE ~seen
      BY <2>2 DEF IInv, DeliveredNeedsFocus, Kept, InterceptsUp
    <2> QED
      BY <2>1, <2>2
  <1>4. \A j \in Key : j # k =>
          ((service /\ j \in pressedKeys) \/ j \in delivered =>
             (service' /\ j \in pressedKeys') \/ j \in delivered')
    BY <1>1
  <1>5. (\A j \in Key : Owed(j)' => Kept(j)') /\ astray' \subseteq Key
    <2>1. phys \ {k} \subseteq phys' /\ prefs' = prefs
      BY <1>1
    <2>2. Astray(lost)
      BY <1>1
    <2>3. \A j \in {k} : Owed(j) =>
             j \in lost \/ j \notin mPressedTextKeys' \cup RemoteKeys'
               \/ CodeOf(j, ByScancode(phys)') # CodeOf(j, ByScancode(phys))
      BY <1>3
    <2>4. \A j \in Key \ {k} :
             (service /\ j \in pressedKeys) \/ j \in delivered =>
                (service' /\ j \in pressedKeys') \/ j \in delivered'
                   \/ j \in lost
      BY <1>4
    <2> HIDE DEF lost
    <2> QED
      BY <1>2, <2>1, <2>2, <2>3, <2>4, ReleaseKeeps, Zenon
  <1> QED
    BY <1>1, <1>2, <1>5 DEF IInv, TypeOK, DeliveredNeedsFocus

(* The window loses focus: what Android delivered is released, the rest    *)
(* stays with the interceptor.                                             *)
LEMMA LostStep ==
    ASSUME IInv, FocusLost
    PROVE  IInv'
  <1> DEFINE lost == Remapped \cap delivered
  <1>1. /\ delivered' = {} /\ focus' = FALSE /\ captured' = FALSE
        /\ UNCHANGED <<phys, service, pressedKeys, prefs>>
        /\ Astray(lost)
    BY DEF FocusLost
  <1>2. PICK scan : SendUps(delivered, scan)
    BY DEF FocusLost
  <1>3. delivered \in SUBSET Key
    BY DEF IInv, TypeOK
  <1>4. mPressedTextKeys' \subseteq mPressedTextKeys /\ remote' \subseteq remote
    BY <1>2, <1>3, UpsRelease
  <1>5. ASSUME NEW k \in delivered, Owed(k), k \notin lost
        PROVE  k \notin mPressedTextKeys' \cup RemoteKeys'
    <2>1. CodeOf(k, scan) = CodeOf(k, ByScancode(phys))
      BY <1>3, <1>5, CodeIsOneOfTwo
    <2> QED
      BY <1>2, <1>3, <1>5, <2>1, UpsRelease
  <1>6. \A k \in Key \ delivered :
          (service /\ k \in pressedKeys) \/ k \in delivered =>
             (service' /\ k \in pressedKeys') \/ k \in delivered'
    BY <1>1
  <1>7. (\A k \in Key : Owed(k)' => Kept(k)') /\ astray' \subseteq Key
    <2>1. Astray(lost) /\ prefs' = prefs /\ phys \ delivered \subseteq phys'
      BY <1>1
    <2> HIDE DEF lost
    <2> QED
      BY <1>4, <1>5, <1>6, <2>1, ReleaseKeeps
  <1> QED
    BY <1>1, <1>4, <1>7 DEF IInv, TypeOK, DeliveredNeedsFocus

(* The service stops, and the keys it held are left to nobody.             *)
LEMMA ShutdownStep ==
    ASSUME IInv, Shutdown
    PROVE  IInv'
  <1>1. /\ service' = FALSE /\ pressedKeys' = {} /\ Astray(pressedKeys)
        /\ UNCHANGED <<phys, focus, captured, delivered, prefs,
                       mPressedTextKeys, remote>>
    BY DEF Shutdown
  <1>2. (\A k \in Key : Owed(k)' => Kept(k)') /\ astray' \subseteq Key
    BY <1>1, ReleaseKeeps
  <1> QED
    BY <1>1, <1>2 DEF IInv, TypeOK, DeliveredNeedsFocus

(* The preferences change, and typed keys may be left in the set.          *)
LEMMA PreferencesStep ==
    ASSUME IInv, NEW new \in Prefs, OnPreferencesChanged(new)
    PROVE  IInv'
  <1>1. /\ prefs' = new /\ captured' \in {captured, FALSE}
        /\ Astray(Retyped)
        /\ UNCHANGED <<phys, focus, service, pressedKeys, delivered,
                       mPressedTextKeys, remote>>
    BY DEF OnPreferencesChanged
  <1>2. ASSUME NEW k \in Key, Owed(k)'
        PROVE  Kept(k)'
    <2>1. /\ k \notin astray /\ k \notin Retyped
          /\ CodeOf(k, ByScancode(phys)') = CodeOf(k, ByScancode(phys))
      BY <1>1, <1>2, StillOwed
    <2>2. Kept(k)
      BY <1>1, <1>2, <2>1 DEF IInv, Owed, RemoteKeys
    <2>3. k \in mPressedTextKeys => ~prefs'.preferScancodes
      BY <2>1, <2>2 DEF Kept, Retyped
    <2> QED
      BY <1>1, <2>1, <2>2, <2>3 DEF Kept, RemoteKeys
  <1>3. astray' \subseteq Key
    BY <1>1, AstrayKeys DEF IInv, TypeOK
  <1> QED
    BY <1>1, <1>2, <1>3 DEF IInv, TypeOK, DeliveredNeedsFocus

(* Every step preserves the invariant.                                     *)
LEMMA NextIInv ==
    ASSUME IInv, [Next]_vars
    PROVE  IInv'
  <1>1. CASE FocusGained
    BY <1>1 DEF FocusGained, IInv, TypeOK, DeliveredNeedsFocus, Owed, Kept,
       RemoteKeys, ByScancode
  <1>2. CASE PointerCapture
    BY <1>2 DEF PointerCapture, IInv, TypeOK, DeliveredNeedsFocus, Owed, Kept,
       RemoteKeys, ByScancode
  <1>3. CASE ServiceStarts
    BY <1>3 DEF ServiceStarts, IInv, TypeOK, DeliveredNeedsFocus, Owed, Kept,
       RemoteKeys, ByScancode
  <1>4. CASE UNCHANGED vars
    BY <1>4 DEF vars, IInv, TypeOK, DeliveredNeedsFocus, Owed, Kept,
       RemoteKeys, ByScancode
  <1> QED
    BY <1>1, <1>2, <1>3, <1>4, DownStep, UpStep, LostStep, ShutdownStep,
       PreferencesStep DEF Next

(* The invariant holds in every reachable state.                           *)
THEOREM Inductive == Spec => []IInv
  <1>1. IInv /\ [Next]_vars => IInv'
    BY NextIInv
  <1> QED
    BY <1>1, InitIInv, PTL DEF Spec

----------------------------------------------------------------------------
(* The sets of KeyInterceptor and InputEventSender hold key codes, and     *)
(* what is down at the X server are codes of keys.                         *)
THEOREM TypeCorrect == Spec => []TypeOK
  <1>1. IInv => TypeOK
    BY DEF IInv
  <1> QED
    BY <1>1, Inductive, PTL

(* No key stays down at the X server after its release, wherever the focus *)
(* went in between, unless it went astray.                                 *)
THEOREM KeysAreReleased == Spec => []NoStuckKeys
  <1>1. IInv => NoStuckKeys
    BY DEF IInv, NoStuckKeys, Owed, Kept, RemoteKeys
  <1> QED
    BY <1>1, Inductive, PTL

(* Only keys that are down are remembered as typed, and none of them is    *)
(* also down at the X server, so that no later release is swallowed.       *)
THEOREM TypedKeysAreForgotten == Spec => []TypedKeysAreHeld
  <1>1. IInv => TypedKeysAreHeld
    BY DEF IInv, TypeOK, TypedKeysAreHeld, Owed, Kept
  <1> QED
    BY <1>1, Inductive, PTL

(* Every key down at the X server has someone who will release it, unless  *)
(* it went astray.                                                         *)
THEOREM SomeoneReleases == Spec => []HeldKeysAreTracked
  <1>1. IInv => HeldKeysAreTracked
    BY DEF IInv, HeldKeysAreTracked, Owed, Kept, RemoteKeys
  <1> QED
    BY <1>1, Inductive, PTL
=============================================================================

------------------------------ MODULE KeyInput ------------------------------
(***************************************************************************)
(* A physical key on its way to the X server: KeyInterceptor (when the     *)
(* accessibility service runs), the window (when it has focus), and        *)
(* InputEventSender.sendKeyEvent, which sends text or key events.  Android *)
(* dispatches one event at a time, and cancels the keys a window still     *)
(* holds when the window loses focus.                                      *)
(***************************************************************************)
EXTENDS Naturals, FiniteSets

CONSTANTS
    Key,              \* key codes
    Text,             \* those with a Unicode character
    Ctrl, Win,        \* two modifiers
    Remapped          \* keys whose scan code is another key at the X server

ASSUME KeyAssumption ==
    /\ Text \subseteq Key /\ {Ctrl, Win} \subseteq Key \ Text
    /\ Remapped \subseteq Key

VARIABLES
    phys,              \* keys held down on the keyboard
    focus,             \* the activity's window has focus
    captured,          \* and holds the pointer
    service,           \* the accessibility service runs
    pressedKeys,       \* KeyInterceptor's
    delivered,         \* keys Android will cancel when the focus goes
    prefs,             \* the three preferences below
    mPressedTextKeys,
    remote,            \* codes down at the X server
    astray             \* history: keys something happened to, see Astray

vars == <<phys, focus, captured, service, pressedKeys, delivered, prefs,
          mPressedTextKeys, remote, astray>>

(* A key reaches the X server by its key code, or by a scan code that      *)
(* means another key there.                                                *)
Code == Key \X {"key", "scan"}

Prefs == [preferScancodes : BOOLEAN, filterOutWinKey : BOOLEAN,
          keyCaptureOnlyWhenPointerIntercepted : BOOLEAN]

TypeOK ==
    /\ phys \subseteq Key /\ pressedKeys \subseteq Key
    /\ delivered \subseteq Key /\ mPressedTextKeys \subseteq Key
    /\ remote \subseteq Code /\ astray \subseteq Key
    /\ focus \in BOOLEAN /\ captured \in BOOLEAN
    /\ service \in BOOLEAN /\ prefs \in Prefs

Init ==
    /\ phys = {} /\ pressedKeys = {} /\ delivered = {}
    /\ mPressedTextKeys = {} /\ remote = {} /\ astray = {}
    /\ focus = FALSE /\ captured = FALSE
    /\ service \in BOOLEAN /\ prefs \in Prefs

----------------------------------------------------------------------------
(* The modifiers of an event are those after it.                           *)
NoModifiers(held) == Ctrl \notin held /\ Win \notin held

ByScancode(held) == prefs.preferScancodes \/ ~NoModifiers(held)

CodeOf(k, scan) == <<k, IF scan /\ k \in Remapped THEN "scan" ELSE "key">>

AsText(k, held) == ~prefs.preferScancodes /\ k \in Text /\ NoModifiers(held)

(* Two mutants of SendDown: the set holds characters instead of key codes, *)
(* and the missing return that sends a typed key twice.                    *)
SendDownChar(k, held) ==
    /\ mPressedTextKeys' = mPressedTextKeys \cup {<<"unicode", k>>}
    /\ remote' = remote

SendDownTwice(k, held) ==
    /\ remote' = remote \cup {CodeOf(k, ByScancode(held))}
    /\ mPressedTextKeys' = IF AsText(k, held) THEN mPressedTextKeys \cup {k}
                                              ELSE mPressedTextKeys

(* sendKeyEvent, key down: as text, or as a key.                           *)
SendDown(k, held) ==
    IF AsText(k, held)
    THEN /\ mPressedTextKeys' = mPressedTextKeys \cup {k}
         /\ remote' = remote
    ELSE /\ remote' = remote \cup {CodeOf(k, ByScancode(held))}
         /\ mPressedTextKeys' = mPressedTextKeys

(* sendKeyEvent, key up, for each key of a set: a key that went as text is *)
(* only forgotten.                                                         *)
SendUps(keys, scan) ==
    LET typed == IF prefs.preferScancodes THEN {}
                                          ELSE keys \cap mPressedTextKeys
    IN  /\ mPressedTextKeys' = mPressedTextKeys \ typed
        /\ remote' = remote \ {CodeOf(k, scan) : k \in keys \ typed}

NothingSent == UNCHANGED <<mPressedTextKeys, remote>>

(* Keys that are down at the X server.                                     *)
RemoteKeys == {k \in Key : <<k, "key">> \in remote \/ <<k, "scan">> \in remote}

(* What keeps the release of a key from its press, as long as the key is   *)
(* down at the X server or remembered as typed.  A remapped key may come   *)
(* up under another code once the use of scan codes has changed.           *)
Astray(keys) ==
    LET recoded == IF ByScancode(phys)' # ByScancode(phys) THEN Remapped
                                                           ELSE {}
    IN  astray' = (astray \cup keys \cup recoded)
                      \cap (RemoteKeys' \cup mPressedTextKeys')

(* handleKey returns false: the interceptor lets the event pass.           *)
FilteredOut(k) == prefs.filterOutWinKey /\ (k = Win \/ Win \in phys)

Intercept ==
    service /\ focus
        /\ (prefs.keyCaptureOnlyWhenPointerIntercepted => captured)

(* A mutant of PressedWith, and one of InterceptsUp: the releases of keys  *)
(* pressed before the focus went are not looked for.                       *)
PressedWithout(k) == pressedKeys

InterceptsFocused(k) == Intercept

PressedWith(k) == IF Intercept THEN pressedKeys \cup {k} ELSE pressedKeys

InterceptsUp(k) == service /\ (Intercept \/ k \in pressedKeys)

KeyDown(k) ==
    /\ k \notin phys
    /\ phys' = phys \cup {k}
    /\ LET consumed == Intercept /\ ~FilteredOut(k)
       IN  /\ IF consumed \/ focus THEN SendDown(k, phys \cup {k})
                                   ELSE NothingSent
           /\ delivered' = IF ~consumed /\ focus THEN delivered \cup {k}
                                                 ELSE delivered
    /\ pressedKeys' = PressedWith(k)
    /\ UNCHANGED <<focus, captured, service, prefs>>
    /\ Astray({})

(* A release that the filter of the Windows key drops while another window *)
(* has the focus is seen by nobody.                                        *)
KeyUp(k) ==
    /\ k \in phys
    /\ phys' = phys \ {k}
    /\ LET consumed == InterceptsUp(k) /\ ~FilteredOut(k)
       IN  /\ IF consumed \/ focus
              THEN SendUps({k}, ByScancode(phys \ {k})) ELSE NothingSent
           /\ delivered' = IF ~consumed /\ focus THEN delivered \ {k}
                                                 ELSE delivered
    /\ pressedKeys' = IF service THEN pressedKeys \ {k} ELSE pressedKeys
    /\ UNCHANGED <<focus, captured, service, prefs>>
    /\ Astray(IF InterceptsUp(k) /\ FilteredOut(k) /\ ~focus THEN {k} ELSE {})

----------------------------------------------------------------------------
FocusGained ==
    /\ ~focus
    /\ focus' = TRUE
    /\ UNCHANGED <<phys, captured, service, pressedKeys, delivered, prefs,
                   mPressedTextKeys, remote, astray>>

(* The input dispatcher cancels what it delivered: a key up for each, with *)
(* the modifiers it chooses.                                               *)
FocusLost ==
    /\ focus
    /\ focus' = FALSE /\ captured' = FALSE
    /\ \E scan \in {prefs.preferScancodes, TRUE} : SendUps(delivered, scan)
    /\ delivered' = {}
    /\ UNCHANGED <<phys, service, pressedKeys, prefs>>
    /\ Astray(Remapped \cap delivered)

PointerCapture ==
    /\ focus
    /\ captured' = ~captured
    /\ UNCHANGED <<phys, focus, service, pressedKeys, delivered, prefs,
                   mPressedTextKeys, remote, astray>>

----------------------------------------------------------------------------
(* The keys that were typed, if scan codes are now preferred or no more.   *)
Retyped == IF prefs'.preferScancodes # prefs.preferScancodes
           THEN mPressedTextKeys ELSE {}

(* At any time; it may release the pointer.                                *)
OnPreferencesChanged(new) ==
    /\ prefs' = new
    /\ captured' \in {captured, FALSE}
    /\ UNCHANGED <<phys, focus, service, pressedKeys, delivered,
                   mPressedTextKeys, remote>>
    /\ Astray(Retyped)

ServiceStarts ==
    /\ ~service
    /\ service' = TRUE
    /\ UNCHANGED <<phys, focus, captured, pressedKeys, delivered, prefs,
                   mPressedTextKeys, remote, astray>>

(* From onPreferencesChanged, the screen of preferences, its receiver or   *)
(* the service itself: the keys it held are forgotten.                     *)
Shutdown ==
    /\ service
    /\ service' = FALSE /\ pressedKeys' = {}
    /\ UNCHANGED <<phys, focus, captured, delivered, prefs,
                   mPressedTextKeys, remote>>
    /\ Astray(pressedKeys)

Next ==
    \/ \E k \in Key : KeyDown(k) \/ KeyUp(k)
    \/ FocusGained \/ FocusLost \/ PointerCapture
    \/ \E new \in Prefs : OnPreferencesChanged(new)
    \/ ServiceStarts \/ Shutdown

Spec == Init /\ [][Next]_vars

----------------------------------------------------------------------------
(* "We should send key releases to activity for the case if user was       *)
(* pressing some keys when Activity lost focus": no key stays down at the  *)
(* X server after it is released on the keyboard, unless it went astray.   *)
NoStuckKeys == RemoteKeys \ astray \subseteq phys

(* "Set of pressed keys for which we've sent TextEvent": no key that is up *)
(* is in it, or its next key-up would be swallowed, and no key that also   *)
(* went down at the X server, or its release would be.                     *)
TypedKeysAreHeld ==
    /\ mPressedTextKeys \ astray \subseteq phys
    /\ mPressedTextKeys \cap RemoteKeys \subseteq astray

(* Every key down at the X server has someone who will release it: the     *)
(* interceptor, or Android when the window loses focus.                    *)
HeldKeysAreTracked ==
    \A k \in RemoteKeys \ astray :
        (service /\ k \in pressedKeys) \/ k \in delivered
=============================================================================

----------------------------- MODULE Preferences -----------------------------
(***************************************************************************)
(* The preferences: the broadcast receiver and the screen that change      *)
(* them, and XserverActivity, which works with what it has last read.  All *)
(* of them run on the main looper of one process.                          *)
(***************************************************************************)
EXTENDS Naturals, FiniteSets, Sequences

CONSTANTS
    Key,         \* the preferences, all of them switches
    AutoStart,        \* enableAccessibilityServiceAutomatically
    MaxQueue     \* bound: broadcasts not yet delivered

ASSUME PreferencesAssumption ==
    AutoStart \in Key /\ IsFiniteSet(Key) /\ MaxQueue \in Nat

VARIABLES
    stored,         \* the SharedPreferences
    applied,        \* what XserverActivity has read
    alive,          \* XserverActivity exists
    weakListener,   \* its listener, weakly referenced, was not collected
    queue,          \* ACTION_PREFERENCES_CHANGED, by its extra fromBroadcast
    screen,         \* LoriePreferences: "closed", "listening" or "reloaded"
    service,        \* KeyInterceptor runs
    granted,        \* WRITE_SECURE_SETTINGS
    untold          \* history: changes of which the activity is never told

vars == <<stored, applied, alive, weakListener, queue, screen, service,
          granted, untold>>

Values == [Key -> BOOLEAN]

TypeOK ==
    /\ stored \in Values /\ applied \in Values
    /\ alive \in BOOLEAN /\ weakListener \in BOOLEAN
    /\ queue \in Seq(BOOLEAN) /\ Len(queue) <= MaxQueue
    /\ screen \in {"closed", "listening", "reloaded"}
    /\ service \in BOOLEAN /\ granted \in BOOLEAN /\ untold \subseteq Key

Init ==
    /\ stored \in {v \in Values : ~v[AutoStart]} /\ applied = stored
    /\ alive = FALSE /\ weakListener = FALSE
    /\ queue = <<>> /\ screen = "closed"
    /\ service = FALSE /\ granted \in BOOLEAN /\ untold = {}

----------------------------------------------------------------------------
(* onPreferencesChanged on the values now: it takes back a preference that *)
(* needs a permission, and stops the service where the preference is off.  *)
OnPreferencesChanged(now) ==
    /\ stored' = [now EXCEPT ![AutoStart] = now[AutoStart] /\ granted]
    /\ applied' = stored'
    /\ untold' = {}

StopsService(now) == ~now[AutoStart] /\ granted

(* SharedPreferences tells the listener of the activity of a change, if    *)
(* the listener is still there; shut says whether the caller stops the     *)
(* service itself.                                                         *)
Store(now, shut) ==
    IF weakListener /\ now # stored
    THEN /\ OnPreferencesChanged(now)
         /\ service' = (service /\ ~shut /\ ~StopsService(now))
    ELSE /\ stored' = now
         /\ service' = (service /\ ~shut)
         /\ UNCHANGED <<applied, untold>>

XserverOnCreate ==
    /\ ~alive
    /\ alive' = TRUE /\ weakListener' = TRUE
    /\ OnPreferencesChanged(stored)
    /\ service' = (service /\ ~StopsService(stored))
    /\ UNCHANGED <<queue, screen, granted>>

(* Its listener is not unregistered, and goes on until it is collected.    *)
XserverOnDestroy ==
    /\ alive
    /\ alive' = FALSE
    /\ UNCHANGED <<stored, applied, weakListener, queue, screen, service,
                   granted, untold>>

GarbageCollection ==
    /\ weakListener
    /\ weakListener' = FALSE
    /\ UNCHANGED <<stored, applied, alive, queue, screen, service, granted,
                   untold>>

----------------------------------------------------------------------------
(* The receiver of CHANGE_PREFERENCE: every key is announced, then all of  *)
(* them are committed.                                                     *)
Announced(n) == queue \o [i \in 1..n |-> TRUE]

Shuts(changes) == AutoStart \in DOMAIN changes /\ ~changes[AutoStart]

(* A mutant of Changed, which commits the new values alone.                *)
ChangedOnly(changes) == changes

Changed(changes) ==
    [k \in Key |-> IF k \in DOMAIN changes THEN changes[k] ELSE stored[k]]

(* A mutant of Accepts, which does not ask for the permission.             *)
AcceptsUngranted(changes) ==
    /\ DOMAIN changes # {}
    /\ Len(queue) + Cardinality(DOMAIN changes) <= MaxQueue

Accepts(changes) ==
    /\ DOMAIN changes # {}
    /\ Len(queue) + Cardinality(DOMAIN changes) <= MaxQueue
    /\ AutoStart \in DOMAIN changes /\ changes[AutoStart] => granted

(* A mutant of CommitsAll, which leaves it to the listener to hear of it.  *)
CommitsAllUnannounced(changes) ==
    /\ Accepts(changes)
    /\ Store(Changed(changes), Shuts(changes))
    /\ UNCHANGED <<queue, alive, weakListener, screen, granted>>

CommitsAll(changes) ==
    /\ Accepts(changes)
    /\ queue' = Announced(Cardinality(DOMAIN changes))
    /\ Store(Changed(changes), Shuts(changes))
    /\ UNCHANGED <<alive, weakListener, screen, granted>>

(* A bad value or key returns at once: keys before it have been announced, *)
(* the service may have been stopped, and nothing is committed.            *)
RejectsAfter(changes) ==
    /\ DOMAIN changes = {} \/ Accepts(changes)
    /\ queue' = Announced(Cardinality(DOMAIN changes))
    /\ service' = (service /\ ~Shuts(changes))
    /\ UNCHANGED <<stored, applied, alive, weakListener, screen, granted,
                   untold>>

ChangePreference ==
    \E keys \in SUBSET Key : \E changes \in [keys -> BOOLEAN] :
        CommitsAll(changes) \/ RejectsAfter(changes)

----------------------------------------------------------------------------
(* The screen of preferences.                                              *)
OpenScreen ==
    /\ screen = "closed"
    /\ screen' = "listening"
    /\ UNCHANGED <<stored, applied, alive, weakListener, queue, service,
                   granted, untold>>

CloseScreen ==
    /\ screen # "closed"
    /\ screen' = "closed"
    /\ UNCHANGED <<stored, applied, alive, weakListener, queue, service,
                   granted, untold>>

(* onPreferenceChange: the service is stopped even if the change is        *)
(* refused, which it is, on or off, without the permission.                *)
PreferenceChange(k) ==
    LET off == k = AutoStart /\ stored[AutoStart] IN
    /\ screen = "listening"
    /\ \/ /\ k # AutoStart \/ granted
          /\ Len(queue) < MaxQueue
          /\ queue' = Append(queue, FALSE)
          /\ Store([stored EXCEPT ![k] = ~@], off)
       \/ /\ k = AutoStart /\ ~granted
          /\ service' = (service /\ ~off)
          /\ UNCHANGED <<stored, applied, queue, untold>>
    /\ UNCHANGED <<alive, weakListener, screen, granted>>

(* After a reload no item of the screen has a listener: a change is stored *)
(* as it is, and nobody announces it.                                      *)
ChangeUnheard(k) ==
    /\ screen = "reloaded"
    /\ \/ /\ weakListener
          /\ Store([stored EXCEPT ![k] = ~@], FALSE)
       \/ /\ ~weakListener
          /\ stored' = [stored EXCEPT ![k] = ~@]
          /\ untold' = untold \cup {k}
          /\ UNCHANGED <<applied, service>>
    /\ UNCHANGED <<alive, weakListener, queue, screen, granted>>

(* A mutant of Deliver, which takes it that a broadcast of the screen was  *)
(* heard by the listener.                                                  *)
DeliverForeign ==
    /\ queue # <<>>
    /\ queue' = Tail(queue)
    /\ \/ /\ alive /\ Head(queue)
          /\ OnPreferencesChanged(stored)
          /\ service' = (service /\ ~StopsService(stored))
       \/ /\ ~(alive /\ Head(queue))
          /\ UNCHANGED <<stored, applied, service, untold>>
    /\ \/ screen' = screen
       \/ screen = "listening" /\ Head(queue) /\ screen' = "reloaded"
    /\ UNCHANGED <<alive, weakListener, granted>>

(* A broadcast, at the activity, and at the screen if that is resumed.     *)
Deliver ==
    /\ queue # <<>>
    /\ queue' = Tail(queue)
    /\ \/ /\ alive
          /\ OnPreferencesChanged(stored)
          /\ service' = (service /\ ~StopsService(stored))
       \/ ~alive /\ UNCHANGED <<stored, applied, service, untold>>
    /\ \/ screen' = screen
       \/ screen = "listening" /\ Head(queue) /\ screen' = "reloaded"
    /\ UNCHANGED <<alive, weakListener, granted>>

----------------------------------------------------------------------------
(* Outside: the user starts the service, or grants the permission.         *)
ServiceStarts ==
    /\ ~service
    /\ service' = TRUE
    /\ UNCHANGED <<stored, applied, alive, weakListener, queue, screen,
                   granted, untold>>

Grant ==
    /\ ~granted
    /\ granted' = TRUE
    /\ UNCHANGED <<stored, applied, alive, weakListener, queue, screen,
                   service, untold>>

Next ==
    \/ XserverOnCreate \/ XserverOnDestroy \/ GarbageCollection
    \/ ChangePreference \/ OpenScreen \/ CloseScreen
    \/ \E k \in Key : PreferenceChange(k) \/ ChangeUnheard(k)
    \/ Deliver \/ ServiceStarts \/ Grant

Spec == Init /\ [][Next]_vars /\ WF_vars(Deliver)

----------------------------------------------------------------------------
(* The activity works with the stored values once all broadcasts are in,   *)
(* although they are sent before the commit, and whether or not its        *)
(* listener was collected; but for what a reloaded screen has changed.     *)
SettingsAreCurrent ==
    alive /\ queue = <<>> =>
        \A k \in Key \ untold : applied[k] = stored[k]

(* No path stores a preference that needs the permission without it, but   *)
(* for the reloaded screen, which does not ask.                            *)
AutoNeedsGrant == stored[AutoStart] /\ ~granted => AutoStart \in untold

(* A stored change reaches the activity as long as it lives.               *)
ChangesArrive ==
    \A k \in Key :
        (alive /\ k \notin untold /\ applied[k] # stored[k])
            ~> (~alive \/ applied[k] = stored[k] \/ k \in untold)
=============================================================================

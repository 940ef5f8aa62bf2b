-------------------------- MODULE PreferencesProofs --------------------------
(***************************************************************************)
(* Proofs about Preferences, for any finite set of preferences and any     *)
(* queue.  Both properties are inductive next to the types: a commit never *)
(* leaves the queue empty, since every key of it was announced, and every  *)
(* way to store the preference that needs a permission asks for it.        *)
(***************************************************************************)
EXTENDS Preferences, FiniteSetTheorems, TLAPS

IInv == TypeOK /\ SettingsAreCurrent /\ AutoNeedsGrant

USE PreferencesAssumption DEF PreferencesAssumption

(* The activity does not exist, and the preference is off.                 *)
LEMMA InitInv == Init => IInv
  <1> SUFFICES ASSUME Init PROVE IInv
    OBVIOUS
  <1>1. stored \in Values /\ ~stored[AutoStart] /\ applied = stored
    BY DEF Init
  <1>2. TypeOK
    <2>1. queue \in Seq(BOOLEAN) /\ Len(queue) <= MaxQueue
      BY DEF Init
    <2>2. /\ screen \in {"closed", "listening", "reloaded"}
          /\ untold \subseteq Key
      BY DEF Init
    <2>3. /\ alive \in BOOLEAN /\ weakListener \in BOOLEAN
          /\ service \in BOOLEAN /\ granted \in BOOLEAN
      BY DEF Init
    <2> QED
      BY <1>1, <2>1, <2>2, <2>3 DEF TypeOK
  <1>3. SettingsAreCurrent
    BY DEF Init, SettingsAreCurrent
  <1>4. AutoNeedsGrant
    BY <1>1 DEF AutoNeedsGrant
  <1> QED
    BY <1>2, <1>3, <1>4 DEF IInv

(* What an announcement makes of the queue.                                *)
LEMMA AnnouncedQueue ==
    ASSUME NEW n \in Nat, queue \in Seq(BOOLEAN), Len(queue) + n <= MaxQueue
    PROVE  /\ Announced(n) \in Seq(BOOLEAN)
           /\ Len(Announced(n)) <= MaxQueue
           /\ n > 0 => Announced(n) # <<>>
           /\ n = 0 => Announced(n) = queue
  <1> DEFINE new == [i \in 1..n |-> TRUE]
  <1>1. new \in Seq(BOOLEAN) /\ Len(new) = n
    OBVIOUS
  <1>2. Announced(n) = queue \o new
    BY DEF Announced
  <1> HIDE DEF new
  <1>3. /\ queue \o new \in Seq(BOOLEAN)
        /\ Len(queue \o new) = Len(queue) + n
    BY <1>1
  <1>4. n = 0 => queue \o new = queue
    BY <1>1
  <1> QED
    BY <1>2, <1>3, <1>4

(* One broadcast more, and one less.                                       *)
LEMMA QueueEnds ==
    ASSUME queue \in Seq(BOOLEAN), NEW b \in BOOLEAN
    PROVE  /\ Append(queue, b) \in Seq(BOOLEAN)
           /\ Append(queue, b) # <<>>
           /\ Len(Append(queue, b)) = Len(queue) + 1
           /\ queue # <<>> => /\ Tail(queue) \in Seq(BOOLEAN)
                             /\ Len(Tail(queue)) <= Len(queue)
  <1>1. Append(queue, b) \in Seq(BOOLEAN)
    OBVIOUS
  <1>2. /\ Len(Append(queue, b)) = Len(queue) + 1
        /\ Append(queue, b) # <<>>
    OBVIOUS
  <1>3. queue # <<>> => Tail(queue) \in Seq(BOOLEAN)
    OBVIOUS
  <1>4. queue # <<>> => Len(Tail(queue)) <= Len(queue)
    OBVIOUS
  <1> QED
    BY <1>1, <1>2, <1>3, <1>4

(* What a read of the preferences leaves: the activity has the stored      *)
(* values, and none of them needs a permission that is missing.            *)
LEMMA ReadIsCurrent ==
    ASSUME NEW now \in Values, granted \in BOOLEAN, OnPreferencesChanged(now)
    PROVE  /\ stored' \in Values /\ applied' = stored' /\ untold' = {}
           /\ stored'[AutoStart] => granted
  BY DEF OnPreferencesChanged, Values

(* What storing new values does, whether or not the listener is there.     *)
LEMMA StoreOutcome ==
    ASSUME TypeOK, NEW now \in Values, NEW shut \in BOOLEAN, Store(now, shut)
    PROVE  /\ stored' \in Values /\ applied' \in Values
           /\ untold' \subseteq untold /\ service' \in BOOLEAN
           /\ \/ /\ applied' = stored' /\ untold' = {}
                 /\ stored'[AutoStart] => granted
              \/ /\ stored' = now /\ UNCHANGED <<applied, untold>>
                 /\ ~weakListener \/ now = stored
  <1>1. CASE weakListener /\ now # stored
    <2>1. OnPreferencesChanged(now)
      BY <1>1 DEF Store
    <2>2. service' = (service /\ ~shut /\ ~StopsService(now))
      BY <1>1 DEF Store
    <2>3. service' \in BOOLEAN
      BY <2>2, Zenon DEF TypeOK
    <2> QED
      BY <2>1, <2>3, ReadIsCurrent DEF TypeOK
  <1>2. CASE ~(weakListener /\ now # stored)
    <2>1. /\ stored' = now /\ UNCHANGED <<applied, untold>>
          /\ service' = (service /\ ~shut)
      BY <1>2 DEF Store
    <2>2. service' \in BOOLEAN
      BY <2>1, Zenon DEF TypeOK
    <2> QED
      BY <1>2, <2>1, <2>2 DEF TypeOK
  <1> QED
    BY <1>1, <1>2

----------------------------------------------------------------------------
(* The broadcast receiver changes some preferences, or turns them down.    *)
LEMMA CommitStep ==
    ASSUME IInv, NEW keys \in SUBSET Key, NEW changes \in [keys -> BOOLEAN],
           CommitsAll(changes)
    PROVE  IInv'
  <1> DEFINE n == Cardinality(DOMAIN changes)
  <1>1. IsFiniteSet(keys)
    BY FS_Subset
  <1>2. n \in Nat /\ n > 0
    BY <1>1, FS_CardinalityType, FS_EmptySet DEF CommitsAll, Accepts
  <1>3. queue' \in Seq(BOOLEAN) /\ Len(queue') <= MaxQueue /\ queue' # <<>>
    BY <1>2, AnnouncedQueue DEF CommitsAll, Accepts, IInv, TypeOK
  <1>4. Changed(changes) \in Values
    BY DEF Changed, IInv, TypeOK, Values
  <1>5. Shuts(changes) \in BOOLEAN
    BY DEF Shuts
  <1>6. Changed(changes)[AutoStart] /\ ~granted => stored[AutoStart]
    BY DEF Changed, CommitsAll, Accepts
  <1>7. Store(Changed(changes), Shuts(changes))
        /\ UNCHANGED <<alive, weakListener, screen, granted>>
    BY DEF CommitsAll
  <1>8. TypeOK'
    BY <1>3, <1>4, <1>5, <1>7, StoreOutcome DEF IInv, TypeOK
  <1>9. AutoNeedsGrant'
    BY <1>4, <1>5, <1>6, <1>7, StoreOutcome DEF IInv, AutoNeedsGrant
  <1> QED
    BY <1>3, <1>8, <1>9 DEF IInv, SettingsAreCurrent

LEMMA RejectStep ==
    ASSUME IInv, NEW keys \in SUBSET Key, NEW changes \in [keys -> BOOLEAN],
           RejectsAfter(changes)
    PROVE  IInv'
  <1> DEFINE n == Cardinality(DOMAIN changes)
  <1>1. n \in Nat /\ (n = 0 => keys = {})
    BY FS_Subset, FS_CardinalityType, FS_EmptySet
  <1>2. Len(queue) + n <= MaxQueue
    BY <1>1, FS_EmptySet DEF RejectsAfter, Accepts, IInv, TypeOK
  <1>3. /\ queue' \in Seq(BOOLEAN) /\ Len(queue') <= MaxQueue
        /\ n > 0 => queue' # <<>>
    BY <1>1, <1>2, AnnouncedQueue DEF RejectsAfter, IInv, TypeOK
  <1>4. n = 0 => queue' = queue
    BY <1>1, <1>2, AnnouncedQueue DEF RejectsAfter, IInv, TypeOK
  <1>5. service' \in BOOLEAN
    <2>1. service' = (service /\ ~Shuts(changes))
      BY DEF RejectsAfter
    <2> QED
      BY <2>1, Zenon DEF IInv, TypeOK
  <1>6. UNCHANGED <<stored, applied, alive, weakListener, screen, granted,
                    untold>>
    BY DEF RejectsAfter
  <1> QED
    BY <1>1, <1>3, <1>4, <1>5, <1>6
       DEF IInv, TypeOK, SettingsAreCurrent, AutoNeedsGrant

(* A switch of the screen, heard by its listener or after a reload.        *)
LEMMA ScreenStep ==
    ASSUME IInv, NEW k \in Key, PreferenceChange(k) \/ ChangeUnheard(k)
    PROVE  IInv'
  <1> DEFINE now == [stored EXCEPT ![k] = ~@]
             off == k = AutoStart /\ stored[AutoStart]
  <1>1. now \in Values /\ now # stored /\ off \in BOOLEAN
    BY DEF IInv, TypeOK, Values
  <1>2. k # AutoStart => now[AutoStart] = stored[AutoStart]
    BY DEF IInv, TypeOK, Values
  <1>3. UNCHANGED <<alive, weakListener, screen, granted>>
    BY DEF PreferenceChange, ChangeUnheard
  <1>4. CASE /\ k # AutoStart \/ granted
             /\ Len(queue) < MaxQueue /\ queue' = Append(queue, FALSE)
             /\ Store(now, off)
    <2>1. queue' \in Seq(BOOLEAN) /\ Len(queue') <= MaxQueue /\ queue' # <<>>
      <3>1. queue \in Seq(BOOLEAN) /\ Len(queue) \in Nat
        BY DEF IInv, TypeOK
      <3> QED
        <4>1. /\ Append(queue, FALSE) \in Seq(BOOLEAN)
              /\ Append(queue, FALSE) # <<>>
              /\ Len(Append(queue, FALSE)) = Len(queue) + 1
          BY <3>1, QueueEnds
        <4>2. queue' = Append(queue, FALSE) /\ Len(queue) + 1 <= MaxQueue
          BY <1>4, <3>1
        <4> QED
          BY <4>1, <4>2, <3>1
    <2>2. TypeOK'
      BY <1>1, <1>3, <1>4, <2>1, StoreOutcome DEF IInv, TypeOK
    <2>3. AutoNeedsGrant'
      BY <1>1, <1>2, <1>3, <1>4, StoreOutcome DEF IInv, AutoNeedsGrant
    <2> QED
      BY <2>1, <2>2, <2>3 DEF IInv, SettingsAreCurrent
  <1>5. CASE /\ service' = (service /\ ~off)
             /\ UNCHANGED <<stored, applied, queue, untold>>
    <2>1. service' \in BOOLEAN
      BY <1>5, Zenon DEF IInv, TypeOK
    <2> QED
      BY <1>3, <1>5, <2>1 DEF IInv, TypeOK, SettingsAreCurrent, AutoNeedsGrant
  <1>6. CASE weakListener /\ Store(now, FALSE) /\ queue' = queue
    BY <1>1, <1>3, <1>6, StoreOutcome
       DEF IInv, TypeOK, SettingsAreCurrent, AutoNeedsGrant
  <1>7. CASE /\ stored' = now /\ untold' = untold \cup {k}
             /\ UNCHANGED <<applied, service, queue>>
    BY <1>1, <1>2, <1>3, <1>7
       DEF IInv, TypeOK, SettingsAreCurrent, AutoNeedsGrant, Values
  <1> QED
    BY <1>4, <1>5, <1>6, <1>7 DEF PreferenceChange, ChangeUnheard

----------------------------------------------------------------------------
(* The activity is made, or a broadcast is delivered to it.                *)
LEMMA ReadStep ==
    ASSUME IInv, XserverOnCreate \/ Deliver
    PROVE  IInv'
  <1>1. /\ queue' \in Seq(BOOLEAN) /\ Len(queue') <= MaxQueue
        /\ screen' \in {"closed", "listening", "reloaded"}
        /\ alive' \in BOOLEAN /\ weakListener' \in BOOLEAN
        /\ granted' = granted
    <2>1. /\ queue \in Seq(BOOLEAN) /\ Len(queue) \in Nat
          /\ Len(queue) <= MaxQueue
      BY DEF IInv, TypeOK
    <2>2. CASE XserverOnCreate
      BY <2>1, <2>2 DEF XserverOnCreate, IInv, TypeOK
    <2>3. CASE Deliver
      <3>1. queue # <<>> /\ queue' = Tail(queue)
        BY <2>3 DEF Deliver
      <3>2. queue' \in Seq(BOOLEAN) /\ Len(queue') <= MaxQueue
        BY <2>1, <3>1, QueueEnds
      <3> QED
        BY <2>3, <3>2 DEF Deliver, IInv, TypeOK
    <2> QED
      BY <2>2, <2>3
  <1>2. CASE /\ OnPreferencesChanged(stored)
             /\ service' = (service /\ ~StopsService(stored))
    <2>1. service' \in BOOLEAN
      BY <1>2, Zenon DEF IInv, TypeOK
    <2> QED
      BY <1>1, <1>2, <2>1, ReadIsCurrent
         DEF IInv, TypeOK, SettingsAreCurrent, AutoNeedsGrant
  <1>3. CASE ~alive' /\ UNCHANGED <<stored, applied, service, untold>>
    BY <1>1, <1>3 DEF IInv, TypeOK, SettingsAreCurrent, AutoNeedsGrant
  <1>4. CASE XserverOnCreate
    BY <1>2, <1>4, Zenon DEF XserverOnCreate
  <1>5. CASE Deliver
    <2>1. CASE alive
      BY <1>2, <1>5, <2>1, Zenon DEF Deliver
    <2>2. CASE ~alive
      BY <1>3, <1>5, <2>2, Zenon DEF Deliver
    <2> QED
      BY <2>1, <2>2
  <1> QED
    BY <1>4, <1>5

(* Every step preserves the invariant.                                     *)
LEMMA NextInv ==
    ASSUME IInv, [Next]_vars
    PROVE  IInv'
  <1> USE DEF IInv, TypeOK, SettingsAreCurrent, AutoNeedsGrant
  <1>1. CASE XserverOnCreate \/ Deliver
    BY <1>1, ReadStep
  <1>2. CASE XserverOnDestroy
    BY <1>2 DEF XserverOnDestroy
  <1>3. CASE GarbageCollection
    BY <1>3 DEF GarbageCollection
  <1>4. CASE ChangePreference
    BY <1>4, CommitStep, RejectStep DEF ChangePreference
  <1>5. CASE OpenScreen
    BY <1>5 DEF OpenScreen
  <1>6. CASE CloseScreen
    BY <1>6 DEF CloseScreen
  <1>7. ASSUME NEW k \in Key, PreferenceChange(k) \/ ChangeUnheard(k)
        PROVE  IInv'
    BY <1>7, ScreenStep
  <1>8. CASE ServiceStarts
    BY <1>8 DEF ServiceStarts
  <1>9. CASE Grant
    BY <1>9 DEF Grant
  <1>10. CASE UNCHANGED vars
    BY <1>10 DEF vars
  <1> QED
    BY <1>1, <1>2, <1>3, <1>4, <1>5, <1>6, <1>7, <1>8, <1>9, <1>10 DEF Next

(* The invariant holds in every reachable state.                           *)
LEMMA Inductive == Spec => []IInv
  <1>1. IInv /\ [Next]_vars => IInv'
    BY NextInv
  <1> QED
    BY <1>1, InitInv, PTL DEF Spec

----------------------------------------------------------------------------
(* Settings are switches, and the queue keeps to its bound.                *)
THEOREM TypeCorrect == Spec => []TypeOK
  <1>1. IInv => TypeOK
    BY DEF IInv
  <1> QED
    BY <1>1, Inductive, PTL

(* With no broadcast left, the activity works with what is stored.         *)
THEOREM ActivityIsCurrent == Spec => []SettingsAreCurrent
  <1>1. IInv => SettingsAreCurrent
    BY DEF IInv
  <1> QED
    BY <1>1, Inductive, PTL

(* Without the permission, only a reloaded screen has stored the           *)
(* preference that needs it.                                               *)
THEOREM PermissionIsAsked == Spec => []AutoNeedsGrant
  <1>1. IInv => AutoNeedsGrant
    BY DEF IInv
  <1> QED
    BY <1>1, Inductive, PTL
=============================================================================

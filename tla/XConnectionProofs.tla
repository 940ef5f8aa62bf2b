-------------------------- MODULE XConnectionProofs --------------------------
(***************************************************************************)
(* Safety of XConnection for any set of servers, any bounds, and with or   *)
(* without prompt death notifications.                                     *)
(***************************************************************************)
EXTENDS XConnection, TLAPS

(* The app only knows servers that were started.                           *)
KnownWereStarted ==
    /\ service # None => life[service] # "new"
    /\ connTo # None => life[connTo] # "new"
    /\ \A i \in 1..Len(starts) : life[starts[i]] # "new"

(* Past linkToDeath, a live server the app holds has a death recipient.    *)
HeldIsLinked ==
    Live(service) /\ uiPc # "link" => links[service] > 0

(* The death recipient of the connected server, or what follows from it,   *)
(* is still to come; from the moment its socket is attached.               *)
Attached == connected \/ (uiPc \in {"check", "call"} /\ after = "connect")

AttachedIsWatched ==
    Attached => /\ connTo \in Server
                /\ links[connTo] > 0 \/ unposted > 0 \/ disc > 0

(* Where the UI thread can be, and what it returns to.                     *)
ContextMatches ==
    /\ uiPc \in {"check", "call"} <=> after # "none"
    /\ after = "connected" => connected
    /\ after = "connect" => ~connected
    /\ uiPc = "get" => ~connected

(* NoLostWakeup, kept while the surface callback runs between messages.    *)
Wakeup ==
    (uiPc = "idle" \/ after = "surface") /\ ~connected /\ Live(service)
        => retries > 0

(* Broadcasts arrive in order, and servers run one after the other: once a *)
(* live server was heard of, nothing but its own announcements can come.   *)
OneLive == \A s, t \in Server : life[s] = "live" /\ life[t] = "live" => s = t

Fifo ==
    \A i, j \in 1..Len(starts) :
        i < j /\ life[starts[i]] = "live" => starts[j] = starts[i]

NothingOlder(s) ==
    Live(s) => \A i \in 1..Len(starts) : starts[i] = s

OrderInv ==
    /\ KnownWereStarted
    /\ OneLive
    /\ Fifo
    /\ NothingOlder(service)
    /\ NothingOlder(connTo)
    /\ Live(connTo) => service \in {None, connTo}

(* A recipient that takes the binder of the connected server leaves its    *)
(* disconnection behind.                                                   *)
NoticePending == unposted > 0 \/ disc > 0

ConnectedIsHeld ==
    Attached /\ Live(connTo) => service = connTo \/ NoticePending

(* WindowIsCurrent, at every step of the UI thread but those of a surface  *)
(* callback.                                                               *)
SurfaceSent ==
    after = "none" /\ connected /\ service = connTo /\ Live(connTo)
        => window[connTo] = surface \/ NoticePending

IInv == /\ TypeOK
        /\ OrderInv
        /\ ConnectedIsHeld
        /\ SurfaceSent
        /\ HeldIsLinked
        /\ AttachedIsWatched
        /\ ContextMatches
        /\ Wakeup

----------------------------------------------------------------------------
(* The values of the state stay in their sets.                             *)
LEMMA TypeStep == TypeOK /\ [Next]_vars => TypeOK'
<1> SUFFICES ASSUME TypeOK, [Next]_vars PROVE TypeOK'
  OBVIOUS
<1> USE DEF TypeOK, UiPcs, Contexts, server, ui, death, Live
<1>1. ASSUME NEW s \in Server, StartServer(s) PROVE TypeOK'
  BY <1>1 DEF StartServer
<1>2. ASSUME NEW s \in Server, ServerDies(s) PROVE TypeOK'
  BY <1>2 DEF ServerDies
<1>3. ASSUME NEW s \in Server, NEW outcome \in {"bound", "failed"},
             BindPort(s, outcome)
      PROVE TypeOK'
  BY <1>3 DEF BindPort
<1>4. ASSUME NEW s \in Server, SendBroadcastDelayed(s) PROVE TypeOK'
  BY <1>4 DEF SendBroadcastDelayed, SendBroadcast
<1>5. ASSUME NEW s \in Server, RequestAccepted(s) PROVE TypeOK'
  BY <1>5 DEF RequestAccepted, SendBroadcast
<1>6. ASSUME NEW s \in Server, DeathRecipient(s) PROVE TypeOK'
  BY <1>6 DEF DeathRecipient
<1>7. CASE RequestRefused
  BY <1>7 DEF RequestRefused
<1>8. CASE DeathPosts
  BY <1>8 DEF DeathPosts
<1>9. CASE OnReceive
  BY <1>9 DEF OnReceive
<1>10. CASE Retry
  BY <1>10 DEF Retry
<1>11. CASE Disconnected
  <2>1. connected' \in BOOLEAN
    BY <1>11 DEF Disconnected
  <2> QED
    BY <1>11, <2>1 DEF Disconnected
<1>12. CASE SurfaceChanged
  BY <1>12 DEF SurfaceChanged
<1>13. CASE GetXConnection
  BY <1>13 DEF GetXConnection
<1>14. CASE GetXConnectionNull
  BY <1>14 DEF GetXConnectionNull
<1>15. CASE LinkToDeath
  BY <1>15 DEF LinkToDeath
<1>16. CASE IsBinderAlive
  BY <1>16 DEF IsBinderAlive
<1>17. CASE GetLogcatOutput
  BY <1>17 DEF GetLogcatOutput
<1>18. CASE TryConnect
  BY <1>18 DEF TryConnect
<1>19. CASE GetXConnectionThrows
  BY <1>19 DEF GetXConnectionThrows
<1>20. CASE CheckService
  BY <1>20 DEF CheckService, CallbackReturns
<1>21. CASE WindowChanged
  BY <1>21 DEF WindowChanged, CallbackReturns
<1>22. CASE WindowChangedThrows
  BY <1>22 DEF WindowChangedThrows
<1>23. CASE UNCHANGED vars
  BY <1>23 DEF vars
<1> QED
  BY <1>1, <1>2, <1>3, <1>4, <1>5, <1>6, <1>7, <1>8, <1>9, <1>10, <1>11,
     <1>12, <1>13, <1>14, <1>15, <1>16, <1>17, <1>18, <1>19, <1>20, <1>21,
     <1>22, <1>23
  DEF Next, UiStep

(* At the start nothing is in flight.                                     *)
LEMMA OrderInit == Init => OrderInv
  BY DEF Init, OrderInv, KnownWereStarted, OneLive, Fifo, NothingOlder, Live

(* What is left of a queue once its head is taken.                         *)
LEMMA TailElements ==
  ASSUME NEW S, NEW q \in Seq(S), q # <<>>
  PROVE  /\ 1 \in 1..Len(q)
         /\ \A i \in 1..Len(Tail(q)) : /\ i + 1 \in 1..Len(q) /\ 1 < i + 1
                                      /\ Tail(q)[i] = q[i + 1]
  OBVIOUS

(* One live server, and a queue that ends with it.                         *)
LEMMA OrderStep == TypeOK /\ OrderInv /\ [Next]_vars => OrderInv'
<1> SUFFICES ASSUME TypeOK, OrderInv, [Next]_vars PROVE OrderInv'
  OBVIOUS
<1> USE DEF TypeOK, OrderInv, KnownWereStarted, OneLive, Fifo, NothingOlder,
            Live, server, death, ui
<1>1. ASSUME NEW s \in Server, StartServer(s) PROVE OrderInv'
  <2>1. /\ \A t \in Server : life'[t] = "live" => t = s
        /\ \A t \in Server : life[t] # "new" => t # s /\ life'[t] = life[t]
        /\ UNCHANGED <<starts, service, connTo>>
    BY <1>1 DEF StartServer
  <2>2. \A i \in 1..Len(starts) : starts[i] # s
    <3>1. TAKE i \in 1..Len(starts)
    <3>2. starts[i] \in Server
      OBVIOUS
    <3> QED
      BY <2>1, <3>2
  <2>3. service # s /\ connTo # s
    BY <2>1, NoneAssumption
  <2>4. KnownWereStarted'
    BY <2>1, <2>2
  <2> QED
    BY <2>1, <2>2, <2>3, <2>4
<1>2. ASSUME NEW s \in Server, ServerDies(s) PROVE OrderInv'
  BY <1>2 DEF ServerDies
<1>3. ASSUME NEW s \in Server, life[s] = "live", SendBroadcast(s),
             UNCHANGED <<life, service, connTo>>
      PROVE OrderInv'
  BY <1>3 DEF SendBroadcast
<1>4. ASSUME NEW s \in Server, DeathRecipient(s) PROVE OrderInv'
  BY <1>4 DEF DeathRecipient
<1>5. CASE OnReceive
  <2>1. /\ starts' = Tail(starts) /\ starts # <<>> /\ service' = starts[1]
        /\ UNCHANGED <<life, connTo>>
    BY <1>5 DEF OnReceive
  <2>2. /\ 1 \in 1..Len(starts)
        /\ \A i \in 1..Len(starts') : /\ i + 1 \in 1..Len(starts) /\ 1 < i + 1
                                     /\ starts'[i] = starts[i + 1]
    BY <2>1, TailElements
  <2>3. service' \in Server
    BY <2>1, <2>2
  <2>4. KnownWereStarted'
    <3>1. life'[service'] # "new"
      BY <2>1, <2>2
    <3> QED
      BY <2>1, <2>2, <3>1
  <2>5. OneLive'
    BY <2>1
  <2>6. Fifo'
    <3>1. SUFFICES ASSUME NEW i \in 1..Len(starts'), NEW j \in 1..Len(starts'),
                          i < j, life'[starts'[i]] = "live"
                   PROVE starts'[j] = starts'[i]
      BY DEF Fifo
    <3>2. i + 1 < j + 1
      BY <3>1
    <3> QED
      BY <2>1, <2>2, <3>1, <3>2 DEF Fifo
  <2>7. NothingOlder(service)'
    BY <2>1, <2>2, <2>3
  <2>8. NothingOlder(connTo)' /\ (Live(connTo) => service \in {None, connTo})'
    BY <2>1, <2>2, <2>3
  <2> QED
    BY <2>4, <2>5, <2>6, <2>7, <2>8
<1>6. CASE GetXConnection
  BY <1>6 DEF GetXConnection
<1>7. CASE GetXConnectionThrows
  BY <1>7 DEF GetXConnectionThrows
<1>8. CASE UNCHANGED <<life, starts, service, connTo>>
  BY <1>8
<1> QED
  BY <1>1, <1>2, <1>3, <1>4, <1>5, <1>6, <1>7, <1>8
  DEF Next, UiStep, BindPort, SendBroadcastDelayed, RequestAccepted,
      RequestRefused, DeathPosts, Retry, Disconnected, SurfaceChanged,
      GetXConnectionNull, LinkToDeath, IsBinderAlive, GetLogcatOutput,
      TryConnect, CheckService, WindowChanged, WindowChangedThrows, vars

(* linkToDeath is never skipped for a binder that stays in `service`.       *)
LEMMA LinkedStep ==
    ASSUME TypeOK, KnownWereStarted, HeldIsLinked, [Next]_vars
    PROVE  HeldIsLinked'
<1> USE DEF TypeOK, Live, KnownWereStarted, HeldIsLinked, server, ui, death
<1>1. ASSUME NEW s \in Server, StartServer(s) PROVE HeldIsLinked'
  BY <1>1 DEF StartServer
<1>2. ASSUME NEW s \in Server, ServerDies(s) PROVE HeldIsLinked'
  BY <1>2 DEF ServerDies
<1>3. ASSUME NEW s \in Server, DeathRecipient(s) PROVE HeldIsLinked'
  BY <1>3 DEF DeathRecipient
<1>4. CASE OnReceive
  BY <1>4 DEF OnReceive
<1>5. CASE LinkToDeath
  BY <1>5 DEF LinkToDeath
<1>6. CASE GetXConnectionThrows
  BY <1>6 DEF GetXConnectionThrows
<1>7. CASE UNCHANGED <<life, service, links>> /\ (uiPc = "link" => uiPc' = uiPc)
  BY <1>7
<1> QED
  BY <1>1, <1>2, <1>3, <1>4, <1>5, <1>6, <1>7
  DEF Next, UiStep, vars, BindPort, SendBroadcastDelayed, SendBroadcast,
      RequestAccepted, RequestRefused, DeathPosts, Retry, Disconnected,
      SurfaceChanged, GetXConnection, GetXConnectionNull, IsBinderAlive,
      GetLogcatOutput, TryConnect, CheckService, WindowChanged,
      WindowChangedThrows, CallbackReturns

(* The flow of the UI thread.                                              *)
LEMMA ContextStep == TypeOK /\ ContextMatches /\ [Next]_vars => ContextMatches'
<1> SUFFICES ASSUME TypeOK, ContextMatches, [Next]_vars PROVE ContextMatches'
  OBVIOUS
<1> USE DEF TypeOK, UiPcs, Contexts, ContextMatches, server, ui, death
<1>1. CASE OnReceive
  BY <1>1 DEF OnReceive
<1>2. CASE Retry
  BY <1>2 DEF Retry
<1>3. CASE Disconnected
  BY <1>3 DEF Disconnected
<1>4. CASE SurfaceChanged
  BY <1>4 DEF SurfaceChanged
<1>5. CASE GetXConnection
  BY <1>5 DEF GetXConnection
<1>6. CASE GetXConnectionNull
  BY <1>6 DEF GetXConnectionNull
<1>7. CASE LinkToDeath
  BY <1>7 DEF LinkToDeath
<1>8. CASE IsBinderAlive
  BY <1>8 DEF IsBinderAlive
<1>9. CASE GetLogcatOutput
  BY <1>9 DEF GetLogcatOutput
<1>10. CASE TryConnect
  BY <1>10 DEF TryConnect
<1>11. CASE GetXConnectionThrows
  BY <1>11 DEF GetXConnectionThrows
<1>12. CASE CheckService
  BY <1>12 DEF CheckService, CallbackReturns
<1>13. CASE WindowChanged
  BY <1>13 DEF WindowChanged, CallbackReturns
<1>14. CASE WindowChangedThrows
  BY <1>14 DEF WindowChangedThrows
<1>15. CASE UNCHANGED <<uiPc, after, connected>>
  BY <1>15
<1> QED
  BY <1>1, <1>2, <1>3, <1>4, <1>5, <1>6, <1>7, <1>8, <1>9, <1>10, <1>11,
     <1>12, <1>13, <1>14, <1>15
  DEF Next, UiStep, vars, StartServer, ServerDies, BindPort,
      SendBroadcastDelayed, SendBroadcast, RequestAccepted, RequestRefused,
      DeathRecipient, DeathPosts

(* A death recipient posts before it is forgotten.                         *)
LEMMA WatchedStep ==
    ASSUME TypeOK, HeldIsLinked, ContextMatches, AttachedIsWatched,
           [Next]_vars
    PROVE  AttachedIsWatched'
<1> USE DEF TypeOK, Live, HeldIsLinked, ContextMatches,
           AttachedIsWatched, Attached, UiPcs, Contexts, server, ui, death
<1>1. ASSUME NEW s \in Server, DeathRecipient(s) PROVE AttachedIsWatched'
  BY <1>1 DEF DeathRecipient
<1>2. CASE DeathPosts
  BY <1>2 DEF DeathPosts
<1>3. CASE LinkToDeath
  BY <1>3 DEF LinkToDeath
<1>4. CASE GetXConnection
  BY <1>4 DEF GetXConnection
<1>5. CASE Disconnected
  BY <1>5 DEF Disconnected
<1>6. CASE /\ UNCHANGED <<connTo, links, unposted, disc>>
           /\ Attached' => Attached
  BY <1>6
<1> QED
  BY <1>1, <1>2, <1>3, <1>4, <1>5, <1>6
  DEF Next, UiStep, vars, StartServer, ServerDies, BindPort,
      SendBroadcastDelayed, SendBroadcast, RequestAccepted, RequestRefused,
      OnReceive, Retry, SurfaceChanged, GetXConnectionNull, IsBinderAlive,
      GetLogcatOutput, TryConnect, GetXConnectionThrows, CheckService,
      WindowChanged, WindowChangedThrows, CallbackReturns

(* Every way back to the looper leaves a retry, a connection or no server. *)
LEMMA WakeupStep ==
    ASSUME TypeOK, KnownWereStarted, ContextMatches, Wakeup, [Next]_vars
    PROVE  Wakeup'
<1> USE DEF TypeOK, Live, KnownWereStarted, ContextMatches, Wakeup,
           UiPcs, Contexts, server, ui, death
<1>1. ASSUME NEW s \in Server, StartServer(s) PROVE Wakeup'
  BY <1>1 DEF StartServer
<1>2. ASSUME NEW s \in Server, ServerDies(s) PROVE Wakeup'
  BY <1>2 DEF ServerDies
<1>3. ASSUME NEW s \in Server, DeathRecipient(s) PROVE Wakeup'
  BY <1>3 DEF DeathRecipient
<1>4. CASE OnReceive
  BY <1>4 DEF OnReceive
<1>5. CASE Retry
  BY <1>5 DEF Retry
<1>6. CASE Disconnected
  BY <1>6 DEF Disconnected
<1>7. CASE SurfaceChanged
  BY <1>7 DEF SurfaceChanged
<1>8. CASE GetXConnection
  BY <1>8 DEF GetXConnection
<1>9. CASE GetXConnectionNull
  BY <1>9 DEF GetXConnectionNull
<1>10. CASE LinkToDeath
  BY <1>10 DEF LinkToDeath
<1>11. CASE IsBinderAlive
  BY <1>11 DEF IsBinderAlive
<1>12. CASE GetLogcatOutput
  BY <1>12 DEF GetLogcatOutput
<1>13. CASE TryConnect
  BY <1>13 DEF TryConnect
<1>14. CASE GetXConnectionThrows
  BY <1>14 DEF GetXConnectionThrows
<1>15. CASE CheckService
  BY <1>15 DEF CheckService, CallbackReturns
<1>16. CASE WindowChanged
  BY <1>16 DEF WindowChanged, CallbackReturns
<1>17. CASE WindowChangedThrows
  BY <1>17 DEF WindowChangedThrows
<1>18. CASE UNCHANGED <<life, service, connected, retries, uiPc, after>>
  BY <1>18
<1> QED
  BY <1>1, <1>2, <1>3, <1>4, <1>5, <1>6, <1>7, <1>8, <1>9, <1>10, <1>11,
     <1>12, <1>13, <1>14, <1>15, <1>16, <1>17, <1>18
  DEF Next, UiStep, vars, BindPort, SendBroadcastDelayed, SendBroadcast,
      RequestAccepted, RequestRefused, DeathPosts

(* Announcements that arrive while a server is connected are its own.      *)
LEMMA HeldStep ==
    ASSUME TypeOK, OrderInv, ContextMatches, ConnectedIsHeld, [Next]_vars
    PROVE  ConnectedIsHeld'
<1> USE DEF TypeOK, Live, ContextMatches, ConnectedIsHeld, Attached,
            NoticePending, UiPcs, Contexts, server, ui, death
<1>1. ASSUME NEW s \in Server, StartServer(s) PROVE ConnectedIsHeld'
  BY <1>1 DEF StartServer, OrderInv, KnownWereStarted
<1>2. ASSUME NEW s \in Server, ServerDies(s) PROVE ConnectedIsHeld'
  BY <1>2 DEF ServerDies
<1>3. ASSUME NEW s \in Server, DeathRecipient(s) PROVE ConnectedIsHeld'
  BY <1>3 DEF DeathRecipient
<1>4. CASE DeathPosts
  BY <1>4 DEF DeathPosts
<1>5. CASE OnReceive
  <2>1. 1 \in 1..Len(starts) /\ service' = starts[1]
    BY <1>5, TailElements DEF OnReceive
  <2>2. Live(connTo) => starts[1] = connTo
    BY <2>1 DEF OrderInv, NothingOlder
  <2> QED
    BY <1>5, <2>1, <2>2 DEF OnReceive
<1>6. CASE GetXConnection
  BY <1>6 DEF GetXConnection
<1>7. CASE GetXConnectionThrows
  BY <1>7 DEF GetXConnectionThrows
<1>8. CASE Disconnected
  BY <1>8 DEF Disconnected
<1>9. CASE UNCHANGED <<life, service, connTo, unposted, disc>>
           /\ (Attached' => Attached)
  BY <1>9
<1> QED
  BY <1>1, <1>2, <1>3, <1>4, <1>5, <1>6, <1>7, <1>8, <1>9
  DEF Next, UiStep, vars, BindPort, SendBroadcastDelayed, SendBroadcast,
      RequestAccepted, RequestRefused, Retry, SurfaceChanged,
      GetXConnectionNull, LinkToDeath, IsBinderAlive, GetLogcatOutput,
      TryConnect, CheckService, WindowChanged, WindowChangedThrows,
      CallbackReturns

(* A callback ends with the surface sent, or without a binder to send it.  *)
LEMMA SurfaceStep ==
    ASSUME TypeOK, OrderInv, ContextMatches, AttachedIsWatched,
           ConnectedIsHeld, SurfaceSent, [Next]_vars
    PROVE  SurfaceSent'
<1> USE NoneAssumption DEF TypeOK, Live, ContextMatches, SurfaceSent,
        NoticePending, UiPcs, Contexts, server, ui, death
<1>1. ASSUME NEW s \in Server, StartServer(s) PROVE SurfaceSent'
  BY <1>1 DEF StartServer, OrderInv, KnownWereStarted
<1>2. ASSUME NEW s \in Server, ServerDies(s) PROVE SurfaceSent'
  BY <1>2 DEF ServerDies
<1>3. ASSUME NEW s \in Server, DeathRecipient(s) PROVE SurfaceSent'
  BY <1>3 DEF DeathRecipient
<1>4. CASE DeathPosts
  BY <1>4 DEF DeathPosts
<1>5. CASE OnReceive
  BY <1>5 DEF OnReceive, ConnectedIsHeld, Attached
<1>6. CASE GetXConnection
  BY <1>6 DEF GetXConnection
<1>7. CASE GetXConnectionThrows
  BY <1>7 DEF GetXConnectionThrows
<1>8. CASE Disconnected
  BY <1>8 DEF Disconnected
<1>9. CASE SurfaceChanged
  BY <1>9 DEF SurfaceChanged
<1>10. CASE CheckService
  BY <1>10 DEF CheckService, CallbackReturns, AttachedIsWatched, Attached
<1>11. CASE WindowChanged
  BY <1>11 DEF WindowChanged, CallbackReturns
<1>12. CASE WindowChangedThrows
  BY <1>12 DEF WindowChangedThrows, AttachedIsWatched, Attached
<1>13. CASE UNCHANGED <<life, window, service, connected, connTo, unposted,
                        disc, surface, after>>
  BY <1>13
<1> QED
  BY <1>1, <1>2, <1>3, <1>4, <1>5, <1>6, <1>7, <1>8, <1>9, <1>10, <1>11,
     <1>12, <1>13
  DEF Next, UiStep, vars, BindPort, SendBroadcastDelayed, SendBroadcast,
      RequestAccepted, RequestRefused, Retry, GetXConnectionNull,
      LinkToDeath, IsBinderAlive, GetLogcatOutput, TryConnect

----------------------------------------------------------------------------
(* The inductive invariant.                                                *)
THEOREM Inductive == Spec => []IInv
<1>1. Init => IInv
  <2> SUFFICES ASSUME Init PROVE IInv
    OBVIOUS
  <2>1. TypeOK
    <3>1. connected \in BOOLEAN
      BY DEF Init
    <3>2. srvConn \in [Server -> BOOLEAN]
      BY DEF Init
    <3>3. starts \in Seq(Server)
      BY DEF Init
    <3> QED
      BY <3>1, <3>2, <3>3 DEF Init, TypeOK, UiPcs, Contexts
  <2>2. HeldIsLinked /\ Wakeup
    BY DEF Init, HeldIsLinked, Wakeup, Live
  <2>3. AttachedIsWatched /\ ContextMatches
    BY DEF Init, AttachedIsWatched, Attached, ContextMatches
  <2>4. ConnectedIsHeld /\ SurfaceSent
    BY DEF Init, ConnectedIsHeld, SurfaceSent, Attached
  <2> QED
    BY <2>1, <2>2, <2>3, <2>4, OrderInit DEF IInv
<1>2. IInv /\ [Next]_vars => IInv'
  BY TypeStep, OrderStep, LinkedStep, ContextStep, WatchedStep, WakeupStep,
     HeldStep, SurfaceStep
  DEF IInv, OrderInv
<1> QED
  BY <1>1, <1>2, PTL DEF Spec

(* The state keeps its types.                                              *)
THEOREM TypeCorrect == Spec => []TypeOK
<1>1. IInv => TypeOK
  BY DEF IInv
<1> QED
  BY Inductive, <1>1, PTL

(* No path through onReceive, tryConnect, the disconnect runnable or the   *)
(* surface callback leaves the activity idle, unconnected, holding a live  *)
(* server and with no tryConnect on its way.                               *)
THEOREM NeverStranded == Spec => []NoLostWakeup
<1>1. IInv => NoLostWakeup
  BY DEF IInv, Wakeup, NoLostWakeup
<1> QED
  BY Inductive, <1>1, PTL

(* A connection whose server has died always has its disconnection coming. *)
THEOREM DeathIsNoticed == Spec => []ConnectedIsWatched
<1>1. IInv => ConnectedIsWatched
  BY DEF IInv, AttachedIsWatched, Attached, ConnectedIsWatched
<1> QED
  BY Inductive, <1>1, PTL

(* The server on the screen draws on the current surface whenever the UI   *)
(* thread is idle and no disconnection is pending.                         *)
THEOREM SurfaceIsSent == Spec => []WindowIsCurrent
<1>1. IInv => WindowIsCurrent
  BY DEF IInv, SurfaceSent, NoticePending, ContextMatches, WindowIsCurrent,
         TypeOK
<1> QED
  BY Inductive, <1>1, PTL

(* While the connected server lives, surfaces never go to another server.  *)
THEOREM OneServerAtATime == Spec => []ServiceMatchesConnection
<1>1. IInv => ServiceMatchesConnection
  BY DEF IInv, OrderInv, ServiceMatchesConnection
<1> QED
  BY Inductive, <1>1, PTL

----------------------------------------------------------------------------
(* The sessions, whether or not a death is handled before the next start.  *)
SomeDied == \E s \in Server : life[s] = "dead"

(* A binder that is lost within the callback was taken by a recipient.     *)
LostToDeath ==
    uiPc = "call" /\ service = None => SomeDied

(* What is posted is posted by a recipient.                                *)
PostedByDeath == unposted > 0 \/ disc > 0 => SomeDied

LEMMA PostedStep ==
    ASSUME IInv, PostedByDeath, [Next]_vars
    PROVE  PostedByDeath'
<1> USE DEF IInv, TypeOK, PostedByDeath, SomeDied, server, ui, death
<1>1. ASSUME NEW s \in Server, StartServer(s) PROVE PostedByDeath'
  BY <1>1 DEF StartServer
<1>2. ASSUME NEW s \in Server, ServerDies(s) PROVE PostedByDeath'
  BY <1>2 DEF ServerDies
<1>3. ASSUME NEW s \in Server, DeathRecipient(s) PROVE PostedByDeath'
  BY <1>3 DEF DeathRecipient
<1>4. CASE DeathPosts
  BY <1>4 DEF DeathPosts
<1>5. CASE Disconnected
  BY <1>5 DEF Disconnected
<1>6. CASE UNCHANGED <<life, unposted, disc>>
  BY <1>6
<1> QED
  BY <1>1, <1>2, <1>3, <1>4, <1>5, <1>6
  DEF Next, UiStep, vars, BindPort, SendBroadcastDelayed, SendBroadcast,
      RequestAccepted, RequestRefused, OnReceive, Retry, SurfaceChanged,
      GetXConnection, GetXConnectionNull, LinkToDeath, IsBinderAlive,
      GetLogcatOutput, TryConnect, GetXConnectionThrows, CheckService,
      WindowChanged, WindowChangedThrows

LEMMA LostStep ==
    ASSUME IInv, LostToDeath, [Next]_vars
    PROVE  LostToDeath'
<1> USE DEF IInv, TypeOK, LostToDeath, SomeDied, Live, server, ui, death
<1>1. ASSUME NEW s \in Server, StartServer(s) PROVE LostToDeath'
  BY <1>1 DEF StartServer
<1>2. ASSUME NEW s \in Server, ServerDies(s) PROVE LostToDeath'
  BY <1>2 DEF ServerDies
<1>3. ASSUME NEW s \in Server, DeathRecipient(s) PROVE LostToDeath'
  BY <1>3 DEF DeathRecipient
<1>4. CASE CheckService
  BY <1>4 DEF CheckService, CallbackReturns
<1>5. CASE uiPc' # "call"
  BY <1>5
<1>6. CASE UNCHANGED <<life, service, uiPc>>
  BY <1>6
<1> QED
  BY <1>1, <1>2, <1>3, <1>4, <1>5, <1>6
  DEF Next, UiStep, vars, BindPort, SendBroadcastDelayed, SendBroadcast,
      RequestAccepted, RequestRefused, DeathPosts, OnReceive, Retry,
      Disconnected, SurfaceChanged, GetXConnection, GetXConnectionNull,
      LinkToDeath, IsBinderAlive, GetLogcatOutput, TryConnect,
      GetXConnectionThrows, WindowChanged, WindowChangedThrows,
      CallbackReturns

(* The callback after LorieView.connect is where the session begins; after *)
(* any other it goes on.                                                   *)
LEMMA CallbackMaps ==
    ASSUME IInv, CallbackReturns, UNCHANGED <<life, connTo>>,
           uiPc \in {"check", "call"}
    PROVE  \/ \E s \in Server : Session!Connect(s)
           \/ UNCHANGED <<life, ShownServer>>
<1>1. /\ uiPc' # "crashed" /\ uiPc # "crashed"
      /\ after = "connect" => ~connected /\ connected' = TRUE
      /\ after # "connect" => connected' = connected
  BY DEF IInv, ContextMatches, CallbackReturns
<1>2. CASE after = "connect"
  <2>1. connTo \in Server /\ life[connTo] # "new"
    BY <1>2, NoneAssumption
       DEF IInv, AttachedIsWatched, Attached, OrderInv, KnownWereStarted
  <2>2. ShownServer = None /\ ShownServer' = connTo
    BY <1>1, <1>2 DEF ShownServer
  <2> QED
    BY <2>1, <2>2 DEF Session!Connect
<1>3. CASE after # "connect"
  BY <1>1, <1>3 DEF ShownServer
<1> QED
  BY <1>2, <1>3

(* A session begins where there is none, with a server that was started.   *)
(* It ends, or the app does, only after some server died.                  *)
SessionBegins ==
    ShownServer = None /\ \E s \in Server : ShownServer' = s /\ life[s] # "new"

SessionEnds ==
    SomeDied /\ ShownServer # Closed /\ ShownServer' \in {None, Closed}

LEMMA SessionStep ==
    ASSUME IInv, LostToDeath, PostedByDeath, [Next]_vars,
           ShownServer' # ShownServer
    PROVE  SessionBegins \/ SessionEnds
<1> USE DEF server, ui, death
<1>1. CASE Disconnected
  <2>1. SomeDied /\ uiPc # "crashed" /\ ShownServer' = None
    BY <1>1 DEF Disconnected, PostedByDeath, ShownServer
  <2>2. ShownServer # Closed
    BY <2>1, NoneAssumption DEF ShownServer, IInv, TypeOK
  <2> QED
    BY <2>1, <2>2 DEF SessionEnds
<1>2. CASE WindowChangedThrows
  <2>1. SomeDied /\ uiPc # "crashed" /\ ShownServer' = Closed
    BY <1>2 DEF WindowChangedThrows, LostToDeath, ShownServer
  <2> QED
    BY <2>1 DEF SessionEnds
<1>3. CASE CheckService \/ WindowChanged
  <2>1. CallbackReturns /\ UNCHANGED <<life, connTo>>
    BY <1>3 DEF CheckService, WindowChanged, ShownServer
  <2>2. PICK s \in Server : Session!Connect(s)
    BY <1>3, <2>1, CallbackMaps DEF CheckService, WindowChanged
  <2> QED
    BY <2>2 DEF Session!Connect, SessionBegins
<1>4. CASE GetXConnection
  <2>1. ~connected
    BY <1>4 DEF GetXConnection, IInv, ContextMatches
  <2> QED
    BY <1>4, <2>1 DEF GetXConnection, ShownServer
<1>5. CASE /\ UNCHANGED <<connected, connTo>>
           /\ uiPc = "crashed" <=> uiPc' = "crashed"
  BY <1>5 DEF ShownServer
<1> QED
  BY <1>1, <1>2, <1>3, <1>4, <1>5
  DEF Next, UiStep, vars, StartServer, ServerDies, BindPort,
      SendBroadcastDelayed, SendBroadcast, RequestAccepted, RequestRefused,
      DeathRecipient, DeathPosts, OnReceive, Retry, SurfaceChanged,
      GetXConnectionNull, LinkToDeath, IsBinderAlive, GetLogcatOutput,
      TryConnect, GetXConnectionThrows

LEMMA DeathInductive == Spec => [](LostToDeath /\ PostedByDeath)
<1>1. Init => LostToDeath /\ PostedByDeath
  BY DEF Init, LostToDeath, PostedByDeath
<1>2. IInv /\ LostToDeath /\ PostedByDeath /\ [Next]_vars
          => (LostToDeath /\ PostedByDeath)'
  BY LostStep, PostedStep
<1> QED
  BY Inductive, <1>1, <1>2, PTL DEF Spec

(* The screen never goes from one server straight to another, shows no     *)
(* server that was not started, and loses a server, as the app its life,   *)
(* only after a death, however late that death is handled.                 *)
THEOREM SessionsEndByDeath ==
    Spec => [][SessionBegins \/ SessionEnds]_ShownServer
<1>1. IInv /\ LostToDeath /\ PostedByDeath /\ [Next]_vars
          => [SessionBegins \/ SessionEnds]_ShownServer
  BY SessionStep
<1> QED
  BY Inductive, DeathInductive, <1>1, PTL DEF Spec

----------------------------------------------------------------------------
(* The refinement of XSession, without its liveness.                       *)

(* Where deaths are handled before the next start, nothing that is left of *)
(* a dead server is pending while a server lives.                          *)
DeathsAreOver ==
    (\E s \in Server : life[s] = "live") => DeathsHandled

RInv == IInv /\ DeathsAreOver /\ LostToDeath

LEMMA DeathsStep ==
    ASSUME PromptDeath, IInv, DeathsAreOver, [Next]_vars
    PROVE  DeathsAreOver'
<1> USE DEF IInv, TypeOK, DeathsAreOver, DeathsHandled, Live, server, ui, death
<1>1. ASSUME NEW s \in Server, StartServer(s) PROVE DeathsAreOver'
  BY <1>1 DEF StartServer
<1>2. ASSUME NEW s \in Server, ServerDies(s) PROVE DeathsAreOver'
  BY <1>2 DEF ServerDies, OrderInv, OneLive
<1>3. ASSUME NEW s \in Server, DeathRecipient(s) PROVE DeathsAreOver'
  BY <1>3 DEF DeathRecipient
<1>4. CASE DeathPosts
  BY <1>4 DEF DeathPosts
<1>5. CASE LinkToDeath
  BY <1>5 DEF LinkToDeath
<1>6. CASE Disconnected
  BY <1>6 DEF Disconnected
<1>7. CASE UNCHANGED <<life, links, unposted, disc>>
  BY <1>7
<1> QED
  BY <1>1, <1>2, <1>3, <1>4, <1>5, <1>6, <1>7
  DEF Next, UiStep, vars, BindPort, SendBroadcastDelayed, SendBroadcast,
      RequestAccepted, RequestRefused, OnReceive, Retry, SurfaceChanged,
      GetXConnection, GetXConnectionNull, IsBinderAlive, GetLogcatOutput,
      TryConnect, GetXConnectionThrows, CheckService, WindowChanged,
      WindowChangedThrows

(* Every step of the connection is one of the session, or none.            *)
LEMMA StepMaps ==
    ASSUME PromptDeath, RInv, [Next]_vars
    PROVE  [Session!Next]_(Session!vars)
<1> USE DEF server, ui, death
<1>1. ASSUME NEW s \in Server, StartServer(s)
      PROVE  Session!Start(s)
  BY <1>1 DEF StartServer, Session!Start, ShownServer
<1>2. ASSUME NEW s \in Server, ServerDies(s)
      PROVE  Session!Die(s)
  BY <1>2 DEF ServerDies, Session!Die, ShownServer
<1>3. CASE Disconnected
  <2>1. CASE connected
    <3>1. connTo \in Server /\ life[connTo] # "new"
      BY <2>1, NoneAssumption
         DEF RInv, IInv, AttachedIsWatched, Attached, OrderInv,
             KnownWereStarted
    <3>2. \A s \in Server : life[s] # "live"
      BY <1>3 DEF Disconnected, RInv, DeathsAreOver, DeathsHandled
    <3>3. life[connTo] = "dead"
      BY <3>1, <3>2 DEF RInv, IInv, TypeOK
    <3>4. ShownServer = connTo /\ ShownServer' = None /\ UNCHANGED life
      BY <1>3, <2>1 DEF Disconnected, ShownServer
    <3> QED
      BY <3>1, <3>3, <3>4 DEF Session!Next, Session!Disconnect
  <2>2. CASE ~connected
    BY <1>3, <2>2 DEF Disconnected, ShownServer, Session!vars
  <2> QED
    BY <2>1, <2>2
<1>4. CASE WindowChangedThrows
  <2>1. CASE uiPc' = "crashed"
    <3>1. \E s \in Server : life[s] = "dead"
      BY <1>4 DEF WindowChangedThrows, RInv, LostToDeath, SomeDied
    <3>2. ShownServer # Closed
      BY <1>4, NoneAssumption
         DEF WindowChangedThrows, ShownServer, RInv, IInv, TypeOK,
             AttachedIsWatched, Attached
    <3>3. ShownServer' = Closed /\ UNCHANGED life
      BY <1>4, <2>1 DEF WindowChangedThrows, ShownServer
    <3> QED
      BY <3>1, <3>2, <3>3 DEF Session!Next, Session!Close
  <2>2. CASE uiPc' # "crashed"
    BY <1>4, <2>2 DEF WindowChangedThrows, ShownServer, Session!vars
  <2> QED
    BY <2>1, <2>2
<1>5. CASE CheckService
  <2>1. CASE service # None
    BY <1>5, <2>1 DEF CheckService, ShownServer, Session!vars
  <2>2. CASE service = None
    BY <1>5, <2>2, CallbackMaps
       DEF CheckService, RInv, Session!Next, Session!vars
  <2> QED
    BY <2>1, <2>2
<1>6. CASE WindowChanged
  BY <1>6, CallbackMaps DEF WindowChanged, RInv, Session!Next, Session!vars
<1>7. CASE GetXConnection
  <2>1. ~connected
    BY <1>7 DEF GetXConnection, RInv, IInv, ContextMatches
  <2> QED
    BY <1>7, <2>1 DEF GetXConnection, ShownServer, Session!vars
<1>8. CASE /\ UNCHANGED <<life, connected, connTo>>
           /\ uiPc = "crashed" <=> uiPc' = "crashed"
  BY <1>8 DEF ShownServer, Session!vars
<1> QED
  BY <1>1, <1>2, <1>3, <1>4, <1>5, <1>6, <1>7, <1>8
  DEF Next, UiStep, vars, BindPort, SendBroadcastDelayed, SendBroadcast,
      RequestAccepted, RequestRefused, DeathRecipient, DeathPosts, OnReceive,
      Retry, SurfaceChanged, GetXConnectionNull, LinkToDeath, IsBinderAlive,
      GetLogcatOutput, TryConnect, GetXConnectionThrows, Session!Next

(* The connection implements the safety of XSession where every death is   *)
(* handled before the next start: a session begins with a server that was  *)
(* started, ends only because that one died, and the app goes down only    *)
(* after the death of some server.                                         *)
THEOREM RefinesSession ==
    ASSUME PromptDeath
    PROVE  Spec => Session!Safety
<1>1. Init => Session!Init
  BY DEF Init, Session!Init, ShownServer
<1>2. Init => DeathsAreOver
  BY DEF Init, DeathsAreOver
<1>3. IInv /\ DeathsAreOver /\ [Next]_vars => DeathsAreOver'
  BY DeathsStep
<1>4. IInv /\ DeathsAreOver /\ LostToDeath /\ [Next]_vars
          => [Session!Next]_(Session!vars)
  BY StepMaps DEF RInv
<1> QED
  BY Inductive, DeathInductive, <1>1, <1>2, <1>3, <1>4, PTL
     DEF Spec, Session!Safety
=============================================================================

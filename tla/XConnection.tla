---------------------------- MODULE XConnection ----------------------------
(***************************************************************************)
(* How XserverActivity finds, connects to, loses and finds again the X     *)
(* server process (CmdEntryPoint).                                         *)
(*                                                                         *)
(* The field `service` is shared by the UI thread (every handler below     *)
(* whose guard is on uiPc) and the binder threads that run death           *)
(* recipients.  UI handlers are cut where they read `service` again,       *)
(* because a death recipient may clear it in between.  A server process    *)
(* has its main thread (the one-second announcement timer) and its         *)
(* listening thread (port 7892).                                           *)
(***************************************************************************)
EXTENDS Naturals, Sequences

CONSTANTS
    Server,       \* X server processes, each identified with its binder
    None,         \* null
    Closed,       \* the abstract session of an app that has ended
    PromptDeath,  \* environment: the app has handled every death of a server
                  \* before the next one is started
    MaxStarts,    \* bound: ACTION_START broadcasts in flight
    MaxLinks,     \* bound: recipients of a server the app already holds, beyond
                  \* which the server's timer does not announce it again
    MaxRetries,   \* bound: delayed tryConnect messages from null answers
    MaxSurface    \* bound: surface changes reported by the system

ASSUME NoneAssumption == None \notin Server /\ Closed \notin Server \cup {None}
ASSUME BoundAssumption ==
    /\ PromptDeath \in BOOLEAN
    /\ MaxStarts \in Nat /\ MaxLinks \in Nat
    /\ MaxRetries \in Nat /\ MaxSurface \in Nat

VARIABLES
    life,       \* [Server -> {"new", "live", "dead"}]
    port,       \* [Server -> {"starting", "bound", "failed"}], listening thread
    srvConn,    \* [Server -> BOOLEAN], the native connected() of the server
    window,     \* [Server -> Nat], the surface the server was given last, 0 none
    starts,     \* ACTION_START broadcasts in flight, in order
    requests,   \* requestConnection threads that have not reached a server
    service,    \* XserverActivity.service
    connected,  \* XserverActivity.mClientConnected
    connTo,     \* the server whose socket was given to LorieView.connect last
    links,      \* [Server -> Nat], death recipients registered with a server
    unposted,   \* death recipients that cleared service, not yet posted
    disc,       \* posted clientConnectedStateChanged(false) runnables
    retries,    \* delayed tryConnect messages
    surface,    \* the current surface of the LorieView
    uiPc,       \* where the UI thread is
    after       \* what the surface callback in progress returns to

server == <<life, port, srvConn, window>>
ui     == <<uiPc, after>>
death  == <<links, unposted, disc>>
vars   == <<life, port, srvConn, window, starts, requests, service, connected,
            connTo, links, unposted, disc, retries, surface, uiPc, after>>

Contexts == {"connect", "connected", "disconnected", "surface", "none"}
UiPcs    == {"idle", "link", "alive", "logcat", "try", "get",
             "check", "call", "crashed"}

TypeOK ==
    /\ life \in [Server -> {"new", "live", "dead"}]
    /\ port \in [Server -> {"starting", "bound", "failed"}]
    /\ srvConn \in [Server -> BOOLEAN]
    /\ window \in [Server -> Nat]
    /\ starts \in Seq(Server)
    /\ requests \in Nat
    /\ service \in Server \cup {None}
    /\ connected \in BOOLEAN
    /\ connTo \in Server \cup {None}
    /\ links \in [Server -> Nat]
    /\ unposted \in Nat
    /\ disc \in Nat
    /\ retries \in Nat
    /\ surface \in Nat
    /\ uiPc \in UiPcs
    /\ after \in Contexts

(* onCreate has registered the receiver and called requestConnection.      *)
Init ==
    /\ life = [s \in Server |-> "new"]
    /\ port = [s \in Server |-> "starting"]
    /\ srvConn = [s \in Server |-> FALSE]
    /\ window = [s \in Server |-> 0]
    /\ starts = <<>>
    /\ requests = 1
    /\ service = None
    /\ connected = FALSE
    /\ connTo = None
    /\ links = [s \in Server |-> 0]
    /\ unposted = 0
    /\ disc = 0
    /\ retries = 0
    /\ surface = 1
    /\ uiPc = "idle"
    /\ after = "none"

Live(s) == s # None /\ life[s] = "live"

----------------------------------------------------------------------------
(* The server process.  A second server exits in start(), so one runs at a *)
(* time.                                                                   *)

DeathsHandled ==
    /\ \A s \in Server : life[s] = "dead" => links[s] = 0
    /\ unposted = 0 /\ disc = 0

StartServer(s) ==
    /\ life[s] = "new"
    /\ \A t \in Server : life[t] # "live"
    /\ PromptDeath => DeathsHandled
    /\ life' = [life EXCEPT ![s] = "live"]
    /\ UNCHANGED <<port, srvConn, window, starts, requests, service, connected,
                   connTo, death, retries, surface, ui>>

(* The constructor of ServerSocket throws when the port is taken; the      *)
(* thread then dies on the null socket and the server never listens.       *)
BindPort(s, outcome) ==
    /\ life[s] = "live" /\ port[s] = "starting"
    /\ port' = [port EXCEPT ![s] = outcome]
    /\ UNCHANGED <<life, srvConn, window, starts, requests, service, connected,
                   connTo, death, retries, surface, ui>>

(* Its socket, its connection and its surface go with the process.         *)
ServerDies(s) ==
    /\ life[s] = "live"
    /\ life' = [life EXCEPT ![s] = "dead"]
    /\ port' = [port EXCEPT ![s] = "starting"]
    /\ srvConn' = [srvConn EXCEPT ![s] = FALSE]
    /\ window' = [window EXCEPT ![s] = 0]
    /\ UNCHANGED <<starts, requests, service, connected, connTo, death, retries,
                   surface, ui>>

SendBroadcast(s) ==
    /\ Len(starts) < MaxStarts
    /\ starts' = Append(starts, s)

(* The timer announces the server for as long as it has no connection.     *)
SendBroadcastDelayed(s) ==
    /\ life[s] = "live"
    /\ ~srvConn[s]
    /\ service = s => links[s] < MaxLinks
    /\ SendBroadcast(s)
    /\ UNCHANGED <<server, requests, service, connected, connTo, death,
                   retries, surface, ui>>

(* The listening thread answers a connection with an announcement.         *)
RequestAccepted(s) ==
    /\ requests > 0
    /\ life[s] = "live" /\ port[s] = "bound"
    /\ requests' = requests - 1
    /\ SendBroadcast(s)
    /\ UNCHANGED <<server, service, connected, connTo, death, retries,
                   surface, ui>>

(* "Connection has been refused by the server": logged, never repeated.    *)
RequestRefused ==
    /\ requests > 0
    /\ \A s \in Server : ~(life[s] = "live" /\ port[s] = "bound")
    /\ requests' = requests - 1
    /\ UNCHANGED <<server, starts, service, connected, connTo, death, retries,
                   surface, ui>>

----------------------------------------------------------------------------
(* A death recipient, on a binder thread.  It clears `service` whatever    *)
(* server that field names by now.                                         *)

DeathRecipient(s) ==
    /\ life[s] = "dead" /\ links[s] > 0
    /\ links' = [links EXCEPT ![s] = @ - 1]
    /\ service' = None
    /\ requests' = requests + 1
    /\ unposted' = unposted + 1
    /\ UNCHANGED <<server, starts, connected, connTo, disc, retries, surface, ui>>

DeathPosts ==
    /\ unposted > 0
    /\ unposted' = unposted - 1
    /\ disc' = disc + 1
    /\ UNCHANGED <<server, starts, requests, service, connected, connTo, links,
                   retries, surface, ui>>

----------------------------------------------------------------------------
(* UI thread: ACTION_START, onReceiveConnection.                           *)

(* A mutant of OnReceive, with announcements out of order.                 *)
OnReceiveLast ==
    /\ uiPc = "idle" /\ starts # <<>>
    /\ starts' = SubSeq(starts, 1, Len(starts) - 1)
    /\ service' = starts[Len(starts)]
    /\ uiPc' = "link"
    /\ UNCHANGED <<server, requests, connected, connTo, death, retries, surface,
                   after>>

OnReceive ==
    /\ uiPc = "idle" /\ starts # <<>>
    /\ starts' = Tail(starts)
    /\ service' = Head(starts)
    /\ uiPc' = "link"
    /\ UNCHANGED <<server, requests, connected, connTo, death, retries, surface,
                   after>>

(* A mutant of LinkToDeath, without the call.                              *)
LinkForgotten ==
    /\ uiPc = "link"
    /\ uiPc' = IF Live(service) THEN "alive" ELSE "idle"
    /\ UNCHANGED <<server, starts, requests, service, connected, connTo, death,
                   retries, surface, after>>

(* requireNonNull and linkToDeath throw into onReceive's catch, which only *)
(* logs: service keeps the dead binder.                                    *)
LinkToDeath ==
    /\ uiPc = "link"
    /\ \/ /\ Live(service)
          /\ links' = [links EXCEPT ![service] = @ + 1]
          /\ uiPc' = "alive"
       \/ /\ ~Live(service)
          /\ uiPc' = "idle"
          /\ links' = links
    /\ UNCHANGED <<server, starts, requests, service, connected, connTo,
                   unposted, disc, retries, surface, after>>

IsBinderAlive ==
    /\ uiPc = "alive"
    /\ uiPc' = IF Live(service) THEN "logcat" ELSE "idle"
    /\ UNCHANGED <<server, starts, requests, service, connected, connTo, death,
                   retries, surface, after>>

(* Every exception of getLogcatOutput ends in onReceiveConnection's catch. *)
GetLogcatOutput ==
    /\ uiPc = "logcat"
    /\ uiPc' = IF Live(service) THEN "try" ELSE "idle"
    /\ UNCHANGED <<server, starts, requests, service, connected, connTo, death,
                   retries, surface, after>>

----------------------------------------------------------------------------
(* UI thread: tryConnect, from its first line to its end.                  *)

TryConnect ==
    /\ uiPc = "try"
    /\ \/ /\ connected
          /\ uiPc' = "idle" /\ retries' = retries
       \/ /\ ~connected /\ service = None
          /\ uiPc' = "idle" /\ retries' = retries + 1
       \/ /\ ~connected /\ service # None
          /\ uiPc' = "get" /\ retries' = retries
    /\ UNCHANGED <<server, starts, requests, service, connected, connTo, death,
                   surface, after>>

(* An fd: the server counts as connected, LorieView.connect takes it, and  *)
(* triggerCallback sends the surface.                                      *)
GetXConnection ==
    /\ uiPc = "get" /\ Live(service)
    /\ srvConn' = [srvConn EXCEPT ![service] = TRUE]
    /\ connTo' = service
    /\ uiPc' = "check" /\ after' = "connect"
    /\ UNCHANGED <<life, port, window, starts, requests, service, connected,
                   death, retries, surface>>

(* A mutant of GetXConnectionNull, without the delayed retry.              *)
NullForgotten ==
    /\ uiPc = "get" /\ Live(service)
    /\ uiPc' = "idle"
    /\ UNCHANGED <<server, starts, requests, service, connected, connTo, death,
                   retries, surface, after>>

GetXConnectionNull ==
    /\ uiPc = "get" /\ Live(service)
    /\ retries < MaxRetries
    /\ retries' = retries + 1
    /\ uiPc' = "idle"
    /\ UNCHANGED <<server, starts, requests, service, connected, connTo, death,
                   surface, after>>

(* The catch of tryConnect clears service and asks for no retry; the       *)
(* regenerate that follows finds no service to send the surface to.        *)
GetXConnectionThrows ==
    /\ uiPc = "get" /\ ~Live(service)
    /\ service' = None
    /\ uiPc' = "idle"
    /\ UNCHANGED <<server, starts, requests, connected, connTo, death, retries,
                   surface, after>>

(* A mutant of Retry, of a message that was removed.                       *)
RetryUnposted ==
    /\ uiPc = "idle"
    /\ retries' = retries - 1
    /\ uiPc' = "try"
    /\ UNCHANGED <<server, starts, requests, service, connected, connTo, death,
                   surface, after>>

Retry ==
    /\ uiPc = "idle" /\ retries > 0
    /\ retries' = retries - 1
    /\ uiPc' = "try"
    /\ UNCHANGED <<server, starts, requests, service, connected, connTo, death,
                   surface, after>>

----------------------------------------------------------------------------
(* UI thread: clientConnectedStateChanged(false) and the surface callback. *)

(* A mutant of Disconnected, which keeps mClientConnected.                 *)
StillConnected ==
    /\ uiPc = "idle" /\ disc > 0
    /\ disc' = disc - 1
    /\ uiPc' = "check" /\ after' = "disconnected"
    /\ UNCHANGED <<server, starts, requests, service, connected, connTo, links,
                   unposted, retries, surface>>

Disconnected ==
    /\ uiPc = "idle" /\ disc > 0
    /\ disc' = disc - 1
    /\ connected' = FALSE
    /\ uiPc' = "check" /\ after' = "disconnected"
    /\ UNCHANGED <<server, starts, requests, service, connTo, links, unposted,
                   retries, surface>>

(* A mutant of SurfaceChanged, without the callback.                       *)
SurfaceUnsent ==
    /\ uiPc = "idle" /\ surface < MaxSurface
    /\ surface' = surface + 1
    /\ UNCHANGED <<server, starts, requests, service, connected, connTo, death,
                   retries, ui>>

SurfaceChanged ==
    /\ uiPc = "idle" /\ surface < MaxSurface
    /\ surface' = surface + 1
    /\ uiPc' = "check" /\ after' = "surface"
    /\ UNCHANGED <<server, starts, requests, service, connected, connTo, death,
                   retries>>

(* What follows the surface callback.  triggerCallback in tryConnect is    *)
(* followed by clientConnectedStateChanged(true), which regenerates, and   *)
(* so calls back again.                                                    *)
CallbackReturns ==
    CASE after = "connect"      -> /\ connected' = TRUE
                                   /\ uiPc' = "check" /\ after' = "connected"
      [] after = "disconnected" -> /\ uiPc' = "try" /\ after' = "none"
                                   /\ UNCHANGED connected
      [] OTHER                  -> /\ uiPc' = "idle" /\ after' = "none"
                                   /\ UNCHANGED connected

(* if (service != null) ... *)
CheckService ==
    /\ uiPc = "check"
    /\ \/ /\ service # None
          /\ uiPc' = "call" /\ UNCHANGED <<connected, after>>
       \/ /\ service = None
          /\ CallbackReturns
    /\ UNCHANGED <<server, starts, requests, service, connTo, death, retries,
                   surface>>

(* ... service.windowChanged(sfc).  A RemoteException is logged.           *)
WindowChanged ==
    /\ uiPc = "call" /\ service # None
    /\ window' = IF Live(service) THEN [window EXCEPT ![service] = surface]
                                  ELSE window
    /\ CallbackReturns
    /\ UNCHANGED <<life, port, srvConn, starts, requests, service, connTo, death,
                   retries, surface>>

(* The field was cleared since the check.  tryConnect catches the          *)
(* NullPointerException; the looper does not, and the app ends.            *)
WindowChangedThrows ==
    /\ uiPc = "call" /\ service = None
    /\ uiPc' = IF after \in {"connect", "connected"} THEN "idle" ELSE "crashed"
    /\ after' = "none"
    /\ UNCHANGED <<server, starts, requests, service, connected, connTo, death,
                   retries, surface>>

----------------------------------------------------------------------------
UiStep ==
    \/ LinkToDeath \/ IsBinderAlive \/ GetLogcatOutput \/ TryConnect
    \/ GetXConnectionThrows \/ CheckService \/ WindowChanged
    \/ WindowChangedThrows

Next ==
    \/ \E s \in Server :
          \/ StartServer(s) \/ ServerDies(s)
          \/ \E outcome \in {"bound", "failed"} : BindPort(s, outcome)
          \/ SendBroadcastDelayed(s)
          \/ RequestAccepted(s)
          \/ DeathRecipient(s)
    \/ RequestRefused \/ DeathPosts
    \/ OnReceive \/ Retry \/ Disconnected \/ SurfaceChanged
    \/ GetXConnection \/ GetXConnectionNull
    \/ UiStep

Spec == Init /\ [][Next]_vars

(* The looper handles every message in its queue (strong fairness: it is   *)
(* idle between two of them), threads run, the server's timer fires, and   *)
(* a server that is asked again and again in the end answers with a socket. *)
Fairness ==
    /\ \A s \in Server :
          /\ WF_vars(\E outcome \in {"bound", "failed"} : BindPort(s, outcome))
          /\ SF_vars(SendBroadcastDelayed(s))
          /\ SF_vars(RequestAccepted(s))
          /\ WF_vars(DeathRecipient(s))
    /\ WF_vars(RequestRefused) /\ WF_vars(DeathPosts)
    /\ SF_vars(OnReceive) /\ SF_vars(Retry) /\ SF_vars(Disconnected)
    /\ SF_vars(GetXConnection)
    /\ WF_vars(UiStep)

FairSpec == Spec /\ Fairness

----------------------------------------------------------------------------
(* No lost wake-up: between two messages, an activity that holds a live    *)
(* server and is not connected has a tryConnect on its way, so no path out *)
(* of onReceive, tryConnect or the disconnect runnable strands it.         *)
NoLostWakeup ==
    uiPc = "idle" /\ ~connected /\ Live(service) => retries > 0

(* The end of a connection never goes unnoticed: when the server at the    *)
(* other end is dead, one of its death recipients, or the runnable it      *)
(* posts, is still to come.                                                *)
ConnectedIsWatched ==
    uiPc = "idle" /\ connected /\ life[connTo] = "dead"
        => links[connTo] > 0 \/ unposted > 0 \/ disc > 0

(* The server shown to the user draws on the current surface, unless a     *)
(* disconnection is on its way.                                            *)
WindowIsCurrent ==
    /\ uiPc = "idle" /\ connected
    /\ service = connTo /\ Live(connTo)
    /\ unposted = 0 /\ disc = 0
    => window[connTo] = surface

(* While its server lives, a connection is not paired with the binder of   *)
(* another server: surfaces go to the server whose frames are shown.       *)
ServiceMatchesConnection ==
    uiPc # "crashed" /\ connected /\ Live(connTo) => service \in {None, connTo}

(* "We should recover connection in the case if file descriptor for some   *)
(* reason was broken": a server that stays up, and listens, ends up shown. *)
Reconnects ==
    \A s \in Server :
        <>[](life[s] = "live" /\ port[s] = "bound")
            => <>[](uiPc = "crashed" \/ (connected /\ connTo = s))

(* The abstract session: the server on the screen.                         *)
ShownServer ==
    IF uiPc = "crashed" THEN Closed ELSE IF connected THEN connTo ELSE None

Session == INSTANCE XSession WITH session <- ShownServer

(* The connection code implements XSession, its liveness included, when    *)
(* the app has dealt with a death before the next server is started: a     *)
(* server that stays up is shown whether or not it got its port.           *)
ImplementsSession == Session!Spec
=============================================================================

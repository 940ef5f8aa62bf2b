------------------------------ MODULE XSession ------------------------------
(***************************************************************************)
(* What the user of XserverActivity is promised: one session at a time,    *)
(* with a server that was started; it ends only because its server died,   *)
(* and while a server is up the screen ends up showing it.                 *)
(***************************************************************************)
CONSTANTS Server, None,
          Closed    \* the app has ended

VARIABLES life,     \* [Server -> {"new", "live", "dead"}]
          session   \* the server on the screen, None, or Closed

vars == <<life, session>>

Init == /\ life = [s \in Server |-> "new"]
        /\ session = None

Start(s) == /\ life[s] = "new" /\ \A t \in Server : life[t] # "live"
            /\ life' = [life EXCEPT ![s] = "live"]
            /\ UNCHANGED session

Die(s) == /\ life[s] = "live"
          /\ life' = [life EXCEPT ![s] = "dead"]
          /\ UNCHANGED session

(* The server may die while its socket is being attached.                  *)
Connect(s) == /\ session = None /\ life[s] # "new"
              /\ session' = s
              /\ UNCHANGED life

Disconnect == /\ session \in Server /\ life[session] = "dead"
              /\ session' = None
              /\ UNCHANGED life

(* Only the death of a server may take the app down.                       *)
Close == /\ \E s \in Server : life[s] = "dead"
         /\ session # Closed /\ session' = Closed
         /\ UNCHANGED life

Next == \/ \E s \in Server : Start(s) \/ Die(s) \/ Connect(s)
        \/ Disconnect \/ Close

(* A live server is connected to, and the session of a dead one ends.      *)
Fairness == /\ WF_vars(\E s \in Server : life[s] = "live" /\ Connect(s))
            /\ WF_vars(Disconnect)

Safety == Init /\ [][Next]_vars
Spec   == Safety /\ Fairness
=============================================================================

----------------------------- MODULE RunControl -----------------------------
(***************************************************************************)
(* What run control over several machines promises, without messages,      *)
(* sockets and maps: the state of the controller, or one that a single     *)
(* node is to take, is sent to a node while states sent before may still   *)
(* be under way.  The node takes any of them, in any order, and is back in *)
(* IDLE when it is started again.                                          *)
(***************************************************************************)
EXTENDS RCFSM

CONSTANTS Nodes, Routes

VARIABLES
    rc,     \* the state of the controller
    state,  \* the state of each node
    race    \* the states that each node may still take or has taken last

Init ==
    /\ rc = IDLE
    /\ state = [n \in Nodes |-> IDLE]
    /\ race = [n \in Nodes |-> {IDLE}]

\* The controller goes on, whatever is under way.
Command(cmd) ==
    /\ rc' = process(rc, cmd)
    /\ UNCHANGED <<state, race>>

\* A state that comes to the race; those that have arrived or are lost leave it.
Joins(n, s) ==
    \E others \in SUBSET race[n] : race' = [race EXCEPT ![n] = others \cup {s}]

\* The controller's present state, or one for this node, is sent to n.
Send(n, s) ==
    /\ s = rc \/ s \in Routes
    /\ Joins(n, s)
    /\ UNCHANGED <<rc, state>>

Take(n) ==
    /\ \E s \in race[n] : state' = [state EXCEPT ![n] = s]
    /\ UNCHANGED <<rc, race>>

Restart(n) ==
    /\ state' = [state EXCEPT ![n] = IDLE]
    /\ Joins(n, IDLE)
    /\ UNCHANGED rc

Next ==
    \/ \E cmd \in RCcommand : Command(cmd)
    \/ \E n \in Nodes : Take(n) \/ Restart(n)
    \/ \E n \in Nodes, s \in RCstate : Send(n, s)

Spec == Init /\ [][Next]_<<rc, state, race>>
=============================================================================

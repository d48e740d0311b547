---------------------------- MODULE FzController ----------------------------
(***************************************************************************)
(* FzController (src/src/controller) and the FzNodeManager of each machine *)
(* in remote mode: the run control thread (rcs.cpp), the collector thread  *)
(* with its map of node reports (collector.cpp, map.cpp), the nodes' comm  *)
(* and perfdata threads.  What a node does with its state is in FzNode.    *)
(*                                                                         *)
(* Every message to a node goes through a socket of its own, closed at     *)
(* once: 0MQ delivers it in the background, to a node that is restarted    *)
(* too, and two messages arrive in any order.  The threads share the map;  *)
(* the run control thread walks through it without the mutex.  Of a report *)
(* only the name of its node matters here, which is the key of the map.    *)
(***************************************************************************)
EXTENDS RCFSM, FiniteSets, SequencesExt, FiniteSetsExt

CONSTANTS
    NNodes,       \* machines; their numbers are in the order of their names
    EXPIRY,       \* seconds (10 in the code) after which a report is stale
    IndexSize,    \* values of the index of map_clean(): uint8_t, 256 in the code
    Routes,       \* the states that clients command single nodes to take
    MaxRequests,  \* bound: requests to the run control thread
    MaxFaults     \* bound: crashes of nodes and erased elements that a broadcast meets

ASSUME ControllerAssumption ==
    /\ NNodes \in Nat \ {0} /\ EXPIRY \in Nat
    /\ IndexSize \in Nat /\ NNodes < IndexSize
    /\ Routes \subseteq RCstate
    /\ MaxRequests \in Nat /\ MaxFaults \in Nat

Nodes == 1..NNodes
End   == NNodes + 1     \* map.end()

VARIABLES
    rc,        \* the state machine of the controller
    pc,        \* the run control thread: "recv", "push", "wait" (for a reply)
    it,        \* the iterator of push_broadcast()
    dangling,  \* the element that it designates was erased
    map,       \* the nodes that have an element in the map
    deque,     \* <<node, seconds since the last report>>
    i,         \* the index of map_clean(), or 0 outside
    up, state, \* the nodes: running, and FzNodeManager's state
    reports,   \* the nodes a report of which is on its way
    msgs,      \* the messages on their way to each node
    requests, faults

\* History, not in the program.
VARIABLES
    race,      \* the states under way to each node when the last one was sent to
               \* it, that one included; IDLE for a node that was started since
    heard,     \* the nodes to which the last broadcast was the last thing sent
    cast,      \* the broadcast: the nodes that are in the map all the while, and
               \* those it has pushed to; or only, that it met an erased element
    late       \* a node has executed a request that had been answered
               \* "destination hostname not available"

nodevars == <<up, state, reports>>
history  == <<race, heard, cast, late>>
vars == <<rc, pc, it, dangling, map, deque, i, nodevars, msgs, requests, faults, history>>

\* The first element of the map behind n.
After(n) == LET s == {k \in map : k > n} IN IF s = {} THEN End ELSE Min(s)

\* The states on their way to n.
UnderWay(n) == {msgs[n][k].status : k \in DOMAIN msgs[n]}

NoCast == [targets |-> {}, told |-> <<>>, strayed |-> FALSE]

Init ==
    /\ rc = IDLE /\ pc = "recv" /\ it = End /\ dangling = FALSE
    /\ map = {} /\ deque = <<>> /\ i = 0
    /\ up = [n \in Nodes |-> TRUE] /\ state = [n \in Nodes |-> IDLE]
    /\ reports = {} /\ msgs = [n \in Nodes |-> <<>>]
    /\ requests = 0 /\ faults = 0
    /\ race = [n \in Nodes |-> {IDLE}] /\ heard = {} /\ cast = NoCast
    /\ late = FALSE

-----------------------------------------------------------------------------
(* The run control thread.                                                 *)

\* The answer to the request before was sent at once: what it has sent to
\* the nodes may still be under way.
NewRequest ==
    /\ pc = "recv" /\ requests < MaxRequests
    /\ requests' = requests + 1

\* An event that is no command leaves the state machine alone and is still
\* broadcast and answered OK.
Status(event) == IF event \in RCcommand THEN process(rc, event) ELSE rc

\* handle_request(): WRITE of "event".  Without a node, and for a transition
\* that is not valid, the answer is an error; else the state is broadcast.
WriteEvent(event) ==
    /\ NewRequest
    /\ IF map = {} \/ (event \in RCcommand /\ try_process(rc, event) = RCERROR)
       THEN UNCHANGED <<rc, pc, it, heard, cast>>
       ELSE /\ rc' = Status(event)
            /\ pc' = "push" /\ it' = After(0)
            /\ heard' = {}
            /\ cast' = [NoCast EXCEPT !.targets = map]
    /\ UNCHANGED <<dangling, map, deque, i, nodevars, msgs, faults, race, late>>

\* The pushed status, and 0: nobody waits for an answer.
Message(s, req) == [status |-> s, req |-> req]
Send(n, msg) ==
    /\ msgs' = [msgs EXCEPT ![n] = Append(@, msg)]
    /\ race' = [race EXCEPT ![n] = UnderWay(n) \cup {msg.status}]

\* The nodes whose name it->second may hold: behind the iterator of an erased
\* element is what was there, or what came into its place.
Named == IF dangling THEN map \cup {it} ELSE {it}

\* Mutant: the iterator is advanced twice.
Next_it_twice == IF dangling THEN map \cup {End} ELSE {After(After(it))}
\* it++; from an erased element it may lead anywhere, also when the node has
\* an element again.
Next_it == IF dangling THEN map \cup {End} ELSE {After(it)}

\* push_broadcast(): one iteration of the loop, without the mutex.  From an
\* erased element a name is read that is none, too, and nothing is sent.
push_unicast ==
    /\ pc = "push" /\ it # End
    /\ IF dangling THEN faults < MaxFaults /\ faults' = faults + 1 ELSE UNCHANGED faults
    /\ \/ \E n \in Named : Send(n, Message(rc, 0)) /\ heard' = heard \cup {n}
       \/ dangling /\ UNCHANGED <<msgs, race, heard>>
    /\ cast' = IF dangling \/ cast.strayed THEN [NoCast EXCEPT !.strayed = TRUE]
               ELSE [cast EXCEPT !.told = Append(@, it)]
    /\ it' \in Next_it /\ dangling' = FALSE
    /\ UNCHANGED <<rc, pc, map, deque, i, nodevars, requests, late>>

EndBroadcast ==
    /\ pc = "push" /\ it = End
    /\ pc' = "recv"
    /\ cast' = NoCast
    /\ UNCHANGED <<rc, it, dangling, map, deque, i, nodevars, msgs, requests, faults,
                   race, heard, late>>

\* handle_request(): a request for one node is routed to it.
Route(n, s) ==
    /\ NewRequest
    /\ Send(n, Message(s, requests'))
    /\ heard' = heard \ {n}
    /\ pc' = "wait"
    /\ UNCHANGED <<rc, it, dangling, map, deque, i, nodevars, faults, cast, late>>

\* send_unicast(): no answer within three seconds.
UnicastTimeout ==
    /\ pc = "wait"
    /\ pc' = "recv"
    /\ UNCHANGED <<rc, it, dangling, map, deque, i, nodevars, msgs, requests, faults, history>>

-----------------------------------------------------------------------------
(* The collector thread.                                                   *)

Refresh(n) == [k \in DOMAIN deque |-> IF deque[k][1] = n THEN <<n, 0>> ELSE deque[k]]

\* Mutants: a known node gets a second entry; a report refreshes all entries.
Inserted_twice(n) == Append(deque, <<n, 0>>)
Inserted_refreshes_all(n) ==
    IF n \in map THEN [k \in DOMAIN deque |-> <<deque[k][1], 0>>] ELSE Append(deque, <<n, 0>>)
Inserted(n) == IF n \in map THEN Refresh(n) ELSE Append(deque, <<n, 0>>)

map_insert(n) ==
    /\ i = 0 /\ n \in reports
    /\ map' = map \cup {n}
    /\ deque' = Inserted(n)
    /\ reports' = reports \ {n}
    /\ i' = 1
    /\ UNCHANGED <<rc, pc, it, dangling, up, state, msgs, requests, faults, history>>

\* recv() without a report for one second.
CollectorTimeout ==
    /\ i = 0
    /\ i' = 1
    /\ UNCHANGED <<rc, pc, it, dangling, map, deque, nodevars, msgs, requests, faults, history>>

\* i++ of an index that wraps; k is one more than in the code.
Inc(k) == (k % IndexSize) + 1

\* map_clean(), one iteration: i++ also after an erase().
map_clean ==
    /\ i > 0 /\ i <= Len(deque)
    /\ IF deque[i][2] > EXPIRY
       THEN /\ map' = map \ {deque[i][1]}
            /\ deque' = RemoveAt(deque, i)
            /\ dangling' = (dangling \/ deque[i][1] = it)
            /\ cast' = [cast EXCEPT !.targets = @ \ {deque[i][1]}]
       ELSE UNCHANGED <<map, deque, dangling, cast>>
    /\ i' = Inc(i)
    /\ UNCHANGED <<rc, pc, it, nodevars, msgs, requests, faults, race, heard, late>>

EndClean ==
    /\ i > Len(deque)
    /\ i' = 0
    /\ UNCHANGED <<rc, pc, it, dangling, map, deque, nodevars, msgs, requests, faults, history>>

\* A second passes.
Tick ==
    /\ deque' = [k \in DOMAIN deque |-> <<deque[k][1], Min({deque[k][2] + 1, EXPIRY + 1})>>]
    /\ UNCHANGED <<rc, pc, it, dangling, map, i, nodevars, msgs, requests, faults, history>>

-----------------------------------------------------------------------------
(* The nodes.                                                              *)

\* Mutants: only a state that a command of RCFSM leads to is taken; any other
\* one resets the node.
Taken_checked(n, s) ==
    IF \E cmd \in RCcommand : process(state[n], cmd) = s THEN s ELSE state[n]
Taken_resets(n, s) == IF \E cmd \in RCcommand : process(state[n], cmd) = s THEN s ELSE IDLE
\* Whatever state the controller names is taken.
Taken(n, s) == s

\* The run control thread waits for the answer to this message.
Awaited(msg) == pc = "wait" /\ msg.req = requests

\* process_comm() and handle_request(), WRITE of "status", for the message
\* k; the reply reaches the controller if it still waits for it.
HandleRequest(n, k) ==
    LET msg == msgs[n][k]
    IN  /\ up[n]
        /\ state' = [state EXCEPT ![n] = Taken(n, msg.status)]
        /\ msgs' = [msgs EXCEPT ![n] = RemoveAt(@, k)]
        /\ late' = (late \/ (msg.req # 0 /\ ~Awaited(msg)))
        /\ pc' = IF Awaited(msg) THEN "recv" ELSE pc
        /\ UNCHANGED <<rc, it, dangling, map, deque, i, up, reports, requests, faults,
                       race, heard, cast>>

\* process_perfdata(), every second; with the connection stuck the report is
\* given up.
SendReport(n) ==
    /\ up[n]
    /\ reports' = reports \cup {n}
    /\ UNCHANGED <<rc, pc, it, dangling, map, deque, i, up, state, msgs, requests, faults, history>>

\* The messages in the node's queue are lost with it, those in the
\* controller's are not: any of them are kept, in their order.
Crash(n) ==
    /\ up[n] /\ faults < MaxFaults
    /\ faults' = faults + 1
    /\ up' = [up EXCEPT ![n] = FALSE]
    /\ \E len \in 0..Len(msgs[n]) : \E kept \in [1..len -> DOMAIN msgs[n]] :
          /\ \A j, k \in 1..len : j < k => kept[j] < kept[k]
          /\ msgs' = [msgs EXCEPT ![n] = [k \in 1..len |-> msgs[n][kept[k]]]]
    /\ UNCHANGED <<rc, pc, it, dangling, map, deque, i, state, reports, requests, history>>

Restart(n) ==
    /\ ~up[n]
    /\ up' = [up EXCEPT ![n] = TRUE]
    /\ state' = [state EXCEPT ![n] = IDLE]
    /\ race' = [race EXCEPT ![n] = UnderWay(n) \cup {IDLE}]
    /\ heard' = heard \ {n}
    /\ UNCHANGED <<rc, pc, it, dangling, map, deque, i, reports, msgs, requests, faults,
                   cast, late>>

-----------------------------------------------------------------------------
process_rcs ==
    \/ \E event \in RCcommand \cup {"unknown"} : WriteEvent(event)
    \/ \E n \in Nodes, s \in Routes : Route(n, s)
    \/ push_unicast \/ EndBroadcast \/ UnicastTimeout

Collect == (\E n \in Nodes : map_insert(n)) \/ CollectorTimeout
Clean   == map_clean \/ EndClean

Node(n) ==
    \/ \E k \in DOMAIN msgs[n] : HandleRequest(n, k)
    \/ SendReport(n) \/ Crash(n) \/ Restart(n)

Next == process_rcs \/ Collect \/ Clean \/ Tick \/ \E n \in Nodes : Node(n)

Spec == Init /\ [][Next]_vars

\* The collector thread is scheduled and takes a report that is there; time
\* passes; a node that is up takes its messages and reports.
Fairness ==
    /\ WF_vars(Clean) /\ WF_vars(Collect) /\ WF_vars(Tick)
    /\ \A n \in Nodes : SF_vars(map_insert(n)) /\ WF_vars(SendReport(n))
FairSpec == Spec /\ Fairness

-----------------------------------------------------------------------------
(* Properties.                                                             *)

\* Types; the deque has no more elements than there are nodes to erase.
TypeOK ==
    /\ rc \in RCstate /\ pc \in {"recv", "push", "wait"} /\ it \in 1..End
    /\ map \subseteq Nodes
    /\ \A k \in DOMAIN deque : deque[k] \in Nodes \X (0..(EXPIRY + 1))
    /\ i \in 0..(NNodes + 1)
    /\ up \in [Nodes -> BOOLEAN] /\ state \in [Nodes -> RCstate]
    /\ \A n \in Nodes : \A k \in DOMAIN msgs[n] :
          msgs[n][k] \in [status : RCstate, req : 0..MaxRequests]

\* The map and the deque describe the same nodes, each once: map.cpp erases
\* map elements through the iterators in the deque.
MapMatchesDeque ==
    /\ {deque[k][1] : k \in DOMAIN deque} = map
    /\ Len(deque) = Cardinality(map)

\* A node to which no message is on its way is in the state that was last
\* sent to it, or in one that was still under way at that time and came after
\* it: rcs.cpp 198-232 gives every message a socket of its own and does not
\* wait.  If nothing else was under way when the last broadcast was pushed to
\* it, and nothing was sent since, it is in the controller's state.
InSync ==
    \A n \in Nodes : up[n] /\ msgs[n] = <<>> =>
        /\ state[n] \in race[n]
        /\ n \in heard /\ (\A r, s \in race[n] : r = s) => state[n] = rc

\* A broadcast whose iterator has met no erased element has pushed once to
\* every node that was in the map from its first to its last step, and to no
\* node twice, though the collector has inserted and erased others while
\* push_broadcast() (rcs.cpp 213-224) walked through the map.
BroadcastReaches ==
    pc = "push" /\ it = End /\ ~cast.strayed =>
        /\ \A n \in cast.targets : \E k \in DOMAIN cast.told : cast.told[k] = n
        /\ \A j, k \in DOMAIN cast.told : cast.told[j] = cast.told[k] => j = k

RC == INSTANCE RunControl
\* The controller and its nodes implement RunControl: whatever broadcasts,
\* requests for one node, crashes and restarts overlap, a node takes only a
\* state that the controller had, or that the node was asked to take, when
\* it was sent, and none that had arrived or was lost before.
NodesFollow == RC!Spec

\* A request that was answered with an error is not executed afterwards.
FailedIsNotDone == ~late

\* A node that is gone leaves the map, though map_clean() skips the element
\* behind each one that it erases.
GoneNodesLeave == \A n \in Nodes : <>[](~up[n]) => <>[](n \notin map)
=============================================================================

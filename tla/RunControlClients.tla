-------------------------- MODULE RunControlClients -------------------------
(***************************************************************************)
(* The clients of the run control socket of FzController: its own command  *)
(* line (controller/cli.cpp), the ECC service of GANIL                     *)
(* (plugins/ganil-ecc) and the EPICS server (plugins/epics).  Each sends a *)
(* request and waits for the answer, the command line three seconds, the   *)
(* others a tenth of one; then it goes on with another socket.  A request  *)
(* that was given up is still on its way and is executed when its turn     *)
(* comes, behind requests that were sent later or before them.             *)
(***************************************************************************)
EXTENDS RCFSM, FiniteSets

CONSTANTS
    MaxCli, MaxEcc, MaxEpics,  \* bounds: requests of each client
    MaxLate                    \* bound: answers not waited for, and restarts of the controller

ASSUME ClientsAssumption ==
    MaxCli \in Nat /\ MaxEcc \in Nat /\ MaxEpics \in Nat /\ MaxLate \in Nat

Clients == {"cli", "ecc", "epics"}
Bound   == [cli |-> MaxCli, ecc |-> MaxEcc, epics |-> MaxEpics]
Lines   == RCcommand \cup {"store"}   \* what is typed; "nostore" is like "store"

VARIABLES
    rc, available,    \* the controller: its state; whether there are nodes
    requests,         \* [id, client, value]: not taken by the controller yet
    answer,           \* the answer in the socket of each client
    late,             \* answers that were not waited for, and restarts
    nreq,             \* requests of each client so far; they are numbered
    wait,             \* the request whose answer each client waits for, or 0
    line, said,       \* the command line: the command, what was printed,
    stage,            \* and the requests it has taken
    ecc,              \* eccState
    transition        \* EPICS: RC:transition

\* History, not in the programs.
VARIABLES
    done,     \* requests that were carried out, ECC's left aside: <<client, id>>
    inStep    \* no disturbance between ECC and the controller (see Disturbs)

vars == <<rc, available, requests, answer, late, nreq, wait, line, said, stage, ecc, transition, done,
          inStep>>

Init ==
    /\ rc = IDLE /\ available \in BOOLEAN
    /\ requests = {} /\ answer = [c \in Clients |-> "none"] /\ late = 0
    /\ nreq = [c \in Clients |-> 0] /\ wait = [c \in Clients |-> 0]
    /\ line = "none" /\ said = "none" /\ stage = 0 /\ ecc = "IDLE" /\ transition = "OK"
    /\ done = {} /\ inStep = TRUE

-----------------------------------------------------------------------------
(* The controller: one request after the other, and always an answer.      *)

\* The last node has left the map, or the first has come.
NodesChange ==
    /\ available' = ~available
    /\ UNCHANGED <<rc, requests, answer, late, nreq, wait, line, said, stage, ecc, transition,
                   done, inStep>>

Carried_out(r) == available /\ try_process(rc, r.value) # RCERROR

\* The request is no longer the last one of ECC, or another client's, or it
\* fails: ECC and the controller may part.  A reset by ECC brings them
\* together again unless an older request of ECC is still to come.
Disturbs(r) == IF r.client = "ecc" THEN r.id # wait["ecc"] \/ ~Carried_out(r)
               ELSE Carried_out(r) /\ process(rc, r.value) # rc
Restores(r) ==
    /\ r.client = "ecc" /\ r.id = wait["ecc"] /\ r.value = "reset" /\ Carried_out(r)
    /\ \A q \in requests : q.client = "ecc" => q = r

\* Mutant: the socket is used again, with the answer to an earlier request.
Awaited_any(r) == wait[r.client] # 0
\* A request that was given up is answered through a socket that is closed.
Awaited(r) == wait[r.client] = r.id

\* "a reply is mandatory in every case"
Reply(r, ok) ==
    /\ requests' = requests \ {r}
    /\ answer' = IF Awaited(r) THEN [answer EXCEPT ![r.client] = IF ok THEN "OK" ELSE "ERR"]
                 ELSE answer
    /\ done' = IF ok /\ r.client # "ecc" THEN done \cup {<<r.client, r.id>>} ELSE done

handle_event(r) ==
    /\ r \in requests /\ r.value \in RCcommand
    /\ Reply(r, Carried_out(r))
    /\ rc' = IF Carried_out(r) THEN process(rc, r.value) ELSE rc
    /\ inStep' = (Restores(r) \/ (inStep /\ ~Disturbs(r)))
    /\ UNCHANGED <<available, late, nreq, wait, line, said, stage, ecc, transition>>

\* "store" and "nostore" are routed to the node manager on the controller's
\* machine, if there is one.
handle_setup(r) ==
    /\ r \in requests /\ r.value \notin RCcommand
    /\ \E ok \in BOOLEAN : Reply(r, ok)
    /\ UNCHANGED <<rc, available, late, nreq, wait, line, said, stage, ecc, transition, inStep>>

-----------------------------------------------------------------------------
(* Requests and answers.                                                   *)

Request(c, value) ==
    /\ nreq[c] < Bound[c]
    /\ nreq' = [nreq EXCEPT ![c] = @ + 1]
    /\ requests' = requests \cup {[id |-> nreq'[c], client |-> c, value |-> value]}
    /\ wait' = [wait EXCEPT ![c] = nreq'[c]]

Close(c) == wait' = [wait EXCEPT ![c] = 0] /\ answer' = [answer EXCEPT ![c] = "none"]

\* recv() returns the answer ...
Answered(c) == wait[c] # 0 /\ answer[c] # "none" /\ Close(c) /\ UNCHANGED late

\* ... or there is none in time.
GiveUp(c) == wait[c] # 0 /\ late < MaxLate /\ late' = late + 1 /\ Close(c)

-----------------------------------------------------------------------------
(* The command line: "start" is a configure and a start.                   *)

CliCommand(l) ==
    /\ wait["cli"] = 0
    /\ Request("cli", IF l = "start" THEN "configure" ELSE l)
    /\ line' = l /\ said' = "none" /\ stage' = 1
    /\ UNCHANGED <<rc, available, answer, late, ecc, transition, done, inStep>>

\* Behind the configure of "start".
CliContinue ==
    /\ answer["cli"] = "OK" /\ line = "start" /\ stage = 1
    /\ Request("cli", "start")
    /\ stage' = 2 /\ answer' = [answer EXCEPT !["cli"] = "none"]
    /\ UNCHANGED <<rc, available, late, line, said, ecc, transition, done, inStep>>

\* Mutant: res is not read from the answer of any command.
Printed_unread == "OK"
\* For "store" and "nostore" the answer is not looked at: res is still empty.
Printed == IF line \notin RCcommand THEN "OK" ELSE answer["cli"]

CliAnswer ==
    /\ line = "start" => answer["cli"] # "OK" \/ stage = 2
    /\ Answered("cli")
    /\ said' = Printed
    /\ UNCHANGED <<rc, available, requests, nreq, line, stage, ecc, transition, done, inStep>>

CliTimeout ==
    /\ GiveUp("cli")
    /\ said' = "failed"
    /\ UNCHANGED <<rc, available, requests, nreq, line, stage, ecc, transition, done, inStep>>

\* "quit" is a command, read when the one before it is through.
CliQuits == wait["cli"] = 0

\* close_rcs() drops the requests that have reached the socket, those of the
\* command line with them; what other clients still hold is kept.
close_rcs(lost) ==
    /\ lost \subseteq requests /\ \A r \in requests : r.client = "cli" => r \in lost
    /\ requests' = requests \ lost

\* main(): a new state machine, an empty map and a new command line.
NewController ==
    /\ rc' = IDLE /\ available' = FALSE
    /\ line' = "none" /\ said' = "none" /\ stage' = 0

\* The controller is ended and, later, started again; the requests that were
\* kept are delivered to the new one.
Quit(lost) ==
    /\ CliQuits /\ late < MaxLate
    /\ late' = late + 1
    /\ close_rcs(lost)
    /\ NewController
    /\ inStep' = (inStep /\ rc = IDLE /\ \A r \in lost : r.client # "ecc")
    /\ UNCHANGED <<answer, nreq, wait, ecc, transition, done>>

-----------------------------------------------------------------------------
(* The ECC service.                                                        *)

\* Mutant: Stop of a running acquisition sends a reset.
SoapCalls_no_stop ==
    {<<"IDLE", "DESCRIBED", "reset">>, <<"DESCRIBED", "PREPARED", "reset">>,
     <<"PREPARED", "READY", "configure">>, <<"READY", "RUNNING", "start">>,
     <<"RUNNING", "READY", "reset">>, <<"PAUSED", "READY", "configure">>,
     <<"RUNNING", "PAUSED", "stop">>, <<"PAUSED", "RUNNING", "start">>,
     <<"READY", "PREPARED", "reset">>, <<"PREPARED", "DESCRIBED", "reset">>,
     <<"DESCRIBED", "IDLE", "reset">>}
\* Describe, Prepare, Configure, Start, Stop (2), Pause, Resume, Breakup and
\* Undo (2): from a state to a state, with a command to the controller.
SoapCalls ==
    {<<"IDLE", "DESCRIBED", "reset">>, <<"DESCRIBED", "PREPARED", "reset">>,
     <<"PREPARED", "READY", "configure">>, <<"READY", "RUNNING", "start">>,
     <<"RUNNING", "READY", "stop">>, <<"PAUSED", "READY", "configure">>,
     <<"RUNNING", "PAUSED", "stop">>, <<"PAUSED", "RUNNING", "start">>,
     <<"READY", "PREPARED", "reset">>, <<"PREPARED", "DESCRIBED", "reset">>,
     <<"DESCRIBED", "IDLE", "reset">>}

\* The state changes first, whatever the answer.
SoapCall(call) ==
    /\ ecc = call[1]
    /\ wait["ecc"] = 0 /\ Request("ecc", call[3])
    /\ ecc' = call[2]
    /\ UNCHANGED <<rc, available, answer, late, line, said, stage, transition, done, inStep>>

\* The answer is not looked at; without one there will be another socket.
EccReturns ==
    /\ Answered("ecc") \/ GiveUp("ecc")
    /\ UNCHANGED <<rc, available, requests, nreq, line, said, stage, ecc, transition, done,
                   inStep>>

-----------------------------------------------------------------------------
(* The EPICS server.                                                       *)

PvWrite(cmd) ==
    /\ wait["epics"] = 0 /\ Request("epics", cmd)
    /\ UNCHANGED <<rc, available, answer, late, line, said, stage, ecc, transition, done,
                   inStep>>

EpicsAnswer ==
    /\ Answered("epics")
    /\ transition' = IF answer["epics"] = "OK" THEN "OK" ELSE "ERROR"
    /\ UNCHANGED <<rc, available, requests, nreq, line, said, stage, ecc, done, inStep>>

EpicsTimeout ==
    /\ GiveUp("epics")
    /\ transition' = "ERROR"
    /\ UNCHANGED <<rc, available, requests, nreq, line, said, stage, ecc, done, inStep>>

-----------------------------------------------------------------------------
Controller == NodesChange \/ (\E r \in requests : handle_event(r) \/ handle_setup(r))
Cli == (\E l \in Lines : CliCommand(l)) \/ CliContinue \/ CliAnswer \/ CliTimeout
       \/ (\E lost \in SUBSET requests : Quit(lost))
Ecc == (\E call \in SoapCalls : SoapCall(call)) \/ EccReturns
Epics == (\E cmd \in RCcommand : PvWrite(cmd)) \/ EpicsAnswer \/ EpicsTimeout

Next == Controller \/ Cli \/ Ecc \/ Epics

Spec == Init /\ [][Next]_vars

-----------------------------------------------------------------------------
(* Properties.                                                             *)

TypeOK ==
    /\ rc \in RCstate /\ stage \in 0..2
    /\ \A c \in Clients : nreq[c] \in 0..Bound[c] /\ wait[c] \in {0, nreq[c]}
    /\ \A r \in requests : r.client \in Clients /\ r.id \in 1..nreq[r.client] /\ r.value \in Lines
    /\ \A c \in Clients : answer[c] # "none" =>
          wait[c] # 0 /\ \A r \in requests : <<r.client, r.id>> # <<c, wait[c]>>

\* What the command line and EPICS report as carried out was carried out:
\* "configured and started" means both.
OkIsDone ==
    /\ said = "OK" /\ line \in RCcommand =>
          /\ <<"cli", nreq["cli"]>> \in done
          /\ line = "start" => stage = 2 /\ <<"cli", nreq["cli"] - 1>> \in done
    /\ nreq["epics"] > 0 /\ wait["epics"] = 0 /\ transition = "OK" =>
          <<"epics", nreq["epics"]>> \in done

\* The states of the controller behind each state of ECC: Stop only pauses it.
Behind == [IDLE |-> {IDLE}, DESCRIBED |-> {IDLE}, PREPARED |-> {IDLE},
           READY |-> {READY, PAUSED}, RUNNING |-> {RUNNING}, PAUSED |-> {PAUSED}]

\* ECC, which never looks at the controller's state, is in step with it as
\* long as no answer is late, no request refused or lost, no other client changes
\* the state and no restart forgets it; and a reset that gets through brings them in step again.
EccInStep ==
    inStep /\ (\A r \in requests : r.client # "ecc") => rc \in Behind[ecc]
=============================================================================

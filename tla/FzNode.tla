------------------------------- MODULE FzNode -------------------------------
(***************************************************************************)
(* One FzDAQ process with the profile "all" (src/src/main/FzDAQ-mt.cpp):   *)
(* the reader thread, the parser threads and the writer thread, joined by  *)
(* 0MQ pipes of limited capacity, under the run control of the command     *)
(* line (local mode) or of FzNodeManager's comm thread (remote mode).      *)
(*                                                                         *)
(* The run control state is distributed thread by thread (rc_event_do,     *)
(* rc_state_do), with no lock, while the threads work.  Events are natural *)
(* numbers; runOf records the run they were acquired in.  What the parsers *)
(* and the writer do with an event is in FzParser and FzWriter.            *)
(***************************************************************************)
EXTENDS RCFSM, FiniteSets, SequencesExt

CONSTANTS
    NParsers,    \* nthreads
    HWM,         \* messages a 0MQ pipe holds before send() blocks
    Burst,       \* the most events that end in one datagram
    Modes,       \* the values of "remote run control" (runcontrol_mode) considered
    MaxEvents,   \* bound: events acquired
    MaxCommands  \* bound: run control commands

ASSUME NodeAssumption ==
    /\ NParsers \in Nat \ {0} /\ HWM \in Nat \ {0} /\ Burst \in Nat \ {0}
    /\ Modes \in SUBSET BOOLEAN \ {{}}
    /\ MaxEvents \in Nat /\ MaxCommands \in Nat

Parsers == 1..NParsers
Reader  == 0
Writer  == NParsers + 1
Components == 0..(NParsers + 1)

\* The order of rc_event_do() and rc_state_do(), and of the joins in main().
InOrder == [k \in 1..(NParsers + 2) |-> k - 1]

VARIABLES
    remote,    \* fznodemanager.runcontrol_mode
    rc,        \* rc.state() or, in remote mode, FzNodeManager's state
    cmds,      \* what the controlling thread still has to process
    todo,      \* the components it still has to hand rc to
    ncmds,
    quitting,  \* main() has left its command loop
    joins,     \* the threads main() still has to join
    rcstate,   \* the run control state each thread looks at
    pc,        \* where each thread is
    interrupted,
    ev,        \* the event each thread holds, or NoEvent
    more,      \* the events that still end in the reader's datagram
    rd2psr,    \* the pipes from the reader, one for each parser
    psr2wr,    \* the pipes to the writer, one for each parser
    stored, dropped,  \* the events the writer took, the events a parser refused
    late       \* history: events taken since the component left RUNNING

VARIABLES
    run, runOf, \* history: the starts so far, the one each event was acquired in
    dir,        \* the start that made the writer's current run directory
    storedIn    \* history: where each event went

control == <<remote, rc, cmds, todo, ncmds, quitting, joins, interrupted>>
data    == <<ev, more, rd2psr, psr2wr, stored, dropped, runOf, storedIn>>
vars == <<control, rcstate, pc, data, late, run, dir>>

NoEvent == 0
Events  == 1..MaxEvents

Init ==
    /\ remote \in Modes
    /\ rc = IDLE /\ cmds = <<>> /\ todo = <<>> /\ ncmds = 0
    /\ quitting = FALSE /\ joins = InOrder
    /\ rcstate = [c \in Components |-> IDLE]
    /\ pc = [c \in Components |-> "check"]
    /\ interrupted = {}
    /\ ev = [c \in Components |-> NoEvent] /\ more = 0
    /\ rd2psr = [p \in Parsers |-> <<>>] /\ psr2wr = [p \in Parsers |-> <<>>]
    /\ stored = {} /\ dropped = {}
    /\ late = [c \in Components |-> 0]
    /\ run = 0 /\ dir = 0 /\ runOf = <<>> /\ storedIn = <<>>

-----------------------------------------------------------------------------
(* Run control.                                                            *)

\* The loop of main() in local mode.  "start" is configure and start.
Command(c) ==
    /\ ~remote /\ ~quitting /\ cmds = <<>> /\ todo = <<>>
    /\ ncmds < MaxCommands
    /\ ncmds' = ncmds + 1
    /\ cmds' = IF c = "start" THEN <<"configure", "start">> ELSE <<c>>
    /\ UNCHANGED <<remote, rc, todo, quitting, joins, interrupted, rcstate, pc, data, late, run, dir>>

\* rc_process(): the state machine; a state that changes, or a reset, is
\* handed to the threads.
rc_process ==
    /\ ~remote /\ cmds # <<>> /\ todo = <<>>
    /\ rc' = process(rc, Head(cmds))
    /\ cmds' = Tail(cmds)
    /\ todo' = IF Head(cmds) = "reset" \/ rc' # rc THEN InOrder ELSE <<>>
    /\ run' = IF rc' = RUNNING /\ rc # RUNNING THEN run + 1 ELSE run
    /\ UNCHANGED <<remote, ncmds, quitting, joins, interrupted, rcstate, pc, data, late, dir>>

\* handle_request() in remote mode: the state is taken as it is.
WriteStatus(s) ==
    /\ remote /\ ~quitting /\ todo = <<>>
    /\ ncmds < MaxCommands
    /\ ncmds' = ncmds + 1
    /\ rc' = s
    /\ todo' = InOrder
    /\ run' = IF s = RUNNING /\ rc # RUNNING THEN run + 1 ELSE run
    /\ UNCHANGED <<remote, cmds, quitting, joins, interrupted, rcstate, pc, data, late, dir>>

\* Mutant: the writer is left out.
Handed_no_writer == IF Head(todo) = Writer THEN Reader ELSE Head(todo)
Handed == Head(todo)

\* The writer allocates a directory when a start finds it READY or PAUSED.
StartsRun == Handed = Writer /\ rcstate[Writer] \in {READY, PAUSED} /\ rc = RUNNING

\* One set_rcstate() of rc_event_do() or rc_state_do().
SetRcstate ==
    /\ todo # <<>>
    /\ rcstate' = [rcstate EXCEPT ![Handed] = rc]
    /\ late' = IF rc = RUNNING THEN [late EXCEPT ![Handed] = 0] ELSE late
    /\ dir' = IF StartsRun THEN run ELSE dir
    /\ todo' = Tail(todo)
    /\ UNCHANGED <<remote, rc, cmds, ncmds, quitting, joins, interrupted, pc, data, run>>

\* "quit": nm->close(), then a stop; in remote mode rc is idle and refuses it.
Quit ==
    /\ ~quitting /\ cmds = <<>> /\ todo = <<>>
    /\ quitting' = TRUE
    /\ cmds' = IF remote THEN <<>> ELSE <<"stop">>
    /\ UNCHANGED <<remote, rc, todo, ncmds, joins, interrupted, rcstate, pc, data, late, run, dir>>

\* close() of the next thread: interrupt() and join().
Interrupt ==
    /\ quitting /\ cmds = <<>> /\ todo = <<>> /\ joins # <<>>
    /\ Head(joins) \notin interrupted
    /\ interrupted' = interrupted \cup {Head(joins)}
    /\ UNCHANGED <<remote, rc, cmds, todo, ncmds, quitting, joins, rcstate, pc, data, late, run, dir>>

Join ==
    /\ joins # <<>> /\ Head(joins) \in interrupted
    /\ pc[Head(joins)] = "ended"
    /\ joins' = Tail(joins)
    /\ UNCHANGED <<remote, rc, cmds, todo, ncmds, quitting, interrupted, rcstate, pc, data, late, run, dir>>

\* The process is over.
Over == joins = <<>> /\ UNCHANGED vars

-----------------------------------------------------------------------------
(* The threads.                                                            *)

Goto(c, l) == pc' = [pc EXCEPT ![c] = l]

\* An interruption point: between two events, in the loop or in the sleep.
End(c) ==
    /\ pc[c] = "check" /\ c \in interrupted
    /\ Goto(c, "ended")
    /\ UNCHANGED <<control, rcstate, data, late, run, dir>>

\* Not running: one second of sleep.
Sleep(c) ==
    /\ pc[c] = "check" /\ rcstate[c] # RUNNING /\ c \notin interrupted
    /\ UNCHANGED vars

Check(c) ==
    /\ pc[c] = "check" /\ rcstate[c] = RUNNING
    /\ Goto(c, "recv")
    /\ UNCHANGED <<control, rcstate, data, late, run, dir>>

\* recv() or ns_mgr_poll() without result.
Timeout(c) ==
    /\ pc[c] = "recv"
    /\ Goto(c, "check")
    /\ UNCHANGED <<control, rcstate, data, late, run, dir>>

Late(c) == IF rcstate[c] = RUNNING THEN late ELSE [late EXCEPT ![c] = @ + 1]

\* ns_mgr_poll() has called udp_handler() with a datagram in which n events
\* end; the first is complete.  One in which none ends is a Timeout.
Acquire(n) ==
    /\ pc[Reader] = "recv"
    /\ Len(runOf) + n <= MaxEvents
    /\ ev' = [ev EXCEPT ![Reader] = Len(runOf) + 1]
    /\ more' = n - 1
    /\ runOf' = Append(runOf, run)
    /\ late' = Late(Reader)
    /\ Goto(Reader, "send")
    /\ UNCHANGED <<control, rcstate, rd2psr, psr2wr, stored, dropped, storedIn, run, dir>>

\* The loop of udp_handler() behind a send(): the next event of the datagram,
\* without a look at rcstate, or the end of the callback.
NextInDatagram ==
    IF more > 0
    THEN /\ ev' = [ev EXCEPT ![Reader] = Len(runOf) + 1]
         /\ more' = more - 1
         /\ runOf' = Append(runOf, runOf[ev[Reader]])
         /\ late' = Late(Reader)
         /\ UNCHANGED pc
    ELSE /\ ev' = [ev EXCEPT ![Reader] = NoEvent]
         /\ Goto(Reader, "check")
         /\ UNCHANGED <<more, runOf, late>>

\* The PUSH socket takes the next pipe that has room and a parser behind it;
\* with none, send() blocks and is no interruption point.
ReaderSend(p) ==
    /\ pc[Reader] = "send"
    /\ Len(rd2psr[p]) < HWM /\ pc[p] # "ended"
    /\ rd2psr' = [rd2psr EXCEPT ![p] = Append(@, ev[Reader])]
    /\ NextInDatagram
    /\ UNCHANGED <<control, rcstate, psr2wr, stored, dropped, storedIn, run, dir>>

\* Mutant: the event stays in the pipe.
Received_twice(s) == s
Received(s) == Tail(s)

\* Mutant: the answer of process() is not looked at.
AfterParse_sends(good) == "send"
AfterParse(good) == IF good THEN "send" ELSE "check"

\* The event is analysed: forwarded, or refused (PARSE_FAIL, or empty).
ParserRecv(p) ==
    /\ pc[p] = "recv" /\ rd2psr[p] # <<>>
    /\ rd2psr' = [rd2psr EXCEPT ![p] = Received(@)]
    /\ late' = Late(p)
    /\ \E good \in BOOLEAN :
          /\ Goto(p, AfterParse(good))
          /\ ev' = IF good THEN [ev EXCEPT ![p] = Head(rd2psr[p])] ELSE ev
          /\ dropped' = IF good THEN dropped ELSE dropped \cup {Head(rd2psr[p])}
    /\ UNCHANGED <<control, rcstate, more, psr2wr, stored, runOf, storedIn, run, dir>>

\* Mutant: back to recv() without a look at rcstate.
AfterSend_recv == "recv"
AfterSend == "check"

ParserSend(p) ==
    /\ pc[p] = "send"
    /\ Len(psr2wr[p]) < HWM /\ pc[Writer] # "ended"
    /\ psr2wr' = [psr2wr EXCEPT ![p] = Append(@, ev[p])]
    /\ ev' = [ev EXCEPT ![p] = NoEvent]
    /\ Goto(p, AfterSend)
    /\ UNCHANGED <<control, rcstate, more, rd2psr, stored, dropped, runOf, storedIn, late, run, dir>>

\* One event of one of the pipes; it goes to the writer's directory.
WriterRecv(p) ==
    /\ pc[Writer] = "recv" /\ psr2wr[p] # <<>>
    /\ psr2wr' = [psr2wr EXCEPT ![p] = Tail(@)]
    /\ stored' = stored \cup {Head(psr2wr[p])}
    /\ storedIn' = Append(storedIn, <<Head(psr2wr[p]), dir>>)
    /\ late' = Late(Writer)
    /\ Goto(Writer, "check")
    /\ UNCHANGED <<control, rcstate, ev, more, rd2psr, dropped, runOf, run, dir>>

ReaderThread == (\E p \in Parsers : ReaderSend(p)) \/ (\E n \in 1..Burst : Acquire(n))
ParserThread(p) == ParserRecv(p) \/ ParserSend(p)
WriterThread == \E p \in Parsers : WriterRecv(p)
Loop(c) == End(c) \/ Sleep(c) \/ Check(c) \/ Timeout(c)

ControlThread == rc_process \/ SetRcstate \/ Interrupt \/ Join

Next ==
    \/ \E c \in RCcommand : Command(c)
    \/ \E s \in RCstate : WriteStatus(s)
    \/ Quit \/ Over \/ ControlThread
    \/ \E c \in Components : Loop(c)
    \/ ReaderThread \/ WriterThread \/ \E p \in Parsers : ParserThread(p)

Spec == Init /\ [][Next]_vars

\* Every thread is scheduled; a thread that may receive does so at last, and
\* every pipe is served (0MQ queues fairly).
Fairness ==
    /\ WF_vars(ControlThread)
    /\ \A c \in Components : WF_vars(End(c)) /\ WF_vars(Check(c)) /\ WF_vars(Timeout(c))
    /\ \A p \in Parsers : /\ SF_vars(ReaderSend(p)) /\ SF_vars(ParserRecv(p))
                          /\ WF_vars(ParserSend(p)) /\ SF_vars(WriterRecv(p))
FairSpec == Spec /\ Fairness

-----------------------------------------------------------------------------
(* Properties.                                                             *)

\* Types; a pipe never holds more than its capacity, and a thread has an event
\* exactly while it is about to send it.
TypeOK ==
    /\ rc \in RCstate /\ rcstate \in [Components -> RCstate]
    /\ pc \in [Components -> {"check", "recv", "send", "ended"}]
    /\ ev \in [Components -> Events \cup {NoEvent}]
    /\ \A p \in Parsers : Len(rd2psr[p]) <= HWM /\ Len(psr2wr[p]) <= HWM
    /\ \A c \in Components : pc[c] = "send" <=> ev[c] # NoEvent

\* Every event acquired is at exactly one place, through all starts and
\* stops: with a thread, in a pipe, refused or stored.
InPipes(pipes, e) ==
    Cardinality({x \in Parsers \X (1..HWM) : x[2] <= Len(pipes[x[1]]) /\ pipes[x[1]][x[2]] = e})
Places(e) ==
    Cardinality({c \in Components : ev[c] = e}) + InPipes(rd2psr, e) + InPipes(psr2wr, e)
      + (IF e \in dropped THEN 1 ELSE 0) + (IF e \in stored THEN 1 ELSE 0)
EventsConserved == \A e \in 1..Len(runOf) : Places(e) = 1

\* Once its state is not RUNNING any more, a parser and the writer take at most
\* one event, the one they were waiting for.  The reader takes at most those
\* of one datagram, the one that it has or waits for: the callback looks at
\* rcstate only when all of them are sent (FzReader.cpp 159-201, 232).
LateBounded == \A c \in Components : late[c] <= IF c = Reader THEN Burst ELSE 1

\* An event goes to the run it was acquired in.
StoredInItsRun == \A k \in DOMAIN storedIn : runOf[storedIn[k][1]] = storedIn[k][2]

\* While the acquisition runs, the reader does not stay blocked.
Flows == (pc[Reader] = "send") ~> (pc[Reader] # "send" \/ rc # RUNNING \/ quitting)

\* FzDAQ-mt.cpp 406: "quit from FzDAQ".
QuitEnds == quitting ~> joins = <<>>
=============================================================================

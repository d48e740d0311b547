---------------------------- MODULE FzNodeProofs ----------------------------
(***************************************************************************)
(* Proofs about FzNode, for every number of parsers, every capacity of the *)
(* pipes and every number of events and commands.                          *)
(***************************************************************************)
EXTENDS FzNode, FiniteSetTheorems, SequenceTheorems, TLAPS

Labels == {"check", "recv", "send", "ended"}

\* What the controlling thread works on.
ControlType ==
    /\ rc \in RCstate /\ cmds \in Seq(RCcommand) /\ todo \in Seq(Components)
    /\ rcstate \in [Components -> RCstate]

\* Where the threads are and what they hold.
ThreadType ==
    /\ pc \in [Components -> Labels]
    /\ ev \in [Components -> Events \cup {NoEvent}]
    /\ \A c \in Components : pc[c] = "send" <=> ev[c] # NoEvent

\* The pipes and the events acquired so far.
PipeType ==
    /\ rd2psr \in [Parsers -> Seq(Events)] /\ psr2wr \in [Parsers -> Seq(Events)]
    /\ \A p \in Parsers : Len(rd2psr[p]) <= HWM /\ Len(psr2wr[p]) <= HWM
    /\ runOf \in Seq(Nat) /\ run \in Nat

\* The datagram of the reader: its events have their numbers in advance, and
\* between two datagrams none is left.
DatagramType ==
    /\ more \in Nat /\ Len(runOf) + more <= MaxEvents
    /\ more # 0 => pc[Reader] = "send"
    /\ ev[Reader] # NoEvent => ev[Reader] \in 1..Len(runOf)

\* A thread that runs, or that still waits for an event though it does not
\* run any more, has not taken any since it left RUNNING.  What the reader took
\* and what is left of its datagram do not exceed a datagram.
LateInv ==
    /\ late \in [Components -> Nat]
    /\ \A c \in Components : (pc[c] = "recv" \/ rcstate[c] = RUNNING) => late[c] = 0
    /\ \A c \in Components : c # Reader => late[c] <= 1
    /\ late[Reader] + more <= Burst

NodeInv == ControlType /\ ThreadType /\ PipeType /\ DatagramType /\ LateInv

-----------------------------------------------------------------------------
(* The constants.                                                          *)

LEMMA ComponentFacts ==
    /\ Parsers \subseteq Components /\ Reader \in Components /\ Writer \in Components
    /\ Reader \notin Parsers /\ Writer \notin Parsers /\ Reader # Writer
    /\ InOrder \in Seq(Components)
    /\ Events \subseteq Nat /\ NoEvent \notin Events
    /\ HWM \in Nat /\ HWM > 0 /\ MaxEvents \in Nat /\ Burst \in Nat /\ Burst > 0
  BY NodeAssumption DEF Parsers, Components, Reader, Writer, InOrder, Events, NoEvent

\* RCFSM leads from states to states.
LEMMA ProcessType ==
    \A s \in RCstate, cmd \in RCcommand : process(s, cmd) \in RCstate
  BY DEF RCstate, RCcommand, process, try_process, rc_ttable, TransitionTo, RCERROR, RCOK,
         IDLE, READY, RUNNING, PAUSED

LEMMA StateFacts == /\ IDLE \in RCstate /\ RUNNING \in RCstate /\ IDLE # RUNNING
  BY DEF RCstate, IDLE, RUNNING

-----------------------------------------------------------------------------
LEMMA InitInv == Init => NodeInv
<1> SUFFICES ASSUME Init PROVE NodeInv
  OBVIOUS
<1> USE ComponentFacts, StateFacts
<1>1. ControlType
  BY DEF Init, ControlType
<1>2. ThreadType
  BY DEF Init, ThreadType, Labels
<1>3. PipeType
  BY DEF Init, PipeType
<1>4. LateInv
  BY DEF Init, LateInv
<1>5. DatagramType
  BY EmptySeq DEF Init, DatagramType
<1> QED
  BY <1>1, <1>2, <1>3, <1>4, <1>5 DEF NodeInv

-----------------------------------------------------------------------------
(* Every step preserves the invariant.  The run control first.             *)

\* A step that leaves the threads alone.
LEMMA ControlStep ==
    ASSUME NodeInv, ControlType', UNCHANGED <<rcstate, pc, data, late>>, run' \in Nat
    PROVE  NodeInv'
<1>1. ThreadType'
  BY DEF NodeInv, ThreadType, data
<1>2. PipeType'
  BY DEF NodeInv, PipeType, data
<1>3. DatagramType' /\ LateInv'
  BY DEF NodeInv, DatagramType, LateInv, data
<1> QED
  BY <1>1, <1>2, <1>3 DEF NodeInv

LEMMA CommandInv == ASSUME NodeInv, NEW c \in RCcommand, Command(c) PROVE NodeInv'
<1>1. <<"configure", "start">> \in Seq(RCcommand) /\ <<c>> \in Seq(RCcommand)
  BY DEF RCcommand
<1>2. ControlType'
  BY <1>1 DEF NodeInv, ControlType, Command
<1> QED
  BY <1>2, ControlStep DEF Command, NodeInv, PipeType

LEMMA RcProcessInv == ASSUME NodeInv, rc_process PROVE NodeInv'
<1>1. Head(cmds) \in RCcommand /\ Tail(cmds) \in Seq(RCcommand)
  BY DEF NodeInv, ControlType, rc_process
<1>2. rc' \in RCstate
  BY <1>1, ProcessType DEF NodeInv, ControlType, rc_process
<1>3. todo' \in Seq(Components)
  BY ComponentFacts DEF rc_process
<1>4. ControlType'
  BY <1>1, <1>2, <1>3 DEF NodeInv, ControlType, rc_process
<1>5. run' \in Nat
  BY DEF NodeInv, PipeType, rc_process
<1> QED
  BY <1>4, <1>5, ControlStep DEF rc_process

LEMMA WriteStatusInv == ASSUME NodeInv, NEW s \in RCstate, WriteStatus(s) PROVE NodeInv'
<1>1. ControlType'
  BY ComponentFacts DEF NodeInv, ControlType, WriteStatus
<1>2. run' \in Nat
  BY DEF NodeInv, PipeType, WriteStatus
<1> QED
  BY <1>1, <1>2, ControlStep DEF WriteStatus

LEMMA QuitInv == ASSUME NodeInv, Quit \/ Interrupt \/ Join PROVE NodeInv'
<1>1. <<"stop">> \in Seq(RCcommand) /\ <<>> \in Seq(RCcommand)
  BY DEF RCcommand
<1>2. ControlType' /\ run' \in Nat /\ UNCHANGED <<rcstate, pc, data, late>>
  <2>1. CASE Quit
    BY <1>1, <2>1 DEF NodeInv, ControlType, PipeType, Quit
  <2>2. CASE Interrupt
    BY <2>2 DEF NodeInv, ControlType, PipeType, Interrupt
  <2>3. CASE Join
    BY <2>3 DEF NodeInv, ControlType, PipeType, Join
  <2> QED
    BY <2>1, <2>2, <2>3
<1> QED
  BY <1>2, ControlStep

\* A thread that is set to RUNNING starts from zero; one that leaves RUNNING
\* has zero already.
LEMMA SetRcstateInv == ASSUME NodeInv, SetRcstate PROVE NodeInv'
<1>1. Handed \in Components /\ Tail(todo) \in Seq(Components)
  BY DEF NodeInv, ControlType, SetRcstate, Handed
<1>2. ControlType'
  BY <1>1 DEF NodeInv, ControlType, SetRcstate
<1>3. ThreadType' /\ PipeType'
  BY DEF NodeInv, ThreadType, PipeType, SetRcstate, data
<1>4. DatagramType'
  BY DEF NodeInv, DatagramType, SetRcstate, data
<1>5. LateInv'
  <2>0. more \in Nat /\ more' = more /\ pc' = pc
    BY DEF NodeInv, DatagramType, SetRcstate, data
  <2>1. CASE rc # RUNNING
    BY <1>1, <2>0, <2>1 DEF NodeInv, ControlType, LateInv, SetRcstate
  <2>2. CASE rc = RUNNING
    <3>1. late' = [late EXCEPT ![Handed] = 0] /\ rcstate' = [rcstate EXCEPT ![Handed] = rc]
      BY <2>2 DEF SetRcstate
    <3>2. late' \in [Components -> Nat] /\ \A c \in Components : late'[c] = 0 \/ late'[c] = late[c]
      BY <1>1, <3>1 DEF NodeInv, LateInv
    <3>3. ASSUME NEW c \in Components, pc'[c] = "recv" \/ rcstate'[c] = RUNNING
          PROVE  late'[c] = 0
      <4>1. CASE c = Handed
        BY <1>1, <3>1, <4>1 DEF NodeInv, LateInv
      <4>2. CASE c # Handed
        BY <1>1, <2>0, <3>1, <3>3, <4>2 DEF NodeInv, ControlType, LateInv
      <4> QED
        BY <4>1, <4>2
    <3>4. more <= Burst
      BY <2>0, ComponentFacts DEF NodeInv, LateInv
    <3>5. \A c \in Components : c # Reader => late'[c] <= 1
      BY <3>2 DEF NodeInv, LateInv
    <3>6. late'[Reader] + more' <= Burst
      <4>1. late'[Reader] = 0 \/ late'[Reader] = late[Reader]
        BY <3>2, ComponentFacts
      <4> QED
        BY <2>0, <3>4, <4>1 DEF NodeInv, LateInv
    <3> QED
      BY <3>2, <3>3, <3>5, <3>6 DEF LateInv
  <2> QED
    BY <2>1, <2>2
<1> QED
  BY <1>2, <1>3, <1>4, <1>5 DEF NodeInv

-----------------------------------------------------------------------------
(* The threads.                                                            *)

\* End, Check and Timeout: a thread that goes to recv() is RUNNING.
LEMMA LoopInv == ASSUME NodeInv, NEW c \in Components, Loop(c) PROVE NodeInv'
<1>1. CASE Sleep(c)
  BY <1>1 DEF Sleep, vars, control, data, NodeInv, ControlType, ThreadType, PipeType,
               DatagramType, LateInv
<1>2. ASSUME NEW l \in {"ended", "recv", "check"}, pc' = [pc EXCEPT ![c] = l], pc[c] # "send",
             l = "recv" => rcstate[c] = RUNNING,
             UNCHANGED <<control, rcstate, data, late, run, dir>>
      PROVE  NodeInv'
  <2>1. ControlType' /\ PipeType'
    BY <1>2 DEF NodeInv, ControlType, PipeType, control, data
  <2>2. ThreadType'
    BY <1>2 DEF NodeInv, ThreadType, Labels, data
  <2>3. LateInv'
    BY <1>2 DEF NodeInv, ThreadType, LateInv, data
  <2>4. DatagramType'
    BY <1>2, ComponentFacts DEF NodeInv, ThreadType, DatagramType, data
  <2> QED
    BY <2>1, <2>2, <2>3, <2>4 DEF NodeInv
<1>3. CASE End(c)
  BY <1>2, <1>3 DEF End, Goto
<1>4. CASE Check(c)
  BY <1>2, <1>4 DEF Check, Goto
<1>5. CASE Timeout(c)
  BY <1>2, <1>5 DEF Timeout, Goto
<1> QED
  BY <1>1, <1>3, <1>4, <1>5 DEF Loop

LEMMA OneMore ==
    ASSUME NEW a \in Nat, NEW b \in Nat, NEW n \in Nat, a <= 1, b + 1 <= n PROVE a + b <= n
  OBVIOUS

\* A thread that takes an event leaves recv(), where it had taken none.
LEMMA TakesOne ==
    ASSUME NodeInv, NEW c \in Components, NEW l \in Labels, pc[c] = "recv", l # "recv",
           pc' = [pc EXCEPT ![c] = l], late' = Late(c), rcstate' = rcstate,
           more' \in Nat, c = Reader => more' + 1 <= Burst, c # Reader => more' = more
    PROVE  LateInv'
<1>1. late[c] = 0
  BY DEF NodeInv, LateInv
<1>2. /\ late' \in [Components -> Nat] /\ late'[c] <= 1
      /\ \A k \in Components : k # c => late'[k] = late[k]
  BY <1>1 DEF NodeInv, LateInv, Late
<1>3. ASSUME NEW k \in Components, pc'[k] = "recv" \/ rcstate'[k] = RUNNING
      PROVE  late'[k] = 0
  <2>1. CASE k = c
    BY <1>1, <1>3, <2>1 DEF NodeInv, ThreadType, LateInv, Late
  <2>2. CASE k # c
    BY <1>3, <2>2 DEF NodeInv, ThreadType, LateInv, Late
  <2> QED
    BY <2>1, <2>2
<1>4. \A k \in Components : k # Reader => late'[k] <= 1
  BY <1>2 DEF NodeInv, LateInv
<1>5. late'[Reader] + more' <= Burst
  <2>0. Burst \in Nat /\ Reader \in Components /\ late'[Reader] \in Nat
    BY <1>2, ComponentFacts
  <2>1. CASE c = Reader
    <3>1. late'[Reader] <= 1 /\ more' + 1 <= Burst
      BY <1>2, <2>1
    <3> QED
      BY <2>0, <3>1, OneMore
  <2>2. CASE c # Reader
    BY <1>2, <2>0, <2>2 DEF NodeInv, LateInv
  <2> QED
    BY <2>1, <2>2
<1> QED
  BY <1>2, <1>3, <1>4, <1>5 DEF LateInv

\* A thread that has sent its event looks at its state again.
LEMMA SendsOne ==
    ASSUME NodeInv, NEW c \in Components, pc' = [pc EXCEPT ![c] = "check"],
           UNCHANGED <<late, rcstate, more>>
    PROVE  LateInv'
  BY DEF NodeInv, ThreadType, LateInv

\* A step of a parser or of the writer leaves the reader's datagram alone.
LEMMA SameDatagram ==
    ASSUME NodeInv, NEW c \in Components, c # Reader, NEW l, pc' = [pc EXCEPT ![c] = l],
           ev'[Reader] = ev[Reader], UNCHANGED <<more, runOf>>
    PROVE  DatagramType'
  BY ComponentFacts DEF NodeInv, ThreadType, DatagramType

LEMMA AcquireInv == ASSUME NodeInv, NEW n \in 1..Burst, Acquire(n) PROVE NodeInv'
<1> USE ComponentFacts
<1>0. Len(runOf) \in Nat /\ n \in Nat /\ n >= 1 /\ n <= Burst /\ more' = n - 1
  BY DEF NodeInv, PipeType, Acquire
<1>1. Len(runOf) + 1 \in Events /\ Len(runOf') = Len(runOf) + 1
  BY <1>0 DEF NodeInv, PipeType, Acquire, Events
<1>2. ControlType'
  BY DEF NodeInv, ControlType, Acquire, control
<1>3. ThreadType'
  BY <1>1 DEF NodeInv, ThreadType, Acquire, Goto, Labels
<1>4. PipeType'
  BY DEF NodeInv, PipeType, Acquire
<1>5. LateInv'
  <2>1. /\ pc[Reader] = "recv" /\ pc' = [pc EXCEPT ![Reader] = "send"] /\ late' = Late(Reader)
        /\ rcstate' = rcstate /\ "send" \in Labels
    BY DEF Acquire, Goto, Labels
  <2>2. more' \in Nat /\ more' + 1 <= Burst
    BY <1>0
  <2> QED
    BY <2>1, <2>2, TakesOne
<1>6. DatagramType'
  <2>1. pc'[Reader] = "send" /\ ev'[Reader] = Len(runOf) + 1
    BY DEF Acquire, Goto, NodeInv, ThreadType
  <2>2. Len(runOf') + more' <= MaxEvents
    BY <1>0, <1>1 DEF Acquire
  <2> QED
    BY <1>0, <1>1, <2>1, <2>2 DEF DatagramType
<1> QED
  BY <1>2, <1>3, <1>4, <1>5, <1>6 DEF NodeInv

\* Behind a send() of the reader: the next event of the datagram, or a look at
\* its state.
LEMMA ReaderSendInv == ASSUME NodeInv, NEW p \in Parsers, ReaderSend(p) PROVE NodeInv'
<1> USE ComponentFacts
<1>1. /\ ev[Reader] \in Events /\ ev[Reader] \in 1..Len(runOf) /\ pc[Reader] = "send"
      /\ Len(runOf) \in Nat /\ more \in Nat /\ runOf \in Seq(Nat)
  BY DEF NodeInv, ThreadType, PipeType, DatagramType, ReaderSend
<1>2. ControlType'
  BY DEF NodeInv, ControlType, ReaderSend, control
<1>3. /\ rd2psr' \in [Parsers -> Seq(Events)] /\ psr2wr' \in [Parsers -> Seq(Events)]
      /\ \A q \in Parsers : Len(rd2psr'[q]) <= HWM /\ Len(psr2wr'[q]) <= HWM
      /\ run' \in Nat /\ rcstate' = rcstate
  BY <1>1 DEF NodeInv, PipeType, ReaderSend
<1>4. CASE more > 0
  <2>1. /\ ev' = [ev EXCEPT ![Reader] = Len(runOf) + 1] /\ more' = more - 1 /\ pc' = pc
        /\ runOf' = Append(runOf, runOf[ev[Reader]]) /\ late' = Late(Reader)
    BY <1>4 DEF ReaderSend, NextInDatagram
  <2>2. Len(runOf) + 1 \in Events /\ Len(runOf) + more <= MaxEvents
    BY <1>1, <1>4 DEF NodeInv, DatagramType, Events
  <2>3. runOf[ev[Reader]] \in Nat
    BY <1>1
  <2>4. runOf' \in Seq(Nat) /\ Len(runOf') = Len(runOf) + 1
    BY <1>1, <2>1, <2>3
  <2>5. PipeType'
    BY <1>3, <2>4 DEF PipeType
  <2>6. ThreadType'
    BY <1>1, <2>1, <2>2 DEF NodeInv, ThreadType
  <2>7. DatagramType'
    <3>1. ev'[Reader] = Len(runOf) + 1
      BY <2>1 DEF NodeInv, ThreadType
    <3>2. more' \in Nat /\ Len(runOf') + more' <= MaxEvents /\ ev'[Reader] \in 1..Len(runOf')
      BY <1>1, <1>4, <2>1, <2>2, <2>4, <3>1
    <3> QED
      BY <1>1, <2>1, <3>2 DEF DatagramType
  <2>8. LateInv'
    <3>1. CASE rcstate[Reader] = RUNNING
      <4>1. late' = late /\ late[Reader] = 0 /\ late[Reader] + more <= Burst
        BY <2>1, <3>1 DEF NodeInv, LateInv, Late
      <4>2. late'[Reader] + more' <= Burst
        BY <1>1, <1>4, <2>1, <4>1
      <4> QED
        BY <1>3, <2>1, <4>1, <4>2 DEF NodeInv, LateInv
    <3>2. CASE rcstate[Reader] # RUNNING
      <4>1. /\ late' \in [Components -> Nat] /\ late'[Reader] = late[Reader] + 1
            /\ \A k \in Components : k # Reader => late'[k] = late[k]
        BY <2>1, <3>2 DEF NodeInv, LateInv, Late
      <4>2. late'[Reader] + more' <= Burst
        BY <1>1, <1>4, <2>1, <4>1 DEF NodeInv, LateInv
      <4>3. \A k \in Components : (pc'[k] = "recv" \/ rcstate'[k] = RUNNING) => k # Reader
        BY <1>1, <1>3, <2>1, <3>2
      <4> QED
        BY <1>3, <2>1, <4>1, <4>2, <4>3 DEF NodeInv, LateInv
    <3> QED
      BY <3>1, <3>2
  <2> QED
    BY <1>2, <2>5, <2>6, <2>7, <2>8 DEF NodeInv
<1>5. CASE ~(more > 0)
  <2>1. /\ ev' = [ev EXCEPT ![Reader] = NoEvent] /\ pc' = [pc EXCEPT ![Reader] = "check"]
        /\ UNCHANGED <<more, runOf, late>>
    BY <1>5 DEF ReaderSend, NextInDatagram, Goto
  <2>2. ThreadType'
    BY <2>1 DEF NodeInv, ThreadType, Labels
  <2>3. PipeType'
    BY <1>1, <1>3, <2>1 DEF PipeType
  <2>4. DatagramType'
    BY <1>1, <1>5, <2>1 DEF NodeInv, ThreadType, DatagramType
  <2>5. LateInv'
    BY <1>3, <2>1, SendsOne
  <2> QED
    BY <1>2, <2>2, <2>3, <2>4, <2>5 DEF NodeInv
<1> QED
  BY <1>4, <1>5

LEMMA ParserRecvInv == ASSUME NodeInv, NEW p \in Parsers, ParserRecv(p) PROVE NodeInv'
<1> USE ComponentFacts
<1>1. PICK good \in BOOLEAN :
         /\ pc' = [pc EXCEPT ![p] = AfterParse(good)]
         /\ ev' = IF good THEN [ev EXCEPT ![p] = Head(rd2psr[p])] ELSE ev
  BY DEF ParserRecv, Goto
<1>2. Head(rd2psr[p]) \in Events /\ Received(rd2psr[p]) \in Seq(Events)
      /\ Len(Received(rd2psr[p])) <= HWM
  BY DEF NodeInv, PipeType, ParserRecv, Received
<1>3. AfterParse(good) \in Labels /\ AfterParse(good) # "recv"
      /\ (AfterParse(good) = "send" <=> good)
  BY DEF AfterParse, Labels
<1>4. ControlType'
  BY DEF NodeInv, ControlType, ParserRecv, control
<1>5. ThreadType'
  BY <1>1, <1>2, <1>3 DEF NodeInv, ThreadType, ParserRecv
<1>6. PipeType'
  BY <1>2 DEF NodeInv, PipeType, ParserRecv
<1>0. more' = more /\ more \in Nat /\ p # Reader
  BY DEF NodeInv, DatagramType, ParserRecv
<1>7. LateInv'
  BY <1>0, <1>1, <1>3, TakesOne DEF ParserRecv
<1>8. DatagramType'
  <2>1. ev'[Reader] = ev[Reader]
    BY <1>0, <1>1 DEF NodeInv, ThreadType
  <2> QED
    BY <1>0, <1>1, <2>1, SameDatagram DEF ParserRecv
<1> QED
  BY <1>4, <1>5, <1>6, <1>7, <1>8 DEF NodeInv

LEMMA ParserSendInv == ASSUME NodeInv, NEW p \in Parsers, ParserSend(p) PROVE NodeInv'
<1> USE ComponentFacts
<1>1. ev[p] \in Events
  BY DEF NodeInv, ThreadType, ParserSend
<1>2. ControlType'
  BY DEF NodeInv, ControlType, ParserSend, control
<1>3. ThreadType'
  BY DEF NodeInv, ThreadType, ParserSend, Goto, AfterSend, Labels
<1>4. PipeType'
  BY <1>1 DEF NodeInv, PipeType, ParserSend
<1>5. LateInv'
  BY SendsOne DEF ParserSend, Goto, AfterSend
<1>6. DatagramType'
  <2>1. ev'[Reader] = ev[Reader]
    BY DEF NodeInv, ThreadType, ParserSend
  <2> QED
    BY <2>1, SameDatagram DEF ParserSend, Goto
<1> QED
  BY <1>2, <1>3, <1>4, <1>5, <1>6 DEF NodeInv

LEMMA WriterRecvInv == ASSUME NodeInv, NEW p \in Parsers, WriterRecv(p) PROVE NodeInv'
<1> USE ComponentFacts
<1>1. Tail(psr2wr[p]) \in Seq(Events) /\ Len(Tail(psr2wr[p])) <= HWM
  BY DEF NodeInv, PipeType, WriterRecv
<1>2. ControlType'
  BY DEF NodeInv, ControlType, WriterRecv, control
<1>3. ThreadType'
  BY DEF NodeInv, ThreadType, WriterRecv, Goto, Labels
<1>4. PipeType'
  BY <1>1 DEF NodeInv, PipeType, WriterRecv
<1>0. more' = more /\ more \in Nat
  BY DEF NodeInv, DatagramType, WriterRecv
<1>5. LateInv'
  BY <1>0, TakesOne DEF WriterRecv, Goto, Labels
<1>6. DatagramType'
  BY <1>0, SameDatagram DEF WriterRecv, Goto
<1> QED
  BY <1>2, <1>3, <1>4, <1>5, <1>6 DEF NodeInv

-----------------------------------------------------------------------------
LEMMA NextInv == NodeInv /\ [Next]_vars => NodeInv'
<1> SUFFICES ASSUME NodeInv, [Next]_vars PROVE NodeInv'
  OBVIOUS
<1>1. CASE UNCHANGED vars
  BY <1>1 DEF vars, control, data, NodeInv, ControlType, ThreadType, PipeType, DatagramType,
              LateInv
<1>2. CASE \E c \in RCcommand : Command(c)
  BY <1>2, CommandInv
<1>3. CASE \E s \in RCstate : WriteStatus(s)
  BY <1>3, WriteStatusInv
<1>4. CASE Quit \/ ControlThread
  BY <1>4, QuitInv, RcProcessInv, SetRcstateInv DEF ControlThread
<1>5. CASE Over
  BY <1>1, <1>5 DEF Over
<1>6. CASE \E c \in Components : Loop(c)
  BY <1>6, LoopInv
<1>7. CASE ReaderThread
  BY <1>7, AcquireInv, ReaderSendInv DEF ReaderThread
<1>8. CASE WriterThread
  BY <1>8, WriterRecvInv DEF WriterThread
<1>9. CASE \E p \in Parsers : ParserThread(p)
  BY <1>9, ParserRecvInv, ParserSendInv DEF ParserThread
<1> QED
  BY <1>1, <1>2, <1>3, <1>4, <1>5, <1>6, <1>7, <1>8, <1>9 DEF Next

\* Every state that is reached satisfies the invariant.
LEMMA InvHolds == Spec => []NodeInv
  BY InitInv, NextInv, PTL DEF Spec

\* The threads of FzDAQ-mt.cpp and the states they are handed keep their
\* types, no pipe overflows, and a thread holds an event exactly while it is
\* about to send it, for every number of parsers.
THEOREM NodeTypes == Spec => []TypeOK
<1>1. NodeInv => TypeOK
  BY DEF NodeInv, ControlType, ThreadType, PipeType, Labels, TypeOK
<1> QED
  BY <1>1, InvHolds, PTL

\* After a stop, which rc_event_do() and rc_state_do() hand to the threads one
\* by one and without a lock, a parser and the writer take no more than the one
\* event they were waiting for, and the reader no more than a datagram holds,
\* for every number of parsers, every size of the datagrams and every sequence
\* of commands.
THEOREM LateBound == Spec => []LateBounded
<1>1. NodeInv => LateBounded
  <2> SUFFICES ASSUME NodeInv, NEW c \in Components
               PROVE  late[c] <= IF c = Reader THEN Burst ELSE 1
    BY DEF LateBounded
  <2>1. late[Reader] \in Nat /\ more \in Nat /\ late[Reader] + more <= Burst /\ Burst \in Nat
    BY ComponentFacts DEF NodeInv, LateInv, DatagramType
  <2> QED
    BY <2>1 DEF NodeInv, LateInv
<1> QED
  BY <1>1, InvHolds, PTL

-----------------------------------------------------------------------------
(* No event is lost or duplicated.                                         *)

\* The events that the threads hold and those in the pipes, each once.
Held(h) == {h[c] : c \in Components} \ {NoEvent}
HeldOnce(h) == \A c, d \in Components : h[c] = h[d] /\ h[c] # NoEvent => c = d
InPipe(pipes) == UNION {{pipes[p][k] : k \in 1..Len(pipes[p])} : p \in Parsers}
PipedOnce(pipes) ==
    \A p, q \in Parsers : \A k \in 1..Len(pipes[p]), l \in 1..Len(pipes[q]) :
        pipes[p][k] = pipes[q][l] => p = q /\ k = l

\* The places where an event may be.
Parts == [k \in 1..5 |-> CASE k = 1 -> Held(ev) [] k = 2 -> InPipe(rd2psr) [] k = 3 -> InPipe(psr2wr)
                           [] k = 4 -> dropped [] k = 5 -> stored]

\* P has the numbers up to n, each in one part.
Partition(P, n) ==
    /\ \A k \in 1..5 : P[k] \subseteq 1..n
    /\ \A e \in 1..n : \E k \in 1..5 : e \in P[k]
    /\ \A k, l \in 1..5 : \A e \in P[k] : e \in P[l] => k = l

PlaceInv ==
    /\ HeldOnce(ev) /\ PipedOnce(rd2psr) /\ PipedOnce(psr2wr)
    /\ Partition(Parts, Len(runOf))

\* An event that moves from one part to another stays in one.
LEMMA Moved ==
    ASSUME NEW P, NEW Q, NEW n \in Nat, NEW a \in 1..5, NEW b \in 1..5, a # b, NEW e \in P[a],
           Partition(P, n), \A k \in 1..5 : k # a /\ k # b => Q[k] = P[k],
           Q[a] = P[a] \ {e}, Q[b] = P[b] \cup {e}
    PROVE  Partition(Q, n)
<1>1. \A k \in 1..5 : \A x : x \in Q[k] <=> (k = b /\ x = e) \/ (x \in P[k] /\ ~(k = a /\ x = e))
  OBVIOUS
<1>2. \A k \in 1..5 : Q[k] \subseteq 1..n
  BY <1>1 DEF Partition
<1>3. \A x \in 1..n : \E k \in 1..5 : x \in Q[k]
  BY <1>1 DEF Partition
<1>4. \A k, l \in 1..5 : \A x \in Q[k] : x \in Q[l] => k = l
  BY <1>1 DEF Partition
<1> QED
  BY <1>2, <1>3, <1>4 DEF Partition

\* The next number, in some part.
LEMMA Grown ==
    ASSUME NEW P, NEW Q, NEW n \in Nat, NEW b \in 1..5,
           Partition(P, n), \A k \in 1..5 : k # b => Q[k] = P[k], Q[b] = P[b] \cup {n + 1}
    PROVE  Partition(Q, n + 1)
<1>1. \A k \in 1..5 : \A x : x \in Q[k] <=> (k = b /\ x = n + 1) \/ x \in P[k]
  OBVIOUS
<1>2. \A k \in 1..5 : n + 1 \notin P[k]
  BY DEF Partition
<1>3. \A x : x \in 1..(n + 1) <=> x \in 1..n \/ x = n + 1
  OBVIOUS
<1>4. \A k \in 1..5 : Q[k] \subseteq 1..(n + 1)
  BY <1>1, <1>3 DEF Partition
<1>5. \A x \in 1..(n + 1) : \E k \in 1..5 : x \in Q[k]
  BY <1>1, <1>3 DEF Partition
<1>6. \A k, l \in 1..5 : \A x \in Q[k] : x \in Q[l] => k = l
  BY <1>1, <1>2 DEF Partition
<1> QED
  BY <1>4, <1>5, <1>6 DEF Partition

\* Both: the event at hand moves on and the next number takes its place.
LEMMA MovedAndGrown ==
    ASSUME NEW P, NEW R, NEW n \in Nat, NEW e \in P[1], Partition(P, n),
           R[1] = (P[1] \ {e}) \cup {n + 1}, R[2] = P[2] \cup {e},
           R[3] = P[3], R[4] = P[4], R[5] = P[5]
    PROVE  Partition(R, n + 1)
<1> DEFINE Q == [k \in 1..5 |-> IF k = 1 THEN P[1] \ {e} ELSE IF k = 2 THEN P[2] \cup {e} ELSE P[k]]
<1>1. /\ Q[1] = P[1] \ {e} /\ Q[2] = P[2] \cup {e}
      /\ \A k \in 1..5 : k # 1 /\ k # 2 => Q[k] = P[k]
  OBVIOUS
<1>2. \A k \in 1..5 : k = 1 \/ k = 2 \/ k = 3 \/ k = 4 \/ k = 5
  OBVIOUS
<1> HIDE DEF Q
<1>3. Partition(Q, n)
  BY <1>1, Moved
<1>4. R[1] = Q[1] \cup {n + 1} /\ \A k \in 1..5 : k # 1 => R[k] = Q[k]
  BY <1>1, <1>2
<1> QED
  BY <1>3, <1>4, Grown

\* A thread takes an event, and gives it away.
LEMMA TakeFacts ==
    ASSUME NEW h \in [Components -> Events \cup {NoEvent}], HeldOnce(h),
           NEW c \in Components, NEW e \in Events, h[c] = NoEvent, e \notin Held(h)
    PROVE  LET g == [h EXCEPT ![c] = e] IN HeldOnce(g) /\ Held(g) = Held(h) \cup {e}
<1> DEFINE g == [h EXCEPT ![c] = e]
<1>1. g[c] = e /\ \A d \in Components : d # c => g[d] = h[d]
  OBVIOUS
<1>2. e # NoEvent
  BY ComponentFacts
<1> HIDE DEF g
<1>3. HeldOnce(g)
  BY <1>1 DEF HeldOnce, Held
<1>4. Held(g) = Held(h) \cup {e}
  <2>1. \A x : x \in Held(g) => x \in Held(h) \cup {e}
    BY <1>1 DEF Held
  <2>2. \A x : x \in Held(h) \cup {e} => x \in Held(g)
    BY <1>1, <1>2 DEF Held
  <2> QED
    BY <2>1, <2>2
<1> QED
  BY <1>3, <1>4 DEF g

LEMMA GiveFacts ==
    ASSUME NEW h \in [Components -> Events \cup {NoEvent}], HeldOnce(h),
           NEW c \in Components, h[c] # NoEvent
    PROVE  LET g == [h EXCEPT ![c] = NoEvent] IN HeldOnce(g) /\ Held(g) = Held(h) \ {h[c]}
<1> DEFINE g == [h EXCEPT ![c] = NoEvent]
<1>1. g[c] = NoEvent /\ \A d \in Components : d # c => g[d] = h[d]
  OBVIOUS
<1> HIDE DEF g
<1>2. HeldOnce(g)
  BY <1>1 DEF HeldOnce
<1>3. Held(g) = Held(h) \ {h[c]}
  <2>1. \A x : x \in Held(g) => x \in Held(h) \ {h[c]}
    BY <1>1 DEF Held, HeldOnce
  <2>2. \A x : x \in Held(h) \ {h[c]} => x \in Held(g)
    BY <1>1 DEF Held
  <2> QED
    BY <2>1, <2>2
<1> QED
  BY <1>2, <1>3 DEF g

LEMMA InPipeElement ==
    ASSUME NEW P, NEW x
    PROVE  x \in InPipe(P) <=> \E q \in Parsers : \E k \in 1..Len(P[q]) : x = P[q][k]
  BY DEF InPipe

LEMMA SamePlace ==
    ASSUME NEW P, PipedOnce(P), NEW q \in Parsers, NEW r \in Parsers,
           NEW k \in 1..Len(P[q]), NEW l \in 1..Len(P[r]), P[q][k] = P[r][l]
    PROVE  q = r /\ k = l
  BY DEF PipedOnce

\* A pipe takes an event at its end and gives one from its beginning.
LEMMA AppendFacts ==
    ASSUME NEW P \in [Parsers -> Seq(Events)], PipedOnce(P),
           NEW p \in Parsers, NEW e \in Events, e \notin InPipe(P)
    PROVE  LET Q == [P EXCEPT ![p] = Append(@, e)] IN PipedOnce(Q) /\ InPipe(Q) = InPipe(P) \cup {e}
<1> DEFINE Q == [P EXCEPT ![p] = Append(@, e)]
           m == Len(P[p])
<1>1. /\ m \in Nat /\ Len(Q[p]) = m + 1 /\ Q[p][m + 1] = e
      /\ \A k \in 1..m : Q[p][k] = P[p][k]
      /\ \A q \in Parsers : q # p => Q[q] = P[q]
  BY AppendProperties
<1> HIDE DEF Q
<1>2. ASSUME NEW q \in Parsers, NEW k \in 1..Len(Q[q])
      PROVE  \/ k \in 1..Len(P[q]) /\ Q[q][k] = P[q][k]
             \/ q = p /\ k = m + 1 /\ Q[q][k] = e
  <2>1. CASE q # p
    BY <1>1, <2>1
  <2>2. CASE q = p
    <3>1. k \in 1..(m + 1)
      BY <1>1, <2>2
    <3> QED
      BY <1>1, <2>2, <3>1
  <2> QED
    BY <2>1, <2>2
<1>3. ASSUME NEW q \in Parsers, NEW k \in 1..Len(P[q])
      PROVE  k \in 1..Len(Q[q]) /\ Q[q][k] = P[q][k]
  <2>1. CASE q # p
    BY <1>1, <2>1
  <2>2. CASE q = p
    BY <1>1, <2>2
  <2> QED
    BY <2>1, <2>2
<1> HIDE DEF m
<1>4. \A q \in Parsers : \A k \in 1..Len(P[q]) : P[q][k] # e
  BY DEF InPipe
<1>5. PipedOnce(Q)
  <2> SUFFICES ASSUME NEW q \in Parsers, NEW r \in Parsers, NEW k \in 1..Len(Q[q]), NEW l \in 1..Len(Q[r]),
                      Q[q][k] = Q[r][l]
               PROVE  q = r /\ k = l
    BY DEF PipedOnce
  <2>1. CASE q = p /\ k = m + 1 /\ Q[q][k] = e
    <3>1. ~(l \in 1..Len(P[r]) /\ Q[r][l] = P[r][l])
      BY <1>4, <2>1
    <3> QED
      BY <1>2, <2>1, <3>1
  <2>2. CASE k \in 1..Len(P[q]) /\ Q[q][k] = P[q][k]
    <3>1. l \in 1..Len(P[r]) /\ Q[r][l] = P[r][l]
      BY <1>2, <1>4, <2>2
    <3>2. P[q][k] = P[r][l]
      BY <2>2, <3>1
    <3> QED
      BY <2>2, <3>1, <3>2, SamePlace
  <2> QED
    BY <1>2, <2>1, <2>2
<1>6. InPipe(Q) = InPipe(P) \cup {e}
  <2>1. \A x : x \in InPipe(Q) => x \in InPipe(P) \cup {e}
    <3> SUFFICES ASSUME NEW q \in Parsers, NEW k \in 1..Len(Q[q])
                 PROVE  Q[q][k] \in InPipe(P) \cup {e}
      BY InPipeElement
    <3>1. k \in 1..Len(P[q]) => P[q][k] \in InPipe(P)
      BY InPipeElement
    <3> QED
      BY <1>2, <3>1
  <2>2. \A x : x \in InPipe(P) => x \in InPipe(Q)
    BY <1>3 DEF InPipe
  <2>3. e \in InPipe(Q)
    <3>1. m + 1 \in 1..Len(Q[p])
      BY <1>1
    <3> QED
      BY <1>1, <3>1 DEF InPipe
  <2> QED
    BY <2>1, <2>2, <2>3
<1> QED
  BY <1>5, <1>6 DEF Q

LEMMA TailFacts ==
    ASSUME NEW P \in [Parsers -> Seq(Events)], PipedOnce(P), NEW p \in Parsers, P[p] # <<>>
    PROVE  LET Q == [P EXCEPT ![p] = Tail(@)]
           IN  /\ PipedOnce(Q) /\ Head(P[p]) \in InPipe(P)
               /\ InPipe(Q) = InPipe(P) \ {Head(P[p])}
<1> DEFINE Q == [P EXCEPT ![p] = Tail(@)]
           m == Len(P[p])
           e == Head(P[p])
<1>1. /\ m \in Nat /\ m > 0 /\ P[p][1] = e /\ Len(Q[p]) = m - 1
      /\ \A k \in 1..(m - 1) : Q[p][k] = P[p][k + 1]
      /\ \A q \in Parsers : q # p => Q[q] = P[q]
  BY EmptySeq, HeadTailProperties
<1> HIDE DEF Q, e
<1>2. ASSUME NEW q \in Parsers, NEW k \in 1..Len(Q[q])
      PROVE  /\ (IF q = p THEN k + 1 ELSE k) \in 1..Len(P[q])
             /\ Q[q][k] = P[q][IF q = p THEN k + 1 ELSE k]
             /\ k \in Int
             /\ q = p => k + 1 # 1
  <2>1. CASE q # p
    BY <1>1, <2>1
  <2>2. CASE q = p
    <3>1. k \in 1..(m - 1)
      BY <1>1, <2>2
    <3> QED
      BY <1>1, <2>2, <3>1
  <2> QED
    BY <2>1, <2>2
<1>3. ASSUME NEW q \in Parsers, NEW k \in 1..Len(P[q]), ~(q = p /\ k = 1)
      PROVE  \E l \in 1..Len(Q[q]) : Q[q][l] = P[q][k]
  <2>1. CASE q # p
    BY <1>1, <2>1
  <2>2. CASE q = p
    <3>1. k - 1 \in 1..(m - 1) /\ (k - 1) + 1 = k
      BY <1>1, <1>3, <2>2
    <3>2. Q[p][k - 1] = P[p][k]
      BY <1>1, <3>1
    <3> QED
      BY <1>1, <2>2, <3>1, <3>2
  <2> QED
    BY <2>1, <2>2
<1>4. 1 \in 1..Len(P[p]) /\ e \in InPipe(P)
  BY <1>1 DEF InPipe
<1> HIDE DEF m
<1>5. PipedOnce(Q)
  <2> SUFFICES ASSUME NEW q \in Parsers, NEW r \in Parsers, NEW k \in 1..Len(Q[q]), NEW l \in 1..Len(Q[r]),
                      Q[q][k] = Q[r][l]
               PROVE  q = r /\ k = l
    BY DEF PipedOnce
  <2> DEFINE i == IF q = p THEN k + 1 ELSE k
             j == IF r = p THEN l + 1 ELSE l
  <2>1. i \in 1..Len(P[q]) /\ Q[q][k] = P[q][i] /\ k \in Int
    BY <1>2
  <2>2. j \in 1..Len(P[r]) /\ Q[r][l] = P[r][j] /\ l \in Int
    BY <1>2
  <2> HIDE DEF i, j
  <2>3. P[q][i] = P[r][j]
    BY <2>1, <2>2
  <2>4. q = r /\ i = j
    BY <2>1, <2>2, <2>3, SamePlace, Zenon
  <2> QED
    BY <2>1, <2>2, <2>4 DEF i, j
<1>6. \A x : x \in InPipe(Q) => x \in InPipe(P) /\ x # e
  <2> SUFFICES ASSUME NEW q \in Parsers, NEW k \in 1..Len(Q[q])
               PROVE  Q[q][k] \in InPipe(P) /\ Q[q][k] # e
    BY InPipeElement
  <2> DEFINE i == IF q = p THEN k + 1 ELSE k
  <2>1. i \in 1..Len(P[q]) /\ Q[q][k] = P[q][i] /\ (q = p => i # 1)
    BY <1>2
  <2> HIDE DEF i
  <2>2. P[q][i] # P[p][1]
    BY <1>4, <2>1 DEF PipedOnce
  <2> QED
    BY <1>1, <2>1, <2>2 DEF InPipe
<1>7. \A x : x \in InPipe(P) /\ x # e => x \in InPipe(Q)
  <2> SUFFICES ASSUME NEW q \in Parsers, NEW k \in 1..Len(P[q]), P[q][k] # e
               PROVE  P[q][k] \in InPipe(Q)
    BY DEF InPipe
  <2>1. ~(q = p /\ k = 1)
    BY <1>1
  <2>2. PICK l \in 1..Len(Q[q]) : Q[q][l] = P[q][k]
    BY <1>3, <2>1
  <2> QED
    BY <2>2, InPipeElement
<1>8. InPipe(Q) = InPipe(P) \ {e}
  BY <1>6, <1>7
<1> QED
  BY <1>4, <1>5, <1>8 DEF Q, e

-----------------------------------------------------------------------------
(* Every step keeps each event in one place.                               *)

LEMMA PartsFacts ==
    /\ Parts[1] = Held(ev) /\ Parts[2] = InPipe(rd2psr) /\ Parts[3] = InPipe(psr2wr)
    /\ Parts[4] = dropped /\ Parts[5] = stored
    /\ Parts'[1] = Held(ev') /\ Parts'[2] = InPipe(rd2psr') /\ Parts'[3] = InPipe(psr2wr')
    /\ Parts'[4] = dropped' /\ Parts'[5] = stored'
  BY DEF Parts, Held, InPipe

\* An event is in one part only.
LEMMA OnePart ==
    ASSUME NEW P, NEW n, Partition(P, n), NEW a \in 1..5, NEW e \in P[a]
    PROVE  \A b \in 1..5 : b # a => e \notin P[b]
  BY DEF Partition

LEMMA InitPlace == Init => PlaceInv
<1> SUFFICES ASSUME Init PROVE PlaceInv
  OBVIOUS
<1>1. HeldOnce(ev) /\ Held(ev) = {}
  BY DEF Init, HeldOnce, Held
<1>2. /\ PipedOnce(rd2psr) /\ InPipe(rd2psr) = {}
      /\ PipedOnce(psr2wr) /\ InPipe(psr2wr) = {}
  <2>1. \A p \in Parsers : Len(rd2psr[p]) = 0 /\ Len(psr2wr[p]) = 0
    BY EmptySeq DEF Init
  <2> QED
    BY <2>1 DEF PipedOnce, InPipe
<1>3. \A k \in 1..5 : Parts[k] = {}
  BY <1>1, <1>2, PartsFacts DEF Init
<1>4. Len(runOf) = 0
  BY EmptySeq DEF Init
<1> QED
  BY <1>1, <1>2, <1>3, <1>4 DEF PlaceInv, Partition

LEMMA AcquirePlace ==
    ASSUME NodeInv, PlaceInv, NEW k \in 1..Burst, Acquire(k) PROVE PlaceInv'
<1> USE ComponentFacts
<1> DEFINE n == Len(runOf)
<1>1. /\ n \in Nat /\ n + 1 \in Events /\ Len(runOf') = n + 1
      /\ ev \in [Components -> Events \cup {NoEvent}] /\ ev[Reader] = NoEvent
      /\ ev' = [ev EXCEPT ![Reader] = n + 1]
      /\ UNCHANGED <<rd2psr, psr2wr, stored, dropped>>
  BY DEF NodeInv, PipeType, ThreadType, Acquire, Events
<1>2. Partition(Parts, n) /\ HeldOnce(ev) /\ PipedOnce(rd2psr) /\ PipedOnce(psr2wr)
  BY DEF PlaceInv
<1> HIDE DEF n
<1>3. n + 1 \notin Held(ev)
  BY <1>1, <1>2, PartsFacts DEF Partition
<1>4. HeldOnce(ev') /\ Held(ev') = Held(ev) \cup {n + 1}
  BY <1>1, <1>2, <1>3, TakeFacts
<1>5. \A b \in 1..5 : b # 1 => Parts'[b] = Parts[b]
  BY <1>1, PartsFacts
<1>6. Parts'[1] = Parts[1] \cup {n + 1}
  BY <1>4, PartsFacts
<1>7. Partition(Parts', n + 1)
  BY <1>1, <1>2, <1>5, <1>6, Grown
<1> QED
  BY <1>1, <1>2, <1>4, <1>7 DEF PlaceInv, PipedOnce, HeldOnce, Partition

\* A step moves the event e from the part a to the part b.
Moves(a, b, e) ==
    /\ a \in 1..5 /\ b \in 1..5 /\ a # b /\ e \in Parts[a]
    /\ Parts'[a] = Parts[a] \ {e} /\ Parts'[b] = Parts[b] \cup {e}
    /\ \A k \in 1..5 : k # a /\ k # b => Parts'[k] = Parts[k]
    /\ HeldOnce(ev') /\ PipedOnce(rd2psr') /\ PipedOnce(psr2wr')

LEMMA MovePlace ==
    ASSUME NodeInv, PlaceInv, runOf' = runOf, NEW a, NEW b, NEW e, Moves(a, b, e)
    PROVE  PlaceInv'
<1> USE DEF Moves
<1>1. Len(runOf) \in Nat /\ Partition(Parts, Len(runOf))
  BY DEF NodeInv, PipeType, PlaceInv
<1>2. Partition(Parts', Len(runOf))
  BY <1>1, Moved
<1> QED
  BY <1>2 DEF PlaceInv, Partition, HeldOnce, PipedOnce

\* From thread c into a pipe.
LEMMA SendPlace ==
    ASSUME NodeInv, PlaceInv, NEW c \in Components, ev[c] # NoEvent, NEW p \in Parsers,
           ev' = [ev EXCEPT ![c] = NoEvent], UNCHANGED <<stored, dropped, runOf>>,
           \/ rd2psr' = [rd2psr EXCEPT ![p] = Append(@, ev[c])] /\ psr2wr' = psr2wr
           \/ psr2wr' = [psr2wr EXCEPT ![p] = Append(@, ev[c])] /\ rd2psr' = rd2psr
    PROVE  PlaceInv'
<1>1. /\ ev \in [Components -> Events \cup {NoEvent}] /\ ev[c] \in Events
      /\ rd2psr \in [Parsers -> Seq(Events)] /\ psr2wr \in [Parsers -> Seq(Events)]
  BY DEF NodeInv, ThreadType, PipeType
<1>2. Partition(Parts, Len(runOf)) /\ HeldOnce(ev) /\ PipedOnce(rd2psr) /\ PipedOnce(psr2wr)
  BY DEF PlaceInv
<1>3. HeldOnce(ev') /\ Held(ev') = Held(ev) \ {ev[c]}
  BY <1>1, <1>2, GiveFacts
<1>4. ev[c] \in Parts[1]
  BY PartsFacts DEF Held
<1>5. ev[c] \notin InPipe(rd2psr) /\ ev[c] \notin InPipe(psr2wr)
  BY <1>2, <1>4, OnePart, PartsFacts
<1>6. CASE rd2psr' = [rd2psr EXCEPT ![p] = Append(@, ev[c])] /\ psr2wr' = psr2wr
  <2>1. PipedOnce(rd2psr') /\ InPipe(rd2psr') = InPipe(rd2psr) \cup {ev[c]}
    BY <1>1, <1>2, <1>5, <1>6, AppendFacts
  <2>2. PipedOnce(psr2wr')
    BY <1>2, <1>6
  <2>3. Parts'[1] = Parts[1] \ {ev[c]} /\ Parts'[2] = Parts[2] \cup {ev[c]}
        /\ \A k \in 1..5 : k # 1 /\ k # 2 => Parts'[k] = Parts[k]
    BY <1>3, <1>6, <2>1, PartsFacts
  <2>4. Moves(1, 2, ev[c])
    BY <1>3, <1>4, <2>1, <2>2, <2>3 DEF Moves
  <2> QED
    BY <2>4, MovePlace
<1>7. CASE psr2wr' = [psr2wr EXCEPT ![p] = Append(@, ev[c])] /\ rd2psr' = rd2psr
  <2>1. PipedOnce(psr2wr') /\ InPipe(psr2wr') = InPipe(psr2wr) \cup {ev[c]}
    BY <1>1, <1>2, <1>5, <1>7, AppendFacts
  <2>2. PipedOnce(rd2psr')
    BY <1>2, <1>7
  <2>3. Parts'[1] = Parts[1] \ {ev[c]} /\ Parts'[3] = Parts[3] \cup {ev[c]}
        /\ \A k \in 1..5 : k # 1 /\ k # 3 => Parts'[k] = Parts[k]
    BY <1>3, <1>7, <2>1, PartsFacts
  <2>4. Moves(1, 3, ev[c])
    BY <1>3, <1>4, <2>1, <2>2, <2>3 DEF Moves
  <2> QED
    BY <2>4, MovePlace
<1> QED
  BY <1>6, <1>7

\* ReaderSend: the event goes into a pipe, and the next of the datagram, if
\* there is one, takes its place.
LEMMA ReaderSendPlace ==
    ASSUME NodeInv, PlaceInv, NEW p \in Parsers, ReaderSend(p) PROVE PlaceInv'
<1> USE ComponentFacts
<1> DEFINE n == Len(runOf)
           e == ev[Reader]
           h == [ev EXCEPT ![Reader] = NoEvent]
<1>1. /\ e # NoEvent /\ e \in Events /\ n \in Nat /\ more \in Nat /\ n + more <= MaxEvents
      /\ ev \in [Components -> Events \cup {NoEvent}] /\ rd2psr \in [Parsers -> Seq(Events)]
      /\ rd2psr' = [rd2psr EXCEPT ![p] = Append(@, e)] /\ UNCHANGED <<psr2wr, stored, dropped>>
      /\ runOf \in Seq(Nat) /\ e \in 1..n
  BY DEF NodeInv, ThreadType, PipeType, DatagramType, ReaderSend
<1>2. CASE ~(more > 0)
  <2>1. ev' = [ev EXCEPT ![Reader] = NoEvent] /\ runOf' = runOf
    BY <1>2 DEF ReaderSend, NextInDatagram
  <2> QED
    BY <1>1, <2>1, SendPlace
<1>3. CASE more > 0
  <2>1. ev' = [ev EXCEPT ![Reader] = n + 1] /\ runOf' = Append(runOf, runOf[e])
    BY <1>3 DEF ReaderSend, NextInDatagram
  <2>2. n + 1 \in Events /\ Len(runOf') = n + 1
    <3>1. runOf[e] \in Nat
      BY <1>1
    <3> QED
      BY <1>1, <1>3, <2>1, <3>1, AppendProperties DEF Events
  <2>3. h \in [Components -> Events \cup {NoEvent}] /\ h[Reader] = NoEvent
        /\ ev' = [h EXCEPT ![Reader] = n + 1]
    BY <1>1, <2>1
  <2>4. Partition(Parts, n) /\ HeldOnce(ev) /\ PipedOnce(rd2psr) /\ PipedOnce(psr2wr)
    BY DEF PlaceInv
  <2>5. HeldOnce(h) /\ Held(h) = Held(ev) \ {e}
    BY <1>1, <2>4, GiveFacts
  <2> HIDE DEF h, n
  <2>6. e \in Parts[1] /\ e \notin InPipe(rd2psr)
    <3>1. e \in Parts[1]
      BY <1>1, PartsFacts DEF Held
    <3> QED
      BY <2>4, <3>1, OnePart, PartsFacts
  <2> HIDE DEF e
  <2>7. PipedOnce(rd2psr') /\ InPipe(rd2psr') = InPipe(rd2psr) \cup {e}
    BY <1>1, <2>4, <2>6, AppendFacts
  <2>8. n + 1 \notin Held(ev)
    BY <1>1, <2>4, PartsFacts DEF Partition
  <2>9. HeldOnce(ev') /\ Held(ev') = Held(h) \cup {n + 1}
    BY <2>2, <2>3, <2>5, <2>8, TakeFacts
  <2>10. /\ Parts'[1] = (Parts[1] \ {e}) \cup {n + 1} /\ Parts'[2] = Parts[2] \cup {e}
         /\ Parts'[3] = Parts[3] /\ Parts'[4] = Parts[4] /\ Parts'[5] = Parts[5]
    BY <1>1, <2>5, <2>7, <2>9, PartsFacts, Zenon
  <2>12. Partition(Parts', n + 1)
    BY <1>1, <2>4, <2>6, <2>10, MovedAndGrown
  <2>13. PipedOnce(psr2wr')
    BY <1>1, <2>4
  <2> QED
    BY <2>2, <2>7, <2>9, <2>12, <2>13 DEF PlaceInv, PipedOnce, HeldOnce, Partition
<1> QED
  BY <1>2, <1>3

LEMMA ParserRecvPlace == ASSUME NodeInv, PlaceInv, NEW p \in Parsers, ParserRecv(p) PROVE PlaceInv'
<1> USE ComponentFacts
<1> DEFINE e == Head(rd2psr[p])
<1>1. /\ ev \in [Components -> Events \cup {NoEvent}] /\ ev[p] = NoEvent /\ p \in Components
      /\ rd2psr \in [Parsers -> Seq(Events)] /\ rd2psr[p] # <<>> /\ e \in Events
      /\ rd2psr' = [rd2psr EXCEPT ![p] = Tail(@)] /\ UNCHANGED <<psr2wr, stored, runOf>>
  BY DEF NodeInv, ThreadType, PipeType, ParserRecv, Received
<1>2. \/ ev' = [ev EXCEPT ![p] = e] /\ dropped' = dropped
      \/ ev' = ev /\ dropped' = dropped \cup {e}
  BY DEF ParserRecv
<1> HIDE DEF e
<1>3. Partition(Parts, Len(runOf)) /\ HeldOnce(ev) /\ PipedOnce(rd2psr) /\ PipedOnce(psr2wr)
  BY DEF PlaceInv
<1>4. PipedOnce(rd2psr') /\ e \in InPipe(rd2psr) /\ InPipe(rd2psr') = InPipe(rd2psr) \ {e}
  BY <1>1, <1>3, TailFacts DEF e
<1>5. e \in Parts[2] /\ e \notin Held(ev) /\ PipedOnce(psr2wr')
  BY <1>1, <1>3, <1>4, OnePart, PartsFacts
<1>6. CASE ev' = [ev EXCEPT ![p] = e] /\ dropped' = dropped
  <2>1. HeldOnce(ev') /\ Held(ev') = Held(ev) \cup {e}
    BY <1>1, <1>3, <1>5, <1>6, TakeFacts
  <2>2. Parts'[2] = Parts[2] \ {e} /\ Parts'[1] = Parts[1] \cup {e}
        /\ \A k \in 1..5 : k # 2 /\ k # 1 => Parts'[k] = Parts[k]
    BY <1>1, <1>4, <1>6, <2>1, PartsFacts
  <2>3. Moves(2, 1, e)
    BY <1>4, <1>5, <2>1, <2>2 DEF Moves
  <2> QED
    BY <1>1, <2>3, MovePlace
<1>7. CASE ev' = ev /\ dropped' = dropped \cup {e}
  <2>1. HeldOnce(ev')
    BY <1>3, <1>7
  <2>2. Parts'[2] = Parts[2] \ {e} /\ Parts'[4] = Parts[4] \cup {e}
        /\ \A k \in 1..5 : k # 2 /\ k # 4 => Parts'[k] = Parts[k]
    BY <1>1, <1>4, <1>7, PartsFacts
  <2>3. Moves(2, 4, e)
    BY <1>4, <1>5, <2>1, <2>2 DEF Moves
  <2> QED
    BY <1>1, <2>3, MovePlace
<1> QED
  BY <1>2, <1>6, <1>7

LEMMA WriterRecvPlace == ASSUME NodeInv, PlaceInv, NEW p \in Parsers, WriterRecv(p) PROVE PlaceInv'
<1> DEFINE e == Head(psr2wr[p])
<1>1. /\ psr2wr \in [Parsers -> Seq(Events)] /\ psr2wr[p] # <<>>
      /\ psr2wr' = [psr2wr EXCEPT ![p] = Tail(@)] /\ UNCHANGED <<ev, rd2psr, dropped, runOf>>
      /\ stored' = stored \cup {e}
  BY DEF NodeInv, PipeType, WriterRecv
<1> HIDE DEF e
<1>2. Partition(Parts, Len(runOf)) /\ HeldOnce(ev) /\ PipedOnce(rd2psr) /\ PipedOnce(psr2wr)
  BY DEF PlaceInv
<1>3. PipedOnce(psr2wr') /\ e \in InPipe(psr2wr) /\ InPipe(psr2wr') = InPipe(psr2wr) \ {e}
  BY <1>1, <1>2, TailFacts DEF e
<1>4. e \in Parts[3] /\ HeldOnce(ev') /\ PipedOnce(rd2psr')
  BY <1>1, <1>2, <1>3, PartsFacts
<1>5. Parts'[3] = Parts[3] \ {e} /\ Parts'[5] = Parts[5] \cup {e}
      /\ \A k \in 1..5 : k # 3 /\ k # 5 => Parts'[k] = Parts[k]
  BY <1>1, <1>3, PartsFacts
<1>6. Moves(3, 5, e)
  BY <1>3, <1>4, <1>5 DEF Moves
<1> QED
  BY <1>1, <1>6, MovePlace

LEMMA NextPlace == NodeInv /\ PlaceInv /\ [Next]_vars => PlaceInv'
<1> SUFFICES ASSUME NodeInv, PlaceInv, [Next]_vars PROVE PlaceInv'
  OBVIOUS
<1> USE ComponentFacts
<1>1. ASSUME UNCHANGED data PROVE PlaceInv'
  <2>1. UNCHANGED <<ev, rd2psr, psr2wr, stored, dropped, runOf>>
    BY <1>1 DEF data
  <2>2. \A k \in 1..5 : Parts'[k] = Parts[k]
    BY <2>1, PartsFacts
  <2>3. Partition(Parts', Len(runOf'))
    BY <2>1, <2>2 DEF PlaceInv, Partition
  <2>4. HeldOnce(ev') /\ PipedOnce(rd2psr') /\ PipedOnce(psr2wr')
    BY <2>1 DEF PlaceInv
  <2> QED
    BY <2>3, <2>4 DEF PlaceInv, Partition, HeldOnce, PipedOnce
<1>2. CASE UNCHANGED vars \/ Quit \/ Over \/ ControlThread \/ (\E c \in RCcommand : Command(c))
           \/ (\E s \in RCstate : WriteStatus(s)) \/ \E c \in Components : Loop(c)
  <2>1. UNCHANGED data
    BY <1>2 DEF Command, WriteStatus, Quit, Over, ControlThread, rc_process, SetRcstate, Interrupt,
                Join, Loop, End, Sleep, Check, Timeout, vars
  <2> QED
    BY <1>1, <2>1
<1>3. ASSUME NEW n \in 1..Burst, Acquire(n) PROVE PlaceInv'
  BY <1>3, AcquirePlace
<1>4. ASSUME NEW p \in Parsers, ReaderSend(p) PROVE PlaceInv'
  BY <1>4, ReaderSendPlace
<1>5. ASSUME NEW p \in Parsers, ParserRecv(p) PROVE PlaceInv'
  BY <1>5, ParserRecvPlace
<1>6. ASSUME NEW p \in Parsers, ParserSend(p) PROVE PlaceInv'
  <2>1. ev[p] # NoEvent /\ p \in Components
    BY <1>6 DEF ParserSend, NodeInv, ThreadType
  <2> QED
    BY <1>6, <2>1, SendPlace DEF ParserSend
<1>7. ASSUME NEW p \in Parsers, WriterRecv(p) PROVE PlaceInv'
  BY <1>7, WriterRecvPlace
<1> QED
  BY <1>2, <1>3, <1>4, <1>5, <1>6, <1>7 DEF Next, ReaderThread, WriterThread, ParserThread

\* How often the pipes have an event that they have once, or not at all.
LEMMA InPipesCount ==
    ASSUME NEW P \in [Parsers -> Seq(Events)], PipedOnce(P), NEW e,
           \A p \in Parsers : Len(P[p]) <= HWM
    PROVE  InPipes(P, e) = IF e \in InPipe(P) THEN 1 ELSE 0
<1> USE ComponentFacts
<1> DEFINE S == {x \in Parsers \X (1..HWM) : x[2] <= Len(P[x[1]]) /\ P[x[1]][x[2]] = e}
<1>1. CASE e \notin InPipe(P)
  <2>1. S = {}
    <3> SUFFICES ASSUME NEW x \in S PROVE FALSE
      OBVIOUS
    <3>1. x[1] \in Parsers /\ x[2] \in 1..HWM /\ x[2] <= Len(P[x[1]]) /\ P[x[1]][x[2]] = e
      OBVIOUS
    <3>2. x[2] \in 1..Len(P[x[1]])
      BY <3>1
    <3> QED
      BY <1>1, <3>1, <3>2 DEF InPipe
  <2> QED
    BY <1>1, <2>1, FS_EmptySet DEF InPipes
<1>2. CASE e \in InPipe(P)
  <2>0. PICK p \in Parsers : \E k \in 1..Len(P[p]) : P[p][k] = e
    BY <1>2 DEF InPipe
  <2>1. PICK k \in 1..Len(P[p]) : P[p][k] = e
    BY <2>0
  <2>2. S = {<<p, k>>}
    <3>1. <<p, k>> \in S
      <4>1. Len(P[p]) \in Nat /\ Len(P[p]) <= HWM
        OBVIOUS
      <4>2. k \in 1..HWM /\ k <= Len(P[p])
        BY <4>1
      <4> QED
        BY <2>1, <4>2
    <3>2. ASSUME NEW x \in S PROVE x = <<p, k>>
      <4>1. /\ x[1] \in Parsers /\ x[2] \in 1..HWM /\ x[2] <= Len(P[x[1]]) /\ P[x[1]][x[2]] = e
            /\ x = <<x[1], x[2]>>
        BY <3>2
      <4>2. x[2] \in 1..Len(P[x[1]])
        BY <4>1
      <4>3. x[1] = p /\ x[2] = k
        BY <2>1, <4>1, <4>2 DEF PipedOnce
      <4> QED
        BY <4>1, <4>3
    <3> HIDE DEF S
    <3> QED
      BY <3>1, <3>2
  <2> HIDE DEF S
  <2>3. Cardinality(S) = 1
    BY <2>2, FS_Singleton
  <2> QED
    BY <1>2, <2>3 DEF InPipes, S
<1> QED
  BY <1>1, <1>2

LEMMA HeldCount ==
    ASSUME NEW h, HeldOnce(h), NEW e, e # NoEvent
    PROVE  Cardinality({c \in Components : h[c] = e}) = IF e \in Held(h) THEN 1 ELSE 0
<1> DEFINE S == {c \in Components : h[c] = e}
<1>1. CASE e \notin Held(h)
  <2>1. S = {}
    BY <1>1 DEF Held
  <2> QED
    BY <1>1, <2>1, FS_EmptySet
<1>2. CASE e \in Held(h)
  <2>1. PICK c \in Components : h[c] = e
    BY <1>2 DEF Held
  <2>2. S = {c}
    BY <2>1 DEF HeldOnce
  <2> HIDE DEF S
  <2>3. Cardinality(S) = 1
    BY <2>2, FS_Singleton
  <2> QED
    BY <1>2, <2>3 DEF S
<1> QED
  BY <1>1, <1>2

\* Through all starts, stops and resets, and for every number of parsers and
\* every capacity of the pipes, the three kinds of threads neither lose nor
\* duplicate an event: each one acquired is with one thread, in one pipe,
\* refused by one parser, or stored.
THEOREM NothingIsLost == Spec => []EventsConserved
<1>1. Init => NodeInv /\ PlaceInv
  BY InitInv, InitPlace
<1>2. NodeInv /\ PlaceInv /\ [Next]_vars => (NodeInv /\ PlaceInv)'
  BY NextInv, NextPlace
<1>3. NodeInv /\ PlaceInv => EventsConserved
  <2> SUFFICES ASSUME NodeInv, PlaceInv, NEW e \in 1..Len(runOf) PROVE Places(e) = 1
    BY DEF EventsConserved
  <2>0. e # NoEvent
    BY DEF NoEvent, NodeInv, PipeType
  <2>1. /\ Cardinality({c \in Components : ev[c] = e}) = IF e \in Held(ev) THEN 1 ELSE 0
        /\ InPipes(rd2psr, e) = IF e \in InPipe(rd2psr) THEN 1 ELSE 0
        /\ InPipes(psr2wr, e) = IF e \in InPipe(psr2wr) THEN 1 ELSE 0
    <3>1. HeldOnce(ev) /\ PipedOnce(rd2psr) /\ PipedOnce(psr2wr)
      BY DEF PlaceInv
    <3>2. /\ rd2psr \in [Parsers -> Seq(Events)] /\ psr2wr \in [Parsers -> Seq(Events)]
          /\ \A p \in Parsers : Len(rd2psr[p]) <= HWM /\ Len(psr2wr[p]) <= HWM
      BY DEF NodeInv, PipeType
    <3>3. Cardinality({c \in Components : ev[c] = e}) = IF e \in Held(ev) THEN 1 ELSE 0
      BY <2>0, <3>1, HeldCount
    <3> QED
      BY <3>1, <3>2, <3>3, InPipesCount
  <2>2. PICK k \in 1..5 : e \in Parts[k] /\ \A l \in 1..5 : l # k => e \notin Parts[l]
    BY DEF PlaceInv, Partition
  <2> QED
    BY <2>1, <2>2, PartsFacts DEF Places
<1> QED
  BY <1>1, <1>2, <1>3, PTL DEF Spec
=============================================================================

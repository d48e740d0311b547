------------------------------ MODULE FzParser ------------------------------
(***************************************************************************)
(* One FzParser thread (src/src/parser/FzParser.cpp): it takes a raw event *)
(* from FzReader, runs its FzFSM over it word by word and forwards the     *)
(* parsed event to FzWriter.  The machine object lives as long as the      *)
(* thread, so what one event leaves in its members is there for the next.  *)
(*                                                                         *)
(* A raw event is a record of the words that arrived, the event the        *)
(* front-end sent, and whether the words are exactly the ones sent.  Only  *)
(* the words are visible to the code.                                      *)
(***************************************************************************)
EXTENDS FzFSM

CONSTANTS
    Formats,    \* the event formats that the configuration may name
    Inputs(_,_),\* Inputs(f, k): the raw events of format f that FzReader may
                \* deliver as its kth
    Garbage,    \* what an uninitialised CRC register may hold
    MaxEvents   \* bound: raw events taken in a behaviour

ASSUME FormatsAssumption == Formats \subseteq {FMT_BASIC, FMT_TAG}
ASSUME MaxEventsAssumption == MaxEvents \in Nat

\* The words; FzReader ends a raw event with the first REGID it meets.
RawWord == [id : Int, cls : WordClass, v : Nat, crc : SUBSET Int]
ASSUME InputsAssumption ==
    \A f \in Formats, k \in 1..MaxEvents : \A r \in Inputs(f, k) :
        /\ r.words \in Seq(RawWord)
        /\ \A j \in 1..(Len(r.words) - 1) : r.words[j].cls # "REGID"

VARIABLES
    pc,       \* "recv" outside, "process" inside FzFSM::process
    raw,      \* the raw event under analysis
    m,        \* the machine
    retval,   \* what process() will return
    verdict,  \* how trans18 counted the event: "none", "empty", "bad", "good"
    fsm,      \* the fsm_report counters
    psr       \* the psr_report counters, and rc: recv() has got a message

vars == <<pc, raw, m, retval, verdict, fsm, psr>>

NoRaw == [words |-> <<>>, sent |-> <<>>, intact |-> FALSE]

Init ==
    /\ pc = "recv"
    /\ raw = NoRaw
    /\ \E f \in Formats, g \in Garbage : m = Machine(f, g)
    /\ retval = PARSE_FAIL
    /\ verdict = "none"
    /\ fsm = [in_events |-> 0, out_events |-> 0, state_invalid |-> 0,
              empty |-> 0, bad |-> 0, good |-> 0]
    /\ psr = [in_events |-> 0, out_events |-> 0, rc |-> FALSE]

-----------------------------------------------------------------------------
\* Counters, sm.init, sm.import and entry of process() for a message.
Take(message) ==
    /\ raw' = message
    /\ m' = import(m)
    /\ retval' = PARSE_FAIL
    /\ verdict' = "none"
    /\ fsm' = [fsm EXCEPT !.in_events = @ + 1]
    /\ psr' = [psr EXCEPT !.in_events = @ + 1, !.rc = TRUE]
    /\ pc' = "process"

\* A message from FzReader.
Recv ==
    /\ pc = "recv" /\ psr.in_events < MaxEvents
    /\ \E message \in Inputs(m.evformat, psr.in_events + 1) : Take(message)

\* recv() gives up after a second without a message.
RecvTimeout ==
    /\ pc = "recv"
    /\ psr' = [psr EXCEPT !.rc = FALSE]
    /\ UNCHANGED <<pc, raw, m, retval, verdict, fsm>>

\* recv() throws and rc keeps its value: if the last call got a message, the
\* empty one of this call is analysed; else nothing happens.
RecvError ==
    /\ pc = "recv" /\ psr.in_events < MaxEvents /\ psr.rc
    /\ Take(NoRaw)

-----------------------------------------------------------------------------
(* The loop of process(): one iteration per word.                          *)

AtWord == pc = "process" /\ m.i <= Len(raw.words)

\* The iteration runs transition k.
Fires(k) ==
    /\ AtWord
    /\ raw.words[m.i].cls # "EMPTY"
    /\ ttable[raw.words[m.i].cls][m.st + 1] = k

\* The rest of the iteration: the new machine, event_index++.
Become(next) ==
    /\ m' = [next EXCEPT !.i = @ + 1]
    /\ UNCHANGED <<pc, raw, psr>>

Quietly == UNCHANGED <<retval, verdict, fsm>>

Format(basic, tag) == IF m.evformat = FMT_BASIC THEN basic ELSE tag

EmptyWord == AtWord /\ raw.words[m.i].cls = "EMPTY" /\ Become(m) /\ Quietly
Trans00 ==
    /\ Fires(0)
    /\ Become(trans00(m))
    /\ fsm' = [fsm EXCEPT !.state_invalid = @ + 1]
    /\ UNCHANGED <<retval, verdict>>
Trans01 == Fires(1)  /\ Become(m) /\ Quietly
Trans02 == Fires(2)  /\ Become(trans02(m, raw.words)) /\ Quietly
Trans03 == Fires(3)  /\ Become(trans03(m, raw.words)) /\ Quietly
Trans04 == Fires(4)  /\ Become(trans04(m, raw.words)) /\ Quietly
Trans05 == Fires(5)  /\ Become(trans05(m, raw.words)) /\ Quietly
Trans06 == Fires(6)  /\ Become(trans06(m, raw.words)) /\ Quietly
Trans07 == Fires(7)  /\ Become(Format(trans07_basic(m, raw.words), trans07_tag(m, raw.words))) /\ Quietly
Trans08 == Fires(8)  /\ Become(Format(trans08_basic(m, raw.words), trans08_tag(m, raw.words))) /\ Quietly
Trans09 == Fires(9)  /\ Become(Format(trans09_basic(m, raw.words), trans09_tag(m, raw.words))) /\ Quietly
Trans10 == Fires(10) /\ Become(Format(trans10_basic(m, raw.words), trans10_tag(m, raw.words))) /\ Quietly
Trans11 == Fires(11) /\ Become(Format(trans11_basic(m, raw.words), trans11_tag(m, raw.words))) /\ Quietly
Trans12 == Fires(12) /\ Become(trans12(m, raw.words)) /\ Quietly
Trans13 == Fires(13) /\ Become(trans13(m, raw.words)) /\ Quietly
Trans14 == Fires(14) /\ Become(trans14(m, raw.words)) /\ Quietly
Trans15 == Fires(15) /\ Become(trans15(m, raw.words)) /\ Quietly
Trans16 == Fires(16) /\ Become(trans16(m, raw.words)) /\ Quietly
Trans17 == Fires(17) /\ Become(trans17(m, raw.words)) /\ Quietly

\* REGID ends the event, which is counted as empty, bad or good.
Trans18 ==
    LET v == IF EventIsEmpty(m.ev) THEN "empty"
             ELSE IF m.err_in_event THEN "bad" ELSE "good"
    IN  /\ Fires(18)
        /\ Become(trans18(m, raw.words))
        /\ retval' = PARSE_OK
        /\ verdict' = v
        /\ fsm' = [fsm EXCEPT ![v] = @ + 1]

\* The words are exhausted: process() returns to FzParser::process, which
\* forwards a parsed event unless it is empty and clears its tree.
Parsed == pc = "process" /\ m.i > Len(raw.words)

\* Mutant: empty events are forwarded too.
Forwards_empty == retval = PARSE_OK
Forwards == retval = PARSE_OK /\ ~m.event_is_empty

Return ==
    /\ Parsed
    /\ pc' = "recv"
    /\ fsm' = [fsm EXCEPT !.out_events = @ + 1]
    /\ psr' = IF Forwards THEN [psr EXCEPT !.out_events = @ + 1] ELSE psr
    /\ m' = [m EXCEPT !.ev = NoEvent]
    /\ raw' = NoRaw
    /\ UNCHANGED <<retval, verdict>>

Process ==
    \/ EmptyWord \/ Trans00 \/ Trans01 \/ Trans02 \/ Trans03 \/ Trans04 \/ Trans05
    \/ Trans06 \/ Trans07 \/ Trans08 \/ Trans09 \/ Trans10 \/ Trans11 \/ Trans12
    \/ Trans13 \/ Trans14 \/ Trans15 \/ Trans16 \/ Trans17 \/ Trans18 \/ Return

Next == Recv \/ RecvTimeout \/ RecvError \/ Process

Spec == Init /\ [][Next]_vars

-----------------------------------------------------------------------------
(* Properties of the analysis of any words; those that compare the tree    *)
(* with the event sent are in MCFzParser.                                  *)

\* Types of the thread's and the machine's state.
TypeOK ==
    /\ pc \in {"recv", "process"}
    /\ \A k \in DOMAIN raw.words : raw.words[k].cls \in WordClass
    /\ m.st \in 0..10
    /\ m.i \in Nat
    /\ m.blklen \in Nat /\ m.feelen \in Nat
    /\ retval \in {PARSE_OK, PARSE_FAIL}
    /\ verdict \in {"none", "empty", "bad", "good"}
    /\ \A c \in DOMAIN fsm : fsm[c] \in Nat
    /\ psr.in_events \in 0..MaxEvents /\ psr.out_events \in Nat

\* The pointers the next transition dereferences designate objects of the
\* tree: a block from S1 on, a fee and a hit from S2 on, data and its
\* submessages in S4 and S5 (FzFSM.cpp 137-138 frees them all in mid event).
\* The basic format allocates the submessages with the data, the tag format
\* with their tags.
PointersLive ==
    pc = "process" =>
      /\ m.st \in 1..9 => m.ev.block # <<>>
      /\ m.st \in 2..7 => blk(m).fee # <<>> /\ fee(m).hit # <<>>
      /\ m.st \in 4..5 => hit(m).data # <<>>
      /\ m.st \in 4..5 /\ m.evformat = FMT_BASIC =>
           /\ d(m).waveform # <<>>
           /\ WithEnergy(d(m).type) => d(m).energy # <<>>
      /\ m.st = 5 /\ m.evformat = FMT_TAG /\ m.tag_done =>
           /\ m.tag \in {TAG_PRETRIGGER, TAG_WAVEFORM} => d(m).waveform # <<>>
           /\ m.tag \in {TAG_SLOW, TAG_FAST} => d(m).energy # <<>>

\* Every event counted good or bad is forwarded to FzWriter, and no other.
ForwardedAreCounted == pc = "recv" => psr.out_events = fsm.good + fsm.bad

\* What is counted good has no block and no card that is flagged: err_in_event
\* remembers every flag that a trailer sets (FzFSM.cpp 1652, 1673, 1758, 1788)
\* up to the REGID, over the blocks that follow and the fake block that is
\* removed, and nothing of the event before it.
GoodIsClean ==
    pc = "process" /\ verdict = "good" =>
      \A k \in DOMAIN m.ev.block :
        LET b == m.ev.block[k]
        IN  /\ ~b.len_error /\ ~b.crc_error
            /\ \A j \in DOMAIN b.fee : ~b.fee[j].len_error /\ ~b.fee[j].crc_error

\* Basic format: a sample, though the waveform length that was read is zero.
\* The loop at FzFSM.cpp 823 takes no word and the index steps back: process()
\* analyses the same word for ever.
SampleOfNone ==
    /\ Fires(8) /\ m.evformat = FMT_BASIC /\ m.wflen_done /\ m.rd_wflen = 0
    /\ ~WithEnergy(d(m).type) /\ d(m).type # "ADC"

\* In any other case process() comes nearer to its end with every iteration,
\* although the sample loops step the word index back: it moves forward, or
\* the word behind a waveform without samples is read again as a tag.
Advances ==
    [][pc = "process" /\ pc' = "process" /\ ~SampleOfNone =>
         \/ m'.i > m.i
         \/ m'.i = m.i /\ m.tag_done /\ ~m'.tag_done]_vars
=============================================================================

------------------------------ MODULE FzWriter ------------------------------
(***************************************************************************)
(* FzWriter (src/src/writer/FzWriter.cpp): parsed events go into files of  *)
(* limited size, files into run directories of limited size, and every     *)
(* start of the acquisition begins a new run directory.                    *)
(*                                                                         *)
(* Two threads share the object without a lock: the writer thread, in      *)
(* process(), and the thread of the command line or of FzNodeManager that  *)
(* calls set_rcstate() and set_store().  Both call setup_newdir() and      *)
(* setup_newfile(), which are therefore split where the other thread may   *)
(* come in between: mkdir, dirid++, close, open, the reset of the sizes.   *)
(* The process may end at any moment; a new one starts from the run        *)
(* directories it finds on disk.                                           *)
(***************************************************************************)
EXTENDS RCFSM

CONSTANTS
    runid,            \* fzwriter.runid of the configuration
    TagNumber,        \* the number written inside runtag, or NoNumber
    event_file_size,  \* the limits of a file ...
    event_dir_size,   \* ... and of a run directory
    Sizes, MaxSize,   \* the sizes of events and the largest of them
    SizeMod,          \* esize and dsize are unsigned: they wrap here
    Garbage,          \* what the uninitialised esize and dsize may hold
    Faults,           \* the file system calls that may fail
    Remote,           \* remote run control: any state may be commanded
    Overlap,          \* a start may come while the writer thread still
                      \* handles an event of the run before
    MaxRuns, MaxEvents, MaxEpochs   \* bounds: starts, events, processes

NoNumber == -1
NoDir    == -1

ASSUME RunidAssumption == runid \in Nat
ASSUME TagAssumption   == TagNumber \in Nat \cup {NoNumber}
ASSUME SizeAssumption  ==
    /\ event_file_size \in Nat /\ event_dir_size \in Nat /\ SizeMod \in Nat \ {0}
    /\ MaxSize \in Nat
    /\ event_file_size + MaxSize < SizeMod   \* the limit is a product of 32 bits, esize has 64
    /\ Sizes \subseteq 1..MaxSize
    /\ Garbage \subseteq 0..(SizeMod - 1)
ASSUME FaultsAssumption == Faults \subseteq {"mkdir", "open", "write"}
ASSUME ModeAssumption   == Remote \in BOOLEAN /\ Overlap \in BOOLEAN

Threads == {"writer", "control"}

VARIABLES
    rcstate, store, start_newdir,
    dirs,           \* the run directories on disk
    dirid,          \* the id of the next directory
    dirstr,         \* the directory named last
    outdir, good,   \* output: the directory of the open file or NoDir; good()
    esize, dsize,
    pc,             \* where each thread is
    rotates,        \* what the writer thread is rotating: "dir" or "file"
    msg,            \* the size of the event at hand
    stored_msg,     \* whether the event at hand was handed to the stream
    report          \* the counters in_events and out_events

\* History, not in the program.
VARIABLES
    epoch, run,     \* the processes so far, the starts of this one
    first,          \* the first directory of this process
    stored,         \* <<directory, epoch>> of the events on disk
    nstored,        \* events on disk, of this process
    fbytes          \* the bytes of events in the open file

object  == <<rcstate, store, start_newdir, dirid, dirstr, outdir, good, esize, dsize>>
history == <<epoch, run, first, stored, nstored, fbytes>>
vars == <<object, dirs, pc, rotates, msg, stored_msg, report, history>>

-----------------------------------------------------------------------------
(* The file system, as setup_newdir() and setup_newfile() use it.          *)

\* sscanf("%*[^0123456789]%d"): the first number of the directory name.  It
\* is the run id unless a number is part of the tag.
RunNumber(id) == IF TagNumber = NoNumber THEN id ELSE TagNumber

\* Mutant: only the configured id counts.
get_max_runid_blind == {runid}
\* The value returned, as the set of it.
get_max_runid ==
    LET found == {runid} \cup {RunNumber(id) : id \in dirs}
    IN  {max \in found : \A id \in found : id <= max}

\* mkdir() of an existing directory (EEXIST) changes nothing.
Mkdir(id) ==
    \/ dirs' = dirs \cup {id}
    \/ "mkdir" \in Faults /\ UNCHANGED dirs

\* fstream::open() of a file in directory id, the stream holding a file of
\* directory held (or none): it fails on a stream that is still open.
Open(held, id, ondisk) ==
    \/ held = NoDir /\ id \in ondisk /\ outdir' = id /\ good' = TRUE /\ fbytes' = 0
    \/ /\ held # NoDir \/ id \notin ondisk \/ "open" \in Faults
       /\ outdir' = held /\ good' = FALSE /\ UNCHANGED fbytes

-----------------------------------------------------------------------------
(* The constructor, in a new process on the disk that the last one left.   *)

NewProcess(max) ==
    /\ dirid' = max + 2
    /\ dirstr' = max + 1
    /\ Mkdir(max + 1)
    /\ Open(NoDir, max + 1, dirs')
    /\ rcstate' = IDLE
    /\ store' = TRUE
    /\ start_newdir' = TRUE
    /\ esize' \in Garbage /\ dsize' \in Garbage
    /\ pc' = [writer |-> "check", control |-> "idle"]
    /\ rotates' = "dir" /\ msg' = 0 /\ stored_msg' = FALSE
    /\ report' = [in_events |-> 0, out_events |-> 0]
    /\ run' = 0
    /\ first' = max + 1
    /\ nstored' = 0

\* The disk before the first process: it has no run directories.
Init ==
    /\ dirs \in (IF "mkdir" \in Faults THEN {{}, {runid + 1}} ELSE {{runid + 1}})
    /\ dirid = runid + 2
    /\ dirstr = runid + 1
    /\ \/ dirstr \in dirs /\ outdir = dirstr /\ good = TRUE
       \/ (dirstr \notin dirs \/ "open" \in Faults) /\ outdir = NoDir /\ good = FALSE
    /\ rcstate = IDLE
    /\ store = TRUE
    /\ start_newdir = TRUE
    /\ esize \in Garbage /\ dsize \in Garbage
    /\ pc = [writer |-> "check", control |-> "idle"]
    /\ rotates = "dir" /\ msg = 0 /\ stored_msg = FALSE
    /\ report = [in_events |-> 0, out_events |-> 0]
    /\ epoch = 0 /\ run = 0
    /\ first = runid + 1
    /\ stored = {} /\ nstored = 0 /\ fbytes = 0

\* The process ends, in whatever state, and is started again.
Restart ==
    /\ epoch < MaxEpochs
    /\ \E max \in get_max_runid : NewProcess(max)
    /\ epoch' = epoch + 1
    /\ UNCHANGED stored

-----------------------------------------------------------------------------
(* setup_newdir() and setup_newfile(), in thread t.                        *)

Goto(t, l) == pc' = [pc EXCEPT ![t] = l]

SetupNewdir(t) ==
    /\ pc[t] = "newdir"
    /\ dirstr' = dirid
    /\ Mkdir(dirid)
    /\ Goto(t, "dirid")
    /\ UNCHANGED <<rcstate, store, start_newdir, dirid, outdir, good, esize, dsize,
                   rotates, msg, stored_msg, report, history>>

\* Mutant: the next directory gets the same name.
NextDirid_same == dirid
NextDirid == dirid + 1
NextDir(t) ==
    /\ pc[t] = "dirid"
    /\ dirid' = NextDirid
    /\ Goto(t, "close")
    /\ UNCHANGED <<rcstate, store, start_newdir, dirs, dirstr, outdir, good, esize, dsize,
                   rotates, msg, stored_msg, report, history>>

\* Mutant: the file is not closed before the next one is opened.
Closes_never == FALSE
Closes == good

\* if(output.good()) output.close(); a close() without a file is an error.
CloseFile(t) ==
    /\ pc[t] = "close"
    /\ outdir' = IF Closes THEN NoDir ELSE outdir
    /\ good' = IF Closes THEN outdir # NoDir ELSE good
    /\ Goto(t, "open")
    /\ UNCHANGED <<rcstate, store, start_newdir, dirid, dirs, dirstr, esize, dsize,
                   rotates, msg, stored_msg, report, history>>

OpenFile(t) ==
    /\ pc[t] = "open"
    /\ Open(outdir, dirstr, dirs)
    /\ Goto(t, "reset")
    /\ UNCHANGED <<rcstate, store, start_newdir, dirid, dirs, dirstr, esize, dsize,
                   rotates, msg, stored_msg, report, epoch, run, first, stored, nstored>>

-----------------------------------------------------------------------------
(* The control thread.                                                     *)

\* What the run control may ask for: locally the state that a command of
\* RCFSM leads to, remotely any state.
Commanded(s) ==
    \/ Remote
    \/ \E cmd \in RCcommand : try_process(rcstate, cmd) = RCOK /\ process(rcstate, cmd) = s

\* Mutant: only a start from READY is one.
StartsRun_ready(s) == rcstate = READY /\ s = RUNNING
StartsRun(s) == rcstate \in {PAUSED, READY} /\ s = RUNNING

\* The writer thread sleeps or is about to look at rcstate.
WriterRests == pc["writer"] = "check"

\* set_rcstate(s) without a new directory.
SetRcstate(s) ==
    /\ pc["control"] = "idle"
    /\ Commanded(s)
    /\ s = RUNNING /\ rcstate # RUNNING => run < MaxRuns /\ (WriterRests \/ Overlap)
    /\ StartsRun(s) => start_newdir \/ ~store
    /\ rcstate' = s
    /\ start_newdir' = (start_newdir /\ ~StartsRun(s))
    /\ run' = IF s = RUNNING /\ rcstate # RUNNING THEN run + 1 ELSE run
    /\ UNCHANGED <<store, dirs, dirid, dirstr, outdir, good, esize, dsize, pc, rotates, msg,
                   stored_msg, report, epoch, first, stored, nstored, fbytes>>

\* set_rcstate(RUNNING) with a new directory: from here through setup_newdir
\* and setup_newfile to the assignment of rcstate, in SetRunning.
StartRun ==
    /\ pc["control"] = "idle"
    /\ Commanded(RUNNING)
    /\ run < MaxRuns
    /\ WriterRests \/ Overlap
    /\ StartsRun(RUNNING) /\ ~start_newdir /\ store
    /\ Goto("control", "newdir")
    /\ UNCHANGED <<object, dirs, rotates, msg, stored_msg, report, history>>

SetRunning ==
    /\ pc["control"] = "reset"
    /\ esize' = 0 /\ dsize' = 0
    /\ start_newdir' = FALSE
    /\ rcstate' = RUNNING
    /\ run' = run + 1
    /\ Goto("control", "idle")
    /\ UNCHANGED <<store, dirs, dirid, dirstr, outdir, good, rotates, msg, stored_msg, report,
                   epoch, first, stored, nstored, fbytes>>

set_store(value) ==
    /\ store' = value
    /\ UNCHANGED <<rcstate, start_newdir, dirs, dirid, dirstr, outdir, good, esize, dsize, pc,
                   rotates, msg, stored_msg, report, history>>

-----------------------------------------------------------------------------
(* The writer thread: process().                                           *)

\* Not running: one second of sleep.
Sleep ==
    /\ pc["writer"] = "check"
    /\ rcstate # RUNNING
    /\ UNCHANGED vars

Check ==
    /\ pc["writer"] = "check"
    /\ rcstate = RUNNING
    /\ Goto("writer", "recv")
    /\ UNCHANGED <<object, dirs, rotates, msg, stored_msg, report, history>>

RecvTimeout ==
    /\ pc["writer"] = "recv"
    /\ Goto("writer", "check")
    /\ UNCHANGED <<object, dirs, rotates, msg, stored_msg, report, history>>

Recv(size) ==
    /\ pc["writer"] = "recv"
    /\ report.in_events < MaxEvents
    /\ msg' = size
    /\ report' = [report EXCEPT !.in_events = @ + 1]
    /\ stored_msg' = store
    /\ Goto("writer", IF store THEN "write" ELSE "report")
    /\ UNCHANGED <<object, dirs, rotates, epoch, run, first, stored, nstored, fbytes>>

\* WriteDataset() on a stream that is not good, or whose file system fails,
\* writes nothing and leaves the stream in error; nobody looks at it.
WriteDataset ==
    /\ pc["writer"] = "write"
    /\ \/ /\ good /\ outdir # NoDir
          /\ stored' = stored \cup {<<outdir, epoch>>}
          /\ nstored' = nstored + 1
          /\ fbytes' = fbytes + msg
          /\ UNCHANGED good
       \/ /\ ~good \/ outdir = NoDir \/ "write" \in Faults
          /\ good' = FALSE
          /\ UNCHANGED <<stored, nstored, fbytes>>
    /\ Goto("writer", "sizes")
    /\ UNCHANGED <<rcstate, store, start_newdir, dirs, dirid, dirstr, outdir, esize, dsize,
                   rotates, msg, stored_msg, report, epoch, run, first>>

\* Mutants: no wrap; only the directory is limited.
Add_unbounded(a, b) == a + b
Add(a, b) == (a + b) % SizeMod
Rotation_dir_only(e, f) == IF f > event_dir_size THEN "dir" ELSE "none"
Rotation(e, f) ==
    IF f > event_dir_size THEN "dir" ELSE IF e > event_file_size THEN "file" ELSE "none"

CountSizes ==
    /\ pc["writer"] = "sizes"
    /\ esize' = Add(esize, msg)
    /\ dsize' = Add(dsize, msg)
    /\ LET r == Rotation(esize', dsize')
       IN  /\ Goto("writer", CASE r = "dir" -> "newdir" [] r = "file" -> "close" [] OTHER -> "report")
           /\ rotates' = IF r = "none" THEN rotates ELSE r
    /\ UNCHANGED <<rcstate, store, start_newdir, dirs, dirid, dirstr, outdir, good, msg,
                   stored_msg, report, history>>

ResetSizes ==
    /\ pc["writer"] = "reset"
    /\ esize' = 0
    /\ dsize' = IF rotates = "dir" THEN 0 ELSE dsize
    /\ Goto("writer", "report")
    /\ UNCHANGED <<rcstate, store, start_newdir, dirs, dirid, dirstr, outdir, good, rotates,
                   msg, stored_msg, report, history>>

\* Mutant: every event received counts as written.
Counts_all == TRUE
Counts == stored_msg

\* The counters, and the event to the spy.
SetReport ==
    /\ pc["writer"] = "report"
    /\ report' = [report EXCEPT !.out_events = IF Counts THEN @ + 1 ELSE @]
    /\ Goto("writer", "check")
    /\ UNCHANGED <<object, dirs, rotates, msg, stored_msg, history>>

-----------------------------------------------------------------------------
Setup(t) == SetupNewdir(t) \/ NextDir(t) \/ CloseFile(t) \/ OpenFile(t)

Control ==
    \/ \E s \in RCstate : SetRcstate(s)
    \/ StartRun
    \/ SetRunning
    \/ \E value \in BOOLEAN : set_store(value)

Process ==
    \/ Sleep \/ Check \/ RecvTimeout \/ WriteDataset \/ CountSizes \/ ResetSizes \/ SetReport
    \/ \E size \in Sizes : Recv(size)

Next == Control \/ Process \/ (\E t \in Threads : Setup(t)) \/ Restart

Spec == Init /\ [][Next]_vars

-----------------------------------------------------------------------------
(* Properties.                                                             *)

Labels == {"idle", "check", "recv", "write", "sizes", "newdir", "dirid", "close", "open",
           "reset", "report"}

\* Types; the unsigned sizes stay below their modulus.
TypeOK ==
    /\ rcstate \in RCstate
    /\ store \in BOOLEAN /\ start_newdir \in BOOLEAN
    /\ dirs \subseteq Nat
    /\ dirid \in Nat /\ dirstr \in Nat
    /\ outdir \in Nat \cup {NoDir} /\ good \in BOOLEAN
    /\ esize \in 0..(SizeMod - 1) /\ dsize \in 0..(SizeMod - 1)
    /\ pc \in [Threads -> Labels]
    /\ rotates \in {"dir", "file"}
    /\ msg \in Nat /\ stored_msg \in BOOLEAN
    /\ report \in [in_events : Nat, out_events : Nat]
    /\ epoch \in Nat /\ run \in Nat /\ first \in Nat
    /\ stored \subseteq Nat \X Nat
    /\ nstored \in Nat /\ fbytes \in Nat

\* A directory holds the events of one process only: get_max_runid() finds
\* an id above every directory that an earlier process wrote to, whenever
\* and wherever that process ended.
EpochsApart == \A x, y \in stored : x[1] = y[1] => x[2] = y[2]

\* setup_newdir() is never given the name of a directory that exists, so it
\* never returns DIR_EXISTS after the constructor.
FreshDirectory == \A t \in Threads : pc[t] = "newdir" => dirid \notin dirs

\* When a run starts that stores its events, the file that is open is one
\* in a directory that holds no events yet.
StartIsFresh ==
    [][rcstate # RUNNING /\ rcstate' = RUNNING /\ store' =>
          \A x \in stored : x[1] # outdir]_vars

\* Outside setup_newfile() the stream takes events, into the directory of
\* the run.
NotInSetup(t) == pc[t] \notin {"newdir", "dirid", "close", "open"}
Writable ==
    (\A t \in Threads : NotInSetup(t)) => good /\ outdir = dirstr

\* A file exceeds its limit by two events at most: the one that crosses it,
\* and one that a wrap of the uninitialised esize hides from the counter.
FileBound == fbytes <= event_file_size + 2 * MaxSize

\* What the report says was written is on disk.
CountedIsStored == pc["writer"] \in {"check", "recv"} => report.out_events = nstored
=============================================================================

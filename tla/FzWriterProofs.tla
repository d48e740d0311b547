--------------------------- MODULE FzWriterProofs ---------------------------
(***************************************************************************)
(* Proofs about FzWriter, for every value of its constants.                *)
(***************************************************************************)
EXTENDS FzWriter, TLAPS

\* unsigned addition stays in the range of the type.
LEMMA AddType ==
    \A a \in 0..(SizeMod - 1), b \in Nat : Add(a, b) \in 0..(SizeMod - 1)
<1>1. SizeMod \in Nat /\ SizeMod > 0
  BY SizeAssumption
<1> QED
  BY <1>1 DEF Add

\* The sizes that the constructor and the events bring in have their type.
LEMMA SizeTypes ==
    /\ \A x \in Garbage : x \in 0..(SizeMod - 1)
    /\ 0 \in 0..(SizeMod - 1)
    /\ \A x \in Sizes : x \in Nat
  BY SizeAssumption

\* What get_max_runid() returns is a natural number.
LEMMA MaxRunidType ==
    ASSUME TypeOK, NEW max \in get_max_runid
    PROVE  max \in Nat
  BY RunidAssumption, TagAssumption DEF TypeOK, get_max_runid, RunNumber, NoNumber

\* open() leaves a well typed stream.
LEMMA OpenType ==
    ASSUME NEW held \in Nat \cup {NoDir}, NEW id \in Nat, NEW ondisk, Open(held, id, ondisk),
           fbytes \in Nat
    PROVE  outdir' \in Nat \cup {NoDir} /\ good' \in BOOLEAN /\ fbytes' \in Nat
<1>1. outdir' \in Nat \cup {NoDir} /\ fbytes' \in Nat
  BY DEF Open
<1>2. good' \in BOOLEAN
  BY Zenon DEF Open
<1> QED
  BY <1>1, <1>2

-----------------------------------------------------------------------------
(* Type correctness.                                                       *)

LEMMA InitType == Init => TypeOK
<1> SUFFICES ASSUME Init PROVE TypeOK
  OBVIOUS
<1> USE RunidAssumption, SizeTypes DEF Init
<1>1. rcstate \in RCstate /\ store \in BOOLEAN /\ start_newdir \in BOOLEAN
  BY DEF RCstate, IDLE
<1>2. dirs \subseteq Nat /\ dirid \in Nat /\ dirstr \in Nat /\ first \in Nat
  OBVIOUS
<1>3. outdir \in Nat \cup {NoDir}
  BY <1>2 DEF NoDir
<1>5. good \in BOOLEAN
  BY Zenon
<1>4. pc \in [Threads -> Labels]
  BY DEF Threads, Labels
<1> QED
  BY <1>1, <1>2, <1>3, <1>4, <1>5 DEF TypeOK

\* The constructor leaves a well typed object.
LEMMA NewProcessType == TypeOK /\ Restart => TypeOK'
<1> SUFFICES ASSUME TypeOK, Restart PROVE TypeOK'
  OBVIOUS
<1>1. PICK max \in get_max_runid : NewProcess(max)
  BY DEF Restart
<1>2. max \in Nat
  BY MaxRunidType
<1>3. rcstate' \in RCstate /\ store' \in BOOLEAN /\ start_newdir' \in BOOLEAN
  BY <1>1 DEF NewProcess, RCstate, IDLE
<1>4. dirid' \in Nat /\ dirstr' \in Nat /\ first' \in Nat
  BY <1>1, <1>2 DEF NewProcess
<1>5. /\ dirs' \subseteq Nat
      /\ outdir' \in Nat \cup {NoDir} /\ good' \in BOOLEAN /\ fbytes' \in Nat
  <2>1. max + 1 \in Nat
    BY <1>2
  <2>2. Mkdir(max + 1) /\ Open(NoDir, max + 1, dirs')
    BY <1>1 DEF NewProcess
  <2>3. dirs' \subseteq Nat
    BY <2>1, <2>2 DEF Mkdir, TypeOK
  <2>4. outdir' \in Nat \cup {NoDir} /\ good' \in BOOLEAN /\ fbytes' \in Nat
    BY <2>1, <2>2, OpenType DEF TypeOK
  <2> QED
    BY <2>3, <2>4
<1>6. esize' \in 0..(SizeMod - 1) /\ dsize' \in 0..(SizeMod - 1)
  BY <1>1, SizeTypes DEF NewProcess
<1>7. pc' \in [Threads -> Labels]
  BY <1>1 DEF NewProcess, Threads, Labels
<1>8. /\ rotates' \in {"dir", "file"} /\ msg' \in Nat /\ stored_msg' \in BOOLEAN
      /\ report' \in [in_events : Nat, out_events : Nat]
      /\ run' \in Nat /\ nstored' \in Nat
  BY <1>1 DEF NewProcess
<1>9. epoch' \in Nat /\ stored' \subseteq Nat \X Nat
  BY DEF Restart, TypeOK
<1> QED
  BY <1>3, <1>4, <1>5, <1>6, <1>7, <1>8, <1>9 DEF TypeOK

LEMMA StepType == TypeOK /\ [Next]_vars => TypeOK'
<1> SUFFICES ASSUME TypeOK, [Next]_vars PROVE TypeOK'
  OBVIOUS
<1> USE DEF TypeOK, object, history
<1>1. ASSUME NEW s \in RCstate, SetRcstate(s) PROVE TypeOK'
  BY <1>1 DEF SetRcstate
<1>2. CASE StartRun
  BY <1>2 DEF StartRun, Goto, Threads, Labels
<1>3. CASE SetRunning
  <2>1. esize' \in 0..(SizeMod - 1) /\ dsize' \in 0..(SizeMod - 1)
    BY <1>3, SizeTypes DEF SetRunning
  <2>2. rcstate' \in RCstate /\ run' \in Nat
    BY <1>3 DEF SetRunning, RCstate
  <2>4. start_newdir' \in BOOLEAN
    BY <1>3, Zenon DEF SetRunning
  <2>3. pc' \in [Threads -> Labels]
    BY <1>3 DEF SetRunning, Goto, Threads, Labels
  <2> QED
    BY <1>3, <2>1, <2>2, <2>3, <2>4 DEF SetRunning
<1>4. ASSUME NEW value \in BOOLEAN, set_store(value) PROVE TypeOK'
  BY <1>4 DEF set_store
<1>5. CASE Sleep \/ UNCHANGED vars
  BY <1>5 DEF Sleep, vars
<1>6. CASE Check \/ RecvTimeout
  BY <1>6 DEF Check, RecvTimeout, Goto, Threads, Labels
<1>7. ASSUME NEW size \in Sizes, Recv(size) PROVE TypeOK'
  <2>1. pc' \in [Threads -> Labels] /\ msg' \in Nat
    BY <1>7, SizeTypes DEF Recv, Goto, Threads, Labels
  <2>2. report' \in [in_events : Nat, out_events : Nat] /\ stored_msg' \in BOOLEAN
    BY <1>7 DEF Recv
  <2> QED
    BY <1>7, <2>1, <2>2 DEF Recv
<1>8. CASE WriteDataset
  <2>1. pc' \in [Threads -> Labels] /\ good' \in BOOLEAN
    BY <1>8 DEF WriteDataset, Goto, Threads, Labels
  <2>2. stored' \subseteq Nat \X Nat /\ nstored' \in Nat /\ fbytes' \in Nat
    BY <1>8 DEF WriteDataset
  <2> QED
    BY <1>8, <2>1, <2>2 DEF WriteDataset
<1>9. CASE CountSizes
  <2>1. esize' \in 0..(SizeMod - 1) /\ dsize' \in 0..(SizeMod - 1)
    BY <1>9, AddType DEF CountSizes
  <2>2. pc' \in [Threads -> Labels] /\ rotates' \in {"dir", "file"}
    BY <1>9 DEF CountSizes, Goto, Threads, Labels, Rotation
  <2> QED
    BY <1>9, <2>1, <2>2 DEF CountSizes
<1>10. CASE ResetSizes
  <2>1. esize' \in 0..(SizeMod - 1) /\ dsize' \in 0..(SizeMod - 1)
    BY <1>10, SizeTypes DEF ResetSizes
  <2>2. pc' \in [Threads -> Labels]
    BY <1>10 DEF ResetSizes, Goto, Threads, Labels
  <2> QED
    BY <1>10, <2>1, <2>2 DEF ResetSizes
<1>11. CASE SetReport
  <2>1. pc' \in [Threads -> Labels] /\ report' \in [in_events : Nat, out_events : Nat]
    BY <1>11 DEF SetReport, Goto, Threads, Labels
  <2> QED
    BY <1>11, <2>1 DEF SetReport
<1>12. ASSUME NEW t \in Threads, SetupNewdir(t) PROVE TypeOK'
  BY <1>12 DEF SetupNewdir, Mkdir, Goto, Threads, Labels
<1>13. ASSUME NEW t \in Threads, NextDir(t) PROVE TypeOK'
  BY <1>13 DEF NextDir, NextDirid, Goto, Threads, Labels
<1>14. ASSUME NEW t \in Threads, CloseFile(t) PROVE TypeOK'
  BY <1>14 DEF CloseFile, Closes, Goto, Threads, Labels
<1>15. ASSUME NEW t \in Threads, OpenFile(t) PROVE TypeOK'
  <2>1. outdir' \in Nat \cup {NoDir} /\ good' \in BOOLEAN /\ fbytes' \in Nat
    BY <1>15, OpenType DEF OpenFile
  <2>2. pc' \in [Threads -> Labels]
    BY <1>15 DEF OpenFile, Goto, Threads, Labels
  <2> QED
    BY <1>15, <2>1, <2>2 DEF OpenFile
<1>16. CASE Restart
  BY <1>16, NewProcessType
<1> QED
  BY <1>1, <1>2, <1>3, <1>4, <1>5, <1>6, <1>7, <1>8, <1>9, <1>10, <1>11, <1>12, <1>13,
     <1>14, <1>15, <1>16 DEF Next, Control, Process, Setup

\* Every reachable state of FzWriter.cpp's object is well typed: in
\* particular esize and dsize, uninitialised and wrapping, stay in range.
THEOREM TypeCorrect == Spec => []TypeOK
<1>1. Init => TypeOK
  BY InitType
<1>2. TypeOK /\ [Next]_vars => TypeOK'
  BY StepType
<1> QED
  BY <1>1, <1>2, PTL DEF Spec

-----------------------------------------------------------------------------
(* A directory holds the events of one process.                            *)

\* The tag of the configuration has no digits, as in "run", "LNS", "GANIL".
PlainTag == TagNumber = NoNumber

\* Everything this process names or opens is at or above its first directory,
\* everything an earlier process wrote to is below it; events are only in
\* directories that exist, where get_max_runid() finds them.
EpochInv ==
    /\ first <= dirid /\ first <= dirstr
    /\ outdir # NoDir => outdir \in dirs /\ first <= outdir
    /\ \A x \in stored :
         /\ x[1] \in dirs
         /\ x[2] <= epoch
         /\ x[2] < epoch => x[1] < first
         /\ x[2] = epoch => first <= x[1]
    /\ EpochsApart

LEMMA InitEpoch == Init => EpochInv
  BY RunidAssumption DEF Init, EpochInv, EpochsApart, NoDir

\* The first directory of a new process is above all others.
LEMMA RestartEpoch ==
    ASSUME PlainTag, TypeOK, EpochInv, Restart
    PROVE  EpochInv'
<1>1. PICK max \in get_max_runid : NewProcess(max)
  BY DEF Restart
<1>2. max \in Nat
  BY MaxRunidType
<1>3. \A id \in dirs : id <= max
  BY DEF get_max_runid, RunNumber, PlainTag
<1>4. first' = max + 1 /\ dirid' = max + 2 /\ dirstr' = max + 1
  BY <1>1 DEF NewProcess
<1>5. dirs \subseteq dirs'
  BY <1>1 DEF NewProcess, Mkdir
<1>6. outdir' # NoDir => outdir' \in dirs' /\ outdir' = max + 1
  BY <1>1 DEF NewProcess, Open
<1>7. epoch' = epoch + 1 /\ stored' = stored
  BY DEF Restart
<1>8. ASSUME NEW x \in stored
      PROVE  /\ x[1] \in dirs'
             /\ x[2] <= epoch'
             /\ x[2] < epoch' => x[1] < first'
             /\ x[2] = epoch' => first' <= x[1]
  <2>1. x[1] \in dirs /\ x[2] <= epoch
    BY DEF EpochInv
  <2>2. x[1] \in Nat /\ x[2] \in Nat /\ epoch \in Nat
    BY <1>8 DEF TypeOK
  <2> QED
    BY <1>2, <1>3, <1>4, <1>5, <1>7, <2>1, <2>2
<1>9. EpochsApart'
  BY <1>7 DEF EpochInv, EpochsApart
<1> QED
  BY <1>2, <1>4, <1>6, <1>7, <1>8, <1>9 DEF EpochInv

\* An event goes into a directory of this process.
LEMMA WriteEpoch ==
    ASSUME TypeOK, EpochInv, WriteDataset
    PROVE  EpochInv'
<1>1. UNCHANGED <<dirs, dirid, dirstr, outdir, first, epoch>>
  BY DEF WriteDataset
<1>2. CASE stored' = stored
  BY <1>1, <1>2 DEF EpochInv, EpochsApart
<1>3. CASE outdir # NoDir /\ stored' = stored \cup {<<outdir, epoch>>}
  <2>1. outdir \in Nat /\ epoch \in Nat /\ first \in Nat /\ outdir \in dirs /\ first <= outdir
    BY <1>3 DEF TypeOK, EpochInv
  <2>2. ASSUME NEW x \in stored'
        PROVE  /\ x[1] \in dirs'
               /\ x[2] <= epoch'
               /\ x[2] < epoch' => x[1] < first'
               /\ x[2] = epoch' => first' <= x[1]
    BY <1>1, <1>3, <2>1, <2>2 DEF EpochInv
  <2>3. ASSUME NEW x \in stored', NEW y \in stored', x[1] = y[1]
        PROVE  x[2] = y[2]
    <3>1. CASE x \in stored /\ y \in stored
      BY <2>3, <3>1 DEF EpochInv, EpochsApart
    <3>2. ASSUME NEW z \in stored, z[1] = outdir PROVE z[2] = epoch
      <4>1. z[2] <= epoch /\ (z[2] < epoch => z[1] < first)
        BY DEF EpochInv
      <4>2. z[1] \in Nat /\ z[2] \in Nat
        BY DEF TypeOK
      <4> QED
        BY <2>1, <3>2, <4>1, <4>2
    <3> QED
      BY <1>3, <2>3, <3>1, <3>2
  <2> QED
    BY <1>1, <1>3, <2>1, <2>2, <2>3 DEF EpochInv, EpochsApart
<1> QED
  BY <1>2, <1>3 DEF WriteDataset

LEMMA StepEpoch ==
    ASSUME PlainTag, TypeOK, EpochInv, [Next]_vars
    PROVE  EpochInv'
<1> USE DEF object, history
<1>1. CASE UNCHANGED <<dirs, dirid, dirstr, outdir, first, stored, epoch>>
  BY <1>1 DEF EpochInv, EpochsApart
<1>2. ASSUME NEW t \in Threads, SetupNewdir(t) PROVE EpochInv'
  <2>1. dirs \subseteq dirs' /\ dirstr' = dirid
    BY <1>2 DEF SetupNewdir, Mkdir
  <2>2. UNCHANGED <<dirid, outdir, first, stored, epoch>>
    BY <1>2 DEF SetupNewdir
  <2> QED
    BY <2>1, <2>2 DEF EpochInv, EpochsApart
<1>3. ASSUME NEW t \in Threads, NextDir(t) PROVE EpochInv'
  <2>1. dirid' = dirid + 1 /\ dirid \in Nat /\ first \in Nat
    BY <1>3 DEF NextDir, NextDirid, TypeOK
  <2>2. UNCHANGED <<dirs, dirstr, outdir, first, stored, epoch>>
    BY <1>3 DEF NextDir
  <2> QED
    BY <2>1, <2>2 DEF EpochInv, EpochsApart
<1>4. ASSUME NEW t \in Threads, CloseFile(t) PROVE EpochInv'
  <2>1. outdir' = NoDir \/ outdir' = outdir
    BY <1>4 DEF CloseFile
  <2>2. UNCHANGED <<dirs, dirid, dirstr, first, stored, epoch>>
    BY <1>4 DEF CloseFile
  <2> QED
    BY <2>1, <2>2 DEF EpochInv, EpochsApart
<1>5. ASSUME NEW t \in Threads, OpenFile(t) PROVE EpochInv'
  <2>1. outdir' = outdir \/ (outdir' = dirstr /\ dirstr \in dirs)
    BY <1>5 DEF OpenFile, Open
  <2>2. UNCHANGED <<dirs, dirid, dirstr, first, stored, epoch>>
    BY <1>5 DEF OpenFile
  <2> QED
    BY <2>1, <2>2 DEF EpochInv, EpochsApart
<1>6. CASE WriteDataset
  BY <1>6, WriteEpoch
<1>7. CASE Restart
  BY <1>7, RestartEpoch
<1>8. CASE Control
  BY <1>1, <1>8 DEF Control, SetRcstate, StartRun, SetRunning, set_store
<1>9. CASE Process
  BY <1>1, <1>6, <1>9 DEF Process, Sleep, Check, RecvTimeout, Recv, CountSizes, ResetSizes,
                          SetReport, vars
<1>10. CASE UNCHANGED vars
  BY <1>1, <1>10 DEF vars
<1> QED
  BY <1>2, <1>3, <1>4, <1>5, <1>7, <1>8, <1>9, <1>10 DEF Next, Setup

\* Whenever a process ends and the next one starts, and however the two
\* threads interleave, no run directory receives events of two processes, as
\* long as the run tag has no digits (FzWriter.cpp 166, 192-214).
THEOREM ProcessesApart == PlainTag => (Spec => []EpochsApart)
<1> SUFFICES ASSUME PlainTag PROVE Spec => []EpochsApart
  OBVIOUS
<1>1. Init => TypeOK /\ EpochInv
  BY InitType, InitEpoch
<1>2. TypeOK /\ EpochInv /\ [Next]_vars => (TypeOK /\ EpochInv)'
  BY StepType, StepEpoch
<1>3. EpochInv => EpochsApart
  BY DEF EpochInv
<1> QED
  BY <1>1, <1>2, <1>3, PTL DEF Spec
-----------------------------------------------------------------------------
(***************************************************************************)
(* The rest is about the writer when a start leaves its thread the time to *)
(* finish its iteration (Overlap = FALSE): set_rcstate() and process() are *)
(* then never in setup_newdir() or setup_newfile() together, although no   *)
(* lock keeps them apart.                                                  *)
(***************************************************************************)

SetupLabels == {"newdir", "dirid", "close", "open", "reset"}

-----------------------------------------------------------------------------
(* The two threads do not meet.                                            *)

\* While the control thread allocates a run, the writer thread sleeps: the
\* run control state is the last thing that set_rcstate() changes.
Excl ==
    /\ pc["control"] \in SetupLabels \cup {"idle"}
    /\ pc["writer"] \in Labels \ {"idle"}
    /\ pc["control"] # "idle" => pc["writer"] = "check" /\ rcstate # RUNNING

LEMMA InitExcl == Init => Excl
  BY DEF Init, Excl, SetupLabels, Labels

LEMMA StepExcl ==
    ASSUME ~Overlap, TypeOK, Excl, [Next]_vars
    PROVE  Excl'
<1> USE DEF TypeOK, Excl, SetupLabels, Labels, Threads, Goto, object, history
<1>1. ASSUME NEW s \in RCstate, SetRcstate(s) PROVE Excl'
  BY <1>1 DEF SetRcstate
<1>2. CASE StartRun
  BY <1>2 DEF StartRun, WriterRests, StartsRun, PAUSED, READY, RUNNING
<1>3. CASE SetRunning
  BY <1>3 DEF SetRunning
<1>4. ASSUME NEW value \in BOOLEAN, set_store(value) PROVE Excl'
  BY <1>4 DEF set_store
<1>5. CASE Sleep \/ UNCHANGED vars
  BY <1>5 DEF Sleep, vars
<1>6. CASE Check
  BY <1>6 DEF Check
<1>7. CASE RecvTimeout \/ (\E size \in Sizes : Recv(size))
  BY <1>7 DEF RecvTimeout, Recv
<1>8. CASE WriteDataset \/ ResetSizes \/ SetReport
  BY <1>8 DEF WriteDataset, ResetSizes, SetReport
<1>9. CASE CountSizes
  BY <1>9 DEF CountSizes
<1>10. ASSUME NEW t \in Threads, Setup(t) PROVE Excl'
  BY <1>10 DEF Setup, SetupNewdir, NextDir, CloseFile, OpenFile
<1>11. CASE Restart
  BY <1>11 DEF Restart, NewProcess
<1> QED
  BY <1>1, <1>2, <1>3, <1>4, <1>5, <1>6, <1>7, <1>8, <1>9, <1>10, <1>11
     DEF Next, Control, Process

-----------------------------------------------------------------------------
(* New names.                                                              *)

\* dirid is above every directory, except between mkdir() and dirid++.
DiridInv ==
    /\ \A id \in dirs : id <= dirid
    /\ (\A t \in Threads : pc[t] # "dirid") => \A id \in dirs : id < dirid

LEMMA InitDirid == Init => DiridInv
  BY RunidAssumption DEF Init, DiridInv, Threads

LEMMA StepDirid ==
    ASSUME PlainTag, TypeOK, Excl, DiridInv, [Next]_vars
    PROVE  DiridInv'
<1> USE DEF object, history
<1>1. ASSUME UNCHANGED <<dirs, dirid>>, \A t \in Threads : pc[t] = "dirid" => pc'[t] = "dirid"
      PROVE  DiridInv'
  BY <1>1 DEF DiridInv
<1>2. ASSUME NEW t \in Threads, SetupNewdir(t) PROVE DiridInv'
  <2>1. dirs' \subseteq dirs \cup {dirid} /\ dirid' = dirid
    BY <1>2 DEF SetupNewdir, Mkdir
  <2>2. pc'[t] = "dirid"
    BY <1>2 DEF SetupNewdir, Goto, TypeOK
  <2> QED
    BY <2>1, <2>2 DEF DiridInv, TypeOK
<1>3. ASSUME NEW t \in Threads, NextDir(t) PROVE DiridInv'
  <2>1. dirs' = dirs /\ dirid' = dirid + 1 /\ dirid \in Nat /\ dirs \subseteq Nat
    BY <1>3 DEF NextDir, NextDirid, TypeOK
  <2> QED
    BY <2>1 DEF DiridInv
<1>4. ASSUME NEW t \in Threads, CloseFile(t) \/ OpenFile(t) PROVE DiridInv'
  BY <1>1, <1>4 DEF CloseFile, OpenFile, Goto, TypeOK
<1>5. CASE Restart
  <2>1. PICK max \in get_max_runid : NewProcess(max)
    BY <1>5 DEF Restart
  <2>2. max \in Nat /\ \A id \in dirs : id <= max
    BY MaxRunidType DEF get_max_runid, RunNumber, PlainTag
  <2>3. dirid' = max + 2 /\ dirs' \subseteq dirs \cup {max + 1}
    BY <2>1 DEF NewProcess, Mkdir
  <2> QED
    BY <2>2, <2>3 DEF DiridInv, TypeOK
<1>6. CASE Control
  BY <1>1, <1>6 DEF Control, SetRcstate, StartRun, SetRunning, set_store, Goto, TypeOK
<1>7. CASE Process
  BY <1>1, <1>7 DEF Process, Sleep, Check, RecvTimeout, Recv, WriteDataset, CountSizes,
                    ResetSizes, SetReport, Goto, TypeOK, vars
<1>8. CASE UNCHANGED vars
  BY <1>1, <1>8 DEF vars
<1> QED
  BY <1>2, <1>3, <1>4, <1>5, <1>6, <1>7, <1>8 DEF Next, Setup

\* setup_newdir(), called by process() or by set_rcstate(), in the first
\* process or after any restart, always names a directory that is not there
\* yet (FzWriter.cpp 173-187).
THEOREM NamesAreFresh == PlainTag /\ ~Overlap => (Spec => []FreshDirectory)
<1> SUFFICES ASSUME PlainTag, ~Overlap PROVE Spec => []FreshDirectory
  OBVIOUS
<1>1. Init => TypeOK /\ Excl /\ DiridInv
  BY InitType, InitExcl, InitDirid
<1>2. TypeOK /\ Excl /\ DiridInv /\ [Next]_vars => (TypeOK /\ Excl /\ DiridInv)'
  BY StepType, StepExcl, StepDirid
<1>3. TypeOK /\ Excl /\ DiridInv => FreshDirectory
  <2> SUFFICES ASSUME TypeOK, Excl, DiridInv, NEW t \in Threads, pc[t] = "newdir"
               PROVE  dirid \notin dirs
    BY DEF FreshDirectory
  <2>1. \A u \in Threads : pc[u] # "dirid"
    BY DEF Excl, SetupLabels, Threads
  <2> QED
    BY <2>1 DEF DiridInv, TypeOK
<1> QED
  BY <1>1, <1>2, <1>3, PTL DEF Spec

-----------------------------------------------------------------------------
(* The stream.                                                             *)

NoFaults == Faults = {}

\* Where the stream is along setup_newdir() and setup_newfile().
StreamInv ==
    /\ good = TRUE
    /\ dirstr \in dirs
    /\ (\E t \in Threads : pc[t] = "open") => outdir = NoDir
    /\ (\A t \in Threads : pc[t] # "open") => outdir # NoDir
    /\ (\A t \in Threads : pc[t] \notin {"dirid", "close", "open"}) => outdir = dirstr

LEMMA InitStream == NoFaults /\ Init => StreamInv
<1> SUFFICES ASSUME NoFaults, Init PROVE StreamInv
  OBVIOUS
<1>1. dirstr \in dirs
  BY DEF Init, NoFaults
<1>2. outdir = dirstr /\ good = TRUE
  BY <1>1 DEF Init, NoFaults
<1>3. outdir # NoDir
  BY <1>2, RunidAssumption DEF Init, NoDir
<1> QED
  BY <1>1, <1>2, <1>3 DEF Init, StreamInv, Threads

LEMMA StepStream ==
    ASSUME NoFaults, TypeOK, Excl, StreamInv, [Next]_vars
    PROVE  StreamInv'
<1> USE DEF object, history
<1>1. ASSUME UNCHANGED <<good, dirs, dirstr, outdir>>,
             \A t \in Threads : \/ pc'[t] = pc[t]
                                \/ /\ pc[t] \notin {"dirid", "close", "open"}
                                   /\ pc'[t] \notin {"dirid", "close", "open"}
      PROVE  StreamInv'
  BY <1>1 DEF StreamInv
<1>2. ASSUME NEW t \in Threads, SetupNewdir(t) PROVE StreamInv'
  <2>1. pc[t] = "newdir" /\ \A u \in Threads : u # t => pc[u] \in {"check", "idle"}
    BY <1>2 DEF SetupNewdir, Excl, SetupLabels, Threads
  <2>2. pc'[t] = "dirid" /\ \A u \in Threads : u # t => pc'[u] = pc[u]
    BY <1>2 DEF SetupNewdir, Goto, TypeOK
  <2>3. dirstr' = dirid /\ dirs' = dirs \cup {dirid} /\ UNCHANGED <<good, outdir>>
    BY <1>2 DEF SetupNewdir, Mkdir, NoFaults
  <2> QED
    BY <2>1, <2>2, <2>3 DEF StreamInv
<1>3. ASSUME NEW t \in Threads, NextDir(t) PROVE StreamInv'
  <2>1. pc[t] = "dirid" /\ pc'[t] = "close" /\ \A u \in Threads : u # t => pc'[u] = pc[u]
    BY <1>3 DEF NextDir, Goto, TypeOK
  <2>2. UNCHANGED <<good, dirs, dirstr, outdir>>
    BY <1>3 DEF NextDir
  <2> QED
    BY <2>1, <2>2 DEF StreamInv
<1>4. ASSUME NEW t \in Threads, CloseFile(t) PROVE StreamInv'
  <2>1. pc[t] = "close" /\ \A u \in Threads : u # t => pc[u] \in {"check", "idle"}
    BY <1>4 DEF CloseFile, Excl, SetupLabels, Threads
  <2>2. pc'[t] = "open" /\ \A u \in Threads : u # t => pc'[u] = pc[u]
    BY <1>4 DEF CloseFile, Goto, TypeOK
  <2>3. good /\ outdir # NoDir
    BY <2>1 DEF StreamInv, Threads
  <2>4. outdir' = NoDir /\ UNCHANGED <<dirs, dirstr>>
    BY <1>4, <2>3 DEF CloseFile, Closes
  <2>5. good' = TRUE
    BY <1>4, <2>3, Zenon DEF CloseFile, Closes
  <2> QED
    BY <2>1, <2>2, <2>4, <2>5 DEF StreamInv
<1>5. ASSUME NEW t \in Threads, OpenFile(t) PROVE StreamInv'
  <2>1. pc[t] = "open" /\ \A u \in Threads : u # t => pc[u] \in {"check", "idle"}
    BY <1>5 DEF OpenFile, Excl, SetupLabels, Threads
  <2>2. pc'[t] = "reset" /\ \A u \in Threads : u # t => pc'[u] = pc[u]
    BY <1>5 DEF OpenFile, Goto, TypeOK
  <2>3. outdir = NoDir /\ dirstr \in dirs /\ dirstr # NoDir
    BY <2>1 DEF StreamInv, TypeOK, NoDir
  <2>4. outdir' = dirstr /\ UNCHANGED <<dirs, dirstr>>
    BY <1>5, <2>3 DEF OpenFile, Open, NoFaults
  <2>5. good' = TRUE
    <3>1. "open" \notin Faults
      BY DEF NoFaults
    <3> QED
      BY <1>5, <2>3, <3>1, Zenon DEF OpenFile, Open
  <2> QED
    BY <2>1, <2>2, <2>3, <2>4, <2>5 DEF StreamInv
<1>6. CASE WriteDataset
  <2>1. pc["writer"] = "write" /\ pc["control"] = "idle"
    BY <1>6 DEF WriteDataset, Excl
  <2>2. good /\ outdir # NoDir
    BY <2>1 DEF StreamInv, Threads
  <2>3. UNCHANGED <<good, dirs, dirstr, outdir>>
    <3>1. "write" \notin Faults
      BY DEF NoFaults
    <3> QED
      BY <1>6, <2>2, <3>1, Zenon DEF WriteDataset
  <2> QED
    BY <1>1, <1>6, <2>1, <2>3 DEF WriteDataset, Goto, TypeOK, Threads
<1>7. CASE CountSizes
  <2>1. pc["writer"] = "sizes" /\ pc["control"] = "idle" /\ outdir = dirstr
    BY <1>7 DEF CountSizes, Excl, StreamInv, Threads
  <2>2. pc'["control"] = "idle" /\ pc'["writer"] \in {"newdir", "close", "report"}
    BY <1>7, <2>1 DEF CountSizes, Goto, TypeOK, Threads
  <2>3. UNCHANGED <<good, dirs, dirstr, outdir>>
    BY <1>7 DEF CountSizes
  <2> QED
    BY <2>1, <2>2, <2>3 DEF StreamInv, Threads
<1>8. CASE Restart
  <2>1. PICK max \in get_max_runid : NewProcess(max)
    BY <1>8 DEF Restart
  <2>2. dirstr' = max + 1 /\ dirstr' \in dirs' /\ max \in Nat
    BY <2>1, MaxRunidType DEF NewProcess, Mkdir, NoFaults
  <2>3. Open(NoDir, dirstr', dirs') /\ "open" \notin Faults
    BY <2>1, <2>2 DEF NewProcess, NoFaults
  <2>4. outdir' = dirstr' /\ outdir' # NoDir
    BY <2>2, <2>3 DEF Open, NoDir
  <2>5. good' = TRUE
    BY <2>2, <2>3, Zenon DEF Open
  <2> QED
    BY <2>1, <2>2, <2>4, <2>5 DEF NewProcess, StreamInv, Threads
<1>9. CASE Control
  BY <1>1, <1>9 DEF Control, SetRcstate, StartRun, SetRunning, set_store, Goto, TypeOK
<1>10. CASE Sleep \/ Check \/ RecvTimeout \/ ResetSizes \/ SetReport \/ UNCHANGED vars
  BY <1>1, <1>10 DEF Sleep, Check, RecvTimeout, ResetSizes, SetReport, Goto, TypeOK, vars
<1>11. ASSUME NEW size \in Sizes, Recv(size) PROVE StreamInv'
  BY <1>1, <1>11 DEF Recv, Goto, TypeOK
<1> QED
  BY <1>2, <1>3, <1>4, <1>5, <1>6, <1>7, <1>8, <1>9, <1>10, <1>11 DEF Next, Setup, Process

\* On a file system that does not fail, the stream takes events whenever no
\* thread is in setup_newfile(), and they go to the directory of the run.
THEOREM StreamIsWritable == NoFaults /\ ~Overlap => (Spec => []Writable)
<1> SUFFICES ASSUME NoFaults, ~Overlap PROVE Spec => []Writable
  OBVIOUS
<1>1. Init => TypeOK /\ Excl /\ StreamInv
  BY InitType, InitExcl, InitStream
<1>2. TypeOK /\ Excl /\ StreamInv /\ [Next]_vars => (TypeOK /\ Excl /\ StreamInv)'
  BY StepType, StepExcl, StepStream
<1>3. StreamInv => Writable
  BY DEF StreamInv, Writable, NotInSetup
<1> QED
  BY <1>1, <1>2, <1>3, PTL DEF Spec

-----------------------------------------------------------------------------
(* The counters.                                                           *)

\* The event at hand is on disk and not yet counted.
Uncounted ==
    \/ pc["writer"] \in SetupLabels \cup {"sizes"}
    \/ pc["writer"] = "report" /\ stored_msg

CountInv ==
    /\ pc["writer"] \in SetupLabels \cup {"write", "sizes"} => stored_msg
    /\ nstored = report.out_events + (IF Uncounted THEN 1 ELSE 0)

LEMMA InitCount == Init => CountInv
  BY DEF Init, CountInv, Uncounted, SetupLabels

LEMMA StepCount ==
    ASSUME NoFaults, TypeOK, Excl, StreamInv, CountInv, [Next]_vars
    PROVE  CountInv'
<1> USE DEF object, history, SetupLabels, Threads, Goto
<1>1. ASSUME UNCHANGED <<nstored, report, stored_msg>>, pc'["writer"] = pc["writer"]
      PROVE  CountInv'
  BY <1>1 DEF CountInv, Uncounted
<1>2. CASE WriteDataset
  <2>1. good /\ outdir # NoDir
    BY <1>2 DEF WriteDataset, Excl, StreamInv
  <2>2. nstored' = nstored + 1
    <3>1. "write" \notin Faults
      BY DEF NoFaults
    <3> QED
      BY <1>2, <2>1, <3>1, Zenon DEF WriteDataset
  <2>3. UNCHANGED <<report, stored_msg>> /\ pc["writer"] = "write" /\ pc'["writer"] = "sizes"
    BY <1>2 DEF WriteDataset, TypeOK
  <2> QED
    BY <2>2, <2>3 DEF CountInv, Uncounted, TypeOK
<1>3. ASSUME NEW size \in Sizes, Recv(size) PROVE CountInv'
  <2>1. pc["writer"] = "recv" /\ nstored' = nstored /\ stored_msg' = store
    BY <1>3 DEF Recv
  <2>2. report'.out_events = report.out_events
    BY <1>3 DEF Recv, TypeOK
  <2>3. pc'["writer"] = IF store THEN "write" ELSE "report"
    BY <1>3 DEF Recv, TypeOK
  <2>4. CASE store
    BY <2>1, <2>2, <2>3, <2>4 DEF CountInv, Uncounted, TypeOK
  <2>5. CASE ~store
    BY <2>1, <2>2, <2>3, <2>5 DEF CountInv, Uncounted, TypeOK
  <2> QED
    BY <2>4, <2>5
<1>4. CASE CountSizes
  <2>1. UNCHANGED <<nstored, report, stored_msg>> /\ pc["writer"] = "sizes"
    BY <1>4 DEF CountSizes
  <2>2. pc'["writer"] \in {"newdir", "close", "report"}
    BY <1>4 DEF CountSizes, TypeOK
  <2> QED
    BY <2>1, <2>2 DEF CountInv, Uncounted
<1>5. CASE ResetSizes
  <2>1. UNCHANGED <<nstored, report, stored_msg>> /\ pc["writer"] = "reset"
    BY <1>5 DEF ResetSizes
  <2>2. pc'["writer"] = "report"
    BY <1>5 DEF ResetSizes, TypeOK
  <2> QED
    BY <2>1, <2>2 DEF CountInv, Uncounted
<1>6. CASE SetReport
  <2>1. UNCHANGED <<nstored, stored_msg>> /\ pc["writer"] = "report" /\ pc'["writer"] = "check"
    BY <1>6 DEF SetReport, TypeOK
  <2>2. report'.out_events = IF stored_msg THEN report.out_events + 1 ELSE report.out_events
    BY <1>6 DEF SetReport, Counts, TypeOK
  <2> QED
    BY <2>1, <2>2 DEF CountInv, Uncounted, TypeOK
<1>7. CASE Check \/ RecvTimeout
  BY <1>7 DEF Check, RecvTimeout, CountInv, Uncounted, TypeOK
<1>8. ASSUME NEW t \in Threads, Setup(t) PROVE CountInv'
  <2>1. UNCHANGED <<nstored, report, stored_msg>>
    BY <1>8 DEF Setup, SetupNewdir, NextDir, CloseFile, OpenFile
  <2>2. CASE t = "control"
    BY <1>1, <1>8, <2>1, <2>2 DEF Setup, SetupNewdir, NextDir, CloseFile, OpenFile, TypeOK
  <2>3. CASE t = "writer"
    <3>1. pc["writer"] \in SetupLabels /\ pc'["writer"] \in SetupLabels
      BY <1>8, <2>3 DEF Setup, SetupNewdir, NextDir, CloseFile, OpenFile, TypeOK
    <3> QED
      BY <2>1, <3>1 DEF CountInv, Uncounted
  <2> QED
    BY <2>2, <2>3
<1>9. CASE Restart
  BY <1>9 DEF Restart, NewProcess, CountInv, Uncounted
<1>10. CASE Control
  BY <1>1, <1>10 DEF Control, SetRcstate, StartRun, SetRunning, set_store, TypeOK
<1>11. CASE Sleep \/ UNCHANGED vars
  BY <1>1, <1>11 DEF Sleep, vars
<1> QED
  BY <1>2, <1>3, <1>4, <1>5, <1>6, <1>7, <1>8, <1>9, <1>10, <1>11 DEF Next, Process

\* The out_events that FzNodeManager reports (FzWriter.cpp 244-264) are the
\* events on disk, whatever set_store() does between the events.
THEOREM ReportIsTrue == NoFaults /\ ~Overlap => (Spec => []CountedIsStored)
<1> SUFFICES ASSUME NoFaults, ~Overlap PROVE Spec => []CountedIsStored
  OBVIOUS
<1> DEFINE I == TypeOK /\ Excl /\ StreamInv /\ CountInv
<1>1. Init => I
  BY InitType, InitExcl, InitStream, InitCount
<1>2. I /\ [Next]_vars => I'
  BY StepType, StepExcl, StepStream, StepCount
<1>3. I => CountedIsStored
  BY DEF CountInv, Uncounted, CountedIsStored, SetupLabels, TypeOK
<1> QED
  BY <1>1, <1>2, <1>3, PTL DEF Spec

-----------------------------------------------------------------------------
(* A run starts in a directory of its own.                                 *)

\* Local run control: the states follow each other as in RCFSM.
Local == ~Remote

\* Before the first run nothing is in the directory of the constructor;
\* while set_rcstate() allocates a run nothing is in the new directory.
FreshInv ==
    /\ start_newdir =>
         /\ rcstate \in {IDLE, READY} /\ pc["writer"] = "check" /\ pc["control"] = "idle"
         /\ \A x \in stored : x[1] # outdir
    /\ pc["control"] \in {"dirid", "close", "open", "reset"} => \A x \in stored : x[1] # dirstr

\* A local start is one from READY or PAUSED, the ones that set_rcstate()
\* looks for.
LEMMA LocalStart ==
    ASSUME Local, TypeOK, NEW s \in RCstate, Commanded(s)
    PROVE  /\ s = RUNNING => StartsRun(s)
           /\ s = PAUSED => rcstate = RUNNING
  BY DEF Local, TypeOK, Commanded, StartsRun, RCstate, RCcommand, try_process, process, rc_ttable,
         TransitionTo, RCERROR, RCOK, IDLE, READY, RUNNING, PAUSED

LEMMA InitFresh == Init => FreshInv
  BY DEF Init, FreshInv

LEMMA StepFresh ==
    ASSUME Local, NoFaults, PlainTag, TypeOK, Excl, DiridInv, StreamInv, EpochInv, FreshInv, [Next]_vars
    PROVE  FreshInv'
<1> USE DEF object, history
<1>1. ASSUME UNCHANGED <<stored, outdir, dirstr, rcstate, start_newdir, pc>> PROVE FreshInv'
  BY <1>1 DEF FreshInv
<1>2. ASSUME NEW s \in RCstate, SetRcstate(s) PROVE FreshInv'
  <2>1. /\ pc["control"] = "idle" /\ rcstate' = s /\ Commanded(s)
        /\ start_newdir' = (start_newdir /\ ~StartsRun(s)) /\ UNCHANGED <<stored, outdir, dirstr, pc>>
    BY <1>2 DEF SetRcstate
  <2>2. start_newdir' => start_newdir /\ s \in {IDLE, READY}
    <3>1. (s = RUNNING => StartsRun(s)) /\ (s = PAUSED => rcstate = RUNNING)
      BY <2>1, LocalStart
    <3>2. start_newdir => rcstate # RUNNING
      BY DEF FreshInv, IDLE, READY, RUNNING
    <3> QED
      BY <2>1, <3>1, <3>2 DEF RCstate
  <2> QED
    BY <2>1, <2>2 DEF FreshInv
<1>3. CASE StartRun
  <2>1. start_newdir' = FALSE /\ pc'["control"] = "newdir"
    BY <1>3 DEF StartRun, Goto, TypeOK, Threads
  <2> QED
    BY <2>1 DEF FreshInv
<1>4. CASE SetRunning
  <2>1. start_newdir' = FALSE /\ pc'["control"] = "idle"
    BY <1>4 DEF SetRunning, Goto, TypeOK, Threads
  <2> QED
    BY <2>1 DEF FreshInv
<1>5. ASSUME NEW value \in BOOLEAN, set_store(value) PROVE FreshInv'
  BY <1>1, <1>5 DEF set_store
<1>6. ASSUME NEW t \in Threads, SetupNewdir(t) PROVE FreshInv'
  <2>1. pc[t] = "newdir" /\ UNCHANGED <<stored, outdir, rcstate, start_newdir>> /\ dirstr' = dirid
    BY <1>6 DEF SetupNewdir
  <2>2. ~start_newdir
    BY <2>1 DEF FreshInv, Threads
  <2>3. \A x \in stored : x[1] # dirid
    <3>1. \A u \in Threads : pc[u] # "dirid"
      BY <2>1 DEF Excl, SetupLabels, Threads
    <3>2. \A id \in dirs : id < dirid
      BY <3>1 DEF DiridInv
    <3>3. dirid \notin dirs
      BY <3>2 DEF TypeOK
    <3> QED
      BY <3>3 DEF EpochInv
  <2> QED
    BY <2>1, <2>2, <2>3 DEF FreshInv
<1>7. ASSUME NEW t \in Threads, NextDir(t) \/ CloseFile(t) \/ OpenFile(t) PROVE FreshInv'
  <2>1. /\ pc[t] \in {"dirid", "close", "open"} /\ UNCHANGED <<stored, dirstr, rcstate, start_newdir>>
        /\ pc'["control"] \in {"dirid", "close", "open", "reset"} => pc["control"] \in {"dirid", "close", "open", "reset"}
    BY <1>7 DEF NextDir, CloseFile, OpenFile, Goto, TypeOK, Threads
  <2>2. ~start_newdir
    BY <2>1 DEF FreshInv, Threads
  <2> QED
    BY <2>1, <2>2 DEF FreshInv
<1>8. CASE Restart
  <2>1. PICK max \in get_max_runid : NewProcess(max)
    BY <1>8 DEF Restart
  <2>2. max \in Nat /\ \A id \in dirs : id <= max
    BY MaxRunidType DEF get_max_runid, RunNumber, PlainTag
  <2>3. outdir' \in {max + 1, NoDir} /\ stored' = stored
    BY <1>8, <2>1 DEF Restart, NewProcess, Open
  <2>4. ASSUME NEW x \in stored PROVE x[1] # outdir'
    <3>1. x[1] \in dirs /\ x[1] \in Nat
      BY DEF EpochInv, TypeOK
    <3> QED
      BY <2>2, <2>3, <3>1 DEF NoDir
  <2>5. pc'["control"] = "idle" /\ pc'["writer"] = "check" /\ rcstate' = IDLE
    BY <2>1 DEF NewProcess
  <2> QED
    BY <2>3, <2>4, <2>5 DEF FreshInv
<1>9. CASE WriteDataset
  <2>1. pc["writer"] = "write" /\ UNCHANGED <<dirstr, rcstate, start_newdir>>
        /\ pc'["control"] = pc["control"]
    BY <1>9 DEF WriteDataset, Goto, TypeOK, Threads
  <2>2. ~start_newdir /\ pc["control"] = "idle"
    BY <2>1 DEF FreshInv, Excl
  <2> QED
    BY <2>1, <2>2 DEF FreshInv
<1>10. CASE Check
  <2>1. rcstate = RUNNING /\ UNCHANGED <<stored, outdir, dirstr, rcstate, start_newdir>>
        /\ pc'["control"] = pc["control"]
    BY <1>10 DEF Check, Goto, TypeOK, Threads
  <2>2. ~start_newdir
    BY <2>1 DEF FreshInv, IDLE, READY, RUNNING
  <2> QED
    BY <2>1, <2>2 DEF FreshInv
<1>11. CASE RecvTimeout \/ CountSizes \/ ResetSizes \/ SetReport \/ \E size \in Sizes : Recv(size)
  <2>1. pc["writer"] # "check" /\ UNCHANGED <<stored, outdir, dirstr, rcstate, start_newdir>>
        /\ pc'["control"] = pc["control"]
    BY <1>11 DEF RecvTimeout, CountSizes, ResetSizes, SetReport, Recv, Goto, TypeOK, Threads
  <2>2. ~start_newdir
    BY <2>1 DEF FreshInv
  <2> QED
    BY <2>1, <2>2 DEF FreshInv
<1>12. CASE Sleep \/ UNCHANGED vars
  BY <1>1, <1>12 DEF Sleep, vars
<1> QED
  BY <1>2, <1>3, <1>4, <1>5, <1>6, <1>7, <1>8, <1>9, <1>10, <1>11, <1>12
     DEF Next, Control, Process, Setup

\* Under local run control every run that stores its events begins in a
\* directory without events: the first one in that of the constructor, the
\* others in a new one (FzWriter.cpp 294-317).
THEOREM RunsStartFresh == PlainTag /\ NoFaults /\ ~Overlap /\ Local => (Spec => StartIsFresh)
<1> SUFFICES ASSUME PlainTag, NoFaults, ~Overlap, Local PROVE Spec => StartIsFresh
  OBVIOUS
<1> DEFINE I == TypeOK /\ Excl /\ DiridInv /\ StreamInv /\ EpochInv /\ FreshInv
           A == rcstate # RUNNING /\ rcstate' = RUNNING /\ store' => \A x \in stored : x[1] # outdir
<1>1. Init => I
  BY InitType, InitExcl, InitDirid, InitStream, InitEpoch, InitFresh
<1>2. I /\ [Next]_vars => I'
  BY StepType, StepExcl, StepDirid, StepStream, StepEpoch, StepFresh
<1>3. I /\ [Next]_vars => [A]_vars
  <2> SUFFICES ASSUME I, Next, rcstate # RUNNING, rcstate' = RUNNING, store'
               PROVE  \A x \in stored : x[1] # outdir
    OBVIOUS
  <2>1. (\E s \in RCstate : SetRcstate(s)) \/ SetRunning
    <3>1. ~(\E t \in Threads : Setup(t))
      BY DEF Setup, SetupNewdir, NextDir, CloseFile, OpenFile
    <3>2. ~Process
      BY DEF Process, Sleep, Check, RecvTimeout, Recv, WriteDataset, CountSizes, ResetSizes,
             SetReport, vars, object
    <3>3. ~Restart
      BY DEF Restart, NewProcess, IDLE, RUNNING
    <3>4. ~StartRun /\ \A value \in BOOLEAN : ~set_store(value)
      BY DEF StartRun, set_store, object
    <3> QED
      BY <3>1, <3>2, <3>3, <3>4 DEF Next, Control
  <2>2. CASE SetRunning
    <3>1. pc["control"] = "reset" /\ pc["writer"] = "check"
      BY <2>2 DEF SetRunning, Excl
    <3>2. outdir = dirstr
      BY <3>1 DEF StreamInv, Threads
    <3> QED
      BY <3>1, <3>2 DEF FreshInv
  <2>3. ASSUME NEW s \in RCstate, SetRcstate(s) PROVE start_newdir
    <3>1. s = RUNNING /\ Commanded(s) /\ store /\ (StartsRun(s) => start_newdir \/ ~store)
      BY <2>3 DEF SetRcstate
    <3> QED
      BY <3>1, LocalStart
  <2> QED
    BY <2>1, <2>2, <2>3 DEF FreshInv
<1> QED
  BY <1>1, <1>2, <1>3, PTL DEF Spec, StartIsFresh

-----------------------------------------------------------------------------
(* The size of a file.                                                     *)

\* What esize says of a file with f bytes: it misses one event at most, and
\* is above the limit only if it is garbage and the file is empty.
Tracks(f, e) == f <= e + MaxSize /\ (e > event_file_size => f = 0)

BytesInv ==
    /\ pc["writer"] \in {"write", "sizes"} => msg \in 1..MaxSize
    /\ pc["writer"] \in {"check", "recv", "write", "report"} => Tracks(fbytes, esize)
    /\ pc["writer"] = "sizes" => fbytes >= msg /\ Tracks(fbytes - msg, esize)
    /\ pc["writer"] \in SetupLabels => fbytes <= event_file_size + 2 * MaxSize
    /\ (\E t \in Threads : pc[t] = "reset") => fbytes = 0

LEMMA InitBytes == Init => BytesInv
<1> SUFFICES ASSUME Init PROVE BytesInv
  OBVIOUS
<1>1. esize \in Nat /\ fbytes = 0 /\ MaxSize \in Nat
  BY SizeAssumption DEF Init
<1> QED
  BY <1>1 DEF Init, BytesInv, Tracks, SetupLabels, Threads

\* One event is counted: either esize has it, or esize has wrapped, which
\* only garbage does, and the event is the first one of the file.
LEMMA CountTracks ==
    ASSUME NEW f \in Nat, NEW e \in 0..(SizeMod - 1), NEW m \in 1..MaxSize, Tracks(f, e)
    PROVE  /\ f + m <= Add(e, m) + MaxSize
           /\ f + m <= event_file_size + 2 * MaxSize
<1>1. /\ event_file_size \in Nat /\ MaxSize \in Nat /\ SizeMod \in Nat /\ e \in Nat /\ m \in Nat
      /\ event_file_size + MaxSize < SizeMod
  BY SizeAssumption
<1>2. CASE e + m < SizeMod
  BY <1>1, <1>2 DEF Tracks, Add
<1>3. CASE e + m >= SizeMod
  <2>1. f = 0
    BY <1>1, <1>3 DEF Tracks
  <2>2. Add(e, m) \in Nat
    BY <1>1, SizeAssumption DEF Add
  <2> QED
    BY <1>1, <2>1, <2>2
<1> QED
  BY <1>1, <1>2, <1>3

LEMMA StepBytes ==
    ASSUME NoFaults, TypeOK, Excl, StreamInv, BytesInv, [Next]_vars
    PROVE  BytesInv'
<1> USE DEF object, history
<1>0. /\ event_file_size \in Nat /\ MaxSize \in Nat /\ fbytes \in Nat /\ esize \in Nat
      /\ esize \in 0..(SizeMod - 1) /\ Sizes \subseteq 1..MaxSize
  BY SizeAssumption DEF TypeOK
<1>1. ASSUME UNCHANGED <<fbytes, esize, msg, pc>> PROVE BytesInv'
  BY <1>1 DEF BytesInv
<1>2. ASSUME pc["writer"] = "check", pc'["writer"] = "check", UNCHANGED <<esize, msg>>,
             fbytes' \in {0, fbytes}, pc'["control"] = "reset" => fbytes' = 0
      PROVE  BytesInv'
  <2>1. Tracks(fbytes, esize)
    BY <1>2 DEF BytesInv
  <2>2. Tracks(fbytes', esize')
    BY <1>0, <1>2, <2>1 DEF Tracks
  <2> QED
    BY <1>2, <2>2 DEF BytesInv, Threads, SetupLabels
<1>3. ASSUME NEW s \in RCstate, SetRcstate(s) PROVE BytesInv'
  BY <1>1, <1>3 DEF SetRcstate
<1>4. CASE StartRun
  <2>1. pc["writer"] = "check" \/ Overlap
    BY <1>4 DEF StartRun, WriterRests
  <2>2. pc'["control"] = "newdir" /\ pc'["writer"] = pc["writer"] /\ UNCHANGED <<esize, msg, fbytes>>
    BY <1>4 DEF StartRun, Goto, TypeOK, Threads
  <2> QED
    BY <2>2 DEF BytesInv, Threads
<1>5. CASE SetRunning
  <2>1. pc["control"] = "reset" /\ pc["writer"] = "check" /\ pc'["control"] = "idle"
        /\ pc'["writer"] = "check" /\ esize' = 0 /\ UNCHANGED <<msg, fbytes>>
    BY <1>5 DEF SetRunning, Excl, Goto, TypeOK, Threads
  <2>2. fbytes = 0
    BY <2>1 DEF BytesInv, Threads
  <2>3. Tracks(fbytes', esize')
    BY <1>0, <2>1, <2>2 DEF Tracks
  <2> QED
    BY <2>1, <2>2, <2>3 DEF BytesInv, Threads, SetupLabels
<1>6. ASSUME NEW value \in BOOLEAN, set_store(value) PROVE BytesInv'
  BY <1>1, <1>6 DEF set_store
<1>7. ASSUME NEW t \in Threads, Setup(t) PROVE BytesInv'
  <2>1. /\ pc[t] \in SetupLabels /\ pc'[t] \in SetupLabels /\ \A u \in Threads : u # t => pc'[u] = pc[u]
        /\ UNCHANGED <<esize, msg>>
        /\ pc'[t] # "reset" => fbytes' = fbytes
        /\ pc'[t] = "reset" => OpenFile(t)
    BY <1>7 DEF Setup, SetupNewdir, NextDir, CloseFile, OpenFile, Goto, TypeOK, SetupLabels
  <2>2. pc'[t] = "reset" => fbytes' = 0
    <3> SUFFICES ASSUME OpenFile(t) PROVE fbytes' = 0
      BY <2>1
    <3>1. outdir = NoDir /\ dirstr \in dirs
      BY DEF OpenFile, StreamInv
    <3> QED
      BY <3>1 DEF OpenFile, Open, NoFaults
  <2>3. CASE t = "control"
    <3>1. pc["writer"] = "check" /\ pc'["writer"] = "check"
      BY <2>1, <2>3 DEF Excl, SetupLabels, Threads
    <3> QED
      BY <1>2, <2>1, <2>2, <2>3, <3>1
  <2>4. CASE t = "writer"
    <3>1. pc["control"] = "idle" /\ pc'["control"] = "idle"
      BY <2>1, <2>4 DEF Excl, SetupLabels, Threads
    <3>2. fbytes <= event_file_size + 2 * MaxSize
      BY <2>1, <2>4 DEF BytesInv
    <3>3. fbytes' <= event_file_size + 2 * MaxSize
      BY <1>0, <2>1, <2>2, <3>2
    <3> QED
      BY <2>1, <2>2, <2>4, <3>1, <3>3 DEF BytesInv, SetupLabels, Threads
  <2> QED
    BY <2>3, <2>4 DEF Threads
<1>8. CASE Restart
  <2>1. PICK max \in get_max_runid : NewProcess(max)
    BY <1>8 DEF Restart
  <2>2. fbytes' = 0
    BY <2>1 DEF NewProcess, Mkdir, Open, NoFaults
  <2>3. esize' \in Nat /\ pc'["writer"] = "check" /\ pc'["control"] = "idle"
    BY <2>1, SizeAssumption DEF NewProcess
  <2>4. Tracks(fbytes', esize')
    <3>1. \A e \in Nat : 0 <= e + MaxSize
      BY <1>0
    <3> QED
      BY <2>2, <2>3, <3>1 DEF Tracks
  <2> QED
    BY <2>2, <2>3, <2>4 DEF BytesInv, SetupLabels, Threads
<1>9. CASE WriteDataset
  <2>1. pc["writer"] = "write" /\ pc["control"] = "idle" /\ good /\ outdir # NoDir
    BY <1>9 DEF WriteDataset, Excl, StreamInv, Threads
  <2>2. fbytes' = fbytes + msg
    <3>1. "write" \notin Faults
      BY DEF NoFaults
    <3> QED
      BY <1>9, <2>1, <3>1, Zenon DEF WriteDataset
  <2>3. pc'["writer"] = "sizes" /\ pc'["control"] = "idle" /\ UNCHANGED <<esize, msg>>
    BY <1>9, <2>1 DEF WriteDataset, Goto, TypeOK, Threads
  <2>4. msg \in 1..MaxSize /\ Tracks(fbytes, esize)
    BY <2>1 DEF BytesInv
  <2>5. fbytes' >= msg /\ fbytes' - msg = fbytes
    BY <1>0, <2>2, <2>4
  <2> QED
    BY <2>3, <2>4, <2>5 DEF BytesInv, SetupLabels, Threads
<1>10. CASE CountSizes
  <2>1. pc["writer"] = "sizes" /\ pc["control"] = "idle" /\ pc'["control"] = "idle"
        /\ UNCHANGED <<msg, fbytes>> /\ esize' = Add(esize, msg)
    BY <1>10 DEF CountSizes, Excl, Goto, TypeOK, Threads
  <2>2. msg \in 1..MaxSize /\ fbytes >= msg /\ Tracks(fbytes - msg, esize)
    BY <2>1 DEF BytesInv
  <2>3. fbytes - msg \in Nat /\ (fbytes - msg) + msg = fbytes
    BY <1>0, <2>2
  <2>4. fbytes <= esize' + MaxSize /\ fbytes <= event_file_size + 2 * MaxSize
    BY <1>0, <2>1, <2>2, <2>3, CountTracks
  <2>5. \/ pc'["writer"] \in {"newdir", "close"}
        \/ pc'["writer"] = "report" /\ ~(esize' > event_file_size)
    BY <1>10 DEF CountSizes, Rotation, Goto, TypeOK, Threads
  <2>6. ~(esize' > event_file_size) => Tracks(fbytes', esize')
    BY <2>1, <2>4 DEF Tracks
  <2> QED
    BY <2>1, <2>4, <2>5, <2>6 DEF BytesInv, SetupLabels, Threads
<1>11. CASE ResetSizes
  <2>1. pc["writer"] = "reset" /\ pc'["writer"] = "report" /\ esize' = 0 /\ UNCHANGED <<msg, fbytes>>
        /\ pc["control"] = "idle" /\ pc'["control"] = "idle"
    BY <1>11 DEF ResetSizes, Excl, Goto, TypeOK, Threads
  <2>2. fbytes = 0
    BY <2>1 DEF BytesInv, Threads
  <2>3. Tracks(fbytes', esize')
    BY <1>0, <2>1, <2>2 DEF Tracks
  <2> QED
    BY <2>1, <2>2, <2>3 DEF BytesInv, SetupLabels, Threads
<1>12. ASSUME NEW size \in Sizes, Recv(size) PROVE BytesInv'
  <2>1. pc["writer"] = "recv" /\ pc'["writer"] \in {"write", "report"} /\ pc'["control"] = pc["control"]
        /\ UNCHANGED <<esize, fbytes>> /\ msg' \in 1..MaxSize
    BY <1>0, <1>12 DEF Recv, Goto, TypeOK, Threads
  <2>2. Tracks(fbytes, esize) /\ (pc["control"] = "reset" => fbytes = 0)
    BY <2>1 DEF BytesInv, Threads
  <2> QED
    BY <2>1, <2>2 DEF BytesInv, SetupLabels, Threads
<1>13. CASE Check \/ RecvTimeout \/ SetReport
  <2>1. pc["writer"] \in {"check", "recv", "report"} /\ pc'["writer"] \in {"check", "recv"}
        /\ pc'["control"] = pc["control"] /\ UNCHANGED <<esize, fbytes, msg>>
    BY <1>13 DEF Check, RecvTimeout, SetReport, Goto, TypeOK, Threads
  <2>2. Tracks(fbytes, esize) /\ (pc["control"] = "reset" => fbytes = 0)
    BY <2>1 DEF BytesInv, Threads
  <2> QED
    BY <2>1, <2>2 DEF BytesInv, SetupLabels, Threads
<1>14. CASE Sleep \/ UNCHANGED vars
  BY <1>1, <1>14 DEF Sleep, vars
<1> QED
  BY <1>3, <1>4, <1>5, <1>6, <1>7, <1>8, <1>9, <1>10, <1>11, <1>12, <1>13, <1>14
     DEF Next, Control, Process

\* Whatever the uninitialised esize holds, no file exceeds its limit by more
\* than two events, for any limits and sizes (FzWriter.cpp 244-262).
THEOREM FilesAreBounded == NoFaults /\ ~Overlap => (Spec => []FileBound)
<1> SUFFICES ASSUME NoFaults, ~Overlap PROVE Spec => []FileBound
  OBVIOUS
<1> DEFINE I == TypeOK /\ Excl /\ StreamInv /\ BytesInv
<1>1. Init => I
  BY InitType, InitExcl, InitStream, InitBytes
<1>2. I /\ [Next]_vars => I'
  BY StepType, StepExcl, StepStream, StepBytes
<1>3. I => FileBound
  <2> SUFFICES ASSUME I PROVE FileBound
    OBVIOUS
  <2>1. event_file_size \in Nat /\ MaxSize \in Nat /\ fbytes \in Nat /\ esize \in Nat /\ msg \in Nat
    BY SizeAssumption DEF TypeOK
  <2>2. CASE pc["writer"] \in {"check", "recv", "write", "report"}
    BY <2>1, <2>2 DEF BytesInv, Tracks, FileBound
  <2>3. CASE pc["writer"] = "sizes"
    BY <2>1, <2>3 DEF BytesInv, Tracks, FileBound
  <2>4. CASE pc["writer"] \in SetupLabels
    BY <2>4 DEF BytesInv, FileBound
  <2> QED
    BY <2>2, <2>3, <2>4 DEF Excl, Labels, SetupLabels
<1> QED
  BY <1>1, <1>2, <1>3, PTL DEF Spec
=============================================================================

------------------------------ MODULE FzMonitor -----------------------------
(***************************************************************************)
(* The weblog thread of the controller (controller/weblog.cpp): every few  *)
(* seconds it posts a row for each reader and writer to a web server with  *)
(* FZHttpPost (logger/FzHttpPost.cpp).  It walks through the map of        *)
(* FzController without the mutex, while the collector thread inserts and  *)
(* erases elements.                                                        *)
(***************************************************************************)
EXTENDS FzController

CONSTANTS
    Readers, Writers,  \* the nodes whose report has a reader, a writer
    Limits,            \* the pairs that one POST may have (1000 in the code)
    MaxStrays          \* bound: erased elements that the loops of a round meet

ASSUME MonitorAssumption ==
    /\ Readers \subseteq Nodes /\ Writers \subseteq Nodes
    /\ Limits \subseteq Nat /\ Limits # {}
    /\ \A limit \in Limits : limit >= 11   \* a reader's row and the header fit
    /\ MaxStrays \in Nat

VARIABLES
    fMaxPHP,    \* the limit
    post,       \* the current post
    sent,       \* the posts that were sent in this round
    wpc,        \* the weblog thread: "sleep", "readers", "writers"
    wit, rep,   \* its iterator; the node whose report it copied last, 0: none
    wdangling,  \* the element that the iterator designates was erased
    strays,     \* the erased elements that it met in this round
    send        \* whether a post was begun

\* History, until the second loop: the nodes that are in the map since the
\* round began, and whether the first loop met no erased element.
VARIABLES atstart, calm

weblog  == <<fMaxPHP, post, sent, wpc, wit, rep, strays, send>>
allvars == <<vars, weblog, wdangling, atstart, calm>>

-----------------------------------------------------------------------------
(* FZHttpPost.                                                             *)

fNHdrElements == 2  \* "user" and "category"

NewPost == [rows |-> <<>>, fLineNumber |-> 0, fPairsPerLine |-> 0, fPostPairs |-> 0]

\* As many pairs more in the form.
AddKeyValuePair(p, pairs) == [p EXCEPT !.fPostPairs = @ + pairs]

\* The pairs of one row: n's values, in the array element of the line.
AddToPost(p, n, pairs) ==
    AddKeyValuePair([p EXCEPT !.rows = Append(@, [line |-> p.fLineNumber, node |-> n])], pairs)

\* Mutant: without the header.
CheckPHPLimit_no_header(p) == p.fPostPairs > fMaxPHP - p.fPairsPerLine
\* Would another line exceed the limit?
CheckPHPLimit(p) == p.fPostPairs + fNHdrElements > fMaxPHP - p.fPairsPerLine

\* What is sent: the rows and the header.  Nothing without a row.
Sent(p) ==
    IF p.fPostPairs = 0 THEN <<>>
    ELSE <<[rows |-> p.rows, pairs |-> p.fPostPairs + fNHdrElements]>>

AfterSend(p) == [p EXCEPT !.rows = <<>>, !.fLineNumber = 0, !.fPostPairs = 0]

SendPost(p) == sent' = sent \o Sent(p) /\ post' = AfterSend(p)

\* NewLine() behind the row; its length is that of the first one.
NewLine(p) ==
    LET q == [p EXCEPT !.fPairsPerLine = IF @ = 0 THEN p.fPostPairs ELSE @]
    IN  IF CheckPHPLimit(q) THEN SendPost(q)
        ELSE /\ post' = [q EXCEPT !.fLineNumber = @ + 1]
             /\ UNCHANGED sent

-----------------------------------------------------------------------------
(* The weblog thread.                                                      *)

\* wit->second: from an erased element what was there, or came into its
\* place, or nothing that has a reader.
Copied == IF wdangling THEN map \cup {wit, 0} ELSE {wit}

\* wit++; from an erased element it may lead anywhere.
Advance ==
    /\ wit' \in IF wdangling THEN map \cup {End} ELSE {After(wit)}
    /\ IF wdangling THEN strays < MaxStrays /\ strays' = strays + 1 ELSE UNCHANGED strays
    /\ wdangling' = FALSE

\* A row, in a new post if it is the first one.
Row(n, pairs) ==
    /\ NewLine(AddToPost(IF send THEN post ELSE NewPost, n, pairs))
    /\ send' = TRUE

WeblogWakes ==
    /\ wpc = "sleep"
    /\ wpc' = "readers" /\ wit' = After(0) /\ send' = FALSE
    /\ sent' = <<>> /\ strays' = 0
    /\ atstart' = map /\ calm' = TRUE
    /\ UNCHANGED <<fMaxPHP, post, rep, wdangling>>

\* The first loop.
ReaderRow ==
    /\ wpc = "readers" /\ wit # End
    /\ rep' \in Copied
    /\ IF rep' \in Readers THEN Row(rep', 9) ELSE UNCHANGED <<post, sent, send>>
    /\ Advance
    /\ calm' = (calm /\ ~wdangling)
    /\ UNCHANGED <<fMaxPHP, wpc, atstart>>

\* The second loop: rep is not read again, it is that of the last element of
\* the first one in every iteration.
WriterRow ==
    /\ wpc = "writers" /\ wit # End
    /\ IF rep \in Writers THEN Row(rep, 5) ELSE UNCHANGED <<post, sent, send>>
    /\ Advance
    /\ atstart' = {} /\ calm' = FALSE
    /\ UNCHANGED <<fMaxPHP, wpc, rep>>

\* Mutant: what is left behind a loop is not sent.
SendRest_lost == UNCHANGED <<post, sent>>
SendRest == IF send THEN SendPost(post) ELSE UNCHANGED <<post, sent>>

\* Behind a loop: what is left is sent.
EndLoop ==
    /\ wpc # "sleep" /\ wit = End
    /\ SendRest
    /\ send' = FALSE
    /\ wpc' = IF wpc = "readers" THEN "writers" ELSE "sleep"
    /\ wit' = IF wpc = "readers" THEN After(0) ELSE End
    /\ IF wpc = "readers" THEN UNCHANGED <<atstart, calm>> ELSE atstart' = {} /\ calm' = FALSE
    /\ UNCHANGED <<fMaxPHP, rep, wdangling, strays>>

process_weblog == WeblogWakes \/ ReaderRow \/ WriterRow \/ EndLoop

-----------------------------------------------------------------------------
MonitorInit ==
    /\ Init
    /\ fMaxPHP \in Limits /\ post = NewPost /\ sent = <<>>
    /\ wpc = "sleep" /\ wit = End /\ rep = 0 /\ send = FALSE
    /\ wdangling = FALSE /\ strays = 0
    /\ atstart = {} /\ calm = FALSE

MonitorNext ==
    \/ /\ Next
       /\ wdangling' = (wdangling \/ wit \in map \ map')
       /\ atstart' = atstart \cap map'
       /\ UNCHANGED <<weblog, calm>>
    \/ process_weblog /\ UNCHANGED vars

MonitorSpec == MonitorInit /\ [][MonitorNext]_allvars
MonitorFairSpec == MonitorSpec /\ Fairness

-----------------------------------------------------------------------------
(* Properties.                                                             *)

\* No post has more pairs than the server takes, and no two of its rows have
\* the same array index.
PostsFit ==
    \A k \in DOMAIN sent :
        /\ sent[k].pairs <= fMaxPHP
        /\ \A r, s \in DOMAIN sent[k].rows :
              r # s => sent[k].rows[r].line # sent[k].rows[s].line

\* When the first loop is through and has met no erased element, every reader
\* that was in the map from the start on has one row, and none has two,
\* whatever nodes came and went meanwhile and however the rows were split into
\* posts (weblog.cpp 74-118 walks through the map without the mutex).
OneRowEach ==
    (wpc = "writers" /\ calm) =>
        /\ \A k, l \in DOMAIN sent : \A r \in DOMAIN sent[k].rows, s \in DOMAIN sent[l].rows :
              sent[k].rows[r].node = sent[l].rows[s].node => k = l /\ r = s
        /\ \A n \in atstart \cap Readers :
              \E k \in DOMAIN sent : \E r \in DOMAIN sent[k].rows : sent[k].rows[r].node = n
=============================================================================

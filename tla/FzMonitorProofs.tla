--------------------------- MODULE FzMonitorProofs --------------------------
(***************************************************************************)
(* Proofs about FzMonitor, for any number of nodes, readers and writers    *)
(* and any limit of a POST.  What the controller does meanwhile is in      *)
(* FzControllerProofs.                                                     *)
(***************************************************************************)
EXTENDS FzMonitor, FzControllerProofs

RowType  == [line : Nat, node : Nodes]
PostType == [rows : Seq(RowType), fLineNumber : Nat, fPairsPerLine : Nat, fPostPairs : Nat]
SentType == [rows : Seq(RowType), pairs : Nat]

\* The variables of the weblog thread.
WeblogType ==
    /\ fMaxPHP \in Nat /\ fMaxPHP >= 11
    /\ wpc \in {"sleep", "readers", "writers"} /\ wit \in 1..End /\ rep \in 0..NNodes
    /\ send \in BOOLEAN /\ (wpc = "sleep" => send = FALSE)
    /\ post \in PostType /\ sent \in Seq(SentType)
    /\ calm \in BOOLEAN

\* The pairs of a row in the loop at hand.
RowPairs == IF wpc = "readers" THEN 9 ELSE 5

\* The rows of a post are numbered.
Numbered(rows) == \A r \in 1..Len(rows) : rows[r].line = r - 1

\* A post that was begun has room for another row.
PostInv ==
    send => /\ post.fPairsPerLine = RowPairs
            /\ post.fPostPairs + fNHdrElements + RowPairs <= fMaxPHP
            /\ post.fLineNumber = Len(post.rows) /\ Numbered(post.rows)
            /\ post.fPostPairs = 0 => post.rows = <<>>

SentInv == \A k \in 1..Len(sent) : sent[k].pairs <= fMaxPHP /\ Numbered(sent[k].rows)

\* The rows of the posts that were sent, and behind them those of the post
\* that was begun.
AllRows ==
    [k \in 1..(Len(sent) + 1) |->
        IF k <= Len(sent) THEN sent[k].rows ELSE IF send THEN post.rows ELSE <<>>]

Has(R, n) == \E k \in DOMAIN R : \E r \in 1..Len(R[k]) : R[k][r].node = n
Once(R) ==
    \A k, l \in DOMAIN R : \A r \in 1..Len(R[k]), s \in 1..Len(R[l]) :
        R[k][r].node = R[l][s].node => k = l /\ r = s

\* The first loop: as long as it has met no erased element the rows are those
\* of the nodes behind the iterator, of all that are in the map since the start.
LoopInv ==
    /\ atstart \subseteq map
    /\ wpc = "readers" /\ calm =>
          /\ Once(AllRows)
          /\ \A n \in Nodes : Has(AllRows, n) => n < wit
          /\ \A n \in atstart \cap Readers : n < wit => Has(AllRows, n)

\* Behind it, until the second one begins.
DoneInv ==
    wpc = "writers" /\ calm =>
        ~send /\ Once(AllRows) /\ \A n \in atstart \cap Readers : Has(AllRows, n)

MonitorInv == ControllerInv /\ WeblogType /\ PostInv /\ SentInv /\ LoopInv /\ DoneInv

-----------------------------------------------------------------------------
(* Rows.                                                                   *)

\* Lists that are the same up to empty ones at the end have the same rows.
LEMMA SameRows ==
    ASSUME NEW K \in Nat, NEW L \in Nat, K <= L,
           NEW R \in [1..K -> Seq(RowType)], NEW S \in [1..L -> Seq(RowType)],
           \A k \in 1..K : S[k] = R[k], \A k \in (K + 1)..L : S[k] = <<>>
    PROVE  /\ \A n \in Nodes : Has(S, n) <=> Has(R, n)
           /\ Once(R) => Once(S)
<1>1. ASSUME NEW k \in 1..L, NEW r \in 1..Len(S[k]) PROVE k \in 1..K /\ S[k] = R[k]
  <2>1. Len(<<>>) = 0
    BY EmptySeq
  <2>2. CASE k <= K
    BY <2>2
  <2>3. CASE k > K
    BY <1>1, <2>1, <2>3
  <2> QED
    BY <2>2, <2>3
<1>2. DOMAIN R = 1..K /\ DOMAIN S = 1..L /\ \A k \in 1..K : k \in 1..L
  OBVIOUS
<1>3. ASSUME NEW n \in Nodes PROVE Has(S, n) <=> Has(R, n)
  <2>1. ASSUME Has(S, n) PROVE Has(R, n)
    <3>1. PICK k \in 1..L : \E r \in 1..Len(S[k]) : S[k][r].node = n
      BY <1>2, <2>1 DEF Has
    <3> QED
      BY <1>1, <1>2, <3>1 DEF Has
  <2>2. ASSUME Has(R, n) PROVE Has(S, n)
    BY <1>2, <2>2 DEF Has
  <2> QED
    BY <2>1, <2>2
<1>4. ASSUME Once(R) PROVE Once(S)
  BY <1>1, <1>2, <1>4 DEF Once
<1> QED
  BY <1>3, <1>4

\* One row more, at the end of the last list.
LEMMA OneMoreRow ==
    ASSUME NEW K \in Nat \ {0}, NEW R \in [1..K -> Seq(RowType)], NEW S \in [1..K -> Seq(RowType)],
           NEW row \in RowType,
           \A k \in 1..(K - 1) : S[k] = R[k], S[K] = Append(R[K], row)
    PROVE  /\ \A n \in Nodes : Has(S, n) <=> Has(R, n) \/ n = row.node
           /\ Once(R) /\ ~Has(R, row.node) => Once(S)
<1> DEFINE m == Len(R[K])
<1>0. K \in 1..K /\ DOMAIN R = 1..K /\ DOMAIN S = 1..K
  OBVIOUS
<1>1. /\ m \in Nat /\ Len(S[K]) = m + 1 /\ S[K][m + 1] = row /\ m + 1 \in 1..Len(S[K])
      /\ \A r \in 1..m : S[K][r] = R[K][r]
  BY <1>0, AppendProperties
<1> HIDE DEF m
<1>2. \* each row of S is one of R in the same place, or the new one
      ASSUME NEW k \in 1..K, NEW r \in 1..Len(S[k])
      PROVE  \/ r \in 1..Len(R[k]) /\ S[k][r] = R[k][r]
             \/ k = K /\ r = m + 1 /\ S[k][r] = row
  <2>1. CASE k # K
    <3>1. k \in 1..(K - 1)
      BY <2>1
    <3> QED
      BY <3>1
  <2>2. CASE k = K /\ r = m + 1
    BY <1>1, <2>2
  <2>3. CASE k = K /\ r # m + 1
    <3>1. r \in 1..m
      BY <1>1, <2>3
    <3> QED
      BY <1>1, <2>3, <3>1 DEF m
  <2> QED
    BY <2>1, <2>2, <2>3
<1>3. ASSUME NEW k \in 1..K, NEW r \in 1..Len(R[k]) PROVE r \in 1..Len(S[k]) /\ S[k][r] = R[k][r]
  <2>1. CASE k # K
    <3>1. k \in 1..(K - 1)
      BY <2>1
    <3> QED
      BY <3>1
  <2>2. CASE k = K
    BY <1>1, <2>2 DEF m
  <2> QED
    BY <2>1, <2>2
<1>4. ASSUME NEW n \in Nodes PROVE Has(S, n) <=> Has(R, n) \/ n = row.node
  <2>1. ASSUME Has(S, n) PROVE Has(R, n) \/ n = row.node
    <3>1. PICK k \in 1..K : \E r \in 1..Len(S[k]) : S[k][r].node = n
      BY <1>0, <2>1 DEF Has
    <3>2. PICK r \in 1..Len(S[k]) : S[k][r].node = n
      BY <3>1
    <3> QED
      BY <1>0, <1>2, <3>2 DEF Has
  <2>2. ASSUME Has(R, n) PROVE Has(S, n)
    <3>1. PICK k \in 1..K : \E r \in 1..Len(R[k]) : R[k][r].node = n
      BY <1>0, <2>2 DEF Has
    <3>2. PICK r \in 1..Len(R[k]) : R[k][r].node = n
      BY <3>1
    <3> QED
      BY <1>0, <1>3, <3>2 DEF Has
  <2>3. ASSUME n = row.node PROVE Has(S, n)
    BY <1>0, <1>1, <2>3 DEF Has
  <2> QED
    BY <2>1, <2>2, <2>3
<1>5. ASSUME Once(R), ~Has(R, row.node) PROVE Once(S)
  <2> SUFFICES ASSUME NEW k \in 1..K, NEW l \in 1..K, NEW r \in 1..Len(S[k]), NEW s \in 1..Len(S[l]),
                      S[k][r].node = S[l][s].node
               PROVE  k = l /\ r = s
    BY <1>0 DEF Once
  <2>1. \A j \in 1..K : \A q \in 1..Len(R[j]) : R[j][q].node # row.node
    BY <1>0, <1>5 DEF Has
  <2>2. CASE r \in 1..Len(R[k]) /\ S[k][r] = R[k][r]
    <3>1. s \in 1..Len(R[l]) /\ S[l][s] = R[l][s]
      <4>1. S[l][s].node # row.node
        BY <2>1, <2>2
      <4> QED
        BY <1>2, <4>1
    <3> QED
      BY <1>0, <1>5, <2>2, <3>1 DEF Once
  <2>3. CASE k = K /\ r = m + 1 /\ S[k][r] = row
    BY <1>2, <2>1, <2>3
  <2> QED
    BY <1>2, <2>2, <2>3
<1> QED
  BY <1>4, <1>5

-----------------------------------------------------------------------------
(* FZHttpPost.                                                             *)

\* The rows of the posts as the types of sent and post give them.
LEMMA RowsFacts ==
    ASSUME WeblogType
    PROVE  /\ Len(sent) \in Nat /\ Len(sent) + 1 \in Nat \ {0}
           /\ \A k \in 1..Len(sent) : sent[k].rows \in Seq(RowType)
           /\ AllRows \in [1..(Len(sent) + 1) -> Seq(RowType)]
           /\ \A k \in 1..Len(sent) : AllRows[k] = sent[k].rows
           /\ AllRows[Len(sent) + 1] = IF send THEN post.rows ELSE <<>>
<1>1. Len(sent) \in Nat /\ \A k \in 1..Len(sent) : sent[k].rows \in Seq(RowType)
  <2>1. sent \in Seq(SentType)
    BY DEF WeblogType
  <2>2. \A x \in SentType : x.rows \in Seq(RowType)
    BY DEF SentType
  <2>3. Len(sent) \in Nat /\ \A k \in 1..Len(sent) : sent[k] \in SentType
    BY <2>1, ElementOfSeq, LenProperties
  <2> QED
    BY <2>2, <2>3
<1>2. post.rows \in Seq(RowType) /\ <<>> \in Seq(RowType)
  BY DEF WeblogType, PostType
<1>3. AllRows \in [1..(Len(sent) + 1) -> Seq(RowType)]
  BY <1>1, <1>2 DEF AllRows
<1>4. \A k \in 1..Len(sent) : AllRows[k] = sent[k].rows
  BY <1>1 DEF AllRows
<1>5. AllRows[Len(sent) + 1] = IF send THEN post.rows ELSE <<>>
  BY <1>1 DEF AllRows
<1> QED
  BY <1>1, <1>3, <1>4, <1>5

LEMMA AfterSendType == ASSUME NEW p \in PostType PROVE AfterSend(p) \in PostType
<1> DEFINE q == [p EXCEPT !.rows = <<>>]
           r == [q EXCEPT !.fLineNumber = 0]
<1>1. q \in PostType
  <2>1. ASSUME NEW e \in Seq(RowType) PROVE [p EXCEPT !.rows = e] \in PostType
    BY DEF PostType
  <2>2. <<>> \in Seq(RowType)
    OBVIOUS
  <2> QED
    BY <2>1, <2>2
<1> HIDE DEF q
<1>2. r \in PostType
  BY <1>1 DEF PostType
<1> HIDE DEF r
<1>3. [r EXCEPT !.fPostPairs = 0] \in PostType
  BY <1>2 DEF PostType
<1> QED
  BY <1>3 DEF AfterSend, q, r

\* A row is written into a post that has room for it, behind the others; the
\* post is sent as soon as it has no room for another one.
LEMMA RowStep ==
    ASSUME WeblogType, PostInv, SentInv, NEW n \in Nodes, NEW pairs \in {5, 9}, pairs = RowPairs,
           Row(n, pairs), UNCHANGED <<fMaxPHP, wpc>>
    PROVE  /\ send' = TRUE /\ post' \in PostType /\ sent' \in Seq(SentType)
           /\ PostInv' /\ SentInv'
           /\ \A p \in Nodes : Has(AllRows', p) <=> Has(AllRows, p) \/ p = n
           /\ Once(AllRows) /\ ~Has(AllRows, n) => Once(AllRows')
<1> DEFINE old == IF send THEN post ELSE NewPost
           K == Len(sent) + 1
           row == [line |-> old.fLineNumber, node |-> n]
           rows == Append(old.rows, row)
           q == [rows |-> rows, fLineNumber |-> old.fLineNumber, fPairsPerLine |-> pairs,
                 fPostPairs |-> old.fPostPairs + pairs]
<1>0. fMaxPHP \in Nat /\ fMaxPHP >= 11 /\ post \in PostType /\ sent \in Seq(SentType) /\ send \in BOOLEAN
  BY DEF WeblogType
<1>1. /\ old \in PostType /\ old.fLineNumber = Len(old.rows) /\ Numbered(old.rows)
      /\ old.fPostPairs + fNHdrElements + pairs <= fMaxPHP
      /\ old.fPairsPerLine = 0 => old.fPostPairs = 0
      /\ old.fPairsPerLine # 0 => old.fPairsPerLine = pairs
  <2>1. CASE send
    BY <1>0, <2>1 DEF PostInv
  <2>2. CASE ~send
    <3>1. /\ old.rows = <<>> /\ old.fLineNumber = 0 /\ old.fPairsPerLine = 0 /\ old.fPostPairs = 0
          /\ NewPost \in PostType /\ old = NewPost /\ Len(<<>>) = 0
      BY <2>2 DEF NewPost, PostType
    <3> QED
      BY <1>0, <3>1 DEF Numbered, fNHdrElements
  <2> QED
    BY <2>1, <2>2
<1>2. AllRows[K] = old.rows
  BY RowsFacts DEF NewPost
<1>3. /\ old.rows \in Seq(RowType) /\ Len(old.rows) \in Nat /\ old.fLineNumber \in Nat
      /\ old.fPostPairs \in Nat /\ old.fPairsPerLine \in Nat
  BY <1>1 DEF PostType
<1>4. NewLine(AddToPost(old, n, pairs)) /\ send' = TRUE
  BY DEF Row
<1> HIDE DEF old
<1>5. row \in RowType /\ row.node = n /\ row.line = Len(old.rows)
  BY <1>1, <1>3 DEF RowType
<1> HIDE DEF row
<1>6. /\ rows \in Seq(RowType) /\ Len(rows) = Len(old.rows) + 1
      /\ \A r \in 1..Len(old.rows) : rows[r] = old.rows[r]
      /\ rows[Len(old.rows) + 1] = row
  BY <1>3, <1>5, AppendProperties
<1>7. Numbered(rows)
  <2> SUFFICES ASSUME NEW r \in 1..Len(rows) PROVE rows[r].line = r - 1
    BY DEF Numbered
  <2>1. CASE r = Len(old.rows) + 1
    BY <1>3, <1>5, <1>6, <2>1
  <2>2. CASE r # Len(old.rows) + 1
    BY <1>1, <1>3, <1>6, <2>2 DEF Numbered
  <2> QED
    BY <2>1, <2>2
<1>8. /\ CheckPHPLimit(q) => SendPost(q)
      /\ ~CheckPHPLimit(q) => post' = [q EXCEPT !.fLineNumber = @ + 1] /\ sent' = sent
  <2> DEFINE a == AddToPost(old, n, pairs)
             b == [a EXCEPT !.fPairsPerLine = IF @ = 0 THEN a.fPostPairs ELSE @]
  <2>1. a = [rows |-> rows, fLineNumber |-> old.fLineNumber, fPairsPerLine |-> old.fPairsPerLine,
             fPostPairs |-> old.fPostPairs + pairs]
    <3>1. /\ a = [[old EXCEPT !.rows = rows] EXCEPT !.fPostPairs = @ + pairs]
      BY DEF AddToPost, AddKeyValuePair, row
    <3>2. old = [rows |-> old.rows, fLineNumber |-> old.fLineNumber,
                 fPairsPerLine |-> old.fPairsPerLine, fPostPairs |-> old.fPostPairs]
      BY <1>1 DEF PostType
    <3> HIDE DEF rows, a
    <3>3. [old EXCEPT !.rows = rows]
            = [rows |-> rows, fLineNumber |-> old.fLineNumber,
               fPairsPerLine |-> old.fPairsPerLine, fPostPairs |-> old.fPostPairs]
      BY <3>2
    <3> QED
      BY <3>1, <3>3
  <2>2. b = q
    <3>1. (IF old.fPairsPerLine = 0 THEN old.fPostPairs + pairs ELSE old.fPairsPerLine) = pairs
      BY <1>1, <1>3
    <3> HIDE DEF rows
    <3> QED
      BY <2>1, <3>1
  <2>3. /\ CheckPHPLimit(b) => SendPost(b)
        /\ ~CheckPHPLimit(b) => post' = [b EXCEPT !.fLineNumber = @ + 1] /\ sent' = sent
    BY <1>4 DEF NewLine
  <2> QED
    BY <2>2, <2>3
<1> HIDE DEF rows
<1>9. q.rows = rows /\ q.fLineNumber = Len(old.rows) /\ q.fPairsPerLine = pairs
      /\ q.fPostPairs = old.fPostPairs + pairs /\ q \in PostType
  BY <1>1, <1>3, <1>6 DEF PostType
<1> HIDE DEF q
<1>10. CASE ~CheckPHPLimit(q)
  <2>1. sent' = sent /\ post' = [q EXCEPT !.fLineNumber = q.fLineNumber + 1]
    BY <1>8, <1>10
  <2>2. /\ post' \in PostType /\ post'.rows = rows /\ post'.fLineNumber = Len(rows)
        /\ post'.fPairsPerLine = pairs /\ post'.fPostPairs = old.fPostPairs + pairs
    BY <1>3, <1>6, <1>9, <2>1 DEF PostType
  <2>3. post'.fPostPairs + fNHdrElements + pairs <= fMaxPHP /\ post'.fPostPairs # 0
    BY <1>0, <1>3, <1>9, <1>10, <2>2 DEF CheckPHPLimit, fNHdrElements
  <2>4. PostInv'
    BY <1>7, <2>2, <2>3 DEF PostInv, RowPairs, fNHdrElements
  <2>5. SentInv'
    BY <2>1 DEF SentInv, Numbered
  <2>7. /\ AllRows' \in [1..K -> Seq(RowType)]
        /\ \A k \in 1..(K - 1) : AllRows'[k] = AllRows[k]
        /\ AllRows'[K] = Append(AllRows[K], row)
    <3>1. AllRows' = [k \in 1..K |-> IF k <= Len(sent) THEN sent[k].rows ELSE rows]
      BY <1>4, <2>1, <2>2 DEF AllRows
    <3>2. Len(sent) \in Nat /\ \A k \in 1..Len(sent) : sent[k].rows \in Seq(RowType)
      BY RowsFacts
    <3>3. AllRows' \in [1..K -> Seq(RowType)] /\ AllRows'[K] = rows
      BY <1>6, <3>1, <3>2
    <3>4. \A k \in 1..(K - 1) : AllRows'[k] = AllRows[k]
      BY <3>1, <3>2, RowsFacts
    <3> QED
      BY <1>2, <3>3, <3>4 DEF rows
  <2>8. /\ \A p \in Nodes : Has(AllRows', p) <=> Has(AllRows, p) \/ p = n
        /\ Once(AllRows) /\ ~Has(AllRows, n) => Once(AllRows')
    <3>1. K \in Nat \ {0} /\ AllRows \in [1..K -> Seq(RowType)]
      BY RowsFacts
    <3>2. row \in RowType
      BY <1>5
    <3> HIDE DEF K, AllRows
    <3>3. /\ \A p \in Nodes : Has(AllRows', p) <=> Has(AllRows, p) \/ p = row.node
          /\ Once(AllRows) /\ ~Has(AllRows, row.node) => Once(AllRows')
      BY <2>7, <3>1, <3>2, OneMoreRow, Zenon
    <3>4. row.node = n
      BY <1>5
    <3> QED
      BY <3>3, <3>4, Zenon
  <2> QED
    BY <1>4, <2>1, <2>2, <2>4, <2>5, <2>8 DEF WeblogType
<1>11. CASE CheckPHPLimit(q)
  <2> DEFINE x == [rows |-> rows, pairs |-> old.fPostPairs + pairs + fNHdrElements]
  <2>1. post' = [q EXCEPT !.rows = <<>>, !.fLineNumber = 0, !.fPostPairs = 0] /\ sent' = sent \o <<x>>
    BY <1>3, <1>8, <1>9, <1>11 DEF SendPost, AfterSend, Sent
  <2>2. /\ post' \in PostType /\ post'.rows = <<>> /\ post'.fLineNumber = 0
        /\ post'.fPairsPerLine = pairs /\ post'.fPostPairs = 0
    <3>1. q = [rows |-> q.rows, fLineNumber |-> q.fLineNumber,
               fPairsPerLine |-> q.fPairsPerLine, fPostPairs |-> q.fPostPairs]
      BY <1>9 DEF PostType
    <3>2. post' = [rows |-> <<>>, fLineNumber |-> 0, fPairsPerLine |-> q.fPairsPerLine, fPostPairs |-> 0]
      BY <2>1, <3>1
    <3>3. pairs \in Nat /\ <<>> \in Seq(RowType)
      OBVIOUS
    <3> QED
      BY <1>9, <3>2, <3>3 DEF PostType
  <2>3. PostInv'
    <3>1. Len(<<>>) = 0 /\ 0 + fNHdrElements + pairs <= fMaxPHP
      BY <1>0 DEF fNHdrElements
    <3> QED
      BY <2>2, <3>1 DEF PostInv, RowPairs, Numbered, fNHdrElements
  <2>4. x \in SentType /\ x.rows = rows /\ x.pairs <= fMaxPHP
    <3> DEFINE size == old.fPostPairs + pairs + fNHdrElements
    <3>1. size \in Nat /\ size <= fMaxPHP
      BY <1>0, <1>1, <1>3 DEF PostType, fNHdrElements
    <3>2. rows \in Seq(RowType)
      BY <1>6
    <3> HIDE DEF size
    <3>3. x = [rows |-> rows, pairs |-> size]
      BY DEF size
    <3> HIDE DEF x
    <3> QED
      BY <3>1, <3>2, <3>3 DEF SentType
  <2> HIDE DEF x
  <2>5. /\ sent' \in Seq(SentType) /\ Len(sent') = K /\ Len(sent) \in Nat
        /\ \A k \in 1..Len(sent) : sent'[k] = sent[k]
        /\ sent'[K] = x
    <3>1. sent' = Append(sent, x)
      BY <1>0, <2>1, <2>4, AppendIsConcat
    <3> QED
      BY <1>0, <2>4, <3>1, AppendProperties
  <2>6. SentInv'
    <3> SUFFICES ASSUME NEW k \in 1..Len(sent')
                 PROVE  sent'[k].pairs <= fMaxPHP /\ Numbered(sent'[k].rows)
      BY DEF SentInv, Numbered
    <3>1. CASE k = K
      BY <1>7, <2>4, <2>5, <3>1
    <3>2. CASE k # K
      BY <2>5, <3>2 DEF SentInv
    <3> QED
      BY <3>1, <3>2
  <2> DEFINE S == [k \in 1..K |-> IF k <= Len(sent) THEN sent[k].rows ELSE rows]
  <2>7. /\ S \in [1..K -> Seq(RowType)]
        /\ \A k \in 1..(K - 1) : S[k] = AllRows[k]
        /\ S[K] = Append(AllRows[K], row)
    <3>1. Len(sent) \in Nat /\ \A k \in 1..Len(sent) : sent[k].rows \in Seq(RowType)
      BY RowsFacts
    <3>2. S \in [1..K -> Seq(RowType)] /\ S[K] = rows
      BY <1>6, <3>1
    <3>3. \A k \in 1..(K - 1) : S[k] = AllRows[k]
      BY <3>1, RowsFacts
    <3> QED
      BY <1>2, <3>2, <3>3 DEF rows
  <2>8. K \in Nat \ {0} /\ AllRows \in [1..K -> Seq(RowType)]
    BY RowsFacts
  <2>9. /\ AllRows' \in [1..(K + 1) -> Seq(RowType)]
        /\ \A k \in 1..K : AllRows'[k] = S[k]
        /\ \A k \in (K + 1)..(K + 1) : AllRows'[k] = <<>>
    <3>1. AllRows' = [k \in 1..(K + 1) |-> IF k <= K THEN sent'[k].rows ELSE <<>>]
      BY <1>4, <2>2, <2>5 DEF AllRows
    <3>2. \A k \in 1..K : sent'[k].rows = S[k]
      BY <2>4, <2>5
    <3> HIDE DEF S, K
    <3> QED
      BY <2>7, <2>8, <3>1, <3>2
  <2> HIDE DEF S, K
  <2>10. /\ \A p \in Nodes : Has(S, p) <=> Has(AllRows, p) \/ p = n
         /\ Once(AllRows) /\ ~Has(AllRows, n) => Once(S)
    <3>1. row \in RowType
      BY <1>5
    <3>2. /\ \A p \in Nodes : Has(S, p) <=> Has(AllRows, p) \/ p = row.node
          /\ Once(AllRows) /\ ~Has(AllRows, row.node) => Once(S)
      BY <2>7, <2>8, <3>1, OneMoreRow, Zenon
    <3>3. row.node = n
      BY <1>5
    <3> QED
      BY <3>2, <3>3, Zenon
  <2>11. /\ \A p \in Nodes : Has(AllRows', p) <=> Has(S, p)
         /\ Once(S) => Once(AllRows')
    <3>1. K \in Nat /\ K + 1 \in Nat /\ K <= K + 1
      BY <2>8
    <3> QED
      BY <2>7, <2>9, <3>1, SameRows
  <2> QED
    BY <1>4, <2>2, <2>3, <2>5, <2>6, <2>10, <2>11
<1> QED
  BY <1>10, <1>11

\* What is left in a post is sent behind a loop, and nothing else.
LEMMA RestStep ==
    ASSUME WeblogType, PostInv, SentInv, SendRest, send' = FALSE, fMaxPHP' = fMaxPHP
    PROVE  /\ post' \in PostType /\ sent' \in Seq(SentType) /\ SentInv'
           /\ \A p \in Nodes : Has(AllRows', p) <=> Has(AllRows, p)
           /\ Once(AllRows) => Once(AllRows')
<1> DEFINE K == Len(sent) + 1
<1>0. /\ fMaxPHP \in Nat /\ post \in PostType /\ sent \in Seq(SentType) /\ send \in BOOLEAN
      /\ Len(sent) \in Nat /\ K \in Nat \ {0} /\ K \in Nat
      /\ AllRows \in [1..K -> Seq(RowType)]
  BY RowsFacts DEF WeblogType
<1>1. CASE ~send \/ post.fPostPairs = 0
  <2>1. sent' = sent /\ post' \in PostType
    <3>1. CASE ~send
      BY <1>0, <3>1 DEF SendRest
    <3>2. CASE send /\ post.fPostPairs = 0
      <4>1. sent' = sent \o <<>> /\ post' = AfterSend(post)
        BY <3>2 DEF SendRest, SendPost, Sent
      <4>2. sent' = sent
        BY <1>0, <4>1, ConcatEmptySeq
      <4> QED
        BY <1>0, <4>1, <4>2, AfterSendType
    <3> QED
      BY <1>1, <3>1, <3>2
  <2>2. AllRows' = AllRows
    <3>1. send => post.rows = <<>>
      BY <1>1 DEF PostInv
    <3> QED
      BY <2>1, <3>1 DEF AllRows
  <2>3. SentInv'
    BY <2>1 DEF SentInv, Numbered
  <2> QED
    BY <1>0, <2>1, <2>2, <2>3, Zenon
<1>2. CASE send /\ post.fPostPairs # 0
  <2> DEFINE x == [rows |-> post.rows, pairs |-> post.fPostPairs + fNHdrElements]
  <2>1. sent' = sent \o <<x>> /\ post' = AfterSend(post)
    BY <1>2 DEF SendRest, SendPost, Sent
  <2>2. post' \in PostType /\ post.rows \in Seq(RowType) /\ post.fPostPairs \in Nat
    <3>1. post' \in PostType
      BY <1>0, <2>1, AfterSendType
    <3> QED
      BY <1>0, <3>1 DEF PostType
  <2>3. x \in SentType /\ x.rows = post.rows /\ x.pairs <= fMaxPHP /\ Numbered(post.rows)
    <3>1. RowPairs \in Nat
      BY DEF RowPairs
    <3>2. post.fPostPairs + fNHdrElements + RowPairs <= fMaxPHP /\ Numbered(post.rows)
      BY <1>2 DEF PostInv
    <3> QED
      BY <1>0, <2>2, <3>1, <3>2 DEF SentType, fNHdrElements
  <2> HIDE DEF x
  <2>4. /\ sent' \in Seq(SentType) /\ Len(sent') = K
        /\ \A k \in 1..Len(sent) : sent'[k] = sent[k]
        /\ sent'[K] = x
    <3>1. sent' = Append(sent, x)
      BY <1>0, <2>1, <2>3, AppendIsConcat
    <3> QED
      BY <1>0, <2>3, <3>1, AppendProperties
  <2>5. SentInv'
    <3> SUFFICES ASSUME NEW k \in 1..Len(sent')
                 PROVE  sent'[k].pairs <= fMaxPHP /\ Numbered(sent'[k].rows)
      BY DEF SentInv, Numbered
    <3>1. CASE k = K
      BY <2>3, <2>4, <3>1
    <3>2. CASE k # K
      BY <1>0, <2>4, <3>2 DEF SentInv
    <3> QED
      BY <3>1, <3>2
  <2>6. /\ AllRows' \in [1..(K + 1) -> Seq(RowType)]
        /\ \A k \in 1..K : AllRows'[k] = AllRows[k]
        /\ \A k \in (K + 1)..(K + 1) : AllRows'[k] = <<>>
    <3>1. AllRows' = [k \in 1..(K + 1) |-> IF k <= K THEN sent'[k].rows ELSE <<>>]
      BY <2>4 DEF AllRows
    <3>2. ASSUME NEW k \in 1..K PROVE sent'[k].rows = AllRows[k]
      <4>1. CASE k = K
        BY <1>2, <2>3, <2>4, <4>1, RowsFacts
      <4>2. CASE k # K
        BY <1>0, <2>4, <4>2, RowsFacts
      <4> QED
        BY <4>1, <4>2
    <3> HIDE DEF K
    <3>3. <<>> \in Seq(RowType)
      OBVIOUS
    <3>4. \A k \in 1..K : sent'[k].rows \in Seq(RowType)
      BY <1>0, <3>2
    <3> QED
      BY <1>0, <3>1, <3>2, <3>3, <3>4
  <2>7. K + 1 \in Nat /\ K <= K + 1
    BY <1>0
  <2> HIDE DEF K
  <2>8. /\ \A p \in Nodes : Has(AllRows', p) <=> Has(AllRows, p)
        /\ Once(AllRows) => Once(AllRows')
    BY <1>0, <2>6, <2>7, SameRows
  <2> QED
    BY <2>2, <2>4, <2>5, <2>8
<1> QED
  BY <1>0, <1>1, <1>2

-----------------------------------------------------------------------------
(* The weblog thread.                                                      *)

\* The part of the invariant that is about it.
WeblogInv == WeblogType /\ PostInv /\ SentInv /\ LoopInv /\ DoneInv

LEMMA MonitorConstants ==
    /\ Readers \subseteq Nodes /\ Writers \subseteq Nodes /\ 0 \notin Nodes /\ Nodes \subseteq Nat
    /\ End \notin Nodes /\ \A w \in 1..End : w # End => w \in Nodes
  BY MonitorAssumption, Constants

\* The controller leaves the thread alone; the map may grow and shrink.
LEMMA ControllerStep ==
    ASSUME WeblogInv, UNCHANGED weblog, UNCHANGED calm, atstart' = atstart \cap map'
    PROVE  WeblogInv'
<1>0. /\ UNCHANGED <<fMaxPHP, post, sent, wpc, wit, rep, send>>
      /\ atstart' \subseteq map' /\ atstart' \subseteq atstart
  BY DEF weblog
<1>1. WeblogType'
  BY <1>0 DEF WeblogInv, WeblogType
<1>2. PostInv' /\ SentInv'
  BY <1>0 DEF WeblogInv, PostInv, SentInv, RowPairs, Numbered
<1>3. AllRows' = AllRows
  BY <1>0 DEF AllRows
<1>4. LoopInv'
  <2> SUFFICES ASSUME wpc = "readers", calm
               PROVE  /\ Once(AllRows)
                      /\ \A n \in Nodes : Has(AllRows, n) => n < wit
                      /\ \A n \in atstart' \cap Readers : n < wit => Has(AllRows, n)
    BY <1>0, <1>3 DEF LoopInv
  <2> QED
    BY <1>0 DEF WeblogInv, LoopInv
<1>5. DoneInv'
  <2> SUFFICES ASSUME wpc = "writers", calm
               PROVE  ~send /\ Once(AllRows) /\ \A n \in atstart' \cap Readers : Has(AllRows, n)
    BY <1>0, <1>3 DEF DoneInv
  <2> QED
    BY <1>0 DEF WeblogInv, DoneInv
<1> QED
  BY <1>1, <1>2, <1>4, <1>5 DEF WeblogInv

LEMMA WakesInv ==
    ASSUME WeblogInv, map \subseteq Nodes, WeblogWakes, UNCHANGED vars PROVE WeblogInv'
<1>0. /\ wpc' = "readers" /\ wit' = After(0) /\ send' = FALSE /\ sent' = <<>>
      /\ atstart' = map /\ calm' = TRUE /\ UNCHANGED <<fMaxPHP, post, rep>>
      /\ map' = map
  BY DEF WeblogWakes, vars
<1>1. /\ After(0) \in 1..End /\ \A n \in map : n > 0 => After(0) <= n
  BY AfterType
<1>2. <<>> \in Seq(SentType) /\ Len(<<>>) = 0
  OBVIOUS
<1>3. WeblogType'
  BY <1>0, <1>1, <1>2 DEF WeblogInv, WeblogType
<1>4. PostInv' /\ SentInv'
  BY <1>0, <1>2 DEF PostInv, SentInv
<1>5. \A k \in DOMAIN AllRows' : Len(AllRows'[k]) = 0
  BY <1>0, <1>2 DEF AllRows
<1>6. Once(AllRows') /\ \A n \in Nodes : ~Has(AllRows', n)
  BY <1>5 DEF Once, Has
<1>7. LoopInv'
  <2>1. \A n \in map : ~(n < After(0))
    <3> SUFFICES ASSUME NEW n \in map PROVE ~(n < After(0))
      OBVIOUS
    <3>1. n \in Nodes /\ n \in Nat /\ n > 0 /\ After(0) \in Nat
      BY <1>1, Constants
    <3> QED
      BY <1>1, <3>1
  <2> QED
    BY <1>0, <1>6, <2>1 DEF LoopInv
<1> QED
  BY <1>0, <1>3, <1>4, <1>7 DEF WeblogInv, DoneInv

\* The iterator moves to an element or to the end; if its own element was not
\* erased it passes no other one.
LEMMA WitMoves ==
    ASSUME WeblogType, map \subseteq Nodes, wit # End, Advance
    PROVE  /\ wit \in Nodes /\ wit' \in 1..End
           /\ ~wdangling => wit < wit' /\ \A n \in map : n < wit' => n <= wit
<1>0. wit \in Nodes /\ wit \in Nat
  BY MonitorConstants DEF WeblogType
<1>1. /\ After(wit) \in 1..End /\ After(wit) > wit /\ \A n \in map : n > wit => After(wit) <= n
  BY <1>0, AfterType
<1>2. CASE wdangling
  <2>1. wit' \in map \cup {End}
    BY <1>2 DEF Advance
  <2> QED
    BY <1>0, <1>2, <2>1, Constants
<1>3. CASE ~wdangling
  <2>1. wit' = After(wit)
    BY <1>3 DEF Advance
  <2>2. ASSUME NEW n \in map, n < After(wit) PROVE n <= wit
    <3>1. n \in Nat /\ After(wit) \in Nat
      BY <1>1, Constants
    <3> QED
      BY <1>0, <1>1, <2>2, <3>1
  <2> QED
    BY <1>0, <1>1, <2>1, <2>2
<1> QED
  BY <1>2, <1>3

LEMMA ReaderInv ==
    ASSUME WeblogInv, map \subseteq Nodes, ReaderRow, UNCHANGED vars PROVE WeblogInv'
<1>0. /\ wpc = "readers" /\ wpc' = "readers" /\ wit # End /\ Advance /\ rep' \in Copied
      /\ UNCHANGED <<fMaxPHP, atstart>> /\ map' = map /\ calm' = (calm /\ ~wdangling)
      /\ WeblogType /\ PostInv /\ SentInv /\ LoopInv
  BY DEF ReaderRow, WeblogInv, vars
<1>1. /\ wit \in Nodes /\ wit' \in 1..End
      /\ ~wdangling => wit < wit' /\ \A n \in map : n < wit' => n <= wit
  BY <1>0, WitMoves
<1>2. rep' \in 0..NNodes /\ (~wdangling => rep' = wit) /\ calm' \in BOOLEAN
  <2>1. rep' \in map \cup {wit, 0} /\ (~wdangling => rep' = wit)
    BY <1>0 DEF Copied
  <2> QED
    BY <1>0, <1>1, <2>1, Constants
<1>3. atstart \subseteq map
  BY <1>0 DEF LoopInv
<1>4. \* while no erased element was met the old rows are of nodes behind the iterator
      ASSUME calm'
      PROVE  /\ Once(AllRows) /\ ~wdangling
             /\ \A n \in Nodes : Has(AllRows, n) => n < wit
             /\ \A n \in Nodes : n < wit => n < wit'
             /\ ~Has(AllRows, wit)
             /\ \A n \in atstart \cap Readers : n < wit' => Has(AllRows, n) \/ n = wit
  <2>1. /\ calm /\ ~wdangling
    BY <1>0, <1>4
  <2>2. /\ Once(AllRows)
        /\ \A n \in Nodes : Has(AllRows, n) => n < wit
        /\ \A n \in atstart \cap Readers : n < wit => Has(AllRows, n)
    BY <1>0, <2>1 DEF LoopInv
  <2>3. \A n \in Nodes : n \in Nat /\ (n < wit => n < wit') /\ (n <= wit => n < wit \/ n = wit) /\ ~(wit < wit)
    BY <1>1, <2>1, Constants
  <2>4. ASSUME NEW n \in atstart \cap Readers, n < wit' PROVE Has(AllRows, n) \/ n = wit
    <3>1. n \in map /\ n \in Nodes
      BY <1>3
    <3>2. n < wit \/ n = wit
      BY <1>1, <2>1, <2>3, <2>4, <3>1
    <3> QED
      BY <2>2, <3>2
  <2> QED
    BY <1>1, <2>1, <2>2, <2>3, <2>4
<1>5. CASE rep' \in Readers
  <2>0. rep' \in Nodes /\ Row(rep', 9)
    BY <1>5, MonitorConstants DEF ReaderRow
  <2>1. /\ send' = TRUE /\ post' \in PostType /\ sent' \in Seq(SentType) /\ PostInv' /\ SentInv'
        /\ \A p \in Nodes : Has(AllRows', p) <=> Has(AllRows, p) \/ p = rep'
        /\ Once(AllRows) /\ ~Has(AllRows, rep') => Once(AllRows')
    <3>1. RowPairs = 9 /\ 9 \in {5, 9} /\ UNCHANGED <<fMaxPHP, wpc>>
      BY <1>0 DEF RowPairs
    <3> QED
      BY <1>0, <2>0, <3>1, RowStep
  <2>2. WeblogType'
    BY <1>0, <1>1, <1>2, <2>1 DEF WeblogType
  <2>3. LoopInv'
    <3> SUFFICES ASSUME calm'
                 PROVE  /\ Once(AllRows')
                        /\ \A n \in Nodes : Has(AllRows', n) => n < wit'
                        /\ \A n \in atstart \cap Readers : n < wit' => Has(AllRows', n)
      BY <1>0, <1>3 DEF LoopInv
    <3>1. rep' = wit /\ wit < wit' /\ \A n \in atstart \cap Readers : n \in Nodes
      BY <1>1, <1>2, <1>4, MonitorConstants
    <3> QED
      BY <1>1, <1>4, <2>1, <3>1
  <2> QED
    BY <1>0, <2>1, <2>2, <2>3 DEF WeblogInv, DoneInv
<1>6. CASE rep' \notin Readers
  <2>0. UNCHANGED <<post, sent, send>>
    BY <1>6 DEF ReaderRow
  <2>1. AllRows' = AllRows
    BY <2>0 DEF AllRows
  <2>2. WeblogType'
    BY <1>0, <1>1, <1>2, <2>0 DEF WeblogType
  <2>3. PostInv' /\ SentInv'
    BY <1>0, <2>0 DEF PostInv, SentInv, RowPairs, Numbered
  <2>4. LoopInv'
    <3> SUFFICES ASSUME calm'
                 PROVE  /\ Once(AllRows)
                        /\ \A n \in Nodes : Has(AllRows, n) => n < wit'
                        /\ \A n \in atstart \cap Readers : n < wit' => Has(AllRows, n)
      BY <1>0, <1>3, <2>1 DEF LoopInv
    <3>1. wit \notin Readers
      BY <1>2, <1>4, <1>6
    <3> QED
      BY <1>4, <3>1
  <2> QED
    BY <1>0, <2>2, <2>3, <2>4 DEF WeblogInv, DoneInv
<1> QED
  BY <1>5, <1>6

LEMMA WriterInv ==
    ASSUME WeblogInv, map \subseteq Nodes, WriterRow, UNCHANGED vars PROVE WeblogInv'
<1>0. /\ wpc = "writers" /\ wpc' = "writers" /\ wit # End /\ Advance
      /\ UNCHANGED <<fMaxPHP, rep>> /\ atstart' = {} /\ calm' = FALSE
      /\ WeblogType /\ PostInv /\ SentInv
  BY DEF WriterRow, WeblogInv
<1>1. wit' \in 1..End /\ rep \in 0..NNodes
  BY <1>0, WitMoves DEF WeblogType
<1>2. LoopInv' /\ DoneInv'
  BY <1>0 DEF LoopInv, DoneInv
<1>3. CASE rep \in Writers
  <2>1. RowPairs = 5 /\ 5 \in {5, 9} /\ UNCHANGED <<fMaxPHP, wpc>> /\ rep \in Nodes /\ Row(rep, 5)
    BY <1>0, <1>3, MonitorConstants DEF RowPairs, WriterRow
  <2>2. send' = TRUE /\ post' \in PostType /\ sent' \in Seq(SentType) /\ PostInv' /\ SentInv'
    BY <1>0, <2>1, RowStep
  <2>3. WeblogType'
    BY <1>0, <1>1, <2>2 DEF WeblogType
  <2> QED
    BY <1>2, <2>2, <2>3 DEF WeblogInv
<1>4. CASE rep \notin Writers
  <2>1. UNCHANGED <<post, sent, send>>
    BY <1>4 DEF WriterRow
  <2>2. WeblogType'
    BY <1>0, <1>1, <2>1 DEF WeblogType
  <2>3. PostInv' /\ SentInv'
    BY <1>0, <2>1 DEF PostInv, SentInv, RowPairs, Numbered
  <2> QED
    BY <1>2, <2>2, <2>3 DEF WeblogInv
<1> QED
  BY <1>3, <1>4

LEMMA EndLoopInv ==
    ASSUME WeblogInv, map \subseteq Nodes, EndLoop, UNCHANGED vars PROVE WeblogInv'
<1>0. /\ wpc # "sleep" /\ wit = End /\ send' = FALSE /\ UNCHANGED <<fMaxPHP, rep>> /\ map' = map
      /\ WeblogType /\ PostInv /\ SentInv /\ LoopInv /\ SendRest
  BY DEF EndLoop, WeblogInv, vars
<1>1. /\ post' \in PostType /\ sent' \in Seq(SentType) /\ SentInv'
      /\ \A p \in Nodes : Has(AllRows', p) <=> Has(AllRows, p)
      /\ Once(AllRows) => Once(AllRows')
  BY <1>0, RestStep
<1>2. PostInv'
  BY <1>0 DEF PostInv
<1>3. After(0) \in 1..End /\ End \in 1..End
  BY AfterType, Constants
<1>4. CASE wpc = "readers"
  <2>1. wpc' = "writers" /\ wit' = After(0) /\ UNCHANGED <<atstart, calm>>
    BY <1>4 DEF EndLoop
  <2>2. WeblogType'
    BY <1>0, <1>1, <1>3, <2>1 DEF WeblogType
  <2>3. LoopInv'
    BY <1>0, <2>1 DEF LoopInv
  <2>4. DoneInv'
    <3> SUFFICES ASSUME calm PROVE Once(AllRows') /\ \A n \in atstart \cap Readers : Has(AllRows', n)
      BY <1>0, <2>1 DEF DoneInv
    <3>1. /\ Once(AllRows) /\ atstart \subseteq Nodes
          /\ \A n \in atstart \cap Readers : n < End => Has(AllRows, n)
      BY <1>0, <1>4 DEF LoopInv
    <3>2. \A n \in Nodes : n < End
      BY Constants
    <3> QED
      BY <1>1, <3>1, <3>2
  <2> QED
    BY <1>1, <1>2, <2>2, <2>3, <2>4 DEF WeblogInv
<1>5. CASE wpc = "writers"
  <2>1. wpc' = "sleep" /\ wit' = End /\ atstart' = {} /\ calm' = FALSE
    BY <1>5 DEF EndLoop
  <2>2. WeblogType'
    BY <1>0, <1>1, <1>3, <2>1 DEF WeblogType
  <2> QED
    BY <1>1, <1>2, <2>1, <2>2 DEF WeblogInv, LoopInv, DoneInv
<1> QED
  BY <1>0, <1>4, <1>5 DEF WeblogType

-----------------------------------------------------------------------------
(* The theorems.                                                           *)

LEMMA MonitorInitInv == MonitorInit => MonitorInv
<1> SUFFICES ASSUME MonitorInit PROVE MonitorInv
  OBVIOUS
<1>1. ControllerInv
  BY InitInv DEF MonitorInit
<1>2. NewPost \in PostType /\ <<>> \in Seq(SentType) /\ Len(<<>>) = 0
  BY DEF NewPost, PostType
<1>3. WeblogType
  <2>1. fMaxPHP \in Nat /\ fMaxPHP >= 11
    BY MonitorAssumption DEF MonitorInit
  <2>2. End \in 1..End /\ 0 \in 0..NNodes
    BY Constants
  <2> QED
    BY <1>2, <2>1, <2>2 DEF MonitorInit, WeblogType
<1> QED
  BY <1>1, <1>2, <1>3 DEF MonitorInit, MonitorInv, PostInv, SentInv, LoopInv, DoneInv

LEMMA MonitorNextInv == MonitorInv /\ [MonitorNext]_allvars => MonitorInv'
<1> SUFFICES ASSUME MonitorInv, [MonitorNext]_allvars PROVE MonitorInv'
  OBVIOUS
<1>0. ControllerInv /\ WeblogInv /\ map \subseteq Nodes /\ atstart \subseteq map
  BY DEF MonitorInv, WeblogInv, ControllerInv, MapInv, LoopInv
<1>1. CASE UNCHANGED allvars
  <2>1. UNCHANGED vars /\ UNCHANGED weblog /\ UNCHANGED calm /\ atstart' = atstart \cap map'
    BY <1>0, <1>1 DEF allvars, vars
  <2>2. ControllerInv'
    BY <1>0, <2>1, NextInv
  <2>3. WeblogInv'
    BY <1>0, <2>1, ControllerStep
  <2> QED
    BY <2>2, <2>3 DEF MonitorInv, WeblogInv
<1>2. CASE Next /\ atstart' = atstart \cap map' /\ UNCHANGED <<weblog, calm>>
  <2>1. ControllerInv'
    BY <1>0, <1>2, NextInv
  <2>2. WeblogInv'
    BY <1>0, <1>2, ControllerStep
  <2> QED
    BY <2>1, <2>2 DEF MonitorInv, WeblogInv
<1>3. CASE process_weblog /\ UNCHANGED vars
  <2>1. ControllerInv'
    BY <1>0, <1>3, NextInv
  <2>2. WeblogInv'
    BY <1>0, <1>3, WakesInv, ReaderInv, WriterInv, EndLoopInv DEF process_weblog
  <2> QED
    BY <2>1, <2>2 DEF MonitorInv, WeblogInv
<1> QED
  BY <1>1, <1>2, <1>3 DEF MonitorNext

LEMMA MonitorInvHolds == MonitorSpec => []MonitorInv
  BY MonitorInitInv, MonitorNextInv, PTL DEF MonitorSpec

\* For any limit of 11 pairs or more: CheckPHPLimit() sends a post in time,
\* and the lines of each one are numbered from 0.
THEOREM EveryPostFits == MonitorSpec => []PostsFit
<1>1. MonitorInv => PostsFit
  <2> SUFFICES ASSUME MonitorInv, NEW k \in DOMAIN sent
               PROVE  /\ sent[k].pairs <= fMaxPHP
                      /\ \A r, s \in DOMAIN sent[k].rows :
                            r # s => sent[k].rows[r].line # sent[k].rows[s].line
    BY DEF PostsFit
  <2>1. WeblogType /\ sent \in Seq(SentType)
    BY DEF MonitorInv, WeblogType
  <2>2. k \in 1..Len(sent)
    BY <2>1
  <2>3. sent[k].rows \in Seq(RowType)
    BY <2>1, <2>2, RowsFacts
  <2>4. DOMAIN sent[k].rows = 1..Len(sent[k].rows) /\ Len(sent[k].rows) \in Nat
    BY <2>3
  <2> QED
    BY <2>2, <2>4 DEF MonitorInv, SentInv, Numbered
<1> QED
  BY <1>1, MonitorInvHolds, PTL

\* The first loop leaves out no reader that is in the map all the time and
\* repeats none, for any number of nodes, whatever other nodes come and go
\* meanwhile and however its rows are split into posts, as long as its iterator
\* is on no element that is erased.
THEOREM EveryReaderOnce == MonitorSpec => []OneRowEach
<1>1. MonitorInv => OneRowEach
  <2> SUFFICES ASSUME MonitorInv, wpc = "writers", calm
               PROVE  /\ \A k, l \in DOMAIN sent :
                            \A r \in DOMAIN sent[k].rows, s \in DOMAIN sent[l].rows :
                               sent[k].rows[r].node = sent[l].rows[s].node => k = l /\ r = s
                      /\ \A n \in atstart \cap Readers :
                            \E k \in DOMAIN sent : \E r \in DOMAIN sent[k].rows : sent[k].rows[r].node = n
    BY DEF OneRowEach
  <2>1. WeblogType /\ sent \in Seq(SentType) /\ DOMAIN sent = 1..Len(sent)
    BY DEF MonitorInv, WeblogType
  <2>2. /\ ~send /\ Once(AllRows) /\ \A n \in atstart \cap Readers : Has(AllRows, n)
    BY DEF MonitorInv, DoneInv
  <2>3. /\ \A k \in 1..Len(sent) : AllRows[k] = sent[k].rows /\ sent[k].rows \in Seq(RowType)
        /\ AllRows[Len(sent) + 1] = <<>> /\ DOMAIN AllRows = 1..(Len(sent) + 1) /\ Len(sent) \in Nat
    BY <2>1, <2>2, RowsFacts
  <2>4. \A k \in 1..Len(sent) : DOMAIN sent[k].rows = 1..Len(sent[k].rows)
    BY <2>3
  <2>5. ASSUME NEW k \in 1..Len(sent), NEW l \in 1..Len(sent),
               NEW r \in DOMAIN sent[k].rows, NEW s \in DOMAIN sent[l].rows,
               sent[k].rows[r].node = sent[l].rows[s].node
        PROVE  k = l /\ r = s
    <3>0. AllRows[k] = sent[k].rows /\ AllRows[l] = sent[l].rows
      BY <2>3
    <3>1. k \in DOMAIN AllRows /\ l \in DOMAIN AllRows
      BY <2>3
    <3>2. r \in 1..Len(AllRows[k]) /\ s \in 1..Len(AllRows[l])
      BY <2>4, <3>0
    <3>3. AllRows[k][r].node = AllRows[l][s].node
      BY <2>5, <3>0
    <3>4. \A a, b \in DOMAIN AllRows : \A c \in 1..Len(AllRows[a]), d \in 1..Len(AllRows[b]) :
            AllRows[a][c].node = AllRows[b][d].node => a = b /\ c = d
      BY <2>2 DEF Once
    <3> QED
      BY <3>1, <3>2, <3>3, <3>4
  <2>6. ASSUME NEW n \in atstart \cap Readers
        PROVE  \E k \in 1..Len(sent) : \E r \in DOMAIN sent[k].rows : sent[k].rows[r].node = n
    <3>1. PICK k \in 1..(Len(sent) + 1) : \E r \in 1..Len(AllRows[k]) : AllRows[k][r].node = n
      BY <2>2, <2>3 DEF Has
    <3>2. k # Len(sent) + 1
      BY <2>3, <3>1
    <3>3. k \in 1..Len(sent)
      BY <2>3, <3>2
    <3> QED
      BY <2>3, <2>4, <3>1, <3>3
  <2> QED
    BY <2>1, <2>5, <2>6
<1> QED
  BY <1>1, MonitorInvHolds, PTL
=============================================================================

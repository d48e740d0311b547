-------------------------- MODULE FzControllerProofs -------------------------
(***************************************************************************)
(* Proofs about FzController, for any number of nodes below the size of    *)
(* the index of map_clean(), any number of requests and of faults.         *)
(***************************************************************************)
EXTENDS FzController, NaturalsInduction, FiniteSetTheorems, SequenceTheorems, TLAPS

Msg   == [status : RCstate, req : 0..MaxRequests]
Entry == Nodes \X (0..(EXPIRY + 1))
Cast  == [targets : SUBSET Nodes, told : Seq(Nodes), strayed : BOOLEAN]

\* The run control thread.
RcsInv ==
    /\ rc \in RCstate /\ pc \in {"recv", "push", "wait"} /\ it \in 1..End
    /\ requests \in 0..MaxRequests /\ heard \subseteq Nodes

\* The nodes, and what is on its way to them.
NodesInv ==
    /\ up \in [Nodes -> BOOLEAN] /\ state \in [Nodes -> RCstate]
    /\ msgs \in [Nodes -> Seq(Msg)]

\* The collector: each node in the map has one entry in the deque, and no
\* other node has one.
MapInv ==
    /\ map \subseteq Nodes
    /\ deque \in Seq(Entry)
    /\ \A j, k \in 1..Len(deque) : deque[j][1] = deque[k][1] => j = k
    /\ \A k \in 1..Len(deque) : deque[k][1] \in map
    /\ \A n \in map : \E k \in 1..Len(deque) : deque[k][1] = n
    /\ i \in 0..(NNodes + 1)

\* What is on its way to a node is in its race, and so is the state of a node
\* to which nothing is; the last broadcast is in the race of those it reached.
RaceInv ==
    /\ race \in [Nodes -> SUBSET RCstate]
    /\ \A n \in Nodes : \A k \in 1..Len(msgs[n]) : msgs[n][k].status \in race[n]
    /\ \A n \in Nodes : up[n] /\ msgs[n] = <<>> => state[n] \in race[n]
    /\ \A n \in heard : rc \in race[n]

\* The nodes that a broadcast has pushed to are those behind its iterator, as
\* long as the iterator has met no erased element.
WalkInv ==
    /\ \A n \in cast.targets : n < it => \E k \in 1..Len(cast.told) : cast.told[k] = n
    /\ \A k \in 1..Len(cast.told) : cast.told[k] < it
    /\ \A j, k \in 1..Len(cast.told) : cast.told[j] = cast.told[k] => j = k
CastInv ==
    /\ cast \in Cast /\ cast.targets \subseteq map
    /\ pc = "push" /\ ~cast.strayed => WalkInv

ControllerInv == RcsInv /\ NodesInv /\ MapInv /\ RaceInv /\ CastInv

-----------------------------------------------------------------------------
(* The constants and the operators of the model.                           *)

LEMMA Constants ==
    /\ NNodes \in Nat /\ NNodes > 0 /\ EXPIRY \in Nat /\ IndexSize \in Nat /\ NNodes < IndexSize
    /\ Nodes = 1..NNodes /\ End = NNodes + 1 /\ Routes \subseteq RCstate /\ MaxRequests \in Nat
  BY ControllerAssumption DEF Nodes, End

LEMMA ProcessType ==
    \A s \in RCstate, cmd \in RCcommand : process(s, cmd) \in RCstate
  BY DEF RCstate, RCcommand, process, try_process, rc_ttable, TransitionTo, RCERROR, RCOK,
         IDLE, READY, RUNNING, PAUSED

\* erase() of one element of a sequence.
LEMMA RemoveAtProperties ==
    ASSUME NEW S, NEW s \in Seq(S), NEW k \in 1..Len(s)
    PROVE  /\ RemoveAt(s, k) \in Seq(S) /\ Len(RemoveAt(s, k)) = Len(s) - 1
           /\ \A j \in 1..(Len(s) - 1) : RemoveAt(s, k)[j] = IF j < k THEN s[j] ELSE s[j + 1]
<1> DEFINE a == SubSeq(s, 1, k - 1)
           b == SubSeq(s, k + 1, Len(s))
<1>0. Len(s) \in Nat /\ k \in Nat /\ k >= 1 /\ k <= Len(s) /\ \A j \in 1..Len(s) : s[j] \in S
  BY LenProperties
<1>1. a \in Seq(S) /\ Len(a) = k - 1 /\ \A j \in 1..(k - 1) : a[j] = s[j]
  <2>1. \A j \in 1..(k - 1) : s[j] \in S
    BY <1>0
  <2>2. /\ a \in Seq(S) /\ Len(a) = IF 1 <= k - 1 THEN (k - 1) - 1 + 1 ELSE 0
        /\ \A j \in 1..((k - 1) - 1 + 1) : a[j] = s[1 + j - 1]
    BY <1>0, <2>1, SubSeqProperties
  <2> HIDE DEF a
  <2> QED
    BY <1>0, <2>2
<1>2. /\ b \in Seq(S) /\ Len(b) = Len(s) - k
      /\ \A j \in 1..(Len(s) - k) : b[j] = s[k + j]
  <2>1. \A j \in (k + 1)..Len(s) : s[j] \in S
    BY <1>0
  <2>2. /\ b \in Seq(S) /\ Len(b) = IF k + 1 <= Len(s) THEN Len(s) - (k + 1) + 1 ELSE 0
        /\ \A j \in 1..(Len(s) - (k + 1) + 1) : b[j] = s[(k + 1) + j - 1]
    BY <1>0, <2>1, SubSeqProperties
  <2> HIDE DEF b
  <2> QED
    BY <1>0, <2>2
<1>3. RemoveAt(s, k) = a \o b
  BY DEF RemoveAt
<1> HIDE DEF a, b
<1>4. /\ a \o b \in Seq(S) /\ Len(a \o b) = (k - 1) + (Len(s) - k)
      /\ \A j \in 1..((k - 1) + (Len(s) - k)) : (a \o b)[j] = IF j <= k - 1 THEN a[j] ELSE b[j - (k - 1)]
  <2>1. /\ a \o b \in Seq(S) /\ Len(a \o b) = Len(a) + Len(b)
        /\ \A j \in 1..(Len(a) + Len(b)) : (a \o b)[j] = IF j <= Len(a) THEN a[j] ELSE b[j - Len(a)]
    BY <1>1, <1>2, ConcatProperties
  <2> QED
    BY <1>1, <1>2, <2>1
<1>5. ASSUME NEW j \in 1..(Len(s) - 1) PROVE (a \o b)[j] = IF j < k THEN s[j] ELSE s[j + 1]
  <2>1. j \in 1..((k - 1) + (Len(s) - k))
    BY <1>0
  <2>2. CASE j < k
    BY <1>0, <1>1, <1>4, <2>1, <2>2
  <2>3. CASE ~(j < k)
    <3>1. j - (k - 1) \in 1..(Len(s) - k) /\ k + (j - (k - 1)) = j + 1 /\ ~(j <= k - 1)
      BY <1>0, <2>3
    <3>2. b[j - (k - 1)] = s[k + (j - (k - 1))]
      BY <1>2, <3>1
    <3> QED
      BY <1>4, <2>1, <2>3, <3>1, <3>2
  <2> QED
    BY <2>2, <2>3
<1> QED
  BY <1>0, <1>3, <1>4, <1>5

\* A set of naturals that is not empty has a smallest element.
LEMMA Smallest == ASSUME NEW S \in SUBSET Nat, S # {} PROVE Min(S) \in S /\ \A k \in S : Min(S) <= k
<1>1. \E m \in S : \A k \in S : ~(<<k, m>> \in OpToRel(<, Nat))
  BY WFMin, NatLessThanWellFounded
<1>2. ASSUME NEW k \in Nat, NEW m \in Nat, k < m PROVE <<k, m>> \in OpToRel(<, Nat)
  BY <1>2, Zenon DEF OpToRel
<1>3. \E m \in S : \A k \in S : ~(k < m)
  BY <1>1, <1>2, Zenon
<1>4. \E m \in S : \A k \in S : m <= k
  BY <1>3
<1> QED
  BY <1>4 DEF Min

\* What is behind n in the map, and the first element, is the next node of the
\* map or the end.
LEMMA AfterType ==
    ASSUME map \subseteq Nodes, NEW n \in Nat
    PROVE  /\ After(n) \in 1..End /\ After(n) \in map \cup {End}
           /\ n \in Nodes => After(n) > n
           /\ \A k \in map : k > n => After(n) <= k
<1> USE Constants
<1> DEFINE s == {k \in map : k > n}
<1>0. /\ s \subseteq Nodes /\ s \subseteq Nat /\ s \subseteq map
      /\ \A k \in map : k > n <=> k \in s
  <2>1. \A k \in map : k \in Nodes /\ k \in Nat
    BY DEF Nodes
  <2>2. \A k : k \in s <=> k \in map /\ k > n
    BY Zenon
  <2> HIDE DEF s
  <2> QED
    BY <2>1, <2>2
<1>1. CASE s = {}
  BY <1>0, <1>1 DEF After
<1>2. CASE s # {}
  <2>1. Min(s) \in s /\ \A k \in s : Min(s) <= k
    BY <1>0, <1>2, Smallest
  <2>2. After(n) = Min(s)
    BY <1>2 DEF After
  <2> QED
    BY <1>0, <2>1, <2>2
<1> QED
  BY <1>1, <1>2

\* The deque has as many entries as the map has nodes.
LEMMA DequeSize ==
    ASSUME MapInv
    PROVE  /\ {deque[k][1] : k \in DOMAIN deque} = map
           /\ Len(deque) = Cardinality(map) /\ Len(deque) \in Nat /\ Len(deque) <= NNodes
<1> USE Constants
<1> DEFINE f == [k \in 1..Len(deque) |-> deque[k][1]]
<1>0. /\ deque \in Seq(Entry) /\ Len(deque) \in Nat /\ DOMAIN deque = 1..Len(deque)
      /\ \A k \in 1..Len(deque) : deque[k][1] \in Nodes
  BY DEF MapInv, Entry
<1>1. \A k \in 1..Len(deque) : deque[k][1] \in map
  BY <1>0 DEF MapInv
<1>2. \A n \in map : \E k \in 1..Len(deque) : deque[k][1] = n
  BY DEF MapInv
<1>3. f \in [1..Len(deque) -> map]
  BY <1>1
<1>4. \A j, k \in 1..Len(deque) : f[j] = f[k] => j = k
  BY DEF MapInv
<1>5. \A n \in map : \E k \in 1..Len(deque) : f[k] = n
  BY <1>2
<1> HIDE DEF f
<1>6. ExistsBijection(1..Len(deque), map)
  <2>1. f \in Injection(1..Len(deque), map)
    BY <1>3, <1>4 DEF Injection, IsInjective
  <2>2. f \in Surjection(1..Len(deque), map)
    BY <1>3, <1>5 DEF Surjection
  <2> QED
    BY <2>1, <2>2 DEF ExistsBijection, Bijection
<1>7. IsFiniteSet(1..Len(deque)) /\ Cardinality(1..Len(deque)) = Len(deque)
  <2>1. 1 \in Int /\ Len(deque) \in Int
    BY <1>0
  <2>2. /\ IsFiniteSet(1..Len(deque))
        /\ Cardinality(1..Len(deque)) = IF 1 > Len(deque) THEN 0 ELSE Len(deque) - 1 + 1
    BY <2>1, FS_Interval, Zenon
  <2> QED
    BY <1>0, <2>2
<1>8. Cardinality(map) = Len(deque)
  BY <1>6, <1>7, FS_Bijection, Zenon
<1>9. IsFiniteSet(Nodes) /\ Cardinality(Nodes) = NNodes
  BY FS_Interval
<1>10. map \in SUBSET Nodes
  BY DEF MapInv
<1>11. Cardinality(map) <= Cardinality(Nodes)
  BY <1>9, <1>10, FS_Subset
<1> QED
  BY <1>0, <1>1, <1>2, <1>8, <1>9, <1>11

-----------------------------------------------------------------------------
(* The initial state, and what a step leaves alone.                        *)

LEMMA NoCastType == NoCast \in Cast /\ NoCast.targets = {} /\ NoCast.told = <<>> /\ ~NoCast.strayed
  BY DEF NoCast, Cast

LEMMA InitInv == Init => ControllerInv
<1> SUFFICES ASSUME Init PROVE ControllerInv
  OBVIOUS
<1> USE Constants
<1>0. IDLE \in RCstate
  BY DEF RCstate
<1>1. RcsInv
  BY <1>0 DEF Init, RcsInv
<1>2. NodesInv
  BY <1>0 DEF Init, NodesInv
<1>3. MapInv
  BY DEF Init, MapInv
<1>4. RaceInv
  BY <1>0 DEF Init, RaceInv
<1>5. CastInv
  BY NoCastType DEF Init, CastInv
<1> QED
  BY <1>1, <1>2, <1>3, <1>4, <1>5 DEF ControllerInv

LEMMA SameRcs == ASSUME RcsInv, UNCHANGED <<rc, pc, it, requests, heard>> PROVE RcsInv'
  BY DEF RcsInv

LEMMA SameNodes == ASSUME NodesInv, UNCHANGED <<up, state, msgs>> PROVE NodesInv'
  BY DEF NodesInv

LEMMA SameMap == ASSUME MapInv, UNCHANGED <<map, deque, i>> PROVE MapInv'
  BY DEF MapInv

LEMMA SameRace ==
    ASSUME RaceInv, UNCHANGED <<rc, up, state, msgs, race, heard>> PROVE RaceInv'
  BY DEF RaceInv

LEMMA SameCast ==
    ASSUME CastInv, UNCHANGED <<it, cast, map>>, pc' = "push" => pc = "push" PROVE CastInv'
  BY DEF CastInv, WalkInv

-----------------------------------------------------------------------------
(* The run control thread.                                                 *)

LEMMA WriteEventInv ==
    ASSUME ControllerInv, NEW event \in RCcommand \cup {"unknown"}, WriteEvent(event)
    PROVE  ControllerInv'
<1> USE Constants
<1> DEFINE Begun == /\ rc' = Status(event) /\ pc' = "push" /\ it' = After(0) /\ heard' = {}
                    /\ cast' = [NoCast EXCEPT !.targets = map]
<1>0. /\ requests' = requests + 1 /\ requests < MaxRequests
      /\ UNCHANGED <<map, deque, i, up, state, msgs, race>>
      /\ UNCHANGED <<rc, pc, it, heard, cast>> \/ Begun
  BY DEF WriteEvent, NewRequest, nodevars
<1>1. requests' \in 0..MaxRequests
  BY <1>0 DEF ControllerInv, RcsInv
<1>2. NodesInv' /\ MapInv'
  BY <1>0, SameNodes, SameMap DEF ControllerInv
<1>3. CASE UNCHANGED <<rc, pc, it, heard, cast>>
  <2>1. RcsInv'
    BY <1>1, <1>3 DEF ControllerInv, RcsInv
  <2>2. RaceInv' /\ CastInv'
    BY <1>0, <1>3, SameRace, SameCast DEF ControllerInv
  <2> QED
    BY <1>2, <2>1, <2>2 DEF ControllerInv
<1>4. CASE Begun
  <2>0. map \subseteq Nodes /\ UNCHANGED map
    BY <1>0 DEF ControllerInv, MapInv
  <2>1. Status(event) \in RCstate
    BY ProcessType DEF Status, ControllerInv, RcsInv
  <2>2. After(0) \in 1..End /\ \A k \in map : k > 0 => After(0) <= k
    BY <2>0, AfterType
  <2>3. RcsInv'
    BY <1>1, <1>4, <2>1, <2>2 DEF RcsInv
  <2>4. RaceInv'
    BY <1>0, <1>4 DEF ControllerInv, RaceInv
  <2>5. cast' \in Cast /\ cast'.targets = map /\ cast'.told = <<>>
    BY <1>4, <2>0, NoCastType DEF Cast
  <2>6. \A n \in map : ~(n < After(0))
    BY <2>0, <2>2
  <2>7. CastInv'
    BY <1>4, <2>0, <2>5, <2>6 DEF CastInv, WalkInv
  <2> QED
    BY <1>2, <2>3, <2>4, <2>7 DEF ControllerInv
<1> QED
  BY <1>0, <1>3, <1>4

\* A message is put behind those that are on their way to n.
LEMMA SendProperties ==
    ASSUME NodesInv, NEW n \in Nodes, NEW msg \in Msg, Send(n, msg)
    PROVE  /\ msgs' \in [Nodes -> Seq(Msg)]
           /\ \A p \in Nodes : p # n => msgs'[p] = msgs[p]
           /\ Len(msgs[n]) \in Nat /\ Len(msgs'[n]) = Len(msgs[n]) + 1
           /\ \A k \in 1..Len(msgs[n]) : msgs'[n][k] = msgs[n][k]
           /\ msgs'[n][Len(msgs[n]) + 1] = msg
<1>1. msgs[n] \in Seq(Msg) /\ msgs \in [Nodes -> Seq(Msg)]
  BY DEF NodesInv
<1>2. /\ Append(msgs[n], msg) \in Seq(Msg) /\ Len(Append(msgs[n], msg)) = Len(msgs[n]) + 1
      /\ \A k \in 1..Len(msgs[n]) : Append(msgs[n], msg)[k] = msgs[n][k]
      /\ Append(msgs[n], msg)[Len(msgs[n]) + 1] = msg
  BY <1>1, AppendProperties
<1>3. msgs' = [msgs EXCEPT ![n] = Append(msgs[n], msg)]
  BY DEF Send
<1>4. msgs'[n] = Append(msgs[n], msg) /\ \A p \in Nodes : p # n => msgs'[p] = msgs[p]
  BY <1>1, <1>3
<1>5. msgs' \in [Nodes -> Seq(Msg)]
  BY <1>1, <1>2, <1>3
<1> QED
  BY <1>1, <1>2, <1>4, <1>5, LenProperties

\* The states on their way to a node take part in its race.
LEMMA UnderWayFacts ==
    ASSUME NodesInv, RaceInv, NEW n \in Nodes
    PROVE  /\ UnderWay(n) \subseteq race[n] /\ UnderWay(n) \subseteq RCstate
           /\ \A k \in 1..Len(msgs[n]) : msgs[n][k].status \in UnderWay(n)
<1>1. msgs[n] \in Seq(Msg) /\ DOMAIN msgs[n] = 1..Len(msgs[n])
  BY DEF NodesInv
<1>2. \A k \in 1..Len(msgs[n]) : msgs[n][k].status \in race[n]
  BY DEF RaceInv
<1>3. race[n] \subseteq RCstate
  BY DEF RaceInv
<1> QED
  BY <1>1, <1>2, <1>3 DEF UnderWay

\* A message that is sent joins those on their way; a broadcast has the
\* present state of the controller.
LEMMA SendRace ==
    ASSUME NodesInv, RaceInv, heard \subseteq Nodes, NEW n \in Nodes, NEW msg \in Msg, Send(n, msg),
           UNCHANGED <<rc, up, state>>,
           \/ msg.status = rc /\ heard' = heard \cup {n}
           \/ heard' = heard \ {n}
    PROVE  RaceInv'
<1>0. /\ \A p \in Nodes : p # n => msgs'[p] = msgs[p]
      /\ Len(msgs[n]) \in Nat /\ Len(msgs'[n]) = Len(msgs[n]) + 1
      /\ \A k \in 1..Len(msgs[n]) : msgs'[n][k] = msgs[n][k]
      /\ msgs'[n][Len(msgs[n]) + 1] = msg
  BY SendProperties
<1>1. /\ UnderWay(n) \subseteq RCstate
      /\ \A k \in 1..Len(msgs[n]) : msgs[n][k].status \in UnderWay(n)
  BY UnderWayFacts
<1>2. msg.status \in RCstate
  BY DEF Msg
<1>3. /\ race' \in [Nodes -> SUBSET RCstate]
      /\ race'[n] = UnderWay(n) \cup {msg.status} /\ \A p \in Nodes : p # n => race'[p] = race[p]
  BY <1>1, <1>2 DEF Send, RaceInv
<1>4. ASSUME NEW p \in Nodes, NEW k \in 1..Len(msgs'[p]) PROVE msgs'[p][k].status \in race'[p]
  <2>1. CASE p # n
    BY <1>0, <1>3, <1>4, <2>1 DEF RaceInv
  <2>2. CASE p = n /\ k \in 1..Len(msgs[n])
    BY <1>0, <1>1, <1>3, <2>2
  <2>3. CASE p = n /\ k = Len(msgs[n]) + 1
    BY <1>0, <1>3, <2>3
  <2> QED
    BY <1>0, <1>4, <2>1, <2>2, <2>3
<1>5. ASSUME NEW p \in Nodes, up'[p], msgs'[p] = <<>> PROVE state'[p] \in race'[p]
  <2>1. p # n
    BY <1>0, <1>5
  <2> QED
    BY <1>0, <1>3, <1>5, <2>1 DEF RaceInv
<1>6. ASSUME NEW p \in heard' PROVE rc' \in race'[p]
  BY <1>3, <1>6 DEF RaceInv
<1> QED
  BY <1>3, <1>4, <1>5, <1>6 DEF RaceInv

\* The pushed message, if the element is legible, and where it leads.
LEMMA PushFacts ==
    ASSUME ControllerInv, push_unicast
    PROVE  /\ it \in Nodes /\ rc \in RCstate /\ map \subseteq Nodes
           /\ Message(rc, 0) \in Msg /\ Message(rc, 0).status = rc
           /\ \/ \E n \in Nodes : Send(n, Message(rc, 0)) /\ heard' = heard \cup {n}
              \/ UNCHANGED <<msgs, race, heard>>
           /\ UNCHANGED <<rc, pc, map, deque, i, up, state, requests>>
<1> USE Constants
<1>1. it \in Nodes /\ rc \in RCstate /\ map \subseteq Nodes
  BY DEF ControllerInv, RcsInv, MapInv, push_unicast
<1>2. Named \subseteq Nodes
  BY <1>1 DEF Named
<1> QED
  BY <1>1, <1>2 DEF push_unicast, Message, Msg, nodevars

LEMMA PushInv == ASSUME ControllerInv, push_unicast PROVE ControllerInv'
<1> USE Constants
<1>0. /\ it \in Nodes /\ rc \in RCstate /\ map \subseteq Nodes
      /\ Message(rc, 0) \in Msg /\ Message(rc, 0).status = rc
      /\ UNCHANGED <<rc, pc, map, deque, i, up, state, requests>>
      /\ NodesInv /\ RaceInv /\ heard \subseteq Nodes
  BY PushFacts DEF ControllerInv, RcsInv
<1>1. /\ After(it) \in 1..End /\ After(it) > it
      /\ \A k \in map : k > it => After(it) <= k
  BY <1>0, AfterType
<1>2. it' \in 1..End
  BY <1>0, <1>1 DEF push_unicast, Next_it
<1>3. MapInv'
  BY <1>0, SameMap DEF ControllerInv
<1>4. RcsInv' /\ NodesInv' /\ RaceInv'
  <2>1. CASE UNCHANGED <<msgs, race, heard>>
    <3>1. RcsInv'
      BY <1>0, <1>2, <2>1 DEF ControllerInv, RcsInv
    <3> QED
      BY <1>0, <2>1, <3>1, SameNodes, SameRace
  <2>2. ASSUME NEW n \in Nodes, Send(n, Message(rc, 0)), heard' = heard \cup {n}
        PROVE  RcsInv' /\ NodesInv' /\ RaceInv'
    <3>1. RcsInv'
      BY <1>0, <1>2, <2>2 DEF ControllerInv, RcsInv
    <3>2. msgs' \in [Nodes -> Seq(Msg)]
      BY <1>0, <2>2, SendProperties
    <3>3. NodesInv'
      BY <1>0, <3>2 DEF NodesInv
    <3>4. RaceInv'
      BY <1>0, <2>2, SendRace
    <3> QED
      BY <3>1, <3>3, <3>4
  <2> QED
    BY <2>1, <2>2, PushFacts
<1>5. CastInv'
  <2>0. cast \in Cast /\ cast.targets \subseteq map /\ pc = "push"
    BY DEF ControllerInv, CastInv, push_unicast
  <2>1. CASE dangling \/ cast.strayed
    <3>1. cast' = [NoCast EXCEPT !.strayed = TRUE]
      BY <2>1 DEF push_unicast
    <3>2. cast' = [targets |-> {}, told |-> <<>>, strayed |-> TRUE]
      BY <3>1 DEF NoCast
    <3>3. {} \in SUBSET Nodes /\ <<>> \in Seq(Nodes)
      OBVIOUS
    <3>4. cast' \in Cast /\ cast'.targets = {} /\ cast'.strayed
      BY <3>2, <3>3, Zenon DEF Cast
    <3> QED
      BY <3>4 DEF CastInv
  <2>2. CASE ~dangling /\ ~cast.strayed
    <3>0. cast.targets \in SUBSET Nodes /\ cast.told \in Seq(Nodes) /\ WalkInv /\ Len(cast.told) \in Nat
      BY <2>0, <2>2 DEF ControllerInv, CastInv, Cast
    <3>1. cast' = [cast EXCEPT !.told = Append(@, it)] /\ it' = After(it)
      BY <2>2 DEF push_unicast, Next_it
    <3>2. /\ Append(cast.told, it) \in Seq(Nodes)
          /\ Len(Append(cast.told, it)) = Len(cast.told) + 1
          /\ \A k \in 1..Len(cast.told) : Append(cast.told, it)[k] = cast.told[k]
          /\ Append(cast.told, it)[Len(cast.told) + 1] = it
      BY <1>0, <3>0, AppendProperties
    <3>3. /\ cast' \in Cast /\ cast'.targets = cast.targets /\ cast'.told = Append(cast.told, it)
      BY <2>0, <3>1, <3>2 DEF Cast
    <3>4. /\ Len(cast'.told) = Len(cast.told) + 1
          /\ \A k \in 1..Len(cast.told) : cast'.told[k] = cast.told[k]
          /\ cast'.told[Len(cast.told) + 1] = it
      BY <3>2, <3>3
    <3>5. \A k \in 1..Len(cast.told) : cast.told[k] < it /\ cast.told[k] \in Nodes
      BY <3>0 DEF WalkInv
    <3>6. ASSUME NEW n \in cast'.targets, n < it'
          PROVE  \E k \in 1..Len(cast'.told) : cast'.told[k] = n
      <4>1. n \in map /\ n \in Nodes /\ ~(n > it)
        BY <1>0, <1>1, <2>0, <3>1, <3>3, <3>6
      <4>2. CASE n = it
        <5>1. Len(cast.told) + 1 \in 1..Len(cast'.told)
          BY <3>0, <3>4
        <5> QED
          BY <3>4, <4>2, <5>1
      <4>3. CASE n < it
        <5>1. PICK k \in 1..Len(cast.told) : cast.told[k] = n
          BY <3>0, <3>3, <4>3 DEF WalkInv
        <5>2. k \in 1..Len(cast'.told) /\ cast'.told[k] = n
          BY <3>0, <3>4, <5>1
        <5> QED
          BY <5>2
      <4> QED
        BY <1>0, <4>1, <4>2, <4>3
    <3>7. ASSUME NEW k \in 1..Len(cast'.told)
          PROVE  /\ cast'.told[k] < it'
                 /\ k # Len(cast.told) + 1 => k \in 1..Len(cast.told) /\ cast'.told[k] < it
      <4>1. CASE k = Len(cast.told) + 1
        BY <1>0, <1>1, <3>1, <3>4, <4>1
      <4>2. CASE k # Len(cast.told) + 1
        <5>1. k \in 1..Len(cast.told)
          BY <3>0, <3>4, <3>7, <4>2
        <5>2. cast'.told[k] < it /\ cast'.told[k] \in Nodes
          BY <3>4, <3>5, <5>1
        <5> QED
          BY <1>0, <1>1, <3>1, <5>1, <5>2
      <4> QED
        BY <4>1, <4>2
    <3>8. ASSUME NEW j \in 1..Len(cast'.told), NEW k \in 1..Len(cast'.told),
                 cast'.told[j] = cast'.told[k]
          PROVE  j = k
      <4>1. CASE j = Len(cast.told) + 1 \/ k = Len(cast.told) + 1
        <5>1. cast'.told[j] = it /\ cast'.told[k] = it
          BY <3>4, <3>8, <4>1
        <5> QED
          BY <1>0, <3>7, <5>1
      <4>2. CASE j # Len(cast.told) + 1 /\ k # Len(cast.told) + 1
        <5>1. j \in 1..Len(cast.told) /\ k \in 1..Len(cast.told)
          BY <3>7, <4>2
        <5>2. cast.told[j] = cast.told[k]
          BY <3>4, <3>8, <5>1
        <5> QED
          BY <3>0, <5>1, <5>2 DEF WalkInv
      <4> QED
        BY <4>1, <4>2
    <3> QED
      BY <1>0, <2>0, <3>3, <3>6, <3>7, <3>8 DEF CastInv, WalkInv
  <2> QED
    BY <2>1, <2>2
<1> QED
  BY <1>3, <1>4, <1>5 DEF ControllerInv

LEMMA RouteInv ==
    ASSUME ControllerInv, NEW n \in Nodes, NEW s \in Routes, Route(n, s) PROVE ControllerInv'
<1> USE Constants
<1>0. /\ requests' = requests + 1 /\ requests' \in 0..MaxRequests
      /\ Send(n, Message(s, requests')) /\ pc' = "wait" /\ heard' = heard \ {n}
      /\ UNCHANGED <<rc, it, map, deque, i, up, state, cast>>
      /\ NodesInv /\ RaceInv /\ heard \subseteq Nodes
  BY DEF Route, NewRequest, nodevars, ControllerInv, RcsInv
<1>1. Message(s, requests') \in Msg
  BY <1>0 DEF Message, Msg
<1>2. RcsInv'
  BY <1>0 DEF ControllerInv, RcsInv
<1>3. MapInv' /\ CastInv'
  BY <1>0, SameMap, SameCast DEF ControllerInv
<1>4. NodesInv'
  <2>1. msgs' \in [Nodes -> Seq(Msg)]
    BY <1>0, <1>1, SendProperties
  <2> QED
    BY <1>0, <2>1 DEF NodesInv
<1>5. RaceInv'
  BY <1>0, <1>1, SendRace
<1> QED
  BY <1>2, <1>3, <1>4, <1>5 DEF ControllerInv

LEMMA AnswerInv == ASSUME ControllerInv, EndBroadcast \/ UnicastTimeout PROVE ControllerInv'
<1>0. /\ pc' = "recv" /\ cast' \in {cast, NoCast}
      /\ UNCHANGED <<rc, it, map, deque, i, up, state, msgs, requests, race, heard>>
  BY DEF EndBroadcast, UnicastTimeout, history, nodevars
<1>1. RcsInv'
  BY <1>0 DEF ControllerInv, RcsInv
<1>2. NodesInv' /\ MapInv' /\ RaceInv'
  BY <1>0, SameNodes, SameMap, SameRace DEF ControllerInv
<1>3. CastInv'
  BY <1>0, NoCastType DEF ControllerInv, CastInv
<1> QED
  BY <1>1, <1>2, <1>3 DEF ControllerInv

-----------------------------------------------------------------------------
(* The collector thread.                                                   *)

LEMMA DequeFacts ==
    ASSUME MapInv
    PROVE  /\ deque \in Seq(Entry) /\ Len(deque) \in Nat /\ DOMAIN deque = 1..Len(deque)
           /\ \A k \in 1..Len(deque) : deque[k] \in Entry /\ deque[k][1] \in Nodes
  BY DEF MapInv, Entry

\* A report of a node that is there refreshes its entry, one of a node that
\* is not there brings a new entry.
LEMMA InsertInv ==
    ASSUME ControllerInv, NEW n \in Nodes, map_insert(n) PROVE ControllerInv'
<1> USE Constants
<1>0. /\ i = 0 /\ i' = 1 /\ map' = map \cup {n} /\ deque' = Inserted(n)
      /\ UNCHANGED <<rc, pc, it, up, state, msgs, requests, race, heard, cast>>
  BY DEF map_insert, history
<1>2. NodesInv' /\ RcsInv' /\ RaceInv'
  BY <1>0, SameNodes, SameRcs, SameRace DEF ControllerInv
<1>3. CastInv'
  BY <1>0 DEF ControllerInv, CastInv, WalkInv
<1>4. map' \subseteq Nodes /\ n \in map' /\ \A p \in Nodes : p # n => (p \in map' <=> p \in map)
  BY <1>0 DEF ControllerInv, MapInv
<1>5. /\ deque \in Seq(Entry) /\ Len(deque) \in Nat /\ DOMAIN deque = 1..Len(deque)
      /\ \A k \in 1..Len(deque) : deque[k] \in Entry /\ deque[k][1] \in Nodes
  BY DequeFacts DEF ControllerInv
<1>6. <<n, 0>> \in Entry
  BY DEF Entry
<1>7. MapInv'
  <2>1. CASE n \in map
    <3>1. deque' = Refresh(n)
      BY <1>0, <2>1 DEF Inserted
    <3>2. deque' = [k \in 1..Len(deque) |-> IF deque[k][1] = n THEN <<n, 0>> ELSE deque[k]]
      BY <1>5, <3>1 DEF Refresh
    <3>3. deque' \in Seq(Entry) /\ Len(deque') = Len(deque)
      BY <1>5, <1>6, <3>2
    <3>4. \A k \in 1..Len(deque) : deque'[k][1] = deque[k][1]
      BY <1>5, <3>2
    <3>5. map' = map
      BY <1>0, <2>1
    <3>6. \A j, k \in 1..Len(deque') : deque'[j][1] = deque'[k][1] => j = k
      BY <3>3, <3>4 DEF ControllerInv, MapInv
    <3>7. \A k \in 1..Len(deque') : deque'[k][1] \in map'
      BY <1>5, <3>3, <3>4, <3>5 DEF ControllerInv, MapInv
    <3>8. ASSUME NEW p \in map' PROVE \E k \in 1..Len(deque') : deque'[k][1] = p
      BY <3>3, <3>4, <3>5, <3>8 DEF ControllerInv, MapInv
    <3> QED
      BY <1>0, <1>4, <3>3, <3>6, <3>7, <3>8 DEF MapInv
  <2>2. CASE n \notin map
    <3>1. deque' = Append(deque, <<n, 0>>)
      BY <1>0, <2>2 DEF Inserted
    <3>2. /\ deque' \in Seq(Entry) /\ Len(deque') = Len(deque) + 1
          /\ \A k \in 1..Len(deque) : deque'[k] = deque[k]
          /\ deque'[Len(deque) + 1] = <<n, 0>>
      BY <1>5, <1>6, <3>1, AppendProperties
    <3>4. \A k \in 1..Len(deque) : deque[k][1] # n
      BY <2>2 DEF ControllerInv, MapInv
    <3>5. \A j, k \in 1..Len(deque') : deque'[j][1] = deque'[k][1] => j = k
      <4> SUFFICES ASSUME NEW j \in 1..Len(deque'), NEW k \in 1..Len(deque'),
                          deque'[j][1] = deque'[k][1]
                   PROVE  j = k
        OBVIOUS
      <4>1. CASE j <= Len(deque) /\ k <= Len(deque)
        BY <1>5, <3>2, <4>1 DEF ControllerInv, MapInv
      <4>2. CASE j = Len(deque) + 1 /\ k <= Len(deque)
        <5>1. k \in 1..Len(deque) /\ deque'[k] = deque[k] /\ deque'[j][1] = n
          BY <1>5, <3>2, <4>2
        <5> QED
          BY <3>4, <5>1
      <4>3. CASE k = Len(deque) + 1 /\ j <= Len(deque)
        <5>1. j \in 1..Len(deque) /\ deque'[j] = deque[j] /\ deque'[k][1] = n
          BY <1>5, <3>2, <4>3
        <5> QED
          BY <3>4, <5>1
      <4> QED
        BY <1>5, <3>2, <4>1, <4>2, <4>3
    <3>6. \A k \in 1..Len(deque') : deque'[k][1] \in map'
      <4> SUFFICES ASSUME NEW k \in 1..Len(deque') PROVE deque'[k][1] \in map'
        OBVIOUS
      <4>1. CASE k <= Len(deque)
        BY <1>4, <1>5, <3>2, <3>4, <4>1 DEF ControllerInv, MapInv
      <4>2. CASE k = Len(deque) + 1
        BY <1>4, <3>2, <4>2
      <4> QED
        BY <1>5, <3>2, <4>1, <4>2
    <3>7. ASSUME NEW p \in map' PROVE \E k \in 1..Len(deque') : deque'[k][1] = p
      <4>1. CASE p = n
        <5>1. Len(deque) + 1 \in 1..Len(deque') /\ deque'[Len(deque) + 1][1] = p
          BY <1>5, <3>2, <4>1
        <5> QED
          BY <5>1
      <4>2. CASE p # n
        <5>1. PICK k \in 1..Len(deque) : deque[k][1] = p
          BY <1>4, <3>7, <4>2 DEF ControllerInv, MapInv
        <5>2. k \in 1..Len(deque') /\ deque'[k][1] = p
          BY <1>5, <3>2, <5>1
        <5> QED
          BY <5>2
      <4> QED
        BY <4>1, <4>2
    <3> QED
      BY <1>0, <1>4, <3>2, <3>5, <3>6, <3>7 DEF MapInv
  <2> QED
    BY <2>1, <2>2
<1> QED
  BY <1>2, <1>3, <1>7 DEF ControllerInv

\* erase() of the map element and of the deque element belong together.
LEMMA CleanInv == ASSUME ControllerInv, map_clean PROVE ControllerInv'
<1> USE Constants
<1>0. /\ i > 0 /\ i <= Len(deque) /\ i' = Inc(i)
      /\ \/ /\ map' = map \ {deque[i][1]} /\ deque' = RemoveAt(deque, i)
            /\ cast' = [cast EXCEPT !.targets = @ \ {deque[i][1]}]
         \/ UNCHANGED <<map, deque, cast>>
      /\ UNCHANGED <<rc, pc, it, up, state, msgs, requests, race, heard>>
  BY DEF map_clean, nodevars
<1>1. RcsInv' /\ NodesInv' /\ RaceInv'
  BY <1>0, SameRcs, SameNodes, SameRace DEF ControllerInv
<1>c. CastInv'
  <2>1. CASE UNCHANGED <<map, deque, cast>>
    BY <1>0, <2>1, SameCast DEF ControllerInv
  <2>2. CASE map' = map \ {deque[i][1]} /\ cast' = [cast EXCEPT !.targets = @ \ {deque[i][1]}]
    <3>1. cast \in Cast /\ cast.targets \subseteq map
      BY DEF ControllerInv, CastInv
    <3>2. /\ cast' \in Cast /\ cast'.targets = cast.targets \ {deque[i][1]}
          /\ cast'.told = cast.told /\ cast'.strayed = cast.strayed
      BY <2>2, <3>1 DEF Cast
    <3> QED
      BY <1>0, <2>2, <3>1, <3>2 DEF ControllerInv, CastInv, WalkInv
  <2> QED
    BY <1>0, <2>1, <2>2
<1>2. Len(deque) \in Nat /\ Len(deque) <= NNodes /\ i \in 1..NNodes /\ i \in 1..Len(deque)
  BY <1>0, DequeSize DEF ControllerInv, MapInv
<1>3. i' \in 0..(NNodes + 1)
  <2>1. i % IndexSize = i
    BY <1>2
  <2> QED
    BY <1>0, <1>2, <2>1 DEF Inc
<1>4. /\ deque \in Seq(Entry) /\ \A k \in 1..Len(deque) : deque[k] \in Entry /\ deque[k][1] \in Nodes
  BY DequeFacts DEF ControllerInv
<1>5. MapInv'
  <2>1. CASE UNCHANGED <<map, deque, cast>>
    BY <1>3, <2>1 DEF ControllerInv, MapInv
  <2>2. CASE map' = map \ {deque[i][1]} /\ deque' = RemoveAt(deque, i)
    <3> DEFINE n == deque[i][1]
               Old(j) == IF j < i THEN j ELSE j + 1
    <3>1. /\ deque' \in Seq(Entry) /\ Len(deque') = Len(deque) - 1
          /\ \A j \in 1..(Len(deque) - 1) : deque'[j] = IF j < i THEN deque[j] ELSE deque[j + 1]
      BY <1>2, <1>4, <2>2, RemoveAtProperties
    <3>2. \A j \in 1..Len(deque') : Old(j) \in 1..Len(deque) /\ Old(j) # i /\ deque'[j] = deque[Old(j)]
      BY <1>2, <3>1
    <3>3. \A j, k \in 1..Len(deque') : Old(j) = Old(k) => j = k
      BY <1>2, <3>1
    <3>4. ASSUME NEW k \in 1..Len(deque), k # i PROVE \E j \in 1..Len(deque') : Old(j) = k
      <4>1. CASE k < i
        <5>1. k \in 1..Len(deque') /\ Old(k) = k
          BY <1>2, <3>1, <4>1
        <5> QED
          BY <5>1
      <4>2. CASE k > i
        <5>1. k - 1 \in 1..Len(deque') /\ Old(k - 1) = k
          BY <1>2, <3>1, <4>2
        <5> QED
          BY <5>1
      <4> QED
        BY <1>2, <3>4, <4>1, <4>2
    <3> HIDE DEF Old
    <3>5. n \in Nodes /\ map' \subseteq Nodes /\ map' = map \ {n}
      BY <1>2, <1>4, <2>2 DEF ControllerInv, MapInv
    <3>6. \A k \in 1..Len(deque) : deque[k][1] = n => k = i
      BY <1>2 DEF ControllerInv, MapInv
    <3>7. ASSUME NEW j \in 1..Len(deque'), NEW k \in 1..Len(deque'), deque'[j][1] = deque'[k][1]
          PROVE  j = k
      <4>1. Old(j) \in 1..Len(deque) /\ Old(k) \in 1..Len(deque) /\ deque[Old(j)][1] = deque[Old(k)][1]
        BY <3>2, <3>7
      <4>2. Old(j) = Old(k)
        BY <4>1 DEF ControllerInv, MapInv
      <4> QED
        BY <3>3, <4>2
    <3>8. \A k \in 1..Len(deque') : deque'[k][1] \in map'
      <4> SUFFICES ASSUME NEW k \in 1..Len(deque') PROVE deque'[k][1] \in map'
        OBVIOUS
      <4>1. Old(k) \in 1..Len(deque) /\ deque[Old(k)][1] # n /\ deque'[k][1] = deque[Old(k)][1]
        BY <3>2, <3>6
      <4> QED
        BY <1>4, <3>5, <4>1 DEF ControllerInv, MapInv
    <3>9. ASSUME NEW p \in map' PROVE \E k \in 1..Len(deque') : deque'[k][1] = p
      <4>1. p # n /\ p \in map
        BY <3>5, <3>9
      <4>2. PICK k \in 1..Len(deque) : deque[k][1] = p
        BY <4>1 DEF ControllerInv, MapInv
      <4>3. PICK j \in 1..Len(deque') : Old(j) = k
        BY <3>4, <4>1, <4>2
      <4> QED
        BY <3>2, <4>2, <4>3
    <3> QED
      BY <1>3, <3>1, <3>5, <3>7, <3>8, <3>9 DEF MapInv
  <2> QED
    BY <1>0, <2>1, <2>2
<1> QED
  BY <1>1, <1>c, <1>5 DEF ControllerInv

LEMMA ScanInv == ASSUME ControllerInv, CollectorTimeout \/ EndClean PROVE ControllerInv'
<1> USE Constants
<1>0. i' \in {0, 1} /\ UNCHANGED <<rc, pc, it, map, deque, nodevars, msgs, requests, race, heard, cast>>
  BY DEF CollectorTimeout, EndClean, history
<1>1. RcsInv' /\ NodesInv' /\ RaceInv' /\ CastInv'
  BY <1>0, SameRcs, SameNodes, SameRace, SameCast DEF ControllerInv, nodevars
<1>2. MapInv'
  BY <1>0 DEF ControllerInv, MapInv
<1> QED
  BY <1>1, <1>2 DEF ControllerInv

\* An entry grows old without leaving its node.
LEMMA TickInv == ASSUME ControllerInv, Tick PROVE ControllerInv'
<1> USE Constants
<1>0. UNCHANGED <<rc, pc, it, map, i, nodevars, msgs, requests, race, heard, cast>>
  BY DEF Tick, history
<1>1. RcsInv' /\ NodesInv' /\ RaceInv' /\ CastInv'
  BY <1>0, SameRcs, SameNodes, SameRace, SameCast DEF ControllerInv, nodevars
<1>2. /\ Len(deque) \in Nat /\ DOMAIN deque = 1..Len(deque)
      /\ \A k \in 1..Len(deque) : deque[k] \in Entry /\ deque[k][1] \in Nodes
  BY DequeFacts DEF ControllerInv
<1>3. ASSUME NEW k \in 1..Len(deque)
      PROVE  <<deque[k][1], Min({deque[k][2] + 1, EXPIRY + 1})>> \in Entry
  <2>1. deque[k][2] \in 0..(EXPIRY + 1)
    BY <1>2 DEF Entry
  <2>2. {deque[k][2] + 1, EXPIRY + 1} \in SUBSET Nat /\ {deque[k][2] + 1, EXPIRY + 1} # {}
    BY <2>1
  <2>3. /\ Min({deque[k][2] + 1, EXPIRY + 1}) \in {deque[k][2] + 1, EXPIRY + 1}
        /\ Min({deque[k][2] + 1, EXPIRY + 1}) <= EXPIRY + 1
    BY <2>2, Smallest
  <2>4. Min({deque[k][2] + 1, EXPIRY + 1}) \in 0..(EXPIRY + 1)
    BY <2>1, <2>3
  <2> QED
    BY <1>2, <2>4 DEF Entry
<1>4. deque' = [k \in 1..Len(deque) |-> <<deque[k][1], Min({deque[k][2] + 1, EXPIRY + 1})>>]
  BY <1>2 DEF Tick
<1>5. /\ deque' \in Seq(Entry) /\ Len(deque') = Len(deque)
      /\ \A k \in 1..Len(deque) : deque'[k][1] = deque[k][1]
  BY <1>2, <1>3, <1>4
<1>6. MapInv'
  BY <1>0, <1>5 DEF ControllerInv, MapInv
<1> QED
  BY <1>1, <1>6 DEF ControllerInv

-----------------------------------------------------------------------------
(* The nodes.                                                              *)

\* What is left of the messages to n after a step that takes some.
LEMMA FewerRace ==
    ASSUME NodesInv, RaceInv, NEW n \in Nodes, UNCHANGED <<rc, race, heard>>,
           \A p \in Nodes : p # n => msgs'[p] = msgs[p] /\ up'[p] = up[p] /\ state'[p] = state[p],
           \A j \in 1..Len(msgs'[n]) : \E k \in 1..Len(msgs[n]) : msgs'[n][j] = msgs[n][k],
           ~up'[n] \/ state'[n] \in race[n]
    PROVE  RaceInv'
<1>1. ASSUME NEW p \in Nodes, NEW j \in 1..Len(msgs'[p]) PROVE msgs'[p][j].status \in race'[p]
  <2>1. CASE p # n
    BY <1>1, <2>1 DEF RaceInv
  <2>2. CASE p = n
    <3>1. PICK k \in 1..Len(msgs[n]) : msgs'[n][j] = msgs[n][k]
      BY <1>1, <2>2
    <3> QED
      BY <2>2, <3>1 DEF RaceInv
  <2> QED
    BY <2>1, <2>2
<1>2. ASSUME NEW p \in Nodes, up'[p], msgs'[p] = <<>> PROVE state'[p] \in race'[p]
  <2>1. CASE p # n
    BY <1>2, <2>1 DEF RaceInv
  <2>2. CASE p = n
    BY <1>2, <2>2
  <2> QED
    BY <2>1, <2>2
<1> QED
  BY <1>1, <1>2 DEF RaceInv

\* A node takes any of its messages.
LEMMA HandleInv ==
    ASSUME ControllerInv, NEW n \in Nodes, NEW k \in DOMAIN msgs[n], HandleRequest(n, k)
    PROVE  ControllerInv'
<1> USE Constants
<1> DEFINE msg == msgs[n][k]
<1>0. /\ msgs \in [Nodes -> Seq(Msg)] /\ msgs[n] \in Seq(Msg) /\ Len(msgs[n]) \in Nat
      /\ k \in 1..Len(msgs[n]) /\ msg \in Msg /\ NodesInv /\ RaceInv
  BY DEF ControllerInv, NodesInv
<1>1. /\ state' = [state EXCEPT ![n] = msg.status]
      /\ msgs' = [msgs EXCEPT ![n] = RemoveAt(msgs[n], k)]
      /\ pc' \in {pc, "recv"}
      /\ UNCHANGED <<rc, it, map, deque, i, up, requests, race, heard, cast>>
  BY DEF HandleRequest, Taken
<1>2. /\ RemoveAt(msgs[n], k) \in Seq(Msg) /\ Len(RemoveAt(msgs[n], k)) = Len(msgs[n]) - 1
      /\ \A j \in 1..(Len(msgs[n]) - 1) :
            RemoveAt(msgs[n], k)[j] = IF j < k THEN msgs[n][j] ELSE msgs[n][j + 1]
  BY <1>0, RemoveAtProperties
<1>3. /\ msgs' \in [Nodes -> Seq(Msg)] /\ msgs'[n] = RemoveAt(msgs[n], k)
      /\ \A p \in Nodes : p # n => msgs'[p] = msgs[p]
  BY <1>0, <1>1, <1>2
<1>4. /\ state' \in [Nodes -> RCstate] /\ state'[n] = msg.status
      /\ \A p \in Nodes : p # n => state'[p] = state[p]
  BY <1>0, <1>1 DEF NodesInv, Msg
<1>5. RcsInv'
  BY <1>1 DEF ControllerInv, RcsInv
<1>6. NodesInv'
  BY <1>0, <1>1, <1>3, <1>4 DEF NodesInv
<1>7. MapInv' /\ CastInv'
  BY <1>1, SameMap, SameCast DEF ControllerInv
<1>8. RaceInv'
  <2>1. ASSUME NEW j \in 1..Len(msgs'[n])
        PROVE  \E l \in 1..Len(msgs[n]) : msgs'[n][j] = msgs[n][l]
    <3>1. j \in 1..(Len(msgs[n]) - 1) /\ j \in 1..Len(msgs[n]) /\ j + 1 \in 1..Len(msgs[n])
      BY <1>0, <1>2, <1>3
    <3>2. msgs'[n][j] = msgs[n][j] \/ msgs'[n][j] = msgs[n][j + 1]
      BY <1>2, <1>3, <3>1
    <3> QED
      BY <3>1, <3>2
  <2>2. state'[n] \in race[n]
    BY <1>0, <1>4 DEF RaceInv
  <2> QED
    BY <1>0, <1>1, <1>3, <1>4, <2>1, <2>2, FewerRace
<1> QED
  BY <1>5, <1>6, <1>7, <1>8 DEF ControllerInv

LEMMA ReportInv ==
    ASSUME ControllerInv, NEW n \in Nodes, SendReport(n) PROVE ControllerInv'
<1>0. UNCHANGED <<rc, pc, it, map, deque, i, up, state, msgs, requests, race, heard, cast>>
  BY DEF SendReport, history
<1> QED
  BY <1>0, SameRcs, SameNodes, SameMap, SameRace, SameCast DEF ControllerInv

LEMMA FunctionIsSeq ==
    ASSUME NEW S, NEW m \in Nat, NEW q \in [1..m -> S] PROVE q \in Seq(S) /\ Len(q) = m
  OBVIOUS

\* What is left of the messages to a node that crashes are some of them.
LEMMA CrashInv == ASSUME ControllerInv, NEW n \in Nodes, Crash(n) PROVE ControllerInv'
<1> USE Constants
<1>0. /\ up' = [up EXCEPT ![n] = FALSE]
      /\ UNCHANGED <<rc, pc, it, map, deque, i, state, requests, race, heard, cast>>
      /\ NodesInv /\ RaceInv
  BY DEF Crash, history, ControllerInv
<1>1. PICK len \in 0..Len(msgs[n]) : \E kept \in [1..len -> DOMAIN msgs[n]] :
        msgs' = [msgs EXCEPT ![n] = [k \in 1..len |-> msgs[n][kept[k]]]]
  BY DEF Crash
<1>2. PICK kept \in [1..len -> DOMAIN msgs[n]] :
        msgs' = [msgs EXCEPT ![n] = [k \in 1..len |-> msgs[n][kept[k]]]]
  BY <1>1
<1>3. /\ msgs \in [Nodes -> Seq(Msg)] /\ DOMAIN msgs[n] = 1..Len(msgs[n]) /\ Len(msgs[n]) \in Nat
      /\ \A j \in 1..Len(msgs[n]) : msgs[n][j] \in Msg
  BY <1>0 DEF NodesInv
<1> DEFINE q == [k \in 1..len |-> msgs[n][kept[k]]]
<1>4. /\ q \in Seq(Msg) /\ Len(q) = len
      /\ \A j \in 1..len : kept[j] \in 1..Len(msgs[n]) /\ q[j] = msgs[n][kept[j]]
  <2>1. len \in Nat
    BY <1>3
  <2>2. \A j \in 1..len : kept[j] \in 1..Len(msgs[n]) /\ q[j] = msgs[n][kept[j]]
    BY <1>2, <1>3
  <2>3. \A j \in 1..len : msgs[n][kept[j]] \in Msg
    BY <1>3, <2>2
  <2>4. q \in [1..len -> Msg]
    BY <2>3
  <2> HIDE DEF q
  <2>5. q \in Seq(Msg) /\ Len(q) = len
    BY <2>1, <2>4, FunctionIsSeq
  <2> QED
    BY <2>2, <2>5
<1>5. /\ msgs' \in [Nodes -> Seq(Msg)] /\ msgs'[n] = q /\ \A p \in Nodes : p # n => msgs'[p] = msgs[p]
  BY <1>2, <1>3, <1>4
<1> HIDE DEF q
<1>6. up' \in [Nodes -> BOOLEAN] /\ ~up'[n] /\ \A p \in Nodes : p # n => up'[p] = up[p]
  BY <1>0 DEF NodesInv
<1>7. RcsInv' /\ MapInv' /\ CastInv'
  BY <1>0, SameRcs, SameMap, SameCast DEF ControllerInv
<1>8. NodesInv'
  BY <1>0, <1>5, <1>6 DEF NodesInv
<1>9. RaceInv'
  <2>1. \A j \in 1..Len(msgs'[n]) : \E k \in 1..Len(msgs[n]) : msgs'[n][j] = msgs[n][k]
    BY <1>4, <1>5
  <2> QED
    BY <1>0, <1>5, <1>6, <2>1, FewerRace
<1> QED
  BY <1>7, <1>8, <1>9 DEF ControllerInv

LEMMA RestartInv == ASSUME ControllerInv, NEW n \in Nodes, Restart(n) PROVE ControllerInv'
<1> USE Constants
<1>0. /\ up' = [up EXCEPT ![n] = TRUE] /\ state' = [state EXCEPT ![n] = IDLE]
      /\ race' = [race EXCEPT ![n] = UnderWay(n) \cup {IDLE}] /\ heard' = heard \ {n}
      /\ UNCHANGED <<rc, pc, it, map, deque, i, msgs, requests, cast>>
      /\ NodesInv /\ RaceInv
  BY DEF Restart, ControllerInv
<1>1. IDLE \in RCstate
  BY DEF RCstate
<1>2. RcsInv'
  BY <1>0 DEF ControllerInv, RcsInv
<1>3. NodesInv'
  BY <1>0, <1>1 DEF NodesInv
<1>4. MapInv' /\ CastInv'
  BY <1>0, SameMap, SameCast DEF ControllerInv
<1>5. RaceInv'
  <2>1. /\ UnderWay(n) \subseteq RCstate
        /\ \A k \in 1..Len(msgs[n]) : msgs[n][k].status \in UnderWay(n)
    BY <1>0, UnderWayFacts
  <2>2. /\ race' \in [Nodes -> SUBSET RCstate]
        /\ race'[n] = UnderWay(n) \cup {IDLE} /\ \A p \in Nodes : p # n => race'[p] = race[p]
    BY <1>0, <1>1, <2>1 DEF RaceInv
  <2>3. /\ state'[n] = IDLE
        /\ \A p \in Nodes : p # n => state'[p] = state[p] /\ up'[p] = up[p]
    BY <1>0 DEF NodesInv
  <2>4. ASSUME NEW p \in Nodes, NEW k \in 1..Len(msgs'[p]) PROVE msgs'[p][k].status \in race'[p]
    BY <1>0, <2>1, <2>2, <2>4 DEF RaceInv
  <2>5. ASSUME NEW p \in Nodes, up'[p], msgs'[p] = <<>> PROVE state'[p] \in race'[p]
    BY <1>0, <2>2, <2>3, <2>5 DEF RaceInv
  <2>6. ASSUME NEW p \in heard' PROVE rc' \in race'[p]
    BY <1>0, <2>2, <2>6 DEF RaceInv, ControllerInv, RcsInv
  <2> QED
    BY <2>2, <2>4, <2>5, <2>6 DEF RaceInv
<1> QED
  BY <1>2, <1>3, <1>4, <1>5 DEF ControllerInv

-----------------------------------------------------------------------------
LEMMA NextInv == ControllerInv /\ [Next]_vars => ControllerInv'
<1> SUFFICES ASSUME ControllerInv, [Next]_vars PROVE ControllerInv'
  OBVIOUS
<1>1. CASE UNCHANGED vars
  BY <1>1, SameRcs, SameNodes, SameMap, SameRace, SameCast DEF vars, nodevars, history, ControllerInv
<1>2. CASE process_rcs
  BY <1>2, WriteEventInv, RouteInv, PushInv, AnswerInv DEF process_rcs
<1>3. CASE Collect
  BY <1>3, InsertInv, ScanInv DEF Collect
<1>4. CASE Clean
  BY <1>4, CleanInv, ScanInv DEF Clean
<1>5. CASE Tick
  BY <1>5, TickInv
<1>6. CASE \E n \in Nodes : Node(n)
  BY <1>6, HandleInv, ReportInv, CrashInv, RestartInv DEF Node
<1> QED
  BY <1>1, <1>2, <1>3, <1>4, <1>5, <1>6 DEF Next

LEMMA InvHolds == Spec => []ControllerInv
  BY InitInv, NextInv, PTL DEF Spec

\* The states, the iterator and the index of map_clean() stay in their
\* ranges for any number of nodes that the 8 bit index can count.
THEOREM ControllerTypes == Spec => []TypeOK
<1>1. ControllerInv => TypeOK
  <2> SUFFICES ASSUME ControllerInv PROVE TypeOK
    OBVIOUS
  <2>1. \A k \in DOMAIN deque : deque[k] \in Nodes \X (0..(EXPIRY + 1))
    BY DequeFacts DEF ControllerInv, Entry
  <2>2. ASSUME NEW n \in Nodes, NEW k \in DOMAIN msgs[n]
        PROVE  msgs[n][k] \in [status : RCstate, req : 0..MaxRequests]
    <3>1. msgs[n] \in Seq(Msg)
      BY DEF ControllerInv, NodesInv
    <3>2. msgs[n][k] \in Msg
      BY <3>1
    <3> QED
      BY <3>2 DEF Msg
  <2> QED
    BY <2>1, <2>2 DEF ControllerInv, RcsInv, NodesInv, MapInv, TypeOK
<1> QED
  BY <1>1, InvHolds, PTL

\* However reports, missing reports and the skipping loop of map_clean()
\* follow each other, the map and the deque have the same nodes, each once:
\* no iterator in the deque is left behind by an erase().
THEOREM MapAndDequeAgree == Spec => []MapMatchesDeque
<1>1. ControllerInv => MapMatchesDeque
  BY DequeSize DEF ControllerInv, MapMatchesDeque
<1> QED
  BY <1>1, InvHolds, PTL

\* However requests follow each other, messages overtake each other, time out
\* and are lost in crashes: a node at rest is in a state of its last race,
\* and in the controller's if the last broadcast was alone on its way.
THEOREM NodesSettle == Spec => []InSync
<1>1. ControllerInv => InSync
  <2> SUFFICES ASSUME ControllerInv, NEW n \in Nodes, up[n], msgs[n] = <<>>
               PROVE  /\ state[n] \in race[n]
                      /\ n \in heard /\ (\A r, s \in race[n] : r = s) => state[n] = rc
    BY DEF InSync
  <2>1. state[n] \in race[n] /\ (n \in heard => rc \in race[n])
    BY DEF ControllerInv, RaceInv
  <2> QED
    BY <2>1
<1> QED
  BY <1>1, InvHolds, PTL

\* For any number of nodes, and any reports and expiries while the broadcast
\* walks through the map: no node that stays in it is left out, none is
\* pushed to twice, until the iterator meets an element that was erased.
THEOREM EveryTargetIsTold == Spec => []BroadcastReaches
<1>1. ControllerInv => BroadcastReaches
  <2> SUFFICES ASSUME ControllerInv, pc = "push", it = End, ~cast.strayed
               PROVE  /\ \A n \in cast.targets : \E k \in DOMAIN cast.told : cast.told[k] = n
                      /\ \A j, k \in DOMAIN cast.told : cast.told[j] = cast.told[k] => j = k
    BY DEF BroadcastReaches
  <2>1. WalkInv /\ cast.targets \subseteq Nodes /\ DOMAIN cast.told = 1..Len(cast.told)
    BY DEF ControllerInv, CastInv, Cast
  <2>2. \A n \in Nodes : n < it
    BY Constants
  <2> QED
    BY <2>1, <2>2 DEF WalkInv
<1> QED
  BY <1>1, InvHolds, PTL

-----------------------------------------------------------------------------
(* Run control as RunControl states it.                                    *)

\* Each step is one of RunControl or changes nothing that it sees.
RcStep == RC!Next \/ UNCHANGED <<rc, state, race>>

LEMMA ProcessIsSame == \A s \in RCstate, cmd \in RCcommand : RC!process(s, cmd) = process(s, cmd)
  BY DEF process, try_process, rc_ttable, TransitionTo, RCERROR, RCOK,
         RC!process, RC!try_process, RC!rc_ttable, RC!TransitionTo, RC!RCERROR, RC!RCOK,
         IDLE, READY, RUNNING, PAUSED, RC!IDLE, RC!READY, RC!RUNNING, RC!PAUSED

LEMMA StatesAreSame == RC!RCstate = RCstate /\ RC!IDLE = IDLE /\ RC!RCcommand = RCcommand
  BY DEF RCstate, RC!RCstate, IDLE, READY, RUNNING, PAUSED, RC!IDLE, RC!READY, RC!RUNNING, RC!PAUSED,
         RCcommand, RC!RCcommand

LEMMA WriteEventRc ==
    ASSUME ControllerInv, NEW event \in RCcommand \cup {"unknown"}, WriteEvent(event) PROVE RcStep
<1>1. UNCHANGED <<state, race>> /\ (rc' = rc \/ rc' = Status(event))
  BY DEF WriteEvent, nodevars
<1>2. ASSUME event \in RCcommand, rc' = process(rc, event) PROVE RcStep
  <2>1. rc' = RC!process(rc, event)
    BY <1>2, ProcessIsSame DEF ControllerInv, RcsInv
  <2>2. RC!Command(event)
    BY <1>1, <2>1 DEF RC!Command
  <2> QED
    BY <1>2, <2>2, StatesAreSame DEF RcStep, RC!Next
<1>3. rc' = rc \/ (event \in RCcommand /\ rc' = process(rc, event))
  BY <1>1 DEF Status
<1> QED
  BY <1>1, <1>2, <1>3 DEF RcStep

\* What is sent comes to what is still on its way.
LEMMA SendRc ==
    ASSUME ControllerInv, NEW n \in Nodes, NEW msg \in Msg, Send(n, msg), UNCHANGED <<rc, state>>,
           msg.status = rc \/ msg.status \in Routes
    PROVE  RcStep
<1>1. UnderWay(n) \in SUBSET race[n]
  BY UnderWayFacts DEF ControllerInv
<1>2. race' = [race EXCEPT ![n] = UnderWay(n) \cup {msg.status}]
  BY DEF Send
<1>3. RC!Joins(n, msg.status)
  BY <1>1, <1>2 DEF RC!Joins
<1>4. RC!Send(n, msg.status)
  BY <1>3 DEF RC!Send
<1>5. msg.status \in RC!RCstate
  BY StatesAreSame DEF Msg
<1> QED
  BY <1>4, <1>5 DEF RcStep, RC!Next

LEMMA PushRc == ASSUME ControllerInv, push_unicast PROVE RcStep
<1>1. /\ Message(rc, 0) \in Msg /\ Message(rc, 0).status = rc /\ UNCHANGED <<rc, state>>
      /\ \/ \E n \in Nodes : Send(n, Message(rc, 0))
         \/ UNCHANGED race
  BY PushFacts
<1> QED
  BY <1>1, SendRc DEF RcStep

LEMMA RouteRc ==
    ASSUME ControllerInv, NEW n \in Nodes, NEW s \in Routes, Route(n, s) PROVE RcStep
<1>1. /\ Send(n, Message(s, requests')) /\ UNCHANGED <<rc, state>> /\ requests' \in 0..MaxRequests
  BY Constants DEF Route, NewRequest, nodevars, ControllerInv, RcsInv
<1>2. Message(s, requests') \in Msg /\ Message(s, requests').status = s
  BY <1>1, Constants DEF Message, Msg
<1> QED
  BY <1>1, <1>2, SendRc

LEMMA HandleRc ==
    ASSUME ControllerInv, NEW n \in Nodes, NEW k \in DOMAIN msgs[n], HandleRequest(n, k) PROVE RcStep
<1>1. state' = [state EXCEPT ![n] = msgs[n][k].status] /\ UNCHANGED <<rc, race>>
  BY DEF HandleRequest, Taken
<1>2. k \in 1..Len(msgs[n])
  BY DEF ControllerInv, NodesInv
<1>3. msgs[n][k].status \in race[n]
  BY <1>2 DEF ControllerInv, RaceInv
<1>4. RC!Take(n)
  BY <1>1, <1>3 DEF RC!Take
<1> QED
  BY <1>4 DEF RcStep, RC!Next

LEMMA RestartRc == ASSUME ControllerInv, NEW n \in Nodes, Restart(n) PROVE RcStep
<1>1. /\ state' = [state EXCEPT ![n] = IDLE] /\ UNCHANGED rc
      /\ race' = [race EXCEPT ![n] = UnderWay(n) \cup {IDLE}]
  BY DEF Restart
<1>2. UnderWay(n) \in SUBSET race[n]
  BY UnderWayFacts DEF ControllerInv
<1>3. RC!Joins(n, IDLE)
  BY <1>1, <1>2 DEF RC!Joins
<1>4. RC!Restart(n)
  BY <1>1, <1>3, StatesAreSame DEF RC!Restart
<1> QED
  BY <1>4 DEF RcStep, RC!Next

LEMMA NextRc == ControllerInv /\ [Next]_vars => RcStep
<1> SUFFICES ASSUME ControllerInv, [Next]_vars PROVE RcStep
  OBVIOUS
<1>1. CASE EndBroadcast \/ UnicastTimeout \/ UNCHANGED vars
  BY <1>1 DEF EndBroadcast, UnicastTimeout, vars, nodevars, history, RcStep
<1>2. CASE process_rcs
  BY <1>1, <1>2, WriteEventRc, RouteRc, PushRc DEF process_rcs
<1>3. CASE Collect \/ Clean \/ Tick
  BY <1>3 DEF Collect, Clean, Tick, map_insert, CollectorTimeout, map_clean, EndClean, nodevars,
              history, RcStep
<1>4. ASSUME NEW n \in Nodes, SendReport(n) \/ Crash(n) PROVE RcStep
  BY <1>4 DEF SendReport, Crash, history, RcStep
<1>5. CASE \E n \in Nodes : Node(n)
  BY <1>4, <1>5, HandleRc, RestartRc DEF Node
<1> QED
  BY <1>1, <1>2, <1>3, <1>5 DEF Next

\* The controller, its messages and the nodes implement RunControl, for any
\* number of nodes, requests and faults, though each message has a socket of
\* its own and may time out, overtake others, be pushed twice or be lost.
THEOREM NodesFollowController == Spec => NodesFollow
<1>1. Init => RC!Init
  BY StatesAreSame DEF Init, RC!Init
<1>2. ControllerInv /\ [Next]_vars => [RC!Next]_<<rc, state, race>>
  BY NextRc DEF RcStep
<1> QED
  BY <1>1, <1>2, InvHolds, PTL DEF Spec, NodesFollow, RC!Spec
=============================================================================

----------------------------- MODULE MCFzReader -----------------------------
(***************************************************************************)
(* Values of the constants of FzReader for TLC.  Words have distinct       *)
(* numbers, so a word lost, doubled or out of order shows; empty words     *)
(* (PAD) stand at the start, in and behind the events.                     *)
(***************************************************************************)
EXTENDS FzReader

Data(n) == [reg |-> FALSE, n |-> n]
Regid(n) == [reg |-> TRUE, n |-> n]

\* Three events of different lengths.
ThreeEvents ==
    <<Data(11), Data(12), Data(PAD), Regid(13), Data(21), Regid(22), Data(PAD), Data(31),
      Data(32), Data(33), Regid(34)>>
=============================================================================

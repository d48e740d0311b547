------------------------------- MODULE RCFSM --------------------------------
(***************************************************************************)
(* The run control state machine (src/src/rc/RCFSM.{h,cpp}), of which      *)
(* FzNodeManager (local mode) and FzController hold one each.              *)
(***************************************************************************)
EXTENDS Integers, Sequences

IDLE    == 0
READY   == 1
RUNNING == 2
PAUSED  == 3
RCstate == {IDLE, READY, RUNNING, PAUSED}

RCcommand == {"configure", "start", "stop", "reset"}

RCERROR == 0
RCOK    == 1

\* rc_ttable[command][state + 1] is a transition id; 0 is "not valid".
rc_ttable ==
    [ configure |-> <<1, 0, 0, 7>>,
      start     |-> <<0, 3, 0, 8>>,
      stop      |-> <<0, 0, 5, 0>>,
      reset     |-> <<2, 4, 6, 9>> ]

\* The state each transition leads to.
TransitionTo == <<READY, IDLE, RUNNING, IDLE, PAUSED, IDLE, READY, RUNNING, IDLE>>

try_process(curstate, cmd) == IF rc_ttable[cmd][curstate + 1] = 0 THEN RCERROR ELSE RCOK

\* The state after process(cmd); a command that is not valid changes nothing.
process(curstate, cmd) ==
    IF try_process(curstate, cmd) = RCERROR THEN curstate
    ELSE TransitionTo[rc_ttable[cmd][curstate + 1]]
=============================================================================

-------------------------- MODULE MCFdtTransmitter --------------------------
(***************************************************************************)
(* Values of the constants of FdtTransmitter for TLC: four events of odd   *)
(* and even sizes behind a header of two bytes, a window of four bytes and *)
(* a buffer in which no frame fits as a whole.                             *)
(***************************************************************************)
EXTENDS FdtTransmitter

OddAndEven == <<1, 1, 4, 2>>
=============================================================================

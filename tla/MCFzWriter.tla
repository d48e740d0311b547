----------------------------- MODULE MCFzWriter -----------------------------
(***************************************************************************)
(* Values of the constants of FzWriter for TLC.  Events are of one or two  *)
(* bytes; the limits are such that one or two of them fill a file and      *)
(* three or more a directory; the sizes wrap at 16.                        *)
(***************************************************************************)
EXTENDS FzWriter

NoTagNumber == NoNumber

\* A small value, one above the limits, one that wraps with the first event.
SomeGarbage == {0, 7, SizeMod - 1}
=============================================================================

---------------------------- MODULE MCDataTransfer ----------------------------
(***************************************************************************)
(* Values for the constants of DataTransfer.                               *)
(***************************************************************************)
EXTENDS DataTransfer

\* One mode of one unit a frame: every block is a frame, so that the sequence
\* numbers wrap.
OneUnit == [m \in 0 .. 0 |-> 1]

\* Three modes: a block of three units is cut at the fastest, goes in pieces of
\* two at the next and of one at the slowest, the floor's.
Slowing == [m \in 0 .. 2 |-> m + 1]

TwoModes == [m \in 0 .. 1 |-> m + 1]
=============================================================================

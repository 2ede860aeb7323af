----------------------------- MODULE MCNodeArrays -----------------------------
(***************************************************************************)
(* Nodes of five slots, an odd number as in the program (41), so that the  *)
(* halves of a split differ.                                               *)
(***************************************************************************)
EXTENDS NodeArrays

MCKeys == 0 .. 5
MCValues == 0 .. 1
=============================================================================

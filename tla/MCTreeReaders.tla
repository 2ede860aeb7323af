---------------------------- MODULE MCTreeReaders ----------------------------
(***************************************************************************)
(* The tree of MCBPTree, as an atomic map and read wherever it is at rest. *)
(***************************************************************************)
EXTENDS MCBPTree, TreeReaders
=============================================================================

------------------------------- MODULE MCStorage -------------------------------
(***************************************************************************)
(* Two servers, files that are just large enough, too small and much too   *)
(* small for their regions, sizes that two servers do not divide, and      *)
(* mappings at a multiple of the alignment and not.                        *)
(***************************************************************************)
EXTENDS Storage

Opt(store, index, pmem) ==
    [store_size |-> store, index_size |-> index, pmem_file_size |-> pmem]

MCOptions == {Opt(8, 10, 24), Opt(9, 7, 22), Opt(8, 8, 16), Opt(8, 8, 6)}
MCBases == {4, 8, 9}
=============================================================================

----------------------------- MODULE MCBootMaps -----------------------------
(***************************************************************************)
(* A directory of five tables of two pages of two bytes, the last two of   *)
(* which do not exist.  The kernel has page 0 for data and page 3 for      *)
(* code; modules lie right below it, or above it and reach into a missing  *)
(* table, or are so large that mem_map refuses them.  A controller may be  *)
(* where no table is, or at page 0 when the firmware names none.           *)
(***************************************************************************)
EXTENDS BootMaps

Module == [page : {1, 5}, size : 1 .. 4, isInitrd : BOOLEAN]
            \cup [page : {6}, size : {7}, isInitrd : BOOLEAN]

MCModuleLists == UNION {[1 .. n -> Module] : n \in 0 .. 2}
=============================================================================

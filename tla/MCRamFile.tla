------------------------------ MODULE MCRamFile ------------------------------
(***************************************************************************)
(* Two files in a heap of five words of two bytes that starts at an odd    *)
(* address.  A file of one word that grows by a byte, one that moves twice *)
(* and a heap filled to the last byte or asked for more all happen.        *)
(***************************************************************************)
EXTENDS RamFile
=============================================================================

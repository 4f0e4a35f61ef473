------------------------------ MODULE Pointers ------------------------------
(* What the kernel's C code compares its pointers with. *)
EXTENDS Integers

\* No address and no node has this value.
NULL == -1

=============================================================================

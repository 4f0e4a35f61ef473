----------------------------- MODULE MCSpinlock -----------------------------
(* Three cores, store buffers of three entries. *)
EXTENDS Spinlock

CONSTANTS c1, c2, c3

MCCores == {c1, c2, c3}

=============================================================================

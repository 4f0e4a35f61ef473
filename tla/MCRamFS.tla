------------------------------- MODULE MCRamFS -------------------------------
(* RamFS on two interchangeable file names. *)
EXTENDS RamFS, TLC

NameSymmetry == Permutations(Names)

\* The state without the contents of nodes that the root does not reach: no
\* action reads them.
LiveState == <<[n \in Reachable |-> nd[n]], used, freed, fault>>

=============================================================================

----------------------------- MODULE MCApStartup -----------------------------
(* ApStartup with a boot processor that is not number zero, so that an AP      *)
(* takes over record zero, an id (2) that nobody answers to and one beyond     *)
(* CPU_Num.                                                                    *)
EXTENDS ApStartup

MCPresent == {0, 1, 3, 7}

=============================================================================

---------------------------- MODULE MCTimeCounter ----------------------------
(* Small instance of TimeCounter: a low half of four values, three high halves. *)
EXTENDS TimeCounter

\* gcc -O0, with which arch/IA32 is compiled, loads the high half first.
BothOrders == {"lo", "hi"}

\* No wait, one tick, and a wait longer than the low half's range.
MCWaits == {0, 1, 7}

\* Below a millisecond, a whole number of milliseconds, and in between.
MCWaitsUs == {1, 2, 4, 5}

=============================================================================

----------------------------- MODULE MCSysTimer -----------------------------
(* Small instance of SysTimer: two timers, a 2-bit CountDown, 2 ms ticks. *)
EXTENDS SysTimer

\* The largest request that fits a CountDown, no multiple of the tick, and one
\* that is truncated to zero.
MCCountDowns == {3, 4}

MCRtcTimes == {2}

=============================================================================

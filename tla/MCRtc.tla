-------------------------------- MODULE MCRtc --------------------------------
(* Rtc shortly before carries that reach far.  A timestamp has 30 bits here, which end on *)
(* 10 January 2004, and no mix of two of these dates is outside 1902 to 2038, so that *)
(* seconds stay in TLC's integers. *)
EXTENDS Rtc

On(y, m, d, w, n) == [year |-> y, mon |-> m, mday |-> d, wday |-> w, yday |-> n]

MCStarts ==
  {[sec |-> 58, min |-> 59, hours |-> 23, date |-> On(1998, 12, 31, 4, 365)],
   [sec |-> 59, min |-> 59, hours |-> 23, date |-> On(1996, 2, 28, 3, 59)],
   [sec |-> 59, min |-> 59, hours |-> 9, date |-> On(1997, 6, 30, 1, 181)],
   [sec |-> 8, min |-> 0, hours |-> 19, date |-> On(2002, 1, 1, 2, 1)],
   [sec |-> 57, min |-> 59, hours |-> 23, date |-> On(1969, 12, 31, 3, 365)],
   [sec |-> 1, min |-> 37, hours |-> 13, date |-> On(2004, 1, 10, 6, 10)]}

=============================================================================

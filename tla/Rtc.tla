--------------------------------- MODULE Rtc ---------------------------------
(***************************************************************************)
(* Reading the date at boot: RTC_GetTimestamp polls the clock and reads    *)
(* its registers one by one, twice, and kernel_init shows the date.  The   *)
(* clock (external, an MC146818) raises its update flag shortly before it  *)
(* changes the registers, and then carries from the seconds up.            *)
(***************************************************************************)
EXTENDS Dates, Sequences

CONSTANTS
  Starts,   \* instants the clock may stand at: [sec, min, hours, date]
  UPDATES,  \* updates the clock makes before it stops
  UINT32    \* values of an uint32_t

\* A moment of a day of the calendar.
Instant(t) ==
  /\ t \in [sec : 0 .. 59, min : 0 .. 59, hours : 0 .. 23, date : {t.date}]
  /\ Proper(t.date)

ASSUME RtcAssumption == UPDATES \in Nat /\ UINT32 \in Nat \ {0} /\ \A t \in Starts : Instant(t)

VARIABLES
  now,      \* the instant the clock shows between updates
  flag,     \* update in progress, bit 7 of status register A
  carried,  \* registers the update under way has changed
  updates,  \* updates begun

  pc,       \* where RTC_GetTimestamp is
  polled,   \* the wait under way has seen the flag clear
  k,        \* registers read
  reads,    \* first_read and second_read
  tries,
  timestamp,
  shown,    \* boot_date

  late,     \* history: the first read of the try began when registers had changed
  asked     \* history: the instant the clock showed when the second read began

clockVars == <<now, flag, carried, updates>>
vars == <<clockVars, pc, polled, k, reads, tries, timestamp, shown, late, asked>>

NoDate == [uninitialised |-> TRUE]

-----------------------------------------------------------------------------
(* The clock. *)

Bcd(v) == 16 * (v \div 10) + (v % 10)

\* The registers of an instant, in the order they are read and carry.
Values(t) ==
  <<t.sec, t.min, t.hours, t.date.wday, t.date.mday, t.date.mon, t.date.year % 100, t.date.year \div 100>>

Registers(t) == [i \in 1 .. 8 |-> Bcd(Values(t)[i])]

NextSecond(t) ==
  LET minute == t.sec = 59
      hour == minute /\ t.min = 59
      midnight == hour /\ t.hours = 23
  IN  [sec |-> IF minute THEN 0 ELSE t.sec + 1,
       min |-> IF hour THEN 0 ELSE IF minute THEN t.min + 1 ELSE t.min,
       hours |-> IF midnight THEN 0 ELSE IF hour THEN t.hours + 1 ELSE t.hours,
       date |-> IF midnight THEN Tomorrow(t.date) ELSE t.date]

Cmos(i) == IF i <= carried THEN Registers(NextSecond(now))[i] ELSE Registers(now)[i]

KeepCpu == UNCHANGED <<pc, polled, k, reads, tries, timestamp, shown, late, asked>>

\* Between two updates there is a second: all of it but a few microseconds finds the
\* processor polling, or not yet there.
BeginUpdate ==
  /\ ~flag /\ updates < UPDATES
  /\ polled \/ (pc = "start" /\ updates = 0)
  /\ flag' = TRUE /\ updates' = updates + 1
  /\ UNCHANGED <<now, carried>> /\ KeepCpu

Carry ==
  /\ flag /\ carried < 8
  /\ carried' = carried + 1
  /\ UNCHANGED <<now, flag, updates>> /\ KeepCpu

\* The flag stays long enough for a loop that polls it to see it.
EndUpdate ==
  /\ carried = 8 /\ ~polled
  /\ now' = NextSecond(now) /\ flag' = FALSE /\ carried' = 0
  /\ UNCHANGED updates /\ KeepCpu

-----------------------------------------------------------------------------
(* RTC_GetTimestamp *)

Bcd2Dec(b) == 10 * (b \div 16) + (b % 16)

\* The loop before each read goes on while no update is in progress.
Poll ==
  /\ pc \in {"wait1", "wait2"}
  /\ IF flag THEN pc' = (IF pc = "wait1" THEN "read1" ELSE "read2") /\ polled' = FALSE
     ELSE polled' = TRUE /\ UNCHANGED pc
  /\ UNCHANGED <<clockVars, k, reads, tries, timestamp, shown, late, asked>>

\* RTC_read_date_time, one register.  The top bit of the hours is dropped.
ReadReg(i) == Bcd2Dec(IF i = 3 THEN Cmos(i) % 128 ELSE Cmos(i))

Read(n, from, to) ==
  /\ pc = from
  /\ reads' = [reads EXCEPT ![n] = Append(@, ReadReg(k + 1))]
  /\ k' = (k + 1) % 8
  /\ pc' = IF k = 7 THEN to ELSE from
  /\ UNCHANGED <<clockVars, polled, tries, timestamp, shown>>

ReadFirst ==
  /\ Read(1, "read1", "wait2")
  /\ late' = IF k = 0 THEN carried > 0 ELSE late
  /\ UNCHANGED asked

ReadSecond ==
  /\ Read(2, "read2", "compare")
  /\ asked' = IF k = 0 THEN now ELSE asked
  /\ UNCHANGED late

\* The seconds since 1970 that a read stands for, negative before then.
Seconds(r) ==
  86400 * DateToDays(r[7] + 100 * r[8], r[6], r[5]) + 3600 * r[3] + 60 * r[2] + r[1]

\* RTC_DateToTimestamp computes them in an uint32_t: a date before 1970 or after 2106
\* becomes another one.
DateToTimestamp(r) == Seconds(r) % UINT32

\* Fault: the two reads are not compared.
AgreeAlways == TRUE

Agree == reads[1] = reads[2]

\* Fault: a try that failed is not counted.
TriesLeftSame == tries

TriesLeft == tries - 1

Compare ==
  /\ pc = "compare"
  /\ timestamp' = IF Agree THEN DateToTimestamp(reads[2]) ELSE 0
  /\ tries' = IF Agree THEN tries ELSE TriesLeft
  /\ pc' = IF Agree \/ tries' = 0 THEN "show" ELSE "wait1"
  /\ reads' = <<<<>>, <<>>>>
  /\ UNCHANGED <<clockVars, polled, k, shown, late, asked>>

\* ts_to_date, which leaves the date alone without a timestamp, and asctime_r.
Show ==
  /\ pc = "show"
  /\ shown' = IF timestamp < 1 THEN NoDate
              ELSE [sec |-> timestamp % 60, min |-> (timestamp \div 60) % 60,
                    hours |-> (timestamp \div 3600) % 24, date |-> DaysToDate(timestamp \div 86400)]
  /\ pc' = "shown"
  /\ UNCHANGED <<clockVars, polled, k, reads, tries, timestamp, late, asked>>

-----------------------------------------------------------------------------
Init ==
  /\ now \in Starts /\ flag = FALSE /\ carried = 0 /\ updates = 0
  /\ pc = "start" /\ polled = FALSE /\ k = 0 /\ reads = <<<<>>, <<>>>> /\ tries = 3
  /\ timestamp = 0 /\ shown = NoDate /\ late = FALSE /\ asked = now

\* The call comes at any moment of an update.
Call == pc = "start" /\ pc' = "wait1" /\ UNCHANGED <<clockVars, polled, k, reads, tries, timestamp, shown, late, asked>>

Cpu == Call \/ Poll \/ ReadFirst \/ ReadSecond \/ Compare \/ Show

Clock == BeginUpdate \/ Carry \/ EndUpdate

Next == Cpu \/ Clock

\* The clock runs, and so does the processor.
Spec == Init /\ [][Next]_vars /\ WF_vars(Cpu) /\ WF_vars(Clock)

-----------------------------------------------------------------------------
(* Properties. *)

\* A timestamp holds this instant: with 32 bits, those from 1970 to 2106.
Holds(t) == Seconds(Values(t)) \in 0 .. UINT32 - 1

\* The date shown at boot is the instant the clock stood at when the read that is used
\* began, whatever carries fell between the registers, the two reads and the three
\* tries; unless the registers were already changing when the first read began, which
\* the wait for the start instead of the end of an update allows, or no try agreed, or
\* the instant is one that the timestamp cannot hold.
ShowsTheClock == pc = "shown" /\ ~late /\ shown # NoDate /\ Holds(asked) => shown = asked

\* As long as the clock runs RTC_GetTimestamp returns, for all that a pass of its loop
\* may wait for two updates, and the boot goes on.
DateIsShown == <>(pc = "shown")

-----------------------------------------------------------------------------
(* The inductive invariant behind ShowsTheClock. *)

TypeOK ==
  /\ Instant(now) /\ Instant(asked)
  /\ flag \in BOOLEAN /\ carried \in 0 .. 8 /\ (carried > 0 => flag)
  /\ pc \in {"start", "wait1", "read1", "wait2", "read2", "compare", "show", "shown"}
  /\ polled \in BOOLEAN /\ (polled => pc \in {"wait1", "wait2"})
  /\ k \in 0 .. 7 /\ late \in BOOLEAN /\ timestamp \in Int
  /\ reads \in [1 .. 2 -> Seq(Nat)]

\* What has been read when.
ReadsFit ==
  /\ k > 0 => pc \in {"read1", "read2"}
  /\ Len(reads[1]) = IF pc = "read1" THEN k ELSE IF pc \in {"wait2", "read2", "compare"} THEN 8 ELSE 0
  /\ Len(reads[2]) = IF pc = "read2" THEN k ELSE IF pc = "compare" THEN 8 ELSE 0

\* Until the second read begins at most two updates end after the first register was
\* read.  The seconds tell, unless the registers read are those of one instant.
FirstReadDated ==
  /\ (pc = "read1" /\ k > 0) \/ pc = "wait2" \/ (pc = "read2" /\ k = 0)
  /\ ~late
  => \/ /\ now.sec = reads[1][1]
        /\ carried = 0 => \A i \in 1 .. Len(reads[1]) : reads[1][i] = Values(now)[i]
     \/ /\ now.sec = (reads[1][1] + 1) % 60
        /\ flag => pc = "read2" \/ (pc = "wait2" /\ polled)
     \/ /\ now.sec = (reads[1][1] + 2) % 60
        /\ ~flag /\ pc = "read2"

\* From then on equal seconds mean that the first read is the instant of the second.
SecondReadDated ==
  /\ (pc = "read2" /\ k > 0) \/ pc = "compare"
  /\ ~late /\ reads[1][1] = reads[2][1]
  => reads[1] = Values(asked)

TimestampDated == pc = "show" /\ ~late /\ timestamp >= 1 => timestamp = DateToTimestamp(Values(asked))

IndInv == TypeOK /\ ReadsFit /\ FirstReadDated /\ SecondReadDated /\ TimestampDated /\ ShowsTheClock

=============================================================================

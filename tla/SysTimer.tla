------------------------------ MODULE SysTimer ------------------------------
(***************************************************************************)
(* The system tick and the software timers of TalOS: arch/IA32/systime.c   *)
(* (SysTick, SetSysTickFun, GetSysTimestamp) and coresys/timer.c           *)
(* (InitKernelTimers, SysTickFun, SetTimer, StartTimer, SetTimerStart).    *)
(*                                                                         *)
(* Two actors share OSData: the kernel thread on the boot processor, one   *)
(* action per store of its code, and the tick interrupt, which runs to     *)
(* completion between any two of them (the gate clears IF, and the other   *)
(* processors never touch OSData).  A condition of two loads is one step:  *)
(* Started is written by the kernel thread only, so the whole condition    *)
(* takes effect at its load of CountDown.                                  *)
(***************************************************************************)
EXTENDS Integers

CONSTANTS
  OS_TIMERS_N,            \* number of software timers (20)
  OS_TIME_SLICE,          \* reload value of the scheduler's time slice (20 ms)
  SYS_TICK_INCREMENT_MS,  \* SYS_TICK_MAX_HZ / SYS_TICK_FREQ_HZ (1 ms)
  TickAdjustReload,       \* SYS_TICK_CORRECTION(SYS_TICK_FREQ_HZ) (6591)
  MS_PER_SEC,             \* the 1000 of SysTickFun
  UINT32,                 \* 2^32, the range of CountDown
  UINT64,                 \* 2^64, the range of SysTickCounter and timestamp
  CountDowns,             \* values the callers pass as countDown
  RtcTimes                \* timestamps the RTC can deliver

ASSUME ConstantsAssumption ==
  /\ OS_TIMERS_N \in Nat \ {0}
  /\ OS_TIME_SLICE \in 1 .. UINT32 - 1
  /\ SYS_TICK_INCREMENT_MS \in Nat \ {0}
  /\ UINT32 \in Nat \ {0} /\ UINT64 \in Nat \ {0} /\ MS_PER_SEC \in Nat \ {0}
  /\ TickAdjustReload \in 0 .. UINT32 - 1
  /\ CountDowns \subseteq 0 .. UINT64 - 1
  /\ RtcTimes \subseteq 0 .. UINT64 - 1

Timers == 0 .. OS_TIMERS_N - 1

VARIABLES
  SysTickCounter,     \* systime.c: milliseconds since the first tick
  TickAdjustCurrent,  \* systime.c: ticks until the next one that adds no time
  tickFunSet,         \* systime.c: SysTickFun # NULL
  timestamp,          \* OSData.timestamp, seconds
  SysTime_ms,         \* OSData.SysTime_ms
  timeSlice,          \* OSData.TimeSliceTimer.CountDown
  CountDown,          \* OSData.TimerBlocks[i].CountDown
  Started,            \* OSData.TimerBlocks[i].Started
  pc,                 \* the next store of the kernel thread
  call,               \* arguments of the call in progress, index of the init loop
  asked,              \* history: countDown of the last SetTimer that stored one
  sinceSet,           \* history: ms of ticks since that store
  sinceStart          \* history: ms of ticks since the last store to the block

tickVars == <<SysTickCounter, TickAdjustCurrent, SysTime_ms, timestamp, timeSlice>>
historyVars == <<asked, sinceSet, sinceStart>>
vars == <<tickVars, tickFunSet, CountDown, Started, pc, call, historyVars>>

Calls == [i : Timers, n : CountDowns, start : BOOLEAN]

TypeOK ==
  /\ SysTickCounter \in 0 .. UINT64 - 1
  /\ TickAdjustCurrent \in 0 .. UINT32 - 1
  /\ tickFunSet \in BOOLEAN
  /\ timestamp \in 0 .. UINT64 - 1
  /\ SysTime_ms \in 0 .. UINT64 - 1
  /\ timeSlice \in 0 .. OS_TIME_SLICE
  /\ CountDown \in [Timers -> 0 .. UINT32 - 1]
  /\ Started \in [Timers -> BOOLEAN]
  /\ pc \in {"Install", "InitSlice", "InitBlock", "InitTime", "RtcClear", "RtcStore",
             "Ready", "SetCheck", "SetCountDown", "SetStarted", "StartCheck", "StartStarted"}
  /\ call \in Calls
  /\ asked \in [Timers -> 0 .. UINT64 - 1]
  /\ sinceSet \in [Timers -> 0 .. UINT32]
  /\ sinceStart \in [Timers -> 0 .. UINT32]

-----------------------------------------------------------------------------
(* The tick interrupt. *)

\* A history counter saturates at UINT32, above every CountDown.
Elapse(ms) == IF ms + SYS_TICK_INCREMENT_MS > UINT32
              THEN UINT32 ELSE ms + SYS_TICK_INCREMENT_MS

\* Faults in this computation that the properties must notice: expiry tested
\* against the wrong bound, no clamp at zero in 32-bit and in signed arithmetic.
TickDownOffByOne(c) == IF SYS_TICK_INCREMENT_MS + 1 >= c THEN 0 ELSE c - SYS_TICK_INCREMENT_MS
TickDownWraps(c) == (c - SYS_TICK_INCREMENT_MS) % UINT32
TickDownSigned(c) == c - SYS_TICK_INCREMENT_MS

\* The time a countdown has left after one tick.
TickDown(c) == IF SYS_TICK_INCREMENT_MS >= c THEN 0 ELSE c - SYS_TICK_INCREMENT_MS

\* Fault: timers served only by the ticks that advance the counter.
ServedWhenCounting(i) == CountDown[i] > 0 /\ Started[i] /\ SysTickCounter' # SysTickCounter

\* The timers a tick counts down: started and not expired.
Served(i) == CountDown[i] > 0 /\ Started[i]

\* timer.c SysTickFun, called with the counter SysTick has just computed.
SysTickFun ==
  /\ SysTime_ms' = SysTickCounter'
  /\ timestamp' = IF SysTickCounter' % MS_PER_SEC = 0
                  THEN (timestamp + 1) % UINT64 ELSE timestamp
  /\ timeSlice' = IF SYS_TICK_INCREMENT_MS >= timeSlice
                  THEN OS_TIME_SLICE ELSE timeSlice - SYS_TICK_INCREMENT_MS
  /\ CountDown' = [i \in Timers |-> IF Served(i) THEN TickDown(CountDown[i])
                                    ELSE CountDown[i]]

\* systime.c SysTick: every TickAdjustReload-th tick leaves the counter alone,
\* and still calls SysTickFun.
SysTick ==
  /\ LET adjust == (TickAdjustCurrent - 1) % UINT32
     IN  /\ TickAdjustCurrent' = IF adjust = 0 THEN TickAdjustReload ELSE adjust
         /\ SysTickCounter' = IF adjust = 0 THEN SysTickCounter
                              ELSE (SysTickCounter + SYS_TICK_INCREMENT_MS) % UINT64
  /\ IF tickFunSet THEN SysTickFun
     ELSE UNCHANGED <<SysTime_ms, timestamp, timeSlice, CountDown>>
  /\ sinceSet' = [i \in Timers |-> Elapse(sinceSet[i])]
  /\ sinceStart' = [i \in Timers |-> Elapse(sinceStart[i])]
  /\ UNCHANGED <<tickFunSet, Started, pc, call, asked>>

-----------------------------------------------------------------------------
(* kernel_init, from InitKernelTimers on.  Interrupts are already enabled. *)

Goto(from, to) == pc = from /\ pc' = to

\* SetSysTickFun stores the callback between cli and sti.
SetSysTickFun ==
  /\ Goto("Install", "InitSlice")
  /\ tickFunSet' = TRUE
  /\ UNCHANGED <<tickVars, CountDown, Started, call, historyVars>>

InitTimeSlice ==
  /\ Goto("InitSlice", "InitBlock")
  /\ timeSlice' = OS_TIME_SLICE
  /\ UNCHANGED <<SysTickCounter, TickAdjustCurrent, SysTime_ms, timestamp,
                 tickFunSet, CountDown, Started, call, historyVars>>

\* One turn of the loop over TimerBlocks: Started is left as the image has it.
InitTimerBlock ==
  /\ pc = "InitBlock"
  /\ CountDown' = [CountDown EXCEPT ![call.i] = 0]
  /\ IF call.i + 1 < OS_TIMERS_N
     THEN call' = [call EXCEPT !.i = @ + 1] /\ pc' = pc
     ELSE pc' = "InitTime" /\ call' = call
  /\ UNCHANGED <<tickVars, tickFunSet, Started, historyVars>>

InitSysTime_ms ==
  /\ Goto("InitTime", "RtcClear")
  /\ SysTime_ms' = 0
  /\ UNCHANGED <<SysTickCounter, TickAdjustCurrent, timestamp, timeSlice,
                 tickFunSet, CountDown, Started, call, historyVars>>

\* GetSysTimestamp(&OSData.timestamp): RTC_GetTimestamp clears its argument,
\* polls the RTC, and stores a time only when two reads agreed.
RtcClear ==
  /\ Goto("RtcClear", "RtcStore")
  /\ timestamp' = 0
  /\ UNCHANGED <<SysTickCounter, TickAdjustCurrent, SysTime_ms, timeSlice,
                 tickFunSet, CountDown, Started, call, historyVars>>

RtcStore ==
  /\ Goto("RtcStore", "Ready")
  /\ timestamp' \in RtcTimes \cup {timestamp}
  /\ UNCHANGED <<SysTickCounter, TickAdjustCurrent, SysTime_ms, timeSlice,
                 tickFunSet, CountDown, Started, call, historyVars>>

-----------------------------------------------------------------------------
(* The timer interface, called by the kernel thread. *)

TimerExpired(i) == CountDown[i] = 0

\* SetTimer(i, n) when start is FALSE, SetTimerStart(i, n) when it is TRUE.
CallSetTimer ==
  /\ Goto("Ready", "SetCheck")
  /\ call' \in Calls
  /\ UNCHANGED <<tickVars, tickFunSet, CountDown, Started, historyVars>>

\* Fault: SetTimer without its test of a running timer.
MaySetAlways(i) == TRUE

MaySet(i) == ~Started[i] \/ CountDown[i] = 0

SetTimerCheck ==
  /\ pc = "SetCheck"
  /\ pc' = IF MaySet(call.i) THEN "SetCountDown" ELSE "Ready"
  /\ UNCHANGED <<tickVars, tickFunSet, CountDown, Started, call, historyVars>>

\* The store converts the 64-bit argument to 32 bits.
SetTimerCountDown ==
  /\ Goto("SetCountDown", "SetStarted")
  /\ CountDown' = [CountDown EXCEPT ![call.i] = call.n % UINT32]
  /\ asked' = [asked EXCEPT ![call.i] = call.n]
  /\ sinceSet' = [sinceSet EXCEPT ![call.i] = 0]
  /\ sinceStart' = [sinceStart EXCEPT ![call.i] = 0]
  /\ UNCHANGED <<tickVars, tickFunSet, Started, call>>

SetTimerStarted ==
  /\ pc = "SetStarted"
  /\ pc' = IF call.start THEN "StartCheck" ELSE "Ready"
  /\ Started' = [Started EXCEPT ![call.i] = FALSE]
  /\ UNCHANGED <<tickVars, tickFunSet, CountDown, call, historyVars>>

CallStartTimer ==
  /\ Goto("Ready", "StartCheck")
  /\ \E i \in Timers : call' = [call EXCEPT !.i = i]
  /\ UNCHANGED <<tickVars, tickFunSet, CountDown, Started, historyVars>>

StartTimerCheck ==
  /\ pc = "StartCheck"
  /\ pc' = IF ~Started[call.i] /\ CountDown[call.i] > 0 THEN "StartStarted" ELSE "Ready"
  /\ UNCHANGED <<tickVars, tickFunSet, CountDown, Started, call, historyVars>>

StartTimerStarted ==
  /\ Goto("StartStarted", "Ready")
  /\ Started' = [Started EXCEPT ![call.i] = TRUE]
  /\ sinceStart' = [sinceStart EXCEPT ![call.i] = 0]
  /\ UNCHANGED <<tickVars, tickFunSet, CountDown, call, asked, sinceSet>>

-----------------------------------------------------------------------------
\* OSData is part of the kernel image and starts zeroed.
Init ==
  /\ SysTickCounter = 0 /\ TickAdjustCurrent = TickAdjustReload
  /\ tickFunSet = FALSE
  /\ timestamp = 0 /\ SysTime_ms = 0 /\ timeSlice = 0
  /\ CountDown = [i \in Timers |-> 0]
  /\ Started = [i \in Timers |-> FALSE]
  /\ pc = "Install"
  /\ call \in {c \in Calls : c.i = 0}
  /\ asked = [i \in Timers |-> 0]
  /\ sinceSet = [i \in Timers |-> 0]
  /\ sinceStart = [i \in Timers |-> 0]

KernelStep ==
  \/ SetSysTickFun \/ InitTimeSlice \/ InitTimerBlock \/ InitSysTime_ms
  \/ RtcClear \/ RtcStore
  \/ SetTimerCheck \/ SetTimerCountDown \/ SetTimerStarted
  \/ StartTimerCheck \/ StartTimerStarted

Next == SysTick \/ KernelStep \/ CallSetTimer \/ CallStartTimer

Spec == Init /\ [][Next]_vars

\* The PIT keeps raising the interrupt, and the kernel thread, which nothing
\* preempts, finishes the calls it has begun.
FairSpec == Spec /\ WF_vars(SysTick) /\ WF_vars(KernelStep)

-----------------------------------------------------------------------------
(* Properties. *)

Running(i) == Started[i] /\ CountDown[i] > 0

\* A timer that shows expired has seen at least the requested time pass since
\* SetTimer stored it, whatever ticks fell between the stores of SetTimer and
\* StartTimer.  Requests of 2^32 ms and more are truncated by the code and
\* promise nothing.
TimerNeverEarly ==
  \A i \in Timers : TimerExpired(i) /\ asked[i] < UINT32 => sinceSet[i] >= asked[i]

\* A running timer has not outlived its request: the time it still shows and
\* the time since it was started add up to no more than was asked, also across
\* the ticks that SysTick does not count.
TimerNeverLate ==
  \A i \in Timers : Running(i) => CountDown[i] + sinceStart[i] <= asked[i]

\* SetTimer checks and stores in separate steps, and still never re-arms a
\* running timer: such a timer only counts down.
RunningOnlyCountsDown ==
  [][\A i \in Timers : Running(i) => CountDown'[i] <= CountDown[i]]_vars

\* A timer left running by a finished call expires (the TimerExpired polling
\* loops end).
StartedTimerExpires ==
  \A i \in Timers : (pc = "Ready" /\ Running(i)) ~> TimerExpired(i)

-----------------------------------------------------------------------------
(* The inductive invariant behind the safety properties. *)

InInit == pc \in {"Install", "InitSlice", "InitBlock", "InitTime"}

\* What a timer shows and the time since it was set cover the request.
CoversRequest(i) == asked[i] < UINT32 => CountDown[i] + sinceSet[i] >= asked[i]

\* No timer shows more than was asked, and while it runs the time since its
\* start is accounted for as well.
WithinRequest(i) ==
  /\ CountDown[i] <= asked[i]
  /\ Running(i) => CountDown[i] + sinceStart[i] <= asked[i]

IndInv ==
  /\ TypeOK
  /\ \A i \in Timers : CoversRequest(i) /\ WithinRequest(i)
  /\ InInit => \A i \in Timers : asked[i] = 0
  /\ tickFunSet \/ pc = "Install"
  /\ pc = "SetCountDown" => MaySet(call.i)

=============================================================================

--------------------------- MODULE SysTimer_proofs ---------------------------
(***************************************************************************)
(* Proofs about the software timers, for any number of timers, any widths  *)
(* and any tick period: IndInv is inductive, and the safety properties of  *)
(* SysTimer follow from it.                                                *)
(***************************************************************************)
EXTENDS SysTimer, TLAPS

\* The remainders the stores compute stay in range and never exceed the value.
LEMMA ModRange == ASSUME NEW a \in Int, NEW b \in Nat \ {0}
                  PROVE  a % b \in 0 .. b - 1
  BY SMT

\* A remainder is at most the number divided.
LEMMA ModLeq == ASSUME NEW a \in Nat, NEW b \in Nat \ {0}
                PROVE  a % b <= a /\ (a < b => a % b = a)
  BY SMT

\* One tick takes at most its increment from a countdown, and never adds.
LEMMA TickDownBounds ==
  ASSUME NEW c \in 0 .. UINT32 - 1
  PROVE  /\ TickDown(c) \in 0 .. UINT32 - 1
         /\ TickDown(c) <= c
         /\ TickDown(c) + SYS_TICK_INCREMENT_MS >= c
         /\ TickDown(c) > 0 => TickDown(c) + SYS_TICK_INCREMENT_MS = c
  BY ConstantsAssumption DEF TickDown

\* A history counter advances by at most one tick and saturates at UINT32.
LEMMA ElapseBounds ==
  ASSUME NEW m \in 0 .. UINT32
  PROVE  /\ Elapse(m) \in 0 .. UINT32
         /\ Elapse(m) = UINT32 \/ Elapse(m) = m + SYS_TICK_INCREMENT_MS
         /\ Elapse(m) <= m + SYS_TICK_INCREMENT_MS
  BY ConstantsAssumption DEF Elapse

\* The initial states satisfy the inductive invariant.
LEMMA InitIndInv == Init => IndInv
  <1> SUFFICES ASSUME Init PROVE IndInv
    OBVIOUS
  <1>1. TypeOK
    <2>1. /\ SysTickCounter \in 0 .. UINT64 - 1
          /\ TickAdjustCurrent \in 0 .. UINT32 - 1
          /\ timestamp \in 0 .. UINT64 - 1
          /\ SysTime_ms \in 0 .. UINT64 - 1
          /\ timeSlice \in 0 .. OS_TIME_SLICE
      BY ConstantsAssumption DEF Init
    <2>2. /\ CountDown \in [Timers -> 0 .. UINT32 - 1]
          /\ asked \in [Timers -> 0 .. UINT64 - 1]
          /\ sinceSet \in [Timers -> 0 .. UINT32]
          /\ sinceStart \in [Timers -> 0 .. UINT32]
      BY ConstantsAssumption DEF Init
    <2>3. tickFunSet \in BOOLEAN /\ Started \in [Timers -> BOOLEAN] /\ call \in Calls
      BY Zenon DEF Init
    <2>4. QED
      BY <2>1, <2>2, <2>3 DEF Init, TypeOK
  <1>2. QED
    BY <1>1, ConstantsAssumption DEF Init, IndInv, CoversRequest, WithinRequest, Running, InInit

\* What a tick does to one countdown, in the form the proofs below use.
LEMMA TickEffect ==
  ASSUME IndInv, SysTick, NEW i \in Timers
  PROVE  /\ CountDown'[i] \in 0 .. UINT32 - 1
         /\ CountDown'[i] <= CountDown[i]
         /\ CountDown'[i] + SYS_TICK_INCREMENT_MS >= CountDown[i]
         /\ Started[i] /\ tickFunSet /\ CountDown'[i] > 0
              => CountDown'[i] + SYS_TICK_INCREMENT_MS = CountDown[i]
  <1>1. CountDown[i] \in 0 .. UINT32 - 1
    BY DEF IndInv, TypeOK
  <1>2. CASE tickFunSet
    <2>1. CountDown'[i] = IF Served(i) THEN TickDown(CountDown[i]) ELSE CountDown[i]
      BY <1>2 DEF SysTick, SysTickFun
    <2>2. QED
      BY <1>1, <2>1, TickDownBounds, ConstantsAssumption DEF Served
  <1>3. CASE ~tickFunSet
    BY <1>1, <1>3, ConstantsAssumption DEF SysTick
  <1>4. QED
    BY <1>2, <1>3

\* A tick preserves the typing of every variable.
LEMMA TickTypeOK == IndInv /\ SysTick => TypeOK'
  <1> SUFFICES ASSUME IndInv, SysTick PROVE TypeOK'
    OBVIOUS
  <1> USE ConstantsAssumption
  <1>1. TypeOK
    BY DEF IndInv
  <1>2. SysTickCounter' \in 0 .. UINT64 - 1 /\ TickAdjustCurrent' \in 0 .. UINT32 - 1
    <2>1. TickAdjustCurrent - 1 \in Int /\ SysTickCounter + SYS_TICK_INCREMENT_MS \in Int
      BY <1>1 DEF TypeOK
    <2>2. /\ (TickAdjustCurrent - 1) % UINT32 \in 0 .. UINT32 - 1
          /\ (SysTickCounter + SYS_TICK_INCREMENT_MS) % UINT64 \in 0 .. UINT64 - 1
      BY <2>1, ModRange
    <2>3. QED
      BY <1>1, <2>2 DEF SysTick, TypeOK
  <1>3. /\ SysTime_ms' \in 0 .. UINT64 - 1
        /\ timestamp' \in 0 .. UINT64 - 1
        /\ timeSlice' \in 0 .. OS_TIME_SLICE
    <2>1. (timestamp + 1) % UINT64 \in 0 .. UINT64 - 1
      BY <1>1, ModRange DEF TypeOK
    <2>2. CASE tickFunSet
      BY <1>1, <1>2, <2>1, <2>2 DEF SysTick, SysTickFun, TypeOK
    <2>3. CASE ~tickFunSet
      BY <1>1, <2>3 DEF SysTick, TypeOK
    <2>4. QED
      BY <2>2, <2>3
  <1>4. CountDown' \in [Timers -> 0 .. UINT32 - 1]
    <2>1. CountDown' = [i \in Timers |-> CountDown'[i]]
      <3>1. CASE tickFunSet
        BY <3>1 DEF SysTick, SysTickFun
      <3>2. CASE ~tickFunSet
        BY <1>1, <3>2 DEF SysTick, TypeOK
      <3>3. QED
        BY <3>1, <3>2
    <2>2. QED
      BY <2>1, TickEffect
  <1>5. sinceSet' \in [Timers -> 0 .. UINT32] /\ sinceStart' \in [Timers -> 0 .. UINT32]
    BY <1>1, ElapseBounds DEF SysTick, TypeOK
  <1>6. UNCHANGED <<tickFunSet, Started, pc, call, asked>>
    BY DEF SysTick
  <1>7. QED
    BY <1>1, <1>2, <1>3, <1>4, <1>5, <1>6 DEF TypeOK

\* A tick keeps every timer within its request, and the request covered.
LEMMA TickIndInv == IndInv /\ SysTick => IndInv'
  <1> SUFFICES ASSUME IndInv, SysTick PROVE IndInv'
    OBVIOUS
  <1> USE ConstantsAssumption
  <1>1. TypeOK /\ TypeOK'
    BY TickTypeOK DEF IndInv
  <1>2. UNCHANGED <<tickFunSet, Started, pc, call, asked>>
    BY DEF SysTick
  <1>3. ASSUME NEW i \in Timers
        PROVE  CoversRequest(i)' /\ WithinRequest(i)'
    <2>1. /\ sinceSet'[i] = Elapse(sinceSet[i])
          /\ sinceStart'[i] = Elapse(sinceStart[i])
      BY DEF SysTick
    <2>2. /\ CountDown[i] \in Nat /\ CountDown'[i] \in Nat /\ asked[i] \in Nat
          /\ sinceSet[i] \in 0 .. UINT32 /\ sinceStart[i] \in 0 .. UINT32
      BY <1>1 DEF TypeOK
    <2>3. CoversRequest(i) /\ WithinRequest(i)
      BY DEF IndInv
    <2>4. CoversRequest(i)'
      BY <1>2, <2>1, <2>2, <2>3, TickEffect, ElapseBounds DEF CoversRequest
    <2>5. Running(i)' => Running(i) /\ tickFunSet
      <3>1. CASE tickFunSet
        BY <1>2, <2>2, <3>1, TickEffect DEF Running
      <3>2. CASE ~tickFunSet
        <4>1. asked[i] = 0 /\ UNCHANGED CountDown
          BY <3>2 DEF SysTick, IndInv, InInit
        <4>2. QED
          BY <2>2, <2>3, <4>1 DEF WithinRequest, Running
      <3>3. QED
        BY <3>1, <3>2
    <2>6. WithinRequest(i)'
      BY <1>2, <2>1, <2>2, <2>3, <2>5, TickEffect, ElapseBounds DEF WithinRequest, Running
    <2>7. QED
      BY <2>4, <2>6
  <1>4. (InInit => \A i \in Timers : asked[i] = 0)'
    BY <1>2 DEF IndInv, InInit
  <1>5. (pc = "SetCountDown" => MaySet(call.i))'
    BY <1>1, <1>2, TickEffect DEF IndInv, MaySet, TypeOK, Calls
  <1>6. (tickFunSet \/ pc = "Install")'
    BY <1>2 DEF IndInv
  <1>7. QED
    BY <1>1, <1>3, <1>4, <1>5, <1>6 DEF IndInv

\* The stores of kernel_init: no timer has been set yet.
LEMMA InitStepIndInv ==
  ASSUME IndInv,
         SetSysTickFun \/ InitTimeSlice \/ InitTimerBlock \/ InitSysTime_ms
           \/ RtcClear \/ RtcStore
  PROVE  IndInv'
  <1> USE ConstantsAssumption DEF Goto, tickVars, historyVars
  <1>1. CASE SetSysTickFun
    BY <1>1 DEF SetSysTickFun, IndInv, TypeOK, CoversRequest, WithinRequest, Running, InInit, MaySet
  <1>2. CASE InitTimeSlice
    BY <1>2 DEF InitTimeSlice, IndInv, TypeOK, CoversRequest, WithinRequest, Running, InInit, MaySet
  <1>3. CASE InitTimerBlock
    <2>1. call.i \in Timers /\ UNCHANGED <<tickVars, tickFunSet, Started, historyVars>>
      BY <1>3 DEF InitTimerBlock, IndInv, TypeOK, Calls
    <2>2. CountDown' \in [Timers -> 0 .. UINT32 - 1]
      <3>1. 0 \in 0 .. UINT32 - 1 /\ CountDown \in [Timers -> 0 .. UINT32 - 1]
        BY DEF IndInv, TypeOK
      <3>2. QED
        BY <1>3, <3>1 DEF InitTimerBlock
    <2>3. call' \in Calls /\ pc' \in {"InitBlock", "InitTime"}
      <3>1. CASE call.i + 1 < OS_TIMERS_N
        <4>1. call.i + 1 \in Timers
          BY <2>1, <3>1 DEF Timers
        <4>2. call' = [call EXCEPT !.i = call.i + 1] /\ pc' = "InitBlock"
          BY <1>3, <3>1 DEF InitTimerBlock
        <4>3. QED
          BY <4>1, <4>2 DEF IndInv, TypeOK, Calls
      <3>2. CASE ~(call.i + 1 < OS_TIMERS_N)
        BY <1>3, <3>2 DEF InitTimerBlock, IndInv, TypeOK
      <3>3. QED
        BY <3>1, <3>2
    <2>4. TypeOK'
      BY <2>1, <2>2, <2>3 DEF IndInv, TypeOK
    <2>5. \A i \in Timers : CountDown'[i] = 0 /\ asked'[i] = 0
      BY <1>3, <2>1 DEF InitTimerBlock, IndInv, TypeOK, InInit, WithinRequest
    <2>6. \A i \in Timers : CoversRequest(i)' /\ WithinRequest(i)'
      BY <2>4, <2>5 DEF CoversRequest, WithinRequest, Running, TypeOK
    <2>7. QED
      BY <1>3, <2>1, <2>3, <2>4, <2>5, <2>6 DEF InitTimerBlock, IndInv, InInit, MaySet
  <1>4. CASE InitSysTime_ms
    BY <1>4 DEF InitSysTime_ms, IndInv, TypeOK, CoversRequest, WithinRequest, Running, InInit, MaySet
  <1>5. CASE RtcClear
    BY <1>5 DEF RtcClear, IndInv, TypeOK, CoversRequest, WithinRequest, Running, InInit, MaySet
  <1>6. CASE RtcStore
    BY <1>6 DEF RtcStore, IndInv, TypeOK, CoversRequest, WithinRequest, Running, InInit, MaySet
  <1>7. QED
    BY <1>1, <1>2, <1>3, <1>4, <1>5, <1>6

\* The stores of SetTimer and StartTimer, and the calls themselves.
LEMMA CallIndInv ==
  ASSUME IndInv,
         CallSetTimer \/ SetTimerCheck \/ SetTimerCountDown \/ SetTimerStarted
           \/ CallStartTimer \/ StartTimerCheck \/ StartTimerStarted
  PROVE  IndInv'
  <1> USE ConstantsAssumption DEF Goto, tickVars, historyVars
  <1>0. TypeOK /\ call.i \in Timers /\ call.n \in 0 .. UINT64 - 1
    <2>1. TypeOK /\ call.i \in Timers /\ call.n \in CountDowns
      BY DEF IndInv, TypeOK, Calls
    <2>2. QED
      BY <2>1
  <1>1. CASE CallSetTimer
    BY <1>1 DEF CallSetTimer, IndInv, TypeOK, CoversRequest, WithinRequest, Running, InInit, MaySet
  <1>2. CASE SetTimerCheck
    BY <1>2 DEF SetTimerCheck, IndInv, TypeOK, CoversRequest, WithinRequest, Running, InInit, MaySet
  <1>3. CASE SetTimerCountDown
    <2>1. call.n % UINT32 \in 0 .. UINT32 - 1 /\ call.n % UINT32 <= call.n
          /\ (call.n < UINT32 => call.n % UINT32 = call.n)
      <3>1. call.n \in Int /\ call.n \in Nat
        BY <1>0
      <3>2. QED
        BY <3>1, ModRange, ModLeq
    <2>2. TypeOK'
      BY <1>0, <1>3, <2>1 DEF SetTimerCountDown, TypeOK, Calls
    <2>3. ASSUME NEW i \in Timers
          PROVE  CoversRequest(i)' /\ WithinRequest(i)'
      <3>1. CASE i = call.i
        BY <1>0, <1>3, <2>1, <3>1
        DEF SetTimerCountDown, CoversRequest, WithinRequest, Running, TypeOK
      <3>2. CASE i # call.i
        BY <1>0, <1>3, <3>2
        DEF SetTimerCountDown, CoversRequest, WithinRequest, Running, TypeOK, IndInv
      <3>3. QED
        BY <3>1, <3>2
    <2>4. QED
      BY <1>3, <2>2, <2>3 DEF SetTimerCountDown, IndInv, InInit, MaySet
  <1>4. CASE SetTimerStarted
    BY <1>0, <1>4 DEF SetTimerStarted, IndInv, TypeOK, CoversRequest, WithinRequest, Running, InInit, MaySet
  <1>5. CASE CallStartTimer
    BY <1>0, <1>5 DEF CallStartTimer, IndInv, TypeOK, CoversRequest, WithinRequest, Running, InInit, MaySet, Calls
  <1>6. CASE StartTimerCheck
    BY <1>6 DEF StartTimerCheck, IndInv, TypeOK, CoversRequest, WithinRequest, Running, InInit, MaySet
  <1>7. CASE StartTimerStarted
    BY <1>0, <1>7 DEF StartTimerStarted, IndInv, TypeOK, CoversRequest, WithinRequest, Running, InInit, MaySet
  <1>8. QED
    BY <1>1, <1>2, <1>3, <1>4, <1>5, <1>6, <1>7

\* Every step of the kernel thread and every tick preserves IndInv.
LEMMA NextIndInv == IndInv /\ [Next]_vars => IndInv'
  <1> SUFFICES ASSUME IndInv, [Next]_vars PROVE IndInv'
    OBVIOUS
  <1>1. CASE SysTick
    BY <1>1, TickIndInv
  <1>2. CASE KernelStep
    BY <1>2, InitStepIndInv, CallIndInv DEF KernelStep
  <1>3. CASE CallSetTimer \/ CallStartTimer
    BY <1>3, CallIndInv
  <1>4. CASE UNCHANGED vars
    BY <1>4 DEF vars, tickVars, historyVars, IndInv, TypeOK, CoversRequest, WithinRequest,
                Running, InInit, MaySet
  <1>5. QED
    BY <1>1, <1>2, <1>3, <1>4 DEF Next

\* The inductive invariant holds in every reachable state, for every number of
\* timers and every tick period.
THEOREM InvariantHolds == Spec => []IndInv
  BY InitIndInv, NextIndInv, PTL DEF Spec

\* Every variable of the tick and timer code keeps its range: no countdown
\* underflows and the time slice never exceeds its reload value.
THEOREM TypeCorrect == Spec => []TypeOK
  <1>1. IndInv => TypeOK
    BY DEF IndInv
  <1>2. QED
    BY <1>1, InvariantHolds, PTL

\* No software timer shows expired before the requested time has passed.
THEOREM NeverEarly == Spec => []TimerNeverEarly
  <1>1. IndInv => TimerNeverEarly
    <2> SUFFICES ASSUME IndInv, NEW i \in Timers, TimerExpired(i), asked[i] < UINT32
                 PROVE  sinceSet[i] >= asked[i]
      BY DEF TimerNeverEarly
    <2>1. sinceSet[i] \in 0 .. UINT32 /\ asked[i] \in 0 .. UINT64 - 1
      BY DEF IndInv, TypeOK
    <2>2. QED
      BY <2>1, ConstantsAssumption DEF IndInv, CoversRequest, TimerExpired
  <1>2. QED
    BY <1>1, InvariantHolds, PTL

\* No running software timer outlives its request.
THEOREM NeverLate == Spec => []TimerNeverLate
  <1>1. IndInv => TimerNeverLate
    BY DEF IndInv, WithinRequest, TimerNeverLate
  <1>2. QED
    BY <1>1, InvariantHolds, PTL

\* A running timer is never re-armed, though SetTimer tests and stores in two
\* steps with ticks in between.
THEOREM RunningCountsDown == Spec => RunningOnlyCountsDown
  <1> DEFINE Down == \A i \in Timers : Running(i) => CountDown'[i] <= CountDown[i]
  <1>1. IndInv /\ [Next]_vars => [Down]_vars
    <2> SUFFICES ASSUME IndInv, Next, NEW i \in Timers, Running(i)
                 PROVE  CountDown'[i] <= CountDown[i]
      OBVIOUS
    <2>1. CountDown[i] \in 0 .. UINT32 - 1 /\ TypeOK
      BY DEF IndInv, TypeOK
    <2>2. CASE SysTick
      BY <2>2, TickEffect
    <2>3. CASE InitTimerBlock
      BY <2>1, <2>3, ConstantsAssumption DEF InitTimerBlock, TypeOK
    <2>4. CASE SetTimerCountDown
      <3>1. i # call.i
        BY <2>1, <2>4 DEF SetTimerCountDown, Goto, IndInv, MaySet, Running
      <3>2. QED
        BY <2>1, <2>4, <3>1 DEF SetTimerCountDown, TypeOK
    <2>5. CASE UNCHANGED CountDown
      BY <2>1, <2>5, ConstantsAssumption
    <2>6. QED
      BY <2>2, <2>3, <2>4, <2>5
      DEF Next, KernelStep, SetSysTickFun, InitTimeSlice, InitSysTime_ms, RtcClear, RtcStore,
          CallSetTimer, SetTimerCheck, SetTimerStarted, CallStartTimer, StartTimerCheck,
          StartTimerStarted
  <1>2. QED
    BY <1>1, InvariantHolds, PTL DEF Spec, RunningOnlyCountsDown

=============================================================================

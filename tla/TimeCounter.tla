----------------------------- MODULE TimeCounter -----------------------------
(***************************************************************************)
(* Reading the 64-bit system time on a 32-bit processor: ReadTimeCounter,  *)
(* GetSysTime_ms, Wait_ms and the tick-driven branch of Wait_us of         *)
(* arch/IA32/systime.c, against the tick interrupt that increments         *)
(* SysTickCounter between any two loads.  A 64-bit access is two 32-bit    *)
(* loads; C leaves their order to the compiler.                            *)
(***************************************************************************)
EXTENDS Integers

CONSTANTS
  UINT32,      \* 2^32: values of the low half
  HIGHS,       \* values of the high half (2^32)
  LoadOrders,  \* which half the build loads first: a subset of {"lo", "hi"}
  TICK_GAP,    \* steps the reader takes, at least, between two ticks
  Waits,       \* arguments of Wait_ms
  US_PER_MS,   \* the 1000 of Wait_us
  WaitsUs      \* arguments of Wait_us

ASSUME ConstantsAssumption ==
  /\ UINT32 \in Nat \ {0, 1} /\ HIGHS \in Nat \ {0} /\ US_PER_MS \in Nat \ {0}
  /\ TICK_GAP \in Nat \ {0}
  /\ LoadOrders \subseteq {"lo", "hi"} /\ LoadOrders # {}
  /\ Waits \subseteq 0 .. UINT32 * HIGHS - 1
  /\ WaitsUs \subseteq 0 .. UINT32 * HIGHS - 1

UINT64 == UINT32 * HIGHS

\* What a 32-bit load of one half of v delivers, and the value of two halves.
Word(v, half) == IF half = "lo" THEN v % UINT32 ELSE v \div UINT32
Value(r) == r.hi * UINT32 + r.lo

VARIABLES
  SysTickCounter,  \* the shared 64-bit counter
  order,           \* half that a 64-bit load fetches first
  reads,           \* firstRead and secondRead, as halves
  pc,              \* "Idle", the next load 1 .. 4, or "Compare"
  reading,         \* the variable Wait_ms is filling: "timeStart" or "timeNow"
  timeStart,       \* local of Wait_ms
  time_ms,         \* argument of Wait_ms
  ran,             \* steps of the reader since the last tick, up to TICK_GAP
  sinceRead,       \* history: ticks since ReadTimeCounter was entered
  sinceCall,       \* history: ticks since Wait_ms was entered
  carried,         \* history: the low half wrapped between the loads of secondRead
  startCarried     \* history: it did so in the reading that gave timeStart

history == <<sinceRead, sinceCall, carried, startCarried>>
vars == <<SysTickCounter, order, reads, pc, reading, timeStart, time_ms, ran, history>>

Pcs == {"Idle", "First1", "First2", "Second1", "Second2", "Compare"}

TypeOK ==
  /\ SysTickCounter \in 0 .. UINT64 - 1
  /\ order \in LoadOrders
  /\ reads \in [{"first", "second"} -> [lo : 0 .. UINT32 - 1, hi : 0 .. HIGHS - 1]]
  /\ pc \in Pcs
  /\ reading \in {"timeStart", "timeNow"}
  /\ timeStart \in 0 .. UINT64 - 1
  /\ time_ms \in 0 .. UINT64 - 1
  /\ ran \in 0 .. TICK_GAP /\ carried \in BOOLEAN /\ startCarried \in BOOLEAN
  /\ sinceRead \in 0 .. UINT64 - 1 /\ sinceCall \in 0 .. UINT64 - 1

-----------------------------------------------------------------------------
Saturate(n) == IF n < UINT64 - 1 THEN n + 1 ELSE n

\* SysTick incrementing the counter.  Ticks are a millisecond apart, so the
\* code they interrupt makes progress between two of them.
SysTick ==
  /\ ran = TICK_GAP \/ pc = "Idle"
  /\ ran' = 0
  /\ SysTickCounter' = (SysTickCounter + 1) % UINT64
  /\ sinceRead' = Saturate(sinceRead)
  /\ sinceCall' = Saturate(sinceCall)
  /\ carried' = (carried \/ (pc = "Second2" /\ (SysTickCounter + 1) % UINT32 = 0))
  /\ UNCHANGED <<order, reads, pc, reading, timeStart, time_ms, startCarried>>

-----------------------------------------------------------------------------
(* ReadTimeCounter. *)

Progress == ran' = IF ran < TICK_GAP THEN ran + 1 ELSE ran

Other(half) == IF half = "lo" THEN "hi" ELSE "lo"

\* Load one half of the counter into firstRead or secondRead.
Load(which, half, from, to) ==
  /\ pc = from /\ pc' = to
  /\ reads' = [reads EXCEPT ![which][half] = Word(SysTickCounter, half)]
  /\ Progress
  /\ UNCHANGED <<SysTickCounter, order, reading, timeStart, time_ms, sinceRead, sinceCall,
                 startCarried>>

LoadFirst ==
  /\ \/ Load("first", order, "First1", "First2")
     \/ Load("first", Other(order), "First2", "Second1")
  /\ carried' = carried

LoadSecond ==
  \/ Load("second", order, "Second1", "Second2") /\ carried' = FALSE
  \/ Load("second", Other(order), "Second2", "Compare") /\ carried' = carried

\* Fault: the loop of ReadTimeCounter dropped.
AlwaysAgree == TRUE

\* The condition that ends the loop of ReadTimeCounter.
HighHalvesAgree == reads["first"].hi = reads["second"].hi

Retry ==
  /\ pc = "Compare" /\ ~HighHalvesAgree
  /\ pc' = "First1" /\ Progress
  /\ UNCHANGED <<SysTickCounter, order, reads, reading, timeStart, time_ms, history>>

Returns == pc = "Compare" /\ HighHalvesAgree
Result == Value(reads["second"])

-----------------------------------------------------------------------------
(* Wait_ms and Wait_us. *)

EnterWait(ms) ==
  /\ pc = "Idle" /\ pc' = "First1"
  /\ reading' = "timeStart" /\ time_ms' = ms
  /\ sinceRead' = 0 /\ sinceCall' = 0 /\ startCarried' = FALSE /\ Progress
  /\ UNCHANGED <<SysTickCounter, order, reads, timeStart, carried>>

\* us_to_ms of Wait_us, used when there is no LAPIC timer.
UsToMs(us) == IF us % US_PER_MS = 0 THEN 1 ELSE us \div US_PER_MS

Wait_ms == \E ms \in Waits : EnterWait(ms)
Wait_us == \E us \in WaitsUs : EnterWait(UsToMs(us))

\* GetSysTime_ms(&timeStart) returns; the loop of Wait_ms begins.
GotStart ==
  /\ Returns /\ reading = "timeStart"
  /\ timeStart' = Result /\ reading' = "timeNow"
  /\ pc' = "First1" /\ sinceRead' = 0 /\ startCarried' = carried /\ Progress
  /\ UNCHANGED <<SysTickCounter, order, reads, time_ms, sinceCall, carried>>

\* Faults: the comparison without the unsigned subtraction, and off by one.
WaitOverCompared == Result >= timeStart + time_ms
WaitOverOffByOne == (Result - timeStart) % UINT64 >= time_ms - 1

\* The unsigned comparison that ends the loop of Wait_ms.
WaitOver == (Result - timeStart) % UINT64 >= time_ms

GotNow ==
  /\ Returns /\ reading = "timeNow"
  /\ IF WaitOver THEN pc' = "Idle" /\ sinceRead' = sinceRead
                 ELSE pc' = "First1" /\ sinceRead' = 0
  /\ Progress
  /\ UNCHANGED <<SysTickCounter, order, reads, reading, timeStart, time_ms, sinceCall, carried,
                 startCarried>>

-----------------------------------------------------------------------------
Init ==
  /\ SysTickCounter = 0
  /\ order \in LoadOrders
  /\ reads = [w \in {"first", "second"} |-> [lo |-> 0, hi |-> 0]]
  /\ pc = "Idle" /\ reading = "timeStart"
  /\ timeStart = 0 /\ time_ms = 0
  /\ ran = 0 /\ carried = FALSE /\ startCarried = FALSE
  /\ sinceRead = 0 /\ sinceCall = 0

ReaderStep == LoadFirst \/ LoadSecond \/ Retry \/ GotStart \/ GotNow
Next == SysTick \/ ReaderStep \/ Wait_ms \/ Wait_us
Spec == Init /\ [][Next]_vars

\* The PIT keeps ticking and the waiting processor keeps executing.
FairSpec == Spec /\ WF_vars(SysTick) /\ WF_vars(ReaderStep)

-----------------------------------------------------------------------------
(* Properties. *)

\* The counter had the returned value at some moment of the call: it is no
\* older than the call and never ahead of the counter.
Current == (SysTickCounter - Result) % UINT64 <= sinceRead

\* Whatever the order of the loads, only a carry between the two loads of
\* secondRead can make ReadTimeCounter return a value the counter never had.
TornOnlyByCarry == Returns /\ ~Current => carried /\ order = "hi"

\* Wait_ms(n) returns only after at least n ticks of the counter, also when the counter
\* carries or wraps meanwhile.  In a build that loads the high half first, as the kernel
\* is compiled, it may end early, and does so only if the low half carried between the
\* loads of the reading that ends the wait or of the one that began it: once in 2^32 ms.
WaitNotEarly ==
  Returns /\ reading = "timeNow" /\ WaitOver /\ sinceCall < time_ms =>
     order = "hi" /\ (carried \/ startCarried)

\* Wait_ms and Wait_us return, also when the counter wraps around meanwhile.
WaitTerminates == pc # "Idle" ~> pc = "Idle"

-----------------------------------------------------------------------------
(* The inductive invariant behind TornOnlyByCarry and WaitNotEarly. *)

Times == 0 .. UINT64 - 1
Ahead(v) == (v + 1) % UINT64
Lo(v) == Word(v, "lo")
Hi(v) == Word(v, "hi")

\* Ticks from one value of the counter to a later one.
Between(u, v) == (v - u) % UINT64

\* The start of the wait under way was read whole.
StartWhole == reading = "timeNow" /\ (order = "lo" \/ ~startCarried)

\* The counter had the value v since ReadTimeCounter was entered, and v is no further
\* from the start of the wait than the ticks since then.
Seen(v) ==
  /\ Between(v, SysTickCounter) <= sinceRead
  /\ StartWhole => Between(timeStart, v) <= sinceCall

\* Low half first: the reader makes a step between two ticks, so that at most one comes
\* between two loads, and a carry leaves the low half at zero.
LowFirst ==
  order = "lo" =>
     /\ pc = "Second1" => /\ ran > 0 => reads["first"].hi = Hi(SysTickCounter)
                          /\ reads["first"].hi = Hi(SysTickCounter) \/ Lo(SysTickCounter) = 0
     /\ pc = "Second2" =>
          \E c \in Times :
             /\ reads["second"].lo = Lo(c) /\ Seen(c)
             /\ reads["first"].hi = Hi(c) \/ Lo(c) = 0
             /\ SysTickCounter = c \/ (ran = 0 /\ SysTickCounter = Ahead(c))
     /\ pc = "Compare" /\ HighHalvesAgree => Result \in Times /\ Seen(Result)

\* High half first: it holds until the low half carries.
HighFirst ==
  order = "hi" /\ ~carried =>
     /\ pc = "Second2" => reads["second"].hi = Hi(SysTickCounter)
     /\ pc = "Compare" => Result \in Times /\ Seen(Result)

\* The start of the wait is a value the counter had since the call.
StartInv ==
  /\ reading = "timeStart" => sinceRead = sinceCall
  /\ StartWhole => Between(timeStart, SysTickCounter) <= sinceCall

IndInv == TypeOK /\ LowFirst /\ HighFirst /\ StartInv
=============================================================================

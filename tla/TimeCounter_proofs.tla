------------------------- MODULE TimeCounter_proofs -------------------------
(***************************************************************************)
(* Readings of the system time and waits on it, for halves of any width,   *)
(* either order of the loads and any distance between two ticks.           *)
(***************************************************************************)
EXTENDS TimeCounter, TLAPS

-----------------------------------------------------------------------------
(* Arithmetic of the counter and of its halves. *)

\* The successor and the difference of two numbers modulo n.
LEMMA Modular ==
  ASSUME NEW n \in Nat \ {0}, NEW x \in 0 .. n - 1, NEW y \in 0 .. n - 1
  PROVE  /\ (x + 1) % n = IF x = n - 1 THEN 0 ELSE x + 1
         /\ (x - y) % n = IF x >= y THEN x - y ELSE (x - y) + n
  OBVIOUS

\* Division with remainder.
LEMMA DivMod ==
  ASSUME NEW n \in Nat, NEW d \in Nat \ {0}
  PROVE  n \div d \in Nat /\ n % d \in 0 .. d - 1 /\ n = (n \div d) * d + (n % d)
  OBVIOUS

\* Two halves make one number.
LEMMA Unique ==
  ASSUME NEW d \in Nat \ {0}, NEW q \in Nat, NEW r \in 0 .. d - 1
  PROVE  (q * d + r) \div d = q /\ (q * d + r) % d = r
  <1>1. q * d + r \in Nat
    OBVIOUS
  <1>2. QED
    BY <1>1, DivMod

\* The counter has at least two values.
LEMMA Sizes == UINT32 \in Nat /\ UINT32 > 1 /\ HIGHS \in Nat /\ HIGHS > 0 /\ UINT64 \in Nat /\ UINT64 > 1
  <1>1. UINT32 \in Nat /\ UINT32 > 1 /\ HIGHS \in Nat /\ HIGHS > 0
    BY ConstantsAssumption
  <1>2. UINT32 * HIGHS \in Nat /\ UINT32 * HIGHS >= UINT32
    BY <1>1
  <1>3. QED
    BY <1>1, <1>2 DEF UINT64

\* A value of the counter is its two halves.
LEMMA Halves ==
  ASSUME NEW v \in Times
  PROVE  /\ Lo(v) \in 0 .. UINT32 - 1 /\ Hi(v) \in 0 .. HIGHS - 1
         /\ v = Hi(v) * UINT32 + Lo(v)
  <1>1. v \in Nat /\ v < UINT64 /\ UINT32 \in Nat \ {0}
    BY Sizes DEF Times
  <1> DEFINE q == v \div UINT32
             r == v % UINT32
  <1>2. Lo(v) = r /\ Hi(v) = q
    BY DEF Lo, Hi, Word
  <1>3. q \in Nat /\ r \in 0 .. UINT32 - 1 /\ v = q * UINT32 + r
    BY <1>1, DivMod
  <1> HIDE DEF q, r
  <1>4. q < HIGHS
    <2>1. SUFFICES ASSUME q >= HIGHS PROVE FALSE
      BY <1>3, Sizes
    <2>2. q * UINT32 >= HIGHS * UINT32
      BY <1>3, <2>1, Sizes
    <2>3. HIGHS * UINT32 = UINT64
      BY Sizes DEF UINT64
    <2>4. QED
      BY <1>1, <1>3, <2>2, <2>3, Sizes
  <1>5. QED
    BY <1>2, <1>3, <1>4, Sizes

\* A tick adds one to the low half, or leaves it at zero.
LEMMA HalfTick ==
  ASSUME NEW v \in Times
  PROVE  /\ Ahead(v) \in Times
         /\ Lo(Ahead(v)) = (v + 1) % UINT32
         /\ \/ Hi(Ahead(v)) = Hi(v)
            \/ Lo(v) = UINT32 - 1 /\ Lo(Ahead(v)) = 0
  <1> DEFINE q == Hi(v)
             r == Lo(v)
  <1>1. q \in 0 .. HIGHS - 1 /\ r \in 0 .. UINT32 - 1 /\ v = q * UINT32 + r
    BY Halves
  <1>2. v \in 0 .. UINT64 - 1 /\ Ahead(v) = IF v = UINT64 - 1 THEN 0 ELSE v + 1
    BY Sizes, Modular DEF Ahead, Times
  <1>3. Ahead(v) \in Times
    BY <1>2, Sizes DEF Times
  <1> DEFINE lo(n) == n % UINT32
             hi(n) == n \div UINT32
  <1>4. \A n : Lo(n) = lo(n) /\ Hi(n) = hi(n)
    BY DEF Lo, Hi, Word
  <1>5. lo(0) = 0
    <2>1. 0 * UINT32 + 0 = 0 /\ 0 \in Nat /\ 0 \in 0 .. UINT32 - 1 /\ UINT32 \in Nat \ {0}
      BY Sizes
    <2>2. (0 * UINT32 + 0) % UINT32 = 0
      BY <2>1, Unique
    <2>3. QED
      BY <2>1, <2>2
  <1>6. CASE r < UINT32 - 1
    <2>0. q \in Nat /\ r + 1 \in 0 .. UINT32 - 1 /\ UINT32 \in Nat \ {0}
      BY <1>1, <1>6, Sizes
    <2>1. hi(q * UINT32 + (r + 1)) = q /\ lo(q * UINT32 + (r + 1)) = r + 1
      BY <2>0, Unique
    <2> HIDE DEF q, r, lo, hi
    <2>2. v + 1 = q * UINT32 + (r + 1)
      BY <1>1, <2>0
    <2>3. q * UINT32 <= (HIGHS - 1) * UINT32
      BY <1>1, Sizes
    <2>4. (HIGHS - 1) * UINT32 = UINT64 - UINT32
      BY Sizes DEF UINT64
    <2>5. v # UINT64 - 1
      BY <1>1, <1>6, <2>3, <2>4, Sizes
    <2>6. Ahead(v) = v + 1 /\ hi(v + 1) = q /\ lo(v + 1) = r + 1
      BY <1>2, <2>1, <2>2, <2>5
    <2>7. Hi(Ahead(v)) = q /\ Lo(Ahead(v)) = lo(v + 1)
      BY <1>4, <2>6
    <2>8. QED
      BY <1>3, <2>7 DEF q, lo
  <1>7. CASE r = UINT32 - 1
    <2>0. q + 1 \in Nat /\ 0 \in 0 .. UINT32 - 1 /\ UINT32 \in Nat \ {0}
      BY <1>1, Sizes
    <2>1. lo((q + 1) * UINT32 + 0) = 0
      BY <2>0, Unique
    <2> HIDE DEF q, r, lo, hi
    <2>2. v + 1 = (q + 1) * UINT32 + 0
      BY <1>1, <1>7, <2>0, Sizes
    <2>3. lo(v + 1) = 0
      BY <2>1, <2>2
    <2>4. Lo(Ahead(v)) = 0
      BY <1>2, <1>4, <1>5, <2>3
    <2>5. QED
      BY <1>3, <1>7, <2>3, <2>4 DEF r, lo
  <1>8. QED
    BY <1>1, <1>6, <1>7, Sizes

\* The distance between two values of the counter grows by one at most with a tick.
LEMMA Distance ==
  ASSUME NEW u \in Times, NEW v \in Times
  PROVE  /\ Between(u, v) \in Times
         /\ Between(v, v) = 0
         /\ \A n \in Times : Between(u, v) <= n => Between(u, Ahead(v)) <= Saturate(n)
  <1>1. u \in 0 .. UINT64 - 1 /\ v \in 0 .. UINT64 - 1 /\ UINT64 \in Nat \ {0}
    BY Sizes DEF Times
  <1>2. Between(u, v) = IF v >= u THEN v - u ELSE (v - u) + UINT64
    BY <1>1, Modular DEF Between
  <1>3. Between(v, v) = 0
    <2>1. (v - v) % UINT64 = v - v
      BY <1>1, Modular
    <2>2. QED
      BY <1>1, <2>1 DEF Between
  <1> DEFINE w == Ahead(v)
  <1>4. w = IF v = UINT64 - 1 THEN 0 ELSE v + 1
    BY <1>1, Modular DEF Ahead
  <1>5. w \in 0 .. UINT64 - 1
    BY <1>1, <1>4
  <1> HIDE DEF w
  <1>6. Between(u, w) = IF w >= u THEN w - u ELSE (w - u) + UINT64
    BY <1>1, <1>5, Modular DEF Between
  <1>7. ASSUME NEW n \in Times, Between(u, v) <= n
        PROVE  Between(u, w) <= Saturate(n)
    <2>1. n \in 0 .. UINT64 - 1
      BY DEF Times
    <2>2. Saturate(n) = IF n < UINT64 - 1 THEN n + 1 ELSE n
      BY DEF Saturate
    <2>3. QED
      BY <1>1, <1>2, <1>4, <1>6, <1>7, <2>1, <2>2
  <1>8. QED
    BY <1>1, <1>2, <1>3, <1>7 DEF Times, w

-----------------------------------------------------------------------------
(* The steps. *)

\* The histories and the saved times are values of the counter.
LEMMA Typed ==
  ASSUME TypeOK
  PROVE  /\ SysTickCounter \in Times /\ timeStart \in Times
         /\ sinceRead \in Times /\ sinceCall \in Times
         /\ order \in {"lo", "hi"}
  BY ConstantsAssumption DEF TypeOK, Times

\* Counting ticks up to the last value keeps a number in the range.
LEMMA Saturates ==
  ASSUME NEW n \in Times
  PROVE  Saturate(n) \in Times /\ n <= Saturate(n)
  BY Sizes DEF Saturate, Times

\* The reader's step is counted.
LEMMA Progresses ==
  ASSUME TypeOK, Progress
  PROVE  ran' \in 0 .. TICK_GAP /\ ran' > 0
  BY ConstantsAssumption DEF TypeOK, Progress

\* What a load delivers is a half.
LEMMA WordType ==
  ASSUME NEW v \in Times
  PROVE  Word(v, "lo") \in 0 .. UINT32 - 1 /\ Word(v, "hi") \in 0 .. HIGHS - 1
  BY Halves DEF Lo, Hi

\* A load of one half changes that half alone.
LEMMA Loads ==
  ASSUME TypeOK, NEW which \in {"first", "second"}, NEW half \in {"lo", "hi"},
         NEW from \in Pcs, NEW to \in Pcs, Load(which, half, from, to), carried' \in BOOLEAN
  PROVE  /\ TypeOK'
         /\ half = "lo" => /\ reads'[which].lo = Lo(SysTickCounter)
                           /\ reads'[which].hi = reads[which].hi
         /\ half = "hi" => /\ reads'[which].hi = Hi(SysTickCounter)
                           /\ reads'[which].lo = reads[which].lo
         /\ \A w \in {"first", "second"} \ {which} : reads'[w] = reads[w]
  <1> DEFINE Pair == [lo : 0 .. UINT32 - 1, hi : 0 .. HIGHS - 1]
             x == Word(SysTickCounter, half)
  <1>1. half = "lo" => x = Lo(SysTickCounter) /\ x \in 0 .. UINT32 - 1
    BY Typed, WordType DEF Lo
  <1>2. half = "hi" => x = Hi(SysTickCounter) /\ x \in 0 .. HIGHS - 1
    BY Typed, WordType DEF Hi
  <1>3. reads \in [{"first", "second"} -> Pair]
    BY DEF TypeOK
  <1>4. reads' = [reads EXCEPT ![which][half] = x]
    BY DEF Load
  <1> HIDE DEF x
  <1>5. Progress /\ ran' \in 0 .. TICK_GAP
    BY Progresses DEF Load
  <1>6. ASSUME reads' \in [{"first", "second"} -> Pair]
        PROVE  TypeOK'
    BY <1>5, <1>6, Zenon DEF TypeOK, Load, UINT64
  <1>7. reads[which] \in Pair /\ reads' = [reads EXCEPT ![which] = [reads[which] EXCEPT ![half] = x]]
    BY <1>3, <1>4
  <1>8. CASE half = "lo"
    <2>1. \A r \in Pair : [r EXCEPT !.lo = x] = [lo |-> x, hi |-> r.hi]
      OBVIOUS
    <2>2. reads' = [reads EXCEPT ![which] = [lo |-> x, hi |-> reads[which].hi]]
      BY <1>8, <1>7, <2>1
    <2>3. reads' \in [{"first", "second"} -> Pair]
      BY <1>1, <1>3, <1>8, <2>2
    <2>4. TypeOK'
      BY <1>6, <2>3
    <2>5. QED
      BY <1>1, <1>3, <1>8, <2>2, <2>4
  <1>9. CASE half = "hi"
    <2>1. \A r \in Pair : [r EXCEPT !.hi = x] = [lo |-> r.lo, hi |-> x]
      OBVIOUS
    <2>2. reads' = [reads EXCEPT ![which] = [lo |-> reads[which].lo, hi |-> x]]
      BY <1>9, <1>7, <2>1
    <2>3. reads' \in [{"first", "second"} -> Pair]
      BY <1>2, <1>3, <1>9, <2>2
    <2>4. TypeOK'
      BY <1>6, <2>3
    <2>5. QED
      BY <1>2, <1>3, <1>9, <2>2, <2>4
  <1>10. QED
    BY <1>8, <1>9

\* A tick keeps a value the counter had within reach, and the distance of a saved one.
LEMMA SeenTicks ==
  ASSUME TypeOK, SysTick, NEW v \in Times
  PROVE  /\ Between(v, SysTickCounter) <= sinceRead => Between(v, SysTickCounter') <= sinceRead'
         /\ Between(v, SysTickCounter) <= sinceCall => Between(v, SysTickCounter') <= sinceCall'
         /\ Seen(v) => Seen(v)'
  <1>1. SysTickCounter' = Ahead(SysTickCounter)
        /\ sinceRead' = Saturate(sinceRead) /\ sinceCall' = Saturate(sinceCall)
        /\ UNCHANGED <<reading, timeStart, order, startCarried>>
    BY DEF SysTick, Ahead
  <1>2. Between(v, SysTickCounter) <= sinceRead => Between(v, SysTickCounter') <= sinceRead'
    BY <1>1, Typed, Distance
  <1>3. Between(v, SysTickCounter) <= sinceCall => Between(v, SysTickCounter') <= sinceCall'
    BY <1>1, Typed, Distance
  <1>4. Between(timeStart, v) \in Times /\ sinceCall <= sinceCall' /\ sinceCall' \in Times
    BY <1>1, Typed, Distance, Saturates
  <1>5. Between(timeStart, v) <= sinceCall => Between(timeStart, v) <= sinceCall'
    BY <1>4, Typed, Sizes DEF Times
  <1>6. Between(timeStart, v)' = Between(timeStart, v)
    BY <1>1 DEF Between
  <1>7. Between(v, SysTickCounter)' = Between(v, SysTickCounter')
    BY DEF Between
  <1>8. QED
    BY <1>1, <1>2, <1>3, <1>5, <1>6, <1>7 DEF Seen, StartWhole

\* Two halves make a value of the counter.
LEMMA ResultInTimes ==
  ASSUME TypeOK
  PROVE  Result \in Times
  <1>1. PICK h \in 0 .. HIGHS - 1, l \in 0 .. UINT32 - 1 : Result = h * UINT32 + l
    BY DEF TypeOK, Result, Value
  <1>2. h * UINT32 \in Nat /\ h * UINT32 <= (HIGHS - 1) * UINT32
    BY Sizes
  <1>3. (HIGHS - 1) * UINT32 = UINT64 - UINT32
    BY Sizes DEF UINT64
  <1>4. QED
    BY <1>1, <1>2, <1>3, Sizes DEF Times

\* A tick comes only after a step of the reader, and moves the counter by one.
LEMMA TickInv ==
  ASSUME IndInv, SysTick
  PROVE  IndInv'
  <1> USE DEF IndInv
  <1>1. /\ SysTickCounter' = Ahead(SysTickCounter) /\ SysTickCounter \in Times
        /\ sinceRead' = Saturate(sinceRead) /\ sinceCall' = Saturate(sinceCall)
        /\ UNCHANGED <<order, reads, pc, reading, timeStart, time_ms, startCarried>>
        /\ ran' = 0 /\ (pc # "Idle" => ran > 0 /\ ran # 0) /\ ~(ran' > 0)
    BY Typed, ConstantsAssumption DEF SysTick, Ahead, TypeOK
  <1>2. TypeOK'
    <2>1. SysTickCounter' \in 0 .. UINT64 - 1 /\ sinceRead' \in 0 .. UINT64 - 1 /\ sinceCall' \in 0 .. UINT64 - 1
      BY <1>1, Typed, HalfTick, Saturates DEF Times
    <2>2. carried' \in BOOLEAN /\ ran' = 0 /\ 0 \in 0 .. TICK_GAP
      BY ConstantsAssumption DEF SysTick, TypeOK
    <2>3. QED
      BY <1>1, <2>1, <2>2, Zenon DEF TypeOK, UINT64
  <1>3. LowFirst'
    <2>1. SUFFICES ASSUME order = "lo"
                   PROVE  LowFirst'
      BY <1>1 DEF LowFirst
    <2>2. CASE pc = "Second1"
      <3>1. reads["first"].hi = Hi(SysTickCounter)
        BY <1>1, <2>1, <2>2 DEF LowFirst
      <3>2. Hi(SysTickCounter') = Hi(SysTickCounter) \/ Lo(SysTickCounter') = 0
        BY <1>1, HalfTick
      <3>3. QED
        BY <1>1, <2>2, <3>1, <3>2 DEF LowFirst, Hi, Lo
    <2>3. CASE pc = "Second2"
      <3>1. PICK c \in Times :
               /\ reads["second"].lo = Lo(c) /\ Seen(c)
               /\ reads["first"].hi = Hi(c) \/ Lo(c) = 0
               /\ SysTickCounter = c
        BY <1>1, <2>1, <2>3 DEF LowFirst
      <3>2. Seen(c)'
        BY <3>1, SeenTicks
      <3>3. QED
        BY <1>1, <2>3, <3>1, <3>2 DEF LowFirst, Hi, Lo, Ahead, Seen, StartWhole, Between, Word
    <2>4. CASE pc = "Compare"
      <3>1. Result' = Result /\ HighHalvesAgree' = HighHalvesAgree
        BY <1>1 DEF Result, Value, HighHalvesAgree
      <3>2. HighHalvesAgree => Result \in Times /\ Seen(Result)
        BY <2>1, <2>4 DEF LowFirst
      <3>3. PICK v : v = Result
        OBVIOUS
      <3>4. HighHalvesAgree => v \in Times /\ Seen(v)'
        BY <3>2, <3>3, SeenTicks
      <3>5. HighHalvesAgree => Result' \in Times /\ Seen(Result)'
        BY <1>1, <3>1, <3>3, <3>4 DEF Seen, StartWhole, Between
      <3>6. QED
        BY <1>1, <2>4, <3>1, <3>5 DEF LowFirst
    <2>5. QED
      BY <1>1, <2>2, <2>3, <2>4 DEF LowFirst
  <1>4. HighFirst'
    <2>1. SUFFICES ASSUME order = "hi", ~carried'
                   PROVE  HighFirst'
      BY <1>1 DEF HighFirst
    <2>2. ~carried /\ (pc = "Second2" => (SysTickCounter + 1) % UINT32 # 0)
      BY <2>1 DEF SysTick
    <2>3. CASE pc = "Second2"
      <3>1. Hi(SysTickCounter') = Hi(SysTickCounter)
        BY <1>1, <2>2, <2>3, HalfTick
      <3>2. QED
        BY <1>1, <2>1, <2>2, <2>3, <3>1 DEF HighFirst, Hi
    <2>4. CASE pc = "Compare"
      <3>1. Result \in Times /\ Seen(Result) /\ Result' = Result
        BY <1>1, <2>1, <2>2, <2>4 DEF HighFirst, Result, Value
      <3>2. PICK v \in Times : v = Result
        BY <3>1
      <3>3. Seen(v)'
        BY <3>1, <3>2, SeenTicks
      <3>4. Result' \in Times /\ Seen(Result)'
        BY <1>1, <3>1, <3>2, <3>3 DEF Seen, StartWhole, Between
      <3>5. QED
        BY <1>1, <2>4, <3>4 DEF HighFirst
    <2>5. QED
      BY <1>1, <2>3, <2>4 DEF HighFirst
  <1>5. StartInv'
    <2>1. reading = "timeStart" => sinceRead' = sinceCall'
      BY <1>1 DEF StartInv
    <2>2. StartWhole => Between(timeStart, SysTickCounter') <= sinceCall'
      BY Typed, SeenTicks DEF StartInv
    <2>3. QED
      BY <1>1, <2>1, <2>2 DEF StartInv, StartWhole, Between
  <1>6. QED
    BY <1>2, <1>3, <1>4, <1>5

\* The loads of firstRead: low half first, the high half is that of the counter.
LEMMA LoadFirstInv ==
  ASSUME IndInv, LoadFirst
  PROVE  IndInv'
  <1> USE DEF IndInv
  <1>1. /\ UNCHANGED <<SysTickCounter, order, reading, timeStart, time_ms, sinceRead, sinceCall,
                       startCarried>>
        /\ carried' = carried /\ carried \in BOOLEAN
    BY DEF LoadFirst, Load, TypeOK
  <1>2. StartInv'
    BY <1>1 DEF StartInv, StartWhole, Between
  <1>3. CASE Load("first", order, "First1", "First2")
    <2>1. TypeOK' /\ pc' = "First2"
      BY <1>1, <1>3, Typed, Loads DEF Load, Pcs
    <2>2. QED
      BY <1>2, <2>1 DEF LowFirst, HighFirst
  <1>4. CASE Load("first", Other(order), "First2", "Second1")
    <2>1. Other(order) \in {"lo", "hi"} /\ (order = "lo" => Other(order) = "hi")
      BY Typed DEF Other
    <2>2. TypeOK' /\ pc' = "Second1"
      BY <1>1, <1>4, <2>1, Loads DEF Load, Pcs
    <2>3. order = "lo" => reads'["first"].hi = Hi(SysTickCounter)
      BY <1>1, <1>4, <2>1, Loads DEF Pcs
    <2>4. Hi(SysTickCounter)' = Hi(SysTickCounter)
      BY <1>1 DEF Hi, Word
    <2>5. QED
      BY <1>1, <1>2, <2>2, <2>3, <2>4 DEF LowFirst, HighFirst
  <1>5. QED
    BY <1>3, <1>4 DEF LoadFirst

\* The loads of secondRead: a tick between them that carries is seen in the high halves,
\* or it leaves the low half, loaded first, at its last value.
LEMMA LoadSecondInv ==
  ASSUME IndInv, LoadSecond
  PROVE  IndInv'
  <1> USE DEF IndInv
  <1>1. /\ UNCHANGED <<SysTickCounter, order, reading, timeStart, time_ms, sinceRead, sinceCall,
                       startCarried>>
        /\ carried' \in BOOLEAN
    BY DEF LoadSecond, Load, TypeOK
  <1>2. StartInv'
    BY <1>1 DEF StartInv, StartWhole, Between
  <1>3. /\ SysTickCounter \in Times /\ sinceRead \in Nat
        /\ Between(SysTickCounter, SysTickCounter) = 0
    BY Typed, Sizes, Distance DEF Times
  <1>4. \A v : Seen(v)' = Seen(v) /\ Between(v, SysTickCounter)' = Between(v, SysTickCounter)
               /\ Lo(v)' = Lo(v) /\ Hi(v)' = Hi(v)
    BY <1>1 DEF Seen, StartWhole, Between, Lo, Hi, Word
  <1>5. CASE Load("second", order, "Second1", "Second2") /\ carried' = FALSE
    <2>1. TypeOK' /\ pc' = "Second2" /\ pc = "Second1"
      BY <1>1, <1>5, Typed, Loads DEF Load, Pcs
    <2>2. reads'["first"] = reads["first"]
      BY <1>1, <1>5, Typed, Loads DEF Pcs
    <2>3. order = "lo" => reads'["second"].lo = Lo(SysTickCounter)
      BY <1>1, <1>5, Typed, Loads DEF Pcs
    <2>4. order = "hi" => reads'["second"].hi = Hi(SysTickCounter)
      BY <1>1, <1>5, Typed, Loads DEF Pcs
    <2>5. LowFirst'
      <3>1. SUFFICES ASSUME order = "lo"
                     PROVE  LowFirst'
        BY <1>1 DEF LowFirst
      <3>2. PICK c \in Times : c = SysTickCounter
        BY <1>3
      <3>3. Seen(c)
        BY <1>3, <3>1, <3>2 DEF Seen, StartInv
      <3>4. reads["first"].hi = Hi(c) \/ Lo(c) = 0
        BY <2>1, <3>1, <3>2 DEF LowFirst
      <3>5. /\ reads'["second"].lo = Lo(c)' /\ Seen(c)'
            /\ reads'["first"].hi = Hi(c)' \/ Lo(c)' = 0
            /\ SysTickCounter' = c
        BY <1>1, <1>4, <2>2, <2>3, <3>1, <3>2, <3>3, <3>4
      <3>6. QED
        BY <2>1, <3>2, <3>5 DEF LowFirst
    <2>6. HighFirst'
      BY <1>1, <2>1, <2>4 DEF HighFirst, Hi, Word
    <2>7. QED
      BY <1>2, <2>1, <2>5, <2>6
  <1>6. CASE Load("second", Other(order), "Second2", "Compare") /\ carried' = carried
    <2>1. Other(order) \in {"lo", "hi"} /\ (order = "lo" => Other(order) = "hi")
                                        /\ (order = "hi" => Other(order) = "lo")
      BY Typed DEF Other
    <2>2. TypeOK' /\ pc' = "Compare" /\ pc = "Second2"
      BY <1>1, <1>6, <2>1, Loads DEF Load, Pcs
    <2>3. reads'["first"] = reads["first"]
      BY <1>1, <1>6, <2>1, Loads DEF Pcs
    <2>4. order = "lo" => /\ reads'["second"].hi = Hi(SysTickCounter)
                          /\ reads'["second"].lo = reads["second"].lo
      BY <1>1, <1>6, <2>1, Loads DEF Pcs
    <2>5. order = "hi" => /\ reads'["second"].lo = Lo(SysTickCounter)
                          /\ reads'["second"].hi = reads["second"].hi
      BY <1>1, <1>6, <2>1, Loads DEF Pcs
    <2>6. Result' = reads'["second"].hi * UINT32 + reads'["second"].lo
      BY DEF Result, Value
    <2>7. LowFirst'
      <3>1. SUFFICES ASSUME order = "lo", HighHalvesAgree'
                     PROVE  Result' \in Times /\ Seen(Result)'
        BY <1>1, <2>2 DEF LowFirst
      <3>2. PICK c \in Times :
               /\ reads["second"].lo = Lo(c) /\ Seen(c)
               /\ reads["first"].hi = Hi(c) \/ Lo(c) = 0
               /\ SysTickCounter = c \/ SysTickCounter = Ahead(c)
        BY <2>2, <3>1 DEF LowFirst
      <3>3. reads["first"].hi = Hi(SysTickCounter)
        BY <2>3, <2>4, <3>1 DEF HighHalvesAgree
      <3>4. Hi(SysTickCounter) = Hi(c)
        <4>1. Hi(Ahead(c)) = Hi(c) \/ Lo(c) # 0
          BY HalfTick, Sizes
        <4>2. QED
          BY <3>2, <3>3, <4>1
      <3>5. c = Hi(c) * UINT32 + Lo(c)
        BY Halves
      <3>6. Result' = c
        BY <2>4, <2>6, <3>1, <3>2, <3>4, <3>5
      <3>7. Seen(c)'
        BY <1>4, <3>2
      <3>8. QED
        BY <3>6, <3>7 DEF Seen, StartWhole, Between
    <2>8. HighFirst'
      <3>1. SUFFICES ASSUME order = "hi", ~carried
                     PROVE  Result' \in Times /\ Seen(Result)'
        BY <1>1, <1>6, <2>2 DEF HighFirst
      <3>2. reads["second"].hi = Hi(SysTickCounter)
        BY <2>2, <3>1 DEF HighFirst
      <3>3. SysTickCounter = Hi(SysTickCounter) * UINT32 + Lo(SysTickCounter)
        BY <1>3, Halves
      <3>4. PICK c \in Times : c = SysTickCounter
        BY <1>3
      <3>5. Result' = c
        BY <2>5, <2>6, <3>1, <3>2, <3>3, <3>4
      <3>6. Seen(c)
        BY <1>3, <3>4 DEF Seen, StartInv
      <3>7. Seen(c)'
        BY <1>4, <3>6
      <3>8. QED
        BY <3>5, <3>7 DEF Seen, StartWhole, Between
    <2>9. QED
      BY <1>2, <2>2, <2>7, <2>8
  <1>7. QED
    BY <1>5, <1>6 DEF LoadSecond

\* A reading that starts, or ends the wait, asks nothing of the halves.
LEMMA OutsideInv ==
  ASSUME IndInv, Progress, UNCHANGED <<SysTickCounter, order, reads, carried>>,
         pc' \in {"First1", "Idle"}, reading' \in {"timeStart", "timeNow"},
         timeStart' \in Times, time_ms' \in Times,
         sinceRead' \in Times, sinceCall' \in Times, startCarried' \in BOOLEAN, StartInv'
  PROVE  IndInv'
  <1>1. pc' \in Pcs /\ ran' \in 0 .. TICK_GAP
    BY Progresses DEF Pcs, IndInv
  <1>2. TypeOK'
    BY <1>1, Zenon DEF IndInv, TypeOK, Times, UINT64
  <1>3. QED
    BY <1>2 DEF IndInv, LowFirst, HighFirst

\* The loop of ReadTimeCounter.
LEMMA RetryInv ==
  ASSUME IndInv, Retry
  PROVE  IndInv'
  <1>1. Progress /\ pc' = "First1" /\ UNCHANGED <<SysTickCounter, order, reads, carried>>
    BY DEF Retry, history
  <1>2. UNCHANGED <<reading, timeStart, time_ms, sinceRead, sinceCall, startCarried>>
    BY DEF Retry, history
  <1>3. StartInv'
    BY <1>1, <1>2 DEF IndInv, StartInv, StartWhole, Between
  <1>4. /\ reading' \in {"timeStart", "timeNow"} /\ timeStart' \in Times /\ time_ms' \in Times
        /\ sinceRead' \in Times /\ sinceCall' \in Times /\ startCarried' \in BOOLEAN
    BY <1>2 DEF IndInv, TypeOK, Times
  <1>5. QED
    BY <1>1, <1>3, <1>4, OutsideInv

\* The call: the wait counts its ticks from here.
LEMMA EnterWaitInv ==
  ASSUME IndInv, NEW ms \in Times, EnterWait(ms)
  PROVE  IndInv'
  <1>1. Progress /\ pc' = "First1" /\ UNCHANGED <<SysTickCounter, order, reads, carried>>
    BY DEF EnterWait
  <1>2. /\ reading' = "timeStart" /\ timeStart' = timeStart /\ time_ms' = ms
        /\ sinceRead' = 0 /\ sinceCall' = 0 /\ startCarried' = FALSE
    BY DEF EnterWait
  <1>3. StartInv'
    BY <1>2 DEF StartInv, StartWhole
  <1>4. timeStart' \in Times /\ 0 \in Times
    BY <1>2, Typed, Sizes DEF IndInv, Times
  <1>5. QED
    BY <1>1, <1>2, <1>3, <1>4, OutsideInv

\* Both waits ask for a time of the counter's range.
LEMMA WaitInv ==
  ASSUME IndInv, Wait_ms \/ Wait_us
  PROVE  IndInv'
  <1>1. US_PER_MS \in Nat \ {0} /\ Waits \subseteq Times /\ WaitsUs \subseteq Times
    BY ConstantsAssumption DEF Times, UINT64
  <1>2. CASE Wait_ms
    <2>1. PICK ms \in Waits : EnterWait(ms)
      BY <1>2 DEF Wait_ms
    <2>2. QED
      BY <1>1, <2>1, EnterWaitInv
  <1>3. CASE Wait_us
    <2>1. PICK us \in WaitsUs : EnterWait(UsToMs(us))
      BY <1>3 DEF Wait_us
    <2>2. us \in Nat /\ us \in 0 .. UINT64 - 1
      BY <1>1, Sizes DEF Times
    <2>3. us \div US_PER_MS \in 0 .. us
      <3> DEFINE q == us \div US_PER_MS
                 r == us % US_PER_MS
      <3>1. q \in Nat /\ r \in 0 .. US_PER_MS - 1 /\ us = q * US_PER_MS + r
        BY <1>1, <2>2, DivMod
      <3> HIDE DEF q, r
      <3>2. q * US_PER_MS >= q
        BY <1>1, <3>1
      <3>3. q \in 0 .. us
        BY <1>1, <2>2, <3>1, <3>2
      <3>4. QED
        BY <3>3 DEF q
    <2>4. UsToMs(us) \in Times
      BY <2>2, <2>3, Sizes DEF UsToMs, Times
    <2>5. QED
      BY <1>1, <2>1, <2>4, EnterWaitInv
  <1>4. QED
    BY <1>2, <1>3

\* The start of the wait is taken from the first reading.
LEMMA GotStartInv ==
  ASSUME IndInv, GotStart
  PROVE  IndInv'
  <1>1. Progress /\ pc' = "First1" /\ UNCHANGED <<SysTickCounter, order, reads, carried>>
    BY DEF GotStart
  <1>2. /\ reading' = "timeNow" /\ timeStart' = Result /\ sinceRead' = 0
        /\ startCarried' = carried /\ carried \in BOOLEAN /\ order \in {"lo", "hi"}
        /\ UNCHANGED <<time_ms, sinceCall>>
    BY Typed DEF GotStart, IndInv, TypeOK
  <1>3. order = "lo" \/ ~carried => Result \in Times /\ Between(Result, SysTickCounter) <= sinceCall
    BY <1>2 DEF GotStart, Returns, IndInv, LowFirst, HighFirst, StartInv, Seen
  <1>4. StartInv'
    BY <1>1, <1>2, <1>3 DEF StartInv, StartWhole, IndInv, Between
  <1>5. Result \in Times
    BY ResultInTimes DEF IndInv
  <1>6. time_ms' \in Times /\ sinceCall' \in Times /\ 0 \in Times
    BY <1>2, Sizes DEF IndInv, TypeOK, Times
  <1>7. QED
    BY <1>1, <1>2, <1>4, <1>5, <1>6, OutsideInv

\* A later reading ends the wait or is followed by another.
LEMMA GotNowInv ==
  ASSUME IndInv, GotNow
  PROVE  IndInv'
  <1>1. Progress /\ pc' \in {"First1", "Idle"} /\ UNCHANGED <<SysTickCounter, order, reads, carried>>
    BY DEF GotNow
  <1>2. /\ reading' = "timeNow" /\ reading = "timeNow" /\ (sinceRead' = sinceRead \/ sinceRead' = 0)
        /\ UNCHANGED <<timeStart, time_ms, sinceCall, startCarried>>
    BY DEF GotNow
  <1>3. StartInv'
    BY <1>1, <1>2 DEF StartInv, StartWhole, IndInv, Between
  <1>4. /\ timeStart' \in Times /\ time_ms' \in Times /\ sinceRead' \in Times
        /\ sinceCall' \in Times /\ startCarried' \in BOOLEAN
    BY <1>2, Sizes DEF IndInv, TypeOK, Times
  <1>5. QED
    BY <1>1, <1>2, <1>3, <1>4, OutsideInv

-----------------------------------------------------------------------------
(* The theorems. *)

\* Idle, with every history at zero, the invariant holds.
LEMMA InitInv ==
  ASSUME Init
  PROVE  IndInv
  <1>1. 0 \in 0 .. UINT64 - 1 /\ 0 \in 0 .. UINT32 - 1 /\ 0 \in 0 .. HIGHS - 1 /\ 0 \in 0 .. TICK_GAP
    BY Sizes, ConstantsAssumption
  <1>2. TypeOK
    BY <1>1, Zenon DEF Init, TypeOK, Pcs
  <1>3. QED
    BY <1>2 DEF Init, IndInv, LowFirst, HighFirst, StartInv, StartWhole

\* The inductive invariant holds throughout.
LEMMA AlwaysIndInv == Spec => []IndInv
  <1>1. ASSUME IndInv, [Next]_vars
        PROVE  IndInv'
    <2>1. CASE SysTick
      BY <1>1, <2>1, TickInv
    <2>2. CASE LoadFirst
      BY <1>1, <2>2, LoadFirstInv
    <2>3. CASE LoadSecond
      BY <1>1, <2>3, LoadSecondInv
    <2>4. CASE Retry
      BY <1>1, <2>4, RetryInv
    <2>5. CASE GotStart
      BY <1>1, <2>5, GotStartInv
    <2>6. CASE GotNow
      BY <1>1, <2>6, GotNowInv
    <2>7. CASE Wait_ms \/ Wait_us
      BY <1>1, <2>7, WaitInv
    <2>8. CASE UNCHANGED vars
      BY <1>1, <2>8 DEF vars, history, IndInv, TypeOK, LowFirst, HighFirst, StartInv, StartWhole,
                        Seen, Between, Result, HighHalvesAgree
    <2>9. QED
      BY <1>1, <2>1, <2>2, <2>3, <2>4, <2>5, <2>6, <2>7, <2>8 DEF Next, ReaderStep
  <1>2. QED
    BY <1>1, InitInv, PTL DEF Spec

\* Everything the reader and the waits keep stays in its type: TypeOK.
THEOREM TypeCorrect == Spec => []TypeOK
  <1>1. IndInv => TypeOK
    BY DEF IndInv
  <1>2. QED
    BY <1>1, AlwaysIndInv, PTL

\* ReadTimeCounter returns a value the counter had during the call, unless the build
\* loads the high half first and the low half carries between the loads: TornOnlyByCarry.
THEOREM ReadingsAreCurrent == Spec => []TornOnlyByCarry
  <1>1. IndInv => TornOnlyByCarry
    <2>1. SUFFICES ASSUME IndInv, Returns, ~Current
                   PROVE  carried /\ order = "hi"
      BY DEF TornOnlyByCarry
    <2>2. order \in {"lo", "hi"} /\ carried \in BOOLEAN
      BY <2>1, Typed DEF IndInv, TypeOK
    <2>3. ~(Between(Result, SysTickCounter) <= sinceRead)
      BY <2>1 DEF Current, Between
    <2>4. order # "lo"
      BY <2>1, <2>3 DEF IndInv, LowFirst, Returns, Seen
    <2>5. carried
      BY <2>1, <2>2, <2>3, <2>4 DEF IndInv, HighFirst, Returns, Seen
    <2>6. QED
      BY <2>2, <2>4, <2>5
  <1>2. QED
    BY <1>1, AlwaysIndInv, PTL

\* No wait is over before its ticks have come, whatever the counter does meanwhile and
\* whichever half is loaded first, unless the high half is and the low half carried inside
\* the reading that ended the wait or the one that began it: WaitNotEarly.
THEOREM NoWaitIsShort == Spec => []WaitNotEarly
  <1>1. IndInv => WaitNotEarly
    <2>1. SUFFICES ASSUME IndInv, Returns, reading = "timeNow", WaitOver, sinceCall < time_ms,
                          ~(order = "hi" /\ (carried \/ startCarried))
                   PROVE  FALSE
      BY DEF WaitNotEarly
    <2>2. order \in {"lo", "hi"} /\ carried \in BOOLEAN /\ startCarried \in BOOLEAN
      BY <2>1, Typed DEF IndInv, TypeOK
    <2>3. StartWhole /\ Result \in Times /\ Seen(Result)
      BY <2>1, <2>2 DEF IndInv, LowFirst, HighFirst, Returns, StartWhole
    <2>4. Between(timeStart, Result) <= sinceCall
      BY <2>3 DEF Seen
    <2>5. Between(timeStart, Result) >= time_ms
      BY <2>1 DEF WaitOver, Between
    <2>6. timeStart \in Times /\ sinceCall \in Nat /\ time_ms \in Nat
      BY <2>1, Sizes DEF IndInv, TypeOK, Times
    <2>7. Between(timeStart, Result) \in Nat
      BY <2>3, <2>6, Distance, Sizes DEF Times
    <2>8. QED
      BY <2>1, <2>4, <2>5, <2>6, <2>7
  <1>2. QED
    BY <1>1, AlwaysIndInv, PTL
=============================================================================

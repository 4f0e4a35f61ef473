--------------------------- MODULE Spinlock_proofs ---------------------------
(***************************************************************************)
(* Mutual exclusion and the visibility of protected data for the spinlock, *)
(* for any number of cores and store buffers of any depth.                 *)
(***************************************************************************)
EXTENDS Spinlock, TLAPS

\* The sequence facts the store buffers need.
LEMMA AppendFacts ==
  ASSUME NEW S, NEW s \in Seq(S), NEW e \in S
  PROVE  /\ Append(s, e) \in Seq(S)
         /\ Len(Append(s, e)) = Len(s) + 1
         /\ \A k \in 1 .. Len(s) : Append(s, e)[k] = s[k]
         /\ Append(s, e)[Len(s) + 1] = e
  OBVIOUS

\* What dropping the oldest store leaves.
LEMMA TailFacts ==
  ASSUME NEW S, NEW s \in Seq(S), s # <<>>
  PROVE  /\ Tail(s) \in Seq(S)
         /\ Len(s) \in Nat /\ Len(s) >= 1 /\ Len(Tail(s)) = Len(s) - 1
         /\ \A k \in 1 .. Len(s) - 1 : Tail(s)[k] = s[k + 1]
         /\ Head(s) = s[1] /\ Head(s) \in S
  OBVIOUS

\* A buffer of length zero is the empty one.
LEMMA EmptySeq == ASSUME NEW S, NEW s \in Seq(S), Len(s) = 0 PROVE s = <<>>
  OBVIOUS

\* The value of Latest is what a load returns.
LEMMA ReadLatest ==
  ASSUME TypeOK, NEW c \in Cores, NEW a \in Addrs, NEW v, Latest(c, a, v)
  PROVE  Read(c, a) = v
  <1>1. CASE Pending(c, a) = {}
    BY <1>1 DEF Latest, Read
  <1>2. CASE Pending(c, a) # {}
    <2>1. PICK k \in Pending(c, a) : (\A j \in Pending(c, a) : j <= k) /\ buf[c][k].val = v
      BY <1>2 DEF Latest
    <2> DEFINE m == CHOOSE i \in Pending(c, a) : \A j \in Pending(c, a) : j <= i
    <2>2. m \in Pending(c, a) /\ \A j \in Pending(c, a) : j <= m
      BY <2>1
    <2>3. k \in Nat /\ m \in Nat
      BY <2>1, <2>2 DEF Pending, TypeOK
    <2>4. m = k
      BY <2>1, <2>2, <2>3
    <2>5. QED
      BY <1>2, <2>1, <2>4 DEF Read
  <1>3. QED
    BY <1>1, <1>2

\* A core with nothing pending reads memory, and is busy only if it holds.
LEMMA EmptyBuffer ==
  ASSUME NEW c \in Cores, buf[c] = <<>>, NEW a \in Addrs
  PROVE  Pending(c, a) = {} /\ (Busy(c) <=> Holds(c))
  <1>1. Len(buf[c]) = 0
    OBVIOUS
  <1>2. Pending(c, a) = {} /\ Pending(c, "lock") = {}
    BY <1>1 DEF Pending
  <1>3. QED
    BY <1>2 DEF Busy

\* The initial states satisfy the inductive invariant.
LEMMA InitIndInv == Init => IndInv
  <1> SUFFICES ASSUME Init PROVE IndInv
    OBVIOUS
  <1>1. 0 \in Values
    BY SpinlockAssumption DEF Values
  <1>2. TypeOK
    BY <1>1 DEF Init, TypeOK
  <1>3. \A c \in Cores : buf[c] = <<>> /\ pc[c] = "Out" /\ ~Holds(c)
    BY DEF Init, Holds, Holding
  <1>4. \A c \in Cores : ~Busy(c)
    BY <1>3, EmptyBuffer DEF Addrs
  <1>5. QED
    <2>1. \A c \in Cores : ReleaseIsLast(c)
      BY <1>3, EmptyBuffer DEF ReleaseIsLast, Pending, Addrs
    <2>2. QED
      BY <1>2, <1>3, <1>4, <2>1 DEF Init, IndInv, NoLostUpdate, Addrs

\* A core other than the busy one has nothing pending and holds nothing.
LEMMA OthersIdle ==
  ASSUME IndInv, NEW c \in Cores, Busy(c), NEW d \in Cores, d # c
  PROVE  ~Busy(d) /\ ~Holds(d) /\ buf[d] = <<>>
  BY DEF IndInv, Busy

\* A step that leaves memory, buffers and holders alone keeps the invariant.
LEMMA QuietStep ==
  ASSUME IndInv, TypeOK', NoLostUpdate', UNCHANGED <<mem, buf, done>>,
         \A d \in Cores : Holds(d)' <=> Holds(d)
  PROVE  IndInv'
  <1>1. \A d \in Cores, a \in Addrs : Pending(d, a)' = Pending(d, a)
    BY DEF Pending
  <1>2. \A d \in Cores : Busy(d)' <=> Busy(d)
    BY <1>1 DEF Busy, Addrs
  <1>3. \A d \in Cores : ReleaseIsLast(d)'
    BY DEF IndInv, ReleaseIsLast
  <1>4. \A d \in Cores : Busy(d)' => Latest(d, "data", done)'
    BY <1>1, <1>2 DEF IndInv, Latest, Addrs
  <1>5. QED
    BY <1>2, <1>3, <1>4 DEF IndInv

\* Asking for the lock, and leaving the pause loop.
LEMMA EnterIndInv == ASSUME IndInv, NEW c \in Cores, Enter(c) \/ Spin(c) PROVE IndInv'
  <1>1. TypeOK'
    BY DEF IndInv, TypeOK, Enter, Spin, Goto, Waiting, Holding
  <1>2. \A d \in Cores : Holds(d)' <=> Holds(d)
    BY DEF IndInv, TypeOK, Enter, Spin, Goto, Holds, Holding
  <1>3. NoLostUpdate'
    BY DEF IndInv, TypeOK, Enter, Spin, Goto, NoLostUpdate
  <1>4. QED
    BY <1>1, <1>2, <1>3, QuietStep DEF Enter, Spin

\* The load of the critical section delivers the latest value of the data.
LEMMA DataLoadIndInv == ASSUME IndInv, NEW c \in Cores, DataLoad(c) PROVE IndInv'
  <1> USE DEF DataLoad, Goto
  <1>1. Holds(c) /\ Busy(c) /\ TypeOK
    BY DEF Holds, Holding, Busy, IndInv
  <1>2. Read(c, "data") = done
    BY <1>1, ReadLatest DEF IndInv, Addrs
  <1>3. reg' = [reg EXCEPT ![c] = done] /\ pc' = [pc EXCEPT ![c] = "Store"]
    BY <1>2
  <1>4. TypeOK'
    BY <1>1, <1>3 DEF TypeOK, Waiting, Holding
  <1>5. \A d \in Cores : Holds(d)' <=> Holds(d)
    BY <1>1 DEF TypeOK, Holds, Holding
  <1>6. \A d \in Cores : d # c => pc[d] # "Store"
    BY <1>1, OthersIdle DEF Holds, Holding
  <1>7. NoLostUpdate'
    BY <1>1, <1>3, <1>6 DEF TypeOK, NoLostUpdate
  <1>8. QED
    BY <1>4, <1>5, <1>7, QuietStep

\* The load of the release sees the set bit in memory.
LEMMA ReleaseLoadIndInv == ASSUME IndInv, NEW c \in Cores, ReleaseLoad(c) PROVE IndInv'
  <1> USE DEF ReleaseLoad, Goto
  <1>1. Holds(c) /\ TypeOK /\ ReleaseIsLast(c)
    BY DEF Holds, Holding, IndInv
  <1>2. Pending(c, "lock") = {}
    BY <1>1 DEF ReleaseIsLast, Pending
  <1>3. Read(c, "lock") \in Values
    BY <1>1, <1>2 DEF Read, TypeOK, Addrs
  <1>4. TypeOK'
    BY <1>1, <1>3 DEF TypeOK, Waiting, Holding
  <1>5. \A d \in Cores : Holds(d)' <=> Holds(d)
    BY <1>1 DEF TypeOK, Holds, Holding
  <1>6. NoLostUpdate'
    BY <1>1 DEF IndInv, TypeOK, NoLostUpdate
  <1>7. QED
    BY <1>4, <1>5, <1>6, QuietStep

\* The locked bit-test-and-set.
LEMMA AcquireIndInv == ASSUME IndInv, NEW c \in Cores, Acquire(c) PROVE IndInv'
  <1> USE DEF Acquire, BitTestAndSet
  <1>1. TypeOK
    BY DEF IndInv
  <1>2. 1 \in Values
    BY SpinlockAssumption DEF Values
  <1>3. TypeOK'
    BY <1>1, <1>2 DEF TypeOK, Goto, Waiting, Holding, Addrs
  <1>4. CASE mem["lock"] = 1
    <2>1. pc[c] = "Bts" /\ pc' = [pc EXCEPT ![c] = "Spin"]
      BY <1>4 DEF Goto
    <2>2. mem' = mem
      BY <1>1, <1>4 DEF TypeOK
    <2>3. \A d \in Cores : Holds(d)' <=> Holds(d)
      BY <1>1, <2>1 DEF TypeOK, Holds, Holding
    <2>4. NoLostUpdate'
      BY <1>1, <2>1 DEF IndInv, TypeOK, NoLostUpdate
    <2>5. QED
      BY <1>3, <2>2, <2>3, <2>4, QuietStep
  <1>5. CASE mem["lock"] # 1
    <2>1. pc[c] = "Bts" /\ pc' = [pc EXCEPT ![c] = "Load"] /\ UNCHANGED <<buf, reg, done>>
      BY <1>5 DEF Goto
    <2>2. \A d \in Cores : ~Busy(d) /\ ~Holds(d) /\ buf[d] = <<>>
      BY <1>5 DEF IndInv, Busy
    <2>3. \A d \in Cores : Pending(d, "lock")' = {} /\ Pending(d, "data")' = {}
      BY <2>1, <2>2, EmptyBuffer DEF Addrs, Pending
    <2>4. \A d \in Cores : Holds(d)' <=> d = c
      BY <1>1, <2>1, <2>2 DEF TypeOK, Holds, Holding
    <2>5. \A d \in Cores : Busy(d)' <=> d = c
      BY <2>3, <2>4 DEF Busy
    <2>6. mem'["lock"] = 1 /\ mem'["data"] = done
      BY <1>1, <2>2 DEF TypeOK, IndInv, Addrs
    <2>7. Latest(c, "data", done)'
      BY <2>1, <2>3, <2>6 DEF Latest
    <2>8. \A d \in Cores : ReleaseIsLast(d)'
      BY <2>3 DEF ReleaseIsLast, Pending
    <2>9. NoLostUpdate'
      BY <1>1, <2>1, <2>2 DEF NoLostUpdate, TypeOK, Holds, Holding
    <2>10. QED
      BY <1>3, <2>1, <2>2, <2>5, <2>6, <2>7, <2>8, <2>9 DEF IndInv
  <1>6. QED
    BY <1>4, <1>5

\* What pushing a store does to the pushing core's pending stores.
LEMMA PushEffect ==
  ASSUME TypeOK, NEW c \in Cores, NEW a \in Addrs, NEW v \in Values, Push(c, a, v)
  PROVE  /\ buf' \in [Cores -> Seq(Stores)] /\ mem' = mem
         /\ \A d \in Cores : d # c => buf'[d] = buf[d]
         /\ Len(buf[c]) \in Nat /\ Len(buf'[c]) = Len(buf[c]) + 1 /\ buf'[c] # <<>>
         /\ \A k \in 1 .. Len(buf[c]) : buf'[c][k] = buf[c][k]
         /\ buf'[c][Len(buf[c]) + 1] = [addr |-> a, val |-> v]
  <1>1. [addr |-> a, val |-> v] \in Stores /\ buf[c] \in Seq(Stores)
    BY DEF Stores, TypeOK
  <1>2. buf' = [buf EXCEPT ![c] = Append(buf[c], [addr |-> a, val |-> v])]
    BY DEF Push
  <1>3. buf'[c] = Append(buf[c], [addr |-> a, val |-> v])
    BY <1>2 DEF TypeOK
  <1>4. /\ Len(buf'[c]) = Len(buf[c]) + 1 /\ buf'[c] \in Seq(Stores)
        /\ \A k \in 1 .. Len(buf[c]) : buf'[c][k] = buf[c][k]
        /\ buf'[c][Len(buf[c]) + 1] = [addr |-> a, val |-> v]
    BY <1>1, <1>3, AppendFacts
  <1>5. Len(buf[c]) \in Nat /\ buf'[c] # <<>>
    BY <1>1, <1>4
  <1>6. buf' \in [Cores -> Seq(Stores)] /\ \A d \in Cores : d # c => buf'[d] = buf[d]
    BY <1>2, <1>3, <1>4 DEF TypeOK
  <1>7. QED
    BY <1>4, <1>5, <1>6 DEF Push

\* The store of the critical section.
LEMMA DataStoreIndInv == ASSUME IndInv, NEW c \in Cores, DataStore(c) PROVE IndInv'
  <1> USE DEF DataStore, Goto
  <1>1. Holds(c) /\ Busy(c) /\ TypeOK /\ reg[c] = done /\ ReleaseIsLast(c)
    BY DEF Holds, Holding, Busy, IndInv, NoLostUpdate
  <1>2. done' \in Values /\ done' = (reg[c] + 1) % DATA_VALUES
    <2>1. done + 1 \in Int
      BY <1>1, SpinlockAssumption DEF TypeOK, Values
    <2>2. (done + 1) % DATA_VALUES \in 0 .. DATA_VALUES - 1
      BY <2>1, SpinlockAssumption
    <2>3. QED
      BY <1>1, <2>2, SpinlockAssumption DEF Values
  <1>3. Push(c, "data", done')
    BY <1>2
  <1>4. /\ buf' \in [Cores -> Seq(Stores)] /\ mem' = mem
        /\ \A d \in Cores : d # c => buf'[d] = buf[d]
        /\ Len(buf[c]) \in Nat /\ Len(buf'[c]) = Len(buf[c]) + 1 /\ buf'[c] # <<>>
        /\ \A k \in 1 .. Len(buf[c]) : buf'[c][k] = buf[c][k]
        /\ buf'[c][Len(buf[c]) + 1] = [addr |-> "data", val |-> done']
    BY <1>1, <1>2, <1>3, PushEffect DEF Addrs
  <1>5. TypeOK'
    BY <1>1, <1>2, <1>4 DEF TypeOK, Waiting, Holding
  <1>6. \A d \in Cores : Holds(d)' <=> Holds(d)
    BY <1>1 DEF TypeOK, Holds, Holding
  <1>7. \A d \in Cores : d # c => ~Busy(d) /\ ~Holds(d) /\ buf[d] = <<>>
    BY <1>1, OthersIdle
  <1>8. \A d \in Cores : d # c => ~Busy(d)'
    BY <1>4, <1>6, <1>7 DEF Busy, Pending
  <1>9. \A d \in Cores : ReleaseIsLast(d)'
    <2>1. ReleaseIsLast(c)'
      <3> SUFFICES ASSUME NEW k \in 1 .. Len(buf'[c]), buf'[c][k].addr = "lock"
                   PROVE  FALSE
        BY DEF ReleaseIsLast
      <3>1. CASE k = Len(buf[c]) + 1
        BY <1>4, <3>1
      <3>2. CASE k # Len(buf[c]) + 1
        <4>1. k \in 1 .. Len(buf[c]) /\ buf[c][k].addr = "lock"
          BY <1>4, <3>2
        <4>2. QED
          BY <1>1, <4>1 DEF ReleaseIsLast
      <3>3. QED
        BY <3>1, <3>2
    <2>2. \A d \in Cores : d # c => ReleaseIsLast(d)'
      BY <1>4, <1>6 DEF ReleaseIsLast, IndInv
    <2>3. QED
      BY <2>1, <2>2
  <1>10. Latest(c, "data", done)'
    BY <1>4 DEF Latest, Pending
  <1>11. Busy(c)'
    BY <1>1, <1>6 DEF Busy
  <1>12. NoLostUpdate'
    BY <1>1, <1>7 DEF NoLostUpdate, TypeOK, Holds, Holding
  <1>13. mem'["lock"] = 1
    BY <1>1, <1>4 DEF IndInv
  <1>14. QED
    <2>1. \A d \in Cores : buf'[d] # <<>> => Busy(d)'
      BY <1>4, <1>7, <1>11
    <2>2. \A d \in Cores : Busy(d)' => d = c
      BY <1>8
    <2>3. QED
      BY <1>5, <1>9, <1>10, <1>11, <1>12, <1>13, <2>1, <2>2 DEF IndInv

\* The store of the release: the core stays busy until it reaches memory.
LEMMA ReleaseStoreIndInv == ASSUME IndInv, NEW c \in Cores, ReleaseStore(c) PROVE IndInv'
  <1> USE DEF ReleaseStore, Goto, Cleared
  <1>1. Holds(c) /\ Busy(c) /\ TypeOK /\ ReleaseIsLast(c) /\ Latest(c, "data", done)
    BY DEF Holds, Holding, Busy, IndInv
  <1>2. 0 \in Values /\ Push(c, "lock", 0)
    BY SpinlockAssumption DEF Values
  <1>3. /\ buf' \in [Cores -> Seq(Stores)] /\ mem' = mem
        /\ \A d \in Cores : d # c => buf'[d] = buf[d]
        /\ Len(buf[c]) \in Nat /\ Len(buf'[c]) = Len(buf[c]) + 1 /\ buf'[c] # <<>>
        /\ \A k \in 1 .. Len(buf[c]) : buf'[c][k] = buf[c][k]
        /\ buf'[c][Len(buf[c]) + 1] = [addr |-> "lock", val |-> 0]
    BY <1>1, <1>2, PushEffect DEF Addrs
  <1>4. TypeOK'
    BY <1>1, <1>3 DEF TypeOK, Waiting, Holding
  <1>5. \A d \in Cores : d # c => ~Busy(d) /\ ~Holds(d) /\ buf[d] = <<>>
    BY <1>1, OthersIdle
  <1>6. \A d \in Cores : ~Holds(d)'
    BY <1>1, <1>5 DEF TypeOK, Holds, Holding
  <1>7. \A d \in Cores : d # c => ~Busy(d)'
    BY <1>3, <1>5, <1>6 DEF Busy, Pending
  <1>8. Busy(c)'
    BY <1>3 DEF Busy, Pending
  <1>9. \A d \in Cores : ReleaseIsLast(d)'
    <2>1. ReleaseIsLast(c)'
      <3> SUFFICES ASSUME NEW k \in 1 .. Len(buf'[c]), buf'[c][k].addr = "lock"
                   PROVE  buf'[c][k].val = 0 /\ k = Len(buf'[c])
        BY <1>6 DEF ReleaseIsLast
      <3>1. CASE k = Len(buf[c]) + 1
        BY <1>3, <3>1
      <3>2. CASE k # Len(buf[c]) + 1
        <4>1. k \in 1 .. Len(buf[c]) /\ buf[c][k].addr = "lock"
          BY <1>3, <3>2
        <4>2. QED
          BY <1>1, <4>1 DEF ReleaseIsLast
      <3>3. QED
        BY <3>1, <3>2
    <2>2. \A d \in Cores : d # c => ReleaseIsLast(d)'
      BY <1>3, <1>6 DEF ReleaseIsLast, IndInv
    <2>3. QED
      BY <2>1, <2>2
  <1>10. Latest(c, "data", done)'
    <2>1. Pending(c, "data")' = Pending(c, "data")
      BY <1>3 DEF Pending
    <2>2. QED
      BY <1>1, <1>3, <2>1 DEF Latest, Pending
  <1>11. NoLostUpdate'
    BY <1>6 DEF NoLostUpdate, Holds, Holding
  <1>12. mem'["lock"] = 1
    BY <1>1, <1>3 DEF IndInv
  <1>13. QED
    BY <1>3, <1>4, <1>5, <1>7, <1>8, <1>9, <1>10, <1>11, <1>12 DEF IndInv

\* A store reaches memory: data of the busy core, or its release.
LEMMA DrainIndInv == ASSUME IndInv, NEW c \in Cores, Drain(c) PROVE IndInv'
  <1>1. TypeOK /\ Busy(c) /\ ReleaseIsLast(c) /\ Latest(c, "data", done) /\ buf[c] # <<>>
    BY DEF IndInv, Drain
  <1> DEFINE n == Len(buf[c])
  <1>2. /\ Tail(buf[c]) \in Seq(Stores)
        /\ n \in Nat /\ n >= 1 /\ Len(Tail(buf[c])) = n - 1
        /\ \A k \in 1 .. n - 1 : Tail(buf[c])[k] = buf[c][k + 1]
        /\ Head(buf[c]) = buf[c][1] /\ Head(buf[c]) \in Stores
    BY <1>1, TailFacts DEF TypeOK
  <1>3. /\ buf'[c] = Tail(buf[c]) /\ \A d \in Cores : d # c => buf'[d] = buf[d]
        /\ buf' \in [Cores -> Seq(Stores)]
        /\ UNCHANGED <<pc, reg, done>>
    BY <1>1, <1>2 DEF Drain, TypeOK
  <1>4. /\ mem' \in [Addrs -> Values]
        /\ mem'[buf[c][1].addr] = buf[c][1].val
        /\ \A a \in Addrs : a # buf[c][1].addr => mem'[a] = mem[a]
    BY <1>1, <1>2 DEF Drain, TypeOK, Stores
  <1>5. TypeOK'
    BY <1>1, <1>3, <1>4 DEF TypeOK
  <1>6. \A d \in Cores : Holds(d)' <=> Holds(d)
    BY <1>3 DEF Holds
  <1>7. \A d \in Cores : d # c => ~Busy(d) /\ ~Holds(d) /\ buf[d] = <<>>
    BY <1>1, OthersIdle
  <1>8. \A d \in Cores : d # c => ~Busy(d)' /\ ReleaseIsLast(d)'
    BY <1>3, <1>6, <1>7 DEF Busy, Pending, ReleaseIsLast, IndInv
  <1>9. NoLostUpdate'
    BY <1>3 DEF IndInv, NoLostUpdate
  <1>10. /\ Len(buf'[c]) = n - 1
         /\ \A k \in 1 .. n - 1 : buf'[c][k] = buf[c][k + 1]
    BY <1>2, <1>3
  <1>11. ReleaseIsLast(c)'
    <2> SUFFICES ASSUME NEW k \in 1 .. Len(buf'[c]), buf'[c][k].addr = "lock"
                 PROVE  buf'[c][k].val = 0 /\ k = Len(buf'[c]) /\ ~Holds(c)
      BY <1>6 DEF ReleaseIsLast
    <2>1. k + 1 \in 1 .. n /\ buf[c][k + 1].addr = "lock" /\ buf'[c][k] = buf[c][k + 1]
      BY <1>2, <1>10
    <2>2. QED
      BY <1>1, <1>2, <1>10, <2>1 DEF ReleaseIsLast
  <1>12. CASE buf[c][1].addr = "lock"
    <2>1. n = 1 /\ ~Holds(c) /\ buf[c][1].val = 0
      <3>1. 1 \in 1 .. Len(buf[c])
        BY <1>2
      <3>2. QED
        BY <1>1, <1>12, <3>1 DEF ReleaseIsLast
    <2>2. Len(buf'[c]) = 0 /\ buf'[c] = <<>>
      <3>1. Len(buf'[c]) = 0
        BY <1>10, <2>1
      <3>2. buf'[c] \in Seq(Stores)
        BY <1>2, <1>3
      <3>3. QED
        BY <3>1, <3>2, EmptySeq
    <2>3. ~Busy(c)'
      BY <1>6, <2>1, <2>2 DEF Busy, Pending
    <2>4. Pending(c, "data") = {}
      BY <1>12, <2>1 DEF Pending
    <2>5. mem'["data"] = done'
      BY <1>1, <1>3, <1>4, <1>12, <2>4 DEF Latest, Addrs
    <2>6. \A d \in Cores : ~Busy(d)' /\ buf'[d] = <<>>
      BY <1>3, <1>7, <1>8, <2>2, <2>3
    <2>7. QED
      BY <1>5, <1>8, <1>9, <1>11, <2>5, <2>6 DEF IndInv
  <1>13. CASE buf[c][1].addr = "data"
    <2>1. mem'["lock"] = 1
      BY <1>1, <1>4, <1>13 DEF IndInv, Addrs
    <2>2. Busy(c)'
      <3>1. CASE Holds(c)
        BY <1>6, <3>1 DEF Busy
      <3>2. CASE ~Holds(c)
        <4>1. PICK k \in Pending(c, "lock") : TRUE
          BY <1>1, <3>2 DEF Busy
        <4>2. k \in 1 .. n /\ buf[c][k].addr = "lock" /\ k # 1
          BY <1>13, <4>1 DEF Pending
        <4>3. k - 1 \in 1 .. n - 1 /\ buf'[c][k - 1] = buf[c][k]
          BY <1>2, <1>10, <4>2
        <4>4. k - 1 \in Pending(c, "lock")'
          BY <1>10, <4>2, <4>3 DEF Pending
        <4>5. QED
          BY <4>4 DEF Busy
      <3>3. QED
        BY <3>1, <3>2
    <2>3. PICK k \in Pending(c, "data") :
            (\A j \in Pending(c, "data") : j <= k) /\ buf[c][k].val = done
      <3>1. 1 \in Pending(c, "data")
        BY <1>2, <1>13 DEF Pending
      <3>2. QED
        BY <1>1, <3>1 DEF Latest
    <2>4. k \in 1 .. n /\ buf[c][k].addr = "data"
      BY <2>3 DEF Pending
    <2>5. ASSUME NEW j \in Pending(c, "data")'
          PROVE  j \in 1 .. n - 1 /\ j + 1 \in Pending(c, "data")
      <3>1. j \in 1 .. n - 1 /\ buf'[c][j].addr = "data"
        BY <1>10 DEF Pending
      <3>2. j + 1 \in 1 .. n /\ buf[c][j + 1].addr = "data"
        BY <1>2, <1>10, <3>1
      <3>3. QED
        BY <3>1, <3>2 DEF Pending
    <2>6. Latest(c, "data", done)'
      <3>1. CASE k = 1
        <4>1. Pending(c, "data")' = {}
          BY <1>2, <2>3, <2>5, <3>1
        <4>2. mem'["data"] = done'
          BY <1>3, <1>4, <1>13, <2>3, <3>1
        <4>3. QED
          BY <4>1, <4>2 DEF Latest
      <3>2. CASE k # 1
        <4>1. k - 1 \in 1 .. n - 1 /\ buf'[c][k - 1] = buf[c][k]
          BY <1>2, <1>10, <2>4, <3>2
        <4>2. k - 1 \in Pending(c, "data")'
          BY <1>10, <2>4, <4>1 DEF Pending
        <4>3. \A j \in Pending(c, "data")' : j <= k - 1
          BY <1>2, <2>3, <2>4, <2>5
        <4>4. buf'[c][k - 1].val = done'
          BY <1>3, <2>3, <4>1
        <4>5. QED
          BY <4>2, <4>3, <4>4 DEF Latest
      <3>3. QED
        BY <3>1, <3>2
    <2>7. \A d \in Cores : buf'[d] # <<>> => Busy(d)'
      BY <1>3, <1>7, <2>2
    <2>8. \A d \in Cores : Busy(d)' => d = c
      BY <1>8
    <2>9. QED
      BY <1>5, <1>8, <1>9, <1>11, <2>1, <2>2, <2>6, <2>7, <2>8 DEF IndInv
  <1>14. QED
    BY <1>2, <1>12, <1>13 DEF Stores, Addrs

\* Every step of every core keeps the invariant.
LEMMA NextIndInv == IndInv /\ [Next]_vars => IndInv'
  <1> SUFFICES ASSUME IndInv, [Next]_vars PROVE IndInv'
    OBVIOUS
  <1>1. CASE Next
    <2>1. PICK c \in Cores : Enter(c) \/ Step(c) \/ Drain(c)
      BY <1>1 DEF Next
    <2>2. QED
      BY <2>1, EnterIndInv, AcquireIndInv, DataLoadIndInv, DataStoreIndInv,
         ReleaseLoadIndInv, ReleaseStoreIndInv, DrainIndInv DEF Step
  <1>2. CASE UNCHANGED vars
    <2>1. TypeOK' /\ NoLostUpdate' /\ \A d \in Cores : Holds(d)' <=> Holds(d)
      BY <1>2 DEF vars, IndInv, TypeOK, NoLostUpdate, Holds
    <2>2. QED
      BY <1>2, <2>1, QuietStep DEF vars
  <1>3. QED
    BY <1>1, <1>2

\* The inductive invariant of the spinlock and its store buffers: one core at a
\* time is between its bit-test-and-set and the arrival of its release store.
THEOREM InvariantHolds == Spec => []IndInv
  BY InitIndInv, NextIndInv, PTL DEF Spec

\* The lock word, the data and every buffered store keep their ranges.
THEOREM TypeCorrect == Spec => []TypeOK
  <1>1. IndInv => TypeOK
    BY DEF IndInv
  <1>2. QED
    BY <1>1, InvariantHolds, PTL

\* The bit-test-and-set and the unfenced release store give mutual exclusion
\* on any number of cores.
THEOREM MutexHolds == Spec => []MutualExclusion
  <1>1. IndInv => MutualExclusion
    BY DEF IndInv, MutualExclusion, Busy
  <1>2. QED
    BY <1>1, InvariantHolds, PTL

\* No increment made under the lock is lost to a store buffer.
THEOREM DataVisible == Spec => []NoLostUpdate
  <1>1. IndInv => NoLostUpdate
    BY DEF IndInv
  <1>2. QED
    BY <1>1, InvariantHolds, PTL

\* The abstract owner is the core that holds the lock.
LEMMA OwnerIs ==
  ASSUME MutualExclusion
  PROVE  /\ \A c \in Cores : Holds(c) => owner = c
         /\ (\A c \in Cores : ~Holds(c)) => owner = NoOwner
  BY DEF MutualExclusion, owner

\* The same of the state after a step.
LEMMA OwnerIsNext ==
  ASSUME MutualExclusion'
  PROVE  /\ \A c \in Cores : Holds(c)' => owner' = c
         /\ (\A c \in Cores : ~Holds(c)') => owner' = NoOwner
  BY DEF MutualExclusion, owner

\* A step that changes neither holders nor waiters leaves the abstract state.
LEMMA SameOwner ==
  ASSUME \A d \in Cores : Holds(d)' <=> Holds(d),
         \A d \in Cores : pc'[d] \in Waiting <=> pc[d] \in Waiting
  PROVE  owner' = owner /\ waiting' = waiting
  BY DEF owner, waiting

\* Every step of the spinlock is a step of the abstract lock or leaves it alone.
LEMMA StepRefines ==
  ASSUME IndInv, IndInv', Next
  PROVE  Lock!Next \/ UNCHANGED Lock!vars
  <1>1. TypeOK /\ MutualExclusion /\ MutualExclusion'
    BY DEF IndInv, MutualExclusion, Busy
  <1>2. PICK c \in Cores : Enter(c) \/ Step(c) \/ Drain(c)
    BY DEF Next
  <1>3. CASE Enter(c)
    <2>1. \A d \in Cores : Holds(d)' <=> Holds(d)
      BY <1>1, <1>3 DEF Enter, Goto, TypeOK, Holds, Holding
    <2>2. owner' = owner
      BY <2>1 DEF owner
    <2>3. owner # c
      BY <1>1, <1>3, OwnerIs, SpinlockAssumption DEF Enter, Goto, owner, Holds, Holding
    <2>4. c \notin waiting /\ waiting' = waiting \cup {c}
      BY <1>1, <1>3 DEF Enter, Goto, TypeOK, waiting, Waiting
    <2>5. Lock!Request(c)
      BY <2>2, <2>3, <2>4 DEF Lock!Request
    <2>6. QED
      BY <2>5 DEF Lock!Next
  <1>4. CASE Acquire(c)
    <2>1. CASE mem["lock"] = 0
      <3>1. pc[c] = "Bts" /\ pc' = [pc EXCEPT ![c] = "Load"]
        BY <1>4, <2>1 DEF Acquire, BitTestAndSet, Goto
      <3>2. \A d \in Cores : ~Holds(d)
        BY <2>1 DEF IndInv, Busy
      <3>3. owner = NoOwner
        BY <1>1, <3>2, OwnerIs
      <3>4. owner' = c
        <4>1. Holds(c)'
          BY <1>1, <3>1 DEF TypeOK, Holds, Holding
        <4>2. QED
          BY <1>1, <4>1, OwnerIsNext
      <3>5. c \in waiting /\ waiting' = waiting \ {c}
        BY <1>1, <3>1 DEF TypeOK, waiting, Waiting
      <3>6. Lock!Acquire(c)
        BY <3>3, <3>4, <3>5 DEF Lock!Acquire
      <3>7. QED
        BY <3>6 DEF Lock!Next
    <2>2. CASE mem["lock"] # 0
      <3>1. pc[c] = "Bts" /\ pc' = [pc EXCEPT ![c] = "Spin"]
        BY <1>4, <2>2 DEF Acquire, BitTestAndSet, Goto
      <3>2. /\ \A d \in Cores : Holds(d)' <=> Holds(d)
            /\ \A d \in Cores : pc'[d] \in Waiting <=> pc[d] \in Waiting
        BY <1>1, <3>1 DEF TypeOK, Holds, Holding, Waiting
      <3>3. QED
        BY <3>2, SameOwner DEF Lock!vars
    <2>3. QED
      BY <2>1, <2>2
  <1>5. CASE ReleaseStore(c)
    <2>1. pc[c] = "RelStore" /\ pc' = [pc EXCEPT ![c] = "Out"]
      BY <1>5 DEF ReleaseStore, Goto
    <2>2. owner = c
      BY <1>1, <2>1, OwnerIs DEF Holds, Holding
    <2>3. \A d \in Cores : ~Holds(d)'
      BY <1>1, <2>1 DEF TypeOK, MutualExclusion, Holds, Holding
    <2>4. owner' = NoOwner
      BY <1>1, <2>3, OwnerIsNext
    <2>5. waiting' = waiting
      BY <1>1, <2>1 DEF TypeOK, waiting, Waiting
    <2>6. Lock!Release(c)
      BY <2>2, <2>4, <2>5 DEF Lock!Release
    <2>7. QED
      BY <2>6 DEF Lock!Next
  <1>6. CASE Spin(c) \/ DataLoad(c) \/ DataStore(c) \/ ReleaseLoad(c) \/ Drain(c)
    <2>1. /\ \A d \in Cores : Holds(d)' <=> Holds(d)
          /\ \A d \in Cores : pc'[d] \in Waiting <=> pc[d] \in Waiting
      BY <1>1, <1>6
      DEF TypeOK, Spin, DataLoad, DataStore, ReleaseLoad, Drain, Goto, Holds, Holding, Waiting
    <2>2. QED
      BY <2>1, SameOwner DEF Lock!vars
  <1>7. QED
    BY <1>2, <1>3, <1>4, <1>5, <1>6 DEF Step

\* The spinlock implements the safety part of the abstract lock: its states map
\* to an owner and a set of waiting cores that change only by the abstract
\* Request, Acquire and Release.
THEOREM ImplementsAbstractLock == Spec => Lock!Spec
  <1>1. Init => Lock!Init
    <2> SUFFICES ASSUME Init PROVE Lock!Init
      OBVIOUS
    <2>1. \A c \in Cores : ~Holds(c) /\ pc[c] \notin Waiting
      BY DEF Init, Holds, Holding, Waiting
    <2>2. owner = NoOwner /\ waiting = {}
      BY <2>1 DEF owner, waiting
    <2>3. QED
      BY <2>2 DEF Lock!Init
  <1>2. IndInv /\ IndInv' /\ [Next]_vars => [Lock!Next]_Lock!vars
    <2> SUFFICES ASSUME IndInv, IndInv', [Next]_vars
                 PROVE  Lock!Next \/ UNCHANGED Lock!vars
      OBVIOUS
    <2>1. CASE Next
      BY <2>1, StepRefines
    <2>2. CASE UNCHANGED vars
      BY <2>2, SameOwner DEF vars, Holds, Lock!vars
    <2>3. QED
      BY <2>1, <2>2
  <1>3. QED
    BY <1>1, <1>2, InvariantHolds, PTL DEF Spec, Lock!Spec

=============================================================================

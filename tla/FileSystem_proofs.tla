-------------------------- MODULE FileSystem_proofs --------------------------
(***************************************************************************)
(* The file system: the contents of files on the kernel heap, for words,   *)
(* heaps, files and requests of any size, the graph of nodes, for any      *)
(* names, paths and heap, and the depth of the PCI scan that fills it, for *)
(* any initrd, any wiring of the buses and any heap.                       *)
(***************************************************************************)
EXTENDS RamFile, BootFS, FiniteSetTheorems, WellFoundedInduction, TLAPS

\* Every set of numbers that is not empty has a least one.
LEMMA Least ==
  ASSUME NEW S \in SUBSET Nat, S # {}
  PROVE  \E n \in S : \A m \in S : n <= m
  <1>1. PICK n \in S : \A m \in S : ~(<<m, n>> \in OpToRel(<, Nat))
    BY WFMin, NatLessThanWellFounded
  <1>2. \A m \in S : ~(m < n)
    BY <1>1 DEF OpToRel
  <1>3. QED
    BY <1>2

-----------------------------------------------------------------------------
(* Arithmetic of words. *)

\* Division with remainder.
LEMMA DivMod ==
  ASSUME NEW n \in Nat, NEW d \in Nat \ {0}
  PROVE  n \div d \in Nat /\ n % d \in 0 .. d - 1 /\ n = d * (n \div d) + (n % d)
  OBVIOUS

\* Quotient and remainder are unique.
LEMMA DivModUnique ==
  ASSUME NEW d \in Nat \ {0}, NEW q \in Nat, NEW r \in 0 .. d - 1
  PROVE  (d * q + r) \div d = q /\ (d * q + r) % d = r
  <1>1. d * q + r \in Nat
    OBVIOUS
  <1>2. QED
    BY <1>1, DivMod

\* What is added to a multiple of d decides the remainder.
LEMMA ModAdd ==
  ASSUME NEW d \in Nat \ {0}, NEW a \in Nat, NEW b \in Nat, a % d = 0
  PROVE  (a + b) % d = b % d
  <1> DEFINE x == a \div d
             y == b \div d
             r == b % d
  <1>1. a = d * x + 0 /\ x \in Nat
    BY DivMod
  <1>2. b = d * y + r /\ y \in Nat /\ r \in 0 .. d - 1
    BY DivMod
  <1>3. (a + b) % d = r
    <2> HIDE DEF x, y, r
    <2>1. d * (x + y) = d * x + d * y /\ x + y \in Nat
      BY <1>1, <1>2
    <2>2. a + b = d * (x + y) + r
      BY <1>1, <1>2, <2>1
    <2>3. QED
      BY <1>2, <2>1, <2>2, DivModUnique
  <1>4. QED
    BY <1>3

\* Requests are rounded up to whole words, longer ones to no fewer of them.
LEMMA Rounds ==
  /\ MEM_MIN_SIZE \in Nat \ {0}
  /\ \A n \in Nat : /\ RoundUp(n) \in Nat /\ RoundUp(n) % MEM_MIN_SIZE = 0
                    /\ n <= RoundUp(n) /\ RoundUp(n) < n + MEM_MIN_SIZE
  /\ \A m, n \in Nat : m <= n => RoundUp(m) <= RoundUp(n)
  <1>1. MEM_MIN_SIZE \in Nat \ {0}
    BY KHeapAssumption
  <1>2. ASSUME NEW n \in Nat
        PROVE  /\ RoundUp(n) \in Nat /\ RoundUp(n) % MEM_MIN_SIZE = 0
               /\ n <= RoundUp(n) /\ RoundUp(n) < n + MEM_MIN_SIZE
               /\ (n + MEM_MIN_SIZE - 1) \div MEM_MIN_SIZE \in Nat
    <2> DEFINE q == (n + MEM_MIN_SIZE - 1) \div MEM_MIN_SIZE
               r == (n + MEM_MIN_SIZE - 1) % MEM_MIN_SIZE
    <2>1. n + MEM_MIN_SIZE - 1 \in Nat
      BY <1>1
    <2>2. q \in Nat /\ r \in 0 .. MEM_MIN_SIZE - 1 /\ n + MEM_MIN_SIZE - 1 = MEM_MIN_SIZE * q + r
      BY <1>1, <2>1, DivMod
    <2>3. RoundUp(n) = q * MEM_MIN_SIZE
      BY DEF RoundUp
    <2> HIDE DEF q, r
    <2>4. RoundUp(n) = MEM_MIN_SIZE * q + 0 /\ RoundUp(n) \in Nat
      BY <1>1, <2>2, <2>3
    <2>5. RoundUp(n) % MEM_MIN_SIZE = 0
      <3>1. 0 \in 0 .. MEM_MIN_SIZE - 1
        BY <1>1
      <3>2. QED
        BY <1>1, <2>2, <2>4, <3>1, DivModUnique, Zenon
    <2>6. QED
      BY <1>1, <2>2, <2>4, <2>5 DEF q
  <1>3. ASSUME NEW m \in Nat, NEW n \in Nat, m <= n
        PROVE  RoundUp(m) <= RoundUp(n)
    <2> DEFINE x == (m + MEM_MIN_SIZE - 1) \div MEM_MIN_SIZE
               y == (n + MEM_MIN_SIZE - 1) \div MEM_MIN_SIZE
    <2>1. x \in Nat /\ y \in Nat
      BY <1>2
    <2>2. RoundUp(m) = x * MEM_MIN_SIZE /\ RoundUp(n) = y * MEM_MIN_SIZE
      BY DEF RoundUp
    <2>3. RoundUp(m) < m + MEM_MIN_SIZE /\ n <= RoundUp(n)
      BY <1>2
    <2> HIDE DEF x, y
    <2>4. x * MEM_MIN_SIZE < y * MEM_MIN_SIZE + MEM_MIN_SIZE
      BY <1>1, <1>3, <2>1, <2>2, <2>3
    <2>5. x <= y
      BY <1>1, <2>1, <2>4
    <2>6. QED
      BY <1>1, <2>1, <2>2, <2>5
  <1>4. QED
    BY <1>1, <1>2, <1>3

\* Sums of whole words are whole words, and a number below a word is its own remainder.
LEMMA WordSums ==
  /\ \A a, b \in Nat : a % MEM_MIN_SIZE = 0 /\ b % MEM_MIN_SIZE = 0 => (a + b) % MEM_MIN_SIZE = 0
  /\ \A a \in Nat, k \in 0 .. MEM_MIN_SIZE - 1 : a % MEM_MIN_SIZE = 0 => (a + k) % MEM_MIN_SIZE = k
  <1>1. MEM_MIN_SIZE \in Nat \ {0}
    BY Rounds
  <1>2. ASSUME NEW k \in 0 .. MEM_MIN_SIZE - 1 PROVE k % MEM_MIN_SIZE = k
    BY <1>1
  <1>3. ASSUME NEW a \in Nat, NEW k \in 0 .. MEM_MIN_SIZE - 1, a % MEM_MIN_SIZE = 0
        PROVE  (a + k) % MEM_MIN_SIZE = k
    <2>1. k \in Nat
      BY <1>1
    <2>2. QED
      BY <1>1, <1>2, <1>3, <2>1, ModAdd
  <1>4. QED
    BY <1>1, <1>3, ModAdd

\* A whole word above the last but one word before another is at most one word before it.
LEMMA WordGap ==
  ASSUME NEW a \in Nat, NEW b \in Nat, a % MEM_MIN_SIZE = 0, b % MEM_MIN_SIZE = 0,
         a + 2 * MEM_MIN_SIZE > b
  PROVE  a + MEM_MIN_SIZE >= b
  <1> DEFINE x == a \div MEM_MIN_SIZE
             y == b \div MEM_MIN_SIZE
  <1>1. MEM_MIN_SIZE \in Nat \ {0}
    BY Rounds
  <1>2. x \in Nat /\ y \in Nat /\ a = MEM_MIN_SIZE * x /\ b = MEM_MIN_SIZE * y
    BY <1>1, DivMod
  <1> HIDE DEF x, y
  <1>3. MEM_MIN_SIZE * (x + 2) > MEM_MIN_SIZE * y
    BY <1>1, <1>2
  <1>4. x + 2 > y
    BY <1>1, <1>2, <1>3
  <1>5. MEM_MIN_SIZE * (x + 1) >= MEM_MIN_SIZE * y
    BY <1>1, <1>2, <1>4
  <1>6. QED
    BY <1>1, <1>2, <1>5

\* Where the heap lies.
LEMMA Geometry ==
  /\ HeapMem \in Nat /\ HeapMem % MEM_MIN_SIZE = 0
  /\ HEAP_START <= HeapMem /\ HeapMem < HEAP_START + MEM_MIN_SIZE /\ HEAP_START \in Nat
  /\ HeapEnd \in Nat /\ HeapEnd % MEM_MIN_SIZE = 0 /\ HeapEnd = HeapMem + HEAP_SIZE /\ HEAP_SIZE \in Nat
  /\ RoundUp(MAX_REQUEST) > MEM_MIN_SIZE /\ RoundUp(MAX_REQUEST) \in Nat
  /\ MAX_REQUEST \in Nat
  /\ Addrs \subseteq Nat /\ \A a \in HeapMem .. HeapEnd - 1 : a \in Addrs
  <1>1. /\ HeapMem \in Nat /\ HeapMem % MEM_MIN_SIZE = 0
        /\ HEAP_START <= HeapMem /\ HeapMem < HEAP_START + MEM_MIN_SIZE /\ HEAP_START \in Nat
    BY Rounds, KHeapAssumption DEF HeapMem
  <1>2. HeapEnd \in Nat /\ HeapEnd % MEM_MIN_SIZE = 0 /\ HeapEnd = HeapMem + HEAP_SIZE /\ HEAP_SIZE \in Nat
    <2>1. HEAP_SIZE \in Nat /\ HEAP_SIZE % MEM_MIN_SIZE = 0
      BY KHeapAssumption
    <2>2. (HeapMem + HEAP_SIZE) % MEM_MIN_SIZE = 0
      BY <1>1, <2>1, WordSums, Zenon
    <2>3. QED
      BY <1>1, <2>1, <2>2 DEF HeapEnd
  <1>3. /\ RoundUp(MAX_REQUEST) > MEM_MIN_SIZE /\ RoundUp(MAX_REQUEST) \in Nat
        /\ MAX_REQUEST \in Nat /\ MEM_MIN_SIZE \in Nat \ {0}
    BY Rounds, KHeapAssumption
  <1>4. Addrs \subseteq Nat /\ \A a \in HeapMem .. HeapEnd - 1 : a \in Addrs
    BY <1>1, <1>2, <1>3 DEF Addrs
  <1>5. QED
    BY <1>1, <1>2, <1>3, <1>4

-----------------------------------------------------------------------------
(* What is written where. *)

\* A string changes the bytes it is written over.
LEMMA PutAt ==
  ASSUME NEW m, DOMAIN m = Addrs, NEW p \in Int, NEW n \in Nat, NEW s, DOMAIN s = 1 .. n
  PROVE  /\ DOMAIN Put(m, p, s) = Addrs
         /\ Put(m, p, s) = [a \in Addrs |-> Put(m, p, s)[a]]
         /\ \A a \in Addrs : Put(m, p, s)[a] = IF p <= a /\ a < p + n THEN s[a - p + 1] ELSE m[a]
  <1>1. \A a \in Addrs : a \in Int
    BY Geometry
  <1>2. QED
    BY <1>1 DEF Put

\* The marker behind a block, byte by byte.
LEMMA MarkedAt ==
  ASSUME TypeOK, NEW n \in Nat
  PROVE  /\ DOMAIN Marked(n) = Addrs /\ CurrentPointer + RoundUp(n) \in Nat
         /\ Marked(n) = [a \in Addrs |-> Marked(n)[a]]
         /\ \A a \in Addrs :
              IF CurrentPointer + RoundUp(n) <= a /\ a < CurrentPointer + RoundUp(n) + MEM_MIN_SIZE
              THEN Marked(n)[a] = MarkByte(a % MEM_MIN_SIZE)
              ELSE Marked(n)[a] = mem[a]
  <1> DEFINE p == CurrentPointer + RoundUp(n)
  <1>1. CurrentPointer \in Nat /\ CurrentPointer % MEM_MIN_SIZE = 0 /\ DOMAIN mem = Addrs
    BY Geometry DEF TypeOK, HeapTypeOK
  <1>2. p \in Nat /\ p % MEM_MIN_SIZE = 0
    <2>1. RoundUp(n) \in Nat /\ RoundUp(n) % MEM_MIN_SIZE = 0
      BY Rounds
    <2>2. (CurrentPointer + RoundUp(n)) % MEM_MIN_SIZE = 0
      BY <1>1, <2>1, WordSums, Zenon
    <2>3. QED
      BY <1>1, <2>1, <2>2
  <1>3. DOMAIN Mark = 1 .. MEM_MIN_SIZE /\ MEM_MIN_SIZE \in Nat
    BY Rounds DEF Mark
  <1> HIDE DEF p
  <1>4. Marked(n) = Put(mem, p, Mark)
    BY DEF Marked, p
  <1>5. ASSUME NEW a \in Addrs, p <= a, a < p + MEM_MIN_SIZE
        PROVE  Mark[a - p + 1] = MarkByte(a % MEM_MIN_SIZE)
    <2>1. a \in Nat /\ a - p \in 0 .. MEM_MIN_SIZE - 1 /\ a = p + (a - p)
      BY <1>2, <1>3, <1>5, Geometry
    <2>2. a % MEM_MIN_SIZE = a - p
      BY <1>2, <2>1, WordSums
    <2>3. Mark[a - p + 1] = MarkByte(a - p)
      BY <1>2, <1>3, <2>1 DEF Mark
    <2>4. QED
      BY <2>2, <2>3
  <1>6. QED
    BY <1>1, <1>2, <1>3, <1>4, <1>5, PutAt DEF p

\* What callers write.
LEMMA BufferIs ==
  ASSUME NEW n \in Nat, NEW s \in Buffers(n)
  PROVE  Len(s) = n /\ DOMAIN s = 1 .. n /\ \A i \in 1 .. n : s[i] \in Data /\ s[i] \in Nat
  <1>1. PICK v \in Data : s = [i \in 1 .. n |-> v]
    BY DEF Buffers
  <1>2. v \in Nat
    BY RamFileAssumption
  <1>3. Len(s) = n /\ DOMAIN s = 1 .. n
    BY <1>1
  <1>4. QED
    BY <1>1, <1>2, <1>3

\* The values of the pointer and of the memory.
LEMMA PointerIs ==
  ASSUME TypeOK
  PROVE  /\ CurrentPointer \in Nat /\ CurrentPointer % MEM_MIN_SIZE = 0
         /\ HeapMem <= CurrentPointer /\ CurrentPointer <= HeapEnd
         /\ DOMAIN mem = Addrs /\ \A a \in Addrs : mem[a] \in Int
  BY Geometry DEF TypeOK, HeapTypeOK

\* A file that has a block: it lies below the pointer and starts at a whole word.
LEMMA BlockIs ==
  ASSUME TypeOK, BlocksAligned, BlocksApart, NEW f \in Files
  PROVE  /\ length[f] \in Nat /\ length[f] <= MAX_REQUEST
         /\ DOMAIN written[f] = 1 .. length[f]
         /\ \A i \in 1 .. length[f] : written[f][i] \in Data /\ written[f][i] \in Nat
         /\ length[f] > 0 =>
              /\ filePtr[f] \in Nat /\ filePtr[f] % MEM_MIN_SIZE = 0 /\ HeapMem <= filePtr[f]
              /\ filePtr[f] + length[f] <= CurrentPointer
              /\ \A i \in 1 .. length[f] : filePtr[f] + i - 1 \in Addrs
  <1>1. length[f] \in Nat /\ length[f] <= MAX_REQUEST
    BY Geometry DEF TypeOK
  <1>2. /\ DOMAIN written[f] = 1 .. length[f]
        /\ \A i \in 1 .. length[f] : written[f][i] \in Data /\ written[f][i] \in Nat
    <2>1. written[f] \in [1 .. length[f] -> Data]
      BY DEF TypeOK
    <2>2. QED
      BY <2>1, RamFileAssumption
  <1>3. ASSUME length[f] > 0
        PROVE  /\ filePtr[f] \in Nat /\ filePtr[f] % MEM_MIN_SIZE = 0 /\ HeapMem <= filePtr[f]
               /\ filePtr[f] + length[f] <= CurrentPointer
               /\ \A i \in 1 .. length[f] : filePtr[f] + i - 1 \in Addrs
    <2>1. filePtr[f] # NULL /\ filePtr[f] % MEM_MIN_SIZE = 0
      BY <1>1, <1>3 DEF BlocksAligned
    <2>2. filePtr[f] \in HeapMem .. HeapEnd
      BY <2>1 DEF TypeOK
    <2>3. length[f] <= RoundUp(length[f]) /\ RoundUp(length[f]) \in Nat
      BY <1>1, Rounds
    <2>4. filePtr[f] + RoundUp(length[f]) <= CurrentPointer
      BY <1>3 DEF BlocksApart
    <2>5. CurrentPointer \in Nat /\ CurrentPointer <= HeapEnd /\ HeapMem \in Nat /\ HeapEnd \in Nat
      BY PointerIs, Geometry
    <2>6. filePtr[f] \in Nat /\ HeapMem <= filePtr[f] /\ filePtr[f] + length[f] <= CurrentPointer
      BY <1>1, <2>2, <2>3, <2>4, <2>5
    <2>7. \A i \in 1 .. length[f] : filePtr[f] + i - 1 \in HeapMem .. HeapEnd - 1
      BY <1>1, <2>5, <2>6
    <2>8. QED
      BY <2>1, <2>6, <2>7, Geometry
  <1>4. QED
    BY <1>1, <1>2, <1>3

\* The blocks of two files have no byte in common.
LEMMA BytesApart ==
  ASSUME TypeOK, BlocksAligned, BlocksApart, NEW f \in Files, NEW g \in Files \ {f},
         length[f] > 0, NEW i \in 1 .. length[g]
  PROVE  ~(filePtr[f] <= filePtr[g] + i - 1 /\ filePtr[g] + i - 1 < filePtr[f] + length[f])
  <1>1. length[f] \in Nat /\ length[g] \in Nat /\ length[g] > 0
    BY BlockIs
  <1>2. filePtr[f] \in Nat /\ filePtr[g] \in Nat
    BY <1>1, BlockIs
  <1>3. /\ length[f] <= RoundUp(length[f]) /\ RoundUp(length[f]) \in Nat
        /\ length[g] <= RoundUp(length[g]) /\ RoundUp(length[g]) \in Nat
    BY <1>1, Rounds
  <1>4. \/ filePtr[f] + RoundUp(length[f]) <= filePtr[g]
        \/ filePtr[g] + RoundUp(length[g]) <= filePtr[f]
    BY <1>1 DEF BlocksApart
  <1>5. QED
    BY <1>1, <1>2, <1>3, <1>4

\* How far krealloc walks.
LEMMA ScannedIs ==
  ASSUME NEW ptr, NEW size \in Nat
  PROVE  /\ Scanned(ptr, size) \in 0 .. size
         /\ Scanned(ptr, size) = size \/ IsMark(ptr + Scanned(ptr, size))
         /\ OldSize(ptr, size) \in 0 .. size
  <1> DEFINE S == {k \in 0 .. size : k = size \/ IsMark(ptr + k)}
             Ends(k) == /\ k = size \/ IsMark(ptr + k)
                        /\ \A j \in 0 .. k - 1 : ~IsMark(ptr + j)
  <1>1. size \in S /\ S \in SUBSET Nat
    OBVIOUS
  <1>2. PICK k \in S : \A m \in S : k <= m
    <2> HIDE DEF S
    <2>1. QED
      BY <1>1, Least
  <1>3. k \in 0 .. size /\ Ends(k)
    BY <1>2
  <1>4. Scanned(ptr, size) \in 0 .. size /\ Ends(Scanned(ptr, size))
    <2> HIDE DEF Ends
    <2>1. Scanned(ptr, size) = CHOOSE x \in 0 .. size : Ends(x)
      BY DEF Scanned, Ends
    <2>2. QED
      BY <1>3, <2>1
  <1>5. QED
    BY <1>4 DEF OldSize

\* What krealloc copies of a file: all of it, but for the last byte of a word.
LEMMA CopiesAlmostAll ==
  ASSUME TypeOK, BlocksAligned, BlocksApart, MarksAligned, Contents,
         NEW f \in Files, length[f] > 0, NEW size \in Nat, size > length[f],
         NEW i \in 1 .. length[f], i > OldSize(filePtr[f], size)
  PROVE  i % MEM_MIN_SIZE = 0
  <1> DEFINE ptr == filePtr[f]
             k == Scanned(ptr, size)
             M == MEM_MIN_SIZE
  <1>1. M \in Nat \ {0}
    BY Rounds
  <1>2. ptr \in Nat /\ ptr % M = 0 /\ length[f] \in Nat
    BY BlockIs
  <1>3. k \in 0 .. size /\ (k = size \/ IsMark(ptr + k))
    BY ScannedIs
  <1>4. OldSize(ptr, size) = IF k = 0 THEN size ELSE k - 1
    BY DEF OldSize
  <1> HIDE DEF k, ptr
  <1>5. k # 0 /\ k <= i /\ IsMark(ptr + k) /\ k \in Nat
    BY <1>2, <1>3, <1>4 DEF ptr
  <1>6. mem[ptr + k] = -1 /\ ptr + k \in Addrs
    <2>1. 1 \in 1 .. M /\ Mark[1] = -1 /\ ptr + k + 1 - 1 = ptr + k
      BY <1>1, <1>2, <1>5 DEF Mark, MarkByte
    <2>2. QED
      BY <1>5, <2>1 DEF IsMark
  <1>7. (ptr + k) % M = 0
    <2>1. (ptr + k) % M \in Int
      BY <1>1, <1>2, <1>5
    <2>2. -1 = MarkByte((ptr + k) % M)
      BY <1>6 DEF MarksAligned
    <2>3. QED
      BY <2>1, <2>2 DEF MarkByte
  <1>8. k % M = 0
    BY <1>1, <1>2, <1>5, <1>7, ModAdd, Zenon
  <1>9. CASE k = length[f]
    BY <1>2, <1>5, <1>8, <1>9
  <1>10. CASE k # length[f]
    <2>1. k + 1 \in 1 .. length[f] /\ ptr + (k + 1) - 1 = ptr + k
      BY <1>2, <1>5, <1>10
    <2>2. written[f][k + 1] \in Nat
      BY <2>1, BlockIs
    <2>3. (k + 1) % M = 0
      BY <1>6, <2>1, <2>2 DEF Contents, ptr
    <2>4. M = 1
      <3>1. CASE M # 1
        <4>1. 1 \in 0 .. M - 1
          BY <1>1, <3>1
        <4>2. (k + 1) % M = 1
          BY <1>5, <1>8, <4>1, WordSums, Zenon
        <4>3. QED
          BY <2>3, <4>2
      <3>2. QED
        BY <3>1
    <2>5. QED
      BY <1>1, <2>4
  <1>11. QED
    BY <1>9, <1>10

-----------------------------------------------------------------------------
(* The inductive invariant. *)

\* The initial states satisfy it.
LEMMA InitIndInv == Init => IndInv
  <1> SUFFICES ASSUME Init PROVE IndInv
    OBVIOUS
  <1> USE DEF Init, HeapInit, UNUSED
  <1>1. TypeOK
    <2>1. mem \in [Addrs -> Int] /\ CurrentPointer \in HeapMem .. HeapEnd
      BY Geometry
    <2>2. HeapTypeOK
      BY <2>1, Geometry DEF HeapTypeOK
    <2>3. filePtr \in [Files -> (HeapMem .. HeapEnd) \cup {NULL}]
      OBVIOUS
    <2>4. length \in [Files -> 0 .. MAX_REQUEST]
      BY Geometry
    <2>5. DOMAIN written = Files /\ \A f \in Files : written[f] \in [1 .. length[f] -> Data]
      OBVIOUS
    <2>6. QED
      BY <2>2, <2>3, <2>4, <2>5 DEF TypeOK
  <1>2. BlocksAligned /\ BlocksApart /\ Contents
    BY DEF BlocksAligned, BlocksApart, Contents
  <1>3. MarksAligned /\ WrittenBelow
    BY DEF MarksAligned, WrittenBelow
  <1>4. QED
    BY <1>1, <1>2, <1>3 DEF IndInv

\* A write within a file stays within its block.
LEMMA WriteInPlaceInv ==
  ASSUME IndInv, NEW f \in Files, NEW n \in Nat \ {0}, NEW offset \in Nat, NEW s \in Buffers(n),
         WriteInPlace(f, s, offset)
  PROVE  IndInv'
  <1> USE DEF IndInv
  <1>1. Len(s) = n /\ DOMAIN s = 1 .. n /\ \A i \in 1 .. n : s[i] \in Data /\ s[i] \in Nat
    BY BufferIs
  <1>2. /\ offset + n <= length[f] /\ mem' = Put(mem, filePtr[f] + offset, s)
        /\ written' = [written EXCEPT ![f] = Overwritten(written[f], offset, s)]
        /\ UNCHANGED <<CurrentPointer, lowmem, filePtr, length>>
    BY <1>1 DEF WriteInPlace
  <1>3. length[f] \in Nat /\ length[f] > 0
    BY <1>2, BlockIs
  <1>4. /\ filePtr[f] \in Nat /\ filePtr[f] + length[f] <= CurrentPointer /\ HeapMem <= filePtr[f]
    BY <1>3, BlockIs
  <1> DEFINE p == filePtr[f] + offset
  <1>5. /\ DOMAIN mem' = Addrs /\ mem' = [a \in Addrs |-> mem'[a]]
        /\ \A a \in Addrs : mem'[a] = IF p <= a /\ a < p + n THEN s[a - p + 1] ELSE mem[a]
    <2>1. p \in Int /\ n \in Nat /\ DOMAIN mem = Addrs
      BY <1>4, PointerIs
    <2>2. mem' = Put(mem, p, s)
      BY <1>2
    <2> HIDE DEF p
    <2>3. QED
      BY <1>1, <2>1, <2>2, PutAt
  <1>6. p \in Nat /\ filePtr[f] <= p /\ p + n <= filePtr[f] + length[f]
    BY <1>2, <1>3, <1>4
  <1> HIDE DEF p
  <1>7. \A a \in Addrs : a \in Nat /\ (p <= a /\ a < p + n => a - p + 1 \in 1 .. n)
    <2>1. \A a \in Nat : p <= a /\ a < p + n => a - p + 1 \in 1 .. n
      BY <1>6
    <2>2. QED
      BY <2>1, Geometry
  <1>8. /\ DOMAIN written'[f] = 1 .. length[f]
        /\ written'[f] = [i \in 1 .. length[f] |-> written'[f][i]]
        /\ \A i \in 1 .. length[f] : /\ written'[f][i] \in Data
                                    /\ written'[f][i] = IF i - offset \in 1 .. n THEN s[i - offset]
                                                                             ELSE written[f][i]
        /\ \A g \in Files \ {f} : written'[g] = written[g]
        /\ DOMAIN written' = DOMAIN written
    <2>1. Len(written[f]) = length[f]
      BY <1>3, BlockIs DEF TypeOK
    <2>2. Overwritten(written[f], offset, s) =
            [i \in 1 .. length[f] |-> IF i - offset \in 1 .. n THEN s[i - offset] ELSE written[f][i]]
      BY <1>1, <1>2, <1>3, <2>1 DEF Overwritten
    <2>3. /\ DOMAIN written' = DOMAIN written /\ written'[f] = Overwritten(written[f], offset, s)
          /\ \A g \in Files \ {f} : written'[g] = written[g]
      BY <1>2 DEF TypeOK
    <2>4. \A i \in 1 .. length[f] :
             (IF i - offset \in 1 .. n THEN s[i - offset] ELSE written[f][i]) \in Data
      BY <1>1, BlockIs
    <2>5. QED
      BY <2>2, <2>3, <2>4
  <1>9. TypeOK'
    <2>1. \A a \in Addrs : mem'[a] \in Int
      BY <1>1, <1>5, <1>7, PointerIs
    <2>2. mem' \in [Addrs -> Int]
      BY <1>5, <2>1
    <2>3. HeapTypeOK'
      BY <1>2, <2>2 DEF TypeOK, HeapTypeOK
    <2>4. \A g \in Files : written'[g] \in [1 .. length'[g] -> Data]
      BY <1>2, <1>8 DEF TypeOK
    <2>5. DOMAIN written' = Files
      BY <1>8 DEF TypeOK
    <2>6. QED
      BY <1>2, <2>3, <2>4, <2>5 DEF TypeOK
  <1>10. BlocksAligned' /\ BlocksApart'
    BY <1>2 DEF BlocksAligned, BlocksApart
  <1>11. MarksAligned'
    BY <1>1, <1>5, <1>7 DEF MarksAligned
  <1>12. WrittenBelow'
    <2>1. \A a \in Addrs : a >= CurrentPointer + MEM_MIN_SIZE => mem'[a] = mem[a]
      BY <1>4, <1>5, <1>6, <1>7, <1>3, PointerIs, Rounds
    <2>2. QED
      BY <1>2, <2>1 DEF WrittenBelow, AtLimit
  <1>13. Contents'
    <2> SUFFICES ASSUME NEW g \in Files, NEW i \in 1 .. length[g]
                 PROVE  \/ mem'[filePtr[g] + i - 1] = written'[g][i]
                        \/ (i % MEM_MIN_SIZE = 0 /\ i < length[g])
      BY <1>2 DEF Contents
    <2>1. /\ filePtr[g] + i - 1 \in Addrs /\ filePtr[g] \in Nat /\ i \in Nat
      BY BlockIs
    <2>2. \/ mem[filePtr[g] + i - 1] = written[g][i]
          \/ (i % MEM_MIN_SIZE = 0 /\ i < length[g])
      BY DEF Contents
    <2>3. CASE g # f
      <3>1. ~(filePtr[f] <= filePtr[g] + i - 1 /\ filePtr[g] + i - 1 < filePtr[f] + length[f])
        BY <1>3, <2>3, BytesApart
      <3>2. mem'[filePtr[g] + i - 1] = mem[filePtr[g] + i - 1]
        BY <1>3, <1>4, <1>5, <1>6, <2>1, <3>1
      <3>3. QED
        BY <1>8, <2>2, <2>3, <3>2
    <2>4. CASE g = f
      <3>1. (filePtr[f] + i - 1) - p + 1 = i - offset
        BY <2>1, <2>4 DEF p
      <3>2. p <= filePtr[f] + i - 1 /\ filePtr[f] + i - 1 < p + n <=> i - offset \in 1 .. n
        BY <2>1, <2>4 DEF p
      <3>3. CASE i - offset \in 1 .. n
        <4> DEFINE a == filePtr[f] + i - 1
        <4>0. a \in Addrs /\ p <= a /\ a < p + n /\ a - p + 1 = i - offset
          <5>1. a \in Addrs
            BY <2>1, <2>4
          <5>2. QED
            BY <3>1, <3>2, <3>3, <5>1, Zenon
        <4>1. mem'[a] = s[i - offset]
          <5> HIDE DEF a
          <5>1. mem'[a] = s[a - p + 1]
            BY <1>5, <4>0
          <5>2. QED
            BY <4>0, <5>1
        <4>2. written'[f][i] = s[i - offset]
          BY <1>8, <2>4, <3>3
        <4>3. QED
          BY <2>4, <4>1, <4>2
      <3>4. CASE i - offset \notin 1 .. n
        <4>1. mem'[filePtr[f] + i - 1] = mem[filePtr[f] + i - 1]
          BY <1>5, <2>1, <2>4, <3>2, <3>4
        <4>2. written'[f][i] = written[f][i]
          BY <1>8, <2>4, <3>4
        <4>3. QED
          BY <2>2, <2>4, <4>1, <4>2
      <3>5. QED
        BY <3>3, <3>4
    <2>5. QED
      BY <2>3, <2>4
  <1>14. QED
    BY <1>9, <1>10, <1>11, <1>12, <1>13

\* A refused request leaves its marker and a copy at NULL behind, at the limit.
LEMMA RefusedInv ==
  ASSUME IndInv, NEW n \in Nat, n <= MAX_REQUEST, ~Fits(n), mem' = Marked(n),
         lowmem' \in BOOLEAN, UNCHANGED <<CurrentPointer, fileVars>>
  PROVE  IndInv'
  <1> USE DEF IndInv
  <1>1. UNCHANGED <<CurrentPointer, filePtr, length, written>>
    BY DEF fileVars
  <1>2. /\ DOMAIN mem' = Addrs /\ CurrentPointer + RoundUp(n) \in Nat
        /\ mem' = [a \in Addrs |-> mem'[a]]
        /\ \A a \in Addrs :
             IF CurrentPointer + RoundUp(n) <= a /\ a < CurrentPointer + RoundUp(n) + MEM_MIN_SIZE
             THEN mem'[a] = MarkByte(a % MEM_MIN_SIZE)
             ELSE mem'[a] = mem[a]
    BY MarkedAt
  <1>3. AtLimit'
    <2>1. RoundUp(n) \in Nat /\ RoundUp(n) <= RoundUp(MAX_REQUEST) /\ RoundUp(MAX_REQUEST) \in Nat
      BY Rounds, Geometry
    <2>2. CurrentPointer \in Nat /\ HeapEnd \in Nat
      BY PointerIs, Geometry
    <2>3. ~(CurrentPointer + RoundUp(n) <= HeapEnd)
      BY DEF Fits
    <2>4. QED
      BY <1>1, <2>1, <2>2, <2>3 DEF AtLimit
  <1>4. \A a \in Addrs : a \in Nat /\ a % MEM_MIN_SIZE \in Nat
    BY Geometry, Rounds
  <1>5. TypeOK'
    <2>1. \A a \in Addrs : mem'[a] \in Int
      BY <1>2, <1>4, PointerIs DEF MarkByte
    <2>2. mem' \in [Addrs -> Int]
      BY <1>2, <2>1
    <2>3. HeapTypeOK'
      BY <1>1, <2>2 DEF TypeOK, HeapTypeOK
    <2>4. QED
      BY <1>1, <2>3 DEF TypeOK
  <1>6. BlocksAligned' /\ BlocksApart'
    BY <1>1 DEF BlocksAligned, BlocksApart
  <1>7. MarksAligned'
    BY <1>2 DEF MarksAligned
  <1>8. WrittenBelow'
    BY <1>3 DEF WrittenBelow
  <1>9. Contents'
    <2> SUFFICES ASSUME NEW g \in Files, NEW i \in 1 .. length[g]
                 PROVE  mem'[filePtr[g] + i - 1] = mem[filePtr[g] + i - 1]
      BY <1>1 DEF Contents
    <2>1. /\ filePtr[g] + i - 1 \in Addrs /\ filePtr[g] \in Nat /\ length[g] \in Nat
          /\ filePtr[g] + length[g] <= CurrentPointer
      BY BlockIs
    <2>2. RoundUp(n) \in Nat /\ CurrentPointer \in Nat
      BY Rounds, PointerIs
    <2>3. QED
      BY <1>2, <2>1, <2>2
  <1>10. QED
    BY <1>5, <1>6, <1>7, <1>8, <1>9

\* A block that fits and is written, with its marker, changes nothing below it and
\* nothing behind the marker.
LEMMA Allocated ==
  ASSUME IndInv, NEW n \in Nat, Fits(n), CurrentPointer' = Advanced(n), lowmem' = lowmem,
         DOMAIN mem' = Addrs, mem' = [a \in Addrs |-> mem'[a]],
         \A a \in Addrs : a < CurrentPointer \/ a >= CurrentPointer + RoundUp(n) + MEM_MIN_SIZE =>
                            mem'[a] = mem[a],
         MarksAligned'
  PROVE  /\ HeapTypeOK' /\ WrittenBelow'
         /\ CurrentPointer' = CurrentPointer + RoundUp(n) /\ RoundUp(n) \in Nat
         /\ \A g \in Files : \A i \in 1 .. length[g] :
               mem'[filePtr[g] + i - 1] = mem[filePtr[g] + i - 1]
  <1> USE DEF IndInv
  <1>1. /\ CurrentPointer' = CurrentPointer + RoundUp(n) /\ CurrentPointer + RoundUp(n) <= HeapEnd
        /\ RoundUp(n) \in Nat /\ RoundUp(n) % MEM_MIN_SIZE = 0
    BY Rounds DEF Fits, Advanced
  <1>2. /\ CurrentPointer \in Nat /\ CurrentPointer % MEM_MIN_SIZE = 0 /\ HeapMem <= CurrentPointer
        /\ HeapMem \in Nat /\ HeapEnd \in Nat
    BY PointerIs, Geometry
  <1>3. CurrentPointer' \in HeapMem .. HeapEnd /\ CurrentPointer' >= CurrentPointer
    BY <1>1, <1>2
  <1>4. CurrentPointer' % MEM_MIN_SIZE = 0
    <2>1. (CurrentPointer + RoundUp(n)) % MEM_MIN_SIZE = 0
      BY <1>1, <1>2, WordSums, Zenon
    <2>2. QED
      BY <1>1, <2>1
  <1>5. \A a \in Addrs : mem'[a] \in Int
    <2> SUFFICES ASSUME NEW a \in Addrs PROVE mem'[a] \in Int
      OBVIOUS
    <2>1. a % MEM_MIN_SIZE \in Int
      BY Geometry, Rounds
    <2>2. QED
      BY <2>1 DEF MarksAligned, MarkByte
  <1>6. HeapTypeOK'
    BY <1>3, <1>4, <1>5 DEF TypeOK, HeapTypeOK
  <1>7. WrittenBelow'
    <2>1. ASSUME AtLimit PROVE AtLimit'
      BY <1>2, <1>3, <2>1, Geometry DEF AtLimit
    <2>2. \A a \in Addrs : a >= CurrentPointer' + MEM_MIN_SIZE =>
             mem'[a] = mem[a] /\ a >= CurrentPointer + MEM_MIN_SIZE
      BY <1>1, <1>2, Geometry, Rounds
    <2>3. QED
      BY <2>1, <2>2 DEF WrittenBelow
  <1>8. ASSUME NEW g \in Files, NEW i \in 1 .. length[g]
        PROVE  mem'[filePtr[g] + i - 1] = mem[filePtr[g] + i - 1]
    <2>1. /\ filePtr[g] + i - 1 \in Addrs /\ filePtr[g] \in Nat /\ length[g] \in Nat
          /\ filePtr[g] + length[g] <= CurrentPointer
      BY BlockIs
    <2>2. QED
      BY <1>2, <2>1
  <1>9. QED
    BY <1>1, <1>6, <1>7, <1>8

\* A block of somebody else.
LEMMA OtherAllocInv ==
  ASSUME IndInv, NEW n \in Nat, n <= MAX_REQUEST, OtherAlloc(n) PROVE IndInv'
  <1> USE DEF IndInv
  <1>1. CASE ~Fits(n)
    <2>1. mem' = Marked(n) /\ UNCHANGED <<CurrentPointer, lowmem, fileVars>>
      BY <1>1 DEF OtherAlloc, Advanced
    <2>2. lowmem' \in BOOLEAN
      BY <2>1 DEF TypeOK, HeapTypeOK
    <2>3. QED
      BY <1>1, <2>1, <2>2, RefusedInv
  <1>2. CASE Fits(n)
    <2> DEFINE b == [i \in 1 .. n |-> FOREIGN]
    <2>1. mem' = Put(Marked(n), CurrentPointer, b) /\ DOMAIN b = 1 .. n
      BY <1>2 DEF OtherAlloc
    <2>2. CurrentPointer' = Advanced(n) /\ UNCHANGED <<lowmem, filePtr, length, written>>
      BY DEF OtherAlloc, fileVars
    <2>3. CurrentPointer \in Nat /\ RoundUp(n) \in Nat /\ n <= RoundUp(n) /\ MEM_MIN_SIZE \in Nat
      BY PointerIs, Rounds
    <2>4. \A a \in Addrs : a \in Nat
      BY Geometry
    <2>5. /\ DOMAIN Marked(n) = Addrs
          /\ \A a \in Addrs :
               IF CurrentPointer + RoundUp(n) <= a /\ a < CurrentPointer + RoundUp(n) + MEM_MIN_SIZE
               THEN Marked(n)[a] = MarkByte(a % MEM_MIN_SIZE)
               ELSE Marked(n)[a] = mem[a]
      BY MarkedAt
    <2>6. \A i \in 1 .. n : b[i] \in Nat
      BY RamFileAssumption
    <2> HIDE DEF b
    <2>7. /\ DOMAIN mem' = Addrs /\ mem' = [a \in Addrs |-> mem'[a]]
          /\ \A a \in Addrs : mem'[a] = IF CurrentPointer <= a /\ a < CurrentPointer + n
                                        THEN b[a - CurrentPointer + 1] ELSE Marked(n)[a]
      BY <2>1, <2>3, <2>5, PutAt
    <2>8. \A a \in Addrs : a < CurrentPointer \/ a >= CurrentPointer + RoundUp(n) + MEM_MIN_SIZE =>
                              mem'[a] = mem[a]
      BY <2>3, <2>4, <2>5, <2>7
    <2>9. MarksAligned'
      <3> SUFFICES ASSUME NEW a \in Addrs
                   PROVE  mem'[a] \in Nat \/ mem'[a] = MarkByte(a % MEM_MIN_SIZE)
        BY DEF MarksAligned
      <3>1. CASE CurrentPointer <= a /\ a < CurrentPointer + n
        <4>1. a - CurrentPointer + 1 \in 1 .. n
          BY <2>3, <2>4, <3>1
        <4>2. QED
          BY <2>6, <2>7, <3>1, <4>1
      <3>2. CASE ~(CurrentPointer <= a /\ a < CurrentPointer + n)
        BY <2>5, <2>7, <3>2 DEF MarksAligned
      <3>3. QED
        BY <3>1, <3>2
    <2>10. /\ HeapTypeOK' /\ WrittenBelow'
           /\ CurrentPointer' = CurrentPointer + RoundUp(n)
           /\ \A g \in Files : \A i \in 1 .. length[g] :
                 mem'[filePtr[g] + i - 1] = mem[filePtr[g] + i - 1]
      BY <1>2, <2>2, <2>7, <2>8, <2>9, Allocated
    <2>11. TypeOK'
      BY <2>2, <2>10 DEF TypeOK
    <2>12. BlocksAligned'
      BY <2>2 DEF BlocksAligned
    <2>13. BlocksApart'
      <3>1. \A g \in Files : length[g] > 0 => filePtr[g] + RoundUp(length[g]) \in Nat
        <4>1. \A g \in Files : length[g] > 0 => filePtr[g] \in Nat /\ length[g] \in Nat
          BY BlockIs
        <4>2. \A k \in Nat : RoundUp(k) \in Nat
          BY Rounds
        <4>3. QED
          BY <4>1, <4>2
      <3>2. CurrentPointer' <= HeapEnd
        BY <2>11, Geometry DEF TypeOK, HeapTypeOK
      <3>3. QED
        BY <2>2, <2>3, <2>10, <3>1, <3>2 DEF BlocksApart
    <2>14. Contents'
      BY <2>2, <2>10 DEF Contents
    <2>15. QED
      BY <2>9, <2>10, <2>11, <2>12, <2>13, <2>14
  <1>3. QED
    BY <1>1, <1>2

\* A write past the end of a file moves it to a new block, but for a byte at the end of
\* a word.
LEMMA WriteGrowsInv ==
  ASSUME IndInv, NEW f \in Files, NEW n \in Nat \ {0}, NEW offset \in Nat, NEW s \in Buffers(n),
         offset + n <= MAX_REQUEST, WriteGrows(f, s, offset)
  PROVE  IndInv'
  <1> USE DEF IndInv
  <1> DEFINE newLen == offset + n
             ptr == filePtr[f]
             old == OldSize(ptr, newLen)
             moved == IF ptr = NULL THEN Marked(newLen) ELSE Copied(ptr, newLen)
             p == CurrentPointer + offset
  <1>1. Len(s) = n /\ DOMAIN s = 1 .. n /\ \A i \in 1 .. n : s[i] \in Data /\ s[i] \in Nat
    BY BufferIs
  <1>2. /\ offset <= length[f] /\ newLen > length[f] /\ Fits(newLen)
        /\ mem' = Put(moved, p, s)
        /\ CurrentPointer' = Advanced(newLen) /\ lowmem' = lowmem
        /\ filePtr' = [filePtr EXCEPT ![f] = CurrentPointer]
        /\ length' = [length EXCEPT ![f] = newLen]
        /\ written' = [written EXCEPT ![f] = Overwritten(written[f], offset, s)]
    BY <1>1 DEF WriteGrows
  <1>3. /\ CurrentPointer \in Nat /\ CurrentPointer % MEM_MIN_SIZE = 0 /\ HeapMem <= CurrentPointer
        /\ RoundUp(newLen) \in Nat /\ newLen <= RoundUp(newLen) /\ MEM_MIN_SIZE \in Nat \ {0}
        /\ newLen \in Nat /\ newLen > 0 /\ p \in Nat
    BY PointerIs, Rounds
  <1>4. \A a \in Addrs : a \in Nat
    BY Geometry
  <1>5. /\ DOMAIN Marked(newLen) = Addrs
        /\ \A a \in Addrs :
             IF CurrentPointer + RoundUp(newLen) <= a /\ a < CurrentPointer + RoundUp(newLen) + MEM_MIN_SIZE
             THEN Marked(newLen)[a] = MarkByte(a % MEM_MIN_SIZE)
             ELSE Marked(newLen)[a] = mem[a]
    BY <1>3, MarkedAt
  <1>6. /\ length[f] \in Nat
        /\ ptr = NULL <=> length[f] = 0
        /\ ptr # NULL => ptr \in Nat /\ ptr % MEM_MIN_SIZE = 0 /\ ptr + length[f] <= CurrentPointer
                         /\ HeapMem <= ptr
    BY BlockIs DEF BlocksAligned
  <1>7. old \in 0 .. newLen
    BY <1>3, ScannedIs
  <1>8. CurrentPointer + RoundUp(newLen) <= HeapEnd /\ HeapEnd \in Nat /\ HeapMem \in Nat
    BY <1>2, Geometry DEF Fits
  <1>9. \A a \in Nat : HeapMem <= a /\ a < HeapEnd => a \in Addrs
    BY <1>8, Geometry
  <1> HIDE DEF newLen, ptr, old, p, moved
  \* The bytes krealloc moves.
  <1>10. /\ DOMAIN moved = Addrs
         /\ \A a \in Addrs :
              moved[a] = IF ptr # NULL /\ CurrentPointer <= a /\ a < CurrentPointer + old
                         THEN Marked(newLen)[ptr + (a - CurrentPointer)] ELSE Marked(newLen)[a]
    <2>1. CASE ptr = NULL
      BY <1>5, <2>1 DEF moved
    <2>2. CASE ptr # NULL
      <3> DEFINE g == Get(Marked(newLen), ptr, old)
      <3>1. DOMAIN g = 1 .. old /\ \A i \in 1 .. old : g[i] = Marked(newLen)[ptr + i - 1]
        BY DEF Get
      <3>2. moved = Put(Marked(newLen), CurrentPointer, g)
        BY <2>2 DEF moved, Copied, old
      <3>3. old \in Nat /\ CurrentPointer \in Int
        BY <1>3, <1>7
      <3> HIDE DEF g
      <3>4. /\ DOMAIN moved = Addrs
            /\ \A a \in Addrs : moved[a] = IF CurrentPointer <= a /\ a < CurrentPointer + old
                                          THEN g[a - CurrentPointer + 1] ELSE Marked(newLen)[a]
        BY <1>5, <3>1, <3>2, <3>3, PutAt
      <3>5. ASSUME NEW a \in Addrs, CurrentPointer <= a, a < CurrentPointer + old
            PROVE  g[a - CurrentPointer + 1] = Marked(newLen)[ptr + (a - CurrentPointer)]
        <4>1. /\ a - CurrentPointer + 1 \in 1 .. old
              /\ ptr + (a - CurrentPointer + 1) - 1 = ptr + (a - CurrentPointer)
          BY <1>3, <1>4, <1>6, <2>2, <3>3, <3>5
        <4>2. QED
          BY <3>1, <4>1
      <3>6. QED
        BY <2>2, <3>4, <3>5
    <2>3. QED
      BY <2>1, <2>2
  <1>11. /\ DOMAIN mem' = Addrs /\ mem' = [a \in Addrs |-> mem'[a]]
         /\ \A a \in Addrs : mem'[a] = IF p <= a /\ a < p + n THEN s[a - p + 1] ELSE moved[a]
    BY <1>1, <1>2, <1>3, <1>10, PutAt
  <1>12. \A a \in Addrs : a < CurrentPointer \/ a >= CurrentPointer + RoundUp(newLen) + MEM_MIN_SIZE =>
                             mem'[a] = mem[a]
    <2> SUFFICES ASSUME NEW a \in Addrs,
                        a < CurrentPointer \/ a >= CurrentPointer + RoundUp(newLen) + MEM_MIN_SIZE
                 PROVE  mem'[a] = mem[a]
      OBVIOUS
    <2>1. a \in Nat /\ p + n = CurrentPointer + newLen /\ CurrentPointer <= p
      BY <1>3, <1>4 DEF p, newLen
    <2>2. ~(p <= a /\ a < p + n) /\ ~(CurrentPointer <= a /\ a < CurrentPointer + old)
      BY <1>3, <1>7, <2>1
    <2>3. mem'[a] = Marked(newLen)[a]
      BY <1>10, <1>11, <2>2
    <2>4. QED
      BY <1>3, <1>5, <2>1, <2>3
  <1>13. MarksAligned'
    <2> SUFFICES ASSUME NEW a \in Addrs
                 PROVE  mem'[a] \in Nat \/ mem'[a] = MarkByte(a % MEM_MIN_SIZE)
      BY DEF MarksAligned
    <2>1. \A b \in Addrs : Marked(newLen)[b] \in Nat \/ Marked(newLen)[b] = MarkByte(b % MEM_MIN_SIZE)
      BY <1>5 DEF MarksAligned
    <2>2. CASE p <= a /\ a < p + n
      <3>1. a - p + 1 \in 1 .. n
        BY <1>3, <1>4, <2>2
      <3>2. QED
        BY <1>1, <1>11, <2>2, <3>1
    <2>3. CASE ~(p <= a /\ a < p + n) /\ ptr # NULL /\ CurrentPointer <= a /\ a < CurrentPointer + old
      <3> DEFINE d == a - CurrentPointer
      <3>1. /\ d \in Nat /\ ptr + d \in Nat /\ HeapMem <= ptr + d /\ ptr + d < HeapEnd
            /\ a = CurrentPointer + d
        BY <1>3, <1>4, <1>6, <1>7, <1>8, <2>3
      <3> HIDE DEF d
      <3>2. ptr + d \in Addrs
        BY <1>9, <3>1
      <3>3. (CurrentPointer + d) % MEM_MIN_SIZE = d % MEM_MIN_SIZE
        BY <1>3, <3>1, ModAdd, Zenon
      <3>4. (ptr + d) % MEM_MIN_SIZE = d % MEM_MIN_SIZE
        BY <1>3, <1>6, <2>3, <3>1, ModAdd, ZenonT(30)
      <3>5. mem'[a] = Marked(newLen)[ptr + d]
        BY <1>10, <1>11, <2>3 DEF d
      <3>6. QED
        BY <2>1, <3>1, <3>2, <3>3, <3>4, <3>5
    <2>4. CASE ~(p <= a /\ a < p + n) /\ ~(ptr # NULL /\ CurrentPointer <= a /\ a < CurrentPointer + old)
      BY <1>10, <1>11, <2>1, <2>4
    <2>5. QED
      BY <2>2, <2>3, <2>4
  <1>14. /\ HeapTypeOK' /\ WrittenBelow'
         /\ CurrentPointer' = CurrentPointer + RoundUp(newLen)
         /\ \A g \in Files : \A i \in 1 .. length[g] :
               mem'[filePtr[g] + i - 1] = mem[filePtr[g] + i - 1]
    BY <1>2, <1>3, <1>11, <1>12, <1>13, Allocated
  <1>15. /\ filePtr'[f] = CurrentPointer /\ length'[f] = newLen
         /\ \A g \in Files \ {f} : filePtr'[g] = filePtr[g] /\ length'[g] = length[g]
                                   /\ written'[g] = written[g]
         /\ DOMAIN written' = Files /\ written'[f] = Overwritten(written[f], offset, s)
    BY <1>2 DEF TypeOK
  <1>16. Overwritten(written[f], offset, s) =
           [i \in 1 .. newLen |-> IF i - offset \in 1 .. n THEN s[i - offset] ELSE written[f][i]]
    <2>1. Len(written[f]) = length[f]
      BY <1>6, BlockIs DEF TypeOK
    <2>2. QED
      BY <1>1, <1>2, <1>6, <2>1 DEF Overwritten, newLen
  <1>17. \A i \in 1 .. newLen : i - offset \notin 1 .. n => i \in 1 .. length[f] /\ i <= offset
    BY <1>2, <1>3, <1>6 DEF newLen
  <1>18. TypeOK'
    <2>1. \A i \in 1 .. newLen :
             (IF i - offset \in 1 .. n THEN s[i - offset] ELSE written[f][i]) \in Data
      BY <1>1, <1>17, BlockIs
    <2>2. \A g \in Files : written'[g] \in [1 .. length'[g] -> Data]
      <3>1. written'[f] \in [1 .. length'[f] -> Data]
        BY <1>15, <1>16, <2>1
      <3>2. \A g \in Files \ {f} : written'[g] \in [1 .. length'[g] -> Data]
        BY <1>15 DEF TypeOK
      <3>3. QED
        BY <3>1, <3>2
    <2>3. CurrentPointer \in HeapMem .. HeapEnd /\ newLen \in 0 .. MAX_REQUEST
      BY <1>3, Geometry DEF newLen, TypeOK, HeapTypeOK
    <2>4. filePtr' \in [Files -> (HeapMem .. HeapEnd) \cup {NULL}] /\ length' \in [Files -> 0 .. MAX_REQUEST]
      BY <1>2, <2>3 DEF TypeOK
    <2>5. QED
      BY <1>14, <1>15, <2>2, <2>4 DEF TypeOK
  <1>19. BlocksAligned'
    BY <1>3, <1>15 DEF BlocksAligned, NULL
  <1>20. BlocksApart'
    <2>1. \A g \in Files : length[g] > 0 => filePtr[g] + RoundUp(length[g]) \in Nat /\ filePtr[g] \in Nat
      <3>1. \A g \in Files : length[g] > 0 => filePtr[g] \in Nat /\ length[g] \in Nat
        BY BlockIs
      <3>2. \A k \in Nat : RoundUp(k) \in Nat
        BY Rounds
      <3>3. QED
        BY <3>1, <3>2
    <2>2. CurrentPointer' <= HeapEnd /\ CurrentPointer' \in Nat
      BY <1>3, <1>8, <1>14
    <2>3. \A g \in Files \ {f} : length[g] > 0 => filePtr[g] + RoundUp(length[g]) <= CurrentPointer
      BY DEF BlocksApart
    <2>4. \A g \in Files \ {f} : length[g] > 0 => filePtr'[g] + RoundUp(length'[g]) <= CurrentPointer'
      BY <1>3, <1>14, <1>15, <2>1, <2>3
    <2>5. filePtr'[f] + RoundUp(length'[f]) <= CurrentPointer'
      BY <1>3, <1>14, <1>15
    <2>6. \A g, h \in Files : g # h /\ length'[g] > 0 /\ length'[h] > 0 =>
             \/ filePtr'[g] + RoundUp(length'[g]) <= filePtr'[h]
             \/ filePtr'[h] + RoundUp(length'[h]) <= filePtr'[g]
      <3> SUFFICES ASSUME NEW g \in Files, NEW h \in Files, g # h, length'[g] > 0, length'[h] > 0
                   PROVE  \/ filePtr'[g] + RoundUp(length'[g]) <= filePtr'[h]
                          \/ filePtr'[h] + RoundUp(length'[h]) <= filePtr'[g]
        OBVIOUS
      <3>1. CASE g = f
        BY <1>15, <2>3, <3>1
      <3>2. CASE h = f
        BY <1>15, <2>3, <3>2
      <3>3. CASE g # f /\ h # f
        BY <1>15, <3>3 DEF BlocksApart
      <3>4. QED
        BY <3>1, <3>2, <3>3
    <2>7. QED
      BY <1>15, <2>2, <2>4, <2>5, <2>6 DEF BlocksApart
  <1>21. Contents'
    <2> SUFFICES ASSUME NEW g \in Files, NEW i \in 1 .. length'[g]
                 PROVE  \/ mem'[filePtr'[g] + i - 1] = written'[g][i]
                        \/ (i % MEM_MIN_SIZE = 0 /\ i < length'[g])
      BY DEF Contents
    <2>1. CASE g # f
      BY <1>14, <1>15, <2>1 DEF Contents
    <2>2. CASE g = f
      <3>1. i \in 1 .. newLen /\ i \in Nat
        BY <1>3, <1>15, <2>2
      <3> DEFINE a == CurrentPointer + i - 1
      <3>2. a \in Addrs
        BY <1>3, <1>8, <1>9, <3>1
      <3>3. (p <= a /\ a < p + n <=> i - offset \in 1 .. n) /\ a - p + 1 = i - offset
        BY <1>3, <3>1 DEF p
      <3>4. a - CurrentPointer = i - 1
        BY <1>3, <3>1
      <3>5. CASE i - offset \in 1 .. n
        <4>1. mem'[a] = s[i - offset]
          BY <1>11, <3>2, <3>3, <3>5
        <4>2. written'[f][i] = s[i - offset]
          BY <1>15, <1>16, <3>1, <3>5
        <4>3. QED
          BY <1>15, <2>2, <4>1, <4>2
      <3>6. CASE i - offset \notin 1 .. n
        <4>1. i \in 1 .. length[f] /\ length[f] > 0 /\ ptr # NULL /\ i < newLen
          BY <1>2, <1>3, <1>6, <1>17, <3>1, <3>6
        <4>2. written'[f][i] = written[f][i]
          BY <1>15, <1>16, <3>1, <3>6
        <4>3. CASE i > old
          <5>1. i % MEM_MIN_SIZE = 0
            BY <1>2, <1>3, <4>1, <4>3, CopiesAlmostAll DEF old, ptr
          <5>2. QED
            BY <1>15, <2>2, <4>1, <5>1
        <4>4. CASE i <= old
          <5>1. mem'[a] = moved[a]
            BY <1>11, <3>2, <3>3, <3>6
          <5>2. CurrentPointer <= a /\ a < CurrentPointer + old
            BY <1>3, <1>7, <3>1, <4>4
          <5>3. moved[a] = Marked(newLen)[ptr + (i - 1)]
            BY <1>10, <3>2, <3>4, <4>1, <5>2
          <5>4. /\ ptr + (i - 1) = ptr + i - 1 /\ ptr + (i - 1) \in Nat /\ ptr + (i - 1) < CurrentPointer
                /\ ptr + (i - 1) \in Addrs
            BY <1>3, <1>6, <1>8, <1>9, <3>1, <4>1
          <5>5. Marked(newLen)[ptr + (i - 1)] = mem[ptr + i - 1]
            BY <1>3, <1>5, <5>4
          <5>6. \/ mem[ptr + i - 1] = written[f][i]
                \/ (i % MEM_MIN_SIZE = 0 /\ i < length[f])
            BY <4>1 DEF Contents, ptr
          <5>7. i < length'[f]
            BY <1>15, <4>1
          <5>8. mem'[filePtr'[f] + i - 1] = mem[ptr + i - 1]
            BY <1>15, <5>1, <5>3, <5>5
          <5>9. QED
            BY <2>2, <4>2, <5>6, <5>7, <5>8
        <4>5. QED
          BY <1>3, <1>7, <3>1, <4>3, <4>4
      <3>7. QED
        BY <3>5, <3>6
    <2>3. QED
      BY <2>1, <2>2
  <1>22. QED
    BY <1>13, <1>14, <1>18, <1>19, <1>20, <1>21

\* Every step preserves the inductive invariant.
LEMMA StepIndInv == IndInv /\ [Next]_vars => IndInv'
  <1> SUFFICES ASSUME IndInv, [Next]_vars PROVE IndInv'
    OBVIOUS
  <1>1. ASSUME NEW f \in Files, NEW n \in 1 .. MAX_REQUEST, NEW offset \in 0 .. MAX_REQUEST,
               n + offset <= MAX_REQUEST, NEW s \in Buffers(n),
               WriteInPlace(f, s, offset) \/ WriteRefused(f, s, offset) \/ WriteGrows(f, s, offset)
        PROVE  IndInv'
    <2>1. /\ n \in Nat \ {0} /\ offset \in Nat /\ offset + n \in Nat
          /\ offset + n <= MAX_REQUEST /\ Len(s) = n
      BY <1>1, BufferIs, Geometry
    <2>2. CASE WriteInPlace(f, s, offset)
      BY <2>1, <2>2, WriteInPlaceInv
    <2>3. CASE WriteGrows(f, s, offset)
      BY <2>1, <2>3, WriteGrowsInv
    <2>4. CASE WriteRefused(f, s, offset)
      <3>1. /\ ~Fits(offset + n) /\ mem' = Marked(offset + n)
            /\ UNCHANGED <<CurrentPointer, fileVars>>
        BY <2>1, <2>4 DEF WriteRefused
      <3>2. lowmem' \in BOOLEAN
        BY <2>4, Zenon DEF WriteRefused
      <3>3. QED
        BY <2>1, <3>1, <3>2, RefusedInv
    <2>5. QED
      BY <1>1, <2>2, <2>3, <2>4
  <1>2. ASSUME NEW size \in 1 .. MAX_REQUEST, OtherAlloc(size) PROVE IndInv'
    BY <1>2, OtherAllocInv, Geometry
  <1>3. CASE UNCHANGED vars
    BY <1>3 DEF IndInv, TypeOK, HeapTypeOK, BlocksAligned, BlocksApart, MarksAligned, WrittenBelow,
          AtLimit, Contents, vars, heapVars, fileVars
  <1>4. QED
    BY <1>1, <1>2, <1>3 DEF Next

\* The inductive invariant holds throughout.
LEMMA AlwaysIndInv == Spec => []IndInv
  BY InitIndInv, StepIndInv, PTL DEF Spec

\* However often files grow and move, and whatever requests are refused, the blocks of two
\* files share no byte and lie within the heap.
THEOREM FilesApart == Spec => []BlocksApart
  <1>1. IndInv => BlocksApart
    BY DEF IndInv
  <1>2. QED
    BY <1>1, AlwaysIndInv, PTL

\* Nothing is written outside the array of the heap before the longest request no longer
\* fits: neither the marker behind a block nor a copy to NULL.
THEOREM NoStrayBeforeLimit == Spec => []StrayOnlyAtLimit
  <1>1. IndInv => StrayOnlyAtLimit
    <2> SUFFICES ASSUME IndInv, ~AtLimit, NEW a \in Addrs, a >= HEAP_START + HEAP_SIZE, mem[a] # UNUSED
                 PROVE  FALSE
      BY DEF StrayOnlyAtLimit, AtLimit, IndInv, WrittenBelow
    <2>1. /\ CurrentPointer \in Nat /\ CurrentPointer % MEM_MIN_SIZE = 0 /\ MEM_MIN_SIZE \in Nat
          /\ a \in Nat /\ HeapEnd \in Nat /\ HeapEnd % MEM_MIN_SIZE = 0
          /\ RoundUp(MAX_REQUEST) \in Nat
      BY PointerIs, Rounds, Geometry DEF IndInv
    <2>2. a < CurrentPointer + MEM_MIN_SIZE
      BY <2>1 DEF IndInv, WrittenBelow
    <2>3. a + MEM_MIN_SIZE > HeapEnd
      <3>1. /\ HeapMem < HEAP_START + MEM_MIN_SIZE /\ HeapEnd = HeapMem + HEAP_SIZE
            /\ HeapMem \in Nat /\ HEAP_START \in Nat /\ HEAP_SIZE \in Nat
        BY Geometry
      <3>2. QED
        BY <2>1, <3>1
    <2>4. CurrentPointer + 2 * MEM_MIN_SIZE > HeapEnd
      BY <2>1, <2>2, <2>3
    <2>5. CurrentPointer + MEM_MIN_SIZE >= HeapEnd
      BY <2>1, <2>4, WordGap, Zenon
    <2>6. RoundUp(MAX_REQUEST) > MEM_MIN_SIZE
      BY Geometry
    <2>7. QED
      BY <2>1, <2>5, <2>6 DEF AtLimit
  <1>2. QED
    BY <1>1, AlwaysIndInv, PTL

\* A file reads back what was written to it, but for the last bytes of words that krealloc
\* left out, and its own last byte is always right.
THEOREM ReadsBack == Spec => []OnlyWordEndsLost
  <1>1. IndInv => OnlyWordEndsLost
    <2> SUFFICES ASSUME IndInv, NEW f \in Files, NEW i \in 1 .. length[f],
                        ~(i % MEM_MIN_SIZE = 0 /\ i < length[f])
                 PROVE  Read(f, 1, i - 1) = <<written[f][i]>>
      BY DEF OnlyWordEndsLost
    <2>1. filePtr[f] \in Nat /\ length[f] \in Nat /\ i \in Nat
      BY BlockIs DEF IndInv
    <2>2. mem[filePtr[f] + i - 1] = written[f][i]
      BY DEF IndInv, Contents
    <2>3. Read(f, 1, i - 1) = Get(mem, filePtr[f] + (i - 1), 1)
      BY <2>1 DEF Read
    <2>4. filePtr[f] + (i - 1) + 1 - 1 = filePtr[f] + i - 1
      BY <2>1
    <2>5. QED
      BY <2>2, <2>3, <2>4 DEF Get
  <1>2. QED
    BY <1>1, AlwaysIndInv, PTL

-----------------------------------------------------------------------------
(* Reachability.  s gives the successors of every node. *)

\* No successor of a node of C is outside C.
Closed(s, C) == \A x \in C : s[x] \subseteq C

\* What is reached from node n.
From(s, n) == {m \in Nodes : \A C \in SUBSET Nodes : n \in C /\ Closed(s, C) => m \in C}

\* It is the least closed set with n in it.
LEMMA FromLeast ==
  ASSUME NEW s, NEW n, NEW C \in SUBSET Nodes, n \in C, Closed(s, C)
  PROVE  From(s, n) \subseteq C
  BY DEF From

\* It is a closed set with n in it.
LEMMA FromClosed ==
  ASSUME NEW s \in [Nodes -> SUBSET Nodes], NEW n \in Nodes
  PROVE  /\ From(s, n) \subseteq Nodes /\ n \in From(s, n)
         /\ \A x \in From(s, n) : s[x] \subseteq From(s, n)
  <1>1. From(s, n) \subseteq Nodes /\ n \in From(s, n)
    BY DEF From
  <1>2. ASSUME NEW x \in From(s, n), NEW y \in s[x]
        PROVE  y \in From(s, n)
    <2>1. x \in Nodes /\ y \in Nodes
      BY <1>1, <1>2
    <2>2. ASSUME NEW C \in SUBSET Nodes, n \in C, Closed(s, C)
          PROVE  y \in C
      BY <1>2, <2>2 DEF From, Closed
    <2>3. QED
      BY <2>1, <2>2 DEF From
  <1>3. QED
    BY <1>1, <1>2

\* Every node reached is n or a successor of one that is reached.
LEMMA FromReferrer ==
  ASSUME NEW s \in [Nodes -> SUBSET Nodes], NEW n \in Nodes, NEW m \in From(s, n), m # n
  PROVE  \E z \in From(s, n) : m \in s[z]
  <1> SUFFICES ASSUME \A z \in From(s, n) : m \notin s[z]
               PROVE  FALSE
    OBVIOUS
  <1> DEFINE C == From(s, n) \ {m}
  <1>1. C \in SUBSET Nodes /\ n \in C
    BY FromClosed
  <1>2. Closed(s, C)
    BY FromClosed DEF Closed
  <1>3. QED
    BY <1>1, <1>2, FromLeast

\* What is reached from a node reached is reached.
LEMMA FromWithin ==
  ASSUME NEW s \in [Nodes -> SUBSET Nodes], NEW n \in Nodes, NEW m \in From(s, n)
  PROVE  From(s, m) \subseteq From(s, n)
  <1>1. From(s, n) \in SUBSET Nodes /\ Closed(s, From(s, n))
    BY FromClosed DEF Closed
  <1>2. QED
    BY <1>1, FromLeast

\* What is reached from n, step by step.
LEMMA FromUnfold ==
  ASSUME NEW s \in [Nodes -> SUBSET Nodes], NEW n \in Nodes
  PROVE  From(s, n) = {n} \cup UNION {From(s, m) : m \in s[n]}
  <1> DEFINE C == {n} \cup UNION {From(s, m) : m \in s[n]}
  <1>1. s[n] \subseteq Nodes
    OBVIOUS
  <1>2. C \in SUBSET Nodes /\ n \in C
    BY <1>1, FromClosed
  <1>3. Closed(s, C)
    <2>1. ASSUME NEW y \in s[n] PROVE y \in C
      BY <1>1, FromClosed
    <2>2. ASSUME NEW m \in s[n], NEW x \in From(s, m), NEW y \in s[x] PROVE y \in C
      BY <1>1, FromClosed
    <2>3. QED
      BY <2>1, <2>2 DEF Closed
  <1>4. From(s, n) \subseteq C
    BY <1>2, <1>3, FromLeast
  <1>5. ASSUME NEW m \in s[n] PROVE From(s, m) \subseteq From(s, n)
    <2>1. m \in From(s, n)
      BY FromClosed
    <2>2. QED
      BY <2>1, FromWithin
  <1>6. QED
    BY <1>4, <1>5, FromClosed

\* If successors have greater numbers, no number less than n is reached.
LEMMA FromAhead ==
  ASSUME NEW s \in [Nodes -> SUBSET Nodes], NEW n \in Nodes,
         \A x \in Nodes : \A y \in s[x] : x < y
  PROVE  \A m \in From(s, n) : n <= m
  <1> DEFINE C == {m \in Nodes : n <= m}
  <1>0. Nodes \subseteq Int
    BY DEF Nodes
  <1>1. C \in SUBSET Nodes /\ n \in C
    BY <1>0
  <1>2. ASSUME NEW x \in C, NEW y \in s[x] PROVE y \in C
    <2>1. x \in Nodes /\ y \in Nodes /\ x < y /\ n <= x
      BY <1>0
    <2>2. QED
      BY <1>0, <2>1
  <1>3. Closed(s, C)
    BY <1>2 DEF Closed
  <1> HIDE DEF C
  <1>4. From(s, n) \subseteq C
    BY <1>1, <1>3, FromLeast
  <1>5. QED
    BY <1>4 DEF C

-----------------------------------------------------------------------------
(* The lists and the tree of a graph with pointers nx (next) and ch (children). *)

\* The successors of a node in its list, and in the tree.
NextSucc(nx) == [n \in Nodes |-> {nx[n]} \ {NULL}]
TreeSucc(nx, ch) == [n \in Nodes |-> {nx[n], ch[n]} \ {NULL}]

\* The list that starts at c, all that hangs from c, and the tree of the root.
List(nx, c) == IF c = NULL THEN {} ELSE From(NextSucc(nx), c)
Below(nx, ch, c) == IF c = NULL THEN {} ELSE From(TreeSucc(nx, ch), c)
Tree(nx, ch) == From(TreeSucc(nx, ch), ROOT)

\* A pointer leads to a node that was allocated later.
Ahead(nx) == \A n \in Nodes : nx[n] # NULL => n < nx[n]

\* One pointer for every node.
Pointer == [Nodes -> Refs]

\* The pointers of nodes g.
NextOf(g) == [n \in Nodes |-> g[n].next]
ChildOf(g) == [n \in Nodes |-> g[n].children]

\* Numbers of nodes.
LEMMA NodeNumbers ==
  /\ Nodes \subseteq Nat /\ ROOT \in Nodes /\ HEAP_NODES \in Nat /\ HEAP_NODES \in Nodes
  /\ \A n \in Nodes : n <= HEAP_NODES
  /\ NULL \notin Nodes /\ Refs = Nodes \cup {NULL}
  /\ \A n \in Nodes : 0 <= n
  <1>1. HEAP_NODES \in Nat
    BY RamFSAssumption
  <1>2. \A n \in Nodes : n \in Nat /\ n <= HEAP_NODES /\ 0 <= n /\ n # NULL
    BY <1>1 DEF Nodes, NULL
  <1>3. ROOT \in Nodes /\ HEAP_NODES \in Nodes
    BY <1>1 DEF Nodes, ROOT
  <1>4. QED
    BY <1>1, <1>2, <1>3 DEF Refs

\* Every set of nodes that is not empty has a last one.
LEMMA LastNode ==
  ASSUME NEW S \in SUBSET Nodes, S # {}
  PROVE  \E n \in S : \A m \in S : m <= n
  <1> DEFINE T == {HEAP_NODES - n : n \in S}
  <1>1. \A n \in S : HEAP_NODES - n \in Nat
    <2> TAKE n \in S
    <2>1. n \in Nat /\ HEAP_NODES \in Nat /\ n <= HEAP_NODES
      BY NodeNumbers
    <2>2. QED
      BY <2>1
  <1>2. PICK t \in T : \A m \in T : t <= m
    <2>1. T \in SUBSET Nat /\ T # {}
      BY <1>1
    <2>2. QED
      BY <2>1, Least
  <1>3. PICK n \in S : t = HEAP_NODES - n
    OBVIOUS
  <1>4. ASSUME NEW m \in S PROVE m <= n
    <2>1. HEAP_NODES - n <= HEAP_NODES - m
      BY <1>2, <1>3
    <2>2. m \in Nat /\ n \in Nat /\ HEAP_NODES \in Nat
      BY NodeNumbers
    <2>3. QED
      BY <2>1, <2>2
  <1>5. QED
    BY <1>4

\* Successors are nodes.
LEMMA SuccTypes ==
  ASSUME NEW nx \in Pointer, NEW ch \in Pointer
  PROVE  /\ NextSucc(nx) \in [Nodes -> SUBSET Nodes]
         /\ TreeSucc(nx, ch) \in [Nodes -> SUBSET Nodes]
         /\ \A n \in Nodes : NextSucc(nx)[n] = {nx[n]} \ {NULL}
         /\ \A n \in Nodes : TreeSucc(nx, ch)[n] = {nx[n], ch[n]} \ {NULL}
  BY NodeNumbers DEF Pointer, NextSucc, TreeSucc

\* A list, step by step.
LEMMA ListUnfold ==
  ASSUME NEW nx \in Pointer, NEW c \in Nodes
  PROVE  List(nx, c) = {c} \cup List(nx, nx[c])
  <1>1. From(NextSucc(nx), c) = {c} \cup UNION {From(NextSucc(nx), m) : m \in {nx[c]} \ {NULL}}
    BY SuccTypes, FromUnfold
  <1>2. QED
    BY <1>1, NodeNumbers DEF List

\* The nodes below and after a node, step by step.
LEMMA BelowUnfold ==
  ASSUME NEW nx \in Pointer, NEW ch \in Pointer, NEW c \in Nodes
  PROVE  Below(nx, ch, c) = {c} \cup Below(nx, ch, ch[c]) \cup Below(nx, ch, nx[c])
  <1>1. From(TreeSucc(nx, ch), c)
          = {c} \cup UNION {From(TreeSucc(nx, ch), m) : m \in {nx[c], ch[c]} \ {NULL}}
    BY SuccTypes, FromUnfold
  <1>2. QED
    BY <1>1, NodeNumbers DEF Below

\* The recursive equation for lists has one solution when nodes are linked in the order
\* of their numbers.
LEMMA ListSolution ==
  ASSUME NEW g, NextOf(g) \in Pointer, Ahead(NextOf(g))
  PROVE  (CHOOSE f : f = [n \in Refs |-> IF n = NULL THEN {} ELSE {n} \cup f[g[n].next]])
           = [n \in Refs |-> List(NextOf(g), n)]
  <1> DEFINE nx == NextOf(g)
             Eq(f) == f = [n \in Refs |-> IF n = NULL THEN {} ELSE {n} \cup f[g[n].next]]
             L == [n \in Refs |-> List(nx, n)]
  <1>0. nx \in Pointer /\ Ahead(nx) /\ \A n \in Nodes : nx[n] \in Refs /\ g[n].next = nx[n]
    BY DEF Pointer, NextOf
  <1> HIDE DEF nx
  <1>1. \A n \in Refs : L[n] = IF n = NULL THEN {} ELSE {n} \cup L[nx[n]]
    <2>1. L[NULL] = {}
      BY NodeNumbers DEF List
    <2>2. ASSUME NEW n \in Nodes PROVE L[n] = {n} \cup L[nx[n]]
      BY <1>0, NodeNumbers, ListUnfold
    <2>3. QED
      BY <2>1, <2>2, NodeNumbers
  <1>2. Eq(L)
    <2>1. \A n \in Refs : L[n] = IF n = NULL THEN {} ELSE {n} \cup L[g[n].next]
      BY <1>0, <1>1, NodeNumbers
    <2>2. QED
      BY <2>1
  <1>3. ASSUME NEW f, Eq(f) PROVE f = L
    <2>1. \A n \in Refs : f[n] = IF n = NULL THEN {} ELSE {n} \cup f[nx[n]]
      <3>1. \A n \in Refs : f[n] = IF n = NULL THEN {} ELSE {n} \cup f[g[n].next]
        BY <1>3
      <3>2. QED
        BY <3>1, <1>0, NodeNumbers
    <2>2. f = [n \in Refs |-> f[n]]
      BY <1>3
    <2> DEFINE Bad == {n \in Nodes : f[n] # L[n]}
    <2>3. Bad = {}
      <3> SUFFICES ASSUME Bad # {} PROVE FALSE
        OBVIOUS
      <3>1. PICK n \in Bad : \A m \in Bad : m <= n
        BY LastNode
      <3>2. n \in Nodes /\ nx[n] \in Refs /\ f[n] # L[n]
        BY <1>0
      <3>3. nx[n] \notin Bad
        <4> SUFFICES ASSUME nx[n] \in Bad PROVE FALSE
          OBVIOUS
        <4>1. nx[n] \in Nodes /\ nx[n] <= n
          BY <3>1
        <4>2. n < nx[n] /\ n \in Nat /\ nx[n] \in Nat
          BY <1>0, <3>2, <4>1, NodeNumbers DEF Ahead
        <4>3. QED
          BY <4>1, <4>2
      <3>4. f[nx[n]] = L[nx[n]]
        <4>1. CASE nx[n] = NULL
          BY <4>1, <2>1, <1>1, NodeNumbers
        <4>2. CASE nx[n] # NULL
          BY <4>2, <3>2, <3>3, NodeNumbers
        <4>3. QED
          BY <4>1, <4>2
      <3> HIDE DEF L
      <3>5. f[n] = {n} \cup f[nx[n]] /\ L[n] = {n} \cup L[nx[n]]
        BY <3>2, <2>1, <1>1, NodeNumbers
      <3>6. QED
        BY <3>2, <3>4, <3>5
    <2>4. \A n \in Refs : f[n] = L[n]
      BY <2>3, <2>1, <1>1, NodeNumbers
    <2>5. QED
      BY <2>2, <2>4
  <1> HIDE DEF L
  <1>4. (CHOOSE f : Eq(f)) = L
    BY <1>2, <1>3
  <1>5. QED
    BY <1>4 DEF L, nx

\* So has the one for the nodes below and after a node.
LEMMA BelowSolution ==
  ASSUME NEW g \in [Nodes -> NodeType], Ahead(NextOf(g)), Ahead(ChildOf(g))
  PROVE  (CHOOSE f : f = [n \in Refs |-> IF n = NULL THEN {}
                                         ELSE {n} \cup f[g[n].children] \cup f[g[n].next]])
           = [n \in Refs |-> Below(NextOf(g), ChildOf(g), n)]
  <1> DEFINE nx == NextOf(g)
             ch == ChildOf(g)
             Eq(f) == f = [n \in Refs |-> IF n = NULL THEN {}
                                          ELSE {n} \cup f[g[n].children] \cup f[g[n].next]]
             B == [n \in Refs |-> Below(nx, ch, n)]
  <1>0. /\ nx \in Pointer /\ ch \in Pointer /\ Ahead(nx) /\ Ahead(ch)
        /\ \A n \in Nodes : /\ nx[n] \in Refs /\ g[n].next = nx[n]
                            /\ ch[n] \in Refs /\ g[n].children = ch[n]
    BY DEF Pointer, NodeType, NextOf, ChildOf
  <1> HIDE DEF nx, ch
  <1>1. \A n \in Refs : B[n] = IF n = NULL THEN {} ELSE {n} \cup B[ch[n]] \cup B[nx[n]]
    <2>1. B[NULL] = {}
      BY NodeNumbers DEF Below
    <2>2. ASSUME NEW n \in Nodes PROVE B[n] = {n} \cup B[ch[n]] \cup B[nx[n]]
      <3>1. \A r \in Refs : B[r] = Below(nx, ch, r)
        OBVIOUS
      <3>2. n \in Refs /\ nx[n] \in Refs /\ ch[n] \in Refs
        BY <1>0, NodeNumbers
      <3>3. Below(nx, ch, n) = {n} \cup Below(nx, ch, ch[n]) \cup Below(nx, ch, nx[n])
        BY <1>0, BelowUnfold
      <3> HIDE DEF B
      <3>4. QED
        BY <3>1, <3>2, <3>3
    <2>3. QED
      BY <2>1, <2>2, NodeNumbers
  <1>2. Eq(B)
    <2>1. \A n \in Refs : B[n] = IF n = NULL THEN {}
                                ELSE {n} \cup B[g[n].children] \cup B[g[n].next]
      BY <1>0, <1>1, NodeNumbers
    <2>2. QED
      BY <2>1
  <1>3. ASSUME NEW f, Eq(f) PROVE f = B
    <2>1. \A n \in Refs : f[n] = IF n = NULL THEN {} ELSE {n} \cup f[ch[n]] \cup f[nx[n]]
      <3>1. \A n \in Refs : f[n] = IF n = NULL THEN {}
                                  ELSE {n} \cup f[g[n].children] \cup f[g[n].next]
        BY <1>3
      <3>2. QED
        BY <3>1, <1>0, NodeNumbers
    <2>2. f = [n \in Refs |-> f[n]]
      BY <1>3
    <2> DEFINE Bad == {n \in Nodes : f[n] # B[n]}
    <2>3. Bad = {}
      <3> SUFFICES ASSUME Bad # {} PROVE FALSE
        OBVIOUS
      <3>1. PICK n \in Bad : \A m \in Bad : m <= n
        BY LastNode
      <3>2. n \in Nodes /\ nx[n] \in Refs /\ ch[n] \in Refs /\ f[n] # B[n]
        BY <1>0
      <3>3. ASSUME NEW r \in {nx[n], ch[n]} PROVE r \notin Bad
        <4> SUFFICES ASSUME r \in Bad PROVE FALSE
          OBVIOUS
        <4>1. r \in Nodes /\ r <= n
          BY <3>1
        <4>2. n < r /\ n \in Nat /\ r \in Nat
          BY <1>0, <3>2, <4>1, NodeNumbers DEF Ahead
        <4>3. QED
          BY <4>1, <4>2
      <3>4. ASSUME NEW r \in Refs, r \notin Bad PROVE f[r] = B[r]
        <4>1. CASE r = NULL
          BY <4>1, <2>1, <1>1, NodeNumbers
        <4>2. CASE r # NULL
          BY <4>2, <3>4, NodeNumbers
        <4>3. QED
          BY <4>1, <4>2
      <3> HIDE DEF B
      <3>5. f[n] = {n} \cup f[ch[n]] \cup f[nx[n]] /\ B[n] = {n} \cup B[ch[n]] \cup B[nx[n]]
        BY <3>2, <2>1, <1>1, NodeNumbers
      <3>6. f[ch[n]] = B[ch[n]] /\ f[nx[n]] = B[nx[n]]
        BY <3>2, <3>3, <3>4
      <3>7. QED
        BY <3>2, <3>5, <3>6
    <2>4. \A n \in Refs : f[n] = B[n]
      BY <2>3, <2>1, <1>1, NodeNumbers
    <2>5. QED
      BY <2>2, <2>4
  <1> HIDE DEF B
  <1>4. (CHOOSE f : Eq(f)) = B
    BY <1>2, <1>3
  <1>5. QED
    BY <1>4 DEF B, nx, ch

\* No two nodes in the tree refer to the same one, nor one by both pointers.
One(nx, ch) ==
  \A m, p \in Tree(nx, ch) :
     /\ nx[m] # NULL /\ nx[m] = nx[p] => m = p
     /\ ch[m] # NULL /\ ch[m] = ch[p] => m = p
     /\ nx[m] # NULL => nx[m] # ch[p]

\* Pointers that make a tree of the nodes.
Graph(nx, ch) ==
  nx \in Pointer /\ ch \in Pointer /\ Ahead(nx) /\ Ahead(ch) /\ nx[ROOT] = NULL /\ One(nx, ch)

\* The tree holds the root and what its nodes refer to.
LEMMA TreeHas ==
  ASSUME NEW nx \in Pointer, NEW ch \in Pointer
  PROVE  /\ Tree(nx, ch) \subseteq Nodes /\ ROOT \in Tree(nx, ch)
         /\ \A x \in Tree(nx, ch) : nx[x] # NULL => nx[x] \in Tree(nx, ch)
         /\ \A x \in Tree(nx, ch) : ch[x] # NULL => ch[x] \in Tree(nx, ch)
  <1> DEFINE s == TreeSucc(nx, ch)
  <1>1. s \in [Nodes -> SUBSET Nodes] /\ \A n \in Nodes : s[n] = {nx[n], ch[n]} \ {NULL}
    BY SuccTypes
  <1> HIDE DEF s
  <1>2. From(s, ROOT) \subseteq Nodes /\ ROOT \in From(s, ROOT)
        /\ \A x \in From(s, ROOT) : s[x] \subseteq From(s, ROOT)
    BY <1>1, FromClosed, NodeNumbers
  <1>3. QED
    BY <1>1, <1>2 DEF Tree, s

\* It is the least such set.
LEMMA TreeLeast ==
  ASSUME NEW nx \in Pointer, NEW ch \in Pointer, NEW C \in SUBSET Nodes, ROOT \in C,
         \A x \in C : nx[x] # NULL => nx[x] \in C,
         \A x \in C : ch[x] # NULL => ch[x] \in C
  PROVE  Tree(nx, ch) \subseteq C
  <1>1. Closed(TreeSucc(nx, ch), C)
    BY SuccTypes DEF Closed
  <1>2. QED
    BY <1>1, FromLeast DEF Tree

\* The nodes below and after a node hold it and what they refer to, and are the least
\* such set.
LEMMA BelowHas ==
  ASSUME NEW nx \in Pointer, NEW ch \in Pointer, NEW c \in Refs
  PROVE  /\ Below(nx, ch, c) \subseteq Nodes /\ (c # NULL => c \in Below(nx, ch, c))
         /\ \A x \in Below(nx, ch, c) : nx[x] # NULL => nx[x] \in Below(nx, ch, c)
         /\ \A x \in Below(nx, ch, c) : ch[x] # NULL => ch[x] \in Below(nx, ch, c)
         /\ \A m \in Below(nx, ch, c) : m # c => \E z \in Below(nx, ch, c) : m = nx[z] \/ m = ch[z]
  <1>1. CASE c = NULL
    BY <1>1 DEF Below
  <1>2. CASE c # NULL
    <2> DEFINE s == TreeSucc(nx, ch)
    <2>0. c \in Nodes
      BY <1>2, NodeNumbers
    <2>1. s \in [Nodes -> SUBSET Nodes] /\ \A n \in Nodes : s[n] = {nx[n], ch[n]} \ {NULL}
      BY SuccTypes
    <2> HIDE DEF s
    <2>2. From(s, c) \subseteq Nodes /\ c \in From(s, c)
          /\ \A x \in From(s, c) : s[x] \subseteq From(s, c)
      BY <2>0, <2>1, FromClosed
    <2>3. \A m \in From(s, c) : m # c => \E z \in From(s, c) : m \in s[z]
      BY <2>0, <2>1, FromReferrer
    <2>4. Below(nx, ch, c) = From(s, c)
      BY <1>2 DEF Below, s
    <2>5. QED
      BY <2>1, <2>2, <2>3, <2>4
  <1>3. QED
    BY <1>1, <1>2

\* It is in every such set.
LEMMA BelowLeast ==
  ASSUME NEW nx \in Pointer, NEW ch \in Pointer, NEW c \in Refs, NEW C \in SUBSET Nodes,
         c # NULL => c \in C,
         \A x \in C : nx[x] # NULL => nx[x] \in C,
         \A x \in C : ch[x] # NULL => ch[x] \in C
  PROVE  Below(nx, ch, c) \subseteq C
  <1>1. Closed(TreeSucc(nx, ch), C)
    BY SuccTypes DEF Closed
  <1>2. QED
    BY <1>1, FromLeast DEF Below

\* So it is with a list.
LEMMA ListHas ==
  ASSUME NEW nx \in Pointer, NEW c \in Refs
  PROVE  /\ List(nx, c) \subseteq Nodes /\ (c # NULL => c \in List(nx, c))
         /\ \A x \in List(nx, c) : nx[x] # NULL => nx[x] \in List(nx, c)
         /\ \A m \in List(nx, c) : m # c => \E z \in List(nx, c) : m = nx[z]
  <1>1. CASE c = NULL
    BY <1>1 DEF List
  <1>2. CASE c # NULL
    <2> DEFINE s == NextSucc(nx)
    <2>0. c \in Nodes
      BY <1>2, NodeNumbers
    <2>1. s \in [Nodes -> SUBSET Nodes] /\ \A n \in Nodes : s[n] = {nx[n]} \ {NULL}
      BY SuccTypes
    <2> HIDE DEF s
    <2>2. From(s, c) \subseteq Nodes /\ c \in From(s, c)
          /\ \A x \in From(s, c) : s[x] \subseteq From(s, c)
      BY <2>0, <2>1, FromClosed
    <2>3. \A m \in From(s, c) : m # c => \E z \in From(s, c) : m \in s[z]
      BY <2>0, <2>1, FromReferrer
    <2>4. List(nx, c) = From(s, c)
      BY <1>2 DEF List, s
    <2>5. QED
      BY <2>1, <2>2, <2>3, <2>4
  <1>3. QED
    BY <1>1, <1>2

\* It is in every such set.
LEMMA ListLeast ==
  ASSUME NEW nx \in Pointer, NEW c \in Refs, NEW C \in SUBSET Nodes,
         c # NULL => c \in C,
         \A x \in C : nx[x] # NULL => nx[x] \in C
  PROVE  List(nx, c) \subseteq C
  <1>1. Closed(NextSucc(nx), C)
    BY SuccTypes DEF Closed
  <1>2. QED
    BY <1>1, FromLeast DEF List

\* The nodes below and after a node of the tree are in it.
LEMMA BelowInTree ==
  ASSUME NEW nx \in Pointer, NEW ch \in Pointer, NEW c \in Refs, c # NULL => c \in Tree(nx, ch)
  PROVE  Below(nx, ch, c) \subseteq Tree(nx, ch)
  BY TreeHas, BelowLeast

\* So are the nodes of a list that starts in it.
LEMMA ListInTree ==
  ASSUME NEW nx \in Pointer, NEW ch \in Pointer, NEW c \in Refs, c # NULL => c \in Tree(nx, ch)
  PROVE  List(nx, c) \subseteq Tree(nx, ch)
  BY TreeHas, ListLeast

\* Nodes are below and after nodes with lower numbers.
LEMMA BelowAhead ==
  ASSUME NEW nx \in Pointer, NEW ch \in Pointer, NEW c \in Refs, Ahead(nx), Ahead(ch)
  PROVE  \A m \in Below(nx, ch, c) : c <= m
  <1> DEFINE C == {m \in Nodes : c <= m}
  <1>0. Nodes \subseteq Nat /\ NULL \in Int
    BY NodeNumbers DEF NULL
  <1>1. C \in SUBSET Nodes /\ (c # NULL => c \in C)
    BY <1>0, NodeNumbers
  <1>2. ASSUME NEW x \in C, NEW y \in {nx[x], ch[x]}, y # NULL PROVE y \in C
    <2>1. x \in Nodes /\ y \in Nodes /\ c <= x
      BY <1>2, NodeNumbers DEF Pointer
    <2>2. x < y /\ x \in Nat /\ y \in Nat /\ c \in Int
      BY <1>0, <1>2, <2>1, NodeNumbers DEF Ahead
    <2>3. QED
      BY <2>1, <2>2
  <1> HIDE DEF C
  <1>3. Below(nx, ch, c) \subseteq C
    BY <1>1, <1>2, BelowLeast
  <1>4. QED
    BY <1>3 DEF C

\* Every node of the tree but the root is in the list of a node of the tree.
LEMMA Held ==
  ASSUME NEW nx, NEW ch, Graph(nx, ch), NEW x \in Tree(nx, ch), x # ROOT
  PROVE  \E d \in Tree(nx, ch) : x \in List(nx, ch[d])
  <1> USE DEF Graph
  <1> DEFINE T == Tree(nx, ch)
             C == {ROOT} \cup {y \in T : \E d \in T : y \in List(nx, ch[d])}
  <1>0. T \subseteq Nodes /\ \A d \in T : ch[d] \in Refs /\ nx[d] \in Refs
    BY TreeHas DEF Pointer
  <1>1. C \in SUBSET Nodes /\ ROOT \in C /\ C \subseteq T
    BY TreeHas
  <1>2. ASSUME NEW y \in C, nx[y] # NULL PROVE nx[y] \in C
    <2>1. y \in T /\ y # ROOT
      BY <1>2, TreeHas
    <2>2. PICK d \in T : y \in List(nx, ch[d])
      BY <2>1
    <2>3. nx[y] \in List(nx, ch[d])
      BY <1>0, <1>2, <2>2, ListHas
    <2>4. nx[y] \in T
      BY <1>2, <2>1, TreeHas
    <2>5. QED
      BY <2>3, <2>4
  <1>3. ASSUME NEW y \in C, ch[y] # NULL PROVE ch[y] \in C
    <2>1. y \in T
      BY TreeHas
    <2>2. ch[y] \in List(nx, ch[y]) /\ ch[y] \in T
      BY <1>0, <1>3, <2>1, ListHas, TreeHas
    <2>3. QED
      BY <2>1, <2>2
  <1> HIDE DEF C
  <1>4. T \subseteq C
    BY <1>1, <1>2, <1>3, TreeLeast
  <1>5. QED
    BY <1>4 DEF C

\* No node is in two lists.
LEMMA ListsApart ==
  ASSUME NEW nx, NEW ch, Graph(nx, ch), NEW d \in Tree(nx, ch), NEW e \in Tree(nx, ch),
         List(nx, ch[d]) \cap List(nx, ch[e]) # {}
  PROVE  d = e
  <1> USE DEF Graph
  <1> DEFINE T == Tree(nx, ch)
             S == List(nx, ch[d]) \cap List(nx, ch[e])
  <1>0. T \subseteq Nodes /\ ch[d] \in Refs /\ ch[e] \in Refs
    BY TreeHas DEF Pointer
  <1>1. List(nx, ch[d]) \subseteq T /\ List(nx, ch[e]) \subseteq T
    BY <1>0, ListInTree, TreeHas
  <1>2. S \in SUBSET Nat /\ S # {}
    BY <1>0, <1>1, NodeNumbers
  <1>3. PICK m \in S : \A k \in S : m <= k
    BY <1>2, Least
  <1>4. m \in Nodes /\ m # NULL
    BY <1>0, <1>1, NodeNumbers
  <1>5. m = ch[d] \/ \E z \in List(nx, ch[d]) : m = nx[z]
    BY <1>0, ListHas
  <1>6. m = ch[e] \/ \E z \in List(nx, ch[e]) : m = nx[z]
    BY <1>0, ListHas
  <1>7. CASE m = ch[d] /\ m = ch[e]
    BY <1>4, <1>7 DEF One
  <1>8. CASE m = ch[d] /\ \E z \in List(nx, ch[e]) : m = nx[z]
    BY <1>1, <1>4, <1>8 DEF One
  <1>9. CASE m = ch[e] /\ \E z \in List(nx, ch[d]) : m = nx[z]
    BY <1>1, <1>4, <1>9 DEF One
  <1>10. CASE (\E z \in List(nx, ch[d]) : m = nx[z]) /\ (\E z \in List(nx, ch[e]) : m = nx[z])
    <2>1. PICK z \in List(nx, ch[d]), y \in List(nx, ch[e]) : m = nx[z] /\ m = nx[y]
      BY <1>10
    <2>2. z = y
      BY <1>1, <1>4, <2>1 DEF One
    <2>3. z \in S /\ z \in Nodes
      BY <2>2, <1>0, <1>1
    <2>4. m <= z /\ z < m
      BY <1>3, <1>4, <2>1, <2>3 DEF Ahead
    <2>5. QED
      BY <1>4, <2>3, <2>4, NodeNumbers
  <1>11. QED
    BY <1>5, <1>6, <1>7, <1>8, <1>9, <1>10

\* A list that is not empty has a last node.
LEMMA ListEnds ==
  ASSUME NEW nx \in Pointer, Ahead(nx), NEW c \in Nodes
  PROVE  \E m \in List(nx, c) : nx[m] = NULL
  <1>1. List(nx, c) \in SUBSET Nodes /\ List(nx, c) # {} /\ c \in Refs
    BY ListHas, NodeNumbers
  <1>2. PICK m \in List(nx, c) : \A k \in List(nx, c) : k <= m
    BY <1>1, LastNode
  <1>3. ASSUME nx[m] # NULL PROVE FALSE
    <2>1. nx[m] \in List(nx, c)
      BY <1>1, <1>3, ListHas
    <2>2. nx[m] <= m /\ m < nx[m] /\ m \in Nat /\ nx[m] \in Nat
      BY <1>1, <1>2, <1>3, <2>1, NodeNumbers DEF Ahead
    <2>3. QED
      BY <2>2
  <1>4. QED
    BY <1>3

-----------------------------------------------------------------------------
(* A node is cut out: what referred to it refers to the node after it. *)

\* node is cut out behind r, the one node that refers to it.
Cut(nx, ch, r, node, nx2, ch2) ==
  /\ nx2 \in Pointer /\ ch2 \in Pointer
  /\ \A x \in Nodes : nx2[x] = IF x = r /\ nx[x] = node THEN nx[node] ELSE nx[x]
  /\ \A x \in Nodes : ch2[x] = IF x = r /\ ch[x] = node THEN nx[node] ELSE ch[x]
  /\ nx[r] = node \/ ch[r] = node

\* What is gone with a node.
Gone(nx, ch, node) == {node} \cup Below(nx, ch, ch[node])

\* Nodes are still linked in the order of their numbers.
LEMMA CutAhead ==
  ASSUME NEW nx, NEW ch, Graph(nx, ch), NEW r \in Tree(nx, ch), NEW node \in Tree(nx, ch),
         NEW nx2, NEW ch2, Cut(nx, ch, r, node, nx2, ch2)
  PROVE  Ahead(nx2) /\ Ahead(ch2) /\ nx2[ROOT] = NULL /\ r < node
  <1> USE DEF Graph
  <1>1. r \in Nodes /\ node \in Nodes /\ node # NULL
    BY TreeHas, NodeNumbers
  <1>2. r < node
    BY <1>1 DEF Cut, Ahead
  <1>3. ASSUME nx[node] # NULL PROVE r < nx[node]
    <2>1. node < nx[node] /\ nx[node] \in Nodes
      BY <1>1, <1>3, NodeNumbers DEF Ahead, Pointer
    <2>2. r \in Nat /\ node \in Nat /\ nx[node] \in Nat
      BY <1>1, <2>1, NodeNumbers
    <2>3. QED
      BY <1>2, <2>1, <2>2
  <1>4. Ahead(nx2) /\ Ahead(ch2)
    BY <1>3 DEF Cut, Ahead
  <1>5. nx2[ROOT] = NULL
    BY <1>1, NodeNumbers DEF Cut
  <1>6. QED
    BY <1>2, <1>4, <1>5

\* What is not gone is still there.
LEMMA CutKeeps ==
  ASSUME NEW nx, NEW ch, Graph(nx, ch), NEW r \in Tree(nx, ch), NEW node \in Tree(nx, ch),
         NEW nx2, NEW ch2, Cut(nx, ch, r, node, nx2, ch2)
  PROVE  r \in Tree(nx2, ch2) /\ Tree(nx, ch) \subseteq Tree(nx2, ch2) \cup Gone(nx, ch, node)
  <1> USE DEF Graph
  <1> DEFINE T == Tree(nx, ch)
             T2 == Tree(nx2, ch2)
             G == Gone(nx, ch, node)
  <1>0. T \subseteq Nodes /\ T2 \subseteq Nodes /\ nx2 \in Pointer /\ ch2 \in Pointer /\ r < node
        /\ r \in Nodes /\ node \in Nodes /\ node # NULL /\ ROOT \in T2
    BY TreeHas, CutAhead, NodeNumbers DEF Cut
  <1>1. /\ \A x \in T2 : nx2[x] # NULL => nx2[x] \in T2
        /\ \A x \in T2 : ch2[x] # NULL => ch2[x] \in T2
    BY <1>0, TreeHas
  <1>2. r \in T2
    <2> DEFINE C == T2 \cup {y \in Nodes : node <= y}
    <2>1. C \in SUBSET Nodes /\ ROOT \in C
      BY <1>0
    <2>2. ASSUME NEW x \in C, NEW y \in {nx[x], ch[x]}, y # NULL PROVE y \in C
      <3>0. x \in Nodes /\ y \in Nodes
        BY <1>0, <2>2, NodeNumbers DEF Pointer
      <3>1. CASE y = node
        BY <3>1, <1>0, NodeNumbers
      <3>2. CASE x \in T2 /\ y # node
        <4>1. (y = nx[x] => nx2[x] = y) /\ (y = ch[x] => ch2[x] = y)
          BY <3>0, <3>2 DEF Cut
        <4>2. y \in T2
          BY <4>1, <1>1, <2>2, <3>2
        <4>3. QED
          BY <4>2
      <3>3. CASE x \in {z \in Nodes : node <= z}
        <4>1. x < y
          BY <2>2, <3>0 DEF Ahead
        <4>2. node <= x /\ node \in Nat /\ x \in Nat /\ y \in Nat
          BY <3>0, <3>3, <1>0, NodeNumbers
        <4>3. QED
          BY <4>1, <4>2, <3>0
      <3>4. QED
        BY <3>1, <3>2, <3>3
    <2> HIDE DEF C
    <2>3. T \subseteq C
      BY <2>1, <2>2, TreeLeast
    <2>4. r \in C /\ ~(node <= r)
      BY <2>3, <1>0, NodeNumbers
    <2>5. QED
      BY <2>4 DEF C
  <1>3. ch[node] \in Refs /\ nx[node] \in Refs
    BY <1>0 DEF Pointer
  <1>4. nx[node] # NULL => nx[node] \in T2
    BY <1>0, <1>1, <1>2 DEF Cut
  <1>5. T \subseteq T2 \cup G
    <2> DEFINE C == T2 \cup G
               B == Below(nx, ch, ch[node])
    <2>0. /\ B \subseteq Nodes /\ (ch[node] # NULL => ch[node] \in B)
          /\ \A x \in B : nx[x] # NULL => nx[x] \in B
          /\ \A x \in B : ch[x] # NULL => ch[x] \in B
      BY <1>3, BelowHas
    <2>1. G = {node} \cup B
      BY DEF Gone
    <2> HIDE DEF B, G
    <2>2. C \in SUBSET Nodes /\ ROOT \in C
      BY <1>0, <2>0, <2>1
    <2>3. ASSUME NEW x \in C, NEW y \in {nx[x], ch[x]}, y # NULL PROVE y \in C
      <3>1. CASE x \in B
        <4>0. y = nx[x] \/ y = ch[x]
          OBVIOUS
        <4>1. y \in B
          BY <3>1, <2>0, <2>3, <4>0
        <4>2. y \in G
          BY <4>1, <2>1
        <4>3. QED
          BY <4>2
      <3>2. CASE x = node
        BY <3>2, <2>0, <2>1, <2>3, <1>4
      <3>3. CASE x \in T2 /\ y = node
        BY <3>3, <2>1
      <3>4. CASE x \in T2 /\ y # node
        <4>1. (y = nx[x] => nx2[x] = y) /\ (y = ch[x] => ch2[x] = y)
          BY <1>0, <3>4 DEF Cut
        <4>2. y \in T2
          BY <4>1, <1>1, <2>3, <3>4
        <4>3. QED
          BY <4>2
      <3>5. QED
        BY <2>1, <3>1, <3>2, <3>3, <3>4
    <2> HIDE DEF C
    <2>4. T \subseteq C
      BY <2>2, <2>3, TreeLeast
    <2>5. QED
      BY <2>4 DEF C
  <1>6. QED
    BY <1>2, <1>5

\* What is gone is not in the tree any more, and nothing else is new in it.
LEMMA CutDrops ==
  ASSUME NEW nx, NEW ch, Graph(nx, ch), NEW r \in Tree(nx, ch), NEW node \in Tree(nx, ch),
         NEW nx2, NEW ch2, Cut(nx, ch, r, node, nx2, ch2)
  PROVE  Tree(nx2, ch2) \subseteq Tree(nx, ch) \ Gone(nx, ch, node)
  <1> USE DEF Graph
  <1> DEFINE T == Tree(nx, ch)
             B == Below(nx, ch, ch[node])
             G == Gone(nx, ch, node)
             C == T \ G
  <1>0. T \subseteq Nodes /\ nx2 \in Pointer /\ ch2 \in Pointer /\ r < node
        /\ r \in Nodes /\ node \in Nodes /\ node # NULL /\ ROOT \in T
        /\ ch[node] \in Refs /\ nx[node] \in Refs
    BY TreeHas, CutAhead, NodeNumbers DEF Cut, Pointer
  <1>1. B \subseteq T
        /\ \A m \in B : m # ch[node] => \E z \in B : m = nx[z] \/ m = ch[z]
    BY <1>0, BelowHas, BelowInTree, TreeHas
  <1>2. \A m \in B : node < m
    <2> TAKE m \in B
    <2>1. ch[node] # NULL
      BY DEF Below
    <2>2. ch[node] <= m /\ node < ch[node] /\ ch[node] \in Nodes /\ m \in Nodes
      BY <1>0, <1>1, <2>1, BelowAhead, NodeNumbers DEF Ahead
    <2>3. node \in Nat /\ ch[node] \in Nat /\ m \in Nat
      BY <1>0, <2>2, NodeNumbers
    <2>4. QED
      BY <2>2, <2>3
  <1>3. G = {node} \cup B
    BY DEF Gone
  <1> HIDE DEF B, G
  <1>4. \A m \in G : node <= m /\ m \in Nodes
    BY <1>0, <1>1, <1>2, <1>3, NodeNumbers
  <1>5. C \in SUBSET Nodes /\ ROOT \in C
    <2>1. ASSUME ROOT \in G PROVE FALSE
      <3>1. node <= ROOT /\ r \in Nat /\ node \in Nat
        BY <2>1, <1>0, <1>4, NodeNumbers
      <3>2. QED
        BY <3>1, <1>0 DEF ROOT
    <2>2. QED
      BY <1>0, <2>1
  \* A reference to what is below the node comes from there or from the node.
  <1>6. ASSUME NEW x \in T, NEW y \in B, y = nx[x] \/ y = ch[x] PROVE (x = node /\ y = ch[node]) \/ x \in B
    <2>0. y # NULL /\ y \in Nodes
      BY <1>0, <1>1, NodeNumbers
    <2>1. CASE y = ch[node]
      BY <1>6, <2>0, <2>1 DEF One
    <2>2. CASE y # ch[node]
      <3>1. PICK z \in B : y = nx[z] \/ y = ch[z]
        BY <1>1, <2>2
      <3>2. z \in T
        BY <1>1
      <3>3. x = z
        BY <1>6, <2>0, <3>1, <3>2 DEF One
      <3>4. QED
        BY <3>3
    <2>3. QED
      BY <2>1, <2>2
  \* The node after it is not below it.
  <1>7. nx[node] # NULL => nx[node] \in C
    <2> SUFFICES ASSUME nx[node] # NULL PROVE nx[node] \notin G /\ nx[node] \in T
      OBVIOUS
    <2>1. nx[node] \in T
      BY TreeHas
    <2>2. nx[node] # node
      BY <1>0, NodeNumbers DEF Ahead
    <2>3. ASSUME nx[node] \in B PROVE FALSE
      <3>1. nx[node] = ch[node] \/ node \in B
        BY <1>6, <2>3
      <3>2. nx[node] # ch[node]
        BY DEF One
      <3>3. node \notin B
        BY <1>2, <1>0, NodeNumbers
      <3>4. QED
        BY <3>1, <3>2, <3>3
    <2>4. QED
      BY <1>3, <2>1, <2>2, <2>3
  \* Nothing but r refers to the node.
  <1>8. \A x \in T : x # r => nx[x] # node /\ ch[x] # node
    BY <1>0 DEF Cut, One
  <1>9. ASSUME NEW x \in C, NEW y \in {nx2[x], ch2[x]}, y # NULL PROVE y \in C
    <2>1. CASE y = nx[node]
      BY <2>1, <1>7, <1>9
    <2>2. CASE y # nx[node]
      <3>1. x \in T /\ x \in Nodes /\ x \notin B /\ x # node
        BY <1>0, <1>3
      <3>2. (y = nx[x] \/ y = ch[x]) /\ y # node
        BY <1>8, <2>2, <3>1, <1>9 DEF Cut
      <3>3. y \in T
        BY <3>1, <3>2, <1>9, TreeHas
      <3>4. y \notin B
        BY <1>6, <3>1, <3>2
      <3>5. QED
        BY <1>3, <3>2, <3>3, <3>4
    <2>3. QED
      BY <2>1, <2>2
  <1> HIDE DEF C
  <1>10. Tree(nx2, ch2) \subseteq C
    BY <1>0, <1>5, <1>9, TreeLeast
  <1>11. QED
    BY <1>10 DEF C, G

\* The graph is still one.
LEMMA CutGraph ==
  ASSUME NEW nx, NEW ch, Graph(nx, ch), NEW r \in Tree(nx, ch), NEW node \in Tree(nx, ch),
         NEW nx2, NEW ch2, Cut(nx, ch, r, node, nx2, ch2)
  PROVE  Graph(nx2, ch2)
  <1> DEFINE T == Tree(nx, ch)
             T2 == Tree(nx2, ch2)
  <1>1. T2 \subseteq T \ {node} /\ T \subseteq Nodes
    BY CutDrops, TreeHas DEF Gone, Graph
  <1>2. node \in T /\ node # NULL
    BY <1>1, NodeNumbers
  <1>3. One(nx, ch)
    BY DEF Graph
  \* Where a pointer that is not NULL is from.
  <1>4. ASSUME NEW x \in T2
        PROVE  \/ nx2[x] = nx[x] /\ ch2[x] = ch[x]
               \/ nx2[x] = nx[node] /\ nx[x] = node /\ ch2[x] = ch[x]
               \/ ch2[x] = nx[node] /\ ch[x] = node /\ nx2[x] = nx[x]
    BY <1>1, <1>2, <1>3 DEF Cut, One
  <1>5. One(nx2, ch2)
    <2> SUFFICES ASSUME NEW m \in T2, NEW p \in T2
                 PROVE  /\ nx2[m] # NULL /\ nx2[m] = nx2[p] => m = p
                        /\ ch2[m] # NULL /\ ch2[m] = ch2[p] => m = p
                        /\ nx2[m] # NULL => nx2[m] # ch2[p]
      BY DEF One
    <2>1. m \in T /\ p \in T /\ m # node /\ p # node
      BY <1>1
    <2>2. \A a, b \in T : /\ nx[a] # NULL /\ nx[a] = nx[b] => a = b
                          /\ ch[a] # NULL /\ ch[a] = ch[b] => a = b
                          /\ nx[a] # NULL => nx[a] # ch[b]
      BY <1>3 DEF One
    <2> HIDE DEF T, T2
    <2>3. nx2[m] # NULL /\ nx2[m] = nx2[p] => m = p
      BY <1>2, <1>4, <2>1, <2>2
    <2>4. ch2[m] # NULL /\ ch2[m] = ch2[p] => m = p
      BY <1>2, <1>4, <2>1, <2>2
    <2>5. nx2[m] # NULL => nx2[m] # ch2[p]
      BY <1>2, <1>4, <2>1, <2>2
    <2>6. QED
      BY <2>3, <2>4, <2>5
  <1>6. QED
    BY <1>5, CutAhead DEF Graph, Cut

\* Every list that is left has lost the node and nothing else.
LEMMA CutLists ==
  ASSUME NEW nx, NEW ch, Graph(nx, ch), NEW r \in Tree(nx, ch), NEW node \in Tree(nx, ch),
         NEW nx2, NEW ch2, Cut(nx, ch, r, node, nx2, ch2), NEW d \in Tree(nx2, ch2)
  PROVE  List(nx2, ch2[d]) = List(nx, ch[d]) \ {node}
  <1> DEFINE T == Tree(nx, ch)
             L == List(nx, ch[d])
             L2 == List(nx2, ch2[d])
  <1>0. nx \in Pointer /\ ch \in Pointer /\ Ahead(nx) /\ nx2 \in Pointer /\ ch2 \in Pointer
    BY DEF Graph, Cut
  <1>1. d \in T /\ d # node /\ T \subseteq Nodes /\ d \in Nodes
    BY CutDrops, TreeHas, <1>0 DEF Gone
  <1>2. r \in Nodes /\ node \in Nodes /\ node # NULL /\ r < node
    BY <1>1, CutAhead, NodeNumbers
  <1>3. ch[d] \in Refs /\ ch2[d] \in Refs /\ nx[node] \in Refs
    BY <1>0, <1>1, <1>2 DEF Pointer
  <1>4. /\ L \subseteq T /\ (ch[d] # NULL => ch[d] \in L)
        /\ \A x \in L : nx[x] # NULL => nx[x] \in L
        /\ \A m \in L : m # ch[d] => \E z \in L : m = nx[z]
    BY <1>0, <1>1, <1>3, ListHas, ListInTree, TreeHas
  <1>5. /\ L2 \subseteq Nodes /\ (ch2[d] # NULL => ch2[d] \in L2)
        /\ \A x \in L2 : nx2[x] # NULL => nx2[x] \in L2
    BY <1>0, <1>3, ListHas
  \* Nothing but r refers to the node.
  <1>6. \A x \in T : x # r => nx[x] # node /\ ch[x] # node
    BY <1>2 DEF Cut, One, Graph
  <1>7. nx[r] = node => ch[r] # node
    BY <1>2 DEF One, Graph
  <1>8. nx[node] # node
    BY <1>0, <1>2, NodeNumbers DEF Ahead
  <1>9. L2 \subseteq L \ {node}
    <2> DEFINE C == L \ {node}
    <2>1. C \in SUBSET Nodes
      BY <1>1, <1>4
    <2>2. ch2[d] # NULL => ch2[d] \in C
      <3>1. CASE ch[d] = node
        BY <1>1, <1>2, <1>4, <1>6, <1>8, <3>1 DEF Cut
      <3>2. CASE ch[d] # node
        BY <1>1, <1>4, <3>2 DEF Cut
      <3>3. QED
        BY <3>1, <3>2
    <2>3. ASSUME NEW x \in C, nx2[x] # NULL PROVE nx2[x] \in C
      <3>0. x \in L /\ x \in T /\ x \in Nodes
        BY <1>1, <1>4
      <3>1. CASE nx[x] = node
        <4>1. x = r /\ nx2[x] = nx[node]
          BY <1>6, <3>0, <3>1 DEF Cut
        <4>2. node \in L
          BY <1>2, <1>4, <3>0, <3>1
        <4>3. QED
          BY <1>4, <1>8, <2>3, <4>1, <4>2
      <3>2. CASE nx[x] # node
        <4>1. nx2[x] = nx[x]
          BY <3>0, <3>2 DEF Cut
        <4>2. QED
          BY <1>4, <2>3, <3>0, <3>2, <4>1
      <3>3. QED
        BY <3>1, <3>2
    <2> HIDE DEF C, L, L2
    <2>4. List(nx2, ch2[d]) \subseteq C
      BY <1>0, <1>3, <2>1, <2>2, <2>3, ListLeast
    <2>5. QED
      BY <2>4 DEF C, L2
  \* What comes before the node is still there.
  <1>10. \A x \in L : x \in L2 \/ node <= x
    <2> DEFINE C == L2 \cup {y \in Nodes : node <= y}
    <2>1. C \in SUBSET Nodes
      BY <1>5
    <2>2. ch[d] # NULL => ch[d] \in C
      <3>1. CASE ch[d] = node
        BY <1>2, <3>1, NodeNumbers
      <3>2. CASE ch[d] # node
        BY <1>1, <1>5, <3>2 DEF Cut
      <3>3. QED
        BY <3>1, <3>2
    <2>3. ASSUME NEW x \in C, nx[x] # NULL PROVE nx[x] \in C
      <3>0. x \in Nodes /\ nx[x] \in Nodes
        BY <1>0, <1>5, <2>3, NodeNumbers DEF Pointer
      <3>1. CASE nx[x] = node
        BY <1>2, <3>1, NodeNumbers
      <3>2. CASE x \in L2 /\ nx[x] # node
        <4>1. nx2[x] = nx[x]
          BY <3>0, <3>2 DEF Cut
        <4>2. QED
          BY <1>5, <2>3, <3>2, <4>1
      <3>3. CASE node <= x
        <4>1. x < nx[x] /\ x \in Nat /\ nx[x] \in Nat /\ node \in Nat
          BY <1>0, <1>2, <2>3, <3>0, NodeNumbers DEF Ahead
        <4>2. node <= nx[x]
          BY <3>3, <4>1
        <4>3. QED
          BY <3>0, <4>2
      <3>4. QED
        BY <3>1, <3>2, <3>3
    <2> HIDE DEF C, L, L2
    <2>4. List(nx, ch[d]) \subseteq C
      BY <1>0, <1>3, <2>1, <2>2, <2>3, ListLeast
    <2>5. QED
      BY <2>4 DEF C, L
  \* What the node's place is taken by is in the list.
  <1>11. node \in L => (nx[node] # NULL => nx[node] \in L2)
    <2> SUFFICES ASSUME node \in L, nx[node] # NULL PROVE nx[node] \in L2
      OBVIOUS
    <2>1. CASE node = ch[d]
      <3>1. ch2[d] = nx[node]
        BY <1>1, <1>6, <2>1 DEF Cut
      <3>2. QED
        BY <1>5, <3>1
    <2>2. CASE node # ch[d]
      <3>1. PICK z \in L : node = nx[z]
        BY <1>4, <2>2
      <3>2. z = r /\ z \in Nodes
        BY <1>1, <1>4, <1>6, <3>1
      <3>3. ~(node <= z)
        BY <1>2, <3>2, NodeNumbers
      <3>4. z \in L2
        BY <1>10, <3>3
      <3>5. nx2[z] = nx[node]
        BY <3>1, <3>2 DEF Cut
      <3>6. QED
        BY <1>5, <3>4, <3>5
    <2>3. QED
      BY <2>1, <2>2
  <1>12. L \subseteq L2 \cup {node}
    <2> DEFINE C == L2 \cup (L \cap {node})
    <2>1. C \in SUBSET Nodes
      BY <1>2, <1>5
    <2>2. ch[d] # NULL => ch[d] \in C
      <3>1. CASE ch[d] = node
        BY <1>2, <1>4, <3>1
      <3>2. CASE ch[d] # node
        BY <1>1, <1>5, <3>2 DEF Cut
      <3>3. QED
        BY <3>1, <3>2
    <2>3. ASSUME NEW x \in C, nx[x] # NULL PROVE nx[x] \in C
      <3>1. CASE x \in L2
        <4>1. x \in L /\ x \in Nodes
          BY <1>5, <1>9, <3>1
        <4>2. CASE nx[x] = node
          BY <1>2, <1>4, <4>1, <4>2
        <4>3. CASE nx[x] # node
          <5>1. nx2[x] = nx[x]
            BY <4>1, <4>3 DEF Cut
          <5>2. QED
            BY <1>5, <2>3, <3>1, <5>1
        <4>4. QED
          BY <4>2, <4>3
      <3>2. CASE x = node /\ x \in L
        BY <1>11, <2>3, <3>2
      <3>3. QED
        BY <3>1, <3>2
    <2> HIDE DEF C, L, L2
    <2>4. List(nx, ch[d]) \subseteq C
      BY <1>0, <1>3, <2>1, <2>2, <2>3, ListLeast
    <2>5. QED
      BY <2>4 DEF C, L
  <1>13. QED
    BY <1>9, <1>12

-----------------------------------------------------------------------------
(* New nodes, the set K, are hung after the last node of the list of p. *)

\* The pointers nx2 and ch2 are nx and ch with the tree of new, which is K, hung after last.
Hang(nx, ch, p, last, new, K, nx2, ch2) ==
  /\ nx2 \in Pointer /\ ch2 \in Pointer /\ Ahead(nx2) /\ Ahead(ch2)
  /\ p \in Tree(nx, ch) /\ last \in List(nx, ch[p]) /\ nx[last] = NULL
  /\ K \subseteq Nodes /\ new \in K /\ K \cap Tree(nx, ch) = {}
  /\ \A x \in Nodes \ K : nx2[x] = (IF x = last THEN new ELSE nx[x]) /\ ch2[x] = ch[x]
  /\ nx2[new] = NULL /\ K \subseteq Below(nx2, ch2, new)
  /\ \A x \in K : /\ nx2[x] = NULL \/ nx2[x] \in K \ {new}
                  /\ ch2[x] = NULL \/ ch2[x] \in K \ {new}
  /\ \A x, y \in K : /\ nx2[x] # NULL /\ nx2[x] = nx2[y] => x = y
                     /\ ch2[x] # NULL /\ ch2[x] = ch2[y] => x = y
                     /\ nx2[x] # NULL => nx2[x] # ch2[y]

\* What the nodes that were in the tree refer to.
LEMMA HangOld ==
  ASSUME NEW nx, NEW ch, Graph(nx, ch), NEW p, NEW last, NEW new, NEW K, NEW nx2, NEW ch2,
         Hang(nx, ch, p, last, new, K, nx2, ch2)
  PROVE  /\ nx \in Pointer /\ ch \in Pointer /\ nx2 \in Pointer /\ ch2 \in Pointer
         /\ last \in Tree(nx, ch) /\ Tree(nx, ch) \subseteq Nodes \ K /\ new \in Nodes /\ new # NULL
         /\ nx2[last] = new
         /\ \A x \in Tree(nx, ch) : ch2[x] = ch[x] /\ (x # last => nx2[x] = nx[x])
  <1>1. nx \in Pointer /\ ch \in Pointer /\ nx2 \in Pointer /\ ch2 \in Pointer
    BY DEF Graph, Hang
  <1>2. Tree(nx, ch) \subseteq Nodes \ K /\ new \in Nodes /\ new # NULL /\ p \in Tree(nx, ch)
    BY <1>1, TreeHas, NodeNumbers DEF Hang
  <1>3. ch[p] \in Refs
    BY <1>1, <1>2 DEF Pointer
  <1>4. last \in Tree(nx, ch)
    BY <1>1, <1>2, <1>3, ListInTree, TreeHas DEF Hang
  <1>5. \A x \in Tree(nx, ch) : ch2[x] = ch[x] /\ nx2[x] = IF x = last THEN new ELSE nx[x]
    BY <1>2 DEF Hang
  <1>6. QED
    BY <1>1, <1>2, <1>4, <1>5

\* The tree grows by the new nodes.
LEMMA HangTree ==
  ASSUME NEW nx, NEW ch, Graph(nx, ch), NEW p, NEW last, NEW new, NEW K, NEW nx2, NEW ch2,
         Hang(nx, ch, p, last, new, K, nx2, ch2)
  PROVE  Tree(nx2, ch2) = Tree(nx, ch) \cup K
  <1> DEFINE T == Tree(nx, ch)
             T2 == Tree(nx2, ch2)
  <1>1. /\ nx \in Pointer /\ ch \in Pointer /\ nx2 \in Pointer /\ ch2 \in Pointer
        /\ last \in T /\ T \subseteq Nodes \ K /\ new \in Nodes /\ new # NULL
        /\ nx2[last] = new
        /\ \A x \in T : ch2[x] = ch[x] /\ (x # last => nx2[x] = nx[x])
    BY HangOld
  <1>2. nx[last] = NULL /\ K \subseteq Nodes /\ new \in K /\ K \subseteq Below(nx2, ch2, new)
    BY DEF Hang
  <1>3. \A x \in K : nx2[x] \in K \cup {NULL} /\ ch2[x] \in K \cup {NULL}
    BY DEF Hang
  <1>4. /\ ROOT \in T /\ ROOT \in T2
        /\ \A x \in T : nx[x] # NULL => nx[x] \in T
        /\ \A x \in T : ch[x] # NULL => ch[x] \in T
    BY <1>1, TreeHas
  <1>5. /\ T2 \subseteq Nodes
        /\ \A x \in T2 : nx2[x] # NULL => nx2[x] \in T2
        /\ \A x \in T2 : ch2[x] # NULL => ch2[x] \in T2
    BY <1>1, TreeHas
  <1>6. T2 \subseteq T \cup K
    <2> DEFINE C == T \cup K
    <2>1. C \in SUBSET Nodes /\ ROOT \in C
      BY <1>1, <1>2, <1>4
    <2>2. \A x \in C : nx2[x] # NULL => nx2[x] \in C
      BY <1>1, <1>2, <1>3, <1>4
    <2>3. \A x \in C : ch2[x] # NULL => ch2[x] \in C
      BY <1>1, <1>3, <1>4
    <2> HIDE DEF C
    <2>4. T2 \subseteq C
      BY <1>1, <2>1, <2>2, <2>3, TreeLeast
    <2>5. QED
      BY <2>4 DEF C
  <1>7. T \subseteq T2
    <2> DEFINE C == T \cap T2
    <2>1. C \in SUBSET Nodes /\ ROOT \in C
      BY <1>1, <1>4
    <2>2. \A x \in C : nx[x] # NULL => nx[x] \in C
      BY <1>1, <1>2, <1>4, <1>5
    <2>3. \A x \in C : ch[x] # NULL => ch[x] \in C
      BY <1>1, <1>4, <1>5
    <2> HIDE DEF C
    <2>4. T \subseteq C
      BY <1>1, <2>1, <2>2, <2>3, TreeLeast
    <2>5. QED
      BY <2>4 DEF C
  <1>8. new \in T2
    BY <1>1, <1>5, <1>7
  <1>9. Below(nx2, ch2, new) \subseteq T2
    BY <1>1, <1>8, BelowInTree, NodeNumbers
  <1>10. QED
    BY <1>2, <1>6, <1>7, <1>9

\* The graph is still one.
LEMMA HangGraph ==
  ASSUME NEW nx, NEW ch, Graph(nx, ch), NEW p, NEW last, NEW new, NEW K, NEW nx2, NEW ch2,
         Hang(nx, ch, p, last, new, K, nx2, ch2)
  PROVE  Graph(nx2, ch2)
  <1> DEFINE T == Tree(nx, ch)
             T2 == Tree(nx2, ch2)
  <1>1. /\ nx \in Pointer /\ ch \in Pointer /\ nx2 \in Pointer /\ ch2 \in Pointer
        /\ last \in T /\ T \subseteq Nodes \ K /\ new \in Nodes /\ new # NULL
        /\ nx2[last] = new
        /\ \A x \in T : ch2[x] = ch[x] /\ (x # last => nx2[x] = nx[x])
    BY HangOld
  <1>2. new \in K /\ Ahead(nx2) /\ Ahead(ch2) /\ nx[last] = NULL
    BY DEF Hang
  <1>3. \A x \in K : /\ nx2[x] = NULL \/ nx2[x] \in K \ {new}
                     /\ ch2[x] = NULL \/ ch2[x] \in K \ {new}
    BY DEF Hang
  <1>4. \A x \in T : nx2[x] \in T \cup {NULL, new} /\ ch2[x] \in T \cup {NULL}
    BY <1>1, TreeHas
  <1>5. ASSUME NEW m \in T2, NEW q \in T2
        PROVE  /\ nx2[m] # NULL /\ nx2[m] = nx2[q] => m = q
               /\ ch2[m] # NULL /\ ch2[m] = ch2[q] => m = q
               /\ nx2[m] # NULL => nx2[m] # ch2[q]
    <2>0. (m \in T \/ m \in K) /\ (q \in T \/ q \in K)
      BY HangTree
    <2>1. CASE m \in K /\ q \in K
      BY <2>1 DEF Hang
    <2>2. CASE m \in T /\ q \in T
      <3>1. /\ nx[m] # NULL /\ nx[m] = nx[q] => m = q
            /\ ch[m] # NULL /\ ch[m] = ch[q] => m = q
            /\ nx[m] # NULL => nx[m] # ch[q]
        BY <2>2 DEF Graph, One
      <3>2. new \notin T
        BY <1>1, <1>2
      <3>3. \A x \in T : (nx[x] # NULL => nx[x] \in T) /\ (ch[x] # NULL => ch[x] \in T)
        BY <1>1, TreeHas
      <3> HIDE DEF T, T2
      <3>4. QED
        BY <1>1, <1>2, <2>2, <3>1, <3>2, <3>3
    <2>3. CASE m \in T /\ q \in K
      BY <1>1, <1>2, <1>3, <1>4, <2>3
    <2>4. CASE m \in K /\ q \in T
      BY <1>1, <1>2, <1>3, <1>4, <2>4
    <2>5. QED
      BY <2>0, <2>1, <2>2, <2>3, <2>4
  <1>6. One(nx2, ch2)
    BY <1>5 DEF One
  <1>7. nx2[ROOT] = NULL
    <2>1. ROOT # last
      <3>1. p \in T /\ ch[p] \in Refs /\ last \in List(nx, ch[p])
        BY <1>1 DEF Hang, Pointer
      <3>2. ASSUME ROOT \in List(nx, ch[p]) PROVE FALSE
        <4>1. ROOT = ch[p] \/ \E z \in List(nx, ch[p]) : ROOT = nx[z]
          BY <1>1, <3>1, <3>2, ListHas
        <4>2. \A z \in Nodes : (nx[z] # NULL => z < nx[z]) /\ (ch[z] # NULL => z < ch[z])
          BY DEF Graph, Ahead
        <4>3. List(nx, ch[p]) \subseteq Nodes /\ p \in Nodes
          BY <1>1, <3>1, ListHas
        <4>4. \E z \in Nodes : z < ROOT
          BY <4>1, <4>2, <4>3, NodeNumbers
        <4>5. QED
          BY <4>4, NodeNumbers DEF ROOT
      <3>3. QED
        BY <3>1, <3>2
    <2>2. QED
      BY <1>1, <2>1, TreeHas DEF Graph
  <1>8. QED
    BY <1>1, <1>2, <1>6, <1>7 DEF Graph

\* The list of p grows by the first new node, the others stay as they are.
LEMMA HangLists ==
  ASSUME NEW nx, NEW ch, Graph(nx, ch), NEW p, NEW last, NEW new, NEW K, NEW nx2, NEW ch2,
         Hang(nx, ch, p, last, new, K, nx2, ch2), NEW d \in Tree(nx, ch)
  PROVE  List(nx2, ch2[d]) = List(nx, ch[d]) \cup (IF d = p THEN {new} ELSE {})
  <1> DEFINE T == Tree(nx, ch)
             L == List(nx, ch[d])
             L2 == List(nx2, ch2[d])
  <1>1. /\ nx \in Pointer /\ ch \in Pointer /\ nx2 \in Pointer /\ ch2 \in Pointer
        /\ last \in T /\ T \subseteq Nodes \ K /\ new \in Nodes /\ new # NULL
        /\ nx2[last] = new
        /\ \A x \in T : ch2[x] = ch[x] /\ (x # last => nx2[x] = nx[x])
    BY HangOld
  <1>2. p \in T /\ nx[last] = NULL /\ nx2[new] = NULL /\ last \in List(nx, ch[p])
    BY DEF Hang
  <1>3. ch[d] \in Refs /\ ch2[d] = ch[d]
    BY <1>1 DEF Pointer
  <1>4. /\ L \subseteq T /\ (ch[d] # NULL => ch[d] \in L)
        /\ \A x \in L : nx[x] # NULL => nx[x] \in L
    BY <1>1, <1>3, ListHas, ListInTree, TreeHas
  <1>5. /\ L2 \subseteq Nodes /\ (ch[d] # NULL => ch[d] \in L2)
        /\ \A x \in L2 : nx2[x] # NULL => nx2[x] \in L2
    BY <1>1, <1>3, ListHas
  <1>6. last \in L => d = p
    BY <1>2, ListsApart
  <1>7. L \subseteq L2
    <2> DEFINE C == L \cap L2
    <2>1. C \in SUBSET Nodes /\ (ch[d] # NULL => ch[d] \in C)
      BY <1>4, <1>5
    <2>2. \A x \in C : nx[x] # NULL => nx[x] \in C
      BY <1>1, <1>2, <1>4, <1>5
    <2> HIDE DEF C
    <2>3. L \subseteq C
      BY <1>1, <1>3, <2>1, <2>2, ListLeast
    <2>4. QED
      BY <2>3 DEF C
  <1>8. d = p => new \in L2
    BY <1>1, <1>2, <1>5, <1>7
  <1>9. L2 \subseteq L \cup (IF d = p THEN {new} ELSE {})
    <2> DEFINE C == L \cup (IF d = p THEN {new} ELSE {})
    <2>1. C \in SUBSET Nodes /\ (ch2[d] # NULL => ch2[d] \in C)
      BY <1>1, <1>3, <1>4
    <2>2. ASSUME NEW x \in C, nx2[x] # NULL PROVE nx2[x] \in C
      <3>1. CASE x = new
        BY <1>2, <2>2, <3>1
      <3>2. CASE x = last
        <4>1. x \in L
          BY <1>1, <1>2, <2>2, <3>2
        <4>2. QED
          BY <1>1, <1>6, <3>2, <4>1
      <3>3. CASE x # new /\ x # last
        <4>1. x \in L
          BY <3>3
        <4>2. nx2[x] = nx[x] /\ nx[x] \in L
          BY <1>1, <1>4, <2>2, <3>3, <4>1
        <4>3. QED
          BY <4>2
      <3>4. QED
        BY <3>1, <3>2, <3>3
    <2> HIDE DEF C
    <2>3. L2 \subseteq C
      BY <1>1, <1>3, <2>1, <2>2, ListLeast
    <2>4. QED
      BY <2>3 DEF C
  <1>10. QED
    BY <1>7, <1>8, <1>9

-----------------------------------------------------------------------------
(* The graph of the state. *)

\* What the recursive functions of a graph of nodes g say.
LEMMA ShapeOf ==
  ASSUME NEW g \in [Nodes -> NodeType],
         Ahead(NextOf(g)), Ahead(ChildOf(g)), g[ROOT].next = NULL
  PROVE  /\ NextOf(g) \in Pointer /\ ChildOf(g) \in Pointer /\ NextOf(g)[ROOT] = NULL
         /\ \A n \in Nodes : NextOf(g)[n] = g[n].next /\ ChildOf(g)[n] = g[n].children
         /\ Tree(NextOf(g), ChildOf(g)) = {ROOT} \cup Below(NextOf(g), ChildOf(g), g[ROOT].children)
  <1> DEFINE nx == NextOf(g)
             ch == ChildOf(g)
  <1>1. nx \in Pointer /\ ch \in Pointer /\ \A n \in Nodes : nx[n] = g[n].next /\ ch[n] = g[n].children
    BY DEF Pointer, NodeType, NextOf, ChildOf
  <1>2. ROOT \in Nodes /\ nx[ROOT] = NULL /\ ch[ROOT] = g[ROOT].children
    BY <1>1, NodeNumbers
  <1> HIDE DEF nx, ch
  <1>3. Below(nx, ch, ROOT) = {ROOT} \cup Below(nx, ch, g[ROOT].children) \cup Below(nx, ch, NULL)
    BY <1>1, <1>2, BelowUnfold
  <1>4. Below(nx, ch, NULL) = {}
    BY DEF Below
  <1>5. Tree(nx, ch) = Below(nx, ch, ROOT)
    BY <1>2, NodeNumbers DEF Tree, Below
  <1>6. QED
    BY <1>1, <1>2, <1>3, <1>4, <1>5 DEF nx, ch

\* The lists and the tree of the state are those of its graph.
Shape(lists, hanging, reachable, g) ==
  /\ NextOf(g) \in Pointer /\ ChildOf(g) \in Pointer
  /\ Ahead(NextOf(g)) /\ Ahead(ChildOf(g)) /\ NextOf(g)[ROOT] = NULL
  /\ \A n \in Nodes : NextOf(g)[n] = g[n].next /\ ChildOf(g)[n] = g[n].children
  /\ \A c \in Refs : lists[c] = List(NextOf(g), c)
  /\ \A c \in Refs : hanging[c] = Below(NextOf(g), ChildOf(g), c)
  /\ reachable = Tree(NextOf(g), ChildOf(g))

\* The model's recursive walks are the least closed sets of the pointers.
LEMMA ShapeNow ==
  NodesTypeOK /\ RootAndUnused /\ PointersAhead => Shape(ListFrom, Hanging, Reachable, nd)
  <1> SUFFICES ASSUME NodesTypeOK, RootAndUnused, PointersAhead
               PROVE  Shape(ListFrom, Hanging, Reachable, nd)
    OBVIOUS
  <1>1. nd \in [Nodes -> NodeType] /\ nd[ROOT].next = NULL /\ used \in Nat
    <2>1. nd \in [Nodes -> NodeType] /\ used \in 0 .. HEAP_NODES
      BY DEF NodesTypeOK
    <2>2. nd[ROOT].next = NULL
      BY DEF RootAndUnused
    <2>3. QED
      BY <2>1, <2>2
  <1>2. Ahead(NextOf(nd)) /\ Ahead(ChildOf(nd))
    <2>1. ASSUME NEW n \in Nodes, NEW m \in n + 1 .. used PROVE n < m
      BY <1>1, NodeNumbers
    <2>2. \A n \in Nodes : /\ nd[n].next # NULL => n < nd[n].next
                           /\ nd[n].children # NULL => n < nd[n].children
      BY <2>1 DEF PointersAhead
    <2>3. \A n \in Nodes : NextOf(nd)[n] = nd[n].next /\ ChildOf(nd)[n] = nd[n].children
      BY DEF NextOf, ChildOf
    <2>4. QED
      BY <2>2, <2>3 DEF Ahead
  <1>3. ListFrom = [n \in Refs |-> List(NextOf(nd), n)]
    <2>1. NextOf(nd) \in Pointer
      BY <1>1, <1>2, ShapeOf
    <2>2. QED
      BY <1>2, <2>1, ListSolution DEF ListFrom
  <1>4. Hanging = [n \in Refs |-> Below(NextOf(nd), ChildOf(nd), n)]
    BY <1>1, <1>2, BelowSolution DEF Hanging
  <1>5. nd[ROOT].children \in Refs
    BY <1>1, NodeNumbers DEF NodeType
  <1>6. Reachable = Tree(NextOf(nd), ChildOf(nd))
    BY <1>1, <1>2, <1>4, <1>5, ShapeOf DEF Reachable
  <1>7. QED
    BY <1>1, <1>2, <1>3, <1>4, <1>6, ShapeOf DEF Shape

\* So they are after a step.
LEMMA ShapeThen ==
  (NodesTypeOK /\ RootAndUnused /\ PointersAhead)' => Shape(ListFrom', Hanging', Reachable', nd')
  <1>1. (NodesTypeOK /\ RootAndUnused /\ PointersAhead)' => Shape(ListFrom, Hanging, Reachable, nd)'
    BY ShapeNow, PTL
  <1>2. QED
    BY <1>1

\* What is known of the graph of a state.
LEMMA GraphNow ==
  ASSUME GraphInv
  PROVE  /\ Graph(NextOf(nd), ChildOf(nd)) /\ Shape(ListFrom, Hanging, Reachable, nd)
         /\ nd \in [Nodes -> NodeType] /\ Reachable \subseteq Nodes /\ ROOT \in Directories
         /\ \A n \in Nodes : nd[n].next \in Refs /\ nd[n].children \in Refs
         /\ \A d \in Nodes : Children(d) = List(NextOf(nd), nd[d].children)
         /\ \A d \in Reachable : Children(d) \subseteq Reachable
  <1>1. Shape(ListFrom, Hanging, Reachable, nd)
    BY ShapeNow DEF GraphInv
  <1>2. nd \in [Nodes -> NodeType]
    BY DEF GraphInv, NodesTypeOK
  <1>3. \A n \in Nodes : nd[n].next \in Refs /\ nd[n].children \in Refs
    BY <1>2 DEF NodeType
  <1>4. \A d \in Nodes : Children(d) = List(NextOf(nd), nd[d].children)
    BY <1>1, <1>3 DEF Shape, Children
  <1>5. Reachable \subseteq Nodes /\ ROOT \in Reachable
    BY <1>1, TreeHas DEF Shape
  <1>6. ROOT \in Directories
    BY <1>5 DEF Directories, GraphInv, RootAndUnused
  <1>7. One(NextOf(nd), ChildOf(nd))
    BY <1>1, <1>5 DEF One, Shape, GraphInv, OneReferrer
  <1>8. ASSUME NEW d \in Reachable PROVE Children(d) \subseteq Reachable
    <2>1. d \in Nodes /\ nd[d].children \in Refs
      BY <1>3, <1>5
    <2>2. nd[d].children # NULL => nd[d].children \in Tree(NextOf(nd), ChildOf(nd))
      BY <1>1, <2>1, TreeHas DEF Shape
    <2>3. List(NextOf(nd), nd[d].children) \subseteq Tree(NextOf(nd), ChildOf(nd))
      BY <1>1, <2>1, <2>2, ListInTree DEF Shape
    <2>4. QED
      BY <1>1, <1>4, <2>1, <2>3 DEF Shape
  <1>9. QED
    BY <1>1, <1>2, <1>3, <1>4, <1>5, <1>6, <1>7, <1>8 DEF Graph, Shape

-----------------------------------------------------------------------------
(* Lookups. *)

\* vfs_nodeFromSimlink follows one link at most.
LEMMA LinkIs ==
  ASSUME used \in 0 .. HEAP_NODES, LinksToDirectories
  PROVE  NodeFromSimlink = [n \in Nodes |-> IF nd[n].type = "SYMLINK" THEN nd[n].node_ptr ELSE n]
  <1> DEFINE Eq(f) == f = [n \in Nodes |-> IF nd[n].type = "SYMLINK" THEN f[nd[n].node_ptr] ELSE n]
             S == [n \in Nodes |-> IF nd[n].type = "SYMLINK" THEN nd[n].node_ptr ELSE n]
  <1>1. \A n \in Nodes : nd[n].type = "SYMLINK" =>
           nd[n].node_ptr \in Nodes /\ nd[nd[n].node_ptr].type # "SYMLINK"
    <2>1. used <= HEAP_NODES /\ used \in Nat
      BY NodeNumbers
    <2>2. 0 .. used \subseteq Nodes
      BY <2>1, NodeNumbers DEF Nodes
    <2>3. QED
      BY <2>2 DEF LinksToDirectories
  <1>2. Eq(S)
    <2>1. \A n \in Nodes : S[n] = IF nd[n].type = "SYMLINK" THEN S[nd[n].node_ptr] ELSE n
      BY <1>1
    <2>2. QED
      BY <2>1
  <1>3. ASSUME NEW f, Eq(f) PROVE f = S
    <2>1. \A n \in Nodes : f[n] = IF nd[n].type = "SYMLINK" THEN f[nd[n].node_ptr] ELSE n
      BY <1>3
    <2>2. \A n \in Nodes : f[n] = S[n]
      BY <1>1, <2>1
    <2>3. f = [n \in Nodes |-> f[n]]
      BY <1>3
    <2>4. QED
      BY <2>2, <2>3
  <1> HIDE DEF S
  <1>4. (CHOOSE f : Eq(f)) = S
    BY <1>2, <1>3
  <1>5. QED
    BY <1>4 DEF S, NodeFromSimlink

\* So it is in the tree.
LEMMA SimlinkIs ==
  ASSUME GraphInv
  PROVE  NodeFromSimlink = [n \in Nodes |-> IF nd[n].type = "SYMLINK" THEN nd[n].node_ptr ELSE n]
  BY LinkIs DEF GraphInv, NodesTypeOK

\* Where a link in the tree leads is a directory in the tree.
LEMMA SimlinkInTree ==
  ASSUME GraphInv, NEW n \in Reachable
  PROVE  /\ NodeFromSimlink[n] \in Reachable
         /\ nd[n].type = "SYMLINK" => NodeFromSimlink[n] \in Directories
         /\ nd[n].type # "SYMLINK" => NodeFromSimlink[n] = n
  <1>0. n \in Nodes
    BY GraphNow
  <1>1. NodeFromSimlink[n] = IF nd[n].type = "SYMLINK" THEN nd[n].node_ptr ELSE n
    BY <1>0, SimlinkIs
  <1>2. CASE nd[n].type = "SYMLINK"
    <2>1. nd[n].name \in {".", ".."} /\ n # ROOT
      BY <1>0, <1>2 DEF GraphInv, LinksToDirectories, RootAndUnused
    <2>2. PICK d \in Tree(NextOf(nd), ChildOf(nd)) : n \in List(NextOf(nd), ChildOf(nd)[d])
      BY <2>1, Held, GraphNow DEF Shape
    <2>3. d \in Reachable /\ d \in Nodes /\ ChildOf(nd)[d] = nd[d].children /\ n \in Children(d)
      BY <2>2, GraphNow DEF Shape
    <2>4. nd[d].children # NULL
      BY <2>2, <2>3 DEF List
    <2>5. d \in Directories
      BY <2>3, <2>4 DEF GraphInv, PointersAhead, Directories
    <2>6. nd[n].node_ptr \in Directories
      BY <2>1, <2>3, <2>5 DEF GraphInv, LinksStayHome
    <2>7. QED
      BY <1>1, <1>2, <2>6 DEF Directories
  <1>3. QED
    BY <1>1, <1>2

\* The children of one name are all found from any of them: there is one at most.
LEMMA OnlyOne ==
  ASSUME GraphInv, NEW d \in Directories, NEW name, NEW m \in Children(d), nd[m].name = name
  PROVE  {k \in Children(d) : nd[k].name = name} \subseteq ListFrom[m]
  <1>1. \A k \in Children(d) : nd[k].name = name => k = m
    BY DEF GraphInv, DistinctNames
  <1>2. m \in Nodes /\ m \in Refs /\ m # NULL
    BY GraphNow, NodeNumbers DEF Directories
  <1>3. m \in ListFrom[m]
    BY <1>2, GraphNow, ListHas DEF Shape
  <1>4. QED
    BY <1>1, <1>3

\* A lookup in the tree finds nodes of the tree.
LEMMA FindInTree ==
  ASSUME GraphInv, NEW dir \in Reachable, NEW name
  PROVE  FsFind(dir, name) \in Reachable \cup {NULL}
  <1> DEFINE d == NodeFromSimlink[dir]
             hits == {m \in Children(d) : nd[m].name = name}
  <1>1. d \in Reachable
    BY SimlinkInTree
  <1>2. \A m \in hits : m \in Reachable
    BY <1>1, GraphNow
  <1>3. CASE nd[d].type = "DIRECTORY" /\ hits # {}
    <2>1. FsFind(dir, name) = CHOOSE m \in hits : hits \subseteq ListFrom[m]
      BY <1>3 DEF FsFind
    <2>2. \A m \in hits : hits \subseteq ListFrom[m]
      BY <1>1, <1>3, OnlyOne DEF Directories
    <2> HIDE DEF hits
    <2>3. FsFind(dir, name) \in hits
      BY <1>3, <2>1, <2>2
    <2>4. QED
      BY <1>2, <2>3
  <1>4. CASE ~(nd[d].type = "DIRECTORY" /\ hits # {})
    BY <1>4 DEF FsFind
  <1>5. QED
    BY <1>3, <1>4

\* A lookup in a directory finds the child of the name, if there is one.
LEMMA FindIs ==
  ASSUME GraphInv, NEW d \in Directories, NEW name
  PROVE  /\ \A m \in Children(d) : nd[m].name = name => FsFind(d, name) = m
         /\ FsFind(d, name) = NULL => \A m \in Children(d) : nd[m].name # name
  <1> DEFINE hits == {m \in Children(d) : nd[m].name = name}
  <1>1. d \in Reachable /\ nd[d].type = "DIRECTORY" /\ NodeFromSimlink[d] = d
    BY SimlinkInTree DEF Directories
  <1>2. \A m \in Children(d) : m # NULL
    BY <1>1, GraphNow, NodeNumbers
  <1>3. ASSUME NEW m \in hits PROVE FsFind(d, name) = m
    <2>1. hits = {m}
      BY DEF GraphInv, DistinctNames
    <2>2. FsFind(d, name) = CHOOSE k \in hits : hits \subseteq ListFrom[k]
      BY <1>1, <1>3 DEF FsFind
    <2>3. hits \subseteq ListFrom[m]
      BY OnlyOne
    <2> HIDE DEF hits
    <2>4. QED
      BY <2>1, <2>2, <2>3
  <1>4. QED
    BY <1>2, <1>3

\* A path leads into the tree or nowhere.
LEMMA GetNodeInTree ==
  ASSUME GraphInv, NEW path, Len(path) \in Nat
  PROVE  FsGetNode(path) \in Reachable \cup {NULL}
  <1> DEFINE N == Len(path)
             R == Reachable \cup {NULL}
             W(x, k) == IF x = NULL THEN NULL ELSE FsFind(x, path[k])
             Eq(f) == f = [k \in 0 .. N |-> IF k = 0 THEN ROOT
                                            ELSE IF f[k - 1] = NULL THEN NULL
                                            ELSE FsFind(f[k - 1], path[k])]
  <1>0. ROOT \in R
    BY GraphNow DEF Directories
  <1>1. \A x \in R, k \in 1 .. N : W(x, k) \in R
    BY FindInTree
  <1> HIDE DEF R
  <1>2. \E f : Eq(f)
    <2> DEFINE P(k, f) == f \in [0 .. k -> R] /\ f[0] = ROOT /\ \A j \in 1 .. k : f[j] = W(f[j - 1], j)
               Bad == {k \in 0 .. N : ~\E f : P(k, f)}
    <2> HIDE DEF W
    <2>1. Bad = {}
      <3> SUFFICES ASSUME Bad # {} PROVE FALSE
        OBVIOUS
      <3>1. PICK k \in Bad : \A j \in Bad : k <= j
        <4>1. Bad \in SUBSET Nat
          OBVIOUS
        <4>2. QED
          BY <4>1, Least
      <3>2. k # 0
        <4> DEFINE z == [j \in 0 .. 0 |-> ROOT]
        <4>1. 0 \in 0 .. 0 /\ 1 .. 0 = {}
          OBVIOUS
        <4>2. z \in [0 .. 0 -> R] /\ z[0] = ROOT
          BY <1>0, <4>1
        <4>3. P(0, z)
          <5> HIDE DEF z
          <5>1. QED
            BY <4>1, <4>2
        <4>4. QED
          BY <4>3
      <3>3. k - 1 \in 0 .. N /\ k \in 1 .. N /\ k - 1 < k
        BY <3>2
      <3>4. k - 1 \notin Bad
        <4> HIDE DEF Bad
        <4>1. k \in Nat /\ ~(k <= k - 1)
          BY <3>3
        <4>2. QED
          BY <3>1, <4>1
      <3>5. PICK f : P(k - 1, f)
        BY <3>3, <3>4
      <3> DEFINE h == [j \in 0 .. k |-> IF j = k THEN W(f[k - 1], k) ELSE f[j]]
      <3>6. W(f[k - 1], k) \in R
        BY <1>1, <3>3, <3>5
      <3>7. P(k, h)
        BY <3>3, <3>5, <3>6
      <3>8. QED
        BY <3>1, <3>7
    <2>2. PICK f : P(N, f)
      BY <2>1
    <2>3. f = [k \in 0 .. N |-> IF k = 0 THEN ROOT ELSE W(f[k - 1], k)]
      <3>1. f = [k \in 0 .. N |-> f[k]]
        BY <2>2
      <3>2. \A k \in 0 .. N : f[k] = IF k = 0 THEN ROOT ELSE W(f[k - 1], k)
        BY <2>2
      <3>3. QED
        BY <3>1, <3>2
    <2>4. QED
      BY <2>3 DEF W
  <1>3. PICK f : Eq(f) /\ FsGetNode(path) = f[N]
    BY <1>2 DEF FsGetNode
  <1>4. \A k \in 0 .. N : f[k] = IF k = 0 THEN ROOT ELSE W(f[k - 1], k)
    BY <1>3
  <1> HIDE DEF W, Eq
  <1> DEFINE Bad == {k \in 0 .. N : f[k] \notin R}
  <1>5. Bad = {}
    <2> SUFFICES ASSUME Bad # {} PROVE FALSE
      OBVIOUS
    <2>1. PICK k \in Bad : \A j \in Bad : k <= j
      <3>1. Bad \in SUBSET Nat
        OBVIOUS
      <3>2. QED
        BY <3>1, Least
    <2>2. k # 0
      BY <1>0, <1>4
    <2>3. k - 1 \in 0 .. N /\ k \in 1 .. N /\ k - 1 < k
      BY <2>2
    <2>4. f[k - 1] \in R
      BY <2>1, <2>3
    <2>5. f[k] = W(f[k - 1], k)
      BY <1>4, <2>3
    <2>6. QED
      BY <1>1, <2>3, <2>4, <2>5
  <1>6. f[N] \in R
    BY <1>5
  <1>7. QED
    BY <1>3, <1>6 DEF R

-----------------------------------------------------------------------------
(* New nodes. *)

\* What is stored is a function of the nodes.
LEMMA StoredIs ==
  ASSUME NEW g, NEW new, NEW s
  PROVE  Stored(g, new, s) = [m \in Nodes |-> Stored(g, new, s)[m]]
  BY DEF Stored

\* A file is one node more.
LEMMA StoredOne ==
  ASSUME NEW g, NEW new, NEW s, new \in Nat, Len(s) = 1
  PROVE  \A m \in Nodes : Stored(g, new, s)[m] = IF m = new THEN s[1] ELSE g[m]
  <1>1. \A m \in Nodes : m \in Int
    BY DEF Nodes
  <1>3. \A m \in Nodes : m \in new .. new + 1 - 1 <=> m = new
    BY <1>1
  <1>4. \A m \in Nodes : Stored(g, new, s)[m] = IF m = new THEN s[1] ELSE g[m]
    <2> TAKE m \in Nodes
    <2>1. Stored(g, new, s)[m] = IF m \in new .. new + 1 - 1 THEN s[m - new + 1] ELSE g[m]
      BY DEF Stored
    <2>2. m = new => m - new + 1 = 1
      BY <1>1
    <2>3. QED
      BY <1>3, <2>1, <2>2
  <1>5. QED
    BY <1>4

\* A directory is three.
LEMMA StoredThree ==
  ASSUME NEW g, NEW new, NEW s, NEW p, NEW q, new \in Nat, Len(s) = 3, p = new + 1, q = new + 2,
         NEW m \in Nodes
  PROVE  /\ m = new => Stored(g, new, s)[m] = s[1]
         /\ m = p => Stored(g, new, s)[m] = s[2]
         /\ m = q => Stored(g, new, s)[m] = s[3]
         /\ m \notin {new, p, q} => Stored(g, new, s)[m] = g[m]
  <1>1. m \in Int
    BY DEF Nodes
  <1>4. Stored(g, new, s)[m] =
              IF m = new THEN s[1] ELSE IF m = new + 1 THEN s[2] ELSE IF m = new + 2 THEN s[3] ELSE g[m]
    <2>1. Stored(g, new, s)[m] = IF m \in new .. new + 3 - 1 THEN s[m - new + 1] ELSE g[m]
      BY DEF Stored
    <2>2. m \in new .. new + 3 - 1 <=> m = new \/ m = new + 1 \/ m = new + 2
      BY <1>1
    <2>3. CASE m = new
      <3>1. m - new + 1 = 1
        BY <2>3
      <3>2. QED
        BY <2>1, <2>2, <2>3, <3>1
    <2>4. CASE m = new + 1
      <3>1. m - new + 1 = 2 /\ m # new
        BY <2>4
      <3>2. QED
        BY <2>1, <2>2, <2>4, <3>1
    <2>5. CASE m = new + 2
      <3>1. m - new + 1 = 3 /\ m # new /\ m # new + 1
        BY <2>5
      <3>2. QED
        BY <2>1, <2>2, <2>5, <3>1
    <2>6. QED
      BY <2>1, <2>2, <2>3, <2>4, <2>5
  <1>5. QED
    BY <1>1, <1>4

-----------------------------------------------------------------------------
(* The invariant is inductive. *)

\* An operation that fails changes no node; it may have taken what was left of the heap.
LEMMA FailedStep ==
  ASSUME GraphInv, nd' = nd, used' \in used .. HEAP_NODES, freed' \subseteq 1 .. used',
         fault' \in BOOLEAN, NoLeakWhileRoom'
  PROVE  GraphInv'
  <1>0. used \in Nat /\ used' \in Nat /\ used <= used' /\ used' \in 0 .. HEAP_NODES
    BY NodeNumbers DEF GraphInv, NodesTypeOK
  <1>1. NodesTypeOK'
    BY <1>0 DEF GraphInv, NodesTypeOK
  <1>2. RootAndUnused'
    <2>1. \A n \in Nodes : n > used' => n > used
      BY <1>0, NodeNumbers
    <2>2. QED
      BY <2>1 DEF GraphInv, RootAndUnused
  <1>3. \A n \in Nodes : n + 1 .. used \subseteq n + 1 .. used'
    BY <1>0, NodeNumbers
  <1>4. PointersAhead'
    BY <1>3 DEF GraphInv, PointersAhead
  <1>5. ListFrom' = ListFrom /\ Hanging' = Hanging
    BY DEF ListFrom, Hanging
  <1>6. Reachable' = Reachable /\ Directories' = Directories
    BY <1>5 DEF Reachable, Directories
  <1>7. \A d : Children(d)' = Children(d)
    BY <1>5 DEF Children
  <1>8. OneReferrer'
    BY <1>6 DEF GraphInv, OneReferrer
  <1>9. 0 .. used \subseteq 0 .. used'
    BY <1>0
  <1>10. LinksToDirectories'
    BY <1>9 DEF GraphInv, LinksToDirectories
  <1>11. DistinctNames'
    BY <1>6, <1>7 DEF GraphInv, DistinctNames
  <1>12. LinksStayHome'
    BY <1>6, <1>7 DEF GraphInv, LinksStayHome
  <1>13. QED
    BY <1>1, <1>2, <1>4, <1>8, <1>10, <1>11, <1>12 DEF GraphInv

\* The nodes that are made.
LEMMA MadeNodes ==
  /\ \A n, c : /\ Directory(n, c).type = "DIRECTORY" /\ Directory(n, c).name = n
               /\ Directory(n, c).next = NULL /\ Directory(n, c).children = c
  /\ \A n, t, x : /\ Simlink(n, t, x).type = "SYMLINK" /\ Simlink(n, t, x).name = n
                  /\ Simlink(n, t, x).next = x /\ Simlink(n, t, x).children = NULL
                  /\ Simlink(n, t, x).node_ptr = t
  /\ \A n : /\ Regular(n).type = "REGULAR" /\ Regular(n).name = n
            /\ Regular(n).next = NULL /\ Regular(n).children = NULL
  /\ Unused.type = "UNUSED" /\ Unused.next = NULL /\ Unused.children = NULL
  BY DEF Directory, Simlink, Regular, Unused

\* They are nodes.
LEMMA MadeTypes ==
  /\ \A n \in AnyNames \cup {""}, c \in Refs : Directory(n, c) \in NodeType
  /\ \A n \in AnyNames, t, x \in Refs : Simlink(n, t, x) \in NodeType
  /\ \A n \in AnyNames : Regular(n) \in NodeType
  /\ Unused \in NodeType
  <1>1. NULL \in Refs /\ "DIRECTORY" \in Types /\ "SYMLINK" \in Types /\ "REGULAR" \in Types
        /\ "UNUSED" \in Types
    BY DEF Refs, Types
  <1>2. QED
    BY <1>1 DEF Directory, Simlink, Regular, Unused, NodeType

\* Initially there are the root and its two links.
LEMMA RamfsInitNodes ==
  ASSUME RamfsInit
  PROVE  /\ {0, 1, 2} \subseteq Nodes /\ 2 \in 0 .. HEAP_NODES /\ NULL \notin Nodes
         /\ used = 2 /\ freed = {} /\ fault = FALSE
         /\ nd[0] = Directory("", 1) /\ nd[1] = Simlink(".", 0, 2) /\ nd[2] = Simlink("..", 0, NULL)
         /\ \A n \in Nodes : n \notin {0, 1, 2} => nd[n] = Unused
         /\ nd = [n \in Nodes |-> nd[n]]
         /\ nd[0].type = "DIRECTORY" /\ nd[0].next = NULL /\ nd[0].children = 1
         /\ nd[1].type = "SYMLINK" /\ nd[1].next = 2 /\ nd[1].children = NULL /\ nd[1].name = "."
         /\ nd[1].node_ptr = 0
         /\ nd[2].type = "SYMLINK" /\ nd[2].next = NULL /\ nd[2].children = NULL /\ nd[2].name = ".."
         /\ nd[2].node_ptr = 0
  <1>0. {0, 1, 2} \subseteq Nodes /\ 2 \in 0 .. HEAP_NODES /\ NULL \notin Nodes
    <2>0. HEAP_NODES \in Nat /\ HEAP_NODES >= 2
      BY RamFSAssumption
    <2>1. 0 \in Nodes /\ 1 \in Nodes /\ 2 \in Nodes /\ 2 \in 0 .. HEAP_NODES
      BY <2>0 DEF Nodes
    <2>2. QED
      BY <2>1, NodeNumbers
  <1>1. used = 2 /\ freed = {} /\ fault = FALSE
    BY DEF RamfsInit, ROOT
  <1>2. /\ nd[0] = Directory("", 1) /\ nd[1] = Simlink(".", 0, 2) /\ nd[2] = Simlink("..", 0, NULL)
        /\ \A n \in Nodes : n \notin {0, 1, 2} => nd[n] = Unused
        /\ nd = [n \in Nodes |-> nd[n]]
    <2> DEFINE g == [n \in Nodes |-> Unused]
               a == Directory("", ROOT + 1)
               b == Simlink(".", ROOT, ROOT + 2)
               c == Simlink("..", ROOT, NULL)
    <2>1. nd = Stored(g, ROOT, <<a, b, c>>)
      BY DEF RamfsInit, NewDirectory
    <2>2. \A n \in Nodes : g[n] = Unused
      OBVIOUS
    <2>3. a = Directory("", 1) /\ b = Simlink(".", 0, 2) /\ c = Simlink("..", 0, NULL)
      BY DEF ROOT
    <2> HIDE DEF g, a, b, c
    <2>4. /\ nd = [n \in Nodes |-> nd[n]]
          /\ \A n \in Nodes : nd[n] = IF n = 0 THEN a ELSE IF n = 1 THEN b
                                      ELSE IF n = 2 THEN c ELSE g[n]
      <3> DEFINE s == <<a, b, c>>
                 S == Stored(g, ROOT, s)
      <3>0. s = <<a, b, c>> /\ Len(s) = 3 /\ s[1] = a /\ s[2] = b /\ s[3] = c
        OBVIOUS
      <3> HIDE DEF s
      <3>1. ROOT \in Nat /\ 1 = ROOT + 1 /\ 2 = ROOT + 2 /\ ROOT = 0
        BY DEF ROOT
      <3>2. \A n \in Nodes : S[n] = IF n = ROOT THEN a ELSE IF n = 1 THEN b
                                    ELSE IF n = 2 THEN c ELSE g[n]
        BY <3>0, <3>1, StoredThree
      <3> HIDE DEF S
      <3>3. \A n \in Nodes : S[n] = IF n = 0 THEN a ELSE IF n = 1 THEN b
                                    ELSE IF n = 2 THEN c ELSE g[n]
        BY <3>1, <3>2
      <3>6. S = [n \in Nodes |-> S[n]]
        BY StoredIs DEF S
      <3>4. nd = S
        BY <2>1, <3>0 DEF S
      <3>5. QED
        BY <3>6, <3>3, <3>4, Zenon
    <2>5. nd[0] = a /\ nd[1] = b /\ nd[2] = c /\ \A n \in Nodes : n \notin {0, 1, 2} => nd[n] = g[n]
      BY <1>0, <2>4
    <2>6. QED
      BY <2>2, <2>3, <2>4, <2>5
  <1>3. /\ nd[0].type = "DIRECTORY" /\ nd[0].next = NULL /\ nd[0].children = 1
        /\ nd[1].type = "SYMLINK" /\ nd[1].next = 2 /\ nd[1].children = NULL /\ nd[1].name = "."
        /\ nd[1].node_ptr = 0
        /\ nd[2].type = "SYMLINK" /\ nd[2].next = NULL /\ nd[2].children = NULL /\ nd[2].name = ".."
        /\ nd[2].node_ptr = 0
    <2>1. nd[0] = Directory("", 1) /\ nd[1] = Simlink(".", 0, 2) /\ nd[2] = Simlink("..", 0, NULL)
      BY <1>2
    <2>2. /\ Directory("", 1).type = "DIRECTORY" /\ Directory("", 1).next = NULL
          /\ Directory("", 1).children = 1
      BY DEF Directory
    <2>3. /\ Simlink(".", 0, 2).type = "SYMLINK" /\ Simlink(".", 0, 2).next = 2
          /\ Simlink(".", 0, 2).children = NULL /\ Simlink(".", 0, 2).name = "."
          /\ Simlink(".", 0, 2).node_ptr = 0
      BY DEF Simlink
    <2>4. /\ Simlink("..", 0, NULL).type = "SYMLINK" /\ Simlink("..", 0, NULL).next = NULL
          /\ Simlink("..", 0, NULL).children = NULL /\ Simlink("..", 0, NULL).name = ".."
          /\ Simlink("..", 0, NULL).node_ptr = 0
      BY DEF Simlink
    <2>5. QED
      BY <2>1, <2>2, <2>3, <2>4, Zenon
  <1>4. QED
    BY <1>0, <1>1, <1>2, <1>3, Zenon

\* The invariant holds initially.
LEMMA RamfsInitInv == RamfsInit => GraphInv
  <1> SUFFICES ASSUME RamfsInit PROVE GraphInv
    OBVIOUS
  <1> USE DEF ROOT
  <1>0. {0, 1, 2} \subseteq Nodes /\ 2 \in 0 .. HEAP_NODES /\ NULL \notin Nodes
    BY RamfsInitNodes
  <1>1. used = 2 /\ freed = {} /\ fault = FALSE
    BY RamfsInitNodes
  <1>2. /\ nd[0] = Directory("", 1) /\ nd[1] = Simlink(".", 0, 2) /\ nd[2] = Simlink("..", 0, NULL)
        /\ \A n \in Nodes : n \notin {0, 1, 2} => nd[n] = Unused
        /\ nd = [n \in Nodes |-> nd[n]]
    BY RamfsInitNodes, Zenon
  <1>3. /\ nd[0].type = "DIRECTORY" /\ nd[0].next = NULL /\ nd[0].children = 1
        /\ nd[1].type = "SYMLINK" /\ nd[1].next = 2 /\ nd[1].children = NULL /\ nd[1].name = "."
        /\ nd[1].node_ptr = 0
        /\ nd[2].type = "SYMLINK" /\ nd[2].next = NULL /\ nd[2].children = NULL /\ nd[2].name = ".."
        /\ nd[2].node_ptr = 0
    BY RamfsInitNodes, Zenon
  <1>4. \A n \in Nodes : n \notin {0, 1, 2} =>
           nd[n].type = "UNUSED" /\ nd[n].next = NULL /\ nd[n].children = NULL
    <2>1. \A n \in Nodes : n \notin {0, 1, 2} => nd[n] = Unused
      BY <1>2
    <2>2. Unused.type = "UNUSED" /\ Unused.next = NULL /\ Unused.children = NULL
      BY MadeNodes
    <2>3. QED
      BY <2>1, <2>2
  <1>5. NodesTypeOK
    <2>1. /\ Directory("", 1) \in NodeType /\ Simlink(".", 0, 2) \in NodeType
          /\ Simlink("..", 0, NULL) \in NodeType /\ Unused \in NodeType
      BY <1>0, MadeTypes DEF AnyNames, Refs
    <2>2. \A n \in Nodes : nd[n] \in NodeType
      BY <1>2, <2>1
    <2>3. QED
      BY <1>0, <1>1, <1>2, <2>2 DEF NodesTypeOK
  <1>6. RootAndUnused
    <2>1. \A n \in Nodes : n > 2 => n \notin {0, 1, 2}
      BY NodeNumbers
    <2>2. QED
      BY <1>1, <1>2, <1>3, <2>1 DEF RootAndUnused
  <1>7. PointersAhead
    <2>1. 1 \in 0 + 1 .. 2 /\ 2 \in 1 + 1 .. 2
      OBVIOUS
    <2>2. QED
      BY <1>1, <1>3, <1>4, <2>1 DEF PointersAhead
  <1>8. Shape(ListFrom, Hanging, Reachable, nd)
    BY <1>5, <1>6, <1>7, ShapeNow
  <1> DEFINE nx == NextOf(nd)
             ch == ChildOf(nd)
  <1>9. /\ nx \in Pointer /\ ch \in Pointer
        /\ nx[0] = NULL /\ nx[1] = 2 /\ nx[2] = NULL /\ ch[0] = 1 /\ ch[1] = NULL /\ ch[2] = NULL
    BY <1>0, <1>3, <1>8 DEF Shape
  <1>10. List(nx, NULL) = {} /\ 1 # NULL /\ 2 # NULL
    BY DEF List, NULL
  <1>11. List(nx, 2) = {2} /\ List(nx, 1) = {1, 2}
    BY <1>0, <1>9, <1>10, ListUnfold
  <1>12. Reachable = {0, 1, 2}
    <2>1. {0, 1, 2} \subseteq Tree(nx, ch)
      BY <1>9, <1>10, TreeHas
    <2>2. Tree(nx, ch) \subseteq {0, 1, 2}
      <3> DEFINE C == {0, 1, 2}
      <3>1. C \in SUBSET Nodes /\ ROOT \in C
        BY <1>0
      <3>2. \A x \in C : nx[x] # NULL => nx[x] \in C
        BY <1>9
      <3>3. \A x \in C : ch[x] # NULL => ch[x] \in C
        BY <1>9
      <3> HIDE DEF C, nx, ch
      <3>4. Tree(nx, ch) \subseteq C
        BY <1>9, <3>1, <3>2, <3>3, TreeLeast
      <3>5. QED
        BY <3>4 DEF C
    <2>3. QED
      BY <2>1, <2>2, <1>8 DEF Shape
  <1>13. Directories = {0} /\ Children(0) = {1, 2}
    BY <1>0, <1>3, <1>8, <1>11, <1>12, NodeNumbers DEF Directories, Children, Shape
  <1>14. OneReferrer
    BY <1>3, <1>10, <1>12 DEF OneReferrer
  <1>15. LinksToDirectories
    BY <1>1, <1>3, <1>4 DEF LinksToDirectories
  <1>16. DistinctNames
    BY <1>3, <1>13 DEF DistinctNames
  <1>17. LinksStayHome
    BY <1>3, <1>13 DEF LinksStayHome
  <1>18. NoLeakWhileRoom
    BY <1>1, <1>12 DEF NoLeakWhileRoom
  <1>19. QED
    BY <1>5, <1>6, <1>7, <1>14, <1>15, <1>16, <1>17, <1>18 DEF GraphInv

\* The nodes after the used ones are not in the tree.
LEMMA TreeIsUsed ==
  ASSUME GraphInv
  PROVE  Reachable \subseteq 0 .. used
  <1> DEFINE nx == NextOf(nd)
             ch == ChildOf(nd)
  <1>1. used \in Nat /\ used <= HEAP_NODES /\ 0 .. used \subseteq Nodes /\ ROOT \in 0 .. used
    BY NodeNumbers DEF GraphInv, NodesTypeOK, Nodes, ROOT
  <1>2. /\ nx \in Pointer /\ ch \in Pointer /\ Reachable = Tree(nx, ch)
        /\ \A n \in Nodes : nx[n] = nd[n].next /\ ch[n] = nd[n].children
    BY GraphNow DEF Shape
  <1>3. \A x \in 0 .. used : /\ nx[x] # NULL => nx[x] \in 0 .. used
                             /\ ch[x] # NULL => ch[x] \in 0 .. used
    <2> TAKE x \in 0 .. used
    <2>1. x \in Nodes
      BY <1>1
    <2>2. x + 1 .. used \subseteq 0 .. used
      BY <1>1
    <2>3. QED
      BY <1>2, <2>1, <2>2 DEF GraphInv, PointersAhead
  <1> HIDE DEF nx, ch
  <1>4. QED
    BY <1>1, <1>2, <1>3, TreeLeast

\* The root is in no list.
LEMMA RootInNoList ==
  ASSUME GraphInv, NEW d \in Reachable
  PROVE  ROOT \notin Children(d)
  <1> DEFINE nx == NextOf(nd)
             ch == ChildOf(nd)
             C == Nodes \ {ROOT}
  <1>1. /\ nx \in Pointer /\ ch \in Pointer /\ d \in Nodes /\ nx[d] \in Refs /\ ch[d] \in Refs
        /\ Ahead(nx) /\ Ahead(ch) /\ ch[d] = nd[d].children
    BY GraphNow DEF Shape
  <1>2. Children(d) = List(nx, ch[d])
    BY <1>1, GraphNow
  <1>3. \A x \in Nodes : \A y \in Refs : y # NULL /\ x < y => y \in C
    BY NodeNumbers DEF ROOT
  <1>4. \A x \in Nodes : nx[x] # NULL => nx[x] \in C
    BY <1>1, <1>3 DEF Ahead, Pointer
  <1>5. ch[d] # NULL => ch[d] \in C
    BY <1>1, <1>3 DEF Ahead
  <1> HIDE DEF nx, ch
  <1>6. List(nx, ch[d]) \subseteq C
    BY <1>1, <1>4, <1>5, ListLeast
  <1>7. QED
    BY <1>2, <1>6

\* The nodes K are hung into the tree: new as a child of directory p, the others as links.
Hung(p, new, K) ==
  /\ p \in Directories /\ new \in K /\ K \cap Reachable = {} /\ Reachable' = Reachable \cup K
  /\ \A d \in Reachable : Children(d)' = Children(d) \cup (IF d = p THEN {new} ELSE {})
  /\ \A n \in Reachable : nd'[n].type = nd[n].type /\ nd'[n].name = nd[n].name
  /\ nd'[new].type \in {"DIRECTORY", "REGULAR"}
  /\ \A n \in K \ {new} : nd'[n].type = "SYMLINK"

\* New nodes are hung behind the last child of a directory.
LEMMA HangInv ==
  ASSUME GraphInv,
         NEW p \in Directories, NEW last \in Children(p), nd[last].next = NULL,
         NEW new, new = used + 1, NEW top, top \in new .. HEAP_NODES,
         used' = top, freed' = freed, fault' = fault,
         nd' \in [Nodes -> NodeType],
         \A n \in Nodes : n \notin new .. top /\ n # last => nd'[n] = nd[n],
         nd'[last].type = nd[last].type, nd'[last].name = nd[last].name,
         nd'[last].children = nd[last].children, nd'[last].node_ptr = nd[last].node_ptr,
         nd'[last].next = new,
         nd'[new].next = NULL, nd'[new].name \notin {".", ".."},
         \A m \in Children(p) : nd[m].name # nd'[new].name,
         \A n \in new .. top : nd'[n].next = NULL \/ nd'[n].next \in n + 1 .. top,
         \A n \in new .. top : nd'[n].children = NULL \/ nd'[n].children \in n + 1 .. top,
         \A n \in new .. top : nd'[n].children # NULL => nd'[n].type = "DIRECTORY",
         new .. top \subseteq Below(NextOf(nd'), ChildOf(nd'), new),
         \A x, y \in new .. top :
            /\ nd'[x].next # NULL /\ nd'[x].next = nd'[y].next => x = y
            /\ nd'[x].children # NULL /\ nd'[x].children = nd'[y].children => x = y
            /\ nd'[x].next # NULL => nd'[x].next # nd'[y].children,
         nd'[new].type \in {"DIRECTORY", "REGULAR"},
         \A n \in (new .. top) \ {new} : nd'[n].type = "SYMLINK",
         \A n \in new .. top : nd'[n].type = "SYMLINK" =>
            /\ nd'[n].name \in {".", ".."} /\ nd'[n].node_ptr \in {p, new}
            /\ nd'[new].type = "DIRECTORY",
         \A m, q \in List(NextOf(nd'), nd'[new].children) : nd'[m].name = nd'[q].name => m = q,
         \A m \in List(NextOf(nd'), nd'[new].children) :
            /\ nd'[m].name = "." => nd'[m].node_ptr = new
            /\ nd'[m].name = ".." => nd'[m].node_ptr = p
  PROVE  GraphInv' /\ Hung(p, new, new .. top)
  <1> DEFINE nx == NextOf(nd)
             ch == ChildOf(nd)
             nx2 == NextOf(nd')
             ch2 == ChildOf(nd')
             K == new .. top
  <1>1. /\ Graph(nx, ch) /\ Shape(ListFrom, Hanging, Reachable, nd)
        /\ nd \in [Nodes -> NodeType] /\ Reachable \subseteq Nodes
        /\ \A d \in Nodes : Children(d) = List(nx, nd[d].children)
        /\ \A d \in Reachable : Children(d) \subseteq Reachable
        /\ Reachable = Tree(nx, ch) /\ Directories \subseteq Reachable
        /\ \A n \in Nodes : nx[n] = nd[n].next /\ ch[n] = nd[n].children
    BY GraphNow DEF Shape, Directories
  <1>2. /\ used \in Nat /\ new \in Nat /\ top \in Nat /\ used < new /\ new <= top /\ top <= HEAP_NODES
        /\ HEAP_NODES \in Nat
    BY NodeNumbers DEF GraphInv, NodesTypeOK
  <1>3. /\ K \subseteq Nodes /\ new \in K /\ new \in Nodes /\ top \in 0 .. HEAP_NODES /\ top \in Nodes
        /\ 0 .. used \subseteq 0 .. top /\ 1 .. used \subseteq 1 .. top /\ K \cap 0 .. used = {}
        /\ 1 .. top \subseteq (1 .. used) \cup K
    BY <1>2 DEF Nodes
  <1>4. Reachable \cap K = {} /\ p \in Reachable /\ last \in Reachable /\ last \notin K /\ last # ROOT
    BY <1>1, <1>3, TreeIsUsed, RootInNoList
  <1>5. \A n \in Nodes \ K : /\ nd'[n].type = nd[n].type /\ nd'[n].name = nd[n].name
                             /\ nd'[n].children = nd[n].children /\ nd'[n].node_ptr = nd[n].node_ptr
                             /\ nd'[n].next = IF n = last THEN new ELSE nd[n].next
    OBVIOUS
  <1>6. NodesTypeOK'
    BY <1>3 DEF GraphInv, NodesTypeOK
  <1>7. RootAndUnused'
    <2>1. ROOT \in Nodes \ K
      BY <1>1, <1>4, TreeHas DEF Graph
    <2>2. nd'[ROOT].type = "DIRECTORY" /\ nd'[ROOT].next = NULL
      BY <2>1, <1>4, <1>5 DEF GraphInv, RootAndUnused
    <2>3. ASSUME NEW n \in Nodes, n > top PROVE nd'[n] = Unused
      <3>1. n \in Nat /\ n > used /\ n \notin K /\ n \notin 0 .. used
        BY <2>3, <1>2, NodeNumbers
      <3>2. n # last
        BY <3>1, <1>4, TreeIsUsed
      <3>3. QED
        BY <3>1, <3>2 DEF GraphInv, RootAndUnused
    <2>4. QED
      BY <2>2, <2>3 DEF RootAndUnused
  <1>8. PointersAhead'
    <2>1. ASSUME NEW n \in Nodes
          PROVE  /\ nd'[n].next = NULL \/ nd'[n].next \in n + 1 .. top
                 /\ nd'[n].children = NULL
                    \/ (nd'[n].children \in n + 1 .. top /\ nd'[n].type = "DIRECTORY")
      <3>1. n \in Nat /\ n + 1 .. used \subseteq n + 1 .. top
        BY <1>2, NodeNumbers
      <3>2. n = last => new \in n + 1 .. top
        <4>1. n = last => n \in 0 .. used
          BY <1>4, TreeIsUsed
        <4>2. QED
          BY <1>2, <4>1
      <3>3. CASE n \in K
        BY <3>3
      <3>4. CASE n \notin K
        BY <1>5, <3>1, <3>2, <3>4 DEF GraphInv, PointersAhead
      <3>5. QED
        BY <3>3, <3>4
    <2>2. QED
      BY <2>1 DEF PointersAhead
  <1>9. Shape(ListFrom', Hanging', Reachable', nd')
    BY <1>6, <1>7, <1>8, ShapeThen
  <1>10. /\ nx2 \in Pointer /\ ch2 \in Pointer /\ Ahead(nx2) /\ Ahead(ch2)
         /\ \A n \in Nodes : nx2[n] = nd'[n].next /\ ch2[n] = nd'[n].children
         /\ Reachable' = Tree(nx2, ch2)
         /\ \A c \in Refs : ListFrom'[c] = List(nx2, c)
    BY <1>9 DEF Shape
  <1>11. Hang(nx, ch, p, last, new, K, nx2, ch2)
    <2>1. last \in List(nx, ch[p]) /\ nx[last] = NULL
      BY <1>1, <1>4
    <2>2. \A x \in Nodes \ K : nx2[x] = (IF x = last THEN new ELSE nx[x]) /\ ch2[x] = ch[x]
      BY <1>1, <1>5, <1>10
    <2>3. \A x \in K : /\ nx2[x] = nd'[x].next /\ ch2[x] = nd'[x].children
                       /\ x + 1 .. top \subseteq K \ {new}
      BY <1>2, <1>3, <1>10
    <2>4. \A x \in K : /\ nx2[x] = NULL \/ nx2[x] \in K \ {new}
                       /\ ch2[x] = NULL \/ ch2[x] \in K \ {new}
      BY <2>3
    <2>5. \A x, y \in K : /\ nx2[x] # NULL /\ nx2[x] = nx2[y] => x = y
                          /\ ch2[x] # NULL /\ ch2[x] = ch2[y] => x = y
                          /\ nx2[x] # NULL => nx2[x] # ch2[y]
      BY <2>3
    <2>6. nx2[new] = NULL /\ K \subseteq Below(nx2, ch2, new)
      BY <1>3, <1>10
    <2>7. QED
      BY <1>1, <1>3, <1>4, <1>10, <2>1, <2>2, <2>4, <2>5, <2>6 DEF Hang
  <1>12. Graph(nx2, ch2) /\ Reachable' = Reachable \cup K
    BY <1>1, <1>10, <1>11, HangGraph, HangTree
  <1>13. \A d \in Reachable : Children(d)' = Children(d) \cup (IF d = p THEN {new} ELSE {})
    <2> TAKE d \in Reachable
    <2>1. d \in Nodes /\ nd'[d].children \in Refs /\ ch2[d] = nd'[d].children /\ ch[d] = nd[d].children
      BY <1>1, <1>10 DEF Pointer
    <2>2. Children(d)' = List(nx2, ch2[d])
      BY <1>10, <2>1 DEF Children
    <2>3. Children(d) = List(nx, ch[d])
      BY <1>1, <2>1
    <2>4. d \in Tree(nx, ch) /\ Graph(nx, ch) /\ Hang(nx, ch, p, last, new, K, nx2, ch2)
      BY <1>1, <1>11
    <2> HIDE DEF nx, ch, nx2, ch2, K
    <2>5. List(nx2, ch2[d]) = List(nx, ch[d]) \cup (IF d = p THEN {new} ELSE {})
      BY <2>4, HangLists
    <2>6. QED
      BY <2>2, <2>3, <2>5
  <1>14. Children(new)' = List(nx2, nd'[new].children)
    <2>1. nd'[new].children \in Refs
      BY <1>3, <1>10 DEF Pointer
    <2>2. QED
      BY <1>10, <2>1 DEF Children
  <1>15. Directories' = Directories \cup (IF nd'[new].type = "DIRECTORY" THEN {new} ELSE {})
    <2>1. Directories' = {d \in Reachable' : nd'[d].type = "DIRECTORY"}
      BY DEF Directories
    <2>2. \A d \in Reachable : nd'[d].type = nd[d].type
      BY <1>1, <1>4, <1>5
    <2>3. \A d \in K : nd'[d].type = "DIRECTORY" => d = new
      OBVIOUS
    <2> HIDE DEF K
    <2>4. new \in K /\ Reachable' = Reachable \cup K
      BY <1>3, <1>12
    <2>5. Directories = {d \in Reachable : nd[d].type = "DIRECTORY"}
      BY DEF Directories
    <2>6. CASE nd'[new].type = "DIRECTORY"
      <3>1. \A d : d \in Directories' <=> (d \in Directories \/ d = new)
        BY <2>1, <2>2, <2>3, <2>4, <2>5, <2>6
      <3>2. QED
        BY <2>6, <3>1
    <2>7. CASE nd'[new].type # "DIRECTORY"
      <3>1. \A d : d \in Directories' <=> d \in Directories
        BY <2>1, <2>2, <2>3, <2>4, <2>5, <2>7
      <3>2. QED
        BY <2>7, <3>1
    <2>8. QED
      BY <2>6, <2>7
  <1> HIDE DEF nx, ch, nx2, ch2, K
  <1>16. OneReferrer'
    <2>1. \A m, q \in Reachable' :
             /\ nx2[m] # NULL /\ nx2[m] = nx2[q] => m = q
             /\ ch2[m] # NULL /\ ch2[m] = ch2[q] => m = q
             /\ nx2[m] # NULL => nx2[m] # ch2[q]
      BY <1>10, <1>12 DEF Graph, One
    <2>2. \A m \in Reachable' : nx2[m] = nd'[m].next /\ ch2[m] = nd'[m].children
      BY <1>1, <1>3, <1>10, <1>12 DEF K
    <2>3. QED
      BY <2>1, <2>2 DEF OneReferrer
  <1>17. LinksToDirectories'
    <2> SUFFICES ASSUME NEW n \in Nodes, nd'[n].type = "SYMLINK"
                 PROVE  /\ nd'[n].name \in {".", ".."}
                        /\ nd'[n].node_ptr \in 0 .. top /\ nd'[nd'[n].node_ptr].type = "DIRECTORY"
      BY DEF LinksToDirectories
    <2>1. p \in 0 .. top /\ new \in 0 .. top /\ p \in Nodes /\ p \notin K /\ nd'[p].type = "DIRECTORY"
      BY <1>1, <1>2, <1>3, <1>4, <1>5, TreeIsUsed DEF Directories
    <2>2. CASE n \in K
      BY <2>1, <2>2 DEF K
    <2>3. CASE n \notin K
      <3>1. nd[n].type = "SYMLINK" /\ nd'[n].name = nd[n].name /\ nd'[n].node_ptr = nd[n].node_ptr
        BY <1>5, <2>3
      <3>2. /\ nd[n].name \in {".", ".."}
            /\ nd[n].node_ptr \in 0 .. used /\ nd[nd[n].node_ptr].type = "DIRECTORY"
        BY <3>1 DEF GraphInv, LinksToDirectories
      <3>3. nd[n].node_ptr \in Nodes \ K
        BY <1>2, <1>3, <3>2 DEF Nodes
      <3>4. QED
        BY <1>3, <1>5, <3>1, <3>2, <3>3
    <2>4. QED
      BY <2>2, <2>3
  <1>18. \A d \in Directories : \A m \in Children(d) :
            m \in Nodes \ K /\ nd'[m].name = nd[m].name /\ nd'[m].node_ptr = nd[m].node_ptr
    BY <1>1, <1>4, <1>5
  <1>19. DistinctNames'
    <2> SUFFICES ASSUME NEW d \in Directories', NEW m \in Children(d)', NEW q \in Children(d)',
                        nd'[m].name = nd'[q].name
                 PROVE  m = q
      BY DEF DistinctNames
    <2>1. CASE d = new
      BY <1>14, <2>1 DEF nx2
    <2>2. CASE d \in Directories
      <3>1. \A x \in Children(d) : nd'[x].name = nd[x].name
        BY <1>18, <2>2
      <3>2. \A x, y \in Children(d) : nd[x].name = nd[y].name => x = y
        BY <2>2 DEF GraphInv, DistinctNames
      <3>3. Children(d)' = Children(d) \cup (IF d = p THEN {new} ELSE {})
        BY <1>1, <1>13, <2>2
      <3>4. d = p => \A x \in Children(d) : nd'[x].name # nd'[new].name
        BY <3>1
      <3>5. QED
        BY <3>1, <3>2, <3>3, <3>4
    <2>3. QED
      BY <1>15, <2>1, <2>2
  <1>20. LinksStayHome'
    <2> SUFFICES ASSUME NEW d \in Directories', NEW n \in Children(d)'
                 PROVE  /\ nd'[n].name = "." => nd'[n].node_ptr = d
                        /\ nd'[n].name = ".." =>
                             /\ nd'[n].node_ptr \in Directories'
                             /\ IF d = ROOT THEN nd'[n].node_ptr = ROOT
                                ELSE d \in Children(nd[n].node_ptr)'
      BY DEF LinksStayHome
    <2>1. CASE d = new
      <3>1. new # ROOT /\ new \in Children(p)' /\ p \in Directories'
        BY <1>2, <1>4, <1>13, <1>15 DEF ROOT
      <3>2. /\ nd'[n].name = "." => nd'[n].node_ptr = new
            /\ nd'[n].name = ".." => nd'[n].node_ptr = p
        BY <1>14, <2>1 DEF nx2
      <3>3. nd'[n].node_ptr = p => Children(nd[n].node_ptr)' = Children(p)'
        BY DEF Children
      <3>4. QED
        BY <2>1, <3>1, <3>2, <3>3
    <2>2. CASE d \in Directories /\ n = new
      BY <2>2
    <2>3. CASE d \in Directories /\ n # new
      <3>1. n \in Children(d)
        BY <1>1, <1>13, <2>3
      <3>2. nd'[n].name = nd[n].name /\ nd'[n].node_ptr = nd[n].node_ptr
        BY <1>18, <2>3, <3>1
      <3>3. /\ nd[n].name = "." => nd[n].node_ptr = d
            /\ nd[n].name = ".." => /\ nd[n].node_ptr \in Directories
                                   /\ IF d = ROOT THEN nd[n].node_ptr = ROOT
                                      ELSE d \in Children(nd[n].node_ptr)
        BY <2>3, <3>1 DEF GraphInv, LinksStayHome
      <3>4. \A x \in Directories : x \in Directories' /\ Children(x) \subseteq Children(x)'
        BY <1>1, <1>13, <1>15
      <3>5. \A x : x = nd'[n].node_ptr => Children(nd[n].node_ptr)' = Children(x)'
        BY DEF Children
      <3>6. QED
        BY <3>2, <3>3, <3>4, <3>5
    <2>4. QED
      BY <1>15, <2>1, <2>2, <2>3
  <1>21. NoLeakWhileRoom'
    <2>1. HEAP_NODES - top > 0 => HEAP_NODES - used > 0
      BY <1>2
    <2>2. ~fault /\ HEAP_NODES - used > 0 => 1 .. used \subseteq Reachable \cup freed
      BY DEF GraphInv, NoLeakWhileRoom, Room
    <2>3. QED
      BY <1>3, <1>12, <2>1, <2>2 DEF NoLeakWhileRoom, Room
  <1>22. GraphInv'
    BY <1>6, <1>7, <1>8, <1>16, <1>17, <1>19, <1>20, <1>21 DEF GraphInv
  <1>23. \A n \in Reachable : nd'[n].type = nd[n].type /\ nd'[n].name = nd[n].name
    BY <1>1, <1>4, <1>5
  <1>24. QED
    BY <1>3, <1>4, <1>12, <1>13, <1>22, <1>23 DEF Hung, K

-----------------------------------------------------------------------------
(* Creating a file or a directory. *)

\* A path that is given is a finite sequence of names.
LEMMA PathLength ==
  ASSUME NEW path \in Paths
  PROVE  path \in Seq(AnyNames) /\ Len(path) \in Nat
  <1>1. MAX_PATH \in Nat
    BY RamFSAssumption
  <1>2. PICK k \in 0 .. MAX_PATH : path \in [1 .. k -> AnyNames]
    BY DEF Paths
  <1>3. k \in Nat
    BY <1>1
  <1>4. path \in Seq(AnyNames)
    BY <1>2, <1>3
  <1>5. QED
    BY <1>4

\* Where a new node of a name that is not there is hung.
LEMMA HangPlace ==
  ASSUME GraphInv, NEW parent \in Reachable, nd[parent].children # NULL,
         NEW name, FsFind(parent, name) = NULL
  PROVE  /\ parent \in Directories
         /\ LastChild(parent) \in Children(parent) /\ nd[LastChild(parent)].next = NULL
         /\ \A m \in Children(parent) : nd[m].name # name
  <1> DEFINE nx == NextOf(nd)
  <1>1. /\ parent \in Nodes /\ nx \in Pointer /\ Ahead(nx) /\ nd[parent].children \in Nodes
        /\ Children(parent) = List(nx, nd[parent].children)
        /\ \A n \in Nodes : nx[n] = nd[n].next
    BY GraphNow, NodeNumbers DEF Shape
  <1>2. parent \in Directories
    BY <1>1 DEF Directories, GraphInv, PointersAhead
  <1>3. \E m \in Children(parent) : nd[m].next = NULL
    <2> HIDE DEF nx
    <2>1. PICK m \in List(nx, nd[parent].children) : nx[m] = NULL
      BY <1>1, ListEnds
    <2>2. m \in Nodes
      BY <1>1, <2>1, ListHas, NodeNumbers
    <2>3. QED
      BY <1>1, <2>1, <2>2
  <1>4. LastChild(parent) \in Children(parent) /\ nd[LastChild(parent)].next = NULL
    BY <1>3 DEF LastChild
  <1>5. QED
    BY <1>2, <1>4, FindIs

\* The last child with its next pointer set.
LEMMA LastLinked ==
  ASSUME nd \in [Nodes -> NodeType], NEW last \in Nodes, NEW new \in Nodes
  PROVE  LET g == [nd EXCEPT ![last].next = new]
         IN  /\ \A n \in Nodes : n # last => g[n] = nd[n]
             /\ g[last].type = nd[last].type /\ g[last].name = nd[last].name
             /\ g[last].children = nd[last].children /\ g[last].node_ptr = nd[last].node_ptr
             /\ g[last].next = new
             /\ \A n \in Nodes : g[n] \in NodeType
  <1>1. new \in Refs
    BY DEF Refs
  <1>2. QED
    BY <1>1 DEF NodeType

\* A file is hung behind the last child.
LEMMA HangFile ==
  ASSUME GraphInv, NEW parent \in Reachable, NEW name \in AnyNames, MayCreate(parent, name),
         nd[parent].children # NULL, Room >= 1, Alloc(1), UNCHANGED freed,
         HangLast(parent, used + 1, NewFile(name))
  PROVE  GraphInv' /\ Hung(parent, used + 1, used + 1 .. used')
  <1> DEFINE last == LastChild(parent)
             new == used + 1
             g == [nd EXCEPT ![last].next = new]
             s == NewFile(name)
  <1>1. /\ parent \in Directories /\ last \in Children(parent) /\ nd[last].next = NULL
        /\ \A m \in Children(parent) : nd[m].name # name
        /\ name \notin {".", ".."}
    BY HangPlace DEF MayCreate, CheckFileName
  <1>2. used \in Nat /\ new \in Nodes /\ new \in Nat /\ new .. new = {new} /\ new \in new .. HEAP_NODES
        /\ used' = new /\ freed' = freed
    <2>1. used \in Nat /\ HEAP_NODES \in Nat
      BY NodeNumbers DEF GraphInv, NodesTypeOK
    <2>2. QED
      BY <2>1 DEF Room, Alloc, Nodes
  <1>3. nd' = Stored(g, new, s) /\ fault' = fault
    BY DEF HangLast
  <1>4. nd \in [Nodes -> NodeType] /\ last \in Nodes /\ last # new
    <2>1. last \in Reachable /\ last \in 0 .. used
      BY <1>1, GraphNow, TreeIsUsed DEF Directories
    <2>2. QED
      BY <1>2, <2>1, GraphNow
  <1>5. s[1] = Regular(name) /\ Len(s) = 1
    BY DEF NewFile
  <1>6. /\ \A n \in Nodes : n # last => g[n] = nd[n]
        /\ g[last].type = nd[last].type /\ g[last].name = nd[last].name
        /\ g[last].children = nd[last].children /\ g[last].node_ptr = nd[last].node_ptr
        /\ g[last].next = new
        /\ \A n \in Nodes : g[n] \in NodeType
    BY <1>2, <1>4, LastLinked
  <1> HIDE DEF last, new, g, s
  <1>7. \A n \in Nodes : nd'[n] = IF n = new THEN Regular(name) ELSE g[n]
    <2>1. new \in Nat /\ nd' = Stored(g, new, s)
      BY <1>2, <1>3
    <2>2. \A n \in Nodes : Stored(g, new, s)[n] = IF n = new THEN s[1] ELSE g[n]
      BY <1>5, <2>1, StoredOne
    <2>3. QED
      BY <1>5, <2>1, <2>2
  <1>8. nd' \in [Nodes -> NodeType]
    <2>1. nd' = [n \in Nodes |-> nd'[n]]
      BY <1>3, StoredIs
    <2>2. \A n \in Nodes : nd'[n] \in NodeType
      BY <1>6, <1>7, MadeTypes
    <2>3. QED
      BY <2>1, <2>2
  <1>9. /\ nd'[new].type = "REGULAR" /\ nd'[new].name = name /\ nd'[new].next = NULL
        /\ nd'[new].children = NULL
    BY <1>2, <1>7, MadeNodes
  <1>10. new .. new \subseteq Below(NextOf(nd'), ChildOf(nd'), new)
    <2>1. NextOf(nd') \in Pointer /\ ChildOf(nd') \in Pointer
      BY <1>8 DEF NextOf, ChildOf, Pointer, NodeType
    <2>2. QED
      BY <1>2, <2>1, BelowHas, NodeNumbers
  <1>11. List(NextOf(nd'), nd'[new].children) = {}
    BY <1>9 DEF List
  <1>12. /\ nd'[last] = g[last] /\ \A n \in Nodes : n \notin new .. new /\ n # last => nd'[n] = nd[n]
    BY <1>2, <1>4, <1>6, <1>7
  <1>13. /\ nd'[last].type = nd[last].type /\ nd'[last].name = nd[last].name
         /\ nd'[last].children = nd[last].children /\ nd'[last].node_ptr = nd[last].node_ptr
         /\ nd'[last].next = new
    BY <1>6, <1>12
  <1>14. \A x \in new .. new : x = new
    BY <1>2
  <1>15. /\ \A n \in new .. new : nd'[n].next = NULL \/ nd'[n].next \in n + 1 .. new
         /\ \A n \in new .. new : nd'[n].children = NULL \/ nd'[n].children \in n + 1 .. new
         /\ \A n \in new .. new : nd'[n].children # NULL => nd'[n].type = "DIRECTORY"
         /\ \A x, y \in new .. new :
               /\ nd'[x].next # NULL /\ nd'[x].next = nd'[y].next => x = y
               /\ nd'[x].children # NULL /\ nd'[x].children = nd'[y].children => x = y
               /\ nd'[x].next # NULL => nd'[x].next # nd'[y].children
         /\ \A n \in new .. new : nd'[n].type # "SYMLINK"
         /\ \A n \in (new .. new) \ {new} : nd'[n].type = "SYMLINK"
         /\ nd'[new].type \in {"DIRECTORY", "REGULAR"}
    BY <1>9, <1>14
  <1>16. /\ \A n \in new .. new : nd'[n].type = "SYMLINK" =>
               /\ nd'[n].name \in {".", ".."} /\ nd'[n].node_ptr \in {parent, new}
               /\ nd'[new].type = "DIRECTORY"
         /\ \A m, q \in List(NextOf(nd'), nd'[new].children) : nd'[m].name = nd'[q].name => m = q
         /\ \A m \in List(NextOf(nd'), nd'[new].children) :
               /\ nd'[m].name = "." => nd'[m].node_ptr = new
               /\ nd'[m].name = ".." => nd'[m].node_ptr = parent
    BY <1>11, <1>15
  <1>17. new = used + 1 /\ nd'[new].name \notin {".", ".."} /\ nd'[new].next = NULL
         /\ \A m \in Children(parent) : nd[m].name # nd'[new].name
    BY <1>1, <1>9 DEF new
  <1>18. new \in new .. HEAP_NODES /\ used' = new /\ freed' = freed /\ fault' = fault
    BY <1>2, <1>3
  <1>19. GraphInv' /\ Hung(parent, new, new .. new)
    BY <1>1, <1>8, <1>10, <1>12, <1>13, <1>15, <1>16, <1>17, <1>18, HangInv
  <1>20. QED
    BY <1>17, <1>18, <1>19

\* A directory and its two links are hung behind the last child.
LEMMA HangDirectory ==
  ASSUME GraphInv, NEW parent \in Reachable, NEW name \in AnyNames, MayCreate(parent, name),
         nd[parent].children # NULL, Room >= 3, Alloc(3), UNCHANGED freed,
         HangLast(parent, used + 1, NewDirectory(name, parent, used + 1))
  PROVE  GraphInv' /\ Hung(parent, used + 1, used + 1 .. used')
  <1> DEFINE last == LastChild(parent)
             new == used + 1
             here == used + 2
             top == used + 3
             g == [nd EXCEPT ![last].next = new]
             s == NewDirectory(name, parent, new)
  <1>1. /\ parent \in Directories /\ last \in Children(parent) /\ nd[last].next = NULL
        /\ \A m \in Children(parent) : nd[m].name # name
        /\ name \notin {".", ".."}
    BY HangPlace DEF MayCreate, CheckFileName
  <1>2. /\ used \in Nat /\ new \in Nodes /\ new \in Nat /\ here \in Nodes /\ top \in Nodes
        /\ here = new + 1 /\ top = new + 2 /\ new .. top = {new, here, top}
        /\ top \in new .. HEAP_NODES /\ used' = top /\ freed' = freed
        /\ here \in new + 1 .. top /\ top \in here + 1 .. top /\ new # here /\ here # top /\ new # top
    <2>1. used \in Nat /\ HEAP_NODES \in Nat
      BY NodeNumbers DEF GraphInv, NodesTypeOK
    <2>2. QED
      BY <2>1 DEF Room, Alloc, Nodes
  <1>3. nd' = Stored(g, new, s) /\ fault' = fault
    BY DEF HangLast
  <1>4. nd \in [Nodes -> NodeType] /\ last \in Nodes /\ last \notin {new, here, top} /\ parent \in Nodes
    <2>1. last \in Reachable /\ last \in 0 .. used
      BY <1>1, GraphNow, TreeIsUsed DEF Directories
    <2>2. QED
      BY <1>2, <2>1, GraphNow
  <1>5. s[1] = Directory(name, new + 1) /\ s[2] = Simlink(".", new, new + 2)
        /\ s[3] = Simlink("..", parent, NULL) /\ Len(s) = 3
    BY DEF NewDirectory
  <1>6. /\ \A n \in Nodes : n # last => g[n] = nd[n]
        /\ g[last].type = nd[last].type /\ g[last].name = nd[last].name
        /\ g[last].children = nd[last].children /\ g[last].node_ptr = nd[last].node_ptr
        /\ g[last].next = new
        /\ \A n \in Nodes : g[n] \in NodeType
    BY <1>2, <1>4, LastLinked
  <1> HIDE DEF last, new, here, top, g, s
  <1>7. /\ nd'[new] = Directory(name, here) /\ nd'[here] = Simlink(".", new, top)
        /\ nd'[top] = Simlink("..", parent, NULL)
        /\ \A n \in Nodes : n \notin {new, here, top} => nd'[n] = g[n]
    BY <1>2, <1>3, <1>5, StoredThree
  <1>8. nd' \in [Nodes -> NodeType]
    <2>1. nd' = [n \in Nodes |-> nd'[n]]
      BY <1>3, StoredIs
    <2>2. here \in Refs /\ new \in Refs /\ top \in Refs /\ parent \in Refs /\ NULL \in Refs
          /\ "." \in AnyNames /\ ".." \in AnyNames
      BY <1>2, <1>4 DEF Refs, AnyNames
    <2>3. Directory(name, here) \in NodeType
      BY <2>2, MadeTypes
    <2>4. Simlink(".", new, top) \in NodeType /\ Simlink("..", parent, NULL) \in NodeType
      BY <2>2, MadeTypes
    <2>5. \A n \in Nodes : nd'[n] \in NodeType
      BY <1>6, <1>7, <2>3, <2>4
    <2>6. QED
      BY <2>1, <2>5
  <1>9. /\ nd'[new].type = "DIRECTORY" /\ nd'[new].name = name /\ nd'[new].next = NULL
        /\ nd'[new].children = here
    <2>1. /\ Directory(name, here).type = "DIRECTORY" /\ Directory(name, here).name = name
          /\ Directory(name, here).next = NULL /\ Directory(name, here).children = here
      BY DEF Directory
    <2>2. QED
      BY <1>7, <2>1
  <1>10. /\ nd'[here].type = "SYMLINK" /\ nd'[here].name = "." /\ nd'[here].next = top
         /\ nd'[here].children = NULL /\ nd'[here].node_ptr = new
    <2>1. /\ Simlink(".", new, top).type = "SYMLINK" /\ Simlink(".", new, top).name = "."
          /\ Simlink(".", new, top).next = top /\ Simlink(".", new, top).children = NULL
          /\ Simlink(".", new, top).node_ptr = new
      BY DEF Simlink
    <2>2. QED
      BY <1>7, <2>1
  <1>11. /\ nd'[top].type = "SYMLINK" /\ nd'[top].name = ".." /\ nd'[top].next = NULL
         /\ nd'[top].children = NULL /\ nd'[top].node_ptr = parent
    <2>1. /\ Simlink("..", parent, NULL).type = "SYMLINK" /\ Simlink("..", parent, NULL).name = ".."
          /\ Simlink("..", parent, NULL).next = NULL /\ Simlink("..", parent, NULL).children = NULL
          /\ Simlink("..", parent, NULL).node_ptr = parent
      BY DEF Simlink
    <2>2. QED
      BY <1>7, <2>1
  <1>12. /\ NextOf(nd') \in Pointer /\ ChildOf(nd') \in Pointer
         /\ NextOf(nd')[here] = top /\ NextOf(nd')[top] = NULL /\ ChildOf(nd')[new] = here
         /\ here # NULL /\ top # NULL /\ new # NULL
    <2>1. NextOf(nd') \in Pointer /\ ChildOf(nd') \in Pointer
      BY <1>8 DEF NextOf, ChildOf, Pointer, NodeType
    <2>2. NextOf(nd')[here] = top /\ NextOf(nd')[top] = NULL /\ ChildOf(nd')[new] = here
      BY <1>2, <1>9, <1>10, <1>11 DEF NextOf, ChildOf
    <2>3. QED
      BY <1>2, <2>1, <2>2, NodeNumbers
  <1>13. new .. top \subseteq Below(NextOf(nd'), ChildOf(nd'), new)
    <2> DEFINE B == Below(NextOf(nd'), ChildOf(nd'), new)
    <2>1. /\ new \in B
          /\ \A x \in B : NextOf(nd')[x] # NULL => NextOf(nd')[x] \in B
          /\ \A x \in B : ChildOf(nd')[x] # NULL => ChildOf(nd')[x] \in B
      <3>1. new \in Refs
        BY <1>2 DEF Refs
      <3>2. QED
        BY <1>12, <3>1, BelowHas
    <2> HIDE DEF B
    <2>2. here \in B
      BY <1>12, <2>1
    <2>3. top \in B
      BY <1>12, <2>1, <2>2
    <2>4. QED
      BY <1>2, <2>1, <2>2, <2>3 DEF B
  <1>14. List(NextOf(nd'), nd'[new].children) = {here, top}
    <2>1. List(NextOf(nd'), NULL) = {}
      BY DEF List
    <2>2. List(NextOf(nd'), top) = {top}
      BY <1>2, <1>12, <2>1, ListUnfold
    <2>3. List(NextOf(nd'), here) = {here, top}
      BY <1>2, <1>12, <2>2, ListUnfold
    <2>4. QED
      BY <1>9, <2>3
  <1>15. /\ nd'[last] = g[last] /\ \A n \in Nodes : n \notin new .. top /\ n # last => nd'[n] = nd[n]
    BY <1>2, <1>4, <1>6, <1>7
  <1>16. /\ nd'[last].type = nd[last].type /\ nd'[last].name = nd[last].name
         /\ nd'[last].children = nd[last].children /\ nd'[last].node_ptr = nd[last].node_ptr
         /\ nd'[last].next = new
    BY <1>6, <1>15
  <1>17. new .. top = {new, here, top}
    BY <1>2
  <1>18. /\ \A n \in new .. top : nd'[n].next = NULL \/ nd'[n].next \in n + 1 .. top
         /\ \A n \in new .. top : nd'[n].children = NULL \/ nd'[n].children \in n + 1 .. top
         /\ \A n \in new .. top : nd'[n].children # NULL => nd'[n].type = "DIRECTORY"
    BY <1>2, <1>9, <1>10, <1>11, <1>17
  <1>19. \A x, y \in new .. top :
            /\ nd'[x].next # NULL /\ nd'[x].next = nd'[y].next => x = y
            /\ nd'[x].children # NULL /\ nd'[x].children = nd'[y].children => x = y
            /\ nd'[x].next # NULL => nd'[x].next # nd'[y].children
    BY <1>2, <1>9, <1>10, <1>11, <1>12, <1>17
  <1>20. /\ \A n \in (new .. top) \ {new} : nd'[n].type = "SYMLINK"
         /\ nd'[new].type \in {"DIRECTORY", "REGULAR"}
    BY <1>9, <1>10, <1>11, <1>17
  <1>21. \A n \in new .. top : nd'[n].type = "SYMLINK" =>
            /\ nd'[n].name \in {".", ".."} /\ nd'[n].node_ptr \in {parent, new}
            /\ nd'[new].type = "DIRECTORY"
    BY <1>9, <1>10, <1>11, <1>17
  <1>22. /\ \A m, q \in {here, top} : nd'[m].name = nd'[q].name => m = q
         /\ \A m \in {here, top} : /\ nd'[m].name = "." => nd'[m].node_ptr = new
                                   /\ nd'[m].name = ".." => nd'[m].node_ptr = parent
    BY <1>10, <1>11
  <1>23. /\ \A m, q \in List(NextOf(nd'), nd'[new].children) : nd'[m].name = nd'[q].name => m = q
         /\ \A m \in List(NextOf(nd'), nd'[new].children) :
               /\ nd'[m].name = "." => nd'[m].node_ptr = new
               /\ nd'[m].name = ".." => nd'[m].node_ptr = parent
    <2> DEFINE L == List(NextOf(nd'), nd'[new].children)
    <2>1. L = {here, top}
      BY <1>14
    <2> HIDE DEF L
    <2>2. \A m, q \in L : nd'[m].name = nd'[q].name => m = q
      BY <1>22, <2>1
    <2>3. \A m \in L : /\ nd'[m].name = "." => nd'[m].node_ptr = new
                       /\ nd'[m].name = ".." => nd'[m].node_ptr = parent
      BY <1>22, <2>1
    <2>4. QED
      BY <2>2, <2>3 DEF L
  <1>24. new = used + 1 /\ nd'[new].name \notin {".", ".."} /\ nd'[new].next = NULL
         /\ \A m \in Children(parent) : nd[m].name # nd'[new].name
    BY <1>1, <1>9 DEF new
  <1>25. top \in new .. HEAP_NODES /\ used' = top /\ freed' = freed /\ fault' = fault
    BY <1>2, <1>3
  <1>26. GraphInv' /\ Hung(parent, new, new .. top)
    BY <1>1, <1>8, <1>13, <1>15, <1>16, <1>18, <1>19, <1>20, <1>21, <1>23, <1>24, <1>25, HangInv
  <1>27. QED
    BY <1>24, <1>25, <1>26

\* getLastChild of a parent without children is a fault, after which nothing is said.
LEMMA HangFault ==
  ASSUME GraphInv, NEW parent \in Reachable, nd[parent].children = NULL, NEW k \in Nat, Room >= k,
         Alloc(k), UNCHANGED freed, NEW new, NEW nodes, HangLast(parent, new, nodes)
  PROVE  GraphInv'
  <1>1. used \in Nat /\ HEAP_NODES \in Nat /\ freed \subseteq 1 .. used
    BY NodeNumbers DEF GraphInv, NodesTypeOK
  <1>2. used' \in used .. HEAP_NODES /\ freed' \subseteq 1 .. used'
    BY <1>1 DEF Room, Alloc
  <1>3. nd' = nd /\ fault' = TRUE
    BY DEF HangLast
  <1>4. fault' \in BOOLEAN /\ NoLeakWhileRoom'
    BY <1>3 DEF NoLeakWhileRoom
  <1>5. QED
    BY <1>2, <1>3, <1>4, FailedStep

\* Making a directory keeps the invariant, wherever the heap runs out.
LEMMA MkDirInv ==
  ASSUME GraphInv, NEW path \in Paths, NEW name \in AnyNames, MkDir(path, name)
  PROVE  GraphInv'
  <1> DEFINE parent == FsGetNode(path)
  <1>1. parent \in Reachable /\ MayCreate(parent, name)
    BY PathLength, GetNodeInTree DEF MkDir, MayCreate
  <1>2. used \in Nat /\ HEAP_NODES \in Nat /\ freed \subseteq 1 .. used /\ fault \in BOOLEAN
    BY NodeNumbers DEF GraphInv, NodesTypeOK
  <1>3. \/ Room = 1 /\ Alloc(1) /\ freed' = freed \cup {used + 1} /\ UNCHANGED <<nd, fault>>
        \/ Room = 2 /\ Alloc(2) /\ freed' = freed \cup {used + 2} /\ UNCHANGED <<nd, fault>>
        \/ /\ Room >= 3 /\ Alloc(3) /\ UNCHANGED freed
           /\ HangLast(parent, used + 1, NewDirectory(name, parent, used + 1))
    BY DEF MkDir
  <1> HIDE DEF parent
  <1>4. ASSUME NEW k \in {1, 2}, Room = k, Alloc(k), freed' = freed \cup {used + k},
               UNCHANGED <<nd, fault>>
        PROVE  GraphInv'
    <2>1. used' = used + k /\ HEAP_NODES - used = k /\ k \in Nat
      BY <1>4 DEF Room, Alloc
    <2>2. used' \in used .. HEAP_NODES /\ freed' \subseteq 1 .. used' /\ HEAP_NODES - used' = 0
      BY <1>2, <1>4, <2>1
    <2>3. NoLeakWhileRoom'
      BY <2>2 DEF NoLeakWhileRoom, Room
    <2>4. nd' = nd /\ fault' \in BOOLEAN
      BY <1>2, <1>4
    <2>5. QED
      BY <2>2, <2>3, <2>4, FailedStep
  <1>5. ASSUME Room >= 3, Alloc(3), UNCHANGED freed,
               HangLast(parent, used + 1, NewDirectory(name, parent, used + 1))
        PROVE  GraphInv'
    <2>1. CASE nd[parent].children = NULL
      BY <1>1, <1>5, <2>1, 3 \in Nat, HangFault
    <2>2. CASE nd[parent].children # NULL
      BY <1>1, <1>5, <2>2, HangDirectory
    <2>3. QED
      BY <2>1, <2>2
  <1>6. QED
    BY <1>3, <1>4, <1>5

\* So does making a file.
LEMMA NewRegFileInv ==
  ASSUME GraphInv, NEW path \in Paths, NEW name \in AnyNames, NewRegFile(path, name)
  PROVE  GraphInv'
  <1> DEFINE parent == FsGetNode(path)
  <1>1. parent \in Reachable /\ MayCreate(parent, name)
    BY PathLength, GetNodeInTree DEF NewRegFile, MayCreate
  <1>2. Room >= 1 /\ Alloc(1) /\ UNCHANGED freed /\ HangLast(parent, used + 1, NewFile(name))
    BY DEF NewRegFile
  <1> HIDE DEF parent
  <1>3. CASE nd[parent].children = NULL
    BY <1>1, <1>2, <1>3, 1 \in Nat, HangFault
  <1>4. CASE nd[parent].children # NULL
    BY <1>1, <1>2, <1>4, HangFile
  <1>5. QED
    BY <1>3, <1>4

-----------------------------------------------------------------------------
(* Deleting a node. *)

\* What a directory that is gone holds is gone.
LEMMA GoneHolds ==
  ASSUME NEW nx \in Pointer, NEW ch \in Pointer, NEW node \in Nodes, NEW d \in Gone(nx, ch, node)
  PROVE  List(nx, ch[d]) \subseteq Gone(nx, ch, node)
  <1> DEFINE B == Below(nx, ch, ch[node])
  <1>1. ch[node] \in Refs
    BY DEF Pointer
  <1>2. /\ B \subseteq Nodes /\ (ch[node] # NULL => ch[node] \in B)
        /\ \A x \in B : nx[x] # NULL => nx[x] \in B
        /\ \A x \in B : ch[x] # NULL => ch[x] \in B
    BY <1>1, BelowHas
  <1>3. d \in {node} \cup B
    BY DEF Gone
  <1> HIDE DEF B
  <1>4. d \in Nodes /\ ch[d] \in Refs /\ (ch[d] # NULL => ch[d] \in B)
    BY <1>2, <1>3 DEF Pointer
  <1>5. List(nx, ch[d]) \subseteq B
    BY <1>2, <1>4, ListLeast
  <1>6. QED
    BY <1>5 DEF Gone, B

\* Node node is out of the tree, with what is below it.
CutOff(node) ==
  /\ node \in Reachable /\ node # ROOT
  /\ Reachable' = Reachable \ Gone(NextOf(nd), ChildOf(nd), node)
  /\ \A d \in Reachable' : Children(d)' = Children(d) \ {node}
  /\ \A n \in Nodes : nd'[n].type = nd[n].type /\ nd'[n].name = nd[n].name

\* A node is taken out of the list it is in.
LEMMA CutInv ==
  ASSUME GraphInv, NEW r \in Reachable, NEW node \in Reachable,
         nd[r].next = node \/ nd[r].children = node,
         nd' \in [Nodes -> NodeType],
         \A n \in Nodes : n # r => nd'[n] = nd[n],
         nd'[r].type = nd[r].type, nd'[r].name = nd[r].name, nd'[r].node_ptr = nd[r].node_ptr,
         nd'[r].next = IF nd[r].next = node THEN nd[node].next ELSE nd[r].next,
         nd'[r].children = IF nd[r].children = node THEN nd[node].next ELSE nd[r].children,
         used' = used, freed' = freed \cup Hanging[node], fault' = fault
  PROVE  GraphInv' /\ CutOff(node)
  <1> DEFINE nx == NextOf(nd)
             ch == ChildOf(nd)
             nx2 == NextOf(nd')
             ch2 == ChildOf(nd')
             G == Gone(nx, ch, node)
  <1>1. /\ Graph(nx, ch) /\ Reachable \subseteq Nodes /\ nx \in Pointer /\ ch \in Pointer
        /\ \A d \in Nodes : Children(d) = List(nx, ch[d])
        /\ Reachable = Tree(nx, ch) /\ Directories \subseteq Reachable
        /\ \A n \in Nodes : nx[n] = nd[n].next /\ ch[n] = nd[n].children
        /\ \A c \in Refs : Hanging[c] = Below(nx, ch, c)
    BY GraphNow DEF Shape, Directories
  <1>2. /\ r \in Nodes /\ node \in Nodes /\ node # NULL /\ nd[node].next \in Refs /\ r # node
        /\ used \in Nat /\ used <= HEAP_NODES /\ r < node /\ r \in Nat /\ node \in Nat
    <2>1. r \in Nodes /\ node \in Nodes /\ node # NULL /\ nd[node].next \in Refs /\ r \in Nat /\ node \in Nat
      BY <1>1, GraphNow, NodeNumbers
    <2>2. used \in Nat /\ used <= HEAP_NODES
      BY NodeNumbers DEF GraphInv, NodesTypeOK
    <2>3. node \in r + 1 .. used
      BY <2>1 DEF GraphInv, PointersAhead
    <2>4. QED
      BY <2>1, <2>2, <2>3
  <1>3. \A n \in Nodes : /\ nd'[n].type = nd[n].type /\ nd'[n].name = nd[n].name
                         /\ nd'[n].node_ptr = nd[n].node_ptr
    OBVIOUS
  <1>4. 1 .. used \subseteq Nodes /\ node \in 1 .. used
    <2>1. node \in 0 .. used
      BY TreeIsUsed
    <2>2. QED
      BY <1>2, <2>1, NodeNumbers DEF Nodes
  <1>5. Hanging[node] \subseteq 1 .. used
    <2>1. \A x \in 1 .. used : /\ nx[x] # NULL => nx[x] \in 1 .. used
                               /\ ch[x] # NULL => ch[x] \in 1 .. used
      <3> TAKE x \in 1 .. used
      <3>1. x \in Nodes /\ x + 1 .. used \subseteq 1 .. used
        BY <1>2, <1>4
      <3>2. QED
        BY <1>1, <3>1 DEF GraphInv, PointersAhead
    <2>2. node \in Refs
      BY <1>2 DEF Refs
    <2> HIDE DEF nx, ch
    <2>3. Below(nx, ch, node) \subseteq 1 .. used
      BY <1>1, <1>4, <2>1, <2>2, BelowLeast
    <2>4. QED
      BY <1>1, <2>2, <2>3
  <1>6. NodesTypeOK'
    BY <1>5 DEF GraphInv, NodesTypeOK
  <1>7. RootAndUnused'
    <2>1. nd[ROOT].next = NULL /\ ROOT \in Nodes
      BY NodeNumbers DEF GraphInv, RootAndUnused
    <2>2. nd'[ROOT].next = NULL
      BY <1>2, <2>1
    <2>3. \A n \in Nodes : n > used => n # r
      BY <1>2, TreeIsUsed
    <2>4. QED
      BY <1>3, <2>1, <2>2, <2>3 DEF GraphInv, RootAndUnused
  <1>8. PointersAhead'
    <2>1. nd[node].next = NULL \/ nd[node].next \in r + 1 .. used
      <3>1. node + 1 .. used \subseteq r + 1 .. used
        BY <1>2
      <3>2. QED
        BY <1>2, <3>1 DEF GraphInv, PointersAhead
    <2>2. /\ nd'[r].next = NULL \/ nd'[r].next \in r + 1 .. used
          /\ nd'[r].children = NULL
             \/ (nd'[r].children \in r + 1 .. used /\ nd'[r].type = "DIRECTORY")
      BY <1>2, <2>1 DEF GraphInv, PointersAhead
    <2>3. QED
      BY <2>2 DEF GraphInv, PointersAhead
  <1>9. Shape(ListFrom', Hanging', Reachable', nd')
    BY <1>6, <1>7, <1>8, ShapeThen
  <1>10. /\ nx2 \in Pointer /\ ch2 \in Pointer
         /\ \A n \in Nodes : nx2[n] = nd'[n].next /\ ch2[n] = nd'[n].children
         /\ Reachable' = Tree(nx2, ch2)
         /\ \A c \in Refs : ListFrom'[c] = List(nx2, c)
    BY <1>9 DEF Shape
  <1>11. Cut(nx, ch, r, node, nx2, ch2)
    <2>1. \A x \in Nodes : nx2[x] = IF x = r /\ nx[x] = node THEN nx[node] ELSE nx[x]
      BY <1>1, <1>2, <1>10
    <2>2. \A x \in Nodes : ch2[x] = IF x = r /\ ch[x] = node THEN nx[node] ELSE ch[x]
      BY <1>1, <1>2, <1>10
    <2>3. nx[r] = node \/ ch[r] = node
      BY <1>1, <1>2
    <2>4. QED
      BY <1>10, <2>1, <2>2, <2>3 DEF Cut
  <1> HIDE DEF nx, ch, nx2, ch2
  <1>12. r \in Tree(nx, ch) /\ node \in Tree(nx, ch)
    BY <1>1
  <1>13. Graph(nx2, ch2)
    BY <1>1, <1>11, <1>12, CutGraph
  <1>14. Reachable' \subseteq Reachable \ G /\ Reachable \subseteq Reachable' \cup G
    BY <1>1, <1>10, <1>11, <1>12, CutDrops, CutKeeps
  <1>15. \A d \in Reachable' : Children(d)' = Children(d) \ {node}
    <2> TAKE d \in Reachable'
    <2>1. d \in Nodes /\ nd'[d].children \in Refs /\ ch2[d] = nd'[d].children
      BY <1>1, <1>10, <1>14 DEF Pointer
    <2>2. Children(d)' = List(nx2, ch2[d])
      BY <1>10, <2>1 DEF Children
    <2>3. Children(d) = List(nx, ch[d])
      BY <1>1, <2>1
    <2>4. d \in Tree(nx2, ch2)
      BY <1>10
    <2>5. List(nx2, ch2[d]) = List(nx, ch[d]) \ {node}
      BY <1>1, <1>11, <1>12, <2>4, CutLists
    <2>6. QED
      BY <2>2, <2>3, <2>5
  <1>16. Directories' = {d \in Directories : d \in Reachable'}
    <2>1. Directories' = {d \in Reachable' : nd'[d].type = "DIRECTORY"}
      BY DEF Directories
    <2>2. QED
      BY <1>1, <1>3, <1>14, <2>1 DEF Directories
  <1>17. OneReferrer'
    <2>1. \A m, q \in Reachable' :
             /\ nx2[m] # NULL /\ nx2[m] = nx2[q] => m = q
             /\ ch2[m] # NULL /\ ch2[m] = ch2[q] => m = q
             /\ nx2[m] # NULL => nx2[m] # ch2[q]
      BY <1>10, <1>13 DEF Graph, One
    <2>2. \A m \in Reachable' : nx2[m] = nd'[m].next /\ ch2[m] = nd'[m].children
      BY <1>1, <1>10, <1>14
    <2>3. QED
      BY <2>1, <2>2 DEF OneReferrer
  <1>18. LinksToDirectories'
    <2> SUFFICES ASSUME NEW n \in Nodes, nd'[n].type = "SYMLINK"
                 PROVE  /\ nd'[n].name \in {".", ".."}
                        /\ nd'[n].node_ptr \in 0 .. used /\ nd'[nd'[n].node_ptr].type = "DIRECTORY"
      BY DEF LinksToDirectories
    <2>1. /\ nd[n].name \in {".", ".."}
          /\ nd[n].node_ptr \in 0 .. used /\ nd[nd[n].node_ptr].type = "DIRECTORY"
      BY <1>3 DEF GraphInv, LinksToDirectories
    <2>2. nd[n].node_ptr \in Nodes
      BY <1>2, <2>1, NodeNumbers DEF Nodes
    <2>3. QED
      BY <1>3, <2>1, <2>2
  <1>19. \A d \in Directories' : /\ d \in Directories /\ Children(d)' \subseteq Children(d)
                                 /\ Children(d) \subseteq Nodes
    BY <1>1, <1>15, <1>16, GraphNow
  <1>20. DistinctNames'
    <2> SUFFICES ASSUME NEW d \in Directories', NEW m \in Children(d)', NEW q \in Children(d)',
                        nd'[m].name = nd'[q].name
                 PROVE  m = q
      BY DEF DistinctNames
    <2>1. d \in Directories /\ m \in Children(d) /\ q \in Children(d) /\ nd[m].name = nd[q].name
      BY <1>3, <1>19
    <2>2. QED
      BY <2>1 DEF GraphInv, DistinctNames
  <1>21. LinksStayHome'
    <2> SUFFICES ASSUME NEW d \in Directories', NEW n \in Children(d)'
                 PROVE  /\ nd'[n].name = "." => nd'[n].node_ptr = d
                        /\ nd'[n].name = ".." =>
                             /\ nd'[n].node_ptr \in Directories'
                             /\ IF d = ROOT THEN nd'[n].node_ptr = ROOT
                                ELSE d \in Children(nd[n].node_ptr)'
      BY DEF LinksStayHome
    <2>1. /\ d \in Directories /\ n \in Children(d) /\ n \in Nodes /\ nd'[n].name = nd[n].name
          /\ nd'[n].node_ptr = nd[n].node_ptr
      BY <1>3, <1>19
    <2>2. /\ nd[n].name = "." => nd[n].node_ptr = d
          /\ nd[n].name = ".." => /\ nd[n].node_ptr \in Directories
                                  /\ IF d = ROOT THEN nd[n].node_ptr = ROOT
                                     ELSE d \in Children(nd[n].node_ptr)
      BY <2>1 DEF GraphInv, LinksStayHome
    <2>3. ASSUME NEW x \in Directories, d \in Children(x) PROVE x \in Directories' /\ d \in Children(x)'
      <3>1. d \in Reachable' /\ d \notin G /\ node \in G
        BY <1>14, <1>16 DEF G, Gone
      <3>2. x \in Reachable /\ x \in Nodes /\ d \in List(nx, ch[x])
        BY <1>1, <2>3
      <3>3. x \notin G
        BY <1>1, <1>2, <3>1, <3>2, GoneHolds DEF G
      <3>4. QED
        BY <1>14, <1>15, <1>16, <2>3, <3>1, <3>2, <3>3
    <2>4. ROOT \in Directories'
      <3>1. ROOT \in Reachable'
        BY <1>10, TreeHas
      <3>2. QED
        BY <1>16, <3>1, GraphNow
    <2>5. \A x : x = nd'[n].node_ptr => Children(nd[n].node_ptr)' = Children(x)'
      BY DEF Children
    <2>6. QED
      BY <2>1, <2>2, <2>3, <2>4, <2>5
  <1>22. NoLeakWhileRoom'
    <2>1. Hanging[node] = {node} \cup Below(nx, ch, ch[node]) \cup Below(nx, ch, nx[node])
      BY <1>1, <1>2, BelowUnfold, NodeNumbers
    <2>2. G \subseteq Hanging[node]
      BY <2>1 DEF G, Gone
    <2>3. QED
      BY <1>14, <2>2 DEF GraphInv, NoLeakWhileRoom, Room
  <1>23. GraphInv'
    BY <1>6, <1>7, <1>8, <1>17, <1>18, <1>20, <1>21, <1>22 DEF GraphInv
  <1>24. node # ROOT
    BY <1>2 DEF ROOT
  <1>25. QED
    BY <1>3, <1>14, <1>15, <1>23, <1>24 DEF CutOff, G, nx, ch

\* The directory a deletion looks for the node in is in the tree, whatever its path became.
LEMMA ParentInTree ==
  ASSUME GraphInv, NEW path \in Paths, path # <<>>
  PROVE  ParentDirs(path) \ {NULL} \subseteq Reachable
  <1>1. path \in Seq(AnyNames) /\ Len(path) \in Nat /\ Len(path) # 0
    BY PathLength
  <1>2. Len(Front(path)) \in Nat
    BY <1>1 DEF Front
  <1>3. QED
    BY <1>2, GetNodeInTree DEF ParentDirs

\* The first of the children unlinked.
LEMMA ChildUnlinked ==
  ASSUME GraphInv, NEW r \in Reachable, NEW node \in Reachable, nd[r].children = node,
         nd' = [nd EXCEPT ![r].children = After(node)],
         used' = used, freed' = freed \cup Hanging[node], fault' = fault
  PROVE  GraphInv' /\ CutOff(node)
  <1>1. /\ nd \in [Nodes -> NodeType] /\ r \in Nodes /\ node \in Nodes /\ node # NULL
        /\ nd[node].next \in Refs /\ nd[r].next \in Refs
    BY GraphNow, NodeNumbers
  <1>2. nd[r].next # node
    <2>1. nd[r].next # NULL => nd[r].next # nd[r].children
      BY DEF GraphInv, OneReferrer
    <2>2. QED
      BY <1>1, <2>1
  <1>3. /\ \A n \in Nodes : n # r => nd'[n] = nd[n]
        /\ nd'[r].type = nd[r].type /\ nd'[r].name = nd[r].name /\ nd'[r].node_ptr = nd[r].node_ptr
        /\ nd'[r].next = nd[r].next /\ nd'[r].children = nd[node].next
        /\ nd' \in [Nodes -> NodeType]
    BY <1>1 DEF NodeType, After
  <1>4. QED
    BY <1>2, <1>3, CutInv

\* Another one unlinked.
LEMMA NextUnlinked ==
  ASSUME GraphInv, NEW r \in Reachable, NEW node \in Reachable, nd[r].next = node,
         nd' = [nd EXCEPT ![r].next = After(node)],
         used' = used, freed' = freed \cup Hanging[node], fault' = fault
  PROVE  GraphInv' /\ CutOff(node)
  <1>1. /\ nd \in [Nodes -> NodeType] /\ r \in Nodes /\ node \in Nodes /\ node # NULL
        /\ nd[node].next \in Refs /\ nd[r].next \in Refs
    BY GraphNow, NodeNumbers
  <1>2. nd[r].children # node
    <2>1. nd[r].next # NULL => nd[r].next # nd[r].children
      BY DEF GraphInv, OneReferrer
    <2>2. QED
      BY <1>1, <2>1
  <1>3. /\ \A n \in Nodes : n # r => nd'[n] = nd[n]
        /\ nd'[r].type = nd[r].type /\ nd'[r].name = nd[r].name /\ nd'[r].node_ptr = nd[r].node_ptr
        /\ nd'[r].children = nd[r].children /\ nd'[r].next = nd[node].next
        /\ nd' \in [Nodes -> NodeType]
    BY <1>1 DEF NodeType, After
  <1>4. QED
    BY <1>2, <1>3, CutInv

\* Deleting a node keeps the invariant, whichever directory is searched.
LEMMA DeleteNodeInv ==
  ASSUME GraphInv, NEW path \in Paths, DeleteNode(path)
  PROVE  GraphInv'
  <1> DEFINE node == FsGetNode(path)
             parents == ParentDirs(path) \ {NULL}
  <1>1. node \in Reachable /\ parents \subseteq Reachable
    BY PathLength, GetNodeInTree, ParentInTree DEF DeleteNode
  <1>2. /\ used' = used
        /\ \/ /\ \/ \E parentDir \in parents :
                       /\ nd[parentDir].children = node
                       /\ nd' = [nd EXCEPT ![parentDir].children = After(node)]
                 \/ \E parentDir \in parents : \E prev \in Children(parentDir) :
                       /\ nd[prev].next = node
                       /\ nd' = [nd EXCEPT ![prev].next = After(node)]
              /\ freed' = freed \cup Hanging[node] /\ fault' = fault
           \/ fault' = TRUE /\ nd' = nd /\ freed' = freed
    BY DEF DeleteNode, InterDeleteNode
  <1> HIDE DEF node, parents
  <1>3. CASE fault' = TRUE /\ nd' = nd /\ freed' = freed
    <2>1. used \in Nat /\ HEAP_NODES \in Nat /\ used <= HEAP_NODES /\ freed \subseteq 1 .. used
      BY NodeNumbers DEF GraphInv, NodesTypeOK
    <2>2. used' \in used .. HEAP_NODES /\ freed' \subseteq 1 .. used'
      BY <1>2, <1>3, <2>1
    <2>3. fault' \in BOOLEAN /\ NoLeakWhileRoom'
      BY <1>3 DEF NoLeakWhileRoom
    <2>4. QED
      BY <1>3, <2>2, <2>3, FailedStep
  <1>4. CASE /\ \E parentDir \in parents :
                   /\ nd[parentDir].children = node
                   /\ nd' = [nd EXCEPT ![parentDir].children = After(node)]
             /\ freed' = freed \cup Hanging[node] /\ fault' = fault
    <2>1. PICK r \in parents : /\ nd[r].children = node
                               /\ nd' = [nd EXCEPT ![r].children = After(node)]
      BY <1>4
    <2>2. r \in Reachable
      BY <1>1
    <2>3. QED
      BY <1>1, <1>2, <1>4, <2>1, <2>2, ChildUnlinked
  <1>5. CASE /\ \E parentDir \in parents : \E prev \in Children(parentDir) :
                   /\ nd[prev].next = node
                   /\ nd' = [nd EXCEPT ![prev].next = After(node)]
             /\ freed' = freed \cup Hanging[node] /\ fault' = fault
    <2>0. PICK parentDir \in parents : \E prev \in Children(parentDir) :
             nd[prev].next = node /\ nd' = [nd EXCEPT ![prev].next = After(node)]
      BY <1>5
    <2>1. PICK r \in Children(parentDir) :
             nd[r].next = node /\ nd' = [nd EXCEPT ![r].next = After(node)]
      BY <2>0
    <2>2. r \in Reachable
      BY <1>1, GraphNow
    <2>3. QED
      BY <1>1, <1>2, <1>5, <2>1, <2>2, NextUnlinked
  <1>6. QED
    BY <1>2, <1>3, <1>4, <1>5

-----------------------------------------------------------------------------
(* The invariant holds, and what follows from it. *)

\* Every step keeps the invariant.
LEMMA RamfsStepInv == GraphInv /\ [RamfsNext]_nodeVars => GraphInv'
  <1> SUFFICES ASSUME GraphInv, [RamfsNext]_nodeVars PROVE GraphInv'
    OBVIOUS
  <1>1. ASSUME NEW path \in Paths, NEW name \in AnyNames, MkDir(path, name) PROVE GraphInv'
    BY <1>1, MkDirInv
  <1>2. ASSUME NEW path \in Paths, NEW name \in AnyNames, NewRegFile(path, name) PROVE GraphInv'
    BY <1>2, NewRegFileInv
  <1>3. ASSUME NEW path \in Paths, DeleteNode(path) PROVE GraphInv'
    BY <1>3, DeleteNodeInv
  <1>4. CASE UNCHANGED nodeVars
    <2>1. nd' = nd /\ used' = used /\ freed' = freed /\ fault' = fault
      BY <1>4 DEF nodeVars
    <2>2. used \in Nat /\ HEAP_NODES \in Nat /\ used <= HEAP_NODES /\ freed \subseteq 1 .. used
          /\ fault \in BOOLEAN
      BY NodeNumbers DEF GraphInv, NodesTypeOK
    <2>3. used' \in used .. HEAP_NODES /\ freed' \subseteq 1 .. used' /\ fault' \in BOOLEAN
      BY <2>1, <2>2
    <2>4. Hanging' = Hanging
      BY <2>1 DEF Hanging
    <2>5. NoLeakWhileRoom'
      BY <2>1, <2>4 DEF GraphInv, NoLeakWhileRoom, Room, Reachable
    <2>6. QED
      BY <2>1, <2>3, <2>5, FailedStep
  <1>5. QED
    BY <1>1, <1>2, <1>3, <1>4 DEF RamfsNext

\* The invariant of the node graph holds throughout.
LEMMA AlwaysGraphInv == RamfsSpec => []GraphInv
  BY RamfsInitInv, RamfsStepInv, PTL DEF RamfsSpec

\* The entries a directory lists are its children.
LEMMA ListedIsChild ==
  ASSUME NEW d, NEW k, ReadDir(d, k) # NULL
  PROVE  ReadDir(d, k) \in Children(d)
  BY DEF ReadDir

\* RamFS: every entry ramfs_readdir lists is the one fs_find finds by its name.
THEOREM RamfsListedIsFound == RamfsSpec => []ListedIsFound
  <1>1. GraphInv => ListedIsFound
    <2> SUFFICES ASSUME GraphInv, NEW d \in Directories, NEW k \in 0 .. HEAP_NODES,
                        ReadDir(d, k) # NULL
                 PROVE  FsFind(d, nd[ReadDir(d, k)].name) = ReadDir(d, k)
      BY DEF ListedIsFound
    <2>1. ReadDir(d, k) \in Children(d)
      BY ListedIsChild
    <2>2. QED
      BY <2>1, FindIs
  <1>2. QED
    BY <1>1, AlwaysGraphInv, PTL

\* RamFS: the links "." and ".." of every directory lead home.
THEOREM RamfsLinksLeadHome == RamfsSpec => []LinksLeadHome
  <1>1. GraphInv => LinksLeadHome
    BY DEF GraphInv, LinksStayHome, LinksLeadHome
  <1>2. QED
    BY <1>1, AlwaysGraphInv, PTL

\* RamFS: until the heap is exhausted every allocated node is reachable or was freed.
THEOREM RamfsNoLeakWhileRoom == RamfsSpec => []NoLeakWhileRoom
  <1>1. GraphInv => NoLeakWhileRoom
    BY DEF GraphInv
  <1>2. QED
    BY <1>1, AlwaysGraphInv, PTL

\* RamFS: types.
THEOREM RamfsTypes == RamfsSpec => []NodesTypeOK
  <1>1. GraphInv => NodesTypeOK
    BY DEF GraphInv
  <1>2. QED
    BY <1>1, AlwaysGraphInv, PTL

\* A sequence with one element more.
LEMMA AppendIs ==
  ASSUME NEW S, NEW s \in Seq(S), NEW e \in S
  PROVE  /\ Append(s, e) \in Seq(S) /\ Append(s, e) # <<>> /\ Front(Append(s, e)) = s
         /\ Len(Append(s, e)) = Len(s) + 1 /\ Append(s, e)[Len(s) + 1] = e
         /\ \A k \in 1 .. Len(s) : Append(s, e)[k] = s[k]
  <1>1. /\ Append(s, e) \in Seq(S) /\ Append(s, e) # <<>>
        /\ Len(Append(s, e)) = Len(s) + 1 /\ Append(s, e)[Len(s) + 1] = e
        /\ \A k \in 1 .. Len(s) : Append(s, e)[k] = s[k]
    OBVIOUS
  <1>2. Front(Append(s, e)) = s
    BY <1>1 DEF Front
  <1>3. QED
    BY <1>1, <1>2

\* It tells what it was made of.
LEMMA AppendSame ==
  ASSUME NEW S, NEW s \in Seq(S), NEW t \in Seq(S), NEW a \in S, NEW b \in S,
         Append(s, a) = Append(t, b)
  PROVE  s = t /\ a = b
  <1>1. Front(Append(s, a)) = s /\ Front(Append(t, b)) = t
    BY AppendIs
  <1>2. s = t
    BY <1>1
  <1>3. Append(s, a)[Len(s) + 1] = a /\ Append(t, b)[Len(t) + 1] = b
    BY AppendIs
  <1>4. QED
    BY <1>2, <1>3

\* Prefixes, element by element.
LEMMA PrefixIs ==
  ASSUME NEW S, NEW s \in Seq(S), NEW t \in Seq(S)
  PROVE  IsPrefix(s, t) <=> Len(s) <= Len(t) /\ \A k \in 1 .. Len(s) : s[k] = t[k]
  BY DEF IsPrefix

\* The prefixes of a sequence with one element more.
LEMMA PrefixAppend ==
  ASSUME NEW S, NEW s \in Seq(S), NEW t \in Seq(S), NEW e \in S
  PROVE  IsPrefix(s, Append(t, e)) <=> IsPrefix(s, t) \/ s = Append(t, e)
  <1> DEFINE u == Append(t, e)
  <1>1. /\ u \in Seq(S) /\ Len(u) = Len(t) + 1 /\ u[Len(t) + 1] = e
        /\ \A k \in 1 .. Len(t) : u[k] = t[k]
    BY AppendIs
  <1> HIDE DEF u
  <1>2. Len(s) \in Nat /\ Len(t) \in Nat
    OBVIOUS
  <1>3. ASSUME IsPrefix(s, u), Len(s) <= Len(t) PROVE IsPrefix(s, t)
    <2>1. \A k \in 1 .. Len(s) : s[k] = u[k]
      BY <1>1, <1>3, PrefixIs
    <2>2. \A k \in 1 .. Len(s) : k \in 1 .. Len(t)
      BY <1>2, <1>3
    <2>3. QED
      BY <1>1, <1>3, <2>1, <2>2, PrefixIs
  <1>4. ASSUME IsPrefix(s, u), ~(Len(s) <= Len(t)) PROVE s = u
    <2>1. Len(s) <= Len(u) /\ \A k \in 1 .. Len(s) : s[k] = u[k]
      BY <1>1, <1>4, PrefixIs
    <2>2. Len(s) = Len(u)
      BY <1>1, <1>2, <1>4, <2>1
    <2>3. QED
      BY <1>1, <2>1, <2>2
  <1>5. ASSUME IsPrefix(s, t) PROVE IsPrefix(s, u)
    <2>1. Len(s) <= Len(t) /\ \A k \in 1 .. Len(s) : s[k] = t[k]
      BY <1>5, PrefixIs
    <2>2. Len(s) <= Len(u) /\ \A k \in 1 .. Len(s) : k \in 1 .. Len(t)
      BY <1>1, <1>2, <2>1
    <2>3. \A k \in 1 .. Len(s) : s[k] = u[k]
      BY <1>1, <2>1, <2>2
    <2>4. QED
      BY <1>1, <2>2, <2>3, PrefixIs
  <1>6. ASSUME s = u PROVE IsPrefix(s, u)
    BY <1>1, <1>2, <1>6, PrefixIs
  <1>7. QED
    BY <1>3, <1>4, <1>5, <1>6 DEF u

-----------------------------------------------------------------------------
(* The names that lead to a node. *)

\* Every node but the root is held by one directory, which was there before it.
HolderFacts ==
  \A n \in Reachable : n # ROOT =>
     /\ Holder(n) \in Directories /\ n \in Children(Holder(n)) /\ Holder(n) < n
     /\ \A d \in Reachable : n \in Children(d) => d = Holder(n)

\* Nodes in a list were made after the directory.
LEMMA HeldAhead ==
  ASSUME GraphInv, NEW d \in Reachable, NEW n \in Children(d)
  PROVE  d < n /\ d \in Directories
  <1> DEFINE nx == NextOf(nd)
             ch == ChildOf(nd)
             C == {x \in Nodes : d < x}
  <1>1. /\ nx \in Pointer /\ ch \in Pointer /\ d \in Nodes /\ ch[d] \in Refs
        /\ Ahead(nx) /\ Ahead(ch) /\ ch[d] = nd[d].children
    BY GraphNow DEF Shape
  <1>2. Children(d) = List(nx, ch[d])
    BY <1>1, GraphNow
  <1>3. \A x \in C : nx[x] # NULL => nx[x] \in C
    <2> TAKE x \in C
    <2>1. nx[x] # NULL => nx[x] \in Nodes /\ x < nx[x]
      BY <1>1, NodeNumbers DEF Ahead, Pointer
    <2>2. d \in Nat /\ x \in Nat /\ d < x
      BY <1>1, NodeNumbers
    <2>3. \A y \in Nodes : x < y => d < y
      BY <2>2, NodeNumbers
    <2>4. QED
      BY <2>1, <2>3
  <1>4. ch[d] # NULL => ch[d] \in C
    BY <1>1, NodeNumbers DEF Ahead
  <1>5. ch[d] # NULL
    BY <1>2 DEF List
  <1> HIDE DEF nx, ch
  <1>6. List(nx, ch[d]) \subseteq C
    BY <1>1, <1>3, <1>4, ListLeast
  <1>7. d \in Directories
    BY <1>1, <1>5 DEF GraphInv, PointersAhead, Directories
  <1>8. QED
    BY <1>2, <1>6, <1>7

\* The invariant gives every node its holder.
LEMMA HoldersNow == GraphInv => HolderFacts
  <1> SUFFICES ASSUME GraphInv, NEW n \in Reachable, n # ROOT
               PROVE  /\ Holder(n) \in Directories /\ n \in Children(Holder(n)) /\ Holder(n) < n
                      /\ \A d \in Reachable : n \in Children(d) => d = Holder(n)
    BY DEF HolderFacts
  <1> DEFINE nx == NextOf(nd)
             ch == ChildOf(nd)
  <1>1. /\ Graph(nx, ch) /\ Reachable = Tree(nx, ch)
        /\ \A d \in Reachable : Children(d) = List(nx, ch[d])
    BY GraphNow DEF Shape
  <1> HIDE DEF nx, ch
  <1>2. \E d \in Reachable : n \in Children(d)
    <2>1. n \in Tree(nx, ch)
      BY <1>1
    <2>2. PICK d \in Tree(nx, ch) : n \in List(nx, ch[d])
      BY <1>1, <2>1, Held
    <2>3. QED
      BY <1>1, <2>2
  <1>3. Holder(n) \in Reachable /\ n \in Children(Holder(n))
    BY <1>2 DEF Holder
  <1> DEFINE h == Holder(n)
  <1> HIDE DEF h
  <1>4. h \in Reachable /\ n \in Children(h)
    BY <1>3 DEF h
  <1>5. h \in Directories /\ h < n
    BY <1>4, HeldAhead
  <1>6. ASSUME NEW d \in Reachable, n \in Children(d) PROVE d = h
    <2>1. d \in Tree(nx, ch) /\ h \in Tree(nx, ch) /\ List(nx, ch[d]) \cap List(nx, ch[h]) # {}
      BY <1>1, <1>4, <1>6
    <2>2. QED
      BY <1>1, <2>1, ListsApart
  <1>7. QED
    BY <1>4, <1>5, <1>6 DEF h

\* So it is after a step.
LEMMA HoldersThen == GraphInv' => HolderFacts'
  BY HoldersNow, PTL

\* The names that lead to the nodes T, held by h and named nm.
Lead(f, T, h, nm) == f = [n \in T |-> IF n = ROOT THEN <<>> ELSE Append(f[h[n]], nm[n])]

\* There are such.
LEMMA PathSolution ==
  ASSUME NEW T, NEW h, NEW nm, T \subseteq Nodes,
         \A n \in T : n # ROOT => h[n] \in T /\ h[n] < n
  PROVE  \E f : Lead(f, T, h, nm)
  <1> DEFINE To(k) == {n \in T : n <= k}
             V(f, n) == IF n = ROOT THEN <<>> ELSE Append(f[h[n]], nm[n])
             P(k, f) == f = [n \in To(k) |-> f[n]] /\ \A n \in To(k) : f[n] = V(f, n)
             Bad == {k \in Nat : ~\E f : P(k, f)}
  <1>0. \A n \in T : n \in Nat
    BY NodeNumbers
  <1>1. /\ \A f : V(f, ROOT) = <<>>
        /\ \A f, g : \A n \in T : n = ROOT \/ f[h[n]] = g[h[n]] => V(f, n) = V(g, n)
    OBVIOUS
  <1>2. \A f : [n \in T |-> V(f, n)] = [n \in T |-> IF n = ROOT THEN <<>> ELSE Append(f[h[n]], nm[n])]
    OBVIOUS
  <1> HIDE DEF V
  <1>3. Bad = {}
    <2> SUFFICES ASSUME Bad # {} PROVE FALSE
      OBVIOUS
    <2>1. PICK k \in Bad : \A j \in Bad : k <= j
      <3>1. Bad \in SUBSET Nat
        OBVIOUS
      <3>2. QED
        BY <3>1, Least
    <2>2. k \in Nat /\ \A f : ~P(k, f)
      BY <2>1
    <2>3. CASE k = 0
      <3> DEFINE f == [n \in To(0) |-> <<>>]
      <3>1. \A n \in To(0) : n = ROOT
        BY <1>0 DEF ROOT
      <3>2. \A n \in To(0) : f[n] = V(f, n)
        BY <1>1, <3>1
      <3>3. f = [n \in To(0) |-> f[n]]
        OBVIOUS
      <3> HIDE DEF f
      <3>4. P(0, f)
        BY <3>2, <3>3
      <3>5. QED
        BY <2>2, <2>3, <3>4
    <2>4. CASE k # 0
      <3>1. k - 1 \in Nat /\ k - 1 < k /\ k - 1 \notin Bad
        BY <2>1, <2>2, <2>4
      <3>2. PICK f : P(k - 1, f)
        BY <3>1
      <3> DEFINE g == [n \in To(k) |-> IF n <= k - 1 THEN f[n] ELSE V(f, n)]
      <3>3. \A n \in To(k) : n # ROOT => h[n] \in To(k) /\ h[n] <= k - 1
        BY <1>0, <2>2
      <3>4. \A n \in To(k) : n = ROOT \/ g[h[n]] = f[h[n]]
        BY <3>3
      <3>5. \A n \in To(k) : V(g, n) = V(f, n)
        <4> HIDE DEF g
        <4>1. QED
          BY <1>1, <3>4
      <3>6. \A n \in To(k) : g[n] = V(f, n)
        <4> TAKE n \in To(k)
        <4>1. g[n] = IF n <= k - 1 THEN f[n] ELSE V(f, n)
          OBVIOUS
        <4>2. n <= k - 1 => f[n] = V(f, n)
          BY <3>2
        <4>3. QED
          BY <4>1, <4>2
      <3>7. g = [n \in To(k) |-> g[n]]
        OBVIOUS
      <3> HIDE DEF g
      <3>8. P(k, g)
        BY <3>5, <3>6, <3>7
      <3>9. QED
        BY <2>2, <3>8
    <2>5. QED
      BY <2>3, <2>4
  <1>4. PICK f : P(HEAP_NODES, f)
    BY <1>3, NodeNumbers
  <1>5. To(HEAP_NODES) = T
    BY NodeNumbers
  <1>6. f = [n \in T |-> V(f, n)]
    <2>1. f = [n \in T |-> f[n]] /\ \A n \in T : f[n] = V(f, n)
      BY <1>4, <1>5
    <2>2. QED
      BY <2>1
  <1>7. QED
    BY <1>2, <1>6 DEF Lead

\* The names that lead to a node are those to its holder and its own, and lead to no other.
PathFacts ==
  /\ PathOf[ROOT] = <<>>
  /\ \A n \in Reachable : n # ROOT => PathOf[n] = Append(PathOf[Holder(n)], nd[n].name)
  /\ \A n \in Reachable : PathOf[n] \in Seq(AnyNames \cup {""})
  /\ \A m, n \in Reachable : PathOf[m] = PathOf[n] => m = n

\* They follow the holders.
LEMMA PathUnfold ==
  ASSUME GraphInv
  PROVE  PathOf = [n \in Reachable |-> IF n = ROOT THEN <<>> ELSE Append(PathOf[Holder(n)], nd[n].name)]
  <1> DEFINE h == [n \in Reachable |-> Holder(n)]
             nm == [n \in Reachable |-> nd[n].name]
  <1>1. \A n \in Reachable : n # ROOT => Holder(n) \in Reachable /\ Holder(n) < n
    BY HoldersNow DEF HolderFacts, Directories
  <1>2. Reachable \in SUBSET Nodes /\ \A n \in Reachable : n # ROOT => h[n] \in Reachable /\ h[n] < n
    BY <1>1, GraphNow
  <1>3. PICK f : f = [n \in Reachable |-> IF n = ROOT THEN <<>> ELSE Append(f[h[n]], nm[n])]
    <2> DEFINE T == Reachable
    <2>1. T \subseteq Nodes /\ \A n \in T : n # ROOT => h[n] \in T /\ h[n] < n
      BY <1>2
    <2> HIDE DEF h, nm, T
    <2>2. \E f : Lead(f, T, h, nm)
      BY <2>1, PathSolution
    <2>3. QED
      BY <2>2 DEF Lead, T
  <1>4. f = [n \in Reachable |-> IF n = ROOT THEN <<>> ELSE Append(f[Holder(n)], nd[n].name)]
    BY <1>3
  <1>5. QED
    BY <1>4 DEF PathOf

\* The invariant gives every node its path.
LEMMA PathsNow == GraphInv => PathFacts
  <1> SUFFICES ASSUME GraphInv PROVE PathFacts
    OBVIOUS
  <1> DEFINE S == AnyNames \cup {""}
  <1>1. ROOT \in Reachable /\ Reachable \subseteq Nodes /\ Reachable \subseteq Nat
    BY GraphNow, NodeNumbers DEF Directories
  <1>2. /\ PathOf[ROOT] = <<>>
        /\ \A n \in Reachable : n # ROOT => PathOf[n] = Append(PathOf[Holder(n)], nd[n].name)
    <2> DEFINE V(n) == IF n = ROOT THEN <<>> ELSE Append(PathOf[Holder(n)], nd[n].name)
    <2>1. PathOf = [n \in Reachable |-> V(n)]
      BY PathUnfold
    <2> HIDE DEF V
    <2>2. \A n \in Reachable : PathOf[n] = V(n)
      BY <2>1
    <2>3. QED
      BY <1>1, <2>2 DEF V
  <1>3. \A n \in Reachable : n # ROOT =>
           /\ Holder(n) \in Reachable /\ Holder(n) \in Directories /\ n \in Children(Holder(n))
           /\ Holder(n) < n /\ nd[n].name \in S
    <2>1. \A n \in Reachable : nd[n].name \in S
      BY <1>1, GraphNow DEF NodeType
    <2>2. QED
      BY <2>1, HoldersNow DEF HolderFacts, Directories
  <1> HIDE DEF S
  <1>4. \A n \in Reachable : PathOf[n] \in Seq(S)
    <2> DEFINE Bad == {n \in Reachable : PathOf[n] \notin Seq(S)}
    <2> SUFFICES ASSUME Bad # {} PROVE FALSE
      OBVIOUS
    <2>1. PICK n \in Bad : \A m \in Bad : n <= m
      <3>1. Bad \in SUBSET Nat
        BY <1>1
      <3>2. QED
        BY <3>1, Least
    <2>0. <<>> \in Seq(S)
      OBVIOUS
    <2>2. n # ROOT
      BY <1>2, <2>0
    <2>3. Holder(n) \in Reachable /\ Holder(n) \in Nat /\ n \in Nat /\ Holder(n) < n
      BY <1>1, <1>3, <2>2
    <2>4. PathOf[Holder(n)] \in Seq(S)
      BY <2>1, <2>3
    <2> DEFINE a == PathOf[Holder(n)]
               e == nd[n].name
    <2>5. a \in Seq(S) /\ e \in S /\ PathOf[n] = Append(a, e)
      BY <1>2, <1>3, <2>1, <2>2, <2>4
    <2> HIDE DEF a, e
    <2>6. Append(a, e) \in Seq(S)
      BY <2>5
    <2>7. QED
      BY <2>1, <2>5, <2>6
  <1>5. \A n \in Reachable : PathOf[n] = <<>> => n = ROOT
    <2> SUFFICES ASSUME NEW n \in Reachable, n # ROOT PROVE PathOf[n] # <<>>
      OBVIOUS
    <2> DEFINE a == PathOf[Holder(n)]
               e == nd[n].name
    <2>1. a \in Seq(S) /\ e \in S /\ PathOf[n] = Append(a, e)
      BY <1>2, <1>3, <1>4
    <2> HIDE DEF a, e
    <2>2. Append(a, e) # <<>>
      BY <2>1
    <2>3. QED
      BY <2>1, <2>2
  <1>6. \A m, n \in Reachable : PathOf[m] = PathOf[n] => m = n
    <2> DEFINE Bad == {n \in Reachable : \E m \in Reachable : PathOf[m] = PathOf[n] /\ m # n}
    <2> SUFFICES ASSUME Bad # {} PROVE FALSE
      OBVIOUS
    <2>1. PICK n \in Bad : \A m \in Bad : n <= m
      <3>1. Bad \in SUBSET Nat
        BY <1>1
      <3>2. QED
        BY <3>1, Least
    <2>2. PICK m \in Reachable : PathOf[m] = PathOf[n] /\ m # n
      BY <2>1
    <2>3. n \in Reachable /\ n # ROOT /\ m # ROOT
      BY <1>2, <1>5, <2>2
    <2>4. PathOf[Holder(m)] = PathOf[Holder(n)] /\ nd[m].name = nd[n].name
      <3>1. Append(PathOf[Holder(m)], nd[m].name) = Append(PathOf[Holder(n)], nd[n].name)
        BY <1>2, <2>2, <2>3
      <3>2. /\ PathOf[Holder(m)] \in Seq(S) /\ PathOf[Holder(n)] \in Seq(S)
            /\ nd[m].name \in S /\ nd[n].name \in S
        BY <1>3, <1>4, <2>3
      <3> DEFINE a == PathOf[Holder(m)]
                 b == PathOf[Holder(n)]
                 x == nd[m].name
                 y == nd[n].name
      <3>3. a \in Seq(S) /\ b \in Seq(S) /\ x \in S /\ y \in S /\ Append(a, x) = Append(b, y)
        BY <3>1, <3>2
      <3> HIDE DEF a, b, x, y
      <3>4. a = b /\ x = y
        BY <3>3, AppendSame
      <3>5. QED
        BY <3>4 DEF a, b, x, y
    <2>5. Holder(n) \in Reachable /\ Holder(m) \in Reachable /\ Holder(n) \in Nat /\ n \in Nat /\ Holder(n) < n
      BY <1>1, <1>3, <2>3
    <2>6. Holder(n) \notin Bad
      BY <2>1, <2>5
    <2>7. Holder(m) = Holder(n)
      BY <2>4, <2>5, <2>6
    <2>8. Holder(n) \in Directories /\ m \in Children(Holder(n)) /\ n \in Children(Holder(n))
      BY <1>3, <2>2, <2>3, <2>7
    <2>9. m = n
      BY <2>4, <2>8 DEF GraphInv, DistinctNames
    <2>10. QED
      BY <2>2, <2>9
  <1>7. QED
    BY <1>2, <1>4, <1>6 DEF PathFacts, S

\* So it is after a step.
LEMMA PathsThen == GraphInv' => PathFacts'
  BY PathsNow, PTL

\* The tree that callers see, by its nodes.
TreeFacts ==
  /\ tree = [p \in DOMAIN tree |-> tree[p]]
  /\ DOMAIN tree = {PathOf[n] : n \in Shown}
  /\ \A n \in Shown : tree[PathOf[n]] = nd[n].type

\* The invariant gives the tree by its nodes.
LEMMA TreeNow == GraphInv => TreeFacts
  <1> SUFFICES ASSUME GraphInv PROVE TreeFacts
    OBVIOUS
  <1> DEFINE D == {PathOf[n] : n \in Shown}
             V(p) == nd[CHOOSE n \in Shown : PathOf[n] = p].type
  <1>1. tree = [p \in D |-> V(p)]
    BY DEF tree
  <1>2. \A m, n \in Shown : PathOf[m] = PathOf[n] => m = n
    BY PathsNow DEF PathFacts, Shown
  <1>3. \A n \in Shown : V(PathOf[n]) = nd[n].type /\ PathOf[n] \in D
    BY <1>2
  <1> HIDE DEF V, D
  <1>4. DOMAIN tree = D /\ \A p \in D : tree[p] = V(p)
    BY <1>1
  <1>5. tree = [p \in DOMAIN tree |-> tree[p]]
    BY <1>1
  <1>6. QED
    BY <1>3, <1>4, <1>5 DEF TreeFacts, D

\* So it is after a step.
LEMMA TreeThen == GraphInv' => TreeFacts'
  BY TreeNow, PTL

\* The lists are in the tree.
InTree == Reachable \subseteq Nodes /\ \A d \in Reachable : Children(d) \subseteq Reachable

\* The invariant keeps the lists in the tree.
LEMMA InTreeNow == GraphInv => InTree
  BY GraphNow DEF InTree

\* So it is after a step.
LEMMA InTreeThen == GraphInv' => InTree'
  BY InTreeNow, PTL

-----------------------------------------------------------------------------
(* The tree that callers see, from step to step. *)

\* The names that lead to nodes whose holders and names stay.
LEMMA SamePaths ==
  ASSUME GraphInv, GraphInv', NEW T, T \subseteq Reachable, T \subseteq Reachable',
         \A n \in T : n # ROOT =>
            Holder(n) \in T /\ Holder(n)' = Holder(n) /\ nd'[n].name = nd[n].name
  PROVE  \A n \in T : PathOf'[n] = PathOf[n]
  <1> DEFINE Bad == {n \in T : PathOf'[n] # PathOf[n]}
  <1> SUFFICES ASSUME Bad # {} PROVE FALSE
    OBVIOUS
  <1>0. T \subseteq Nat
    BY GraphNow, NodeNumbers
  <1>1. PICK n \in Bad : \A m \in Bad : n <= m
    <2>1. Bad \in SUBSET Nat
      BY <1>0
    <2>2. QED
      BY <2>1, Least
  <1>2. n \in T /\ PathOf'[n] # PathOf[n]
    BY <1>1
  <1>3. PathOf[ROOT] = <<>> /\ PathOf'[ROOT] = <<>>
    BY PathsNow, PathsThen DEF PathFacts
  <1>4. n # ROOT
    BY <1>2, <1>3
  <1> DEFINE h == Holder(n)
  <1>5. h \in T /\ Holder(n)' = h /\ nd'[n].name = nd[n].name /\ h < n /\ h \in Nat /\ n \in Nat
    BY <1>0, <1>2, <1>4, HoldersNow DEF HolderFacts
  <1>6. PathOf[n] = Append(PathOf[h], nd[n].name)
    BY <1>2, <1>4, PathsNow DEF PathFacts
  <1>7. PathOf'[n] = Append(PathOf'[Holder(n)'], nd'[n].name)
    BY <1>2, <1>4, PathsThen DEF PathFacts
  <1> HIDE DEF h
  <1>8. PathOf'[h] = PathOf[h]
    BY <1>1, <1>5
  <1>9. QED
    BY <1>2, <1>5, <1>6, <1>7, <1>8

\* A node that is hung into the tree is a path more.
LEMMA HungTree ==
  ASSUME GraphInv, GraphInv', NEW p, NEW new, NEW K, Hung(p, new, K)
  PROVE  FileTree!Next
  <1>1. /\ p \in Directories /\ p \in Reachable /\ new \in K /\ K \cap Reachable = {}
        /\ Reachable' = Reachable \cup K /\ ROOT \in Reachable /\ new # ROOT /\ new \in Reachable'
    BY GraphNow DEF Hung, Directories
  <1>2. \A d \in Reachable : Children(d) \subseteq Children(d)'
    BY DEF Hung
  <1>3. new \in Children(p)'
    BY <1>1 DEF Hung
  <1>4. ASSUME NEW n \in Reachable, n # ROOT
        PROVE  Holder(n) \in Reachable /\ Holder(n)' = Holder(n) /\ nd'[n].name = nd[n].name
    <2>1. Holder(n) \in Reachable /\ n \in Children(Holder(n))
      BY <1>4, HoldersNow DEF HolderFacts, Directories
    <2>2. PICK h \in Reachable : h = Holder(n)
      BY <2>1
    <2>3. \A d \in Reachable' : n \in Children(d)' => d = Holder(n)'
      BY <1>1, <1>4, HoldersThen DEF HolderFacts
    <2>4. h \in Reachable' /\ n \in Children(h)'
      BY <1>1, <1>2, <2>1, <2>2
    <2>5. Holder(n)' = h
      BY <2>3, <2>4
    <2>6. QED
      BY <2>2, <2>5 DEF Hung
  <1>5. Holder(new)' = p
    <2>1. \A d \in Reachable' : new \in Children(d)' => d = Holder(new)'
      BY <1>1, HoldersThen DEF HolderFacts
    <2>2. QED
      BY <1>1, <1>3, <2>1
  <1>6. \A n \in Reachable : PathOf'[n] = PathOf[n]
    BY <1>1, <1>4, SamePaths
  <1> DEFINE q == PathOf'[new]
             S == AnyNames \cup {""}
             a == PathOf[p]
             e == nd'[new].name
  <1>7. q = Append(a, e) /\ a \in Seq(S) /\ e \in S
    <2>1. PathOf'[new] = Append(PathOf'[Holder(new)'], nd'[new].name)
      BY <1>1, PathsThen DEF PathFacts
    <2>2. PathOf'[p] = PathOf[p]
      BY <1>1, <1>6
    <2>3. PathOf[p] \in Seq(S)
      BY <1>1, PathsNow DEF PathFacts
    <2>4. nd'[new].name \in S
      <3>1. new \in Nodes
        BY <1>1, InTreeThen DEF InTree
      <3>2. nd' \in [Nodes -> NodeType]
        BY DEF GraphInv, NodesTypeOK
      <3>3. QED
        BY <3>1, <3>2 DEF NodeType
    <2>5. QED
      BY <1>5, <2>1, <2>2, <2>3, <2>4
  <1>8. Shown' = Shown \cup {new} /\ p \in Shown /\ new \in Shown'
    <2>1. Shown' = {n \in Reachable' : nd'[n].type # "SYMLINK"}
      BY DEF Shown
    <2>2. \A n \in Reachable : nd'[n].type = nd[n].type
      BY DEF Hung
    <2>3. nd'[new].type # "SYMLINK" /\ \A n \in K \ {new} : nd'[n].type = "SYMLINK"
      BY DEF Hung
    <2>4. QED
      BY <1>1, <2>1, <2>2, <2>3 DEF Shown, Directories
  <1>9. \A n \in Shown : n \in Reachable /\ nd'[n].type = nd[n].type /\ PathOf'[n] = PathOf[n]
    BY <1>6 DEF Shown, Hung
  <1>10. TreeFacts /\ TreeFacts'
    BY TreeNow, TreeThen
  <1>11. /\ tree' = [x \in DOMAIN tree' |-> tree'[x]]
         /\ DOMAIN tree' = {PathOf'[n] : n \in Shown'}
         /\ \A n \in Shown' : tree'[PathOf'[n]] = nd'[n].type
    BY <1>10 DEF TreeFacts
  <1>12. /\ DOMAIN tree = {PathOf[n] : n \in Shown}
         /\ \A n \in Shown : tree[PathOf[n]] = nd[n].type
    BY <1>10 DEF TreeFacts
  <1> DEFINE type == nd'[new].type
  <1>13. DOMAIN tree' = DOMAIN tree \cup {q}
    BY <1>8, <1>9, <1>11, <1>12
  <1>14. q \notin DOMAIN tree
    <2>1. \A m, n \in Reachable' : PathOf'[m] = PathOf'[n] => m = n
      BY PathsThen DEF PathFacts
    <2>2. QED
      BY <1>1, <1>9, <1>12, <2>1
  <1>15. tree'[q] = type /\ \A x \in DOMAIN tree : tree'[x] = tree[x]
    BY <1>8, <1>9, <1>11, <1>12
  <1>16. type \in {"DIRECTORY", "REGULAR"}
    BY DEF Hung
  <1>17. a \in DOMAIN tree /\ tree[a] = "DIRECTORY"
    BY <1>1, <1>8, <1>12 DEF Directories
  <1> HIDE DEF q, type, a, e, S
  <1>18. Front(q) = a /\ q # <<>>
    BY <1>7, AppendIs
  <1>19. tree' = [x \in DOMAIN tree \cup {q} |-> IF x = q THEN type ELSE tree[x]]
    BY <1>11, <1>13, <1>14, <1>15
  <1>20. FileTree!Create(q, type)
    <2>1. FileTree!Front(q) = a
      BY <1>18 DEF Front, FileTree!Front
    <2>2. QED
      BY <1>14, <1>17, <1>19, <2>1 DEF FileTree!Create
  <1>21. QED
    BY <1>13, <1>14, <1>16, <1>18, <1>20 DEF FileTree!Next

\* What a node goes with, by the names: the nodes its path is a prefix of.
LEMMA GoneIsBelow ==
  ASSUME GraphInv, GraphInv', NEW node, CutOff(node), NEW n \in Reachable
  PROVE  IsPrefix(PathOf[node], PathOf[n]) <=> n \in Gone(NextOf(nd), ChildOf(nd), node)
  <1> DEFINE nx == NextOf(nd)
             ch == ChildOf(nd)
             G == Gone(nx, ch, node)
             S == AnyNames \cup {""}
             a == PathOf[node]
             Same(k) == IsPrefix(a, PathOf[k]) <=> k \in G
             Bad == {k \in Reachable : ~Same(k)}
  <1>1. /\ node \in Reachable /\ node # ROOT /\ Reachable' = Reachable \ G
        /\ ROOT \in Reachable /\ ROOT \in Reachable' /\ Reachable \subseteq Nat /\ node \in G
        /\ Reachable \subseteq Nodes
    <2>1. GraphInv => ROOT \in Reachable /\ Reachable \subseteq Nat /\ Reachable \subseteq Nodes
      BY GraphNow, NodeNumbers DEF Directories
    <2>2. ROOT \in Reachable'
      BY DEF Reachable
    <2>3. QED
      BY <2>1, <2>2 DEF CutOff, Gone
  <1>2. /\ PathOf[ROOT] = <<>>
        /\ \A k \in Reachable : k # ROOT => PathOf[k] = Append(PathOf[Holder(k)], nd[k].name)
        /\ \A k \in Reachable : PathOf[k] \in Seq(S)
        /\ \A k, m \in Reachable : PathOf[k] = PathOf[m] => k = m
    BY PathsNow DEF PathFacts
  <1>3. a \in Seq(S) /\ a # <<>>
    BY <1>1, <1>2
  <1> HIDE DEF a, G, S
  <1>4. Same(ROOT)
    <2>1. ROOT \notin G
      BY <1>1
    <2>2. <<>> \in Seq(S) /\ Len(<<>>) = 0 /\ Len(a) # 0 /\ Len(a) \in Nat
      <3>1. <<>> \in Seq(S) /\ Len(<<>>) = 0
        OBVIOUS
      <3>2. Len(a) \in Nat
        BY <1>3
      <3>3. Len(a) = 0 => a = <<>>
        BY <1>3
      <3>4. QED
        BY <1>3, <3>1, <3>2, <3>3
    <2>3. ~IsPrefix(a, <<>>)
      <3> DEFINE z == <<>>
      <3>1. z \in Seq(S) /\ Len(z) = 0
        BY <2>2
      <3> HIDE DEF z
      <3>2. IsPrefix(a, z) => Len(a) <= Len(z)
        BY <1>3, <3>1, PrefixIs
      <3>3. QED
        BY <2>2, <3>1, <3>2 DEF z
    <2>4. QED
      BY <1>2, <2>1, <2>3
  <1>5. Same(node)
    <2>1. IsPrefix(a, a)
      <3>1. Len(a) <= Len(a)
        BY <1>3
      <3>2. QED
        BY <1>3, <3>1, PrefixIs
    <2>2. QED
      BY <1>1, <2>1 DEF a
  <1>6. ASSUME NEW k \in Reachable, k # ROOT, k # node
        PROVE  Holder(k) \in Reachable /\ Holder(k) < k /\ (k \in G <=> Holder(k) \in G)
    <2>1. Holder(k) \in Reachable /\ k \in Children(Holder(k)) /\ Holder(k) < k
      BY <1>6, HoldersNow DEF HolderFacts, Directories
    <2>2. PICK h \in Reachable : h = Holder(k)
      BY <2>1
    <2>3. h \notin G => k \notin G
      <3>1. h \notin G => h \in Reachable' /\ Children(h)' = Children(h) \ {node}
        BY <1>1, <2>2 DEF CutOff
      <3>2. h \in Reachable' => Children(h)' \subseteq Reachable'
        BY InTreeThen DEF InTree
      <3>3. h \notin G => k \in Reachable'
        BY <1>6, <2>1, <2>2, <3>1, <3>2
      <3>4. QED
        BY <1>1, <3>3
    <2>4. h \in G => k \in G
      <3>1. nx \in Pointer /\ ch \in Pointer /\ ch[h] = nd[h].children /\ h \in Nodes
        BY <1>1, GraphNow DEF Shape
      <3>2. k \in List(nx, ch[h])
        BY <2>1, <2>2, <3>1, GraphNow
      <3> HIDE DEF nx, ch
      <3>3. node \in Nodes
        BY <1>1
      <3>4. h \in G => List(nx, ch[h]) \subseteq G
        BY <3>1, <3>3, GoneHolds DEF G
      <3>5. QED
        BY <3>2, <3>4
    <2>5. QED
      BY <2>1, <2>2, <2>3, <2>4
  <1>7. Bad = {}
    <2> SUFFICES ASSUME Bad # {} PROVE FALSE
      OBVIOUS
    <2>1. PICK k \in Bad : \A j \in Bad : k <= j
      <3>1. Bad \in SUBSET Nat
        BY <1>1
      <3>2. QED
        BY <3>1, Least
    <2>2. k \in Reachable /\ ~Same(k) /\ k # ROOT /\ k # node
      BY <1>4, <1>5, <2>1
    <2>3. PICK h \in Reachable : h = Holder(k)
      BY <1>6, <2>2
    <2>4. h \in Nat /\ k \in Nat /\ h < k /\ (k \in G <=> h \in G)
      BY <1>1, <1>6, <2>2, <2>3
    <2>5. Same(h)
      BY <2>1, <2>3, <2>4
    <2>6. PathOf[k] # a
      BY <1>1, <1>2, <2>2 DEF a
    <2> DEFINE t == PathOf[h]
               e == nd[k].name
    <2>7. t \in Seq(S) /\ e \in S /\ PathOf[k] = Append(t, e)
      <3>1. nd[k].name \in S
        BY <1>1, <2>2, GraphNow DEF NodeType, S
      <3>2. QED
        BY <1>2, <2>2, <2>3, <3>1
    <2> HIDE DEF t, e
    <2>8. IsPrefix(a, Append(t, e)) <=> IsPrefix(a, t) \/ a = Append(t, e)
      BY <1>3, <2>7, PrefixAppend
    <2>9. IsPrefix(a, PathOf[k]) <=> IsPrefix(a, PathOf[h])
      BY <2>6, <2>7, <2>8 DEF t
    <2>10. QED
      BY <2>2, <2>4, <2>5, <2>9
  <1>8. QED
    BY <1>7 DEF a, G

\* A node that is cut off is a path less, with what is below it.  A link is no path of its own.
LEMMA CutTree ==
  ASSUME GraphInv, GraphInv', NEW node, CutOff(node)
  PROVE  FileTree!Next \/ tree' = tree
  <1> DEFINE G == Gone(NextOf(nd), ChildOf(nd), node)
  <1>1. /\ node \in Reachable /\ node # ROOT /\ Reachable' = Reachable \ G /\ node \in G
        /\ Reachable \subseteq Nodes
    BY GraphNow DEF CutOff, Gone
  <1>2. \A n \in Reachable' : nd'[n].type = nd[n].type /\ nd'[n].name = nd[n].name
    BY <1>1 DEF CutOff
  <1>3. ASSUME NEW n \in Reachable', n # ROOT
        PROVE  Holder(n) \in Reachable' /\ Holder(n)' = Holder(n) /\ nd'[n].name = nd[n].name
    <2>1. Holder(n)' \in Reachable' /\ \A d : d = Holder(n)' => n \in Children(d)'
      BY <1>3, HoldersThen DEF HolderFacts, Directories
    <2>2. PICK h \in Reachable' : h = Holder(n)'
      BY <2>1
    <2>3. h \in Reachable /\ n \in Children(h)
      BY <1>1, <2>1, <2>2 DEF CutOff
    <2>4. h = Holder(n)
      BY <1>1, <1>3, <2>3, HoldersNow DEF HolderFacts
    <2>5. QED
      BY <1>2, <2>2, <2>4
  <1>4. \A n \in Reachable' : PathOf'[n] = PathOf[n]
    <2> DEFINE T == Reachable'
    <2>1. /\ T \subseteq Reachable /\ T \subseteq Reachable'
          /\ \A n \in T : n # ROOT =>
                Holder(n) \in T /\ Holder(n)' = Holder(n) /\ nd'[n].name = nd[n].name
      BY <1>1, <1>3
    <2>2. PICK U : U = T
      OBVIOUS
    <2> HIDE DEF T
    <2>3. \A n \in U : PathOf'[n] = PathOf[n]
      BY <2>1, <2>2, SamePaths
    <2>4. QED
      BY <2>2, <2>3 DEF T
  <1>5. Shown' = Shown \ G
    <2>1. Shown' = {n \in Reachable' : nd'[n].type # "SYMLINK"}
      BY DEF Shown
    <2>2. QED
      BY <1>1, <1>2, <2>1 DEF Shown
  <1>6. \A n \in Shown' : n \in Shown /\ n \in Reachable' /\ nd'[n].type = nd[n].type /\ PathOf'[n] = PathOf[n]
    BY <1>1, <1>2, <1>4, <1>5 DEF Shown
  <1>7. TreeFacts /\ TreeFacts'
    BY TreeNow, TreeThen
  <1>8. /\ tree' = [x \in DOMAIN tree' |-> tree'[x]]
        /\ DOMAIN tree' = {PathOf'[n] : n \in Shown'}
        /\ \A n \in Shown' : tree'[PathOf'[n]] = nd'[n].type
    BY <1>7 DEF TreeFacts
  <1>9. /\ tree = [x \in DOMAIN tree |-> tree[x]]
        /\ DOMAIN tree = {PathOf[n] : n \in Shown}
        /\ \A n \in Shown : tree[PathOf[n]] = nd[n].type
    BY <1>7 DEF TreeFacts
  <1>10. /\ DOMAIN tree' = {PathOf[n] : n \in Shown'}
         /\ \A x \in DOMAIN tree' : tree'[x] = tree[x]
    BY <1>6, <1>8, <1>9
  <1> HIDE DEF G
  <1>11. CASE nd[node].type = "SYMLINK"
    <2>1. nd[node].children = NULL
      BY <1>1, <1>11 DEF GraphInv, PointersAhead
    <2>2. G = {node}
      <3>1. ChildOf(nd)[node] = NULL
        BY <1>1, <2>1, GraphNow DEF Shape
      <3>2. QED
        BY <3>1 DEF G, Gone, Below
    <2>3. Shown' = Shown
      BY <1>5, <1>11, <2>2 DEF Shown
    <2>4. DOMAIN tree' = DOMAIN tree
      BY <1>9, <1>10, <2>3
    <2>5. QED
      BY <1>8, <1>9, <1>10, <2>4
  <1>12. CASE nd[node].type # "SYMLINK"
    <2>1. PICK a : a = PathOf[node]
      OBVIOUS
    <2>2. node \in Shown /\ node \notin Shown'
      BY <1>1, <1>5, <1>12 DEF Shown
    <2>3. \A m, n \in Reachable : PathOf[m] = PathOf[n] => m = n
      BY PathsNow DEF PathFacts
    <2>4. a \in DOMAIN tree /\ a \notin DOMAIN tree'
      BY <1>6, <1>9, <1>10, <2>1, <2>2, <2>3 DEF Shown
    <2>5. a # <<>>
      <3>1. PathOf[ROOT] = <<>> /\ ROOT \in Reachable
        BY PathsNow, GraphNow DEF PathFacts, Directories
      <3>2. QED
        BY <1>1, <2>1, <2>3, <3>1
    <2>6. \A n \in Reachable : IsPrefix(a, PathOf[n]) <=> n \in G
      BY <2>1, GoneIsBelow DEF G
    <2>7. DOMAIN tree' = {x \in DOMAIN tree : ~IsPrefix(a, x)}
      <3>1. \A n \in Shown : n \in Shown' <=> ~IsPrefix(a, PathOf[n])
        BY <1>5, <2>6 DEF Shown
      <3>2. \A n \in Shown' : n \in Shown
        BY <1>6
      <3>3. QED
        BY <1>9, <1>10, <3>1, <3>2
    <2>8. \A x : FileTree!IsPrefix(a, x) <=> IsPrefix(a, x)
      BY DEF IsPrefix, FileTree!IsPrefix
    <2>9. tree' = [x \in {y \in DOMAIN tree : ~FileTree!IsPrefix(a, y)} |-> tree[x]]
      BY <1>8, <1>10, <2>7, <2>8
    <2>10. FileTree!Delete(a)
      BY <2>5, <2>9 DEF FileTree!Delete
    <2>11. QED
      BY <2>4, <2>10 DEF FileTree!Next
  <1>13. QED
    BY <1>11, <1>12

\* The tree that callers see is in the nodes alone.
LEMMA SameTree ==
  ASSUME nd' = nd
  PROVE  tree' = tree
  <1>1. ListFrom' = ListFrom /\ Hanging' = Hanging
    BY DEF ListFrom, Hanging
  <1>2. Reachable' = Reachable /\ \A d : Children(d)' = Children(d)
    BY <1>1 DEF Reachable, Children
  <1>3. \A n : Holder(n)' = Holder(n)
    BY <1>2 DEF Holder
  <1>4. PathOf' = PathOf
    BY <1>2, <1>3 DEF PathOf
  <1>5. Shown' = Shown
    BY <1>2 DEF Shown
  <1>6. QED
    BY <1>4, <1>5 DEF tree

-----------------------------------------------------------------------------
(* The graph of nodes implements the tree of files. *)

\* Initially there is the root.
LEMMA RamfsInitTree == RamfsInit => FileTree!Init
  <1> SUFFICES ASSUME RamfsInit PROVE FileTree!Init
    OBVIOUS
  <1>1. GraphInv
    BY RamfsInitInv
  <1>2. used = 2 /\ nd[0].type = "DIRECTORY" /\ nd[1].type = "SYMLINK" /\ nd[2].type = "SYMLINK"
    BY RamfsInitNodes
  <1>3. \A n \in 0 .. 2 : n = 0 \/ n = 1 \/ n = 2
    OBVIOUS
  <1>4. ROOT = 0 /\ ROOT \in Reachable /\ Reachable \subseteq 0 .. 2
    BY <1>1, <1>2, TreeIsUsed, GraphNow DEF Directories, ROOT
  <1>5. Shown = {ROOT}
    BY <1>2, <1>3, <1>4 DEF Shown
  <1>6. PathOf[ROOT] = <<>>
    BY <1>1, PathsNow DEF PathFacts
  <1>7. TreeFacts
    BY <1>1, TreeNow
  <1>8. DOMAIN tree = {<<>>} /\ tree[<<>>] = "DIRECTORY" /\ tree = [p \in DOMAIN tree |-> tree[p]]
    BY <1>2, <1>4, <1>5, <1>6, <1>7 DEF TreeFacts
  <1>9. tree = [p \in {<<>>} |-> "DIRECTORY"]
    BY <1>8
  <1>10. QED
    BY <1>9 DEF FileTree!Init

\* Making a directory adds a path or none.
LEMMA MkDirTree ==
  ASSUME GraphInv, GraphInv', NEW path \in Paths, NEW name \in AnyNames, MkDir(path, name)
  PROVE  FileTree!Next \/ tree' = tree
  <1>1. PICK parent \in Reachable : parent = FsGetNode(path)
    BY PathLength, GetNodeInTree DEF MkDir, MayCreate
  <1>2. MayCreate(parent, name)
    BY <1>1 DEF MkDir
  <1>3. \/ UNCHANGED nd
        \/ /\ Room >= 3 /\ Alloc(3) /\ UNCHANGED freed /\ nd[parent].children # NULL
           /\ HangLast(parent, used + 1, NewDirectory(name, parent, used + 1))
    BY <1>1 DEF MkDir, HangLast
  <1>4. CASE UNCHANGED nd
    BY <1>4, SameTree
  <1>5. CASE /\ Room >= 3 /\ Alloc(3) /\ UNCHANGED freed /\ nd[parent].children # NULL
             /\ HangLast(parent, used + 1, NewDirectory(name, parent, used + 1))
    <2>1. PICK new, K : new = used + 1 /\ K = used + 1 .. used'
      OBVIOUS
    <2>2. Hung(parent, used + 1, used + 1 .. used')
      BY <1>2, <1>5, HangDirectory
    <2>3. Hung(parent, new, K)
      BY <2>1, <2>2
    <2>4. QED
      BY <2>3, HungTree
  <1>6. QED
    BY <1>3, <1>4, <1>5

\* So does making a file.
LEMMA NewRegFileTree ==
  ASSUME GraphInv, GraphInv', NEW path \in Paths, NEW name \in AnyNames, NewRegFile(path, name)
  PROVE  FileTree!Next \/ tree' = tree
  <1>1. PICK parent \in Reachable : parent = FsGetNode(path)
    BY PathLength, GetNodeInTree DEF NewRegFile, MayCreate
  <1>2. MayCreate(parent, name)
    BY <1>1 DEF NewRegFile
  <1>3. \/ UNCHANGED nd
        \/ /\ Room >= 1 /\ Alloc(1) /\ UNCHANGED freed /\ nd[parent].children # NULL
           /\ HangLast(parent, used + 1, NewFile(name))
    BY <1>1 DEF NewRegFile, HangLast
  <1>4. CASE UNCHANGED nd
    BY <1>4, SameTree
  <1>5. CASE /\ Room >= 1 /\ Alloc(1) /\ UNCHANGED freed /\ nd[parent].children # NULL
             /\ HangLast(parent, used + 1, NewFile(name))
    <2>1. PICK new, K : new = used + 1 /\ K = used + 1 .. used'
      OBVIOUS
    <2>2. Hung(parent, used + 1, used + 1 .. used')
      BY <1>2, <1>5, HangFile
    <2>3. Hung(parent, new, K)
      BY <2>1, <2>2
    <2>4. QED
      BY <2>3, HungTree
  <1>6. QED
    BY <1>3, <1>4, <1>5

\* Deleting a node takes a path and those below it, or none.
LEMMA DeleteNodeTree ==
  ASSUME GraphInv, GraphInv', NEW path \in Paths, DeleteNode(path)
  PROVE  FileTree!Next \/ tree' = tree
  <1>1. PICK node \in Reachable : node = FsGetNode(path)
    BY PathLength, GetNodeInTree DEF DeleteNode
  <1>2. PICK parents : parents = ParentDirs(path) \ {NULL}
    OBVIOUS
  <1>3. parents \subseteq Reachable
    BY <1>2, ParentInTree DEF DeleteNode
  <1>4. /\ used' = used
        /\ \/ /\ \/ \E parentDir \in parents :
                       /\ nd[parentDir].children = node
                       /\ nd' = [nd EXCEPT ![parentDir].children = After(node)]
                 \/ \E parentDir \in parents : \E prev \in Children(parentDir) :
                       /\ nd[prev].next = node
                       /\ nd' = [nd EXCEPT ![prev].next = After(node)]
              /\ freed' = freed \cup Hanging[node] /\ fault' = fault
           \/ nd' = nd
    BY <1>1, <1>2 DEF DeleteNode, InterDeleteNode
  <1>5. CASE nd' = nd
    BY <1>5, SameTree
  <1>6. CASE /\ \E parentDir \in parents :
                   /\ nd[parentDir].children = node
                   /\ nd' = [nd EXCEPT ![parentDir].children = After(node)]
             /\ freed' = freed \cup Hanging[node] /\ fault' = fault
    <2>1. PICK r \in parents : /\ nd[r].children = node
                               /\ nd' = [nd EXCEPT ![r].children = After(node)]
      BY <1>6
    <2>2. CutOff(node)
      BY <1>3, <1>4, <1>6, <2>1, ChildUnlinked
    <2>3. QED
      BY <2>2, CutTree
  <1>7. CASE /\ \E parentDir \in parents : \E prev \in Children(parentDir) :
                   /\ nd[prev].next = node
                   /\ nd' = [nd EXCEPT ![prev].next = After(node)]
             /\ freed' = freed \cup Hanging[node] /\ fault' = fault
    <2>1. PICK parentDir \in parents : \E prev \in Children(parentDir) :
             nd[prev].next = node /\ nd' = [nd EXCEPT ![prev].next = After(node)]
      BY <1>7
    <2>2. PICK r \in Children(parentDir) :
             nd[r].next = node /\ nd' = [nd EXCEPT ![r].next = After(node)]
      BY <2>1
    <2>3. r \in Reachable
      BY <1>3, GraphNow
    <2>4. CutOff(node)
      BY <1>4, <1>7, <2>2, <2>3, NextUnlinked
    <2>5. QED
      BY <2>4, CutTree
  <1>8. QED
    BY <1>4, <1>5, <1>6, <1>7

\* Every step of the lists is a step of the tree of names, or none.
LEMMA RamfsStepTree == GraphInv /\ GraphInv' /\ [RamfsNext]_nodeVars => [FileTree!Next]_tree
  <1> SUFFICES ASSUME GraphInv, GraphInv', [RamfsNext]_nodeVars
               PROVE  FileTree!Next \/ tree' = tree
    OBVIOUS
  <1>1. ASSUME NEW path \in Paths, NEW name \in AnyNames, MkDir(path, name)
        PROVE  FileTree!Next \/ tree' = tree
    BY <1>1, MkDirTree
  <1>2. ASSUME NEW path \in Paths, NEW name \in AnyNames, NewRegFile(path, name)
        PROVE  FileTree!Next \/ tree' = tree
    BY <1>2, NewRegFileTree
  <1>3. ASSUME NEW path \in Paths, DeleteNode(path)
        PROVE  FileTree!Next \/ tree' = tree
    BY <1>3, DeleteNodeTree
  <1>4. CASE UNCHANGED nodeVars
    BY <1>4, SameTree DEF nodeVars
  <1>5. QED
    BY <1>1, <1>2, <1>3, <1>4 DEF RamfsNext

\* RamFS: the lists implement a tree of names: mkDir and newRegFile add one path, deleteNode
\* removes a path with all below it, and an operation that fails changes none.
THEOREM RamfsImplementsFileTree == RamfsSpec => ImplementsFileTree
  BY AlwaysGraphInv, RamfsInitTree, RamfsStepTree, PTL
     DEF RamfsSpec, ImplementsFileTree, FileTree!Spec

-----------------------------------------------------------------------------
(* The nodes during the boot, where names may be met twice and entries are hung *)
(* by hand: the lists and what lookups find in them. *)

\* Of two nodes of a list one is in the list from the other on.
LEMMA ListTotal ==
  ASSUME NEW nx \in Pointer, NEW c \in Refs, NEW x \in List(nx, c), NEW y \in List(nx, c)
  PROVE  y \in List(nx, x) \/ x \in List(nx, y)
  <1> DEFINE C == {z \in Nodes : z \in List(nx, x) \/ x \in List(nx, z)}
  <1>1. List(nx, c) \subseteq Nodes /\ c # NULL /\ c \in Nodes
    BY ListHas, NodeNumbers DEF List
  <1>2. c \in C
    BY <1>1
  <1>3. ASSUME NEW z \in C, nx[z] # NULL PROVE nx[z] \in C
    <2>1. z \in Nodes /\ nx[z] \in Nodes /\ x \in Nodes /\ x \in Refs
      BY <1>1, <1>3, NodeNumbers DEF Pointer
    <2>2. CASE z \in List(nx, x)
      BY <1>3, <2>1, <2>2, ListHas
    <2>3. CASE x \in List(nx, z)
      <3>1. List(nx, z) = {z} \cup List(nx, nx[z])
        BY <2>1, ListUnfold
      <3>2. CASE x = z
        BY <1>3, <2>1, <3>2, ListHas
      <3>3. CASE x # z
        BY <2>1, <2>3, <3>1, <3>3
      <3>4. QED
        BY <3>2, <3>3
    <2>4. QED
      BY <1>3, <2>2, <2>3
  <1>4. C \in SUBSET Nodes
    OBVIOUS
  <1> HIDE DEF C
  <1>5. List(nx, c) \subseteq C
    BY <1>2, <1>3, <1>4, ListLeast
  <1>6. QED
    BY <1>5 DEF C

\* The nodes of a list come after the one it starts at.
LEMMA ListAhead ==
  ASSUME NEW nx \in Pointer, Ahead(nx), NEW c \in Nodes
  PROVE  \A m \in List(nx, c) : c <= m
  <1>1. NextSucc(nx) \in [Nodes -> SUBSET Nodes] /\ \A n \in Nodes : NextSucc(nx)[n] = {nx[n]} \ {NULL}
    BY SuccTypes
  <1>2. \A x \in Nodes : \A y \in NextSucc(nx)[x] : x < y
    BY <1>1 DEF Ahead
  <1>3. c # NULL
    BY NodeNumbers
  <1>4. QED
    BY <1>1, <1>2, <1>3, FromAhead DEF List

\* Pointers lead to allocated nodes, and so do lists.
LEMMA ListAllocated ==
  ASSUME NEW nx \in Pointer, NEW u, 0 .. u \subseteq Nodes,
         \A x \in Nodes : nx[x] # NULL => nx[x] \in 0 .. u,
         NEW c \in Refs, c # NULL => c \in 0 .. u
  PROVE  List(nx, c) \subseteq 0 .. u
  <1> DEFINE C == 0 .. u
  <1>1. C \in SUBSET Nodes
    OBVIOUS
  <1>2. c # NULL => c \in C
    OBVIOUS
  <1>3. \A x \in C : nx[x] # NULL => nx[x] \in C
    BY <1>1
  <1> HIDE DEF C
  <1>4. List(nx, c) \subseteq C
    BY <1>1, <1>2, <1>3, ListLeast
  <1>5. QED
    BY <1>4 DEF C

\* A list that some end is hung to: what is new in it comes after all that was in it.
LEMMA ListGrows ==
  ASSUME NEW nx \in Pointer, NEW nx2 \in Pointer, NEW c \in Refs,
         \A x \in List(nx, c) : nx[x] # NULL => nx2[x] = nx[x]
  PROVE  /\ List(nx, c) \subseteq List(nx2, c)
         /\ \A x \in List(nx, c) : \A y \in List(nx2, c) : y \in List(nx, c) \/ y \in List(nx2, x)
         /\ \A x \in List(nx, c) : List(nx, x) \subseteq List(nx2, x)
  <1> DEFINE L == List(nx, c)
  <1>1. /\ L \subseteq Nodes /\ (c # NULL => c \in L)
        /\ \A x \in L : nx[x] # NULL => nx[x] \in L
    BY ListHas
  <1>2. ASSUME NEW x \in L PROVE List(nx, x) \subseteq List(nx2, x) /\ List(nx, x) \subseteq L
    <2> DEFINE C == List(nx2, x) \cap L
    <2>0. x \in Nodes /\ x \in Refs /\ x # NULL
      BY <1>1, <1>2, NodeNumbers
    <2>1. /\ List(nx2, x) \subseteq Nodes /\ x \in List(nx2, x)
          /\ \A z \in List(nx2, x) : nx2[z] # NULL => nx2[z] \in List(nx2, x)
      BY <2>0, ListHas
    <2>2. C \in SUBSET Nodes /\ x \in C
      BY <2>1, <1>2
    <2>3. \A z \in C : nx[z] # NULL => nx[z] \in C
      BY <1>1, <2>1
    <2> HIDE DEF C
    <2>4. List(nx, x) \subseteq C
      BY <2>0, <2>2, <2>3, ListLeast
    <2>5. QED
      BY <2>4 DEF C
  <1>3. L \subseteq List(nx2, c)
    <2>1. CASE c = NULL
      BY <2>1 DEF List
    <2>2. CASE c # NULL
      BY <2>2, <1>1, <1>2
    <2>3. QED
      BY <2>1, <2>2
  <1>4. ASSUME NEW x \in L, NEW y \in List(nx2, c) PROVE y \in L \/ y \in List(nx2, x)
    <2> DEFINE C == L \cup List(nx2, x)
    <2>0. x \in Nodes /\ x \in Refs /\ x # NULL
      BY <1>1, <1>4, NodeNumbers
    <2>1. /\ List(nx2, x) \subseteq Nodes
          /\ \A z \in List(nx2, x) : nx2[z] # NULL => nx2[z] \in List(nx2, x)
      BY <2>0, ListHas
    <2>2. C \in SUBSET Nodes /\ (c # NULL => c \in C)
      BY <1>1, <2>1
    <2>3. ASSUME NEW z \in C, nx2[z] # NULL PROVE nx2[z] \in C
      <3>1. CASE z \in List(nx2, x)
        BY <2>1, <2>3, <3>1
      <3>2. CASE z \in L /\ nx[z] # NULL
        BY <1>1, <3>2
      <3>3. CASE z \in L /\ nx[z] = NULL
        <4>1. z \in Nodes
          BY <1>1, <3>3
        <4>2. List(nx, z) = {z}
          <5>1. List(nx, z) = {z} \cup List(nx, nx[z])
            BY <4>1, ListUnfold
          <5>2. List(nx, nx[z]) = {}
            BY <3>3 DEF List
          <5>3. QED
            BY <5>1, <5>2
        <4>3. z \in List(nx, x) \/ x \in List(nx, z)
          BY <1>4, <3>3, ListTotal
        <4>4. z \in List(nx, x)
          BY <2>0, <4>2, <4>3, ListHas
        <4>5. z \in List(nx2, x)
          BY <1>2, <1>4, <4>4
        <4>6. QED
          BY <2>1, <2>3, <4>5
      <3>4. QED
        BY <2>3, <3>1, <3>2, <3>3
    <2> HIDE DEF C
    <2>4. List(nx2, c) \subseteq C
      BY <2>2, <2>3, ListLeast
    <2>5. QED
      BY <1>4, <2>4 DEF C
  <1>5. QED
    BY <1>2, <1>3, <1>4

\* The part of the invariant that lists and lookups depend on.
BootGraph == NodesAreRecords /\ PointersAhead /\ LinksToDirectories

\* What is known of the nodes then.
BootShape ==
  /\ used \in Nat /\ heap \in Nat /\ used <= heap /\ heap <= HEAP_NODES /\ 0 .. used \subseteq Nodes
  /\ NextOf(nd) \in Pointer /\ Ahead(NextOf(nd))
  /\ \A x \in Nodes : /\ NextOf(nd)[x] = nd[x].next
                      /\ nd[x].next \in Refs /\ nd[x].children \in Refs
                      /\ nd[x].next # NULL => nd[x].next \in 0 .. used /\ x < nd[x].next
                      /\ nd[x].children # NULL => nd[x].children \in 0 .. used /\ x < nd[x].children
                      /\ nd[x].children # NULL => nd[x].type = "DIRECTORY"
  /\ \A c \in Refs : ListFrom[c] = List(NextOf(nd), c)
  /\ \A x \in Nodes : Children(x) = List(NextOf(nd), nd[x].children)
  /\ \A x \in Nodes : NodeFromSimlink[x] = IF nd[x].type = "SYMLINK" THEN nd[x].node_ptr ELSE x
  /\ \A x \in 0 .. used : NodeFromSimlink[x] \in 0 .. used

\* The invariant gives it.
LEMMA BootShapeNow == BootGraph => BootShape
  <1> SUFFICES ASSUME BootGraph PROVE BootShape
    OBVIOUS
  <1>1. used \in Nat /\ heap \in Nat /\ used <= heap /\ heap <= HEAP_NODES /\ HEAP_NODES \in Nat
    BY NodeNumbers DEF BootGraph, NodesAreRecords
  <1>2. 0 .. used \subseteq Nodes /\ used \in 0 .. HEAP_NODES
    BY <1>1 DEF Nodes
  <1>3. ASSUME NEW x \in Nodes, NEW m \in x + 1 .. used PROVE x < m /\ m \in 0 .. used
    BY <1>1, NodeNumbers
  <1>4. \A x \in Nodes : /\ nd[x].next # NULL => nd[x].next \in 0 .. used /\ x < nd[x].next
                         /\ nd[x].children # NULL => nd[x].children \in 0 .. used /\ x < nd[x].children
                         /\ nd[x].children # NULL => nd[x].type = "DIRECTORY"
    BY <1>3 DEF BootGraph, PointersAhead
  <1>5. \A x \in Nodes : nd[x].next \in Refs /\ nd[x].children \in Refs
    BY <1>2, <1>4, NodeNumbers
  <1>6. \A x \in Nodes : NextOf(nd)[x] = nd[x].next
    BY DEF NextOf
  <1>7. NextOf(nd) \in Pointer
    BY <1>5 DEF NextOf, Pointer
  <1>8. Ahead(NextOf(nd))
    BY <1>4, <1>6 DEF Ahead
  <1>9. ListFrom = [n \in Refs |-> List(NextOf(nd), n)]
    BY <1>7, <1>8, ListSolution DEF ListFrom
  <1>10. \A x \in Nodes : NodeFromSimlink[x] = IF nd[x].type = "SYMLINK" THEN nd[x].node_ptr ELSE x
    BY <1>2, LinkIs DEF BootGraph
  <1>11. \A x \in 0 .. used : NodeFromSimlink[x] \in 0 .. used
    BY <1>2, <1>10 DEF BootGraph, LinksToDirectories
  <1>12. \A c \in Refs : ListFrom[c] = List(NextOf(nd), c)
    BY <1>9
  <1>13. \A x \in Nodes : Children(x) = List(NextOf(nd), nd[x].children)
    BY <1>5, <1>12 DEF Children
  <1>14. QED
    BY <1>1, <1>2, <1>4, <1>5, <1>6, <1>7, <1>8, <1>10, <1>11, <1>12, <1>13 DEF BootShape

\* So it is after a step.
LEMMA BootShapeThen == BootGraph' => BootShape'
  BY BootShapeNow, PTL

\* Lists of children are allocated nodes.
LEMMA BootChildren ==
  ASSUME BootShape, NEW d \in Nodes
  PROVE  Children(d) \subseteq 0 .. used
  <1> DEFINE nx == NextOf(nd)
             c == nd[d].children
             u == used
  <1>1. nx \in Pointer /\ 0 .. u \subseteq Nodes /\ c \in Refs /\ (c # NULL => c \in 0 .. u)
    BY DEF BootShape
  <1>2. \A x \in Nodes : nx[x] # NULL => nx[x] \in 0 .. u
    BY DEF BootShape
  <1>3. Children(d) = List(nx, c)
    BY DEF BootShape
  <1> HIDE DEF nx, c, u
  <1>4. List(nx, c) \subseteq 0 .. u
    BY <1>1, <1>2, ListAllocated
  <1>5. QED
    BY <1>3, <1>4 DEF u

\* The children of a name, the first of which ramfs_find returns.
Hits(d, name) == {m \in Children(d) : nd[m].name = name}

\* Among them there is a first one.
LEMMA FirstHit ==
  ASSUME BootShape, NEW d \in Nodes, NEW name, Hits(d, name) # {}
  PROVE  \E m \in Hits(d, name) : Hits(d, name) \subseteq ListFrom[m]
  <1> DEFINE nx == NextOf(nd)
             c == nd[d].children
             H == Hits(d, name)
  <1>1. nx \in Pointer /\ Ahead(nx) /\ c \in Refs /\ Children(d) = List(nx, c)
    BY DEF BootShape
  <1>2. H \subseteq List(nx, c) /\ List(nx, c) \subseteq Nodes
    BY <1>1, ListHas DEF Hits
  <1>3. H \subseteq Nodes /\ H \in SUBSET Nat /\ H # {}
    BY <1>2, NodeNumbers
  <1> HIDE DEF H, nx, c
  <1>4. PICK m \in H : \A y \in H : m <= y
    BY <1>3, Least
  <1>5. ASSUME NEW y \in H PROVE y \in List(nx, m)
    <2>1. m \in List(nx, c) /\ y \in List(nx, c) /\ m \in Nodes /\ y \in Nodes
      BY <1>2, <1>5
    <2>2. y \in List(nx, m) \/ m \in List(nx, y)
      BY <1>1, <2>1, ListTotal
    <2>3. CASE m \in List(nx, y)
      <3>1. y <= m /\ m <= y /\ m \in Nat /\ y \in Nat
        BY <1>1, <1>4, <1>5, <2>1, <2>3, ListAhead, NodeNumbers
      <3>2. y = m
        BY <3>1
      <3>3. QED
        BY <2>3, <3>2
    <2>4. QED
      BY <2>2, <2>3
  <1>6. ListFrom[m] = List(nx, m)
    <2>1. m \in Refs
      BY <1>3, <1>4, NodeNumbers
    <2>2. QED
      BY <2>1 DEF BootShape, nx
  <1>7. QED
    BY <1>4, <1>5, <1>6 DEF H

\* There is no other.
LEMMA OneFirst ==
  ASSUME BootShape, NEW S \in SUBSET Nodes, NEW m \in S, NEW y \in S,
         S \subseteq ListFrom[m], S \subseteq ListFrom[y]
  PROVE  m = y
  <1> DEFINE nx == NextOf(nd)
  <1>1. nx \in Pointer /\ Ahead(nx) /\ m \in Nodes /\ y \in Nodes /\ m \in Refs /\ y \in Refs
    BY NodeNumbers DEF BootShape
  <1>2. ListFrom[m] = List(nx, m) /\ ListFrom[y] = List(nx, y)
    BY <1>1 DEF BootShape
  <1> HIDE DEF nx
  <1>3. m <= y /\ y <= m /\ m \in Nat /\ y \in Nat
    BY <1>1, <1>2, ListAhead, NodeNumbers
  <1>4. QED
    BY <1>3

\* What a lookup finds.
LEMMA LookupIs ==
  ASSUME BootShape, NEW dir \in 0 .. used, NEW name
  PROVE  LET d == NodeFromSimlink[dir]
         IN  /\ d \in 0 .. used
             /\ nd[d].type = "DIRECTORY" /\ Hits(d, name) # {} =>
                  FsFind(dir, name) \in Hits(d, name) /\ Hits(d, name) \subseteq ListFrom[FsFind(dir, name)]
             /\ nd[d].type # "DIRECTORY" \/ Hits(d, name) = {} => FsFind(dir, name) = NULL
             /\ FsFind(dir, name) # NULL =>
                  FsFind(dir, name) \in 0 .. used /\ nd[d].type = "DIRECTORY" /\ Hits(d, name) # {}
  <1> DEFINE d == NodeFromSimlink[dir]
             H == Hits(d, name)
  <1>1. d \in 0 .. used /\ d \in Nodes
    BY DEF BootShape
  <1>2. FsFind(dir, name) = IF nd[d].type = "DIRECTORY" /\ H # {}
                            THEN CHOOSE m \in H : H \subseteq ListFrom[m] ELSE NULL
    BY DEF FsFind, Hits
  <1> HIDE DEF d
  <1>3. H # {} => \E m \in H : H \subseteq ListFrom[m]
    BY <1>1, FirstHit
  <1>4. H \subseteq 0 .. used
    BY <1>1, BootChildren DEF Hits
  <1> HIDE DEF H
  <1>5. H # {} => /\ (CHOOSE m \in H : H \subseteq ListFrom[m]) \in H
                  /\ H \subseteq ListFrom[CHOOSE m \in H : H \subseteq ListFrom[m]]
    BY <1>3
  <1>6. QED
    BY <1>1, <1>2, <1>4, <1>5 DEF H, d

\* Every child of a directory is found by its name, or one before it.
LEMMA ChildIsFound ==
  ASSUME BootShape, NEW d \in 0 .. used, nd[d].type = "DIRECTORY", NEW m \in Children(d)
  PROVE  FsFind(d, nd[m].name) # NULL
  <1>1. d \in Nodes /\ NodeFromSimlink[d] = d
    BY DEF BootShape
  <1>2. m \in Hits(d, nd[m].name)
    BY DEF Hits
  <1>3. FsFind(d, nd[m].name) \in Hits(d, nd[m].name) /\ Hits(d, nd[m].name) \subseteq 0 .. used
    BY <1>1, <1>2, LookupIs, BootChildren DEF Hits
  <1>4. FsFind(d, nd[m].name) \in 0 .. used /\ 0 .. used \subseteq Nodes
    BY <1>3 DEF BootShape
  <1>5. QED
    BY <1>4, NodeNumbers

\* A step that only allocates nodes and hangs them at the ends of lists.
Grown ==
  /\ used <= used'
  /\ \A x \in 0 .. used :
       /\ nd'[x].type = nd[x].type /\ nd'[x].name = nd[x].name
       /\ nd'[x].children = nd[x].children /\ nd'[x].node_ptr = nd[x].node_ptr
       /\ nd[x].next # NULL => nd'[x].next = nd[x].next

\* What a lookup finds, as a fact of the state.
LookupFacts ==
  \A dir \in 0 .. used : \A name, d : d = NodeFromSimlink[dir] =>
     (nd[d].type = "DIRECTORY" /\ Hits(d, name) # {} =>
        FsFind(dir, name) \in Hits(d, name) /\ Hits(d, name) \subseteq ListFrom[FsFind(dir, name)])

\* The shape of the nodes gives it.
LEMMA LookupNow == BootShape => LookupFacts
  BY LookupIs DEF LookupFacts

\* So it is after a step.
LEMMA LookupThen == BootShape' => LookupFacts'
  BY LookupNow, PTL

\* A lookup that found a node finds the same one when nodes were added.
LEMMA FindStays ==
  ASSUME BootShape, BootShape', Grown, NEW dir \in 0 .. used, NEW name, FsFind(dir, name) # NULL
  PROVE  FsFind(dir, name)' = FsFind(dir, name)
  <1>1. PICK d : d = NodeFromSimlink[dir]
    OBVIOUS
  <1>2. d \in 0 .. used /\ d \in Nodes /\ dir \in Nodes /\ dir \in 0 .. used' /\ d \in 0 .. used'
    BY <1>1 DEF BootShape, Grown
  <1>3. NodeFromSimlink'[dir] = d
    <2>1. NodeFromSimlink[dir] = IF nd[dir].type = "SYMLINK" THEN nd[dir].node_ptr ELSE dir
      BY <1>2 DEF BootShape
    <2>2. NodeFromSimlink'[dir] = IF nd'[dir].type = "SYMLINK" THEN nd'[dir].node_ptr ELSE dir
      BY <1>2 DEF BootShape
    <2>3. nd'[dir].type = nd[dir].type /\ nd'[dir].node_ptr = nd[dir].node_ptr
      BY DEF Grown
    <2>4. QED
      BY <1>1, <2>1, <2>2, <2>3
  <1>4. PICK m : m = FsFind(dir, name)
    OBVIOUS
  <1>5. PICK H : H = Hits(d, name)
    OBVIOUS
  <1>6. PICK c : c = nd[d].children
    OBVIOUS
  <1>7. PICK nx : nx = NextOf(nd)
    OBVIOUS
  <1>8. PICK nx2 : nx2 = NextOf(nd')
    OBVIOUS
  <1>9. PICK H2 : H2 = Hits(d, name)'
    OBVIOUS
  <1>10. PICK m2 : m2 = FsFind(dir, name)'
    OBVIOUS
  <1>11. nd[d].type = "DIRECTORY" /\ m \in H /\ H \subseteq ListFrom[m]
    BY <1>1, <1>4, <1>5, LookupIs
  <1>12. nd'[d].type = "DIRECTORY" /\ nd'[d].children = c
    BY <1>2, <1>6, <1>11 DEF Grown
  <1>13. /\ nx \in Pointer /\ nx2 \in Pointer /\ Ahead(nx) /\ Ahead(nx2) /\ c \in Refs
         /\ Children(d) = List(nx, c) /\ Children(d)' = List(nx2, c)
         /\ \A x \in Nodes : nx[x] = nd[x].next /\ nx2[x] = nd'[x].next
         /\ \A x \in Refs : ListFrom[x] = List(nx, x) /\ ListFrom'[x] = List(nx2, x)
    BY <1>2, <1>6, <1>7, <1>8, <1>12 DEF BootShape
  <1>14. List(nx, c) \subseteq 0 .. used /\ List(nx, c) \subseteq Nodes
    BY <1>2, <1>13, BootChildren DEF BootShape
  <1>15. \A x \in List(nx, c) : nx[x] # NULL => nx2[x] = nx[x]
    BY <1>13, <1>14 DEF Grown
  <1>16. /\ List(nx, c) \subseteq List(nx2, c)
         /\ \A x \in List(nx, c) : \A y \in List(nx2, c) : y \in List(nx, c) \/ y \in List(nx2, x)
         /\ \A x \in List(nx, c) : List(nx, x) \subseteq List(nx2, x)
    BY <1>13, <1>15, ListGrows
  <1>17. /\ \A x : x \in H <=> x \in List(nx, c) /\ nd[x].name = name
         /\ \A x : x \in H2 <=> x \in List(nx2, c) /\ nd'[x].name = name
    BY <1>5, <1>9, <1>13 DEF Hits
  <1>18. \A x \in List(nx, c) : nd'[x].name = nd[x].name
    BY <1>14 DEF Grown
  <1>19. m \in H2 /\ m \in List(nx, c) /\ m \in Nodes /\ m \in Refs
    BY <1>11, <1>14, <1>16, <1>17, <1>18, NodeNumbers
  <1>20. H \subseteq List(nx, m)
    BY <1>11, <1>13, <1>19
  <1>21. ASSUME NEW y \in H2 PROVE y \in List(nx2, m)
    <2>1. y \in List(nx2, c)
      BY <1>17, <1>21
    <2>2. CASE y \in List(nx, c)
      <3>1. y \in H
        BY <1>17, <1>18, <1>21, <2>2
      <3>2. QED
        BY <1>16, <1>19, <1>20, <3>1
    <2>3. QED
      BY <1>16, <1>19, <2>1, <2>2
  <1>22. m2 \in H2 /\ H2 \subseteq ListFrom'[m2]
    <2>1. LookupFacts'
      BY LookupThen
    <2>2. Hits(d, name)' # {} /\ d = NodeFromSimlink'[dir]
      BY <1>3, <1>9, <1>19
    <2>3. /\ FsFind(dir, name)' \in Hits(d, name)'
          /\ Hits(d, name)' \subseteq ListFrom'[FsFind(dir, name)']
      BY <1>2, <1>12, <2>1, <2>2 DEF LookupFacts
    <2>4. QED
      BY <1>9, <1>10, <2>3
  <1>23. m2 \in Nodes /\ m2 \in Refs
    <2>1. List(nx2, c) \subseteq Nodes
      BY <1>13, ListHas
    <2>2. QED
      BY <1>17, <1>22, <2>1, NodeNumbers
  <1>24. m \in List(nx2, m2) /\ m2 \in List(nx2, m)
    BY <1>13, <1>19, <1>21, <1>22, <1>23
  <1>25. m2 <= m /\ m <= m2 /\ m \in Nat /\ m2 \in Nat
    BY <1>13, <1>19, <1>23, <1>24, ListAhead, NodeNumbers
  <1>26. QED
    BY <1>4, <1>10, <1>25

\* fs_get_node, name by name.
Walk(f, path) ==
  /\ FsGetNode(path) = f[Len(path)] /\ f[0] = ROOT
  /\ \A k \in 1 .. Len(path) :
       f[k] = IF f[k - 1] = NULL THEN NULL ELSE FsFind(f[k - 1], path[k])

\* There is such a walk for every path.
LEMMA WalkNow == \A path : Len(path) \in Nat => \E f : Walk(f, path)
  <1> SUFFICES ASSUME NEW path, Len(path) \in Nat PROVE \E f : Walk(f, path)
    OBVIOUS
  <1> DEFINE N == Len(path)
             W(x, k) == IF x = NULL THEN NULL ELSE FsFind(x, path[k])
             Eq(f) == f = [k \in 0 .. N |-> IF k = 0 THEN ROOT
                                            ELSE IF f[k - 1] = NULL THEN NULL
                                            ELSE FsFind(f[k - 1], path[k])]
  <1>2. \E f : Eq(f)
    <2> DEFINE P(k, f) == f = [j \in 0 .. k |-> f[j]] /\ f[0] = ROOT /\ \A j \in 1 .. k : f[j] = W(f[j - 1], j)
               Bad == {k \in 0 .. N : ~\E f : P(k, f)}
    <2> HIDE DEF W
    <2>1. Bad = {}
      <3> SUFFICES ASSUME Bad # {} PROVE FALSE
        OBVIOUS
      <3>1. PICK k \in Bad : \A j \in Bad : k <= j
        <4>1. Bad \in SUBSET Nat
          OBVIOUS
        <4>2. QED
          BY <4>1, Least
      <3>2. k # 0
        <4> DEFINE z == [j \in 0 .. 0 |-> ROOT]
        <4>1. 0 \in 0 .. 0 /\ 1 .. 0 = {}
          OBVIOUS
        <4>2. z = [j \in 0 .. 0 |-> z[j]] /\ z[0] = ROOT
          BY <4>1
        <4>3. P(0, z)
          <5> HIDE DEF z
          <5>1. QED
            BY <4>1, <4>2
        <4>4. QED
          BY <4>3
      <3>3. k - 1 \in 0 .. N /\ k \in 1 .. N /\ k - 1 < k
        BY <3>2
      <3>4. k - 1 \notin Bad
        <4> HIDE DEF Bad
        <4>1. k \in Nat /\ ~(k <= k - 1)
          BY <3>3
        <4>2. QED
          BY <3>1, <4>1
      <3>5. PICK f : P(k - 1, f)
        BY <3>3, <3>4
      <3> DEFINE h == [j \in 0 .. k |-> IF j = k THEN W(f[k - 1], k) ELSE f[j]]
      <3>7. P(k, h)
        <4>1. h = [j \in 0 .. k |-> h[j]]
          OBVIOUS
        <4>2. h[0] = ROOT
          BY <3>2, <3>3, <3>5
        <4>3. ASSUME NEW j \in 1 .. k PROVE h[j] = W(h[j - 1], j)
          <5>1. j - 1 \in 0 .. k /\ j \in 0 .. k /\ j - 1 # k
            BY <3>3, <4>3
          <5>2. h[j - 1] = f[j - 1]
            BY <5>1
          <5>3. CASE j = k
            BY <5>1, <5>2, <5>3
          <5>4. CASE j # k
            <6>1. j \in 1 .. k - 1
              BY <3>3, <5>4
            <6>2. f[j] = W(f[j - 1], j)
              BY <3>5, <6>1
            <6>3. QED
              BY <5>1, <5>2, <5>4, <6>2
          <5>5. QED
            BY <5>3, <5>4
        <4> HIDE DEF h
        <4>4. QED
          BY <4>1, <4>2, <4>3
      <3>8. QED
        BY <3>1, <3>7
    <2>2. PICK f : P(N, f)
      BY <2>1
    <2>3. f = [k \in 0 .. N |-> IF k = 0 THEN ROOT ELSE W(f[k - 1], k)]
      <3>1. f = [k \in 0 .. N |-> f[k]]
        BY <2>2
      <3>2. \A k \in 0 .. N : f[k] = IF k = 0 THEN ROOT ELSE W(f[k - 1], k)
        BY <2>2
      <3>3. QED
        BY <3>1, <3>2
    <2>4. QED
      BY <2>3 DEF W
  <1>3. PICK f : f = (CHOOSE h : Eq(h))
    OBVIOUS
  <1>4. Eq(f)
    BY <1>2, <1>3
  <1>5. FsGetNode(path) = f[N]
    BY <1>3 DEF FsGetNode
  <1>6. f[0] = ROOT /\ \A k \in 1 .. N : f[k] = W(f[k - 1], k)
    <2>1. f = [k \in 0 .. N |-> IF k = 0 THEN ROOT ELSE W(f[k - 1], k)]
      BY <1>4
    <2> HIDE DEF W
    <2>2. 0 \in 0 .. N /\ \A k \in 1 .. N : k \in 0 .. N /\ k # 0
      OBVIOUS
    <2>3. \A k \in 0 .. N : f[k] = IF k = 0 THEN ROOT ELSE W(f[k - 1], k)
      BY <2>1
    <2>4. QED
      BY <2>2, <2>3
  <1>7. QED
    BY <1>5, <1>6 DEF Walk

\* So there is after a step.
LEMMA WalkThen == \A path : Len(path) \in Nat => \E f : Walk(f, path)'
  <1>1. (\A path : Len(path) \in Nat => \E f : Walk(f, path))'
    BY WalkNow, PTL
  <1>2. QED
    BY <1>1

\* A path leads to an allocated node or nowhere.
LEMMA GetNodeUsed ==
  ASSUME BootShape, NEW path, Len(path) \in Nat
  PROVE  FsGetNode(path) \in 0 .. used \cup {NULL}
  <1> DEFINE N == Len(path)
             R == 0 .. used \cup {NULL}
  <1>1. PICK f : Walk(f, path)
    BY WalkNow
  <1>2. f[0] \in R
    BY <1>1 DEF Walk, BootShape, ROOT
  <1>3. ASSUME NEW k \in 1 .. N, f[k - 1] \in R PROVE f[k] \in R
    <2>1. f[k] = IF f[k - 1] = NULL THEN NULL ELSE FsFind(f[k - 1], path[k])
      BY <1>1 DEF Walk
    <2>2. CASE f[k - 1] # NULL
      <3>1. f[k - 1] \in 0 .. used
        BY <1>3, <2>2
      <3>2. FsFind(f[k - 1], path[k]) \in R
        BY <3>1, LookupIs
      <3>3. QED
        BY <2>1, <2>2, <3>2
    <2>3. QED
      BY <2>1, <2>2
  <1> HIDE DEF R
  <1> DEFINE Bad == {k \in 0 .. N : f[k] \notin R}
  <1>4. Bad = {}
    <2> SUFFICES ASSUME Bad # {} PROVE FALSE
      OBVIOUS
    <2>1. PICK k \in Bad : \A j \in Bad : k <= j
      <3>1. Bad \in SUBSET Nat
        OBVIOUS
      <3>2. QED
        BY <3>1, Least
    <2>2. k # 0
      BY <1>2
    <2>3. k - 1 \in 0 .. N /\ k \in 1 .. N /\ ~(k <= k - 1)
      BY <2>2
    <2>4. k - 1 \notin Bad
      <3> HIDE DEF Bad
      <3>1. QED
        BY <2>1, <2>3
    <2>5. QED
      BY <1>3, <2>3, <2>4
  <1>5. f[N] \in R
    BY <1>4
  <1>6. QED
    BY <1>1, <1>5 DEF Walk, R

\* A path that led to a node leads to the same one when nodes were added.
LEMMA GetNodeStays ==
  ASSUME BootShape, BootShape', Grown, NEW path, Len(path) \in Nat, FsGetNode(path) # NULL
  PROVE  FsGetNode(path)' = FsGetNode(path)
  <1> DEFINE N == Len(path)
             R == 0 .. used \cup {NULL}
  <1>1. PICK f : Walk(f, path)
    BY WalkNow
  <1>2. PICK h : Walk(h, path)'
    BY WalkThen
  <1>3. f[0] = ROOT /\ h[0] = ROOT /\ ROOT \in 0 .. used /\ f[N] # NULL
    BY <1>1, <1>2 DEF Walk, BootShape, ROOT
  <1>4. ASSUME NEW k \in 1 .. N, f[k - 1] \in R, f[k - 1] # NULL => h[k - 1] = f[k - 1]
        PROVE  f[k] \in R /\ (f[k] # NULL => h[k] = f[k])
    <2>1. f[k] = IF f[k - 1] = NULL THEN NULL ELSE FsFind(f[k - 1], path[k])
      BY <1>1 DEF Walk
    <2>2. h[k] = IF h[k - 1] = NULL THEN NULL ELSE FsFind(h[k - 1], path[k])'
      BY <1>2 DEF Walk
    <2>3. CASE f[k - 1] # NULL
      <3>1. PICK x : x = f[k - 1]
        OBVIOUS
      <3>2. PICK nm : nm = path[k]
        OBVIOUS
      <3>3. x \in 0 .. used /\ x # NULL /\ h[k - 1] = x
        BY <1>4, <2>3, <3>1
      <3>4. f[k] = FsFind(x, nm) /\ h[k] = FsFind(x, nm)'
        BY <2>1, <2>2, <3>1, <3>2, <3>3
      <3>5. FsFind(x, nm) # NULL => FsFind(x, nm)' = FsFind(x, nm)
        BY <3>3, FindStays
      <3>6. FsFind(x, nm) \in R
        BY <3>3, LookupIs
      <3>7. QED
        BY <3>4, <3>5, <3>6
    <2>4. CASE f[k - 1] = NULL
      BY <2>1, <2>4
    <2>5. QED
      BY <2>3, <2>4
  <1> HIDE DEF R
  <1> DEFINE Good(k) == f[k] \in R /\ (f[k] # NULL => h[k] = f[k])
             Bad == {k \in 0 .. N : ~Good(k)}
  <1>5. Good(0) /\ \A k \in 1 .. N : Good(k - 1) => Good(k)
    BY <1>3, <1>4 DEF R
  <1> HIDE DEF Good
  <1>6. Bad = {}
    <2> SUFFICES ASSUME Bad # {} PROVE FALSE
      OBVIOUS
    <2>1. PICK k \in Bad : \A j \in Bad : k <= j
      <3>1. Bad \in SUBSET Nat
        OBVIOUS
      <3>2. QED
        BY <3>1, Least
    <2>2. k # 0
      BY <1>5
    <2>3. k - 1 \in 0 .. N /\ k \in 1 .. N /\ ~(k <= k - 1)
      BY <2>2
    <2>4. k - 1 \notin Bad
      <3> HIDE DEF Bad
      <3>1. QED
        BY <2>1, <2>3
    <2>5. QED
      BY <1>5, <2>3, <2>4
  <1>7. Good(N)
    BY <1>6
  <1>8. h[N] = f[N]
    BY <1>3, <1>7 DEF Good
  <1>9. QED
    BY <1>1, <1>2, <1>8 DEF Walk

\* The directory of a PCI function that was found is found when nodes were added.
LEMMA FoundStays ==
  ASSUME BootShape, BootShape', Grown, NEW name, Found(name)
  PROVE  Found(name)'
  <1>1. PICK p : p = FsGetNode(PCI)
    OBVIOUS
  <1>2. Len(PCI) \in Nat
    BY DEF PCI
  <1>3. p # NULL /\ p \in 0 .. used /\ FsFind(p, name) # NULL
    BY <1>1, <1>2, GetNodeUsed DEF Found
  <1>4. FsGetNode(PCI)' = p
    BY <1>1, <1>2, <1>3, GetNodeStays
  <1>5. FsFind(p, name)' # NULL
    BY <1>3, FindStays
  <1>6. QED
    BY <1>3, <1>4, <1>5 DEF Found

\* A step that sets the next pointer of one node to b and stores nodes K keeps the shape
\* of the nodes, if the stored nodes have it.
LEMMA StepGraph ==
  ASSUME BootGraph, LinksAreFirst, NEW a \in 0 .. used, NEW b, NEW K, K \subseteq used + 1 .. used',
         used' \in used .. heap, heap' = heap,
         nd' = [x \in Nodes |-> nd'[x]],
         nd'[a].type = nd[a].type, nd'[a].name = nd[a].name, nd'[a].next = b,
         nd'[a].children = nd[a].children, nd'[a].node_ptr = nd[a].node_ptr,
         nd'[a] = AsNode(nd'[a]),
         \A x \in Nodes : x # a /\ x \notin K => nd'[x] = nd[x],
         b = NULL \/ b \in a + 1 .. used',
         nd[a].next = NULL \/ nd[a].type # "SYMLINK" \/ b = nd[a].next,
         \A x \in K :
           /\ nd'[x] = AsNode(nd'[x])
           /\ nd'[x].next = NULL \/ nd'[x].next \in x + 1 .. used'
           /\ nd'[x].children = NULL \/ (nd'[x].children \in x + 1 .. used' /\ nd'[x].type = "DIRECTORY")
           /\ nd'[x].type = "SYMLINK" =>
                /\ nd'[x].name \in {".", ".."}
                /\ nd'[x].node_ptr \in 0 .. used' /\ nd'[nd'[x].node_ptr].type = "DIRECTORY"
           /\ nd'[x].type = "DIRECTORY" =>
                /\ x + 2 \in 2 .. used'
                /\ nd'[x].children = x + 1 /\ nd'[x + 1].next = x + 2
                /\ nd'[x + 1].type = "SYMLINK" /\ nd'[x + 2].type = "SYMLINK"
  PROVE  BootGraph' /\ LinksAreFirst'
  <1>0. BootShape
    BY BootShapeNow
  <1>1. /\ used \in Nat /\ heap \in Nat /\ used' \in Nat /\ used <= used' /\ used' <= heap
        /\ heap <= HEAP_NODES /\ a \in Nodes /\ a \notin K /\ K \subseteq Nodes
        /\ 0 .. used \subseteq Nodes /\ 0 .. used' \subseteq Nodes /\ HEAP_NODES \in Nat
    BY <1>0, NodeNumbers DEF BootShape, Nodes
  <1>2. \A x \in 0 .. used : x \notin K
    BY <1>1
  <1>3. \A x \in Nodes : x \notin K => /\ nd'[x].type = nd[x].type /\ nd'[x].name = nd[x].name
                                       /\ nd'[x].children = nd[x].children
                                       /\ nd'[x].node_ptr = nd[x].node_ptr
                                       /\ nd'[x].next = IF x = a THEN b ELSE nd[x].next
    OBVIOUS
  <1>4. NodesAreRecords'
    <2>1. \A x \in Nodes : nd[x] = AsNode(nd[x])
      BY DEF BootGraph, NodesAreRecords
    <2>2. \A x \in Nodes : nd'[x] = AsNode(nd'[x])
      BY <2>1
    <2>3. nd' = [x \in Nodes |-> AsNode(nd'[x])]
      BY <2>2
    <2>4. QED
      BY <1>1, <2>3 DEF NodesAreRecords
  <1>5. PointersAhead'
    <2>1. ASSUME NEW x \in Nodes, NEW m \in x + 1 .. used PROVE m \in x + 1 .. used'
      BY <1>1, NodeNumbers
    <2>2. ASSUME NEW x \in Nodes
          PROVE  /\ nd'[x].next = NULL \/ nd'[x].next \in x + 1 .. used'
                 /\ nd'[x].children = NULL \/ (nd'[x].children \in x + 1 .. used' /\ nd'[x].type = "DIRECTORY")
      <3>1. CASE x \in K
        BY <3>1
      <3>2. CASE x \notin K
        BY <1>3, <2>1, <3>2 DEF BootGraph, PointersAhead
      <3>3. QED
        BY <3>1, <3>2
    <2>3. QED
      BY <2>2 DEF PointersAhead
  <1>6. LinksToDirectories'
    <2>1. ASSUME NEW x \in Nodes, nd'[x].type = "SYMLINK"
          PROVE  /\ nd'[x].name \in {".", ".."}
                 /\ nd'[x].node_ptr \in 0 .. used' /\ nd'[nd'[x].node_ptr].type = "DIRECTORY"
      <3>1. CASE x \in K
        BY <2>1, <3>1
      <3>2. CASE x \notin K
        <4>1. /\ nd[x].name \in {".", ".."}
              /\ nd[x].node_ptr \in 0 .. used /\ nd[nd[x].node_ptr].type = "DIRECTORY"
          BY <1>3, <2>1, <3>2 DEF BootGraph, LinksToDirectories
        <4>2. nd[x].node_ptr \in Nodes /\ nd[x].node_ptr \notin K /\ nd[x].node_ptr \in 0 .. used'
          BY <1>1, <1>2, <4>1
        <4>3. nd'[nd[x].node_ptr].type = "DIRECTORY"
          BY <1>3, <4>1, <4>2
        <4>4. QED
          BY <1>3, <3>2, <4>1, <4>2, <4>3
      <3>3. QED
        BY <3>1, <3>2
    <2>2. QED
      BY <2>1 DEF LinksToDirectories
  <1>7. LinksAreFirst'
    <2>1. ASSUME NEW x \in Nodes, nd'[x].type = "DIRECTORY"
          PROVE  /\ x + 2 \in 2 .. used'
                 /\ nd'[x].children = x + 1 /\ nd'[x + 1].next = x + 2
                 /\ nd'[x + 1].type = "SYMLINK" /\ nd'[x + 2].type = "SYMLINK"
      <3>1. CASE x \in K
        BY <2>1, <3>1
      <3>2. CASE x \notin K
        <4>1. /\ x + 2 \in 2 .. used
              /\ nd[x].children = x + 1 /\ nd[x + 1].next = x + 2
              /\ nd[x + 1].type = "SYMLINK" /\ nd[x + 2].type = "SYMLINK"
          BY <1>3, <2>1, <3>2 DEF LinksAreFirst
        <4>2. PICK p, q : p = x + 1 /\ q = x + 2
          OBVIOUS
        <4>3. p \in 0 .. used /\ q \in 0 .. used /\ q # NULL /\ q \in 2 .. used'
          BY <1>1, <4>1, <4>2, NodeNumbers
        <4>4. p \in Nodes /\ q \in Nodes /\ p \notin K /\ q \notin K
          BY <1>1, <1>2, <4>3
        <4>5. nd[p].next = q /\ nd[p].type = "SYMLINK" /\ nd[q].type = "SYMLINK" /\ nd[x].children = p
          BY <4>1, <4>2
        <4>6. nd'[p].next = q
          BY <1>3, <4>3, <4>4, <4>5
        <4>7. nd'[p].type = "SYMLINK" /\ nd'[q].type = "SYMLINK" /\ nd'[x].children = p
          BY <1>3, <3>2, <4>4, <4>5
        <4>8. QED
          BY <4>2, <4>3, <4>6, <4>7
      <3>3. QED
        BY <3>1, <3>2
    <2>2. QED
      BY <2>1 DEF LinksAreFirst
  <1>8. QED
    BY <1>4, <1>5, <1>6, <1>7 DEF BootGraph

\* A node with its next pointer set.
LEMMA SetNext ==
  ASSUME NodesAreRecords, NEW a \in Nodes, NEW b
  PROVE  LET g == [nd EXCEPT ![a].next = b]
         IN  /\ \A x \in Nodes : x # a => g[x] = nd[x]
             /\ g[a].type = nd[a].type /\ g[a].name = nd[a].name /\ g[a].next = b
             /\ g[a].children = nd[a].children /\ g[a].node_ptr = nd[a].node_ptr
             /\ g[a] = AsNode(g[a])
  <1> DEFINE g == [nd EXCEPT ![a].next = b]
  <1>1. nd = [x \in Nodes |-> AsNode(nd[x])]
    BY DEF NodesAreRecords
  <1>2. nd[a] = AsNode(nd[a])
    BY <1>1
  <1>3. DOMAIN nd = Nodes
    BY <1>1
  <1>4. g[a] = [nd[a] EXCEPT !.next = b] /\ \A x \in Nodes : x # a => g[x] = nd[x]
    BY <1>3
  <1> HIDE DEF g
  <1>5. PICK r : r = nd[a]
    OBVIOUS
  <1>6. r = AsNode(r) /\ g[a] = [r EXCEPT !.next = b]
    BY <1>2, <1>4, <1>5
  <1>7. [r EXCEPT !.next = b] = [type |-> r.type, name |-> r.name, next |-> b,
                                 children |-> r.children, node_ptr |-> r.node_ptr]
    BY <1>6 DEF AsNode
  <1>8. g[a] = [type |-> r.type, name |-> r.name, next |-> b, children |-> r.children, node_ptr |-> r.node_ptr]
    BY <1>6, <1>7
  <1>9. /\ g[a].type = r.type /\ g[a].name = r.name /\ g[a].next = b
        /\ g[a].children = r.children /\ g[a].node_ptr = r.node_ptr
    BY <1>8
  <1>10. g[a] = AsNode(g[a])
    BY <1>8, <1>9 DEF AsNode
  <1>11. QED
    BY <1>4, <1>5, <1>9, <1>10 DEF g

\* The nodes that are made are records of five fields.
LEMMA MadeRecords ==
  /\ \A n, c : Directory(n, c) = AsNode(Directory(n, c))
  /\ \A n, t, x : Simlink(n, t, x) = AsNode(Simlink(n, t, x))
  /\ \A n : Regular(n) = AsNode(Regular(n))
  /\ Unused = AsNode(Unused)
  <1>1. \A n, c : Directory(n, c) = AsNode(Directory(n, c))
    BY DEF Directory, AsNode
  <1>2. \A n, t, x : Simlink(n, t, x) = AsNode(Simlink(n, t, x))
    BY DEF Simlink, AsNode
  <1>3. \A n : Regular(n) = AsNode(Regular(n))
    BY DEF Regular, AsNode
  <1>4. Unused = AsNode(Unused)
    BY DEF Unused, AsNode
  <1>5. QED
    BY <1>1, <1>2, <1>3, <1>4

\* A step that stores no node.
LEMMA SameNodes ==
  ASSUME BootGraph, LinksAreFirst, nd' = nd, used' \in used .. heap, heap' = heap
  PROVE  BootGraph' /\ LinksAreFirst' /\ Grown
  <1>0. /\ used \in Nat /\ heap \in Nat /\ heap <= HEAP_NODES /\ HEAP_NODES \in Nat /\ used' \in Nat
        /\ used <= used' /\ used' <= heap
    BY BootShapeNow, NodeNumbers DEF BootShape
  <1>1. ASSUME NEW x \in Nodes, NEW m \in x + 1 .. used PROVE m \in x + 1 .. used'
    BY <1>0, NodeNumbers
  <1>2. NodesAreRecords'
    BY <1>0 DEF BootGraph, NodesAreRecords
  <1>3. PointersAhead'
    BY <1>1 DEF BootGraph, PointersAhead
  <1>4. \A m \in 0 .. used : m \in 0 .. used'
    BY <1>0
  <1>5. LinksToDirectories'
    BY <1>4 DEF BootGraph, LinksToDirectories
  <1>6. \A m \in 2 .. used : m \in 2 .. used'
    BY <1>0
  <1>7. LinksAreFirst'
    BY <1>6 DEF LinksAreFirst
  <1>8. Grown
    BY <1>0 DEF Grown
  <1>9. QED
    BY <1>2, <1>3, <1>5, <1>7, <1>8 DEF BootGraph

\* The last child, which a new one is hung after.
LEMMA BootLast ==
  ASSUME BootShape, NEW parent \in 0 .. used, nd[parent].children # NULL
  PROVE  /\ LastChild(parent) \in 0 .. used /\ LastChild(parent) \in Children(parent)
         /\ nd[LastChild(parent)].next = NULL /\ nd[parent].type = "DIRECTORY"
  <1> DEFINE nx == NextOf(nd)
             c == nd[parent].children
  <1>1. parent \in Nodes /\ nx \in Pointer /\ Ahead(nx) /\ c \in Refs /\ Children(parent) = List(nx, c)
    BY DEF BootShape
  <1>2. c \in Nodes
    BY <1>1, NodeNumbers
  <1> HIDE DEF nx, c
  <1>3. \E m \in List(nx, c) : nx[m] = NULL
    BY <1>1, <1>2, ListEnds
  <1>4. Children(parent) \subseteq 0 .. used
    BY <1>1, BootChildren
  <1>5. \E m \in Children(parent) : nd[m].next = NULL
    <2>1. \A m \in Children(parent) : nx[m] = nd[m].next
      BY <1>4 DEF BootShape, nx
    <2>2. QED
      BY <1>1, <1>3, <2>1
  <1>6. LastChild(parent) \in Children(parent) /\ nd[LastChild(parent)].next = NULL
    BY <1>5 DEF LastChild
  <1>7. nd[parent].type = "DIRECTORY"
    BY <1>1 DEF BootShape
  <1>8. QED
    BY <1>4, <1>6, <1>7

\* A child is found by its name, as a fact of the state.
ChildFacts ==
  \A d \in 0 .. used : nd[d].type = "DIRECTORY" =>
     \A m \in Children(d) : \A name : nd[m].name = name => FsFind(d, name) # NULL

\* The shape of the nodes gives it.
LEMMA ChildNow == BootShape => ChildFacts
  BY ChildIsFound DEF ChildFacts

\* So it is after a step.
LEMMA ChildThen == BootShape' => ChildFacts'
  BY ChildNow, PTL

\* g is the nodes with the next pointer of a set to b.
Relinked(g, a, b) ==
  /\ \A x \in Nodes : x # a => g[x] = nd[x]
  /\ g[a].type = nd[a].type /\ g[a].name = nd[a].name /\ g[a].next = b
  /\ g[a].children = nd[a].children /\ g[a].node_ptr = nd[a].node_ptr
  /\ g[a] = AsNode(g[a])

\* So they are with the pointer assigned.
LEMMA RelinkedBy ==
  ASSUME NodesAreRecords, NEW a \in Nodes, NEW b, NEW g, g = [nd EXCEPT ![a].next = b]
  PROVE  Relinked(g, a, b)
  BY SetNext DEF Relinked

\* Where a pointer may be set: it leads ahead, and is not that of a first link.
MayLink(a, b) ==
  /\ b = NULL \/ b \in a + 1 .. used'
  /\ nd[a].next = NULL \/ nd[a].type # "SYMLINK" \/ b = nd[a].next

\* The nodes of a step have the names they had, but for one of the name and type given
\* and links.
OnlyNamed(name, type) ==
  \A x \in Nodes : \/ nd'[x].name = nd[x].name /\ nd'[x].type = nd[x].type
                   \/ nd'[x].name \in {".", ".."}
                   \/ nd'[x].name = name /\ nd'[x].type = type

\* A step that sets a pointer only.
LEMMA StoreNone ==
  ASSUME BootGraph, LinksAreFirst, NEW a \in 0 .. used, NEW b, MayLink(a, b),
         Relinked(nd', a, b), nd' = [x \in Nodes |-> nd'[x]], used' \in used .. heap, heap' = heap
  PROVE  BootGraph' /\ LinksAreFirst'
  <1> DEFINE K == {}
  <1>1. K \subseteq used + 1 .. used' /\ \A x \in Nodes : x # a /\ x \notin K => nd'[x] = nd[x]
    BY DEF Relinked
  <1>2. \A x \in K : FALSE
    OBVIOUS
  <1>3. b = NULL \/ b \in a + 1 .. used'
    BY DEF MayLink
  <1>4. nd[a].next = NULL \/ nd[a].type # "SYMLINK" \/ b = nd[a].next
    BY DEF MayLink
  <1> HIDE DEF K
  <1>5. QED
    BY <1>1, <1>2, <1>3, <1>4, StepGraph DEF Relinked

\* A step that stores a file.
LEMMA StoreFile ==
  ASSUME BootGraph, LinksAreFirst, NEW a \in 0 .. used, NEW b, MayLink(a, b),
         NEW g, Relinked(g, a, b), NEW name, NEW new, new = used + 1,
         nd' = Stored(g, new, NewFile(name)), used' \in new .. heap, heap' = heap
  PROVE  /\ BootGraph' /\ LinksAreFirst' /\ (nd[a].next = NULL => Grown)
         /\ nd'[a].next = b /\ nd'[new].type = "REGULAR" /\ nd'[new].name = name
         /\ OnlyNamed(name, "REGULAR")
         /\ \A x \in 0 .. used : nd'[x].type = nd[x].type
  <1>0. /\ used \in Nat /\ heap \in Nat /\ heap <= HEAP_NODES /\ 0 .. used \subseteq Nodes
        /\ HEAP_NODES \in Nat /\ used' \in Nat /\ used' \in used .. heap
    BY BootShapeNow, NodeNumbers DEF BootShape
  <1>1. new \in Nat /\ new \in Nodes /\ a \in Nodes /\ a # new /\ new \notin 0 .. used
    BY <1>0, NodeNumbers DEF Nodes
  <1>2. Len(NewFile(name)) = 1 /\ NewFile(name)[1] = Regular(name)
    BY DEF NewFile
  <1>3. \A m \in Nodes : nd'[m] = IF m = new THEN Regular(name) ELSE g[m]
    BY <1>1, <1>2, StoredOne
  <1>4. nd' = [x \in Nodes |-> nd'[x]]
    BY StoredIs
  <1> DEFINE K == {new}
  <1>5. K \subseteq used + 1 .. used' /\ \A x \in Nodes : x # a /\ x \notin K => nd'[x] = nd[x]
    BY <1>0, <1>1, <1>3 DEF Relinked
  <1>6. nd'[a] = g[a]
    BY <1>1, <1>3
  <1>7. nd'[new] = Regular(name)
    BY <1>1, <1>3
  <1>8. /\ nd'[new] = AsNode(nd'[new]) /\ nd'[new].next = NULL /\ nd'[new].children = NULL
        /\ nd'[new].type = "REGULAR" /\ nd'[new].name = name
    BY <1>7, MadeRecords, MadeNodes
  <1>9. b = NULL \/ b \in a + 1 .. used'
    BY DEF MayLink
  <1>10. nd[a].next = NULL \/ nd[a].type # "SYMLINK" \/ b = nd[a].next
    BY DEF MayLink
  <1>11. \A x \in K : x = new
    OBVIOUS
  <1> HIDE DEF K
  <1>12. BootGraph' /\ LinksAreFirst'
    BY <1>0, <1>4, <1>5, <1>6, <1>8, <1>9, <1>10, <1>11, StepGraph DEF Relinked
  <1>13. nd[a].next = NULL => Grown
    <2>1. \A x \in 0 .. used : x \in Nodes /\ x # new
      BY <1>0, <1>1
    <2>2. used <= used'
      BY <1>0
    <2>3. QED
      BY <1>3, <2>1, <2>2 DEF Grown, Relinked
  <1>14. OnlyNamed(name, "REGULAR")
    BY <1>3, <1>8 DEF OnlyNamed, Relinked
  <1>15. \A x \in 0 .. used : nd'[x].type = nd[x].type
    BY <1>0, <1>1, <1>3 DEF Relinked
  <1>16. QED
    BY <1>6, <1>8, <1>12, <1>13, <1>14, <1>15 DEF Relinked

\* A step that stores a directory and its links.
LEMMA StoreDirectory ==
  ASSUME BootGraph, LinksAreFirst, NEW a \in 0 .. used, NEW b, MayLink(a, b),
         NEW g, Relinked(g, a, b), NEW name, NEW new, new = used + 1,
         NEW parent \in 0 .. used, nd[parent].type = "DIRECTORY",
         nd' = Stored(g, new, NewDirectory(name, parent, new)), used' \in used + 3 .. heap, heap' = heap
  PROVE  /\ BootGraph' /\ LinksAreFirst' /\ (nd[a].next = NULL => Grown)
         /\ nd'[a].next = b /\ nd'[new].type = "DIRECTORY" /\ nd'[new].name = name
         /\ OnlyNamed(name, "DIRECTORY")
         /\ \A x \in 0 .. used : nd'[x].type = nd[x].type
  <1>0. /\ used \in Nat /\ heap \in Nat /\ heap <= HEAP_NODES /\ 0 .. used \subseteq Nodes
        /\ HEAP_NODES \in Nat /\ used' \in Nat /\ used' \in used .. heap
    BY BootShapeNow, NodeNumbers DEF BootShape
  <1>1. PICK p, q : p = new + 1 /\ q = new + 2
    OBVIOUS
  <1>2. /\ new \in Nat /\ new \in Nodes /\ p \in Nodes /\ q \in Nodes /\ a \in Nodes
        /\ a \notin {new, p, q} /\ new # p /\ new # q /\ p # q
        /\ \A x \in 0 .. used : x \in Nodes /\ x \notin {new, p, q}
    BY <1>0, <1>1, NodeNumbers DEF Nodes
  <1>3. /\ p \in new + 1 .. used' /\ q \in p + 1 .. used' /\ p # NULL /\ q # NULL
        /\ new \in used + 1 .. used' /\ p \in used + 1 .. used' /\ q \in used + 1 .. used'
        /\ new \in 0 .. used' /\ parent \in 0 .. used' /\ q \in 2 .. used' /\ used <= used'
    BY <1>0, <1>1, <1>2, NodeNumbers
  <1>4. PICK s : s = NewDirectory(name, parent, new)
    OBVIOUS
  <1>5. /\ Len(s) = 3 /\ s[1] = Directory(name, p) /\ s[2] = Simlink(".", new, q)
        /\ s[3] = Simlink("..", parent, NULL)
    BY <1>1, <1>4 DEF NewDirectory
  <1>6. \A m \in Nodes : /\ m = new => nd'[m] = s[1]
                         /\ m = p => nd'[m] = s[2]
                         /\ m = q => nd'[m] = s[3]
                         /\ m \notin {new, p, q} => nd'[m] = g[m]
    BY <1>1, <1>2, <1>4, <1>5, StoredThree
  <1>7. nd' = [x \in Nodes |-> nd'[x]]
    BY StoredIs
  <1>8. nd'[new] = Directory(name, p) /\ nd'[p] = Simlink(".", new, q) /\ nd'[q] = Simlink("..", parent, NULL)
    BY <1>2, <1>5, <1>6
  <1>9. /\ nd'[new] = AsNode(nd'[new]) /\ nd'[p] = AsNode(nd'[p]) /\ nd'[q] = AsNode(nd'[q])
        /\ nd'[new].type = "DIRECTORY" /\ nd'[new].name = name /\ nd'[new].next = NULL
        /\ nd'[new].children = p
        /\ nd'[p].type = "SYMLINK" /\ nd'[p].name = "." /\ nd'[p].next = q /\ nd'[p].children = NULL
        /\ nd'[p].node_ptr = new
        /\ nd'[q].type = "SYMLINK" /\ nd'[q].name = ".." /\ nd'[q].next = NULL
        /\ nd'[q].children = NULL /\ nd'[q].node_ptr = parent
    BY <1>8, MadeRecords, MadeNodes
  <1> DEFINE K == {new, p, q}
  <1>10. K \subseteq used + 1 .. used' /\ \A x \in Nodes : x # a /\ x \notin K => nd'[x] = nd[x]
    BY <1>3, <1>6 DEF Relinked
  <1>11. nd'[a] = g[a]
    BY <1>2, <1>6
  <1>12. \A x \in 0 .. used : nd'[x].type = nd[x].type
    BY <1>2, <1>6 DEF Relinked
  <1>13. ASSUME NEW x \in K
         PROVE  /\ nd'[x] = AsNode(nd'[x])
                /\ nd'[x].next = NULL \/ nd'[x].next \in x + 1 .. used'
                /\ nd'[x].children = NULL \/ (nd'[x].children \in x + 1 .. used' /\ nd'[x].type = "DIRECTORY")
                /\ nd'[x].type = "SYMLINK" =>
                     /\ nd'[x].name \in {".", ".."}
                     /\ nd'[x].node_ptr \in 0 .. used' /\ nd'[nd'[x].node_ptr].type = "DIRECTORY"
                /\ nd'[x].type = "DIRECTORY" =>
                     /\ x + 2 \in 2 .. used'
                     /\ nd'[x].children = x + 1 /\ nd'[x + 1].next = x + 2
                     /\ nd'[x + 1].type = "SYMLINK" /\ nd'[x + 2].type = "SYMLINK"
    <2>1. CASE x = new
      BY <1>1, <1>3, <1>9, <2>1
    <2>2. CASE x = p
      BY <1>3, <1>9, <2>2
    <2>3. CASE x = q
      BY <1>3, <1>9, <1>12, <2>3
    <2>4. QED
      BY <1>13, <2>1, <2>2, <2>3
  <1>14. b = NULL \/ b \in a + 1 .. used'
    BY DEF MayLink
  <1>15. nd[a].next = NULL \/ nd[a].type # "SYMLINK" \/ b = nd[a].next
    BY DEF MayLink
  <1>16. OnlyNamed(name, "DIRECTORY")
    <2>1. ASSUME NEW x \in Nodes
          PROVE  \/ nd'[x].name = nd[x].name /\ nd'[x].type = nd[x].type
                 \/ nd'[x].name \in {".", ".."}
                 \/ nd'[x].name = name /\ nd'[x].type = "DIRECTORY"
      <3>1. CASE x \in K
        BY <1>9, <3>1
      <3>2. CASE x \notin K
        BY <1>6, <3>2 DEF Relinked
      <3>3. QED
        BY <3>1, <3>2
    <2>2. QED
      BY <2>1 DEF OnlyNamed
  <1> HIDE DEF K
  <1>17. BootGraph' /\ LinksAreFirst'
    BY <1>0, <1>7, <1>10, <1>11, <1>13, <1>14, <1>15, StepGraph DEF Relinked
  <1>18. nd[a].next = NULL => Grown
    BY <1>2, <1>3, <1>6 DEF Grown, Relinked
  <1>19. QED
    BY <1>9, <1>11, <1>12, <1>16, <1>17, <1>18 DEF Relinked

-----------------------------------------------------------------------------
(* The calls of ramfs.c as the boot makes them. *)

\* A file hung last into a directory.
LEMMA BootHangFile ==
  ASSUME BootGraph, LinksAreFirst, NEW parent \in 0 .. used, NEW name,
         HangLast(parent, used + 1, NewFile(name)), used' \in used + 1 .. heap, heap' = heap
  PROVE  BootGraph' /\ LinksAreFirst' /\ Grown /\ (fault => fault') /\ OnlyNamed(name, "REGULAR")
  <1>0. BootShape /\ NodesAreRecords /\ used \in Nat /\ heap \in Nat /\ 0 .. used \subseteq Nodes
    BY BootShapeNow DEF BootShape, BootGraph
  <1>1. CASE nd[parent].children = NULL
    <2>1. nd' = nd /\ fault'
      BY <1>1 DEF HangLast
    <2>2. used' \in used .. heap
      BY <1>0
    <2>3. OnlyNamed(name, "REGULAR")
      BY <2>1 DEF OnlyNamed
    <2>4. QED
      BY <2>1, <2>2, <2>3, SameNodes
  <1>2. CASE nd[parent].children # NULL
    <2>1. PICK a, b, g : a = LastChild(parent) /\ b = used + 1 /\ g = [nd EXCEPT ![a].next = b]
      OBVIOUS
    <2>2. nd' = Stored(g, b, NewFile(name)) /\ fault' = fault
      BY <1>2, <2>1 DEF HangLast
    <2>3. a \in 0 .. used /\ nd[a].next = NULL
      BY <1>0, <1>2, <2>1, BootLast
    <2>4. Relinked(g, a, b)
      BY <1>0, <2>1, <2>3, SetNext DEF Relinked
    <2>5. b \in a + 1 .. used' /\ used' \in b .. heap
      BY <1>0, <2>1, <2>3
    <2>6. MayLink(a, b)
      BY <2>3, <2>5 DEF MayLink
    <2>7. QED
      BY <2>1, <2>2, <2>3, <2>4, <2>5, <2>6, StoreFile
  <1>3. QED
    BY <1>1, <1>2

\* A directory hung last into another is found there, unless that one had lost its links.
LEMMA BootHangDirectory ==
  ASSUME BootGraph, LinksAreFirst, NEW parent \in 0 .. used, NEW name,
         HangLast(parent, used + 1, NewDirectory(name, parent, used + 1)),
         used' \in used + 3 .. heap, heap' = heap
  PROVE  /\ BootGraph' /\ LinksAreFirst' /\ Grown /\ (fault => fault') /\ OnlyNamed(name, "DIRECTORY")
         /\ fault' \/ FsFind(parent, name)' # NULL
  <1>0. BootShape /\ NodesAreRecords /\ used \in Nat /\ heap \in Nat /\ 0 .. used \subseteq Nodes
    BY BootShapeNow DEF BootShape, BootGraph
  <1>1. CASE nd[parent].children = NULL
    <2>1. nd' = nd /\ fault'
      BY <1>1 DEF HangLast
    <2>2. used' \in used .. heap
      BY <1>0
    <2>3. OnlyNamed(name, "DIRECTORY")
      BY <2>1 DEF OnlyNamed
    <2>4. QED
      BY <2>1, <2>2, <2>3, SameNodes
  <1>2. CASE nd[parent].children # NULL
    <2>1. PICK a, b, g : a = LastChild(parent) /\ b = used + 1 /\ g = [nd EXCEPT ![a].next = b]
      OBVIOUS
    <2>2. nd' = Stored(g, b, NewDirectory(name, parent, b)) /\ fault' = fault
      BY <1>2, <2>1 DEF HangLast
    <2>3. a \in 0 .. used /\ nd[a].next = NULL /\ a \in Children(parent) /\ nd[parent].type = "DIRECTORY"
      BY <1>0, <1>2, <2>1, BootLast
    <2>4. Relinked(g, a, b)
      BY <1>0, <2>1, <2>3, SetNext DEF Relinked
    <2>5. b \in a + 1 .. used' /\ b \in Nat /\ used' \in Nat /\ used <= used' /\ b \in 0 .. used'
      BY <1>0, <2>1, <2>3
    <2>6. MayLink(a, b)
      BY <2>3, <2>5 DEF MayLink
    <2>7. /\ BootGraph' /\ LinksAreFirst' /\ Grown /\ nd'[a].next = b /\ nd'[b].name = name
          /\ OnlyNamed(name, "DIRECTORY") /\ nd'[parent].type = "DIRECTORY"
      <3>1. b = used + 1 /\ nd' = Stored(g, b, NewDirectory(name, parent, b))
        BY <2>1, <2>2
      <3>2. /\ BootGraph' /\ LinksAreFirst' /\ (nd[a].next = NULL => Grown)
            /\ nd'[a].next = b /\ nd'[b].type = "DIRECTORY" /\ nd'[b].name = name
            /\ OnlyNamed(name, "DIRECTORY")
            /\ \A x \in 0 .. used : nd'[x].type = nd[x].type
        BY <2>3, <2>4, <2>6, <3>1, StoreDirectory
      <3>3. QED
        BY <2>3, <3>2
    <2>8. BootShape' /\ ChildFacts'
      BY <2>7, BootShapeThen, ChildThen
    <2>9. b \in Children(parent)'
      <3>1. PICK nx, nx2, c : nx = NextOf(nd) /\ nx2 = NextOf(nd') /\ c = nd[parent].children
        OBVIOUS
      <3>2. c = nd'[parent].children /\ parent \in Nodes /\ a \in Nodes /\ b \in Nodes
        <4>1. 0 .. used' \subseteq Nodes
          BY <2>8 DEF BootShape
        <4>2. QED
          BY <1>0, <2>3, <2>5, <2>7, <3>1, <4>1 DEF Grown
      <3>3. /\ nx \in Pointer /\ nx2 \in Pointer /\ c \in Refs
            /\ Children(parent) = List(nx, c) /\ Children(parent)' = List(nx2, c)
            /\ \A x \in Nodes : nx[x] = nd[x].next /\ nx2[x] = nd'[x].next
        BY <1>0, <2>8, <3>1, <3>2 DEF BootShape
      <3>4. List(nx, c) \subseteq 0 .. used
        BY <1>0, <3>2, <3>3, BootChildren
      <3>5. \A x \in List(nx, c) : nx[x] # NULL => nx2[x] = nx[x]
        BY <1>0, <2>7, <3>3, <3>4 DEF Grown
      <3>6. a \in List(nx2, c)
        BY <2>3, <3>3, <3>5, ListGrows
      <3>7. nx2[a] = b /\ b # NULL
        BY <2>7, <3>2, <3>3, NodeNumbers
      <3>8. b \in List(nx2, c)
        BY <3>3, <3>6, <3>7, ListHas
      <3>9. QED
        BY <3>3, <3>8
    <2>10. parent \in 0 .. used'
      BY <1>0, <2>5
    <2>11. FsFind(parent, name)' # NULL
      BY <2>7, <2>8, <2>9, <2>10 DEF ChildFacts
    <2>12. QED
      BY <2>2, <2>7, <2>11
  <1>3. QED
    BY <1>1, <1>2

\* What every call leaves as it should be.
Kept(name, type) == BootGraph' /\ LinksAreFirst' /\ Grown /\ (fault => fault') /\ OnlyNamed(name, type)

\* A call that stores no node.
LEMMA KeptSame ==
  ASSUME BootGraph, LinksAreFirst, nd' = nd, used' \in used .. heap, heap' = heap, fault => fault',
         NEW name, NEW type
  PROVE  Kept(name, type)
  BY SameNodes DEF Kept, OnlyNamed

\* ramfs_mkDir keeps the graph; a directory it made was not there and is found after.
LEMMA MkDirKeeps ==
  ASSUME BootGraph, LinksAreFirst, heap' = heap, NEW path, Len(path) \in Nat, NEW name,
         NEW ok \in BOOLEAN, MkDirCall(path, name, ok)
  PROVE  /\ Kept(name, "DIRECTORY")
         /\ ok => /\ FsGetNode(path) # NULL /\ FsFind(FsGetNode(path), name) = NULL
                  /\ ~fault' => FsGetNode(path)' # NULL /\ FsFind(FsGetNode(path), name)' # NULL
  <1>0. BootShape /\ used \in Nat /\ heap \in Nat /\ used <= heap
    BY BootShapeNow DEF BootShape
  <1>1. PICK parent : parent = FsGetNode(path)
    OBVIOUS
  <1>2. parent \in 0 .. used \cup {NULL}
    BY <1>0, <1>1, GetNodeUsed
  <1>3. CASE UNCHANGED nodeVars /\ ~ok
    <2>1. nd' = nd /\ used' \in used .. heap /\ fault' = fault
      BY <1>0, <1>3 DEF nodeVars
    <2>2. QED
      BY <1>3, <2>1, KeptSame
  <1>4. CASE used' = heap /\ UNCHANGED <<nd, fault>> /\ ~ok
    <2>1. nd' = nd /\ used' \in used .. heap /\ fault' = fault
      BY <1>0, <1>4
    <2>2. QED
      BY <1>4, <2>1, KeptSame
  <1>5. CASE /\ MayCreate(parent, name) /\ Gets(3) /\ ok
             /\ HangLast(parent, used + 1, NewDirectory(name, parent, used + 1))
    <2>1. parent \in 0 .. used /\ FsFind(parent, name) = NULL
      BY <1>2, <1>5 DEF MayCreate
    <2>2. used' \in used + 3 .. heap
      BY <1>0, <1>5 DEF Gets, Left
    <2>3. /\ BootGraph' /\ LinksAreFirst' /\ Grown /\ (fault => fault') /\ OnlyNamed(name, "DIRECTORY")
          /\ fault' \/ FsFind(parent, name)' # NULL
      BY <1>5, <2>1, <2>2, BootHangDirectory
    <2>4. BootShape'
      BY <2>3, BootShapeThen
    <2>5. parent # NULL
      BY <1>5 DEF MayCreate
    <2>6. FsGetNode(path)' = parent
      BY <1>0, <1>1, <2>3, <2>4, <2>5, GetNodeStays
    <2>7. ~fault' => FsFind(FsGetNode(path), name)' # NULL
      <3>1. FsFind(FsGetNode(path), name)' = FsFind(parent, name)'
        BY <2>6
      <3>2. QED
        BY <2>3, <3>1
    <2>8. QED
      BY <1>1, <2>1, <2>3, <2>5, <2>6, <2>7 DEF Kept
  <1>6. QED
    <2>1. UNCHANGED <<nodeVars, short>> => UNCHANGED nodeVars
      OBVIOUS
    <2>2. QED
      BY <1>1, <1>3, <1>4, <1>5, <2>1 DEF MkDirCall

\* ramfs_newRegFile and the write after it keep the graph.
LEMMA FileKeeps ==
  ASSUME BootGraph, LinksAreFirst, heap' = heap, NEW path, Len(path) \in Nat, NEW name,
         NEW ok \in BOOLEAN, FileCall(path, name, ok)
  PROVE  Kept(name, "REGULAR")
  <1>0. BootShape /\ used \in Nat /\ heap \in Nat /\ used <= heap
    BY BootShapeNow DEF BootShape
  <1>1. PICK parent : parent = FsGetNode(path)
    OBVIOUS
  <1>2. parent \in 0 .. used \cup {NULL}
    BY <1>0, <1>1, GetNodeUsed
  <1>3. CASE UNCHANGED nodeVars
    <2>1. nd' = nd /\ used' \in used .. heap /\ fault' = fault
      BY <1>0, <1>3 DEF nodeVars
    <2>2. QED
      BY <2>1, KeptSame
  <1>4. CASE /\ MayCreate(parent, name) /\ Left >= 1 /\ (Gets(2) \/ (Lacks(2) /\ used' = used + 1))
             /\ HangLast(parent, used + 1, NewFile(name))
    <2>1. parent \in 0 .. used
      BY <1>2, <1>4 DEF MayCreate
    <2>2. used' \in used + 1 .. heap
      BY <1>0, <1>4 DEF Gets, Left
    <2>3. QED
      BY <1>4, <2>1, <2>2, BootHangFile DEF Kept
  <1>5. QED
    <2>1. UNCHANGED <<nodeVars, short>> => UNCHANGED nodeVars
      OBVIOUS
    <2>2. QED
      BY <1>1, <1>3, <1>4, <2>1 DEF FileCall

\* So does a node hung by hand.
LEMMA NodeKeeps ==
  ASSUME BootGraph, LinksAreFirst, heap' = heap, NEW path, Len(path) \in Nat, NEW name,
         NEW blocks \in Nat \ {0}, NEW ok \in BOOLEAN, NodeCall(path, name, blocks, ok)
  PROVE  Kept(name, "REGULAR")
  <1>0. BootShape /\ used \in Nat /\ heap \in Nat /\ used <= heap
    BY BootShapeNow DEF BootShape
  <1>1. PICK parent : parent = FsGetNode(path)
    OBVIOUS
  <1>2. parent \in 0 .. used \cup {NULL}
    BY <1>0, <1>1, GetNodeUsed
  <1>3. CASE UNCHANGED <<nodeVars, short>>
    <2>1. nd' = nd /\ used' \in used .. heap /\ fault' = fault
      BY <1>0, <1>3 DEF nodeVars
    <2>2. QED
      BY <2>1, KeptSame
  <1>4. CASE used' = heap /\ UNCHANGED <<nd, fault>>
    <2>1. nd' = nd /\ used' \in used .. heap /\ fault' = fault
      BY <1>0, <1>4
    <2>2. QED
      BY <2>1, KeptSame
  <1>5. CASE parent # NULL /\ Gets(blocks) /\ HangLast(parent, used + 1, NewFile(name))
    <2>1. parent \in 0 .. used
      BY <1>2, <1>5
    <2>2. used' \in used + 1 .. heap
      BY <1>0, <1>5 DEF Gets, Left
    <2>3. QED
      BY <1>5, <2>1, <2>2, BootHangFile DEF Kept
  <1>6. QED
    BY <1>1, <1>3, <1>4, <1>5 DEF NodeCall

-----------------------------------------------------------------------------
(* Loading the initrd. *)

\* ramfs_readdir of a directory at 1 is its second link.
LEMMA SecondLink ==
  ASSUME BootShape, LinksAreFirst, NEW d \in Nodes, nd[d].type = "DIRECTORY"
  PROVE  ReadDir(d, 1) = d + 2
  <1>1. PICK p, q, nx : p = d + 1 /\ q = d + 2 /\ nx = NextOf(nd)
    OBVIOUS
  <1>2. /\ used \in Nat /\ p \in Nat /\ q \in Nat /\ p < q /\ p \in Nodes /\ q \in Nodes
        /\ p \in Refs /\ q \in Refs /\ p # NULL /\ q # NULL
        /\ nd[d].children = p /\ nd[p].next = q
    <2>1. q \in 2 .. used /\ nd[d].children = p /\ nd[p].next = q
      BY <1>1 DEF LinksAreFirst
    <2>2. used \in Nat /\ 0 .. used \subseteq Nodes /\ d \in Nat
      BY NodeNumbers DEF BootShape
    <2>3. p \in 0 .. used /\ q \in 0 .. used /\ p < q
      BY <1>1, <2>1, <2>2
    <2>4. p \in Nodes /\ q \in Nodes
      BY <2>2, <2>3
    <2>5. QED
      BY <2>1, <2>2, <2>3, <2>4, NodeNumbers
  <1>3. nx \in Pointer /\ Ahead(nx) /\ nx[p] = q
    BY <1>1, <1>2 DEF BootShape
  <1>4. \A c \in Refs : ListFrom[c] = List(nx, c)
    BY <1>1 DEF BootShape
  <1>5. PICK C : C = Children(d)
    OBVIOUS
  <1>6. C = List(nx, p) /\ C \subseteq Nodes /\ C \subseteq 0 .. used
    <2>1. C = List(nx, p)
      BY <1>1, <1>2, <1>5 DEF BootShape
    <2>2. C \subseteq 0 .. used
      BY <1>5, BootChildren
    <2>3. QED
      BY <1>2, <1>3, <2>1, <2>2, ListHas
  <1>7. C = {p} \cup List(nx, q)
    BY <1>2, <1>3, <1>6, ListUnfold
  <1>8. p \in C /\ q \in C /\ q \in List(nx, q) /\ List(nx, q) \subseteq Nodes
    BY <1>2, <1>3, <1>7, ListHas
  <1>9. IsFiniteSet(C)
    <2>1. IsFiniteSet(0 .. used)
      BY <1>2, FS_Interval
    <2>2. C \in SUBSET (0 .. used)
      BY <1>6
    <2>3. QED
      BY <2>1, <2>2, FS_Subset
  <1>10. C \ List(nx, q) = {p}
    <2>1. \A m \in List(nx, q) : q <= m
      BY <1>2, <1>3, ListAhead
    <2>2. p \notin List(nx, q)
      BY <1>2, <2>1
    <2>3. QED
      BY <1>7, <2>2
  <1>11. ASSUME NEW m \in C, Cardinality(C \ ListFrom[m]) = 1 PROVE m = q
    <2>1. m \in Nodes /\ m \in Refs /\ m \in Nat
      BY <1>6, NodeNumbers
    <2>2. ListFrom[m] = List(nx, m) /\ \A z \in List(nx, m) : m <= z
      BY <1>3, <1>4, <2>1, ListAhead
    <2>3. m # p
      <3>1. SUFFICES ASSUME m = p PROVE FALSE
        OBVIOUS
      <3>2. C \ ListFrom[m] = {}
        BY <1>6, <2>2, <3>1
      <3>3. QED
        BY <1>11, <3>2, FS_EmptySet
    <2>4. SUFFICES ASSUME m # q PROVE FALSE
      OBVIOUS
    <2>5. m \in List(nx, q) /\ q <= m
      BY <1>2, <1>3, <1>7, <2>3, ListAhead
    <2>6. p \notin List(nx, m) /\ q \notin List(nx, m)
      BY <1>2, <2>1, <2>2, <2>4, <2>5
    <2>7. {p, q} \subseteq C \ ListFrom[m]
      BY <1>8, <2>2, <2>6
    <2>8. IsFiniteSet(C \ ListFrom[m])
      BY <1>9, FS_Subset
    <2>9. Cardinality({p, q}) = 2
      <3>1. IsFiniteSet({p}) /\ Cardinality({p}) = 1
        BY FS_Singleton
      <3>2. {p, q} = {p} \cup {q} /\ q \notin {p}
        BY <1>2
      <3>3. Cardinality({p} \cup {q}) = IF q \in {p} THEN Cardinality({p}) ELSE Cardinality({p}) + 1
        BY <3>1, FS_AddElement
      <3>4. QED
        BY <3>1, <3>2, <3>3
    <2>10. Cardinality({p, q}) <= Cardinality(C \ ListFrom[m])
      BY <2>7, <2>8, FS_Subset
    <2>11. 2 <= 1
      BY <1>11, <2>9, <2>10
    <2>12. QED
      BY <2>11
  <1>12. Cardinality(C \ ListFrom[q]) = 1
    BY <1>2, <1>4, <1>10, FS_Singleton
  <1>13. {m \in C : Cardinality(C \ ListFrom[m]) = 1} = {q}
    BY <1>8, <1>11, <1>12
  <1>14. ReadDir(d, 1) = CHOOSE m \in {q} : TRUE
    <2>0. {m \in Children(d) : Cardinality(Children(d) \ ListFrom[m]) = 1} = {q}
      BY <1>5, <1>13
    <2>1. ReadDir(d, 1) = IF {q} = {} THEN NULL ELSE CHOOSE m \in {q} : TRUE
      BY <2>0 DEF ReadDir
    <2>2. QED
      BY <2>1
  <1>15. QED
    BY <1>1, <1>14

\* The frames of LoadInitrdFiles.
LoadFrame == [dir : Nodes, pos : Nat, i : Nat, prev : Refs]

\* A frame and its last entry, in numbers.
LEMMA FrameFacts ==
  ASSUME BootShape, LinksAreFirst, LoadFrames, NEW d \in 1 .. Len(load)
  PROVE  /\ load[d] \in LoadFrame /\ Len(load) \in Nat
         /\ load[d].dir \in 0 .. used /\ load[d].dir + 2 \in 2 .. used
         /\ nd[load[d].dir].type = "DIRECTORY" /\ load[d].prev \in 0 .. used \cup {NULL}
         /\ load[d].prev # NULL => nd[load[d].prev].type # "SYMLINK"
  <1>1. load \in Seq(LoadFrame) /\ Len(load) \in Nat
    BY DEF LoadFrames, LoadFrame
  <1>2. load[d] \in LoadFrame
    BY <1>1
  <1>3. load[d].dir \in Nodes /\ load[d].prev \in Refs
    BY <1>2 DEF LoadFrame
  <1>4. /\ load[d].dir <= used /\ nd[load[d].dir].type = "DIRECTORY"
        /\ load[d].prev # NULL => load[d].prev <= used /\ nd[load[d].prev].type # "SYMLINK"
    BY DEF LoadFrames
  <1>5. used \in Nat
    BY DEF BootShape
  <1>6. load[d].dir \in 0 .. used /\ load[d].prev \in 0 .. used \cup {NULL}
    <2>1. PICK x, y : x = load[d].dir /\ y = load[d].prev
      OBVIOUS
    <2>2. x \in Nat /\ x <= used
      BY <1>3, <1>4, <2>1, NodeNumbers
    <2>3. y # NULL => y \in Nat /\ y <= used
      BY <1>3, <1>4, <2>1, NodeNumbers
    <2>4. x \in 0 .. used /\ (y # NULL => y \in 0 .. used)
      BY <1>5, <2>2, <2>3
    <2>5. QED
      BY <2>1, <2>4
  <1>7. load[d].dir + 2 \in 2 .. used
    BY <1>3, <1>4 DEF LinksAreFirst
  <1>8. QED
    BY <1>1, <1>2, <1>4, <1>6, <1>7

\* What an entry may be that is hung into the directory of frame d.
Hangable(d, curr) ==
  curr = NULL \/ (curr \in 0 .. used' /\ load[d].dir + 2 < curr /\ load[d].prev < curr)

\* The node it is hung after may be linked to it.
LEMMA LinkedFacts ==
  ASSUME BootShape, LinksAreFirst, LoadFrames, NEW d \in 1 .. Len(load), NEW curr, Hangable(d, curr),
         Linked(load[d], curr) # NULL, used' \in Nat
  PROVE  Linked(load[d], curr) \in 0 .. used /\ MayLink(Linked(load[d], curr), curr)
  <1>1. PICK q, p, a : q = load[d].dir + 2 /\ p = load[d].prev /\ a = Linked(load[d], curr)
    OBVIOUS
  <1>2. /\ q \in 2 .. used /\ p \in 0 .. used \cup {NULL} /\ nd[load[d].dir].type = "DIRECTORY"
        /\ p # NULL => nd[p].type # "SYMLINK"
        /\ load[d].dir \in 0 .. used /\ load[d].dir \in Nodes /\ used \in Nat
    BY <1>1, FrameFacts DEF BootShape
  <1>3. ReadDir(load[d].dir, 1) = q
    BY <1>1, <1>2, SecondLink
  <1>4. a = IF nd[q].next = NULL THEN q ELSE p
    BY <1>1, <1>3 DEF Linked
  <1>5. a \in 0 .. used /\ (nd[a].next = NULL \/ nd[a].type # "SYMLINK")
    BY <1>1, <1>2, <1>4
  <1>6. curr = NULL \/ curr \in a + 1 .. used'
    BY <1>1, <1>2, <1>4, <1>5 DEF Hangable
  <1>7. QED
    BY <1>1, <1>5, <1>6 DEF MayLink

\* Storing no nodes.
LEMMA StoredNone ==
  ASSUME NEW g, NEW new \in Nat
  PROVE  \A m \in Nodes : Stored(g, new, <<>>)[m] = g[m]
  <1>1. Len(<<>>) = 0
    OBVIOUS
  <1>2. \A m \in Nodes : m \in Int /\ m \notin new .. new + 0 - 1
    BY DEF Nodes
  <1>3. QED
    BY <1>1, <1>2 DEF Stored

\* What a step of the loader leaves as it should be.
LoadKept == BootGraph' /\ LinksAreFirst' /\ \A x \in 0 .. used : nd'[x].type = nd[x].type

\* A node that is there already, or NULL, is hung.
LEMMA AttachOld ==
  ASSUME BootGraph, LinksAreFirst, LoadFrames, NEW d \in 1 .. Len(load), NEW curr, Hangable(d, curr),
         Attach(d, curr, <<>>), used' \in used .. heap, heap' = heap
  PROVE  LoadKept
  <1>0. /\ BootShape /\ NodesAreRecords /\ used \in Nat /\ heap \in Nat /\ used' \in Nat
        /\ 0 .. used \subseteq Nodes
    BY BootShapeNow DEF BootShape, BootGraph
  <1>1. PICK a, g : a = Linked(load[d], curr) /\ g = [nd EXCEPT ![a].next = curr]
    OBVIOUS
  <1>2. CASE a = NULL
    <2>1. nd' = nd
      BY <1>1, <1>2 DEF Attach
    <2>2. QED
      BY <2>1, SameNodes DEF LoadKept
  <1>3. CASE a # NULL
    <2>1. nd' = Stored(g, used + 1, <<>>)
      BY <1>1, <1>3 DEF Attach
    <2>2. a \in 0 .. used /\ MayLink(a, curr)
      BY <1>0, <1>1, <1>3, LinkedFacts
    <2>3. Relinked(g, a, curr)
      <3>1. a \in Nodes
        BY <1>0, <2>2
      <3>2. g = [nd EXCEPT ![a].next = curr]
        BY <1>1
      <3>3. QED
        BY <1>0, <3>1, <3>2, RelinkedBy
    <2>4. used + 1 \in Nat
      BY <1>0
    <2>5. \A m \in Nodes : nd'[m] = g[m]
      BY <2>1, <2>4, StoredNone
    <2>6. Relinked(nd', a, curr)
      BY <1>0, <2>2, <2>3, <2>5 DEF Relinked
    <2>7. nd' = [x \in Nodes |-> nd'[x]]
      BY <2>1, StoredIs
    <2>8. BootGraph' /\ LinksAreFirst'
      BY <2>2, <2>6, <2>7, StoreNone
    <2>9. \A x \in 0 .. used : nd'[x].type = nd[x].type
      BY <1>0, <2>6 DEF Relinked
    <2>10. QED
      BY <2>8, <2>9 DEF LoadKept
  <1>4. QED
    BY <1>2, <1>3

\* A new file is hung.
LEMMA AttachNew ==
  ASSUME BootGraph, LinksAreFirst, LoadFrames, NEW d \in 1 .. Len(load), NEW name, NEW curr, curr = used + 1,
         Attach(d, curr, NewFile(name)), used' \in curr .. heap, heap' = heap
  PROVE  LoadKept /\ (~fault' => nd'[curr].type = "REGULAR") /\ Hangable(d, curr)
  <1>0. /\ BootShape /\ NodesAreRecords /\ used \in Nat /\ heap \in Nat /\ used' \in Nat
        /\ 0 .. used \subseteq Nodes
    BY BootShapeNow DEF BootShape, BootGraph
  <1>1. PICK a, g : a = Linked(load[d], curr) /\ g = [nd EXCEPT ![a].next = curr]
    OBVIOUS
  <1>2. Hangable(d, curr)
    <2>1. load[d].dir + 2 \in 2 .. used /\ load[d].prev \in 0 .. used \cup {NULL}
      BY <1>0, FrameFacts
    <2>2. QED
      BY <1>0, <2>1 DEF Hangable, NULL
  <1>3. CASE a = NULL
    <2>1. nd' = nd /\ fault'
      BY <1>1, <1>3 DEF Attach
    <2>2. used' \in used .. heap
      BY <1>0
    <2>3. QED
      BY <1>2, <2>1, <2>2, SameNodes DEF LoadKept
  <1>4. CASE a # NULL
    <2>1. nd' = Stored(g, curr, NewFile(name))
      BY <1>1, <1>4 DEF Attach
    <2>2. a \in 0 .. used /\ MayLink(a, curr)
      BY <1>0, <1>1, <1>2, <1>4, LinkedFacts
    <2>3. Relinked(g, a, curr)
      <3>1. a \in Nodes
        BY <1>0, <2>2
      <3>2. g = [nd EXCEPT ![a].next = curr]
        BY <1>1
      <3>3. QED
        BY <1>0, <3>1, <3>2, RelinkedBy
    <2>4. QED
      BY <1>2, <2>1, <2>2, <2>3, StoreFile DEF LoadKept
  <1>5. QED
    BY <1>3, <1>4

\* Frames 1 .. d stay, but for what the last has come to.
LEMMA FramesTo ==
  ASSUME BootShape, LinksAreFirst, LoadFrames, NEW d \in 1 .. Len(load), NEW curr, NEW s, load' = s,
         s \in Seq(LoadFrame), Len(s) = d,
         \A k \in 1 .. d : s[k].dir = load[k].dir /\ (k < d => s[k].prev = load[k].prev),
         s[d].prev = curr, curr # NULL => curr \in 0 .. used' /\ nd'[curr].type # "SYMLINK",
         used' \in Nat, used <= used', \A x \in 0 .. used : nd'[x].type = nd[x].type, pc' = "load"
  PROVE  LoadFrames'
  <1>1. Len(load) \in Nat /\ used \in Nat /\ d \in Nat /\ d <= Len(load) /\ d >= 1
    BY FrameFacts DEF BootShape
  <1>2. ASSUME NEW k \in 1 .. d
        PROVE  /\ s[k].dir <= used' /\ nd'[s[k].dir].type = "DIRECTORY"
               /\ s[k].prev # NULL => s[k].prev <= used' /\ nd'[s[k].prev].type # "SYMLINK"
               /\ k < d => s[k].dir + 2 < s[k + 1].dir /\ s[k].prev < s[k + 1].dir
    <2>1. k \in 1 .. Len(load) /\ k \in Nat
      BY <1>1, <1>2
    <2>2. /\ load[k].dir \in 0 .. used /\ nd[load[k].dir].type = "DIRECTORY"
          /\ load[k].prev \in 0 .. used \cup {NULL}
          /\ load[k].prev # NULL => nd[load[k].prev].type # "SYMLINK"
      BY <2>1, FrameFacts
    <2>3. s[k].dir \in 0 .. used /\ nd'[s[k].dir].type = "DIRECTORY"
      BY <1>2, <2>2
    <2>4. s[k].dir <= used'
      BY <1>1, <2>3
    <2>5. CASE k < d
      <3>1. s[k].prev = load[k].prev /\ s[k].dir = load[k].dir
        BY <1>2, <2>5
      <3>2. s[k].prev # NULL => s[k].prev \in 0 .. used /\ nd'[s[k].prev].type # "SYMLINK"
        BY <2>2, <3>1
      <3>3. s[k].prev # NULL => s[k].prev <= used'
        BY <1>1, <3>2
      <3>4. k + 1 \in 1 .. d /\ k < Len(load)
        BY <1>1, <2>1, <2>5
      <3>5. load[k].dir + 2 < load[k + 1].dir /\ load[k].prev < load[k + 1].dir
        BY <2>1, <3>4 DEF LoadFrames
      <3>6. s[k + 1].dir = load[k + 1].dir
        BY <3>4
      <3>7. QED
        BY <2>3, <2>4, <3>1, <3>2, <3>3, <3>5, <3>6
    <2>6. CASE k = d
      <3>1. s[k].prev # NULL => s[k].prev \in 0 .. used' /\ nd'[s[k].prev].type # "SYMLINK"
        BY <2>6
      <3>2. s[k].prev # NULL => s[k].prev <= used'
        BY <1>1, <3>1
      <3>3. ~(k < d)
        BY <1>1, <2>6
      <3>4. QED
        BY <2>3, <2>4, <3>1, <3>2, <3>3
    <2>7. QED
      BY <1>1, <1>2, <2>5, <2>6
  <1>3. s # <<>>
    BY <1>1
  <1>4. QED
    BY <1>2, <1>3 DEF LoadFrames, LoadFrame

\* A function on 1 .. n is a sequence of that length.
LEMMA IsSequence ==
  ASSUME NEW S, NEW n \in Nat, NEW f \in [1 .. n -> S]
  PROVE  f \in Seq(S) /\ Len(f) = n
  OBVIOUS

\* The frames when curr was hung at depth d.
Moved(d, curr) == [SubSeq(load, 1, d) EXCEPT ![d].i = @ + 1, ![d].prev = curr]

\* The frame at d with the entry it has come to.
LEMMA AttachSeq ==
  ASSUME BootShape, LinksAreFirst, LoadFrames, NEW d \in 1 .. Len(load), NEW curr \in Refs, NEW s,
         s = Moved(d, curr)
  PROVE  /\ s \in Seq(LoadFrame) /\ Len(s) = d /\ s[d].prev = curr
         /\ \A k \in 1 .. d : s[k].dir = load[k].dir /\ (k < d => s[k].prev = load[k].prev)
  <1>1. load \in Seq(LoadFrame) /\ Len(load) \in Nat
    BY DEF LoadFrames, LoadFrame
  <1>2. d \in Nat /\ d >= 1 /\ d <= Len(load)
    BY <1>1
  <1>3. PICK t : t = SubSeq(load, 1, d)
    OBVIOUS
  <1>4. t \in Seq(LoadFrame) /\ Len(t) = d /\ \A k \in 1 .. d : t[k] = load[k]
    BY <1>1, <1>2, <1>3
  <1>5. PICK r : r = load[d]
    OBVIOUS
  <1>6. r \in LoadFrame /\ t[d] = r
    BY <1>1, <1>2, <1>4, <1>5
  <1>7. s = [t EXCEPT ![d] = [[r EXCEPT !.i = @ + 1] EXCEPT !.prev = curr]]
    <2>1. s = [[t EXCEPT ![d].i = @ + 1] EXCEPT ![d].prev = curr]
      BY <1>3 DEF Moved
    <2>2. QED
      BY <1>2, <1>4, <1>6, <2>1
  <1>8. PICK r2 : r2 = [[r EXCEPT !.i = @ + 1] EXCEPT !.prev = curr]
    OBVIOUS
  <1>9. r2 \in LoadFrame /\ r2.dir = r.dir /\ r2.prev = curr
    <2>1. /\ r.dir \in Nodes /\ r.pos \in Nat /\ r.i \in Nat /\ r.prev \in Refs
          /\ r = [dir |-> r.dir, pos |-> r.pos, i |-> r.i, prev |-> r.prev]
      BY <1>6 DEF LoadFrame
    <2>2. r2 = [dir |-> r.dir, pos |-> r.pos, i |-> r.i + 1, prev |-> curr]
      BY <1>8, <2>1
    <2>3. r.i + 1 \in Nat
      BY <2>1
    <2>4. QED
      BY <2>1, <2>2, <2>3 DEF LoadFrame
  <1>10. s = [t EXCEPT ![d] = r2]
    BY <1>7, <1>8
  <1>11. t \in [1 .. d -> LoadFrame] /\ d \in 1 .. d
    BY <1>2, <1>4
  <1>12. s \in [1 .. d -> LoadFrame] /\ s[d] = r2 /\ \A k \in 1 .. d : k # d => s[k] = t[k]
    BY <1>9, <1>10, <1>11
  <1>13. s \in Seq(LoadFrame) /\ Len(s) = d
    BY <1>2, <1>12, IsSequence
  <1>14. \A k \in 1 .. d : k < d => k # d
    BY <1>2
  <1>15. QED
    BY <1>4, <1>5, <1>9, <1>12, <1>13, <1>14

\* While nothing is scanned.
LEMMA NoScan ==
  ASSUME scan' = <<>>, pc' # "scan"
  PROVE  ScanFrames' /\ EnteredByBridges'
  <1>1. Len(scan') = 0 /\ scan' \in Seq([bus : Nat, dev : Nat, func : Nat, file : {"dir"} \cup PciFiles])
    OBVIOUS
  <1>2. 1 .. Len(scan') = {} /\ 2 .. Len(scan') = {}
    BY <1>1
  <1>3. ScanFrames'
    BY <1>1, <1>2 DEF ScanFrames
  <1>4. PICK via : via = [x \in 2 .. Len(scan') |-> x]
    OBVIOUS
  <1>5. via \in [2 .. Len(scan') -> Bridges']
    BY <1>2, <1>4
  <1>6. EnteredByBridges'
    BY <1>2, <1>5 DEF EnteredByBridges
  <1>7. QED
    BY <1>3, <1>6

\* The inductive invariant but for the machine, which stays the same.
BootParts ==
  /\ BootGraph /\ LinksAreFirst /\ IndexInRange /\ InitrdIsDirectory /\ (~fault => LoadFrames)
  /\ ScanFrames /\ EnteredByBridges

\* While nothing is loaded.
LEMMA NoLoad ==
  ASSUME load' = <<>>, pc' # "load"
  PROVE  LoadFrames'
  <1>1. Len(load') = 0 /\ load' \in Seq([dir : Nodes, pos : Nat, i : Nat, prev : Refs])
    OBVIOUS
  <1>2. 1 .. Len(load') = {}
    BY <1>1
  <1>3. QED
    BY <1>1, <1>2 DEF LoadFrames

\* After a step of the loader there is nothing to say of the scan.
LEMMA LoadStepKeeps ==
  ASSUME BootParts, pc \in {"load_initrd", "load"}, pc' \in {"load", "pci_dir"}, scan' = scan, nth' = nth,
         BootGraph', LinksAreFirst', ~fault' => LoadFrames'
  PROVE  BootParts'
  <1>1. scan' = <<>>
    BY DEF BootParts, ScanFrames
  <1>2. InitrdIsDirectory'
    BY DEF InitrdIsDirectory
  <1>3. IndexInRange'
    BY DEF BootParts, IndexInRange
  <1>4. QED
    BY <1>1, <1>2, <1>3, NoScan DEF BootParts

\* ramfs_loadInitrd: the node /initrd leads to is a directory.
LEMMA LoadInitrdKeeps ==
  ASSUME BootParts, LoadInitrd
  PROVE  BootParts'
  <1>0. /\ BootShape /\ BootGraph /\ LinksAreFirst /\ used \in Nat /\ heap \in Nat
        /\ used <= heap /\ 0 .. used \subseteq Nodes
    BY BootShapeNow DEF BootParts, BootShape
  <1>1. nd' = nd /\ used' = used /\ heap' = heap /\ fault' = fault /\ scan' = scan /\ nth' = nth
    BY DEF LoadInitrd, nodeVars
  <1>2. used' \in used .. heap
    BY <1>0, <1>1
  <1>3. BootGraph' /\ LinksAreFirst'
    BY <1>0, <1>1, <1>2, SameNodes
  <1>4. PICK dir : dir = FsGetNode(INITRD)
    OBVIOUS
  <1>5. CASE dir = NULL
    <2>1. load' = <<>> /\ pc' = "pci_dir"
      BY <1>4, <1>5 DEF LoadInitrd, Goto
    <2>2. LoadFrames'
      BY <2>1, NoLoad
    <2>3. QED
      BY <1>1, <1>3, <2>1, <2>2, LoadStepKeeps DEF LoadInitrd
  <1>6. CASE dir # NULL
    <2>1. load' = <<[dir |-> dir, pos |-> 1, i |-> 0, prev |-> NULL]>> /\ pc' = "load"
      BY <1>4, <1>6 DEF LoadInitrd, Goto
    <2>2. Len(INITRD) = 1 /\ INITRD[1] = "initrd"
      BY DEF INITRD
    <2>3. PICK f : Walk(f, INITRD)
      BY <2>2, WalkNow
    <2>4. f[0] = ROOT /\ dir = f[1] /\ f[1] = IF f[0] = NULL THEN NULL ELSE FsFind(f[0], "initrd")
      <3>1. 1 \in 1 .. Len(INITRD) /\ 1 - 1 = 0
        BY <2>2
      <3>2. f[1] = IF f[1 - 1] = NULL THEN NULL ELSE FsFind(f[1 - 1], INITRD[1])
        BY <2>3, <3>1 DEF Walk
      <3>3. QED
        BY <1>4, <2>2, <2>3, <3>1, <3>2 DEF Walk
    <2>5. ROOT \in 0 .. used /\ ROOT # NULL
      BY <1>0 DEF ROOT, NULL
    <2>6. dir = FsFind(ROOT, "initrd")
      BY <2>4, <2>5
    <2>7. PICK d : d = NodeFromSimlink[ROOT]
      OBVIOUS
    <2>8. dir \in 0 .. used /\ dir \in Hits(d, "initrd")
      BY <1>0, <1>6, <2>5, <2>6, <2>7, LookupIs
    <2>9. dir \in Nodes /\ nd[dir].name = "initrd"
      BY <1>0, <2>8 DEF Hits
    <2>10. nd[dir].type = "DIRECTORY"
      BY <2>9 DEF LoadInitrd, BootParts, InitrdIsDirectory
    <2>11. PICK r : r = [dir |-> dir, pos |-> 1, i |-> 0, prev |-> NULL]
      OBVIOUS
    <2>12. r \in [dir : Nodes, pos : Nat, i : Nat, prev : Refs] /\ r.dir = dir /\ r.prev = NULL
      BY <2>9, <2>11, NodeNumbers
    <2>13. load' = <<r>> /\ Len(load') = 1 /\ load'[1] = r
      BY <2>1, <2>11
    <2>14. load' \in Seq([dir : Nodes, pos : Nat, i : Nat, prev : Refs]) /\ load' # <<>>
      BY <2>12, <2>13
    <2>15. \A k \in 1 .. Len(load') : k = 1 /\ ~(k < Len(load'))
      BY <2>13
    <2>16. dir <= used'
      BY <1>0, <1>1, <2>8
    <2>17. LoadFrames'
      BY <1>1, <2>1, <2>10, <2>12, <2>13, <2>14, <2>15, <2>16 DEF LoadFrames
    <2>18. QED
      BY <1>1, <1>3, <2>1, <2>17, LoadStepKeeps DEF LoadInitrd
  <1>7. QED
    BY <1>5, <1>6

\* What is known where an entry is loaded.
LEMMA LoadNow ==
  ASSUME BootParts, pc = "load", ~fault
  PROVE  /\ BootShape /\ BootGraph /\ LinksAreFirst /\ LoadFrames
         /\ used \in Nat /\ heap \in Nat /\ used <= heap /\ 0 .. used \subseteq Nodes
         /\ Len(load) \in Nat /\ Len(load) \in 1 .. Len(load)
  <1>1. BootGraph /\ LinksAreFirst /\ LoadFrames /\ BootShape
    BY BootShapeNow DEF BootParts
  <1>2. load \in Seq(LoadFrame) /\ load # <<>>
    BY <1>1 DEF LoadFrames, LoadFrame
  <1>3. Len(load) \in Nat /\ Len(load) # 0
    BY <1>2
  <1>4. QED
    BY <1>1, <1>3 DEF BootShape

\* The frames after an entry was hung.
LEMMA AttachKeeps ==
  ASSUME BootParts, pc = "load", ~fault, pc' = "load", scan' = scan, nth' = nth, NEW d \in 1 .. Len(load),
         NEW curr, NEW nodes, Attach(d, curr, nodes), LoadKept, used' \in used .. heap,
         ~fault' /\ curr # NULL => curr \in 0 .. used' /\ nd'[curr].type # "SYMLINK"
  PROVE  BootParts'
  <1>0. BootShape /\ LinksAreFirst /\ LoadFrames /\ used \in Nat /\ heap \in Nat
    BY LoadNow
  <1>1. used' \in Nat /\ used <= used'
    BY <1>0
  <1>2. BootGraph' /\ LinksAreFirst' /\ \A x \in 0 .. used : nd'[x].type = nd[x].type
    BY DEF LoadKept
  <1>3. 0 .. used' \subseteq Nodes
    BY <1>2, BootShapeThen DEF BootShape
  <1>4. ASSUME ~fault' PROVE LoadFrames'
    <2>1. PICK s : s = Moved(d, curr)
      OBVIOUS
    <2>2. load' = s
      BY <2>1 DEF Attach, Moved
    <2>3. curr \in Refs
      BY <1>3, <1>4, NodeNumbers
    <2>4. /\ s \in Seq(LoadFrame) /\ Len(s) = d /\ s[d].prev = curr
          /\ \A k \in 1 .. d : s[k].dir = load[k].dir /\ (k < d => s[k].prev = load[k].prev)
      BY <1>0, <2>1, <2>3, AttachSeq
    <2>5. curr # NULL => curr \in 0 .. used' /\ nd'[curr].type # "SYMLINK"
      BY <1>4
    <2>6. QED
      BY <1>0, <1>1, <1>2, <2>2, <2>4, <2>5, FramesTo
  <1>5. QED
    BY <1>2, <1>4, LoadStepKeeps

\* LoadInitrdRegFile.
LEMMA LoadRegFileKeeps ==
  ASSUME BootParts, LoadRegFile
  PROVE  BootParts'
  <1>0. pc = "load" /\ ~fault /\ pc' = "load" /\ scan' = scan /\ nth' = nth /\ heap' = heap
    BY DEF LoadRegFile, LoadStep, Goto
  <1>1. /\ BootShape /\ BootGraph /\ LinksAreFirst /\ LoadFrames /\ used \in Nat /\ heap \in Nat
        /\ used <= heap /\ Len(load) \in 1 .. Len(load)
    BY <1>0, LoadNow
  <1>2. PICK d, name, new : d = Len(load) /\ name = Entry.name /\ new = used + 1
    OBVIOUS
  <1>3. CASE Gets(2) /\ Attach(d, new, NewFile(name))
    <2>1. used' \in new .. heap /\ used' \in used .. heap /\ new \in 0 .. used' /\ new # NULL
      BY <1>1, <1>2, <1>3 DEF Gets, Left, NULL
    <2>2. LoadKept /\ (~fault' => nd'[new].type = "REGULAR")
      BY <1>0, <1>1, <1>2, <1>3, <2>1, AttachNew
    <2>3. QED
      BY <1>0, <1>1, <1>2, <1>3, <2>1, <2>2, AttachKeeps
  <1>4. CASE used' \in used .. heap /\ Attach(d, NULL, <<>>)
    <2>1. Hangable(d, NULL)
      BY DEF Hangable
    <2>2. LoadKept
      BY <1>0, <1>1, <1>2, <1>4, <2>1, AttachOld
    <2>3. QED
      BY <1>0, <1>1, <1>2, <1>4, <2>2, AttachKeeps
  <1>5. QED
    <2>1. \/ Gets(2) /\ Attach(d, new, NewFile(name))
          \/ Left >= 1 /\ used' = used + 1 /\ Attach(d, NULL, <<>>)
          \/ used' = used /\ Attach(d, NULL, <<>>)
      BY <1>2 DEF LoadRegFile
    <2>2. Left >= 1 /\ used' = used + 1 => used' \in used .. heap
      BY <1>1 DEF Left
    <2>3. used' = used => used' \in used .. heap
      BY <1>1
    <2>4. QED
      BY <1>3, <1>4, <2>1, <2>2, <2>3

\* A directory is allocated, and its entries come next.
LEMMA LoadDirKeeps ==
  ASSUME BootParts, LoadDir
  PROVE  BootParts'
  <1>0. pc = "load" /\ ~fault /\ scan' = scan /\ nth' = nth /\ heap' = heap
    BY DEF LoadDir, LoadStep
  <1>1. /\ BootShape /\ BootGraph /\ LinksAreFirst /\ LoadFrames /\ used \in Nat /\ heap \in Nat
        /\ used <= heap /\ 0 .. used \subseteq Nodes /\ Len(load) \in Nat /\ Len(load) \in 1 .. Len(load)
    BY <1>0, LoadNow
  <1>2. PICK d, name, new, r :
          d = Len(load) /\ name = Entry.name /\ new = used + 1
          /\ r = [dir |-> used + 1, pos |-> Frame.pos + 1 + Frame.i, i |-> 0, prev |-> NULL]
    OBVIOUS
  <1>3. CASE /\ Gets(3) /\ Goto("load") /\ load' = Append(load, r)
             /\ nd' = Stored(nd, new, NewDirectory(name, Frame.dir, new))
    <2>1. /\ load[d] \in LoadFrame /\ load[d].dir \in 0 .. used
          /\ nd[load[d].dir].type = "DIRECTORY"
      BY <1>1, <1>2, FrameFacts
    <2>2. PICK a : a = load[d].dir
      OBVIOUS
    <2>3. a \in 0 .. used /\ a \in Nodes /\ nd[a].type = "DIRECTORY" /\ a = Frame.dir
      BY <1>1, <1>2, <2>1, <2>2 DEF Frame
    <2>4. Relinked(nd, a, nd[a].next)
      <3>1. nd[a] = AsNode(nd[a])
        BY <1>1, <2>3 DEF BootGraph, NodesAreRecords
      <3>2. QED
        BY <3>1 DEF Relinked
    <2>5. used' \in Nat /\ used' = used + 3 /\ used' <= heap /\ used' \in used + 3 .. heap /\ used <= used'
      BY <1>1, <1>3 DEF Gets, Left
    <2>6. MayLink(a, nd[a].next)
      <3>1. nd[a].next # NULL => nd[a].next \in 0 .. used /\ a < nd[a].next
        BY <1>1, <2>3 DEF BootShape
      <3>2. nd[a].next # NULL => nd[a].next \in a + 1 .. used'
        BY <1>1, <2>3, <2>5, <3>1
      <3>3. QED
        BY <3>2 DEF MayLink
    <2>7. nd' = Stored(nd, new, NewDirectory(name, a, new))
      BY <1>3, <2>3
    <2>8. /\ BootGraph' /\ LinksAreFirst' /\ nd'[new].type = "DIRECTORY"
          /\ \A x \in 0 .. used : nd'[x].type = nd[x].type
      BY <1>0, <1>1, <1>2, <2>3, <2>4, <2>5, <2>6, <2>7, StoreDirectory
    <2>9. LoadFrames'
      <3>1. 0 .. used' \subseteq Nodes
        BY <2>8, BootShapeThen DEF BootShape
      <3>2. new \in Nodes /\ new \in Nat /\ new <= used' /\ new = used + 1
        BY <1>1, <1>2, <2>5, <3>1
      <3>3. load \in Seq(LoadFrame)
        BY <1>1 DEF LoadFrames, LoadFrame
      <3>4. r \in LoadFrame /\ r.dir = new /\ r.prev = NULL
        <4>1. load[d].pos \in Nat /\ load[d].i \in Nat
          BY <2>1 DEF LoadFrame
        <4>2. Frame.pos + 1 + Frame.i \in Nat
          BY <1>2, <4>1 DEF Frame
        <4>3. QED
          BY <1>2, <3>2, <4>2, NodeNumbers DEF LoadFrame
      <3>5. PICK s : s = Append(load, r)
        OBVIOUS
      <3>6. /\ s \in Seq(LoadFrame) /\ Len(s) = d + 1 /\ s[d + 1] = r
            /\ \A k \in 1 .. d : s[k] = load[k]
        BY <1>1, <1>2, <3>3, <3>4, <3>5
      <3>7. d \in Nat /\ d + 1 \in Nat /\ d >= 1
        BY <1>1, <1>2
      <3>8. ASSUME NEW k \in 1 .. d + 1
            PROVE  /\ s[k].dir <= used' /\ nd'[s[k].dir].type = "DIRECTORY"
                   /\ s[k].prev # NULL => s[k].prev <= used' /\ nd'[s[k].prev].type # "SYMLINK"
                   /\ k < d + 1 => s[k].dir + 2 < s[k + 1].dir /\ s[k].prev < s[k + 1].dir
        <4>1. CASE k = d + 1
          BY <2>8, <3>2, <3>4, <3>6, <3>7, <4>1
        <4>2. CASE k # d + 1
          <5>1. k \in 1 .. d /\ k \in 1 .. Len(load) /\ k + 1 \in 1 .. d + 1
            BY <1>2, <3>7, <3>8, <4>2
          <5>2. /\ load[k].dir \in 0 .. used /\ nd[load[k].dir].type = "DIRECTORY"
                /\ load[k].prev \in 0 .. used \cup {NULL} /\ load[k].dir + 2 \in 2 .. used
                /\ load[k].prev # NULL => nd[load[k].prev].type # "SYMLINK"
            BY <1>1, <5>1, FrameFacts
          <5>3. PICK x, y : x = load[k].dir /\ y = load[k].prev
            OBVIOUS
          <5>4. s[k].dir = x /\ s[k].prev = y
            BY <3>6, <5>1, <5>3
          <5>5. x <= used' /\ nd'[x].type = "DIRECTORY" /\ x + 2 < new
            BY <1>1, <2>5, <2>8, <3>2, <5>2, <5>3
          <5>6. y # NULL => y <= used' /\ nd'[y].type # "SYMLINK"
            BY <1>1, <2>5, <2>8, <5>2, <5>3
          <5>7. y < new
            BY <1>1, <3>2, <5>2, <5>3 DEF NULL
          <5>8. k < d + 1 => s[k].dir + 2 < s[k + 1].dir /\ s[k].prev < s[k + 1].dir
            <6>1. CASE k = d
              BY <3>4, <3>6, <5>4, <5>5, <5>7, <6>1
            <6>2. CASE k # d
              <7>1. k < Len(load) /\ k + 1 \in 1 .. d
                BY <1>2, <3>7, <5>1, <6>2
              <7>2. load[k].dir + 2 < load[k + 1].dir /\ load[k].prev < load[k + 1].dir
                BY <1>1, <5>1, <7>1 DEF LoadFrames
              <7>3. QED
                BY <3>6, <5>1, <7>1, <7>2
            <6>3. QED
              BY <6>1, <6>2
          <5>9. QED
            BY <5>4, <5>5, <5>6, <5>8
        <4>3. QED
          BY <4>1, <4>2
      <3>9. s # <<>> /\ load' = s /\ pc' = "load"
        BY <1>3, <3>5, <3>6, <3>7 DEF Goto
      <3>10. QED
        BY <3>6, <3>8, <3>9 DEF LoadFrames, LoadFrame
    <2>10. QED
      BY <1>0, <1>3, <2>8, <2>9, LoadStepKeeps DEF Goto
  <1>4. CASE used' = heap /\ Goto("pci_dir") /\ load' = <<>> /\ UNCHANGED <<nd, fault>>
    <2>1. used' \in used .. heap /\ nd' = nd /\ pc' = "pci_dir"
      BY <1>1, <1>4 DEF Goto
    <2>2. BootGraph' /\ LinksAreFirst' /\ LoadFrames'
      BY <1>0, <1>1, <1>4, <2>1, SameNodes, NoLoad
    <2>3. QED
      BY <1>0, <2>1, <2>2, LoadStepKeeps
  <1>5. CASE fault' = TRUE /\ Goto("load") /\ UNCHANGED <<nd, used, freed, load>>
    <2>1. used' \in used .. heap /\ nd' = nd /\ pc' = "load" /\ fault'
      BY <1>1, <1>5 DEF Goto
    <2>2. BootGraph' /\ LinksAreFirst'
      BY <1>0, <1>1, <2>1, SameNodes
    <2>3. QED
      BY <1>0, <2>1, <2>2, LoadStepKeeps
  <1>6. QED
    BY <1>2, <1>3, <1>4, <1>5 DEF LoadDir

\* An entry of another type is passed over.
LEMMA SkipEntryKeeps ==
  ASSUME BootParts, SkipEntry
  PROVE  BootParts'
  <1>0. /\ pc = "load" /\ ~fault /\ pc' = "load" /\ scan' = scan /\ nth' = nth /\ heap' = heap /\ nd' = nd
        /\ used' = used /\ load' = [load EXCEPT ![Len(load)].i = @ + 1]
    BY DEF SkipEntry, LoadStep, Goto, nodeVars
  <1>1. /\ BootShape /\ BootGraph /\ LinksAreFirst /\ LoadFrames /\ used \in Nat /\ heap \in Nat
        /\ used <= heap /\ Len(load) \in Nat /\ Len(load) \in 1 .. Len(load)
    BY <1>0, LoadNow
  <1>2. used' \in used .. heap /\ used' \in Nat /\ used <= used'
    BY <1>0, <1>1
  <1>3. BootGraph' /\ LinksAreFirst'
    BY <1>0, <1>1, <1>2, SameNodes
  <1>4. PICK d, r, s : d = Len(load) /\ r = load[d] /\ s = [load EXCEPT ![d].i = @ + 1]
    OBVIOUS
  <1>5. /\ d \in Nat /\ d \in 1 .. Len(load) /\ d \in 1 .. d /\ r \in LoadFrame
        /\ r.prev \in 0 .. used \cup {NULL} /\ (r.prev # NULL => nd[r.prev].type # "SYMLINK")
    BY <1>1, <1>4, FrameFacts
  <1>6. load \in [1 .. d -> LoadFrame]
    <2>1. load \in Seq(LoadFrame)
      BY <1>1 DEF LoadFrames, LoadFrame
    <2>2. QED
      BY <1>4, <2>1
  <1>7. PICK r2 : r2 = [r EXCEPT !.i = @ + 1]
    OBVIOUS
  <1>8. s = [load EXCEPT ![d] = r2]
    BY <1>4, <1>5, <1>6, <1>7
  <1>9. r2 \in LoadFrame /\ r2.dir = r.dir /\ r2.prev = r.prev
    <2>1. /\ r.dir \in Nodes /\ r.pos \in Nat /\ r.i \in Nat /\ r.prev \in Refs
          /\ r = [dir |-> r.dir, pos |-> r.pos, i |-> r.i, prev |-> r.prev]
      BY <1>5 DEF LoadFrame
    <2>2. r2 = [dir |-> r.dir, pos |-> r.pos, i |-> r.i + 1, prev |-> r.prev]
      BY <1>7, <2>1
    <2>3. r.i + 1 \in Nat
      BY <2>1
    <2>4. QED
      BY <2>1, <2>2, <2>3 DEF LoadFrame
  <1>10. s \in [1 .. d -> LoadFrame] /\ s[d] = r2 /\ \A k \in 1 .. d : k # d => s[k] = load[k]
    BY <1>5, <1>6, <1>8, <1>9
  <1>11. s \in Seq(LoadFrame) /\ Len(s) = d
    BY <1>5, <1>10, IsSequence
  <1>12. \A k \in 1 .. d : s[k].dir = load[k].dir /\ (k < d => s[k].prev = load[k].prev)
    BY <1>4, <1>5, <1>9, <1>10
  <1>13. s[d].prev = r.prev /\ load' = s
    BY <1>0, <1>4, <1>9, <1>10
  <1>14. r.prev # NULL => r.prev \in 0 .. used' /\ nd'[r.prev].type # "SYMLINK"
    BY <1>0, <1>5
  <1>15. \A x \in 0 .. used : nd'[x].type = nd[x].type
    BY <1>0
  <1>16. LoadFrames'
    BY <1>0, <1>1, <1>2, <1>5, <1>11, <1>12, <1>13, <1>14, <1>15, FramesTo
  <1>17. QED
    BY <1>0, <1>3, <1>16, LoadStepKeeps

\* A directory is hung when its entries are loaded.
LEMMA LoadReturnKeeps ==
  ASSUME BootParts, LoadReturn
  PROVE  BootParts'
  <1>0. pc = "load" /\ ~fault /\ scan' = scan /\ nth' = nth /\ heap' = heap /\ used' = used
    BY DEF LoadReturn
  <1>1. /\ BootShape /\ BootGraph /\ LinksAreFirst /\ LoadFrames /\ used \in Nat /\ heap \in Nat
        /\ used <= heap /\ Len(load) \in Nat /\ Len(load) \in 1 .. Len(load)
    BY <1>0, LoadNow
  <1>2. used' \in used .. heap
    BY <1>0, <1>1
  <1>3. CASE Len(load) = 1
    <2>1. pc' = "pci_dir" /\ load' = <<>> /\ nd' = nd
      BY <1>3 DEF LoadReturn, Goto
    <2>2. BootGraph' /\ LinksAreFirst' /\ LoadFrames'
      BY <1>0, <1>1, <1>2, <2>1, SameNodes, NoLoad
    <2>3. QED
      BY <1>0, <2>1, <2>2, LoadStepKeeps
  <1>4. CASE Len(load) # 1
    <2>1. PICK d, curr : d = Len(load) - 1 /\ curr = load[d + 1].dir
      OBVIOUS
    <2>2. d \in 1 .. Len(load) /\ d + 1 \in 1 .. Len(load) /\ d < Len(load) /\ d + 1 = Len(load)
      BY <1>1, <1>4, <2>1
    <2>3. pc' = "load" /\ Attach(d, curr, <<>>)
      BY <1>4, <2>1, <2>2 DEF LoadReturn, Goto, Frame
    <2>4. curr \in 0 .. used /\ nd[curr].type = "DIRECTORY"
      BY <1>1, <2>1, <2>2, FrameFacts
    <2>5. load[d].dir + 2 < curr /\ load[d].prev < curr
      BY <1>1, <2>1, <2>2 DEF LoadFrames
    <2>6. Hangable(d, curr)
      BY <1>0, <2>4, <2>5 DEF Hangable
    <2>7. LoadKept
      BY <1>0, <1>1, <1>2, <2>2, <2>3, <2>6, AttachOld
    <2>8. curr \in 0 .. used' /\ nd'[curr].type # "SYMLINK"
      BY <1>0, <2>4, <2>7 DEF LoadKept
    <2>9. QED
      BY <1>0, <1>2, <2>2, <2>3, <2>7, <2>8, AttachKeeps
  <1>5. QED
    BY <1>3, <1>4

-----------------------------------------------------------------------------
(* The steps that neither load nor scan. *)

\* A step that neither loads nor scans.
LEMMA QuietKeeps ==
  ASSUME BootParts, BootGraph', LinksAreFirst', fault => fault', scan' = scan, load' = load,
         pc \notin {"load", "scan"}, pc' \notin {"load", "scan"}, IndexInRange', InitrdIsDirectory'
  PROVE  BootParts'
  <1>1. scan' = <<>>
    BY DEF BootParts, ScanFrames
  <1>2. ~fault' => load' = <<>>
    BY DEF BootParts, LoadFrames
  <1>3. QED
    BY <1>1, <1>2, NoLoad, NoScan DEF BootParts

\* A node that is hung before the initrd is loaded has the name of its directory only
\* if it is one.
LEMMA NamesKept ==
  ASSUME InitrdIsDirectory, pc \in {"set_up", "null", "modules", "load_initrd"}, NEW name, NEW type,
         OnlyNamed(name, type), name = "initrd" => type = "DIRECTORY"
  PROVE  InitrdIsDirectory'
  <1>1. ASSUME NEW x \in Nodes, nd'[x].name = "initrd" PROVE nd'[x].type = "DIRECTORY"
    <2>1. CASE nd'[x].name = nd[x].name /\ nd'[x].type = nd[x].type
      BY <1>1, <2>1 DEF InitrdIsDirectory
    <2>2. CASE nd'[x].name \in {".", ".."}
      BY <1>1, <2>2
    <2>3. CASE nd'[x].name = name /\ nd'[x].type = type
      BY <1>1, <2>3
    <2>4. QED
      BY <2>1, <2>2, <2>3 DEF OnlyNamed
  <1>2. QED
    BY <1>1 DEF InitrdIsDirectory

\* The directories of kernel_initramfs.
LEMMA SetUpPaths == Len(SetUp) = 5 /\ \A k \in 1 .. Len(SetUp) : Len(SetUp[k].path) \in Nat
  <1>1. Len(SetUp) = 5
    BY DEF SetUp
  <1>2. /\ SetUp[1].path = <<>> /\ SetUp[2].path = <<>> /\ SetUp[3].path = <<"sys">>
        /\ SetUp[4].path = <<"sys">> /\ SetUp[5].path = <<>>
    BY DEF SetUp
  <1>3. \A k \in 1 .. 5 : k \in {1, 2, 3, 4, 5}
    OBVIOUS
  <1>4. Len(<<>>) \in Nat /\ Len(<<"sys">>) \in Nat
    OBVIOUS
  <1>5. QED
    BY <1>1, <1>2, <1>3, <1>4

\* kernel_initramfs.
LEMMA MakeDirKeeps ==
  ASSUME BootParts, MakeDir
  PROVE  BootParts'
  <1>0. pc = "set_up" /\ heap' = heap /\ scan' = scan /\ load' = load
    BY DEF MakeDir
  <1>1. PICK ok \in BOOLEAN :
          /\ MkDirCall(SetUp[nth].path, SetUp[nth].name, ok)
          /\ IF nth < Len(SetUp) THEN Goto("set_up") /\ nth' = nth + 1
             ELSE Goto(IF ok THEN "null" ELSE "modules") /\ nth' = 0
    BY DEF MakeDir
  <1>2. nth \in 1 .. Len(SetUp) /\ BootGraph /\ LinksAreFirst /\ InitrdIsDirectory
    BY <1>0 DEF BootParts, IndexInRange
  <1>3. PICK path, name : path = SetUp[nth].path /\ name = SetUp[nth].name
    OBVIOUS
  <1>4. Len(path) \in Nat /\ Len(SetUp) = 5
    BY <1>2, <1>3, SetUpPaths
  <1>5. Kept(name, "DIRECTORY")
    BY <1>0, <1>1, <1>2, <1>3, <1>4, MkDirKeeps
  <1>6. InitrdIsDirectory'
    BY <1>0, <1>2, <1>5, NamesKept DEF Kept
  <1>7. IndexInRange'
    BY <1>1, <1>2, <1>4 DEF IndexInRange, Goto
  <1>8. pc' \notin {"load", "scan"}
    BY <1>1 DEF Goto
  <1>9. QED
    BY <1>0, <1>5, <1>6, <1>7, <1>8, QuietKeeps DEF Kept

\* devfs_init.
LEMMA MakeNullKeeps ==
  ASSUME BootParts, MakeNull
  PROVE  BootParts'
  <1>0. pc = "null" /\ pc' = "modules" /\ heap' = heap /\ scan' = scan /\ load' = load /\ nth' = nth
    BY DEF MakeNull, Goto
  <1>1. PICK ok \in BOOLEAN : NodeCall(<<"dev">>, "null", 1, ok)
    BY DEF MakeNull
  <1>2. BootGraph /\ LinksAreFirst /\ InitrdIsDirectory /\ IndexInRange
    BY DEF BootParts
  <1>3. Len(<<"dev">>) \in Nat /\ 1 \in Nat \ {0}
    OBVIOUS
  <1>4. Kept("null", "REGULAR")
    BY <1>0, <1>1, <1>2, <1>3, NodeKeeps
  <1>5. InitrdIsDirectory'
    <2>1. "null" # "initrd"
      OBVIOUS
    <2>2. QED
      BY <1>0, <1>2, <1>4, <2>1, NamesKept DEF Kept
  <1>6. IndexInRange'
    BY <1>0, <1>2 DEF IndexInRange
  <1>7. QED
    BY <1>0, <1>4, <1>5, <1>6, QuietKeeps DEF Kept

\* bl_GetModules.
LEMMA GetModulesKeeps ==
  ASSUME BootParts, GetModules
  PROVE  BootParts'
  <1>0. /\ pc = "modules" /\ pc' \in {"load_initrd", "panic"} /\ heap' = heap /\ scan' = scan
        /\ load' = load /\ nth' = nth /\ nd' = nd /\ fault' = fault
    BY DEF GetModules, Goto
  <1>1. BootGraph /\ LinksAreFirst /\ InitrdIsDirectory /\ IndexInRange /\ BootShape
    BY BootShapeNow DEF BootParts
  <1>2. used' \in used .. heap
    <2>1. used \in Nat /\ heap \in Nat /\ used <= heap
      BY <1>1 DEF BootShape
    <2>2. used' = used \/ (used' = used + 1 /\ Left >= 1)
      BY DEF GetModules, Gets
    <2>3. QED
      BY <2>1, <2>2 DEF Left
  <1>3. BootGraph' /\ LinksAreFirst'
    BY <1>0, <1>1, <1>2, SameNodes
  <1>4. InitrdIsDirectory' /\ IndexInRange'
    BY <1>0, <1>1 DEF InitrdIsDirectory, IndexInRange
  <1>5. QED
    BY <1>0, <1>3, <1>4, QuietKeeps

\* The test file.
LEMMA WriteTestKeeps ==
  ASSUME BootParts, WriteTest
  PROVE  BootParts'
  <1>0. /\ pc = "test" /\ ~fault /\ heap' = heap /\ scan' = scan /\ load' = load /\ nth' = nth
        /\ pc' \in {"list", "test"}
    BY DEF WriteTest, Goto
  <1>1. BootGraph /\ LinksAreFirst /\ IndexInRange /\ BootShape
    BY BootShapeNow DEF BootParts
  <1>2. InitrdIsDirectory' /\ IndexInRange'
    BY <1>0, <1>1 DEF InitrdIsDirectory, IndexInRange
  <1>3. CASE FileCall(TEST_DIR, "testwr.txt", TRUE)
    <2>1. Len(TEST_DIR) \in Nat /\ TRUE \in BOOLEAN
      BY DEF TEST_DIR
    <2>2. Kept("testwr.txt", "REGULAR")
      BY <1>0, <1>1, <1>3, <2>1, FileKeeps
    <2>3. QED
      BY <1>0, <1>2, <2>2, QuietKeeps DEF Kept
  <1>4. CASE UNCHANGED <<nd, used, freed, list>>
    <2>1. nd' = nd /\ used' \in used .. heap
      BY <1>1, <1>4 DEF BootShape
    <2>2. BootGraph' /\ LinksAreFirst'
      BY <1>0, <1>1, <2>1, SameNodes
    <2>3. QED
      BY <1>0, <1>2, <2>2, QuietKeeps
  <1>5. QED
    BY <1>3, <1>4 DEF WriteTest

\* A step of the listings, or none.
LEMMA ListKeeps ==
  ASSUME BootParts, ListEntry \/ ListNested
  PROVE  BootParts'
  <1>0. /\ pc = "list" /\ ~fault /\ heap' = heap /\ scan' = scan /\ load' = load /\ nth' = nth
        /\ pc' \in {"list", "idle"} /\ nd' = nd /\ used' = used
    BY DEF ListEntry, ListNested, Goto, nodeVars
  <1>1. BootGraph /\ LinksAreFirst /\ IndexInRange /\ BootShape
    BY BootShapeNow DEF BootParts
  <1>2. InitrdIsDirectory' /\ IndexInRange'
    BY <1>0, <1>1 DEF InitrdIsDirectory, IndexInRange
  <1>3. nd' = nd /\ used' \in used .. heap
    BY <1>0, <1>1 DEF BootShape
  <1>4. BootGraph' /\ LinksAreFirst'
    BY <1>0, <1>1, <1>3, SameNodes
  <1>5. QED
    BY <1>0, <1>2, <1>4, QuietKeeps

\* The frames of pci_scanBus.
ScanFrame == [bus : Nat, dev : Nat, func : Nat, file : {"dir"} \cup PciFiles]

\* A frame is at the first function of a device, or at one of a device with several.
AtFunction(r) == r.func = 0 \/ \E z \in At(r.bus, r.dev, 0) : z.multi

\* What via says of the frames.
Via(via) ==
  /\ via \in [2 .. Len(scan) -> Bridges]
  /\ \A j, k \in 2 .. Len(scan) : DevName(via[j]) = DevName(via[k]) => j = k
  /\ ~fault => \A k \in 2 .. Len(scan) : Found(DevName(via[k]))
  /\ ~fault /\ scan # <<>> => Top.file = "dir" \/
       (Found(DevName(Top)) /\ \A k \in 2 .. Len(scan) : DevName(via[k]) # DevName(Top))

-----------------------------------------------------------------------------
(* Scanning the PCI buses. *)

\* The frames while a bus is scanned.
LEMMA ScanNow ==
  ASSUME BootParts, pc = "scan"
  PROVE  /\ BootShape /\ BootGraph /\ LinksAreFirst
         /\ scan \in Seq(ScanFrame) /\ Len(scan) \in Nat /\ Len(scan) >= 1 /\ Top \in ScanFrame
         /\ scan # <<>> /\ AtFunction(Top)
         /\ \A k \in 1 .. Len(scan) : AtFunction(scan[k]) /\ (k < Len(scan) => scan[k].file = "dir")
         /\ \E via : Via(via)
  <1>1. BootGraph /\ LinksAreFirst /\ BootShape
    BY BootShapeNow DEF BootParts
  <1>2. scan \in Seq(ScanFrame) /\ scan # <<>>
    BY DEF BootParts, ScanFrames, ScanFrame
  <1>3. Len(scan) \in Nat /\ Len(scan) >= 1 /\ Len(scan) \in 1 .. Len(scan)
    BY <1>2
  <1>4. Top \in ScanFrame
    BY <1>2, <1>3 DEF Top
  <1>5. \A k \in 1 .. Len(scan) : AtFunction(scan[k]) /\ (k < Len(scan) => scan[k].file = "dir")
    BY DEF BootParts, ScanFrames, AtFunction
  <1>6. AtFunction(Top)
    BY <1>3, <1>5 DEF Top
  <1>7. \E via : Via(via)
    BY DEF BootParts, EnteredByBridges, Via
  <1>8. QED
    BY <1>1, <1>2, <1>3, <1>4, <1>5, <1>6, <1>7

\* The same machine.
LEMMA SameMachine ==
  ASSUME wired' = wired
  PROVE  Bridges' = Bridges /\ \A b, d, f : At(b, d, f)' = At(b, d, f)
  <1>1. \A b, d, f : At(b, d, f)' = At(b, d, f)
    BY DEF At
  <1>2. Visible' = Visible
    BY DEF Visible, At
  <1>3. Bridges' = Bridges
    BY <1>2 DEF Bridges
  <1>4. QED
    BY <1>1, <1>3

\* What a step of the scan leaves as it should be.
LEMMA ScanStepKeeps ==
  ASSUME BootParts, pc \in {"pci_dir", "scan"}, pc' \in {"scan", "test"}, load' = load, nth' \in Nat,
         BootGraph', LinksAreFirst', fault => fault', ScanFrames', EnteredByBridges'
  PROVE  BootParts'
  <1>1. ~fault' => load' = <<>>
    BY DEF BootParts, LoadFrames
  <1>2. ~fault' => LoadFrames'
    BY <1>1, NoLoad
  <1>3. InitrdIsDirectory' /\ IndexInRange'
    BY DEF InitrdIsDirectory, IndexInRange
  <1>4. QED
    BY <1>2, <1>3 DEF BootParts

\* The first bus of a host controller.
LEMMA FirstBus ==
  ASSUME NEW b \in Nat, scan' = <<Bus(b)>>, pc' = "scan"
  PROVE  ScanFrames' /\ EnteredByBridges'
  <1>1. PICK r : r = Bus(b)
    OBVIOUS
  <1>2. r \in ScanFrame /\ r.func = 0 /\ r.file = "dir"
    BY <1>1 DEF Bus, ScanFrame
  <1>3. scan' = <<r>> /\ Len(scan') = 1 /\ scan'[1] = r /\ scan' # <<>> /\ scan' \in Seq(ScanFrame)
    BY <1>1, <1>2
  <1>4. \A k \in 1 .. Len(scan') : k = 1 /\ ~(k < Len(scan'))
    BY <1>3
  <1>5. ScanFrames'
    BY <1>2, <1>3, <1>4 DEF ScanFrames, ScanFrame
  <1>6. 2 .. Len(scan') = {}
    BY <1>3
  <1>7. PICK via : via = [x \in 2 .. Len(scan') |-> x]
    OBVIOUS
  <1>8. via \in [2 .. Len(scan') -> Bridges']
    BY <1>6, <1>7
  <1>9. Top'.file = "dir"
    BY <1>2, <1>3 DEF Top
  <1>10. EnteredByBridges'
    BY <1>6, <1>8, <1>9 DEF EnteredByBridges
  <1>11. QED
    BY <1>5, <1>10

\* The frames with another last one.
WithTop(r) == [scan EXCEPT ![Len(scan)] = r]

\* They are as they should be if it is.
LEMMA SetTop ==
  ASSUME BootParts, pc = "scan", NEW r \in ScanFrame, AtFunction(r), NEW s,
         s = WithTop(r)
  PROVE  /\ s \in Seq(ScanFrame) /\ Len(s) = Len(scan) /\ s[Len(scan)] = r /\ s # <<>>
         /\ \A k \in 1 .. Len(s) : AtFunction(s[k]) /\ (k < Len(s) => s[k].file = "dir")
  <1>1. PICK n : n = Len(scan)
    OBVIOUS
  <1>2. /\ scan \in Seq(ScanFrame) /\ n \in Nat /\ n >= 1 /\ n \in 1 .. n
        /\ \A k \in 1 .. n : AtFunction(scan[k]) /\ (k < n => scan[k].file = "dir")
    BY <1>1, ScanNow
  <1>3. scan \in [1 .. n -> ScanFrame]
    BY <1>1, <1>2
  <1>4. s = [scan EXCEPT ![n] = r]
    BY <1>1 DEF WithTop
  <1>5. s \in [1 .. n -> ScanFrame] /\ s[n] = r /\ \A k \in 1 .. n : k # n => s[k] = scan[k]
    BY <1>2, <1>3, <1>4
  <1>6. s \in Seq(ScanFrame) /\ Len(s) = n
    BY <1>2, <1>5, IsSequence
  <1>7. \A k \in 1 .. n : AtFunction(s[k]) /\ (k < n => s[k].file = "dir")
    <2>1. \A k \in 1 .. n : k < n => k # n
      BY <1>2
    <2>2. QED
      BY <1>2, <1>5, <2>1
  <1>8. s # <<>>
    BY <1>2, <1>6
  <1>9. QED
    BY <1>1, <1>5, <1>6, <1>7, <1>8

\* Frames that are as they should be.
LEMMA FramesThen ==
  ASSUME NEW s, s \in Seq(ScanFrame), s # <<>>, wired' = wired, scan' = s, pc' = "scan",
         \A k \in 1 .. Len(s) : AtFunction(s[k]) /\ (k < Len(s) => s[k].file = "dir")
  PROVE  ScanFrames'
  <1>1. \A b, d, f : At(b, d, f)' = At(b, d, f)
    BY SameMachine
  <1>2. \A k \in 1 .. Len(s) :
          /\ k < Len(s) => s[k].file = "dir"
          /\ s[k].func = 0 \/ \E z \in At(s[k].bus, s[k].dev, 0)' : z.multi
    BY <1>1 DEF AtFunction
  <1>3. QED
    BY <1>2 DEF ScanFrames, ScanFrame

\* The bridges of the frames stay when the last frame is replaced.
LEMMA SameVia ==
  ASSUME BootShape, BootShape', Grown, fault => fault', wired' = wired, NEW via, Via(via),
         NEW n, n = Len(scan), Len(scan') = n, NEW r, scan'[n] = r,
         ~fault' => r.file = "dir" \/
           (Found(DevName(r))' /\ \A k \in 2 .. n : DevName(via[k]) # DevName(r))
  PROVE  EnteredByBridges'
  <1>1. via \in [2 .. Len(scan') -> Bridges']
    BY SameMachine DEF Via
  <1>2. \A j, k \in 2 .. Len(scan') : DevName(via[j]) = DevName(via[k]) => j = k
    BY DEF Via
  <1>3. ASSUME ~fault', NEW k \in 2 .. Len(scan') PROVE Found(DevName(via[k]))'
    <2>1. PICK name : name = DevName(via[k])
      OBVIOUS
    <2>2. Found(name)
      BY <1>3, <2>1 DEF Via
    <2>3. Found(name)'
      BY <2>2, FoundStays
    <2>4. QED
      BY <2>1, <2>3
  <1>4. Top' = r
    BY DEF Top
  <1>5. ~fault' => Top'.file = "dir" \/
           (Found(DevName(Top))' /\ \A k \in 2 .. Len(scan') : DevName(via[k]) # DevName(Top)')
    <2>1. DevName(Top)' = DevName(r)
      BY <1>4 DEF DevName
    <2>2. Found(DevName(r))' => Found(DevName(Top))'
      BY <1>4, <2>1 DEF Found
    <2>3. QED
      BY <1>4, <2>1, <2>2
  <1>6. QED
    BY <1>1, <1>2, <1>3, <1>5 DEF EnteredByBridges, DevName

\* The last frame is left.
LEMMA PopKeeps ==
  ASSUME BootParts, pc = "scan", pc' = "scan", load' = load, nth' = nth, wired' = wired,
         BootGraph', LinksAreFirst', Grown, fault => fault', Len(scan) # 1, scan' = Front(scan)
  PROVE  BootParts'
  <1>1. PICK n, s : n = Len(scan) /\ s = Front(scan)
    OBVIOUS
  <1>2. /\ BootShape /\ scan \in Seq(ScanFrame) /\ n \in Nat /\ n >= 1
        /\ \A k \in 1 .. n : AtFunction(scan[k]) /\ (k < n => scan[k].file = "dir")
    BY <1>1, ScanNow
  <1>3. n >= 2 /\ n - 1 \in Nat /\ n - 1 \in 1 .. n /\ n - 1 < n
    BY <1>1, <1>2
  <1>4. s = SubSeq(scan, 1, n - 1)
    BY <1>1 DEF Front
  <1>5. s \in Seq(ScanFrame) /\ Len(s) = n - 1 /\ \A k \in 1 .. n - 1 : s[k] = scan[k]
    BY <1>1, <1>2, <1>3, <1>4
  <1>6. \A k \in 1 .. n - 1 : k \in 1 .. n /\ k < n
    BY <1>2
  <1>7. \A k \in 1 .. Len(s) : AtFunction(s[k]) /\ s[k].file = "dir"
    BY <1>2, <1>5, <1>6
  <1>8. s # <<>> /\ scan' = s
    BY <1>1, <1>3, <1>5
  <1>9. ScanFrames'
    BY <1>5, <1>7, <1>8, FramesThen
  <1>10. BootShape'
    BY BootShapeThen
  <1>11. PICK via : Via(via)
    BY ScanNow
  <1>12. PICK v : v = [k \in 2 .. n - 1 |-> via[k]]
    OBVIOUS
  <1>13. \A k \in 2 .. n - 1 : k \in 2 .. n /\ v[k] = via[k]
    BY <1>2, <1>12
  <1>14. Len(scan') = n - 1 /\ Top'.file = "dir"
    <2>1. n - 1 \in 1 .. Len(s)
      BY <1>3, <1>5
    <2>2. QED
      BY <1>5, <1>7, <1>8, <2>1 DEF Top
  <1>15. v \in [2 .. Len(scan') -> Bridges']
    <2>1. via \in [2 .. n -> Bridges]
      BY <1>1, <1>11 DEF Via
    <2>2. \A k \in 2 .. n - 1 : via[k] \in Bridges
      BY <1>13, <2>1
    <2>3. v \in [2 .. n - 1 -> Bridges]
      BY <1>12, <2>2
    <2>4. QED
      BY <1>14, <2>3, SameMachine
  <1>16. \A j, k \in 2 .. Len(scan') : DevName(v[j]) = DevName(v[k]) => j = k
    BY <1>1, <1>11, <1>13, <1>14 DEF Via
  <1>17. ASSUME ~fault', NEW k \in 2 .. Len(scan') PROVE Found(DevName(v[k]))'
    <2>1. PICK name : name = DevName(via[k])
      OBVIOUS
    <2>2. k \in 2 .. n /\ v[k] = via[k]
      BY <1>13, <1>14, <1>17
    <2>3. Found(name)
      BY <1>1, <1>11, <1>17, <2>1, <2>2 DEF Via
    <2>4. Found(name)'
      BY <1>2, <1>10, <2>3, FoundStays
    <2>5. QED
      BY <2>1, <2>2, <2>4
  <1>18. EnteredByBridges'
    BY <1>14, <1>15, <1>16, <1>17 DEF EnteredByBridges, DevName
  <1>19. nth' \in Nat
    BY DEF BootParts, IndexInRange
  <1>20. QED
    BY <1>9, <1>18, <1>19, ScanStepKeeps

\* A bus is given up.
LEMMA GivenUpKeeps ==
  ASSUME BootParts, pc = "scan", load' = load, nth' = nth, wired' = wired,
         BootGraph', LinksAreFirst', Grown, fault => fault', GivenUp
  PROVE  BootParts'
  <1>1. CASE Len(scan) = 1
    <2>1. pc' = "test" /\ scan' = <<>>
      BY <1>1 DEF GivenUp, Goto
    <2>2. ScanFrames' /\ EnteredByBridges'
      BY <2>1, NoScan
    <2>3. nth' \in Nat
      BY DEF BootParts, IndexInRange
    <2>4. QED
      BY <2>1, <2>2, <2>3, ScanStepKeeps
  <1>2. CASE Len(scan) # 1
    <2>1. pc' = "scan" /\ scan' = Front(scan)
      BY <1>2 DEF GivenUp, Goto
    <2>2. QED
      BY <1>2, <2>1, PopKeeps
  <1>3. QED
    BY <1>1, <1>2

\* The last frame goes on to r.
LEMMA TopKeeps ==
  ASSUME BootParts, pc = "scan", pc' = "scan", load' = load, nth' = nth, wired' = wired,
         BootGraph', LinksAreFirst', Grown, fault => fault', NEW r \in ScanFrame, AtFunction(r),
         scan' = WithTop(r), NEW via, Via(via),
         ~fault' => r.file = "dir" \/
           (Found(DevName(r))' /\ \A k \in 2 .. Len(scan) : DevName(via[k]) # DevName(r))
  PROVE  BootParts'
  <1>1. PICK n, s : n = Len(scan) /\ s = WithTop(r)
    OBVIOUS
  <1>2. /\ s \in Seq(ScanFrame) /\ Len(s) = n /\ s[n] = r /\ s # <<>>
        /\ \A k \in 1 .. Len(s) : AtFunction(s[k]) /\ (k < Len(s) => s[k].file = "dir")
    BY <1>1, SetTop
  <1>3. ScanFrames'
    BY <1>1, <1>2, FramesThen
  <1>4. BootShape /\ BootShape'
    BY ScanNow, BootShapeThen
  <1>5. Len(scan') = n /\ scan'[n] = r
    BY <1>1, <1>2
  <1>6. ~fault' => r.file = "dir" \/
           (Found(DevName(r))' /\ \A k \in 2 .. n : DevName(via[k]) # DevName(r))
    BY <1>1
  <1>7. EnteredByBridges'
    BY <1>1, <1>4, <1>5, <1>6, SameVia
  <1>8. nth' \in Nat
    BY DEF BootParts, IndexInRange
  <1>9. QED
    BY <1>3, <1>7, <1>8, ScanStepKeeps

\* The function after one.
LEMMA NextFrame ==
  ASSUME NEW f \in ScanFrame
  PROVE  NextFunction(f) \in ScanFrame /\ NextFunction(f).file = "dir" /\ AtFunction(NextFunction(f))
  <1>1. /\ f.bus \in Nat /\ f.dev \in Nat /\ f.func \in Nat
        /\ f = [bus |-> f.bus, dev |-> f.dev, func |-> f.func, file |-> f.file]
    BY DEF ScanFrame
  <1>2. PICK x, y : x = [f EXCEPT !.func = @ + 1, !.file = "dir"]
                    /\ y = [f EXCEPT !.dev = @ + 1, !.func = 0, !.file = "dir"]
    OBVIOUS
  <1>3. /\ x = [bus |-> f.bus, dev |-> f.dev, func |-> f.func + 1, file |-> "dir"]
        /\ y = [bus |-> f.bus, dev |-> f.dev + 1, func |-> 0, file |-> "dir"]
    BY <1>1, <1>2
  <1>4. f.func + 1 \in Nat /\ f.dev + 1 \in Nat
    BY <1>1
  <1>5. x \in ScanFrame /\ y \in ScanFrame /\ x.file = "dir" /\ y.file = "dir" /\ y.func = 0
        /\ x.bus = f.bus /\ x.dev = f.dev
    BY <1>1, <1>3, <1>4 DEF ScanFrame
  <1>6. CASE f.func + 1 < PCI_FUNC_PER_DEV /\ At(f.bus, f.dev, 0) # {} /\ IsMulti(f.bus, f.dev)
    <2>1. NextFunction(f) = x
      BY <1>2, <1>6 DEF NextFunction
    <2>2. \E z \in At(f.bus, f.dev, 0) : z.multi
      BY <1>6 DEF IsMulti
    <2>3. AtFunction(x)
      BY <1>5, <2>2 DEF AtFunction
    <2>4. QED
      BY <1>5, <2>1, <2>3
  <1>7. CASE ~(f.func + 1 < PCI_FUNC_PER_DEV /\ At(f.bus, f.dev, 0) # {} /\ IsMulti(f.bus, f.dev))
    <2>1. NextFunction(f) = y
      BY <1>2, <1>7 DEF NextFunction
    <2>2. AtFunction(y)
      BY <1>5 DEF AtFunction
    <2>3. QED
      BY <1>5, <2>1, <2>2
  <1>8. QED
    BY <1>6, <1>7

\* pci_scan.
LEMMA MakePciDirKeeps ==
  ASSUME BootParts, MakePciDir
  PROVE  BootParts'
  <1>0. pc = "pci_dir" /\ nth' = 0 /\ heap' = heap /\ load' = load /\ nth' \in Nat
    BY DEF MakePciDir
  <1>1. PICK ok \in BOOLEAN :
          /\ MkDirCall(DEVICE, "pci", ok)
          /\ \/ pc' = "test" /\ scan' = <<>>
             \/ pc' = "scan" /\ scan' = <<Bus(0)>>
    BY DEF MakePciDir, Goto
  <1>2. BootGraph /\ LinksAreFirst /\ Len(DEVICE) \in Nat
    BY DEF BootParts, DEVICE
  <1>3. Kept("pci", "DIRECTORY")
    BY <1>0, <1>1, <1>2, MkDirKeeps
  <1>4. ScanFrames' /\ EnteredByBridges'
    BY <1>1, NoScan, FirstBus
  <1>5. pc' \in {"scan", "test"}
    BY <1>1
  <1>6. QED
    BY <1>0, <1>3, <1>4, <1>5, ScanStepKeeps DEF Kept

\* What a step of pci_scanBus leaves alone.
LEMMA ScanStepLeaves ==
  ASSUME BootParts, ScanStep, KeepScan
  PROVE  /\ pc = "scan" /\ ~fault /\ load' = load /\ nth' = nth /\ wired' = wired /\ heap' = heap
         /\ BootShape /\ BootGraph /\ LinksAreFirst /\ Top \in ScanFrame /\ AtFunction(Top)
         /\ scan # <<>> /\ \E via : Via(via)
  <1>1. pc = "scan" /\ ~fault /\ load' = load /\ nth' = nth /\ wired' = wired /\ heap' = heap
    BY DEF ScanStep, KeepScan
  <1>2. QED
    BY <1>1, ScanNow

\* A function that is not there.
LEMMA SkipFunctionKeeps ==
  ASSUME BootParts, SkipFunction
  PROVE  BootParts'
  <1>0. ScanStep /\ KeepScan /\ pc' = "scan" /\ UNCHANGED nodeVars
        /\ scan' = [scan EXCEPT ![Len(scan)] = NextFunction(Top)]
    BY DEF SkipFunction, Goto
  <1>1. /\ pc = "scan" /\ ~fault /\ load' = load /\ nth' = nth /\ wired' = wired /\ heap' = heap
        /\ BootShape /\ BootGraph /\ LinksAreFirst /\ Top \in ScanFrame /\ \E via : Via(via)
    BY <1>0, ScanStepLeaves
  <1>2. nd' = nd /\ used' \in used .. heap /\ fault' = fault
    BY <1>0, <1>1 DEF nodeVars, BootShape
  <1>3. BootGraph' /\ LinksAreFirst' /\ Grown
    BY <1>1, <1>2, SameNodes
  <1>4. PICK r : r = NextFunction(Top)
    OBVIOUS
  <1>5. r \in ScanFrame /\ r.file = "dir" /\ AtFunction(r) /\ scan' = WithTop(r)
    BY <1>0, <1>1, <1>4, NextFrame DEF WithTop
  <1>6. PICK via : Via(via)
    BY <1>1
  <1>7. QED
    BY <1>0, <1>1, <1>2, <1>3, <1>5, <1>6, TopKeeps

\* The frame at the same function with another file.
LEMMA SetFile ==
  ASSUME NEW f \in ScanFrame, AtFunction(f), NEW file \in PciFiles
  PROVE  LET r == [f EXCEPT !.file = file]
         IN  r \in ScanFrame /\ AtFunction(r) /\ r.file = file /\ DevName(r) = DevName(f)
  <1>1. PICK r : r = [f EXCEPT !.file = file]
    OBVIOUS
  <1>2. r \in ScanFrame /\ r.file = file /\ r.bus = f.bus /\ r.dev = f.dev /\ r.func = f.func
    BY <1>1 DEF ScanFrame
  <1>3. AtFunction(r) /\ DevName(r) = DevName(f)
    BY <1>2 DEF AtFunction, DevName
  <1>4. QED
    BY <1>1, <1>2, <1>3

\* The last frame goes on to another file.
LEMMA FileKeepsTop ==
  ASSUME BootParts, pc = "scan", NEW file, scan' = [scan EXCEPT ![Len(scan)].file = file]
  PROVE  scan' = WithTop([Top EXCEPT !.file = file])
  <1>1. scan \in Seq(ScanFrame) /\ Len(scan) \in Nat /\ Len(scan) >= 1
    BY ScanNow
  <1>2. QED
    BY <1>1 DEF WithTop, Top

\* pci_ramfs_addnode: the directory of the function was not there, so it is none of
\* those of the bridges the scan has entered.
LEMMA AddNodeKeeps ==
  ASSUME BootParts, AddNode
  PROVE  BootParts'
  <1>0. ScanStep /\ KeepScan
    BY DEF AddNode
  <1>1. /\ pc = "scan" /\ ~fault /\ load' = load /\ nth' = nth /\ wired' = wired /\ heap' = heap
        /\ BootShape /\ BootGraph /\ LinksAreFirst /\ Top \in ScanFrame /\ AtFunction(Top)
        /\ \E via : Via(via)
    BY <1>0, ScanStepLeaves
  <1>2. PICK ok \in BOOLEAN :
          /\ MkDirCall(PCI, DevName(Top), ok)
          /\ IF ok THEN Goto("scan") /\ scan' = [scan EXCEPT ![Len(scan)].file = "vendor"] ELSE GivenUp
    BY DEF AddNode
  <1>3. PICK f, name : f = Top /\ name = DevName(f)
    OBVIOUS
  <1>4. Len(PCI) \in Nat /\ MkDirCall(PCI, name, ok)
    BY <1>2, <1>3 DEF PCI
  <1>5. /\ Kept(name, "DIRECTORY")
        /\ ok => FsGetNode(PCI) # NULL /\ FsFind(FsGetNode(PCI), name) = NULL
        /\ ok /\ ~fault' => FsGetNode(PCI)' # NULL /\ FsFind(FsGetNode(PCI), name)' # NULL
    BY <1>1, <1>4, MkDirKeeps
  <1>6. BootGraph' /\ LinksAreFirst' /\ Grown /\ (fault => fault')
    BY <1>5 DEF Kept
  <1>7. CASE ~ok
    BY <1>1, <1>2, <1>6, <1>7, GivenUpKeeps
  <1>8. CASE ok
    <2>1. pc' = "scan" /\ scan' = [scan EXCEPT ![Len(scan)].file = "vendor"]
      BY <1>2, <1>8 DEF Goto
    <2>2. PICK r : r = [f EXCEPT !.file = "vendor"]
      OBVIOUS
    <2>3. "vendor" \in PciFiles
      BY DEF PciFiles, AfterFile
    <2>4. r \in ScanFrame /\ AtFunction(r) /\ DevName(r) = name
      BY <1>1, <1>3, <2>2, <2>3, SetFile
    <2>5. scan' = WithTop(r)
      BY <1>1, <1>3, <2>1, <2>2, FileKeepsTop
    <2>6. PICK via : Via(via)
      BY <1>1
    <2>7. ~Found(name) /\ (~fault' => Found(name)')
      BY <1>5, <1>8 DEF Found
    <2>8. \A k \in 2 .. Len(scan) : DevName(via[k]) # name
      BY <1>1, <2>6, <2>7 DEF Via
    <2>9. ~fault' => r.file = "dir" \/
            (Found(DevName(r))' /\ \A k \in 2 .. Len(scan) : DevName(via[k]) # DevName(r))
      BY <2>4, <2>7, <2>8
    <2>10. QED
      BY <1>1, <1>6, <2>1, <2>4, <2>5, <2>6, <2>9, TopKeeps
  <1>9. QED
    BY <1>7, <1>8

\* pci_ramfs_addFiles.
LEMMA AddFileKeeps ==
  ASSUME BootParts, AddFile
  PROVE  BootParts'
  <1>0. ScanStep /\ KeepScan /\ Top.file \in DOMAIN AfterFile
    BY DEF AddFile
  <1>1. /\ pc = "scan" /\ ~fault /\ load' = load /\ nth' = nth /\ wired' = wired /\ heap' = heap
        /\ BootShape /\ BootGraph /\ LinksAreFirst /\ Top \in ScanFrame /\ AtFunction(Top)
        /\ scan # <<>> /\ \E via : Via(via)
    BY <1>0, ScanStepLeaves
  <1>2. PICK ok \in BOOLEAN :
          /\ FileCall(DevPath(Top), Top.file, ok)
          /\ IF ok THEN Goto("scan") /\ scan' = [scan EXCEPT ![Len(scan)].file = AfterFile[Top.file]]
             ELSE GivenUp
    BY DEF AddFile
  <1>3. PICK f, name, path : f = Top /\ name = DevName(f) /\ path = DevPath(f)
    OBVIOUS
  <1>4. Len(path) \in Nat
    BY <1>3 DEF DevPath, PCI
  <1>5. Kept(f.file, "REGULAR")
    BY <1>1, <1>2, <1>3, <1>4, FileKeeps
  <1>6. BootGraph' /\ LinksAreFirst' /\ Grown /\ (fault => fault')
    BY <1>5 DEF Kept
  <1>7. CASE ~ok
    BY <1>1, <1>2, <1>6, <1>7, GivenUpKeeps
  <1>8. CASE ok
    <2>1. PICK file : file = AfterFile[f.file]
      OBVIOUS
    <2>2. pc' = "scan" /\ scan' = [scan EXCEPT ![Len(scan)].file = file]
      BY <1>2, <1>3, <1>8, <2>1 DEF Goto
    <2>3. file \in PciFiles /\ f.file # "dir"
      BY <1>0, <1>3, <2>1 DEF PciFiles, AfterFile
    <2>4. PICK r : r = [f EXCEPT !.file = file]
      OBVIOUS
    <2>5. r \in ScanFrame /\ AtFunction(r) /\ DevName(r) = name
      BY <1>1, <1>3, <2>3, <2>4, SetFile
    <2>6. scan' = WithTop(r)
      BY <1>1, <1>3, <2>2, <2>4, FileKeepsTop
    <2>7. PICK via : Via(via)
      BY <1>1
    <2>8. Found(name) /\ \A k \in 2 .. Len(scan) : DevName(via[k]) # name
      BY <1>1, <1>3, <2>3, <2>7 DEF Via
    <2>9. Found(name)'
      BY <1>1, <1>6, <2>8, BootShapeThen, FoundStays
    <2>10. ~fault' => r.file = "dir" \/
             (Found(DevName(r))' /\ \A k \in 2 .. Len(scan) : DevName(via[k]) # DevName(r))
      BY <2>5, <2>8, <2>9
    <2>11. QED
      BY <1>1, <1>6, <2>2, <2>5, <2>6, <2>7, <2>10, TopKeeps
  <1>9. QED
    BY <1>7, <1>8

\* A bus is entered: its bridge is none of those entered before.
LEMMA EnterKeeps ==
  ASSUME BootParts, pc = "scan", ~fault, pc' = "scan", load' = load, nth' = nth, wired' = wired,
         BootGraph', LinksAreFirst', Grown, NEW via, Via(via), NEW w \in At(Top.bus, Top.dev, Top.func),
         w.bridge, wired \subseteq [bus : Nat, dev : Nat, func : Nat, multi : BOOLEAN,
                                    bridge : BOOLEAN, secondary : Nat],
         Top.file = "config", scan' = WithTop(NextFunction(Top)) \o <<Bus(w.secondary)>>
  PROVE  BootParts'
  <1>0. /\ BootShape /\ Top \in ScanFrame /\ AtFunction(Top) /\ scan # <<>>
        /\ Len(scan) \in Nat /\ Len(scan) >= 1 /\ BootShape'
    BY ScanNow, BootShapeThen
  <1>1. PICK n, f, r, s, b :
          n = Len(scan) /\ f = Top /\ r = NextFunction(f) /\ s = WithTop(r) /\ b = Bus(w.secondary)
    OBVIOUS
  <1>2. r \in ScanFrame /\ r.file = "dir" /\ AtFunction(r)
    BY <1>0, <1>1, NextFrame
  <1>3. /\ s \in Seq(ScanFrame) /\ Len(s) = n /\ s[n] = r
        /\ \A k \in 1 .. n : AtFunction(s[k]) /\ (k < n => s[k].file = "dir")
    BY <1>1, <1>2, SetTop
  <1>4. b \in ScanFrame /\ b.func = 0 /\ b.file = "dir" /\ AtFunction(b)
    <2>1. w.secondary \in Nat
      BY DEF At
    <2>2. b \in ScanFrame /\ b.func = 0 /\ b.file = "dir"
      BY <1>1, <2>1 DEF Bus, ScanFrame
    <2>3. QED
      BY <2>2 DEF AtFunction
  <1>5. PICK t : t = s \o <<b>>
    OBVIOUS
  <1>6. /\ t \in Seq(ScanFrame) /\ Len(t) = n + 1 /\ t[n + 1] = b /\ t # <<>>
        /\ \A k \in 1 .. n : t[k] = s[k]
    <2>1. n \in Nat /\ n >= 1 /\ <<b>> \in Seq(ScanFrame) /\ Len(<<b>>) = 1
      BY <1>0, <1>1, <1>4
    <2>2. t \in Seq(ScanFrame) /\ Len(t) = n + 1
      BY <1>3, <1>5, <2>1
    <2>3. t[n + 1] = b /\ \A k \in 1 .. n : t[k] = s[k]
      BY <1>3, <1>5, <2>1
    <2>4. QED
      BY <2>1, <2>2, <2>3
  <1>7. scan' = t
    BY <1>1, <1>5
  <1>8. \A k \in 1 .. Len(t) : AtFunction(t[k]) /\ (k < Len(t) => t[k].file = "dir")
    <2>1. ASSUME NEW k \in 1 .. n + 1 PROVE AtFunction(t[k]) /\ t[k].file = "dir"
      <3>1. CASE k = n + 1
        BY <1>4, <1>6, <3>1
      <3>2. CASE k # n + 1
        <4>1. k \in 1 .. n /\ (k < n \/ k = n)
          BY <1>0, <1>1, <2>1, <3>2
        <4>2. QED
          BY <1>2, <1>3, <1>6, <4>1
      <3>3. QED
        BY <3>1, <3>2
    <2>2. QED
      BY <1>6, <2>1
  <1>9. ScanFrames'
    BY <1>6, <1>7, <1>8, FramesThen
  <1>10. w \in Bridges /\ DevName(w) = DevName(f)
    <2>1. w \in wired /\ w.bus = f.bus /\ w.dev = f.dev /\ w.func = f.func
      BY <1>1 DEF At
    <2>2. w.func = 0 \/ \E z \in At(w.bus, w.dev, 0) : z.multi
      BY <1>0, <1>1, <2>1 DEF AtFunction
    <2>3. w \in Visible
      BY <2>1, <2>2 DEF Visible
    <2>4. DevName(w) = DevName(f)
      BY <2>1 DEF DevName
    <2>5. QED
      BY <2>3, <2>4 DEF Bridges
  <1>11. PICK name : name = DevName(w)
    OBVIOUS
  <1>12. Found(name) /\ \A k \in 2 .. n : DevName(via[k]) # name /\ Found(DevName(via[k]))
    BY <1>0, <1>1, <1>10, <1>11 DEF Via
  <1>13. PICK v : v = [k \in 2 .. n + 1 |-> IF k = n + 1 THEN w ELSE via[k]]
    OBVIOUS
  <1>14. /\ n + 1 \in 2 .. n + 1 /\ v[n + 1] = w
         /\ \A k \in 2 .. n + 1 : k # n + 1 => k \in 2 .. n /\ v[k] = via[k]
    BY <1>0, <1>1, <1>13
  <1>15. via \in [2 .. n -> Bridges] /\ \A j, k \in 2 .. n : DevName(via[j]) = DevName(via[k]) => j = k
    BY <1>1 DEF Via
  <1>16. v \in [2 .. n + 1 -> Bridges]
    BY <1>10, <1>13, <1>14, <1>15
  <1>17. ASSUME NEW j \in 2 .. n + 1, NEW k \in 2 .. n + 1, DevName(v[j]) = DevName(v[k]) PROVE j = k
    <2>1. CASE j = n + 1
      BY <1>11, <1>12, <1>14, <1>17, <2>1
    <2>2. CASE k = n + 1
      BY <1>11, <1>12, <1>14, <1>17, <2>2
    <2>3. CASE j # n + 1 /\ k # n + 1
      BY <1>14, <1>15, <1>17, <2>3
    <2>4. QED
      BY <2>1, <2>2, <2>3
  <1>18. ASSUME NEW k \in 2 .. n + 1 PROVE Found(DevName(v[k]))'
    <2>1. PICK x : x = DevName(v[k])
      OBVIOUS
    <2>2. Found(x)
      BY <1>11, <1>12, <1>14, <1>18, <2>1
    <2>3. Found(x)'
      BY <1>0, <2>2, FoundStays
    <2>4. QED
      BY <2>1, <2>3
  <1>19. Top'.file = "dir" /\ Len(scan') = n + 1
    BY <1>4, <1>6, <1>7 DEF Top
  <1>20. v \in [2 .. Len(scan') -> Bridges']
    BY <1>16, <1>19, SameMachine
  <1>21. EnteredByBridges'
    BY <1>17, <1>18, <1>19, <1>20 DEF EnteredByBridges, DevName
  <1>22. nth' \in Nat
    BY DEF BootParts, IndexInRange
  <1>23. QED
    BY <1>9, <1>21, <1>22, ScanStepKeeps

\* The last file of a function, and the bus behind it.
LEMMA AddConfigKeeps ==
  ASSUME BootParts, AddConfig,
         wired \subseteq [bus : Nat, dev : Nat, func : Nat, multi : BOOLEAN,
                          bridge : BOOLEAN, secondary : Nat]
  PROVE  BootParts'
  <1>0. ScanStep /\ KeepScan /\ Top.file = "config"
    BY DEF AddConfig
  <1>1. /\ pc = "scan" /\ ~fault /\ load' = load /\ nth' = nth /\ wired' = wired /\ heap' = heap
        /\ BootShape /\ BootGraph /\ LinksAreFirst /\ Top \in ScanFrame /\ AtFunction(Top)
        /\ scan # <<>> /\ \E via : Via(via)
    BY <1>0, ScanStepLeaves
  <1>2. PICK ok \in BOOLEAN, w \in At(Top.bus, Top.dev, Top.func) :
          /\ NodeCall(DevPath(Top), "config", 2, ok)
          /\ IF ok
             THEN /\ Goto("scan")
                  /\ scan' = [scan EXCEPT ![Len(scan)] = NextFunction(Top)]
                             \o (IF w.bridge THEN <<Bus(w.secondary)>> ELSE <<>>)
             ELSE GivenUp
    BY DEF AddConfig
  <1>3. PICK path : path = DevPath(Top)
    OBVIOUS
  <1>4. Len(path) \in Nat /\ 2 \in Nat \ {0}
    BY <1>3 DEF DevPath, PCI
  <1>5. Kept("config", "REGULAR")
    BY <1>1, <1>2, <1>3, <1>4, NodeKeeps
  <1>6. BootGraph' /\ LinksAreFirst' /\ Grown /\ (fault => fault')
    BY <1>5 DEF Kept
  <1>7. CASE ~ok
    BY <1>1, <1>2, <1>6, <1>7, GivenUpKeeps
  <1>8. CASE ok
    <2>1. PICK via : Via(via)
      BY <1>1
    <2>2. PICK r : r = NextFunction(Top)
      OBVIOUS
    <2>3. r \in ScanFrame /\ r.file = "dir" /\ AtFunction(r)
      BY <1>1, <2>2, NextFrame
    <2>4. pc' = "scan" /\ scan' = WithTop(r) \o (IF w.bridge THEN <<Bus(w.secondary)>> ELSE <<>>)
      BY <1>2, <1>8, <2>2 DEF Goto, WithTop
    <2>5. CASE w.bridge
      <3>1. scan' = WithTop(NextFunction(Top)) \o <<Bus(w.secondary)>>
        BY <2>2, <2>4, <2>5
      <3>2. QED
        BY <1>0, <1>1, <1>6, <2>1, <2>4, <2>5, <3>1, EnterKeeps
    <2>6. CASE ~w.bridge
      <3>1. WithTop(r) \in Seq(ScanFrame)
        BY <1>1, <2>3, SetTop
      <3>2. scan' = WithTop(r)
        BY <2>4, <2>6, <3>1
      <3>3. QED
        BY <1>1, <1>6, <2>1, <2>3, <2>4, <3>2, TopKeeps
    <2>7. QED
      BY <2>5, <2>6
  <1>9. QED
    BY <1>7, <1>8

\* A bus is done.
LEMMA EndBusKeeps ==
  ASSUME BootParts, EndBus
  PROVE  BootParts'
  <1>0. /\ pc = "scan" /\ ~fault /\ load' = load /\ wired' = wired /\ heap' = heap /\ nd' = nd
        /\ used' = used /\ fault' = fault
    BY DEF EndBus, nodeVars
  <1>1. BootShape /\ BootGraph /\ LinksAreFirst /\ Len(scan) \in Nat /\ Len(scan) >= 1
    BY <1>0, ScanNow
  <1>2. used' \in used .. heap
    BY <1>0, <1>1 DEF BootShape
  <1>3. BootGraph' /\ LinksAreFirst' /\ Grown
    BY <1>0, <1>1, <1>2, SameNodes
  <1>4. nth \in Nat
    BY DEF BootParts, IndexInRange
  <1>5. \/ Len(scan) > 1 /\ pc' = "scan" /\ scan' = Front(scan) /\ nth' = nth
        \/ pc' = "scan" /\ scan' = <<Bus(nth + 1)>> /\ nth' = nth + 1
        \/ pc' = "test" /\ scan' = <<>> /\ nth' = nth
    BY DEF EndBus, Goto
  <1>6. CASE Len(scan) > 1 /\ pc' = "scan" /\ scan' = Front(scan) /\ nth' = nth
    <2>0. PICK n : n = Len(scan)
      OBVIOUS
    <2>1. Len(scan) # 1
      <3>1. n \in Nat /\ n > 1
        BY <1>1, <1>6, <2>0
      <3>2. n # 1
        BY <3>1
      <3>3. QED
        BY <2>0, <3>2
    <2>2. QED
      BY <1>0, <1>3, <1>6, <2>1, PopKeeps
  <1>7. CASE pc' = "scan" /\ scan' = <<Bus(nth + 1)>> /\ nth' = nth + 1
    <2>1. PICK b : b = nth + 1
      OBVIOUS
    <2>2. b \in Nat /\ scan' = <<Bus(b)>> /\ nth' \in Nat
      BY <1>4, <1>7, <2>1
    <2>3. ScanFrames' /\ EnteredByBridges'
      BY <1>7, <2>2, FirstBus
    <2>4. QED
      BY <1>0, <1>3, <1>7, <2>2, <2>3, ScanStepKeeps
  <1>8. CASE pc' = "test" /\ scan' = <<>> /\ nth' = nth
    <2>1. ScanFrames' /\ EnteredByBridges'
      BY <1>8, NoScan
    <2>2. QED
      BY <1>0, <1>3, <1>4, <1>8, <2>1, ScanStepKeeps
  <1>9. QED
    BY <1>5, <1>6, <1>7, <1>8

\* Nothing happens.
LEMMA BootStutters ==
  ASSUME BootInv, UNCHANGED fsVars
  PROVE  BootInv'
  <1>1. /\ nd' = nd /\ used' = used /\ fault' = fault /\ pc' = pc /\ wired' = wired /\ nth' = nth
        /\ load' = load /\ scan' = scan /\ heap' = heap
    BY DEF fsVars, nodeVars, bootVars
  <1>2. NodesAreRecords' /\ PointersAhead' /\ LinksToDirectories' /\ LinksAreFirst'
    BY <1>1 DEF BootInv, NodesAreRecords, PointersAhead, LinksToDirectories, LinksAreFirst
  <1>3. InitrdIsDirectory' /\ IndexInRange' /\ (~fault' => LoadFrames')
    BY <1>1 DEF BootInv, InitrdIsDirectory, IndexInRange, LoadFrames
  <1>4. ScanFrames'
    BY <1>1 DEF BootInv, ScanFrames, At
  <1>5. EnteredByBridges'
    <2>1. \A name : Found(name)' = Found(name)
      BY <1>1 DEF Found, FsGetNode, FsFind, NodeFromSimlink, Children, ListFrom
    <2>2. Bridges' = Bridges /\ Top' = Top
      BY <1>1, SameMachine DEF Top
    <2>3. QED
      BY <1>1, <2>1, <2>2 DEF BootInv, EnteredByBridges, DevName
  <1>6. QED
    BY <1>1, <1>2, <1>3, <1>4, <1>5 DEF BootInv

-----------------------------------------------------------------------------
(* The depth of the scan. *)

\* The boot starts with the root and its links, and nothing to load or to scan.
LEMMA BootInitInv == BootInit => BootInv
  <1> SUFFICES ASSUME BootInit PROVE BootInv
    OBVIOUS
  <1>1. /\ RamfsInit /\ heap \in used .. HEAP_NODES /\ pc = "set_up" /\ nth = 1 /\ load = <<>> /\ scan = <<>>
        /\ \E m \in Machines : wired = m.wired
    BY DEF BootInit
  <1>2. /\ {0, 1, 2} \subseteq Nodes /\ 2 \in 0 .. HEAP_NODES /\ used = 2
        /\ nd[0] = Directory("", 1) /\ nd[1] = Simlink(".", 0, 2) /\ nd[2] = Simlink("..", 0, NULL)
        /\ \A n \in Nodes : n \notin {0, 1, 2} => nd[n] = Unused
        /\ nd = [n \in Nodes |-> nd[n]]
        /\ nd[0].type = "DIRECTORY" /\ nd[0].children = 1 /\ nd[1].type = "SYMLINK" /\ nd[1].next = 2
        /\ nd[2].type = "SYMLINK" /\ nd[1].name = "." /\ nd[2].name = ".."
    BY <1>1, RamfsInitNodes
  <1>3. NodesAreRecords
    <2>1. ASSUME NEW x \in Nodes PROVE nd[x] = AsNode(nd[x])
      <3>1. nd[0] = AsNode(nd[0]) /\ nd[1] = AsNode(nd[1]) /\ nd[2] = AsNode(nd[2])
        <4>1. \A r : r = Directory("", 1) => r = AsNode(r)
          BY MadeRecords
        <4>2. \A r, n, t, y : r = Simlink(n, t, y) => r = AsNode(r)
          BY MadeRecords
        <4>3. nd[0] = Directory("", 1) /\ nd[1] = Simlink(".", 0, 2) /\ nd[2] = Simlink("..", 0, NULL)
          BY <1>2
        <4>4. QED
          BY <4>1, <4>2, <4>3
      <3>2. x \notin {0, 1, 2} => nd[x] = AsNode(nd[x])
        BY <1>2, MadeRecords, Zenon
      <3>3. QED
        BY <3>1, <3>2, Zenon
    <2>2. nd = [x \in Nodes |-> AsNode(nd[x])]
      <3>1. nd = [x \in Nodes |-> nd[x]]
        BY <1>2
      <3>2. QED
        BY <2>1, <3>1
    <2>3. heap \in 0 .. HEAP_NODES /\ used \in 0 .. heap
      <3>1. used = 2
        BY <1>2
      <3>2. QED
        BY <1>1, <3>1, NodeNumbers
    <2>4. QED
      BY <2>2, <2>3 DEF NodesAreRecords
  <1>4. PointersAhead /\ LinksToDirectories
    BY <1>1, RamfsInitInv DEF GraphInv
  <1>5. \A x \in Nodes : x \notin {0, 1, 2} => nd[x].type = "UNUSED" /\ nd[x].name = ""
    <2>1. Unused.type = "UNUSED" /\ Unused.name = ""
      BY DEF Unused
    <2>2. \A x \in Nodes : x \notin {0, 1, 2} => nd[x] = Unused
      BY <1>2
    <2>3. QED
      BY <2>1, <2>2
  <1>6. \A x \in Nodes : nd[x].type = "DIRECTORY" => x = 0
    BY <1>2, <1>5
  <1>7. LinksAreFirst
    <2>1. 0 + 2 \in 2 .. used /\ 0 + 1 = 1 /\ 0 + 2 = 2
      <3>1. used = 2
        BY <1>2
      <3>2. QED
        BY <3>1
    <2>2. QED
      BY <1>2, <1>6, <2>1 DEF LinksAreFirst
  <1>8. InitrdIsDirectory
    <2>1. nd[0].name = ""
      <3>1. nd[0] = Directory("", 1)
        BY <1>2
      <3>2. PICK r : r = Directory("", 1)
        OBVIOUS
      <3>3. r.name = ""
        BY <3>2 DEF Directory
      <3>4. QED
        BY <3>1, <3>2, <3>3
    <2>2. \A x \in Nodes : nd[x].name # "initrd"
      BY <1>2, <1>5, <2>1
    <2>3. QED
      BY <2>2 DEF InitrdIsDirectory
  <1>9. IndexInRange
    BY <1>1, SetUpPaths DEF IndexInRange
  <1>10. Len(load) = 0 /\ Len(scan) = 0 /\ 1 .. 0 = {} /\ 2 .. 0 = {}
    BY <1>1
  <1>11. LoadFrames
    BY <1>1, <1>10 DEF LoadFrames
  <1>12. ScanFrames
    BY <1>1, <1>10 DEF ScanFrames
  <1>13. EnteredByBridges
    <2>1. PICK via : via = [x \in 2 .. Len(scan) |-> x]
      OBVIOUS
    <2>2. via \in [2 .. Len(scan) -> Bridges]
      BY <1>10, <2>1
    <2>3. QED
      BY <1>1, <1>10, <2>2 DEF EnteredByBridges
  <1>14. QED
    BY <1>1, <1>3, <1>4, <1>7, <1>8, <1>9, <1>11, <1>12, <1>13 DEF BootInv

\* Every step keeps the invariant.
LEMMA BootNextInv == BootInv /\ [BootNext]_fsVars => BootInv'
  <1> SUFFICES ASSUME BootInv, [BootNext]_fsVars PROVE BootInv'
    OBVIOUS
  <1>1. BootParts /\ \E m \in Machines : wired = m.wired
    BY DEF BootInv, BootParts, BootGraph
  <1>2. wired \subseteq [bus : Nat, dev : Nat, func : Nat, multi : BOOLEAN,
                         bridge : BOOLEAN, secondary : Nat]
    BY <1>1, BootFSAssumption
  <1>3. ASSUME BootParts', wired' = wired PROVE BootInv'
    BY <1>1, <1>3 DEF BootInv, BootParts, BootGraph
  <1>4. CASE MakeDir
    BY <1>1, <1>3, <1>4, MakeDirKeeps DEF MakeDir
  <1>5. CASE MakeNull
    BY <1>1, <1>3, <1>5, MakeNullKeeps DEF MakeNull
  <1>6. CASE GetModules
    BY <1>1, <1>3, <1>6, GetModulesKeeps DEF GetModules
  <1>7. CASE LoadInitrd
    BY <1>1, <1>3, <1>7, LoadInitrdKeeps DEF LoadInitrd
  <1>8. CASE LoadRegFile
    BY <1>1, <1>3, <1>8, LoadRegFileKeeps DEF LoadRegFile, LoadStep
  <1>9. CASE LoadDir
    BY <1>1, <1>3, <1>9, LoadDirKeeps DEF LoadDir, LoadStep
  <1>10. CASE SkipEntry
    BY <1>1, <1>3, <1>10, SkipEntryKeeps DEF SkipEntry, LoadStep
  <1>11. CASE LoadReturn
    BY <1>1, <1>3, <1>11, LoadReturnKeeps DEF LoadReturn
  <1>12. CASE MakePciDir
    BY <1>1, <1>3, <1>12, MakePciDirKeeps DEF MakePciDir
  <1>13. CASE SkipFunction
    BY <1>1, <1>3, <1>13, SkipFunctionKeeps DEF SkipFunction, KeepScan
  <1>14. CASE AddNode
    BY <1>1, <1>3, <1>14, AddNodeKeeps DEF AddNode, KeepScan
  <1>15. CASE AddFile
    BY <1>1, <1>3, <1>15, AddFileKeeps DEF AddFile, KeepScan
  <1>16. CASE AddConfig
    BY <1>1, <1>2, <1>3, <1>16, AddConfigKeeps DEF AddConfig, KeepScan
  <1>17. CASE EndBus
    BY <1>1, <1>3, <1>17, EndBusKeeps DEF EndBus
  <1>18. CASE WriteTest
    BY <1>1, <1>3, <1>18, WriteTestKeeps DEF WriteTest
  <1>19. CASE ListEntry \/ ListNested
    BY <1>1, <1>3, <1>19, ListKeeps DEF ListEntry, ListNested
  <1>20. CASE Stopped \/ UNCHANGED fsVars
    BY <1>20, BootStutters DEF Stopped
  <1>21. QED
    BY <1>4, <1>5, <1>6, <1>7, <1>8, <1>9, <1>10, <1>11, <1>12, <1>13, <1>14, <1>15, <1>16, <1>17,
       <1>18, <1>19, <1>20 DEF BootNext

\* As many frames as bridges, and the first.
LEMMA BridgesBound == BootInv => ScanIsBounded
  <1> SUFFICES ASSUME BootInv PROVE ScanIsBounded
    OBVIOUS
  <1>1. IsFiniteSet(Bridges)
    <2>1. IsFiniteSet(wired)
      BY BootFSAssumption DEF BootInv
    <2>2. Bridges \in SUBSET wired
      BY DEF Bridges, Visible
    <2>3. QED
      BY <2>1, <2>2, FS_Subset
  <1>2. PICK n : n = Len(scan)
    OBVIOUS
  <1>3. n \in Nat
    BY <1>2 DEF BootInv, ScanFrames
  <1>4. PICK via \in [2 .. n -> Bridges] : \A j, k \in 2 .. n : DevName(via[j]) = DevName(via[k]) => j = k
    BY <1>2 DEF BootInv, EnteredByBridges
  <1>5. via \in Injection(2 .. n, Bridges)
    BY <1>4 DEF Injection, IsInjective
  <1>6. Cardinality(2 .. n) <= Cardinality(Bridges)
    BY <1>1, <1>5, FS_Injection
  <1>7. Cardinality(2 .. n) = IF 2 > n THEN 0 ELSE n - 2 + 1
    BY <1>3, FS_Interval
  <1>8. Cardinality(Bridges) \in Nat
    BY <1>1, FS_CardinalityType
  <1>9. n <= 1 + Cardinality(Bridges)
    BY <1>3, <1>6, <1>7, <1>8
  <1>10. QED
    BY <1>2, <1>9 DEF ScanIsBounded

\* The recursion of pci_scanBus is never deeper than there are bridges, however they are
\* configured, in a circle too, and whenever memory runs out.
THEOREM BootScanIsBounded == BootSpec => []ScanIsBounded
  <1>1. BootInit => BootInv
    BY BootInitInv
  <1>2. BootInv /\ [BootNext]_fsVars => BootInv'
    BY BootNextInv
  <1>3. BootInv => ScanIsBounded
    BY BridgesBound
  <1>4. QED
    BY <1>1, <1>2, <1>3, PTL DEF BootSpec

=============================================================================

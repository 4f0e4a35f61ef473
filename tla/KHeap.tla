-------------------------------- MODULE KHeap --------------------------------
(***************************************************************************)
(* The allocator of libk/kheap.c: a pointer that only moves up, and a      *)
(* marker word written after every block, by which krealloc later guesses  *)
(* how long the block was.  The marker lies in the first word of the block *)
(* allocated next, whose owner overwrites it.                              *)
(*                                                                         *)
(* kernel_init gives it the array kheap, of bytes, which need not start at *)
(* a word: InitKernelHeap rounds the start up and keeps the size.          *)
(***************************************************************************)
EXTENDS Pointers, Integers, Sequences

CONSTANTS
  MEM_MIN_SIZE,  \* bytes of a word
  HEAP_START,    \* address of the array
  HEAP_SIZE,     \* its size
  MAX_REQUEST    \* longest block a caller asks for

ASSUME KHeapAssumption ==
  /\ MEM_MIN_SIZE \in Nat \ {0}
  /\ HEAP_START \in Nat
  /\ HEAP_SIZE \in Nat /\ HEAP_SIZE % MEM_MIN_SIZE = 0
  /\ MAX_REQUEST \in Nat /\ MAX_REQUEST > MEM_MIN_SIZE

VARIABLES
  mem,             \* the bytes of the heap and of the memory after it
  CurrentPointer,  \* where the next block starts
  lowmem           \* bytes were copied to address NULL

heapVars == <<mem, CurrentPointer, lowmem>>

\* kmalloc rounds every request up to whole words.
RoundUp(size) == ((size + MEM_MIN_SIZE - 1) \div MEM_MIN_SIZE) * MEM_MIN_SIZE

\* InitKernelHeap: the first block starts at the first whole word.
HeapMem == RoundUp(HEAP_START)
HeapEnd == HeapMem + HEAP_SIZE

\* The heap, and what a refused request can reach behind it.
Addrs == HEAP_START .. HeapEnd + RoundUp(MAX_REQUEST) + MEM_MIN_SIZE - 1

\* Bytes: the i-th of the marker is -1 - i, memory never written is UNUSED, and
\* everything else is data.  Data that happens to contain the whole marker (the
\* address of a string literal) is left out.
UNUSED == 0
MarkByte(i) == -1 - i

\* The string s written at address p.
Put(m, p, s) ==
  [a \in DOMAIN m |-> IF a - p + 1 \in DOMAIN s THEN s[a - p + 1] ELSE m[a]]

Get(m, p, n) == [i \in 1 .. n |-> m[p + i - 1]]

Mark == [i \in 1 .. MEM_MIN_SIZE |-> MarkByte(i - 1)]

\* The word at p is the marker; the word need not be aligned.
IsMark(p) == \A i \in 1 .. MEM_MIN_SIZE : p + i - 1 \in Addrs /\ mem[p + i - 1] = Mark[i]

-----------------------------------------------------------------------------
\* Fault: the limit compared without the block itself.
FitsLate(size) == CurrentPointer <= HeapEnd

Fits(size) == CurrentPointer + RoundUp(size) <= HeapEnd

\* kmalloc: what it returns, where it leaves the pointer and what it writes. The
\* marker is written after the block also when there is no room for the block.
Kmalloc(size) == IF Fits(size) THEN CurrentPointer ELSE NULL

Advanced(size) == IF Fits(size) THEN CurrentPointer + RoundUp(size) ELSE CurrentPointer

\* Fault: the address of the marker counted in words.
MarkedByWords(size) == Put(mem, CurrentPointer + RoundUp(size) * MEM_MIN_SIZE, Mark)

Marked(size) == Put(mem, CurrentPointer + RoundUp(size), Mark)

-----------------------------------------------------------------------------
\* How far krealloc walks from ptr: to the marker, at most size bytes.
Scanned(ptr, size) ==
  CHOOSE k \in 0 .. size :
     /\ k = size \/ IsMark(ptr + k)
     /\ \A j \in 0 .. k - 1 : ~IsMark(ptr + j)

\* Fault: the marker found ends the copy one word early.
OldSizeWordShort(ptr, size) ==
  LET n == Scanned(ptr, size) - MEM_MIN_SIZE IN IF n < 0 THEN 0 ELSE n

\* The bytes krealloc copies: one less than it walked.  Zero less one is the
\* largest unsigned number, which is then cut to size.
OldSize(ptr, size) ==
  IF Scanned(ptr, size) = 0 THEN size ELSE Scanned(ptr, size) - 1

\* memcpy from the old block into the new one.  Where the two overlap the bytes
\* copied lie behind the old length, and the caller overwrites them.
Copied(ptr, size) ==
  Put(Marked(size), CurrentPointer, Get(Marked(size), ptr, OldSize(ptr, size)))

HeapInit ==
  /\ mem = [a \in Addrs |-> UNUSED]
  /\ CurrentPointer = HeapMem
  /\ lowmem = FALSE

HeapTypeOK ==
  /\ mem \in [Addrs -> Int]
  /\ CurrentPointer \in HeapMem .. HeapEnd
  /\ CurrentPointer % MEM_MIN_SIZE = 0
  /\ lowmem \in BOOLEAN
=============================================================================

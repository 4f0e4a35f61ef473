------------------------------- MODULE RamFile -------------------------------
(***************************************************************************)
(* The contents of regular files in coresys/ramfs.c: each file has a block *)
(* of the kernel heap, given up for a longer one when a write goes past    *)
(* the end.  Other parts of the kernel allocate from the same heap.        *)
(***************************************************************************)
EXTENDS KHeap

CONSTANTS
  Files,    \* regular files
  Data,     \* byte values a caller writes
  FOREIGN     \* what the owner of any other block writes into it

ASSUME RamFileAssumption == Data \subseteq Nat \ {UNUSED} /\ FOREIGN \in Nat \ Data

VARIABLES
  filePtr,  \* filePtr of a node, NULL before the first write
  length,   \* length of a node
  written   \* what callers wrote: the contents the file should have

fileVars == <<filePtr, length, written>>
vars == <<heapVars, fileVars>>

\* The buffers callers write: a run of one value, as no step looks at the values.
Buffers(n) == {[i \in 1 .. n |-> v] : v \in Data}

\* What callers wrote, after one more write.
Overwritten(old, offset, s) ==
  [i \in 1 .. (IF offset + Len(s) > Len(old) THEN offset + Len(s) ELSE Len(old)) |->
     IF i - offset \in DOMAIN s THEN s[i - offset] ELSE old[i]]

-----------------------------------------------------------------------------
\* ramfs_read, cut at the end of the file.
Read(f, nbyte, offset) ==
  LET toReadLen == IF nbyte + offset > length[f] THEN length[f] - offset ELSE nbyte
  IN  Get(mem, filePtr[f] + offset, toReadLen)

\* ramfs_write within the file.
WriteInPlace(f, s, offset) ==
  /\ offset + Len(s) <= length[f]
  /\ mem' = Put(mem, filePtr[f] + offset, s)
  /\ written' = [written EXCEPT ![f] = Overwritten(@, offset, s)]
  /\ UNCHANGED <<CurrentPointer, lowmem, filePtr, length>>

\* ramfs_write past the end with no room: krealloc still copies the old bytes, to
\* address NULL, and the marker lands behind the heap.
WriteRefused(f, s, offset) ==
  LET newLen == offset + Len(s)
  IN  /\ offset <= length[f] /\ newLen > length[f]
      /\ ~Fits(newLen)
      /\ mem' = Marked(newLen)
      /\ lowmem' = (lowmem \/ (filePtr[f] # NULL /\ OldSize(filePtr[f], newLen) > 0))
      /\ UNCHANGED <<CurrentPointer, fileVars>>

\* ramfs_write past the end: krealloc, then the bytes of the caller.  The first
\* write finds no block; what krealloc reads at address NULL is overwritten.
WriteGrows(f, s, offset) ==
  LET newLen == offset + Len(s)
      moved == IF filePtr[f] = NULL THEN Marked(newLen) ELSE Copied(filePtr[f], newLen)
  IN  /\ offset <= length[f] /\ newLen > length[f]
      /\ Fits(newLen)
      /\ mem' = Put(moved, CurrentPointer + offset, s)
      /\ CurrentPointer' = Advanced(newLen)
      /\ filePtr' = [filePtr EXCEPT ![f] = CurrentPointer]
      /\ length' = [length EXCEPT ![f] = newLen]
      /\ written' = [written EXCEPT ![f] = Overwritten(@, offset, s)]
      /\ UNCHANGED lowmem

\* Any other caller of kmalloc, who fills the block it gets.
OtherAlloc(size) ==
  /\ mem' = (IF Fits(size) THEN Put(Marked(size), CurrentPointer, [i \in 1 .. size |-> FOREIGN])
                           ELSE Marked(size))
  /\ CurrentPointer' = Advanced(size)
  /\ UNCHANGED <<lowmem, fileVars>>

Init ==
  /\ HeapInit
  /\ filePtr = [f \in Files |-> NULL]
  /\ length = [f \in Files |-> 0]
  /\ written = [f \in Files |-> <<>>]

Next ==
  \/ \E f \in Files, n \in 1 .. MAX_REQUEST, offset \in 0 .. MAX_REQUEST :
       /\ n + offset <= MAX_REQUEST
       /\ \E s \in Buffers(n) :
            \/ WriteInPlace(f, s, offset)
            \/ WriteRefused(f, s, offset)
            \/ WriteGrows(f, s, offset)
  \/ \E size \in 1 .. MAX_REQUEST : OtherAlloc(size)

Spec == Init /\ [][Next]_vars

-----------------------------------------------------------------------------
(* Properties. *)

TypeOK ==
  /\ HeapTypeOK
  /\ filePtr \in [Files -> (HeapMem .. HeapEnd) \cup {NULL}]
  /\ length \in [Files -> 0 .. MAX_REQUEST]
  /\ DOMAIN written = Files /\ \A f \in Files : written[f] \in [1 .. length[f] -> Data]

\* A file reads back what was written to it, however often it moved and whoever
\* else allocated, but for one byte: when krealloc moves a block that was full to
\* the word, and whose marker still stands, it leaves out the last byte.  So only
\* the last byte of a word can be wrong, and never the last byte of the file.
OnlyWordEndsLost ==
  \A f \in Files : \A i \in 1 .. length[f] :
     \/ Read(f, 1, i - 1) = <<written[f][i]>>
     \/ (i % MEM_MIN_SIZE = 0 /\ i < length[f])

\* The blocks of two files never share a byte, and all lie below the pointer and
\* before the end of the heap, also after requests that were refused.
BlocksApart ==
  \A f \in Files : length[f] > 0 =>
     /\ filePtr[f] + RoundUp(length[f]) <= CurrentPointer
     /\ CurrentPointer <= HeapEnd
     /\ \A g \in Files \ {f} : length[g] > 0 =>
          \/ filePtr[f] + RoundUp(length[f]) <= filePtr[g]
          \/ filePtr[g] + RoundUp(length[g]) <= filePtr[f]

\* kmalloc, krealloc and the owners of blocks write outside the array the heap was
\* given, behind it or at address NULL, only once the longest request no longer
\* fits; a block that fits keeps its marker inside unless it is the last.
StrayOnlyAtLimit ==
  (lowmem \/ \E a \in Addrs : a >= HEAP_START + HEAP_SIZE /\ mem[a] # UNUSED) =>
     CurrentPointer + RoundUp(MAX_REQUEST) > HeapEnd

-----------------------------------------------------------------------------
(* The inductive invariant behind them. *)

\* A file has a block once it has a length; blocks start at whole words.
BlocksAligned ==
  \A f \in Files : /\ filePtr[f] = NULL <=> length[f] = 0
                   /\ length[f] > 0 => filePtr[f] % MEM_MIN_SIZE = 0

\* Bytes of the marker stand only where they stand in a whole marker.
MarksAligned == \A a \in Addrs : mem[a] \in Nat \/ mem[a] = MarkByte(a % MEM_MIN_SIZE)

AtLimit == CurrentPointer + RoundUp(MAX_REQUEST) > HeapEnd

\* Beyond the marker of the last block nothing was written, short of the limit.
WrittenBelow ==
  (lowmem \/ \E a \in Addrs : a >= CurrentPointer + MEM_MIN_SIZE /\ mem[a] # UNUSED) => AtLimit

\* What the block of a file holds: OnlyWordEndsLost, byte by byte.
Contents ==
  \A f \in Files : \A i \in 1 .. length[f] :
     \/ mem[filePtr[f] + i - 1] = written[f][i]
     \/ (i % MEM_MIN_SIZE = 0 /\ i < length[f])

IndInv == TypeOK /\ BlocksAligned /\ BlocksApart /\ MarksAligned /\ WrittenBelow /\ Contents
=============================================================================

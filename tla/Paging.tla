------------------------------- MODULE Paging -------------------------------
(***************************************************************************)
(* The page tables of arch/IA32/paging.c and the translations the cores    *)
(* cached of them.  Two levels: a directory of tables, some of them absent *)
(* for ever, and entries with a frame, a write bit and a cache bit.        *)
(*                                                                         *)
(* Addresses are counted in pages and sizes in bytes.  A starting address  *)
(* inside a page is left out: mem_map rounds it down, and the callers give *)
(* page addresses.                                                         *)
(***************************************************************************)
EXTENDS Integers

CONSTANTS
  PAGE_SIZE,         \* bytes in a page
  PAGE_TAB_ENTRIES,  \* pages in a table
  DIRS,              \* entries of the directory
  WithTable,         \* directory entries InitPaging gives a table
  TextPages,         \* pages of the kernel mapped read only
  DataPages,         \* pages of the kernel mapped for writing
  Cores

Pages == 0 .. DIRS * PAGE_TAB_ENTRIES - 1

ASSUME PagingAssumption ==
  /\ {PAGE_SIZE, PAGE_TAB_ENTRIES, DIRS} \subseteq Nat \ {0}
  /\ WithTable \subseteq 0 .. DIRS - 1
  /\ TextPages \cup DataPages \subseteq {p \in Pages : p \div PAGE_TAB_ENTRIES \in WithTable}
  /\ TextPages \cap DataPages = {}

VARIABLES
  entry,   \* the entries of all tables, by page; those of absent tables stay ABSENT
  lowmem,  \* something was stored through the address of an absent table, NULL
  tlb      \* a translation each core has cached, or NONE

pagingVars == <<entry, lowmem, tlb>>

ABSENT == [present |-> FALSE]
Entries == [present : {TRUE}, frame : Pages, rw : BOOLEAN, cached : BOOLEAN]
NONE == [page |-> -1]

Entry(frame, rw, cached) == [present |-> TRUE, frame |-> frame, rw |-> rw, cached |-> cached]

PagingTypeOK ==
  /\ entry \in [Pages -> Entries \cup {ABSENT}]
  /\ lowmem \in BOOLEAN
  /\ tlb \in [Cores -> [page : Pages, entry : Entries] \cup {NONE}]

\* GET_PAG_DIR_INDEX
DirIndex(page) == page \div PAGE_TAB_ENTRIES

TablePresent(page) == DirIndex(page) \in WithTable

\* Fault: the last page of a size that is not a multiple of the page lost.
PagesNumFloor(size) == size \div PAGE_SIZE

\* PAGE_ALIGN_CEIL(memsize) / PAGE_SIZE
PagesNum(size) == (size + PAGE_SIZE - 1) \div PAGE_SIZE

PageRange(page, size) == page .. page + PagesNum(size) - 1

\* is_mapped
IsMapped(page, size) == \A p \in PageRange(page, size) : TablePresent(p) /\ entry[p].present

-----------------------------------------------------------------------------
\* The check of mem_map: it counts whole tables only, leaves its loop after the
\* table it found absent was counted, and so lets the last one be absent.
Accepted(page, size) ==
  LET pageTabs == PagesNum(size) \div PAGE_TAB_ENTRIES
  IN  \A k \in 0 .. pageTabs - 2 : DirIndex(page) + k \in WithTable

\* mem_map of physical to the same logical pages, as all its callers do; the entry
\* of a page without a table is stored at a small address instead.
MemMap(page, size, rw, cached) ==
  /\ Accepted(page, size)
  /\ entry' = [p \in Pages |-> IF p \in PageRange(page, size) /\ TablePresent(p)
                               THEN Entry(p, rw, cached) ELSE entry[p]]
  /\ lowmem' = (lowmem \/ \E p \in PageRange(page, size) : ~TablePresent(p))
  /\ UNCHANGED tlb

\* Fault: one page more than the size asks for is cleared.
UnmappedOneMore(page, size) == page .. page + PagesNum(size)

Unmapped(page, size) == PageRange(page, size)

\* mem_unmap: the entries are cleared and the cached translations are not.
MemUnmap(page, size) ==
  /\ entry' = [p \in Pages |-> IF p \in Unmapped(page, size) THEN ABSENT ELSE entry[p]]
  /\ UNCHANGED <<lowmem, tlb>>

\* Fault: the reset does not reload the directory.
FlushedNot(c) == tlb

\* Writing CR3, by paging_enable and paging_reset.
Flushed(c) == [tlb EXCEPT ![c] = NONE]

-----------------------------------------------------------------------------
\* The translation of a page a core may use: the cached one, if it has one.
Translations(c, p) ==
  IF tlb[c].page = p THEN {tlb[c].entry} ELSE {entry[p]} \ {ABSENT}

\* An access caches the translation.  One cached page per core is kept, since
\* the pages a core has cached never influence each other.
Access(c, p) ==
  /\ \E e \in Translations(c, p) : tlb' = [tlb EXCEPT ![c] = [page |-> p, entry |-> e]]
  /\ UNCHANGED <<entry, lowmem>>

PageFaults(c, p) == Translations(c, p) = {}

\* InitPaging: the kernel image, its code read only.
InitPaging ==
  /\ entry = [p \in Pages |-> IF p \in TextPages THEN Entry(p, FALSE, TRUE)
                              ELSE IF p \in DataPages THEN Entry(p, TRUE, TRUE) ELSE ABSENT]
  /\ lowmem = FALSE
  /\ tlb = [c \in Cores |-> NONE]
=============================================================================

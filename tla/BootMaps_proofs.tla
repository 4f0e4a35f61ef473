--------------------------- MODULE BootMaps_proofs ---------------------------
(***************************************************************************)
(* The page tables during the boot, for tables of any shape, any modules   *)
(* the boot loader may report and controllers at any page.                 *)
(***************************************************************************)
EXTENDS BootMaps, SequenceTheorems, TLAPS

\* A division rounds down.
LEMMA DivStep ==
  ASSUME NEW n \in Nat, NEW d \in Nat \ {0}
  PROVE  /\ n \div d \in Nat
         /\ (n + d) \div d = n \div d + 1
  <1>1. n \div d \in Nat /\ n % d \in 0 .. d - 1 /\ n = d * (n \div d) + (n % d)
    OBVIOUS
  <1>2. (n + d) \div d \in Nat /\ (n + d) % d \in 0 .. d - 1 /\ n + d = d * ((n + d) \div d) + ((n + d) % d)
    OBVIOUS
  <1>3. QED
    BY <1>1, <1>2

\* The pages mem_map maps are those the bytes of a module lie in, the first of them
\* included, and one page for a controller.
LEMMA PageCounts ==
  /\ \A page \in Nat, size \in Nat \ {0} :
        /\ PageRange(page, size) = page .. page + (size - 1) \div PAGE_SIZE
        /\ page \in PageRange(page, size)
  /\ \A page \in Nat : PageRange(page, PAGE_SIZE) = {page}
  <1>1. PAGE_SIZE \in Nat \ {0}
    BY PagingAssumption
  <1>2. ASSUME NEW page \in Nat, NEW size \in Nat \ {0}
        PROVE  /\ PageRange(page, size) = page .. page + (size - 1) \div PAGE_SIZE
               /\ page \in PageRange(page, size)
    <2>1. size - 1 \in Nat /\ size - 1 + PAGE_SIZE = size + PAGE_SIZE - 1
      BY <1>1
    <2>2. PagesNum(size) = (size - 1) \div PAGE_SIZE + 1 /\ (size - 1) \div PAGE_SIZE \in Nat
      BY <1>1, <2>1, DivStep DEF PagesNum
    <2>3. QED
      BY <2>2 DEF PageRange
  <1>3. (PAGE_SIZE - 1) \div PAGE_SIZE = 0
    BY <1>1
  <1>4. ASSUME NEW page \in Nat
        PROVE  PageRange(page, PAGE_SIZE) = {page}
    <2>1. PageRange(page, PAGE_SIZE) = page .. page + 0
      BY <1>1, <1>2, <1>3
    <2>2. QED
      BY <2>1
  <1>5. QED
    BY <1>2, <1>4

\* The pages of the kernel have tables; there is a page 0.
LEMMA KernelPages ==
  /\ 0 \in Pages /\ Pages \subseteq Nat
  /\ \A p \in TextPages \cup DataPages : p \in Pages /\ TablePresent(p)
  /\ TextPages \cap DataPages = {}
  <1>1. PAGE_TAB_ENTRIES \in Nat \ {0} /\ DIRS \in Nat \ {0}
    BY PagingAssumption
  <1>2. DIRS * PAGE_TAB_ENTRIES >= 1 /\ DIRS * PAGE_TAB_ENTRIES \in Int
    BY <1>1
  <1>3. 0 \in Pages /\ Pages \subseteq Nat
    BY <1>2 DEF Pages
  <1>4. QED
    BY <1>3, PagingAssumption DEF TablePresent, DirIndex

\* The entries, and what a core may cache.
LEMMA EntryTypes ==
  /\ ABSENT \notin Entries /\ ABSENT.present = FALSE
  /\ \A p \in Pages, rw \in BOOLEAN, cached \in BOOLEAN :
        /\ Entry(p, rw, cached) \in Entries
        /\ Entry(p, rw, cached).present /\ Entry(p, rw, cached).frame = p
  /\ \A e \in Entries : e.present
  /\ \A p \in Pages, e \in Entries :
        /\ [page |-> p, entry |-> e] \in [page : Pages, entry : Entries]
        /\ [page |-> p, entry |-> e] # NONE
  BY KernelPages DEF Entries, ABSENT, Entry, NONE

\* An access changes the cache of one core only, and caches what the table holds if what
\* was cached before is what it holds.
LEMMA AccessCaches ==
  ASSUME PagingTypeOK, NEW c \in Cores, NEW p \in Pages, Access(c, p)
  PROVE  /\ entry' = entry /\ lowmem' = lowmem
         /\ PagingTypeOK'
         /\ \A d \in Cores \ {c} : tlb'[d] = tlb[d]
         /\ (tlb[c] # NONE => tlb[c].entry = entry[tlb[c].page]) =>
               tlb'[c].page = p /\ tlb'[c].entry = entry[p]
  <1>1. PICK e \in Translations(c, p) : tlb' = [tlb EXCEPT ![c] = [page |-> p, entry |-> e]]
    BY DEF Access
  <1>2. entry' = entry /\ lowmem' = lowmem
    BY DEF Access
  <1>3. tlb[c].page = p => tlb[c] # NONE
    BY KernelPages DEF NONE
  <1>4. tlb[c] # NONE => tlb[c] \in [page : Pages, entry : Entries]
    BY DEF PagingTypeOK
  <1>5. e \in Entries
    <2>1. CASE tlb[c].page = p
      BY <1>1, <1>3, <1>4, <2>1 DEF Translations
    <2>2. CASE tlb[c].page # p
      BY <1>1, <2>2 DEF Translations, PagingTypeOK
    <2>3. QED
      BY <2>1, <2>2
  <1>6. tlb' \in [Cores -> [page : Pages, entry : Entries] \cup {NONE}]
    BY <1>1, <1>5, EntryTypes DEF PagingTypeOK
  <1>7. tlb'[c] = [page |-> p, entry |-> e] /\ \A d \in Cores \ {c} : tlb'[d] = tlb[d]
    BY <1>1 DEF PagingTypeOK
  <1>8. ASSUME tlb[c] # NONE => tlb[c].entry = entry[tlb[c].page]
        PROVE  e = entry[p]
    BY <1>1, <1>3, <1>8 DEF Translations
  <1>9. PagingTypeOK'
    BY <1>2, <1>6 DEF PagingTypeOK
  <1>10. QED
    BY <1>2, <1>7, <1>8, <1>9

\* The initial states satisfy the inductive invariant.
LEMMA InitIndInv == Init => IndInv
  <1> SUFFICES ASSUME Init PROVE IndInv
    OBVIOUS
  <1> USE DEF Init, InitPaging
  <1>1. TypeOK
    <2>1. entry \in [Pages -> Entries \cup {ABSENT}]
      BY EntryTypes
    <2>2. tlb \in [Cores -> [page : Pages, entry : Entries] \cup {NONE}] /\ lowmem \in BOOLEAN
      OBVIOUS
    <2>3. modules \in Seq(Modules \cup Taken)
      <3>1. modules \in Seq(Modules)
        BY BootMapsAssumption
      <3>2. QED
        BY <3>1, SeqMonotonic, Zenon
    <2>4. pc \in Pcs /\ i \in Nat \ {0}
      BY DEF Pcs
    <2>5. LAPIC \in Pages /\ IOAPIC \in Pages /\ started \in SUBSET Cores
      BY BootMapsAssumption
    <2>6. PagingTypeOK
      BY <2>1, <2>2, Zenon DEF PagingTypeOK
    <2>7. QED
      BY <2>3, <2>4, <2>5, <2>6, Zenon DEF TypeOK
  <1>2. HasMod /\ ModMapped /\ DevMapped /\ NoFaultWithTables
    BY DEF HasMod, ModMapped, DevMapped, NoFaultWithTables
  <1>3. AbsentTables
    BY KernelPages DEF AbsentTables
  <1>4. CachedHolds
    BY DEF CachedHolds
  <1>5. KernelStaysMapped
    <2> SUFFICES ASSUME NEW p \in TextPages \cup DataPages
                 PROVE  /\ entry[p].present /\ entry[p].frame = p
                        /\ entry[p] = Entry(p, p \in DataPages, TRUE)
      BY DEF KernelStaysMapped
    <2>1. CASE p \in TextPages
      <3>1. (p \in DataPages) = FALSE
        BY <2>1, KernelPages
      <3>2. entry[p] = Entry(p, FALSE, TRUE)
        BY <2>1, KernelPages
      <3>3. QED
        BY <3>1, <3>2, KernelPages, EntryTypes
    <2>2. CASE p \in DataPages
      <3>1. (p \in DataPages) = TRUE
        BY <2>2
      <3>2. entry[p] = Entry(p, TRUE, TRUE)
        BY <2>2, KernelPages
      <3>3. QED
        BY <3>1, <3>2, KernelPages, EntryTypes
    <2>3. QED
      BY <2>1, <2>2
  <1>6. QED
    BY <1>1, <1>2, <1>3, <1>4, <1>5 DEF IndInv

\* A step that changes neither the tables nor the modules keeps what is said of both.
LEMMA TablesKept ==
  ASSUME IndInv, UNCHANGED <<entry, modules, i, LAPIC, IOAPIC>>
  PROVE  /\ AbsentTables' /\ KernelStaysMapped'
         /\ Refused' = Refused /\ Mod' = Mod /\ ModPages' = ModPages
         /\ \A p \in Pages : TablePresent(p)' = TablePresent(p)
  BY DEF IndInv, AbsentTables, KernelStaysMapped, Refused, Mod, ModPages, TablePresent, DirIndex

\* The module looked at has pages; an initrd is one the loader reported.
LEMMA ModIs ==
  ASSUME TypeOK, i <= Len(modules)
  PROVE  /\ i \in 1 .. Len(modules) /\ i \in DOMAIN modules
         /\ Mod \in Modules \cup Taken /\ Mod.page \in Pages /\ Mod.size \in Nat \ {0}
         /\ ModPages = PageRange(Mod.page, Mod.size) /\ Mod.page \in ModPages
         /\ Mod.isInitrd \/ ~Refused =>
              ModPages \subseteq Pages \ (TextPages \cup DataPages)
  <1>1. i \in 1 .. Len(modules) /\ i \in DOMAIN modules /\ Mod \in Modules \cup Taken
    BY DEF TypeOK, Mod
  <1>2. Mod.page \in Pages /\ Mod.size \in Nat \ {0}
    BY <1>1, KernelPages DEF Modules, Taken
  <1>3. Mod.page \in Nat
    BY <1>2, KernelPages
  <1>4. ModPages = PageRange(Mod.page, Mod.size) /\ Mod.page \in ModPages
    <2>1. /\ PageRange(Mod.page, Mod.size) = Mod.page .. Mod.page + (Mod.size - 1) \div PAGE_SIZE
          /\ Mod.page \in PageRange(Mod.page, Mod.size)
      BY <1>2, <1>3, PageCounts, Zenon
    <2>2. QED
      BY <2>1, Zenon DEF ModPages
  <1>5. ASSUME Mod.isInitrd \/ ~Refused PROVE Mod \in Modules
    BY <1>1, <1>5 DEF Refused, Taken, Mod
  <1>6. QED
    BY <1>1, <1>2, <1>4, <1>5 DEF Modules

\* Reading the magic number of a module.
LEMMA ReadMagicInv == ASSUME IndInv, ReadMagic PROVE IndInv'
  <1> USE DEF IndInv
  <1>1. Mod.page \in Pages /\ Mod.page \in ModPages /\ BSP \in Cores
    BY ModIs, BootMapsAssumption DEF ReadMagic, HasMod
  <1>2. /\ UNCHANGED <<entry, modules, i, LAPIC, IOAPIC, started>>
        /\ PagingTypeOK'
    BY <1>1, AccessCaches DEF ReadMagic, Stop, Goto, TypeOK, PagingTypeOK, pagingVars
  <1>3. pc = "read_magic" /\ pc' \in {"pagefault", "load", "unmap_module"}
    BY DEF ReadMagic, Stop, Goto
  <1>4. TypeOK'
    BY <1>2, <1>3 DEF TypeOK, Pcs
  <1>5. HasMod'
    BY <1>2, <1>3, TablesKept DEF HasMod, ReadMagic, Stop, Goto
  <1>6. ModMapped' /\ DevMapped' /\ CachedHolds'
    BY <1>2, <1>3, TablesKept DEF ModMapped, DevMapped, CachedHolds
  <1>7. NoFaultWithTables'
    <2>1. ASSUME PageFaults(BSP, Mod.page), ~Refused
          PROVE  ~TablePresent(Mod.page)
      BY <1>1, <1>3, <2>1 DEF PageFaults, Translations, ModMapped
    <2>2. ASSUME pc' = "pagefault" PROVE PageFaults(BSP, Mod.page)
      BY <2>2 DEF ReadMagic, Goto
    <2>3. QED
      BY <1>1, <1>2, <1>3, <2>1, <2>2, TablesKept DEF NoFaultWithTables
  <1>8. QED
    BY <1>2, <1>4, <1>5, <1>6, <1>7, TablesKept

\* Reading the image of the initrd.
LEMMA LoadInitrdInv == ASSUME IndInv, LoadInitrd PROVE IndInv'
  <1> USE DEF IndInv
  <1>1. PICK p \in ModPages : IF PageFaults(BSP, p) THEN Stop
                              ELSE Access(BSP, p) /\ (Goto("load") \/ Goto("unmap_initrd"))
    BY DEF LoadInitrd
  <1>2. p \in Pages /\ BSP \in Cores
    BY ModIs, BootMapsAssumption DEF LoadInitrd, HasMod
  <1>3. /\ UNCHANGED <<entry, modules, i, LAPIC, IOAPIC, started>>
        /\ PagingTypeOK'
    BY <1>1, <1>2, AccessCaches DEF Stop, Goto, TypeOK, PagingTypeOK, pagingVars
  <1>4. pc = "load" /\ pc' \in {"pagefault", "load", "unmap_initrd"}
    BY <1>1 DEF LoadInitrd, Stop, Goto
  <1>5. TypeOK'
    BY <1>3, <1>4 DEF TypeOK, Pcs
  <1>6. HasMod'
    BY <1>3, <1>4, TablesKept DEF HasMod
  <1>7. ModMapped' /\ DevMapped' /\ CachedHolds'
    BY <1>3, <1>4, TablesKept, ModIs DEF ModMapped, DevMapped, CachedHolds
  <1>8. NoFaultWithTables'
    <2>1. ASSUME PageFaults(BSP, p), ~Refused
          PROVE  ~TablePresent(p)
      BY <1>1, <1>2, <1>4, <2>1 DEF PageFaults, Translations, ModMapped
    <2>2. ASSUME pc' = "pagefault" PROVE PageFaults(BSP, p)
      BY <1>1, <2>2 DEF Goto
    <2>3. QED
      BY <1>1, <1>2, <1>3, <1>4, <2>1, <2>2, TablesKept DEF NoFaultWithTables
  <1>9. QED
    BY <1>3, <1>5, <1>6, <1>7, <1>8, TablesKept

\* Panic and InitSys only go on.
LEMMA GoOnInv == ASSUME IndInv, Panic \/ InitSys PROVE IndInv'
  <1> USE DEF IndInv
  <1>1. /\ UNCHANGED <<pagingVars, modules, i, LAPIC, IOAPIC, started>>
        /\ pc' \in {"panic", "map_lapic", "done_pic"} /\ pc # "done"
    BY DEF Panic, InitSys, Goto
  <1>2. TypeOK'
    BY <1>1 DEF TypeOK, Pcs, PagingTypeOK, pagingVars
  <1>3. HasMod' /\ ModMapped' /\ DevMapped' /\ CachedHolds' /\ NoFaultWithTables'
    BY <1>1 DEF HasMod, ModMapped, DevMapped, CachedHolds, NoFaultWithTables
  <1>4. QED
    BY <1>1, <1>2, <1>3, TablesKept DEF pagingVars

\* paging_reset: the boot processor, the only core running, has nothing cached.
LEMMA PagingResetInv == ASSUME IndInv, PagingReset PROVE IndInv'
  <1> USE DEF IndInv
  <1>1. /\ UNCHANGED <<entry, lowmem, modules, i, LAPIC, IOAPIC, started>>
        /\ pc = "paging_reset" /\ pc' = "use_apic" /\ tlb' = [tlb EXCEPT ![BSP] = NONE]
    BY DEF PagingReset, Goto, Flushed
  <1>2. TypeOK'
    BY <1>1 DEF TypeOK, Pcs, PagingTypeOK
  <1>3. HasMod' /\ ModMapped' /\ NoFaultWithTables'
    BY <1>1 DEF HasMod, ModMapped, NoFaultWithTables
  <1>4. DevMapped'
    BY <1>1, TablesKept DEF DevMapped, TypeOK
  <1>5. CachedHolds'
    BY <1>1, BootMapsAssumption DEF CachedHolds, TypeOK, PagingTypeOK
  <1>6. QED
    BY <1>1, <1>2, <1>3, <1>4, <1>5, TablesKept

\* The boot processor uses the controllers.
LEMMA UseApicInv == ASSUME IndInv, UseApic PROVE IndInv'
  <1> USE DEF IndInv
  <1>1. PICK p \in {LAPIC, IOAPIC} :
           IF PageFaults(BSP, p) THEN Stop
           ELSE Access(BSP, p) /\ (Goto("use_apic") \/ Goto("done"))
    BY DEF UseApic
  <1>2. p \in Pages /\ BSP \in Cores
    BY <1>1, BootMapsAssumption DEF TypeOK
  <1>3. /\ UNCHANGED <<entry, modules, i, LAPIC, IOAPIC, started>>
        /\ PagingTypeOK'
    BY <1>1, <1>2, AccessCaches DEF Stop, Goto, TypeOK, PagingTypeOK, pagingVars
  <1>4. pc = "use_apic" /\ pc' \in {"pagefault", "use_apic", "done"}
    BY <1>1 DEF UseApic, Stop, Goto
  <1>5. TypeOK'
    BY <1>3, <1>4 DEF TypeOK, Pcs
  <1>6. HasMod' /\ ModMapped'
    BY <1>4 DEF HasMod, ModMapped
  <1>7. DevMapped'
    BY <1>3, <1>4, TablesKept DEF DevMapped, TypeOK
  <1>8. CachedHolds'
    <2>1. CASE pc' = "pagefault"
      BY <1>3, <1>4, <2>1 DEF CachedHolds
    <2>2. CASE pc' # "pagefault"
      <3>1. Access(BSP, p)
        BY <1>1, <2>2 DEF Stop, Goto
      <3>2. tlb[BSP] # NONE => tlb[BSP].entry = entry[tlb[BSP].page]
        BY <1>4 DEF CachedHolds
      <3>3. tlb'[BSP].entry = entry'[tlb'[BSP].page]
        BY <1>2, <1>3, <3>1, <3>2, AccessCaches DEF TypeOK
      <3>4. QED
        BY <1>3, <1>4, <2>2, <3>3 DEF CachedHolds
    <2>3. QED
      BY <2>1, <2>2
  <1>9. NoFaultWithTables'
    <2>1. ASSUME PageFaults(BSP, p)
          PROVE  ~TablePresent(p)
      BY <1>1, <1>2, <1>4, <2>1 DEF PageFaults, Translations, DevMapped
    <2>2. ASSUME pc' = "pagefault" PROVE PageFaults(BSP, p)
      BY <1>1, <2>2 DEF Goto
    <2>3. QED
      BY <1>1, <1>2, <1>3, <1>4, <2>1, <2>2, TablesKept DEF NoFaultWithTables
  <1>10. QED
    BY <1>3, <1>5, <1>6, <1>7, <1>8, <1>9, TablesKept

\* A core starts, with nothing cached.
LEMMA StartAPInv == ASSUME IndInv, NEW c \in Cores, StartAP(c) PROVE IndInv'
  <1> USE DEF IndInv
  <1>1. /\ UNCHANGED <<entry, lowmem, pc, modules, i, LAPIC, IOAPIC>>
        /\ pc = "done" /\ tlb' = [tlb EXCEPT ![c] = NONE] /\ started' = started \cup {c}
    BY DEF StartAP, Flushed
  <1>2. TypeOK'
    BY <1>1 DEF TypeOK, PagingTypeOK
  <1>3. HasMod' /\ ModMapped' /\ NoFaultWithTables'
    BY <1>1 DEF HasMod, ModMapped, NoFaultWithTables
  <1>4. DevMapped'
    BY <1>1, TablesKept DEF DevMapped, TypeOK
  <1>5. CachedHolds'
    BY <1>1 DEF CachedHolds, TypeOK, PagingTypeOK
  <1>6. QED
    BY <1>1, <1>2, <1>3, <1>4, <1>5, TablesKept

\* A core that runs uses its LAPIC or touches the kernel.
LEMMA TouchInv ==
  ASSUME IndInv, NEW c \in Cores, APUsesLapic(c) \/ TouchKernel(c) PROVE IndInv'
  <1> USE DEF IndInv
  <1>1. PICK p \in Pages : Access(c, p)
    BY KernelPages DEF APUsesLapic, TouchKernel, TypeOK
  <1>2. UNCHANGED bootVars /\ c \in started
    BY DEF APUsesLapic, TouchKernel
  <1>3. UNCHANGED <<entry, lowmem, pc, modules, i, LAPIC, IOAPIC, started>> /\ PagingTypeOK'
    BY <1>1, <1>2, AccessCaches DEF bootVars, TypeOK
  <1>4. TypeOK'
    BY <1>3 DEF TypeOK
  <1>5. HasMod' /\ ModMapped' /\ DevMapped'
    BY <1>3, TablesKept, ModIs DEF HasMod, ModMapped, DevMapped, TypeOK
  <1>6. NoFaultWithTables'
    <2>1. IsMapped(Mod.page, Mod.size)' = IsMapped(Mod.page, Mod.size)
      BY <1>3 DEF IsMapped, TablePresent, DirIndex, PageRange, PagesNum, Mod
    <2>2. QED
      BY <1>3, <2>1, TablesKept
         DEF NoFaultWithTables, ModPages, Mod, Refused, TablePresent, DirIndex
  <1>7. CachedHolds'
    BY <1>1, <1>3, AccessCaches DEF CachedHolds, TypeOK
  <1>8. QED
    BY <1>3, <1>4, <1>5, <1>6, <1>7, TablesKept

\* mem_map keeps the entries well formed and those of absent tables absent, and maps
\* what has a table.
LEMMA MemMapMaps ==
  ASSUME PagingTypeOK, AbsentTables, NEW page, NEW size, NEW rw \in BOOLEAN, NEW cached \in BOOLEAN,
         MemMap(page, size, rw, cached)
  PROVE  /\ PagingTypeOK' /\ AbsentTables' /\ tlb' = tlb
         /\ \A p \in Pages : p \in PageRange(page, size) /\ TablePresent(p) =>
               entry'[p] = Entry(p, rw, cached) /\ entry'[p] # ABSENT
         /\ \A p \in Pages : p \notin PageRange(page, size) => entry'[p] = entry[p]
  <1>1. /\ \A p \in Pages : entry'[p] = IF p \in PageRange(page, size) /\ TablePresent(p)
                                      THEN Entry(p, rw, cached) ELSE entry[p]
        /\ tlb' = tlb /\ DOMAIN entry' = Pages
        /\ entry' = [p \in Pages |-> entry'[p]]
    BY DEF MemMap
  <1>2. \A p \in Pages : Entry(p, rw, cached) \in Entries /\ Entry(p, rw, cached) # ABSENT
    BY EntryTypes
  <1>3. lowmem' \in BOOLEAN
    BY Zenon DEF MemMap
  <1>4. entry' \in [Pages -> Entries \cup {ABSENT}]
    BY <1>1, <1>2 DEF PagingTypeOK
  <1>5. PagingTypeOK'
    BY <1>1, <1>3, <1>4 DEF PagingTypeOK
  <1>6. AbsentTables'
    BY <1>1 DEF AbsentTables, TablePresent, DirIndex
  <1>7. QED
    BY <1>1, <1>2, <1>5, <1>6

\* Mapping a module.
LEMMA MapModuleInv == ASSUME IndInv, MapModule PROVE IndInv'
  <1> USE DEF IndInv
  <1>1. pc = "map_module" /\ pc' = "read_magic" /\ UNCHANGED <<i, LAPIC, IOAPIC, started, tlb>>
    BY DEF MapModule, MemMap, Goto, pagingVars
  <1>2. i \in 1 .. Len(modules) /\ i \in DOMAIN modules /\ Mod \in Modules \cup Taken
    BY DEF MapModule, TypeOK, Mod
  <1>3. CASE MemMap(Mod.page, Mod.size, FALSE, TRUE) /\ Goto("read_magic")
    <2>1. modules' = modules /\ Mod' = Mod /\ Refused' = Refused
      BY <1>1, <1>3 DEF Goto, Mod, Refused
    <2>2. /\ PagingTypeOK' /\ AbsentTables'
          /\ \A p \in Pages : p \in PageRange(Mod.page, Mod.size) /\ TablePresent(p) =>
                entry'[p] = Entry(p, FALSE, TRUE) /\ entry'[p] # ABSENT
          /\ \A p \in Pages : p \notin PageRange(Mod.page, Mod.size) => entry'[p] = entry[p]
      BY <1>3, MemMapMaps DEF TypeOK
    <2>3. TypeOK'
      BY <1>1, <2>1, <2>2 DEF TypeOK, Pcs
    <2>4. HasMod' /\ DevMapped' /\ CachedHolds'
      BY <1>1, <1>2, <2>1 DEF HasMod, DevMapped, CachedHolds
    <2>5. /\ ModPages' = PageRange(Mod.page, Mod.size)
          /\ ~Refused => PageRange(Mod.page, Mod.size) \subseteq Pages \ (TextPages \cup DataPages)
      <3>1. ModPages' = ModPages
        BY <1>1, <2>1 DEF ModPages
      <3>2. QED
        BY <1>2, <3>1, ModIs DEF MapModule
    <2>6. \A p \in PageRange(Mod.page, Mod.size) :
             ~Refused => (TablePresent(p) => entry'[p] # ABSENT /\ entry'[p].present)
      <3> SUFFICES ASSUME NEW p \in PageRange(Mod.page, Mod.size), ~Refused, TablePresent(p)
                   PROVE  entry'[p] # ABSENT /\ entry'[p].present
        OBVIOUS
      <3>1. p \in Pages
        BY <2>5
      <3>2. QED
        BY <2>2, <3>1, EntryTypes, ZenonT(30)
    <2>7. ModMapped'
      BY <2>1, <2>5, <2>6 DEF ModMapped, TablePresent, DirIndex
    <2>8. KernelStaysMapped'
      BY <1>1, <2>1, <2>2, <2>5, KernelPages DEF KernelStaysMapped
    <2>9. NoFaultWithTables'
      BY <1>1, <2>1, <2>5, <2>6
         DEF NoFaultWithTables, TablePresent, DirIndex, IsMapped, PageRange, PagesNum
    <2>10. QED
      BY <2>2, <2>3, <2>4, <2>7, <2>8, <2>9
  <1>4. CASE /\ UNCHANGED pagingVars
             /\ modules' = [modules EXCEPT ![i].page = 0, ![i].isInitrd = FALSE]
    <2> DEFINE taken == [Mod EXCEPT !.page = 0, !.isInitrd = FALSE]
    <2>1. taken \in Taken
      BY <1>2 DEF Modules, Taken
    <2>2. modules' = [modules EXCEPT ![i] = taken]
      BY <1>2, <1>4 DEF Mod
    <2>3. modules' \in Seq(Modules \cup Taken) /\ Len(modules') = Len(modules) /\ modules'[i] = taken
      <3>1. taken \in Modules \cup Taken /\ modules \in Seq(Modules \cup Taken)
        BY <2>1 DEF TypeOK
      <3> HIDE DEF taken
      <3>2. QED
        BY <1>2, <2>2, <3>1, ExceptSeq
    <2>4. Refused' /\ i' \in DOMAIN modules'
      <3>1. i' \in DOMAIN modules' /\ modules'[i].page = 0
        BY <1>1, <1>2, <2>1, <2>2 DEF Taken
      <3>2. QED
        BY <1>1, <3>1 DEF Refused
    <2>5. TypeOK'
      BY <1>1, <1>4, <2>3 DEF TypeOK, Pcs, PagingTypeOK, pagingVars
    <2>6. HasMod' /\ ModMapped' /\ DevMapped' /\ CachedHolds' /\ KernelStaysMapped' /\ NoFaultWithTables'
      BY <1>1, <1>2, <2>3, <2>4
         DEF HasMod, ModMapped, DevMapped, CachedHolds, KernelStaysMapped, NoFaultWithTables
    <2>7. AbsentTables'
      BY <1>4 DEF AbsentTables, pagingVars, TablePresent, DirIndex
    <2>8. QED
      BY <2>5, <2>6, <2>7
  <1>5. QED
    BY <1>3, <1>4 DEF MapModule

\* Unmapping a module takes no page of the kernel away.
LEMMA UnmapModuleInv == ASSUME IndInv, UnmapModule PROVE IndInv'
  <1> USE DEF IndInv
  <1>1. /\ pc \in {"unmap_module", "unmap_initrd"} /\ pc' \in {"init_sys", "map_module"}
        /\ UNCHANGED <<lowmem, tlb, modules, LAPIC, IOAPIC, started>> /\ i' \in {i, i + 1}
    BY DEF UnmapModule, MemUnmap
  <1>2. /\ \A p \in Pages : entry'[p] = IF p \in PageRange(Mod.page, Mod.size) THEN ABSENT ELSE entry[p]
        /\ DOMAIN entry' = Pages /\ entry' = [p \in Pages |-> entry'[p]]
    BY DEF UnmapModule, MemUnmap, Unmapped
  <1>3. ~Refused => PageRange(Mod.page, Mod.size) \cap (TextPages \cup DataPages) = {}
    BY <1>1, ModIs DEF HasMod
  <1>4. TypeOK'
    <2>1. entry' \in [Pages -> Entries \cup {ABSENT}]
      BY <1>2 DEF TypeOK, PagingTypeOK
    <2>2. PagingTypeOK'
      BY <1>1, <2>1 DEF TypeOK, PagingTypeOK
    <2>3. QED
      BY <1>1, <2>2 DEF TypeOK, Pcs
  <1>5. HasMod' /\ ModMapped' /\ DevMapped' /\ NoFaultWithTables' /\ CachedHolds'
    BY <1>1 DEF HasMod, ModMapped, DevMapped, NoFaultWithTables, CachedHolds
  <1>6. AbsentTables'
    BY <1>2 DEF AbsentTables, TablePresent, DirIndex
  <1>7. KernelStaysMapped'
    BY <1>1, <1>2, <1>3, KernelPages DEF KernelStaysMapped, Refused
  <1>8. QED
    BY <1>4, <1>5, <1>6, <1>7

\* A controller is mapped at its page, and nothing else changes.
LEMMA ControllerMapped ==
  ASSUME IndInv, NEW page \in Pages, NEW next, MapController(page, next)
  PROVE  /\ PagingTypeOK' /\ AbsentTables'
         /\ UNCHANGED <<tlb, modules, i, LAPIC, IOAPIC, started>> /\ pc' \in {next, "stopped"}
         /\ \A p \in Pages \ {page} : entry'[p] = entry[p]
         /\ entry'[page] \in {entry[page], Entry(page, TRUE, FALSE)}
         /\ pc' # "stopped" => IF TablePresent(page) THEN entry'[page] = Entry(page, TRUE, FALSE)
                                                    ELSE entry'[page] = ABSENT
  <1> USE DEF IndInv
  <1>1. PageRange(page, PAGE_SIZE) = {page}
    BY PageCounts, KernelPages
  <1>2. CASE Accepted(page, PAGE_SIZE)
    <2>1. MemMap(page, PAGE_SIZE, TRUE, FALSE) /\ Goto(IF page = 0 THEN "stopped" ELSE next)
      BY <1>2 DEF MapController
    <2>2. /\ PagingTypeOK' /\ AbsentTables' /\ tlb' = tlb
          /\ \A p \in Pages : p \in PageRange(page, PAGE_SIZE) /\ TablePresent(p) =>
                entry'[p] = Entry(p, TRUE, FALSE) /\ entry'[p] # ABSENT
          /\ \A p \in Pages : p \notin PageRange(page, PAGE_SIZE) => entry'[p] = entry[p]
      BY <2>1, MemMapMaps DEF TypeOK
    <2>3. ~TablePresent(page) => entry'[page] = ABSENT /\ entry[page] = ABSENT
      BY <2>2 DEF AbsentTables, TablePresent, DirIndex
    <2>4. QED
      BY <1>1, <2>1, <2>2, <2>3 DEF Goto
  <1>3. CASE ~Accepted(page, PAGE_SIZE)
    <2>1. UNCHANGED <<pagingVars, modules, i, LAPIC, IOAPIC, started>> /\ pc' = "stopped"
      BY <1>3 DEF MapController, Goto
    <2>2. QED
      BY <2>1 DEF pagingVars, PagingTypeOK, AbsentTables, TablePresent, DirIndex, TypeOK
  <1>4. QED
    BY <1>2, <1>3

\* Mapping the controllers.
LEMMA MapControllersInv == ASSUME IndInv, MapLapic \/ MapIoapic PROVE IndInv'
  <1> USE DEF IndInv
  <1>1. PICK page \in {LAPIC, IOAPIC} :
          \/ MapLapic /\ page = LAPIC /\ MapController(page, "map_ioapic")
          \/ MapIoapic /\ page = IOAPIC /\ MapController(page, "paging_reset")
    BY DEF MapLapic, MapIoapic
  <1>2. page \in Pages
    BY <1>1 DEF TypeOK
  <1>3. /\ pc' \in {"map_ioapic", "paging_reset", "stopped"} /\ pc \in {"map_lapic", "map_ioapic"}
        /\ PagingTypeOK' /\ AbsentTables' /\ UNCHANGED <<tlb, modules, i, LAPIC, IOAPIC, started>>
        /\ \A p \in Pages \ {page} : entry'[p] = entry[p]
        /\ entry'[page] \in {entry[page], Entry(page, TRUE, FALSE)}
        /\ pc' # "stopped" => IF TablePresent(page) THEN entry'[page] = Entry(page, TRUE, FALSE)
                                                   ELSE entry'[page] = ABSENT
    BY <1>1, <1>2, ControllerMapped DEF MapLapic, MapIoapic
  <1>4. TypeOK'
    BY <1>3 DEF TypeOK, Pcs
  <1>5. HasMod' /\ ModMapped' /\ NoFaultWithTables' /\ CachedHolds'
    BY <1>3 DEF HasMod, ModMapped, NoFaultWithTables, CachedHolds
  <1>6. KernelStaysMapped'
    <2> SUFFICES ASSUME ~Refused', NEW p \in TextPages \cup DataPages
                 PROVE  /\ entry'[p].present /\ entry'[p].frame = p
                        /\ p \in {LAPIC', IOAPIC'} \/ entry'[p] = Entry(p, p \in DataPages, TRUE)
      BY DEF KernelStaysMapped
    <2>1. /\ entry[p].present /\ entry[p].frame = p
          /\ p \in {LAPIC, IOAPIC} \/ entry[p] = Entry(p, p \in DataPages, TRUE)
      BY <1>3 DEF KernelStaysMapped, Refused
    <2>2. entry'[p] = entry[p] \/ (p = page /\ entry'[p] = Entry(p, TRUE, FALSE))
      BY <1>3, KernelPages
    <2>3. QED
      BY <1>1, <1>3, <2>1, <2>2, EntryTypes, KernelPages, ZenonT(30)
  <1>7. DevMapped'
    <2>1. CASE pc' = "stopped"
      BY <2>1 DEF DevMapped
    <2>2. CASE MapLapic /\ pc' # "stopped"
      <3>1. page = LAPIC /\ pc' = "map_ioapic"
        BY <1>1, <1>2, <2>2, ControllerMapped DEF MapLapic, MapIoapic
      <3>2. QED
        BY <1>2, <1>3, <2>2, <3>1, EntryTypes, ZenonT(30) DEF DevMapped, TablePresent, DirIndex
    <2>3. CASE MapIoapic /\ pc' # "stopped"
      <3>1. page = IOAPIC /\ pc = "map_ioapic"
        BY <1>1, <2>3 DEF MapLapic, MapIoapic
      <3>2. /\ entry[LAPIC] \in {ABSENT, Entry(LAPIC, TRUE, FALSE)}
            /\ TablePresent(LAPIC) => entry[LAPIC] # ABSENT
        BY <3>1 DEF DevMapped
      <3>3. LAPIC \in Pages /\ Entry(page, TRUE, FALSE) # ABSENT
        BY <1>2, EntryTypes DEF TypeOK
      <3>4. QED
        BY <1>2, <1>3, <2>3, <3>1, <3>2, <3>3 DEF DevMapped, TablePresent, DirIndex
    <2>4. QED
      BY <2>1, <2>2, <2>3
  <1>8. QED
    BY <1>3, <1>4, <1>5, <1>6, <1>7

\* Every step preserves the inductive invariant.
LEMMA StepIndInv == IndInv /\ [Next]_vars => IndInv'
  <1> SUFFICES ASSUME IndInv, [Next]_vars PROVE IndInv'
    OBVIOUS
  <1>1. CASE UNCHANGED vars
    BY <1>1, ZenonT(30) DEF IndInv, TypeOK, PagingTypeOK, HasMod, AbsentTables, ModMapped, DevMapped, CachedHolds,
          KernelStaysMapped, NoFaultWithTables, Refused, Mod, ModPages, IsMapped, PageRange, PagesNum,
          TablePresent, DirIndex, vars, pagingVars, bootVars
  <1>2. QED
    BY <1>1, MapModuleInv, ReadMagicInv, LoadInitrdInv, UnmapModuleInv, GoOnInv, MapControllersInv,
       PagingResetInv, UseApicInv, StartAPInv, TouchInv DEF Next

\* The inductive invariant holds throughout.
LEMMA AlwaysIndInv == Spec => []IndInv
  BY InitIndInv, StepIndInv, PTL DEF Spec

\* Once the controllers are in use, no core works with a translation that the page tables
\* no longer hold, wherever mem_unmap left one behind and whichever core runs.
THEOREM NoStaleTranslation == Spec => []NothingStale
  <1>1. IndInv => NothingStale
    <2> SUFFICES ASSUME IndInv, pc \in {"use_apic", "done"}, NEW c \in started
                 PROVE  /\ \A p \in Pages : Translations(c, p) \subseteq {entry[p]}
                        /\ Translations(c, LAPIC) \subseteq {Entry(LAPIC, TRUE, FALSE)}
      BY DEF NothingStale
    <2>1. ASSUME NEW p \in Pages
          PROVE  Translations(c, p) \subseteq {entry[p]} \ {ABSENT}
      <3>1. CASE tlb[c].page = p
        <4>1. tlb[c] # NONE /\ tlb[c] \in [page : Pages, entry : Entries]
          BY <3>1, KernelPages DEF IndInv, TypeOK, PagingTypeOK, NONE
        <4>2. tlb[c].entry = entry[p] /\ tlb[c].entry \in Entries
          BY <3>1, <4>1 DEF IndInv, CachedHolds
        <4>3. QED
          BY <3>1, <4>2, EntryTypes DEF Translations
      <3>2. CASE tlb[c].page # p
        BY <3>2 DEF Translations
      <3>3. QED
        BY <3>1, <3>2
    <2>2. entry[LAPIC] \in {ABSENT, Entry(LAPIC, TRUE, FALSE)} /\ LAPIC \in Pages
      BY DEF IndInv, DevMapped, TypeOK
    <2>3. QED
      BY <2>1, <2>2
  <1>2. QED
    BY <1>1, AlwaysIndInv, PTL

\* Unless mem_map refused a module, the kernel stays mapped as InitPaging mapped it,
\* whatever modules there are and however odd their sizes.
THEOREM KernelMapped == Spec => []KernelStaysMapped
  <1>1. IndInv => KernelStaysMapped
    BY DEF IndInv
  <1>2. QED
    BY <1>1, AlwaysIndInv, PTL

\* Unless mem_map refused a module, the boot meets no page fault where there are tables,
\* and the module whose magic number is read is mapped to its last byte.
THEOREM FaultsOnlyWithoutTable == Spec => []NoFaultWithTables
  <1>1. IndInv => NoFaultWithTables
    BY DEF IndInv
  <1>2. QED
    BY <1>1, AlwaysIndInv, PTL
=============================================================================

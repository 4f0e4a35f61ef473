------------------------------ MODULE BootMaps ------------------------------
(***************************************************************************)
(* What the kernel does with its page tables while it boots: the modules   *)
(* of the boot loader are mapped read only one after the other until the   *)
(* initrd is found (kernel_init_fs), then the registers of the LAPIC and   *)
(* the IOAPIC are mapped for uncached writing (InitSys) and used, later by *)
(* the other cores too.  Between any two steps the boot processor touches  *)
(* pages of the kernel.                                                    *)
(***************************************************************************)
EXTENDS Paging, Sequences

CONSTANTS
  BSP,          \* the core that boots
  ModuleLists,  \* modules the boot loader may report
  DevicePages,  \* pages the LAPIC and IOAPIC may be at
  HasApic       \* outcomes of the test for an APIC in InitSys

\* A module of the boot loader: where it starts, its size and whether it is an initrd.  It
\* lies in memory, and the loader puts none over the kernel.
Modules ==
  {m \in [page : Pages, size : Nat \ {0}, isInitrd : BOOLEAN] :
     PageRange(m.page, m.size) \subseteq Pages \ (TextPages \cup DataPages)}

ASSUME BootMapsAssumption ==
  /\ BSP \in Cores
  /\ \A ms \in ModuleLists : ms \in Seq(Modules)
  /\ DevicePages \subseteq Pages
  /\ HasApic \subseteq BOOLEAN

VARIABLES
  pc,       \* what the boot processor does next
  modules,  \* the modules reported
  i,        \* the module looked at
  LAPIC,    \* page of the LAPIC
  IOAPIC,   \* page of the IOAPIC
  started   \* cores that run with paging

bootVars == <<pc, modules, i, LAPIC, IOAPIC, started>>
vars == <<pagingVars, bootVars>>

Goto(to) == pc' = to /\ UNCHANGED <<modules, i, LAPIC, IOAPIC, started>>

Mod == modules[i]

\* The pages the bytes of the module lie in.
ModPages == Mod.page .. Mod.page + (Mod.size - 1) \div PAGE_SIZE

\* A page fault: no handler is installed that could go on.
Stop == Goto("pagefault") /\ UNCHANGED pagingVars

\* mem_map of the next module.  The result is not tested: a refused module is taken
\* to start at address NULL, where no initrd is.
MapModule ==
  /\ pc = "map_module" /\ i <= Len(modules)
  /\ \/ MemMap(Mod.page, Mod.size, FALSE, TRUE) /\ Goto("read_magic")
     \/ /\ ~Accepted(Mod.page, Mod.size) /\ UNCHANGED pagingVars
        /\ modules' = [modules EXCEPT ![i].page = 0, ![i].isInitrd = FALSE]
        /\ pc' = "read_magic" /\ UNCHANGED <<i, LAPIC, IOAPIC, started>>

\* The magic number at the start of the module.
ReadMagic ==
  /\ pc = "read_magic"
  /\ IF PageFaults(BSP, Mod.page) THEN Stop
     ELSE Access(BSP, Mod.page) /\ Goto(IF Mod.isInitrd THEN "load" ELSE "unmap_module")

\* ramfs_loadInitrd reads the whole image.
LoadInitrd ==
  /\ pc = "load"
  /\ \E p \in ModPages :
       IF PageFaults(BSP, p) THEN Stop
       ELSE Access(BSP, p) /\ (Goto("load") \/ Goto("unmap_initrd"))

UnmapModule ==
  /\ pc \in {"unmap_module", "unmap_initrd"}
  /\ MemUnmap(Mod.page, Mod.size)
  /\ pc' = IF pc = "unmap_initrd" THEN "init_sys" ELSE "map_module"
  /\ i' = IF pc = "unmap_initrd" THEN i ELSE i + 1
  /\ UNCHANGED <<modules, LAPIC, IOAPIC, started>>

\* No module, or none that is an initrd: the kernel loops for ever.
Panic ==
  /\ pc = "map_module" /\ i > Len(modules)
  /\ Goto("panic") /\ UNCHANGED pagingVars

\* Without an APIC nothing is mapped and no other core is started.
InitSys ==
  /\ pc = "init_sys"
  /\ \E apic \in HasApic : Goto(IF apic THEN "map_lapic" ELSE "done_pic")
  /\ UNCHANGED pagingVars

\* The result of mem_map is the address, which is NULL for a controller the
\* firmware does not name: the system stops, with page 0 remapped.
MapController(page, next) ==
  IF Accepted(page, PAGE_SIZE)
  THEN MemMap(page, PAGE_SIZE, TRUE, FALSE) /\ Goto(IF page = 0 THEN "stopped" ELSE next)
  ELSE Goto("stopped") /\ UNCHANGED pagingVars

MapLapic == pc = "map_lapic" /\ MapController(LAPIC, "map_ioapic")

MapIoapic == pc = "map_ioapic" /\ MapController(IOAPIC, "paging_reset")

PagingReset ==
  /\ pc = "paging_reset"
  /\ tlb' = Flushed(BSP) /\ UNCHANGED <<entry, lowmem>>
  /\ Goto("use_apic")

\* LAPIC_enable, IOAPIC_IRQ_Setup and everything after them.
UseApic ==
  /\ pc = "use_apic"
  /\ \E p \in {LAPIC, IOAPIC} :
       IF PageFaults(BSP, p) THEN Stop ELSE Access(BSP, p) /\ (Goto("use_apic") \/ Goto("done"))

\* InitAPs: another core starts, loads the directory and enables its LAPIC.
StartAP(c) ==
  /\ pc = "done" /\ c \notin started
  /\ started' = started \cup {c}
  /\ tlb' = Flushed(c)
  /\ UNCHANGED <<entry, lowmem, pc, modules, i, LAPIC, IOAPIC>>

APUsesLapic(c) ==
  /\ c \in started \ {BSP}
  /\ Access(c, LAPIC)
  /\ UNCHANGED bootVars

\* Any step touches code, stack and data of the kernel.
TouchKernel(c) ==
  /\ c \in started
  /\ \E p \in TextPages \cup DataPages : Access(c, p)
  /\ UNCHANGED bootVars

Init ==
  /\ InitPaging
  /\ pc = "map_module" /\ i = 1
  /\ modules \in ModuleLists
  /\ LAPIC \in DevicePages /\ IOAPIC \in DevicePages
  /\ started = {BSP}

Next ==
  \/ MapModule \/ ReadMagic \/ LoadInitrd \/ UnmapModule \/ Panic
  \/ InitSys \/ MapLapic \/ MapIoapic \/ PagingReset \/ UseApic
  \/ \E c \in Cores : StartAP(c) \/ APUsesLapic(c) \/ TouchKernel(c)

Spec == Init /\ [][Next]_vars

-----------------------------------------------------------------------------
(* Properties. *)

\* Once the controllers are in use no core works with a translation that the tables
\* no longer hold: their registers are uncached, and the pages of the modules that
\* were read and unmapped without a word to the TLB can no longer be read.
NothingStale ==
  pc \in {"use_apic", "done"} =>
     \A c \in started :
        /\ \A p \in Pages : Translations(c, p) \subseteq {entry[p]}
        /\ Translations(c, LAPIC) \subseteq {Entry(LAPIC, TRUE, FALSE)}

\* mem_map refused a module.
Refused == \E k \in DOMAIN modules : modules[k].page = 0

\* Unless mem_map refused a module, which is then unmapped at address NULL all the
\* same, mapping and unmapping never takes a page of the kernel away, moves it or
\* makes its code writable; only a controller put there changes how it is cached.
KernelStaysMapped ==
  ~Refused =>
     \A p \in TextPages \cup DataPages :
        /\ entry[p].present /\ entry[p].frame = p
        /\ p \in {LAPIC, IOAPIC} \/ entry[p] = Entry(p, p \in DataPages, TRUE)

\* As long as all the boot maps lies where InitPaging put a table, no step meets a page
\* fault: each byte of a module is mapped, however odd its size, as is_mapped confirms.
NoFaultWithTables ==
  ~Refused =>
     /\ pc = "pagefault" => \E p \in {LAPIC, IOAPIC} \cup ModPages : ~TablePresent(p)
     /\ pc = "read_magic" =>
          (\E p \in ModPages : ~TablePresent(p)) \/ IsMapped(Mod.page, Mod.size)

-----------------------------------------------------------------------------
(* The inductive invariant behind them. *)

Pcs ==
  {"map_module", "read_magic", "load", "unmap_module", "unmap_initrd", "panic", "init_sys",
   "map_lapic", "map_ioapic", "paging_reset", "use_apic", "done", "done_pic", "stopped",
   "pagefault"}

\* A module mem_map refused is taken to lie at page 0.
Taken == [page : {0}, size : Nat \ {0}, isInitrd : {FALSE}]

TypeOK ==
  /\ PagingTypeOK
  /\ pc \in Pcs
  /\ modules \in Seq(Modules \cup Taken)
  /\ i \in Nat \ {0}
  /\ LAPIC \in Pages /\ IOAPIC \in Pages
  /\ started \in SUBSET Cores

\* A module is looked at, and read as a whole only if it is an initrd.
HasMod ==
  /\ pc \in {"read_magic", "load", "unmap_module", "unmap_initrd"} => i <= Len(modules)
  /\ pc = "load" => Mod.isInitrd

\* Only the entries of tables that exist are ever stored.
AbsentTables == \A p \in Pages : ~TablePresent(p) => entry[p] = ABSENT

\* Where the module that is read has tables, it is mapped.
ModMapped ==
  pc \in {"read_magic", "load"} /\ ~Refused =>
     \A p \in ModPages : TablePresent(p) => entry[p] # ABSENT

\* Where the controllers have tables, they are mapped for uncached writing once
\* MapController went on.
DevMapped ==
  /\ pc \in {"map_ioapic", "paging_reset", "use_apic", "done"} =>
       entry[LAPIC] \in {ABSENT, Entry(LAPIC, TRUE, FALSE)}
         /\ (TablePresent(LAPIC) => entry[LAPIC] # ABSENT)
  /\ pc \in {"paging_reset", "use_apic", "done"} /\ TablePresent(IOAPIC) => entry[IOAPIC] # ABSENT

\* The other cores start when the tables no longer change, and from then on what a core
\* has cached is what they hold.
CachedHolds ==
  /\ BSP \in started
  /\ pc # "done" => started = {BSP}
  /\ pc \in {"use_apic", "done"} =>
       \A c \in started : tlb[c] # NONE => tlb[c].entry = entry[tlb[c].page]

IndInv ==
  /\ TypeOK /\ HasMod /\ AbsentTables /\ ModMapped /\ DevMapped /\ CachedHolds
  /\ KernelStaysMapped /\ NoFaultWithTables
=============================================================================

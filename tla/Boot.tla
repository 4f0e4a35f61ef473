-------------------------------- MODULE Boot --------------------------------
(***************************************************************************)
(* The boot of the boot processor, from _start (boot.S) through            *)
(* kernel_init and InitSys to the loop of kernel_main, as far as it is     *)
(* about interrupts, with the devices raising theirs at any time.  Once    *)
(* the kernel runs, drivers use the interface of interrupts.c.             *)
(***************************************************************************)
EXTENDS Interrupts

CONSTANTS
  Firmwares,  \* the machines the kernel may find itself on
  Drivers,    \* interrupts a driver may claim
  WAIT        \* ticks of a wait

\* A machine: whether it has an APIC, the LAPIC id of the boot processor, what the BIOS
\* area holds, the MADT that describes it whether the kernel finds it or not, the lines
\* of the PICs the firmware left masked, and whether a serial port answers.
Machines ==
  [apic : BOOLEAN, bsp : Nat, area : Seq(Rsdps), madt : Madts, mask : SUBSET Irqs, serial : BOOLEAN]

\* The line of the IOAPICs the firmware of machine m says a device is wired to.
WireOf(m, k) ==
  LET os == {n \in DOMAIN m.madt.records :
               m.madt.records[n].type = "INT_OVER" /\ m.madt.records[n].irq = k}
  IN  IF os = {} THEN k ELSE m.madt.records[CHOOSE n \in os : \A i \in os : i <= n].gsi

\* Every MADT in the tables, damaged or not, is that of the machine.
TablesOf(m) ==
  \A n \in DOMAIN m.area : m.area[n].rsdt # NULL =>
     \A i \in DOMAIN m.area[n].rsdt :
        LET t == m.area[n].rsdt[i] IN t.signature = "APIC" => t.lapic = m.madt.lapic /\ t.records = m.madt.records

ASSUME BootAssumption ==
  /\ Firmwares \subseteq Machines
  /\ \A m \in Firmwares :
        TablesOf(m) /\ Fits(m.madt) /\ \A j, k \in Devices : j # k => WireOf(m, j) # WireOf(m, k)
  /\ Drivers \subseteq Devices \ {0}
  /\ WAIT \in Nat \ {0}

VARIABLES
  pc,         \* what the boot processor does next
  fw,         \* the machine
  conf,       \* SysConf_Info, but for ACPI_Init
  ACPI_Init,
  pit,        \* "periodic", "one_shot" or "spent"
  left,       \* ticks until the wait under way ends
  cpu,        \* the core InitAPs is at
  driver      \* state of each driver

bootVars == <<pc, fw, conf, ACPI_Init, pit, left, cpu, driver>>
vars == <<intVars, bootVars>>

ISA_IRQ0_PIT == 0
ISA_IRQ4_COM1 == 4
PIT_INT_TERM_COUNT == 0

Wire(k) == WireOf(fw, k)

\* The kernel drives the first IOAPIC of the MADT only, and takes its lines to be
\* numbered from zero.
Base == conf.IOAPICs[1].base

\* A step of the boot processor, not inside a wait.
Go(from, to) ==
  /\ pc = from /\ left = 0
  /\ pc' = to
  /\ UNCHANGED <<fw, driver>>

KeepBoot == UNCHANGED <<conf, ACPI_Init, pit, left, cpu>>

-----------------------------------------------------------------------------
(* From _start to InitSys. *)

\* ReadSystemConfig never reports an error, so ACPI_Init is TRUE whatever it found.
InitSystemConfig ==
  /\ Go("config", "tables")
  /\ conf' = ReadSystemConfig(fw.area)
  /\ ACPI_Init' = TRUE
  /\ UNCHANGED <<pit, left, cpu, intVars>>

InitTables ==
  /\ Go("tables", "stdio")
  /\ isr_table' = [v \in Vectors |-> "Default_ISR"]
  /\ KeepBoot /\ UNCHANGED <<IF_flag, SendEOI_handler, controllers>>

\* serial_init: a port that answers the loopback test masks the lines of the first PIC
\* but its own.
InitStdio ==
  /\ Go("stdio", "frequency")
  /\ pic' = IF fw.serial
            THEN [pic EXCEPT !.mask = @ \cup {k \in Irqs : ~OnSecond(k) /\ k # ISA_IRQ4_COM1}]
            ELSE pic
  /\ KeepBoot /\ UNCHANGED <<IF_flag, isr_table, SendEOI_handler, ioapic, lapic>>

\* Fault: the access bits of the command are set, and with them the mode takes effect.
PIT_commandWithAccess(mode) == 48 + mode

\* The command byte of PIT_set_mode: the channel is shifted out of it.
PIT_command(mode) == mode

\* Without access bits the command latches the count and leaves the mode.
PitAfter(command) ==
  IF (command \div 16) % 4 = 0 THEN pit
  ELSE IF (command \div 2) % 8 \in {2, 3} THEN "periodic" ELSE "one_shot"

SetSysTimerFrequency ==
  /\ Go("frequency", "init_sys")
  /\ pit' = PitAfter(PIT_command(PIT_INT_TERM_COUNT))
  /\ UNCHANGED <<conf, ACPI_Init, left, cpu, intVars>>

-----------------------------------------------------------------------------
(* InitSys *)

UsesApic == fw.apic /\ ACPI_Init

\* Interrupts are off; with an APIC the PICs are silenced.
DisablePic ==
  /\ UsesApic /\ Go("init_sys", "map")
  /\ IF_flag' = FALSE
  /\ pic' = PIC_disable
  /\ KeepBoot /\ UNCHANGED <<isr_table, SendEOI_handler, ioapic, lapic>>

\* mem_map of the LAPIC and the first IOAPIC, whose result is their address: one at
\* address zero passes for an error.  paging_reset enables interrupts when it is done.
MapControllers ==
  /\ LET found == conf.LAPIC_Ptr # 0 /\ Len(conf.IOAPICs) > 0
     IN  Go("map", IF found THEN "eoi" ELSE "stopped") /\ IF_flag' = found
  /\ KeepBoot /\ UNCHANGED <<isr_table, SendEOI_handler, controllers>>

SetLapicEoi ==
  /\ Go("eoi", "lapic")
  /\ SendEOI_handler' = "LAPIC"
  /\ KeepBoot /\ UNCHANGED <<IF_flag, isr_table, controllers>>

LAPIC_enable ==
  /\ Go("lapic", "systick")
  /\ lapic' = LAPIC_Send_EOI([lapic EXCEPT !.on = TRUE])
  /\ KeepBoot /\ UNCHANGED <<IF_flag, isr_table, SendEOI_handler, pic, ioapic>>

\* Otherwise the PICs are used.
SetPicEoi ==
  /\ ~UsesApic /\ Go("init_sys", "remap")
  /\ IF_flag' = FALSE
  /\ SendEOI_handler' = "PIC"
  /\ KeepBoot /\ UNCHANGED <<isr_table, controllers>>

RemapPic ==
  /\ Go("remap", "systick")
  /\ pic' = PIC_remap(HW_INT_START)
  /\ ACPI_Init' = FALSE
  /\ UNCHANGED <<conf, pit, left, cpu, IF_flag, isr_table, SendEOI_handler, ioapic, lapic>>

\* EnableIRQ of the vector of interrupt k, sent to the core with LAPIC id 0.
EnableIRQ(k) ==
  /\ ioapic' = IF ACPI_Init THEN IoapicRoute(Base, 0, conf.sources[k]) ELSE ioapic
  /\ pic' = IF ACPI_Init THEN pic ELSE PIC_IRQ_clear_mask(k)
  /\ UNCHANGED lapic

\* DisableIRQ of the vector of interrupt k: with the APIC the vector is taken for the
\* line of the IOAPIC.
DisableIRQ(k) ==
  /\ ioapic' = IF ACPI_Init THEN IoapicMask(Base, HW_INT_START + k) ELSE ioapic
  /\ pic' = IF ACPI_Init THEN pic ELSE PIC_IRQ_set_mask(k)
  /\ UNCHANGED lapic

\* ISR_Install and ISR_Uninstall leave interrupts enabled.
StoreIsr(vector, isr) ==
  /\ isr_table' = [isr_table EXCEPT ![vector] = isr]
  /\ IF_flag' = TRUE
  /\ UNCHANGED SendEOI_handler

\* InitSysTime: the routine is stored, then the line is enabled.
InstallSysTick ==
  /\ Go("systick", "enable_tick")
  /\ isr_table' = [isr_table EXCEPT ![HW_INT_START + ISA_IRQ0_PIT] = "SysTick"]
  /\ KeepBoot /\ UNCHANGED <<IF_flag, SendEOI_handler, controllers>>

EnableTick ==
  /\ Go("enable_tick", "ex_DoubleFault")
  /\ EnableIRQ(ISA_IRQ0_PIT)
  /\ KeepBoot /\ UNCHANGED <<IF_flag, isr_table, SendEOI_handler>>

InstallDoubleFault ==
  /\ Go("ex_DoubleFault", "ex_PageFault")
  /\ StoreIsr(DOUBLE_FAULT, "ex_DoubleFault")
  /\ KeepBoot /\ UNCHANGED controllers

InstallPageFault ==
  /\ Go("ex_PageFault", "micro_timer")
  /\ StoreIsr(PAGE_FAULT, "ex_PageFault")
  /\ KeepBoot /\ UNCHANGED controllers

\* get_apic_timer_clock waits for ticks when there is a LAPIC timer to measure.
InitMicroTimer ==
  /\ Go("micro_timer", "init_aps")
  /\ left' = IF ACPI_Init /\ conf.LAPIC_Ptr # 0 THEN WAIT ELSE 0
  /\ UNCHANGED <<conf, ACPI_Init, pit, cpu, intVars>>

\* InitAPs waits once for each core.
InitAPs ==
  /\ IF ACPI_Init /\ Len(conf.CPUs) > 1 /\ cpu < Len(conf.CPUs)
     THEN Go("init_aps", "init_aps") /\ cpu' = cpu + 1 /\ left' = WAIT
     ELSE Go("init_aps", "main") /\ UNCHANGED <<cpu, left>>
  /\ UNCHANGED <<conf, ACPI_Init, pit, intVars>>

\* The loop at the end of kernel_main.
MainLoop ==
  /\ Go("main", "main")
  /\ left' = WAIT
  /\ UNCHANGED <<conf, ACPI_Init, pit, cpu, intVars>>

-----------------------------------------------------------------------------
(* Drivers claim and release their interrupt in the order that is safe. *)

Driver(k, from, to) ==
  /\ pc = "main" /\ driver[k] = from
  /\ driver' = [driver EXCEPT ![k] = to]
  /\ UNCHANGED <<pc, fw, conf, ACPI_Init, pit, left, cpu>>

Claim(k) ==
  /\ Driver(k, "away", "installed")
  /\ StoreIsr(HW_INT_START + k, "driver") /\ UNCHANGED controllers

Enable(k) ==
  /\ Driver(k, "installed", "enabled")
  /\ EnableIRQ(k) /\ UNCHANGED <<IF_flag, isr_table, SendEOI_handler>>

Disable(k) ==
  /\ Driver(k, "enabled", "disabled")
  /\ DisableIRQ(k) /\ UNCHANGED <<IF_flag, isr_table, SendEOI_handler>>

Release(k) ==
  /\ Driver(k, "disabled", "away")
  /\ StoreIsr(HW_INT_START + k, NULL) /\ UNCHANGED controllers

-----------------------------------------------------------------------------
(* Interrupts. *)

\* Interrupts are off and no stub exists while the configuration is read, so what is
\* raised meanwhile may as well be raised after it.
Running == pc \notin {"config", "stopped", "null", "fault"}

Raise(k) ==
  /\ Running
  /\ k = ISA_IRQ0_PIT => pit # "spent"
  /\ Raised(k, Wire(k), fw.bsp)
  /\ pit' = IF k = ISA_IRQ0_PIT /\ pit = "one_shot" THEN "spent" ELSE pit
  /\ UNCHANGED <<pc, fw, conf, ACPI_Init, left, cpu, driver>>

\* The stub of a vector runs, the controllers being at p and l.
Stub(vector, p, l) ==
  /\ IF CallsNull(vector)
     THEN pc' = "null" /\ pic' = p /\ lapic' = l /\ UNCHANGED left
     ELSE /\ Acknowledged(vector, p, l)
          /\ left' = IF isr_table[vector] = "SysTick" /\ left > 0 THEN left - 1 ELSE left
          /\ UNCHANGED pc
  /\ UNCHANGED <<fw, conf, ACPI_Init, pit, cpu, driver, IF_flag, isr_table, SendEOI_handler, ioapic>>

TakePic(k) == Running /\ IF_flag /\ k \in PicReady /\ Stub(PicVector(k), PicTaken(k), lapic)

TakeLapic(k) ==
  /\ Running /\ IF_flag
  /\ \E r \in LapicReady : r.irq = k /\ Stub(r.vector, pic, LapicTaken(r))

\* A NMI needs no enabled interrupts, only the table of stubs.
TakeNmi == Running /\ pc # "tables" /\ Stub(NMI, pic, lapic)

\* The kernel itself raises an exception: lost if the stub has an error code to pop, or
\* no EOI handler to call.
Fault(v) ==
  /\ Running /\ pc # "tables"
  /\ IF PushesErrorCode(v) \/ CallsNull(v)
     THEN pc' = "fault" /\ UNCHANGED <<intVars, fw, conf, ACPI_Init, pit, left, cpu, driver>>
     ELSE Stub(v, pic, lapic)

Init ==
  /\ fw \in Firmwares
  /\ InitInterrupts(fw.mask)
  /\ pc = "config" /\ conf = NoConf /\ ACPI_Init = FALSE
  /\ pit = "periodic" /\ left = 0 /\ cpu = 0
  /\ driver = [k \in Drivers |-> "away"]

BootStep ==
  \/ InitSystemConfig \/ InitTables \/ InitStdio \/ SetSysTimerFrequency
  \/ DisablePic \/ MapControllers \/ SetLapicEoi \/ LAPIC_enable \/ SetPicEoi \/ RemapPic
  \/ InstallSysTick \/ EnableTick \/ InstallDoubleFault \/ InstallPageFault
  \/ InitMicroTimer \/ InitAPs \/ MainLoop

Next ==
  \/ BootStep
  \/ \E k \in Drivers : Claim(k) \/ Enable(k) \/ Disable(k) \/ Release(k)
  \/ \E k \in Devices : Raise(k) \/ TakePic(k) \/ TakeLapic(k)
  \/ TakeNmi
  \/ \E v \in {BREAKPOINT, PAGE_FAULT} : Fault(v)

\* The processor goes on and takes interrupts, the timer keeps ticking as long as it is
\* periodic, and its request is taken when it is ready time and again: the other devices
\* leave the core time to serve it.
Fairness ==
  /\ WF_vars(BootStep)
  /\ WF_vars(Raise(ISA_IRQ0_PIT))
  /\ WF_vars(\E k \in Devices : TakePic(k) \/ TakeLapic(k))
  /\ SF_vars(TakePic(ISA_IRQ0_PIT) \/ TakeLapic(ISA_IRQ0_PIT))

Spec == Init /\ [][Next]_vars /\ Fairness

-----------------------------------------------------------------------------
(* Properties. *)

\* No interrupt, at whatever moment of the boot it comes, enters the kernel before
\* there is a routine and an EOI handler for it; the only one that does is that of a
\* driver which disabled it and took its routine away, where the IOAPIC is in use.
NeverCallsNull ==
  pc = "null" => ACPI_Init /\ \E k \in Drivers : isr_table[HW_INT_START + k] = NULL

\* Every interrupt that was taken has been acknowledged at the controller it came
\* from, so that it cannot hold up the ones that come after it.
NothingLeftInService == pc # "null" => pic.isr = {} /\ lapic.isr = {}

\* The kernel drives an IOAPIC whose lines are numbered from zero.
FirstIoapicAtZero == conf.IOAPICs = <<>> \/ Base = 0

\* An interrupt that can come in does so at the vector its routine is installed for,
\* however the firmware routes it and whichever controller delivers it.
EntersAsInstalled ==
  IF_flag /\ Running /\ FirstIoapicAtZero =>
     /\ \A k \in PicReady : PicVector(k) = HW_INT_START + k
     /\ \A r \in LapicReady : r.vector = HW_INT_START + r.irq

\* What the flags of the MADT say of interrupt k, as ACPI defines them: ISA lines are
\* edge triggered and active high unless told otherwise.
FirmwareFlags(k) ==
  LET os == {n \in DOMAIN fw.madt.records :
               fw.madt.records[n].type = "INT_OVER" /\ fw.madt.records[n].irq = k}
  IN  IF os = {} THEN 0 ELSE fw.madt.records[CHOOSE n \in os : \A m \in os : m <= n].flags

HasLapicNmi == \E n \in DOMAIN fw.madt.records : fw.madt.records[n].type = "LAPIC_NMI"

\* A line that is enabled triggers as the firmware says, level and active low (11) or
\* as the bus (00), as long as no LAPIC NMI was misread for it; flags that name edge or
\* active high outright (01) are taken for the opposite.
TriggersAsToldUnlessExplicit ==
  \A k \in Devices :
     LET e == ioapic[Wire(k)] IN
       Wire(k) \in GSIs /\ FirstIoapicAtZero /\ ~HasLapicNmi /\ ~e.masked =>
          /\ FirmwareFlags(k) \div 4 # 1 => e.level = (FirmwareFlags(k) \div 4 = 3)
          /\ FirmwareFlags(k) % 4 # 1 => e.low = (FirmwareFlags(k) % 4 = 3)

\* The kernel finds the MADT.
Readable == MadtInfo(FindRsdp(fw.area)) # NULL

\* ReadSystemConfig finds in a MADT that can be read what the machine is: as many cores
\* as can be used, up to the maximum, the LAPIC where the last override puts it, and
\* every interrupt on the line it is wired to.
ConfIsTheMachine ==
  pc # "config" /\ Readable =>
     LET rs == fw.madt.records
         usable == {n \in DOMAIN rs : rs[n].type = "LAPIC" /\ (rs[n].enabled \/ rs[n].onlineCapable)}
         moved == {n \in DOMAIN rs : rs[n].type = "ADDR_OVER"}
     IN  /\ Len(conf.CPUs) = IF Cardinality(usable) < MAX_SUPP_PROC_NUM
                             THEN Cardinality(usable) ELSE MAX_SUPP_PROC_NUM
         /\ {conf.CPUs[n] : n \in DOMAIN conf.CPUs} \subseteq {rs[n].id : n \in usable}
         /\ conf.LAPIC_Ptr = IF moved = {} THEN fw.madt.lapic
                             ELSE rs[CHOOSE n \in moved : \A m \in moved : m <= n].addr
         /\ \A k \in Irqs : conf.sources[k].gsi = Wire(k)

\* The machines the kernel can boot: without an APIC, or with a MADT it finds, an IOAPIC
\* numbered from zero and a boot processor with LAPIC id 0, where it sends the tick.
Supported ==
  fw.apic => /\ Readable /\ fw.bsp = 0
             /\ LET info == MadtInfo(FindRsdp(fw.area))
                IN  info.lapic # 0 /\ info.IOAPICs # <<>> /\ info.IOAPICs[1].base = 0

\* On those machines the boot comes to its end and every wait in it and after it too:
\* the tick reaches SysTick through whichever controller, and goes on doing so whatever
\* the other devices and the drivers do, unless the kernel itself raises an exception
\* or a driver's routine is gone.
BootsAndKeepsTime ==
  Supported => []<>(pc = "main" /\ left = 0) \/ <>(pc \in {"fault", "null"})

\* "Otherwise use the PIC": a machine whose tables give no interrupt controller to drive
\* is run with the PIC.
PicWithoutTables == pc # "stopped"

-----------------------------------------------------------------------------
(* The inductive invariant behind the invariants above. *)

Early == {"config", "tables", "stdio", "frequency", "init_sys"}
Late == {"systick", "enable_tick", "ex_DoubleFault", "ex_PageFault", "micro_timer", "init_aps", "main"}
Pcs == Early \cup {"map", "eoi", "lapic", "remap"} \cup Late \cup {"stopped", "null", "fault"}

TypeOK ==
  /\ pc \in Pcs /\ fw \in Firmwares /\ IF_flag \in BOOLEAN /\ ACPI_Init \in BOOLEAN
  /\ isr_table \in [Vectors -> Routines \cup {NULL}]
  /\ SendEOI_handler \in EoiHandlers \cup {NULL}
  /\ pic \in [base1 : Nat, base2 : Nat, offset : Nat, mask : SUBSET Irqs, irr : SUBSET Irqs,
              isr : SUBSET Irqs]
  /\ ioapic \in [GSIs -> RedirectEntries]
  /\ lapic \in [on : BOOLEAN, irr : SUBSET [vector : Nat, irq : Irqs], isr : SUBSET Nat]
  /\ driver \in [Drivers -> {"away", "installed", "enabled", "disabled"}]

\* Which controller serves the kernel at each step of the boot: interrupts are enabled
\* with the PICs masked or remapped, and the LAPIC is on only with its EOI handler.
Controllers ==
  /\ pc \in Early \cup {"map", "eoi"} => SendEOI_handler = NULL
  /\ pc \in Early \cup {"map", "remap"} => ~IF_flag
  /\ pc = "lapic" => SendEOI_handler = "LAPIC"
  /\ pc = "remap" => SendEOI_handler = "PIC"
  /\ pc \in Late => SendEOI_handler # NULL
  /\ pc \in {"map", "eoi"} \/ SendEOI_handler = "LAPIC" => ACPI_Init /\ pic.mask = Irqs
  /\ SendEOI_handler = "PIC" /\ pc \in Late =>
       /\ ~ACPI_Init
       /\ pic.base1 = HW_INT_START /\ pic.base2 = HW_INT_START + PIC1_LINES
       /\ pic.offset = HW_INT_START
  /\ lapic.on => SendEOI_handler = "LAPIC"

\* The configuration is what was read, and the kernel has read it, and an IOAPIC in it,
\* when it uses the APIC.
Configured ==
  /\ conf = IF pc = "config" THEN NoConf ELSE ReadSystemConfig(fw.area)
  /\ pc = "eoi" \/ SendEOI_handler = "LAPIC" => Readable /\ Len(conf.IOAPICs) > 0

\* An open line of the IOAPIC leads to the vector of a device, as configured.
Lines ==
  \A g \in GSIs : ~ioapic[g].masked =>
     /\ SendEOI_handler = "LAPIC"
     /\ \E k \in Devices : /\ g = Base + conf.sources[k].gsi
                           /\ ioapic[g] = Redirection(0, conf.sources[k])

\* So do the requests the LAPIC has.
Requests ==
  \A r \in lapic.irr :
     /\ lapic.on
     /\ \E k \in Devices : r.vector = HW_INT_START + k /\ (FirstIoapicAtZero => r.irq = k)

\* A routine is missing only for a driver that has masked its line at the PIC.
Routine ==
  /\ \A v \in Vectors : isr_table[v] = NULL =>
        \E k \in Drivers : v = HW_INT_START + k /\ driver[k] = "away" /\ (ACPI_Init \/ k \in pic.mask)
  /\ \A k \in Drivers : driver[k] = "disabled" => ACPI_Init \/ k \in pic.mask
  /\ pc \notin {"main", "null", "fault"} =>
       (\A v \in Vectors : isr_table[v] # NULL) /\ \A k \in Drivers : driver[k] = "away"

IndInv ==
  /\ TypeOK /\ Controllers /\ Configured /\ Lines /\ Requests /\ Routine
  /\ NeverCallsNull /\ NothingLeftInService
=============================================================================

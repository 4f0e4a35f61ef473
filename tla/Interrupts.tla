----------------------------- MODULE Interrupts -----------------------------
(***************************************************************************)
(* The way of an interrupt: a device raises its line at the PIC and at the *)
(* IOAPIC (pic.c, apic.c); when a controller passes it on and the core has *)
(* interrupts enabled, the stub of its vector (tab_asm.S) calls the        *)
(* routine in isr_table and then the EOI handler.  The gates clear the     *)
(* interrupt flag and no routine sets it, so a stub is one step.  A jump   *)
(* through NULL leaves the kernel for good.                                *)
(***************************************************************************)
EXTENDS Acpi, FiniteSets

CONSTANT GSIs  \* lines of the IOAPICs looked at

VARIABLES
  IF_flag,          \* interrupts enabled at the boot processor
  isr_table,        \* routine of each vector
  SendEOI_handler,  \* "LAPIC", "PIC" or NULL
  pic,              \* [base1, base2, offset, mask, irr, isr]: vectors of the two PICs,
                    \*   IRQ_start_offset and the mask, request and service registers
  ioapic,           \* redirection entry of each line
  lapic             \* [on, irr, isr] of the boot processor: requests as [vector, irq]

controllers == <<pic, ioapic, lapic>>
intVars == <<IF_flag, isr_table, SendEOI_handler, pic, ioapic, lapic>>

NMI == 2
BREAKPOINT == 3
DOUBLE_FAULT == 8
PAGE_FAULT == 14
CASCADE == 2

\* Lines of the first PIC, the ones of the second one follow.
PIC1_LINES == 8

\* The routines of interrupts, and the handlers that acknowledge them.
Routines == {"nopIsr", "Default_ISR", "SysTick", "ex_DoubleFault", "ex_PageFault", "driver"}
EoiHandlers == {"LAPIC", "PIC"}

ASSUME InterruptsAssumption ==
  /\ CASCADE \in Irqs
  /\ NULL \notin Routines \cup EoiHandlers

\* Vectors a PIC starts at before the kernel remaps it.
BIOS_BASE1 == 8
BIOS_BASE2 == 112

Devices == Irqs \ {CASCADE}

Vectors ==
  {NMI, BREAKPOINT, DOUBLE_FAULT, PAGE_FAULT}
    \cup {BIOS_BASE1 + k : k \in {j \in Irqs : j < PIC1_LINES}}
    \cup {BIOS_BASE2 + k - PIC1_LINES : k \in {j \in Irqs : j >= PIC1_LINES}}
    \cup {HW_INT_START + k : k \in Irqs}

-----------------------------------------------------------------------------
(* The two PICs. *)

OnSecond(k) == k >= PIC1_LINES

\* The lines of the second PIC come in where the first has its line 2.
Rank(k) == IF OnSecond(k) THEN <<CASCADE, k>> ELSE <<k, 0>>

Before(j, k) == Rank(j)[1] < Rank(k)[1] \/ (Rank(j)[1] = Rank(k)[1] /\ Rank(j)[2] < Rank(k)[2])

PicVector(k) == IF OnSecond(k) THEN pic.base2 + k - PIC1_LINES ELSE pic.base1 + k

\* The line the PICs hand to the core, as a set: not masked, no other in service that
\* comes first.
PicReady ==
  LET open == {k \in pic.irr \ pic.mask : OnSecond(k) => CASCADE \notin pic.mask}
      free == {k \in open : \A j \in pic.isr : Before(k, j)}
  IN  {k \in free : \A j \in free : ~Before(j, k)}

\* Taking it sets the line in service, and the cascade for a line of the second PIC.
PicTaken(k) ==
  [pic EXCEPT !.irr = @ \ {k}, !.isr = @ \cup {k} \cup (IF OnSecond(k) THEN {CASCADE} ELSE {})]

\* An EOI command ends the service of the line that comes first at that PIC.
EndFirst(S) == {k \in S : \E j \in S : Before(j, k)}

Eoi1(isr) == EndFirst({k \in isr : ~OnSecond(k)}) \cup {k \in isr : OnSecond(k)}
Eoi2(isr) == EndFirst({k \in isr : OnSecond(k)}) \cup {k \in isr : ~OnSecond(k)}

\* Fault: the PICs are left as the firmware had them.
PIC_disableNot == pic

\* PIC_disable: an EOI to both PICs, then everything masked.
PIC_disable == [pic EXCEPT !.isr = Eoi2(Eoi1(@)), !.mask = Irqs]

\* PIC_SendEOI: vectors below the offset underflow and are not of the PICs.
PIC_SendEOI(p, vector) ==
  LET irq == IF p.offset > 0 THEN (vector % 256) - p.offset ELSE vector
  IN  IF irq \notin 0 .. 15 THEN p
      ELSE [p EXCEPT !.isr = Eoi1(IF irq >= PIC1_LINES THEN Eoi2(@) ELSE @)]

\* Fault: the offset the EOI handler subtracts is not recorded.
PIC_remapNoOffset(offset) ==
  [pic EXCEPT !.base1 = offset, !.base2 = offset + PIC1_LINES, !.irr = {}, !.isr = {}]

\* PIC_remap: the initialisation sequence clears the requests, the masks are put back.
PIC_remap(offset) ==
  [pic EXCEPT !.offset = offset, !.base1 = offset, !.base2 = offset + PIC1_LINES,
              !.irr = {}, !.isr = {}]

\* PIC_EnableIRQ and PIC_DisableIRQ
PIC_IRQ_clear_mask(k) == [pic EXCEPT !.mask = @ \ {k}]
PIC_IRQ_set_mask(k) == [pic EXCEPT !.mask = @ \cup {k}]

-----------------------------------------------------------------------------
(* The IOAPICs and the LAPIC. *)

\* A redirection entry of an IOAPIC, but for the delivery mode, which is always fixed,
\* and the two status bits, which the kernel does not look at.
RedirectEntries ==
  [vector : Nat, masked : BOOLEAN, level : BOOLEAN, low : BOOLEAN, dest : Nat]

ResetEntry == [vector |-> 0, masked |-> TRUE, level |-> FALSE, low |-> FALSE, dest |-> 0]

\* Fault: trigger mode and polarity confused.
RedirectionSwapped(dest, source) ==
  [vector |-> source.vector, masked |-> FALSE, dest |-> dest,
   level |-> source.polarity % 2 = 1, low |-> source.trigger % 2 = 1]

\* The bits of the entry are the low bits of the two-bit fields.
Redirection(dest, source) ==
  [vector |-> source.vector, masked |-> FALSE, dest |-> dest,
   level |-> source.trigger % 2 = 1, low |-> source.polarity % 2 = 1]

\* IOAPIC_IRQ_Setup and IOAPIC_Unmask_IRQ at a line of the IOAPIC whose lines start at
\* base.  A line that does not exist has no entry.
IoapicRoute(base, dest, source) ==
  [g \in GSIs |-> IF g = base + source.gsi THEN Redirection(dest, source) ELSE ioapic[g]]

\* IOAPIC_Mask_IRQ
IoapicMask(base, line) ==
  [g \in GSIs |-> IF g = base + line THEN [ioapic[g] EXCEPT !.masked = TRUE] ELSE ioapic[g]]

\* The request the LAPIC hands to the core: the highest vector, if no vector of its
\* class or a higher one is in service.
LapicReady ==
  {r \in lapic.irr : /\ \A q \in lapic.irr : q.vector <= r.vector
                     /\ \A v \in lapic.isr : v \div 16 < r.vector \div 16}

LapicTaken(r) == [lapic EXCEPT !.irr = @ \ {r}, !.isr = @ \cup {r.vector}]

\* LAPIC_Send_EOI ends the service of the highest vector.
LAPIC_Send_EOI(l) == [l EXCEPT !.isr = {v \in @ : \E w \in @ : w > v}]

\* A device raises its line.  The PICs keep a request while the line is masked, the
\* IOAPIC does not; it passes the vector to the core the entry names.
Raised(k, gsi, core) ==
  /\ pic' = [pic EXCEPT !.irr = @ \cup {k}]
  /\ lapic' = IF lapic.on /\ gsi \in GSIs /\ ~ioapic[gsi].masked /\ ioapic[gsi].dest = core
              THEN [lapic EXCEPT !.irr = @ \cup {[vector |-> ioapic[gsi].vector, irq |-> k]}]
              ELSE lapic
  /\ UNCHANGED <<IF_flag, isr_table, SendEOI_handler, ioapic>>

-----------------------------------------------------------------------------
(* The stubs. *)

NeedsEOI(vector) == vector # NMI

\* The stub of a vector jumps through NULL.
CallsNull(vector) ==
  isr_table[vector] = NULL \/ (NeedsEOI(vector) /\ SendEOI_handler = NULL)

\* What the EOI handler does to the controllers p and l.
Acknowledged(vector, p, l) ==
  /\ pic' = IF NeedsEOI(vector) /\ SendEOI_handler = "PIC" THEN PIC_SendEOI(p, vector) ELSE p
  /\ lapic' = IF NeedsEOI(vector) /\ SendEOI_handler = "LAPIC" THEN LAPIC_Send_EOI(l) ELSE l

\* Vectors for which the processor pushes an error code.  The stub leaves it on the
\* stack, so that its iret does not return to where it came from.
PushesErrorCode(vector) == vector \in {8, 10, 11, 12, 13, 14, 17, 21, 29, 30}

InitInterrupts(mask) ==
  /\ IF_flag = FALSE
  /\ isr_table = [v \in Vectors |-> "nopIsr"]
  /\ SendEOI_handler = NULL
  /\ pic = [base1 |-> BIOS_BASE1, base2 |-> BIOS_BASE2, offset |-> 0,
            mask |-> mask, irr |-> {}, isr |-> {}]
  /\ ioapic = [g \in GSIs |-> ResetEntry]
  /\ lapic = [on |-> FALSE, irr |-> {}, isr |-> {}]
=============================================================================

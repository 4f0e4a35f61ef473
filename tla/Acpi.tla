-------------------------------- MODULE Acpi --------------------------------
(***************************************************************************)
(* What the kernel reads of the ACPI tables (acpi.c) and makes of them     *)
(* (ReadSystemConfig): the cores, the interrupt controllers and where the  *)
(* ISA interrupts go.  A table is a record: its signature, whether its     *)
(* bytes sum up to zero, and, for the MADT, the address of the LAPIC and   *)
(* the variable records in their order.                                    *)
(***************************************************************************)
EXTENDS Integers, Sequences, FiniteSets

CONSTANTS
  Irqs,               \* ISA interrupts looked at, a subset of 0 .. 15 with the timer's
  Stray,              \* what a LAPIC NMI record may be misread as: [gsi, flags]
  MAX_SUPP_PROC_NUM,  \* cores the kernel can describe
  HW_INT_START,       \* vector of the first interrupt of a device
  NULL                \* an address that is not there

ASSUME AcpiAssumption ==
  /\ Irqs \subseteq 0 .. 15 /\ 0 \in Irqs
  /\ Stray \subseteq [gsi : Nat, flags : 0 .. 15]
  /\ MAX_SUPP_PROC_NUM \in Nat \ {0}
  /\ HW_INT_START \in 32 .. 239

-----------------------------------------------------------------------------
(* acpi.h: the tables, as far as the kernel reads them. *)

\* The variable records of the MADT.  Flags are the four bits of trigger and polarity.
MadtRecords ==
  [type : {"LAPIC"}, id : Nat, enabled : BOOLEAN, onlineCapable : BOOLEAN]
    \cup [type : {"IOAPIC"}, base : Nat]
    \cup [type : {"INT_OVER"}, irq : Irqs, gsi : Nat, flags : 0 .. 15]
    \cup [type : {"ADDR_OVER"}, addr : Nat]
    \cup [type : {"LAPIC_NMI"}, misread : Stray]
    \cup [type : {"IOAPIC_NMI"}]

\* The address of the LAPIC, then the records.
Madts == [signature : {"APIC"}, sum : BOOLEAN, lapic : Nat, records : Seq(MadtRecords)]

MAX_CPU_NUM == 256
MAX_IOAPIC_NUM == 16
MAX_INT_NUM == 256
MAX_NMI_NUM == 16

\* MADT_info_t has room for the records.  The walk over them does not look at its limits,
\* which are those of the loops of ReadSystemConfig too.
Fits(madt) ==
  LET count(type) == Cardinality({n \in DOMAIN madt.records : madt.records[n].type = type})
  IN  /\ count("LAPIC") <= MAX_CPU_NUM /\ count("IOAPIC") <= MAX_IOAPIC_NUM
      /\ count("INT_OVER") <= MAX_INT_NUM /\ count("LAPIC_NMI") <= MAX_NMI_NUM

\* A table the RSDT points to: a MADT, or one of which the header is all that counts.
Tables == [signature : {"FACP", "MCFG"}, sum : BOOLEAN] \cup Madts

\* What may stand where an RSDP is looked for, with the RSDT it points to.
Rsdps == [label : BOOLEAN, sum : BOOLEAN, rsdt : {NULL} \cup Seq(Tables)]

-----------------------------------------------------------------------------
(* acpi.c *)

First(S) == CHOOSE n \in S : \A m \in S : n <= m

\* acpi_get_RSDP_ptr: the first label in the BIOS area that starts a structure
\* whose checksum holds.  A label whose checksum does not is passed over.
FindRsdp(area) ==
  LET hits == {n \in DOMAIN area : area[n].label /\ area[n].sum}
  IN  IF hits = {} THEN NULL ELSE area[First(hits)]

\* acpi_find_table: the first table of that signature, its checksum not considered.
FindTable(tables, signature) ==
  LET hits == {n \in DOMAIN tables : tables[n].signature = signature}
  IN  IF hits = {} THEN NULL ELSE tables[First(hits)]

NoInfo == [lapic |-> 0, LAPICs |-> <<>>, IOAPICs |-> <<>>, overrides |-> <<>>, nmis |-> <<>>]

\* Fault: processors that are disabled are counted.
CountedAlways(r) == TRUE

\* Flags & (MADT_PROC_ENABLED | MADT_ONLINE_CAPABLE)
Counted(r) == r.enabled \/ r.onlineCapable

\* One variable record.  A processor neither enabled nor online capable is not
\* counted, so that the next one takes its place.  A LAPIC NMI is taken for a NMI
\* of the IOAPIC, from the place where a longer record would have its fields: what
\* is read there lies behind it.  NMI of the IOAPIC are passed over.
AddRecord(info, r) ==
  CASE r.type = "LAPIC"      -> IF Counted(r) THEN [info EXCEPT !.LAPICs = Append(@, r.id)] ELSE info
    [] r.type = "IOAPIC"     -> [info EXCEPT !.IOAPICs = Append(@, r)]
    [] r.type = "INT_OVER"   -> [info EXCEPT !.overrides = Append(@, r)]
    [] r.type = "ADDR_OVER"  -> [info EXCEPT !.lapic = r.addr]
    [] r.type = "LAPIC_NMI"  -> [info EXCEPT !.nmis = Append(@, r.misread)]
    [] r.type = "IOAPIC_NMI" -> info

\* The loop over the variable records.
WalkMadt(madt) ==
  LET info[n \in 0 .. Len(madt.records)] ==
        IF n = 0 THEN [NoInfo EXCEPT !.lapic = madt.lapic] ELSE AddRecord(info[n - 1], madt.records[n])
  IN  info[Len(madt.records)]

\* acpi_get_MADT_info, NULL when it returns false.
MadtInfo(rsdp) ==
  LET madt == IF rsdp = NULL \/ rsdp.rsdt = NULL THEN NULL ELSE FindTable(rsdp.rsdt, "APIC")
  IN  IF madt = NULL THEN NULL ELSE IF madt.sum THEN WalkMadt(madt) ELSE NULL

-----------------------------------------------------------------------------
(* ReadSystemConfig *)

\* The source of an interrupt as the kernel knows it.  Trigger and polarity are the
\* two-bit fields of the flags of ACPI.
Source(vector, gsi, trigger, polarity) ==
  [vector |-> vector, gsi |-> gsi, trigger |-> trigger, polarity |-> polarity]

DefaultSources == [k \in Irqs |-> Source(HW_INT_START + k, k, 0, 0)]

\* Fault: the vector follows the line of the IOAPIC and not the ISA interrupt.
OverrideByGsi(src, o) ==
  [src EXCEPT ![o.irq] = Source(HW_INT_START + o.gsi, o.gsi, o.flags \div 4, o.flags % 4)]

\* The record of an interrupt source override.
Override(src, o) ==
  [src EXCEPT ![o.irq] = Source(HW_INT_START + o.irq, o.gsi, o.flags \div 4, o.flags % 4)]

\* The loop over the overrides.
ApplyOverrides(overrides) ==
  LET src[n \in 0 .. Len(overrides)] ==
        IF n = 0 THEN DefaultSources ELSE Override(src[n - 1], overrides[n])
  IN  src[Len(overrides)]

\* The first interrupt that goes to the line of the NMI gets its flags.
SetNmi(src, nmi) ==
  LET hits == {k \in Irqs : src[k].gsi = nmi.gsi}
  IN  IF hits = {} THEN src
      ELSE [src EXCEPT ![First(hits)].trigger = nmi.flags \div 4,
                       ![First(hits)].polarity = nmi.flags % 4]

\* The loop over the NMI.
ApplyNmis(sources, nmis) ==
  LET src[n \in 0 .. Len(nmis)] == IF n = 0 THEN sources ELSE SetNmi(src[n - 1], nmis[n])
  IN  src[Len(nmis)]

\* SysConf_Info before ReadSystemConfig.
NoConf ==
  [LAPIC_Ptr |-> 0, CPUs |-> <<>>, IOAPICs |-> <<>>, sources |-> [k \in Irqs |-> Source(0, 0, 0, 0)]]

\* ReadSystemConfig: what cannot be read leaves SysConf_Info as it was.  It reports
\* success in any case.
ReadSystemConfig(area) ==
  LET info == MadtInfo(FindRsdp(area))
      n    == Len(info.LAPICs)
  IN  IF info = NULL THEN NoConf
      ELSE [LAPIC_Ptr |-> info.lapic,
            CPUs      |-> SubSeq(info.LAPICs, 1, IF n < MAX_SUPP_PROC_NUM THEN n ELSE MAX_SUPP_PROC_NUM),
            IOAPICs   |-> info.IOAPICs,
            sources   |-> ApplyNmis(ApplyOverrides(info.overrides), info.nmis)]
=============================================================================

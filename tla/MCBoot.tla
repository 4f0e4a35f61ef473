------------------------------- MODULE MCBoot -------------------------------
(***************************************************************************)
(* Machines with the timer (0), the keyboard (1) and, behind the cascade   *)
(* (2), the clock (8).  The MADT has one record after the other taken from *)
(* small sets, so that processors are disabled or too many, the timer is   *)
(* on another line, flags are explicit or not, a LAPIC NMI is misread as   *)
(* something about the timer, and there may be two IOAPICs, the first not  *)
(* numbered from zero.  The tables may be hidden or damaged.               *)
(***************************************************************************)
EXTENDS Boot

MCStray == {[gsi |-> 2, flags |-> 15]}

Lapic(id, on) == [type |-> "LAPIC", id |-> id, enabled |-> on, onlineCapable |-> FALSE]

Processors == {
  <<Lapic(0, TRUE)>>,
  <<Lapic(0, FALSE), Lapic(1, TRUE), [Lapic(2, FALSE) EXCEPT !.onlineCapable = TRUE], Lapic(3, TRUE)>>}

Ioapics == {
  <<>>,
  <<[type |-> "IOAPIC", base |-> 0]>>,
  <<[type |-> "IOAPIC", base |-> 1], [type |-> "IOAPIC", base |-> 0]>>}

Over(irq, gsi, flags) == [type |-> "INT_OVER", irq |-> irq, gsi |-> gsi, flags |-> flags]

Overrides == {<<>>, <<Over(0, 2, 0), Over(1, 3, 12)>>, <<Over(0, 3, 0), Over(0, 2, 5)>>}

Nmis == {<<>>} \cup {<<[type |-> "LAPIC_NMI", misread |-> s]>> : s \in Stray}

Extras == {<<>>, <<[type |-> "ADDR_OVER", addr |-> 2], [type |-> "IOAPIC_NMI"]>>}

Records ==
  {p \o o \o i \o n \o x : p \in Processors, o \in Overrides, i \in Ioapics, n \in Nmis, x \in Extras}

\* Other tables, and none, stand before a MADT that may be damaged.
Rsdt(madt, sum) == <<[signature |-> "FACP", sum |-> TRUE], [madt EXCEPT !.sum = sum]>>

Area(rsdt) == <<[label |-> TRUE, sum |-> FALSE, rsdt |-> NULL], [label |-> TRUE, sum |-> TRUE, rsdt |-> rsdt]>>

Madt(records) == [signature |-> "APIC", sum |-> TRUE, lapic |-> 1, records |-> records]

Machine(apic, bsp, records, area, mask, serial) ==
  [apic |-> apic, bsp |-> bsp, area |-> area, mask |-> mask, serial |-> serial,
   madt |-> Madt(records)]

\* Every table with an APIC, the sound ones also without, hidden, damaged, on another
\* boot processor, and with lines the firmware left open.
MCFirmwares ==
  {Machine(TRUE, 0, r, Area(Rsdt(Madt(r), TRUE)), {}, FALSE) : r \in Records}
    \cup LET r == <<Lapic(0, TRUE), Over(0, 2, 0), [type |-> "IOAPIC", base |-> 0]>>
             areas == {Area(Rsdt(Madt(r), TRUE)), Area(Rsdt(Madt(r), FALSE)), Area(NULL), <<>>}
         IN  {Machine(apic, bsp, r, a, m, s) :
                apic \in BOOLEAN, bsp \in {0, 1}, a \in areas, m \in {{}, {0, 1, 8}}, s \in BOOLEAN}
=============================================================================

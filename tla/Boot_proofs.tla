---------------------------- MODULE Boot_proofs ----------------------------
(***************************************************************************)
(* The configuration the kernel reads from the ACPI tables, and interrupts *)
(* during and after the boot, for any machine whose tables describe it.    *)
(***************************************************************************)
EXTENDS Boot, FiniteSetTheorems, WellFoundedInduction, TLAPS

-----------------------------------------------------------------------------
(* Loops. *)

\* Every set of numbers that is not empty has a least one.
LEMMA Least ==
  ASSUME NEW S \in SUBSET Nat, S # {}
  PROVE  \E n \in S : \A m \in S : n <= m
  <1>1. PICK n \in S : \A m \in S : ~(<<m, n>> \in OpToRel(<, Nat))
    BY WFMin, NatLessThanWellFounded
  <1>2. \A m \in S : ~(m < n)
    BY <1>1 DEF OpToRel
  <1>3. QED
    BY <1>2

\* A set that has zero and the successors of its members up to N has them all.
LEMMA Induct ==
  ASSUME NEW N \in Nat, NEW S, 0 \in S, \A n \in 1 .. N : n - 1 \in S => n \in S
  PROVE  0 .. N \subseteq S
  <1> DEFINE Bad == {n \in 0 .. N : n \notin S}
  <1>1. SUFFICES ASSUME Bad # {} PROVE FALSE
    OBVIOUS
  <1>2. PICK n \in Bad : \A m \in Bad : n <= m
    <2>1. Bad \in SUBSET Nat
      OBVIOUS
    <2>2. QED
      BY <1>1, <2>1, Least
  <1>3. n # 0 /\ n \in 1 .. N /\ n - 1 \in 0 .. N
    BY <1>2
  <1>4. n - 1 \in S
    BY <1>2, <1>3
  <1>5. QED
    BY <1>2, <1>3, <1>4

\* A set of places that is not empty has a last one.
LEMMA Latest ==
  ASSUME NEW N \in Nat, NEW S \in SUBSET (1 .. N), S # {}
  PROVE  \E n \in S : \A m \in S : m <= n
  <1> DEFINE T == {N - n : n \in S}
  <1>1. T \in SUBSET Nat /\ T # {}
    <2>1. \A n \in S : N - n \in Nat
      OBVIOUS
    <2>2. QED
      BY <2>1
  <1>2. PICK t \in T : \A m \in T : t <= m
    BY <1>1, Least
  <1>3. PICK n \in S : t = N - n
    BY <1>2
  <1>4. \A m \in S : N - n <= N - m
    BY <1>2, <1>3
  <1>5. QED
    BY <1>3, <1>4

\* A loop that makes a member of X from one computes a function of its count.
LEMMA Iterates ==
  ASSUME NEW X, NEW b \in X, NEW N \in Nat, NEW step \in [1 .. N -> [X -> X]]
  PROVE  \E g \in [0 .. N -> X] : g[0] = b /\ \A n \in 1 .. N : g[n] = step[n][g[n - 1]]
  <1> DEFINE Good(M, g) == g[0] = b /\ \A n \in 1 .. M : g[n] = step[n][g[n - 1]]
             S == {M \in 0 .. N : \E g \in [0 .. M -> X] : Good(M, g)}
  <1>1. 0 \in S
    <2>1. [i \in 0 .. 0 |-> b] \in [0 .. 0 -> X] /\ Good(0, [i \in 0 .. 0 |-> b])
      OBVIOUS
    <2>2. 0 \in 0 .. N
      OBVIOUS
    <2> HIDE DEF Good
    <2>3. QED
      BY <2>1, <2>2, Zenon
  <1>2. ASSUME NEW M \in 1 .. N, M - 1 \in S
        PROVE  M \in S
    <2>1. PICK g \in [0 .. M - 1 -> X] : Good(M - 1, g)
      BY <1>2
    <2> DEFINE h == [i \in 0 .. M |-> IF i = M THEN step[M][g[M - 1]] ELSE g[i]]
    <2>2. g[M - 1] \in X /\ step[M][g[M - 1]] \in X
      OBVIOUS
    <2>3. h \in [0 .. M -> X]
      BY <2>2
    <2>4. h[0] = b
      BY <2>1
    <2>5. ASSUME NEW n \in 1 .. M
          PROVE  h[n] = step[n][h[n - 1]]
      <3>1. n - 1 \in 0 .. M - 1 /\ h[n - 1] = g[n - 1]
        OBVIOUS
      <3>2. n # M => n \in 1 .. M - 1 /\ h[n] = g[n]
        OBVIOUS
      <3>3. n = M => h[n] = step[M][g[M - 1]]
        OBVIOUS
      <3>4. QED
        BY <2>1, <3>1, <3>2, <3>3
    <2> HIDE DEF h
    <2>6. Good(M, h)
      BY <2>4, <2>5
    <2>7. M \in 0 .. N
      OBVIOUS
    <2>8. QED
      BY <2>3, <2>6, <2>7, Zenon
  <1> HIDE DEF S
  <1>3. N \in S
    <2>1. 0 .. N \subseteq S
      BY <1>1, <1>2, Induct
    <2>2. QED
      BY <2>1
  <1> USE DEF S
  <1>4. QED
    BY <1>3

-----------------------------------------------------------------------------
(* The records of the MADT. *)

Overs == [type : {"INT_OVER"}, irq : Irqs, gsi : Nat, flags : 0 .. 15]
IoapicRecords == [type : {"IOAPIC"}, base : Nat]
Infos == [lapic : Nat, LAPICs : Seq(Nat), IOAPICs : Seq(IoapicRecords),
          overrides : Seq(Overs), nmis : Seq(Stray)]

\* What a record of each type holds.
LEMMA Kinds ==
  ASSUME NEW r \in MadtRecords
  PROVE  /\ r.type \in {"LAPIC", "IOAPIC", "INT_OVER", "ADDR_OVER", "LAPIC_NMI", "IOAPIC_NMI"}
         /\ r.type = "LAPIC" => r.id \in Nat /\ r.enabled \in BOOLEAN /\ r.onlineCapable \in BOOLEAN
         /\ r.type = "IOAPIC" => r \in IoapicRecords
         /\ r.type = "INT_OVER" => r \in Overs
         /\ r.type = "ADDR_OVER" => r.addr \in Nat
         /\ r.type = "LAPIC_NMI" => r.misread \in Stray
  BY DEF MadtRecords, Overs, IoapicRecords

\* What is known after one more element.
LEMMA Appends ==
  ASSUME NEW T, NEW s \in Seq(T), NEW e \in T
  PROVE  /\ Append(s, e) \in Seq(T) /\ Len(Append(s, e)) = Len(s) + 1
         /\ \A i \in 1 .. Len(s) : Append(s, e)[i] = s[i]
         /\ Append(s, e)[Len(s) + 1] = e
  OBVIOUS

\* What each type of record does to what is known.
LEMMA Adds ==
  ASSUME NEW x \in Infos, NEW r \in MadtRecords
  PROVE  /\ AddRecord(x, r) \in Infos
         /\ AddRecord(x, r).LAPICs = IF r.type = "LAPIC" /\ Counted(r) THEN Append(x.LAPICs, r.id) ELSE x.LAPICs
         /\ AddRecord(x, r).overrides = IF r.type = "INT_OVER" THEN Append(x.overrides, r) ELSE x.overrides
         /\ AddRecord(x, r).lapic = IF r.type = "ADDR_OVER" THEN r.addr ELSE x.lapic
         /\ r.type # "LAPIC_NMI" => AddRecord(x, r).nmis = x.nmis
  <1>1. CASE r.type = "LAPIC"
    <2> DEFINE y == Append(x.LAPICs, r.id)
    <2>1. AddRecord(x, r) = IF Counted(r) THEN [x EXCEPT !.LAPICs = y] ELSE x
      BY <1>1 DEF AddRecord
    <2>2. y \in Seq(Nat)
      BY <1>1, Kinds, Appends DEF Infos
    <2> HIDE DEF y
    <2>3. QED
      BY <1>1, <2>1, <2>2 DEF Infos, y
  <1>2. CASE r.type = "IOAPIC"
    <2> DEFINE y == Append(x.IOAPICs, r)
    <2>1. AddRecord(x, r) = [x EXCEPT !.IOAPICs = y]
      BY <1>2 DEF AddRecord
    <2>2. y \in Seq(IoapicRecords)
      BY <1>2, Kinds, Appends DEF Infos
    <2> HIDE DEF y
    <2>3. QED
      BY <1>2, <2>1, <2>2 DEF Infos, y
  <1>3. CASE r.type = "INT_OVER"
    <2> DEFINE y == Append(x.overrides, r)
    <2>1. AddRecord(x, r) = [x EXCEPT !.overrides = y]
      BY <1>3 DEF AddRecord
    <2>2. y \in Seq(Overs)
      BY <1>3, Kinds, Appends DEF Infos
    <2> HIDE DEF y
    <2>3. QED
      BY <1>3, <2>1, <2>2 DEF Infos, y
  <1>4. CASE r.type = "ADDR_OVER"
    BY <1>4, Kinds DEF AddRecord, Infos
  <1>5. CASE r.type = "LAPIC_NMI"
    <2> DEFINE y == Append(x.nmis, r.misread)
    <2>1. AddRecord(x, r) = [x EXCEPT !.nmis = y]
      BY <1>5 DEF AddRecord
    <2>2. y \in Seq(Stray)
      BY <1>5, Kinds, Appends DEF Infos
    <2> HIDE DEF y
    <2>3. QED
      BY <1>5, <2>1, <2>2 DEF Infos, y
  <1>6. CASE r.type = "IOAPIC_NMI"
    BY <1>6, Kinds DEF AddRecord, Infos
  <1>7. QED
    BY <1>1, <1>2, <1>3, <1>4, <1>5, <1>6, Kinds

\* The walk over the records, one after the other.
LEMMA Walks ==
  ASSUME NEW madt \in Madts
  PROVE  \E g \in [0 .. Len(madt.records) -> Infos] :
            /\ g[0] = [NoInfo EXCEPT !.lapic = madt.lapic]
            /\ \A n \in 1 .. Len(madt.records) : g[n] = AddRecord(g[n - 1], madt.records[n])
            /\ WalkMadt(madt) = g[Len(madt.records)]
  <1> DEFINE rs == madt.records
             N == Len(rs)
             b == [NoInfo EXCEPT !.lapic = madt.lapic]
             Eqn(h) == h = [n \in 0 .. N |-> IF n = 0 THEN b ELSE AddRecord(h[n - 1], rs[n])]
             f == CHOOSE h : Eqn(h)
             step == [n \in 1 .. N |-> [x \in Infos |-> AddRecord(x, rs[n])]]
  <1>1. rs \in Seq(MadtRecords) /\ N \in Nat /\ \A n \in 1 .. N : rs[n] \in MadtRecords
    BY DEF Madts
  <1>2. b \in Infos
    <2>1. madt.lapic \in Nat
      BY DEF Madts
    <2>2. b = [lapic |-> madt.lapic, LAPICs |-> <<>>, IOAPICs |-> <<>>, overrides |-> <<>>, nmis |-> <<>>]
      BY DEF NoInfo
    <2>3. \A T : <<>> \in Seq(T)
      OBVIOUS
    <2> HIDE DEF b
    <2>4. QED
      BY <2>1, <2>2, <2>3 DEF Infos
  <1>3. step \in [1 .. N -> [Infos -> Infos]]
    BY <1>1, Adds
  <1>4. WalkMadt(madt) = f[N]
    BY DEF WalkMadt
  <1> HIDE DEF b, N, rs
  <1>5. PICK g \in [0 .. N -> Infos] : g[0] = b /\ \A n \in 1 .. N : g[n] = step[n][g[n - 1]]
    <2> HIDE DEF step
    <2>1. N \in Nat
      BY <1>1
    <2>2. \A c \in Infos, M \in Nat : \A s \in [1 .. M -> [Infos -> Infos]] :
             \E g \in [0 .. M -> Infos] : g[0] = c /\ \A n \in 1 .. M : g[n] = s[n][g[n - 1]]
      BY Iterates
    <2>3. QED
      BY <2>1, <2>2, <1>2, <1>3, Zenon
  <1>6. \A n \in 1 .. N : g[n] = AddRecord(g[n - 1], rs[n])
    <2>1. \A n \in 1 .. N : n - 1 \in 0 .. N /\ g[n - 1] \in Infos
      BY <1>1
    <2>2. QED
      BY <1>5, <2>1
  <1>7. Eqn(g)
    <2>1. \A n \in 0 .. N : g[n] = IF n = 0 THEN b ELSE AddRecord(g[n - 1], rs[n])
      BY <1>1, <1>5, <1>6
    <2>2. QED
      BY <2>1
  <1>8. Eqn(f)
    BY <1>7, Zenon
  <1> HIDE DEF f
  <1>9. \A n \in 0 .. N : f[n] = IF n = 0 THEN b ELSE AddRecord(f[n - 1], rs[n])
    BY <1>8
  <1>10. 0 .. N \subseteq {n \in 0 .. N : f[n] = g[n]}
    <2> DEFINE S == {n \in 0 .. N : f[n] = g[n]}
    <2>1. 0 \in S
      BY <1>1, <1>5, <1>9
    <2>2. \A n \in 1 .. N : n - 1 \in S => n \in S
      BY <1>1, <1>6, <1>9
    <2> HIDE DEF S
    <2>3. 0 .. N \subseteq S
      BY <1>1, <2>1, <2>2, Induct
    <2>4. QED
      BY <2>3 DEF S
  <1>11. WalkMadt(madt) = g[N]
    BY <1>1, <1>4, <1>10
  <1>12. QED
    BY <1>5, <1>6, <1>11 DEF N, rs, b

-----------------------------------------------------------------------------
(* The sources of interrupts. *)

Sources == [vector : Nat, gsi : Nat, trigger : Nat, polarity : Nat]
SourceTables == [Irqs -> Sources]

\* Interrupts and vectors are numbers.
LEMMA Numbers ==
  /\ \A k \in Irqs : k \in Nat /\ k <= 15
  /\ HW_INT_START \in Nat /\ HW_INT_START > 31 /\ HW_INT_START < 240
  <1>1. \A k \in Irqs : k \in 0 .. 15
    BY AcpiAssumption
  <1>2. HW_INT_START \in 32 .. 239
    BY AcpiAssumption
  <1>3. QED
    BY <1>1, <1>2

\* Loops over tables of sources.
LEMMA SourceLoop ==
  \A c \in SourceTables, M \in Nat : \A s \in [1 .. M -> [SourceTables -> SourceTables]] :
     \E g \in [0 .. M -> SourceTables] : g[0] = c /\ \A n \in 1 .. M : g[n] = s[n][g[n - 1]]
  BY Iterates

\* Before the overrides every interrupt is on the line of its number.
LEMMA Defaults ==
  /\ DefaultSources \in SourceTables
  /\ \A k \in Irqs : DefaultSources[k] = Source(HW_INT_START + k, k, 0, 0)
  <1>1. \A k \in Irqs : k \in Nat /\ HW_INT_START + k \in Nat
    BY AcpiAssumption
  <1>2. QED
    BY <1>1 DEF DefaultSources, SourceTables, Sources, Source

\* The fields of a source.
LEMMA SourceFields ==
  ASSUME NEW v, NEW g, NEW t, NEW p
  PROVE  /\ Source(v, g, t, p).vector = v /\ Source(v, g, t, p).gsi = g
         /\ Source(v, g, t, p).trigger = t /\ Source(v, g, t, p).polarity = p
  BY DEF Source

\* An override replaces one source, at the vector of its interrupt.
LEMMA Overrides ==
  ASSUME NEW src \in SourceTables, NEW o \in Overs
  PROVE  /\ Override(src, o) \in SourceTables
         /\ Override(src, o)[o.irq] = Source(HW_INT_START + o.irq, o.gsi, o.flags \div 4, o.flags % 4)
         /\ \A k \in Irqs \ {o.irq} : Override(src, o)[k] = src[k]
  <1>1. o.irq \in Irqs /\ o.irq \in Nat /\ o.gsi \in Nat /\ o.flags \in Nat /\ HW_INT_START \in Nat
    <2>1. o.irq \in Irqs /\ o.gsi \in Nat /\ o.flags \in 0 .. 15
      BY DEF Overs
    <2>2. QED
      BY <2>1, Numbers
  <1>2. Source(HW_INT_START + o.irq, o.gsi, o.flags \div 4, o.flags % 4) \in Sources
    BY <1>1 DEF Source, Sources
  <1>3. QED
    BY <1>1, <1>2 DEF Override, SourceTables

\* A NMI changes neither vectors nor lines.
LEMMA SetNmis ==
  ASSUME NEW src \in SourceTables, NEW nmi \in Stray
  PROVE  /\ SetNmi(src, nmi) \in SourceTables
         /\ \A k \in Irqs : SetNmi(src, nmi)[k].vector = src[k].vector /\ SetNmi(src, nmi)[k].gsi = src[k].gsi
  <1> DEFINE hits == {k \in Irqs : src[k].gsi = nmi.gsi}
             t == nmi.flags \div 4
             p == nmi.flags % 4
             f == First(hits)
  <1>1. CASE hits = {}
    BY <1>1 DEF SetNmi
  <1>2. CASE hits # {}
    <2>1. hits \in SUBSET Nat
      BY Numbers
    <2>2. f \in Irqs
      <3>1. \E n \in hits : \A m \in hits : n <= m
        BY <1>2, <2>1, Least
      <3>2. f \in hits
        BY <3>1, Zenon DEF First
      <3>3. QED
        BY <3>2
    <2>3. t \in Nat /\ p \in Nat
      BY AcpiAssumption
    <2>4. SetNmi(src, nmi) = [src EXCEPT ![f].trigger = t, ![f].polarity = p]
      BY <1>2 DEF SetNmi
    <2> HIDE DEF f, t, p
    <2>5. SetNmi(src, nmi) = [src EXCEPT ![f] = [@ EXCEPT !.trigger = t, !.polarity = p]]
      BY <2>2, <2>4 DEF SourceTables
    <2>6. \A s \in Sources : /\ [s EXCEPT !.trigger = t, !.polarity = p] \in Sources
                            /\ [s EXCEPT !.trigger = t, !.polarity = p].vector = s.vector
                            /\ [s EXCEPT !.trigger = t, !.polarity = p].gsi = s.gsi
      BY <2>3 DEF Sources
    <2> DEFINE w == [src[f] EXCEPT !.trigger = t, !.polarity = p]
    <2>7. w \in Sources /\ w.vector = src[f].vector /\ w.gsi = src[f].gsi
      BY <2>2, <2>6 DEF SourceTables
    <2>8. SetNmi(src, nmi) = [src EXCEPT ![f] = w]
      BY <2>5
    <2> HIDE DEF w
    <2>9. \A k \in Irqs : SetNmi(src, nmi)[k] = IF k = f THEN w ELSE src[k]
      BY <2>8 DEF SourceTables
    <2>10. SetNmi(src, nmi) \in SourceTables
      BY <2>7, <2>8 DEF SourceTables
    <2>11. QED
      BY <2>7, <2>9, <2>10
  <1>3. QED
    BY <1>1, <1>2


\* The overrides, one after the other.
LEMMA OverrideLoop ==
  ASSUME NEW os \in Seq(Overs)
  PROVE  \E g \in [0 .. Len(os) -> SourceTables] :
            /\ g[0] = DefaultSources
            /\ \A n \in 1 .. Len(os) : g[n] = Override(g[n - 1], os[n])
            /\ ApplyOverrides(os) = g[Len(os)]
  <1> DEFINE N == Len(os)
             Eqn(h) == h = [n \in 0 .. N |-> IF n = 0 THEN DefaultSources ELSE Override(h[n - 1], os[n])]
             f == CHOOSE h : Eqn(h)
             step == [n \in 1 .. N |-> [x \in SourceTables |-> Override(x, os[n])]]
  <1>1. N \in Nat /\ \A n \in 1 .. N : os[n] \in Overs
    OBVIOUS
  <1>2. DefaultSources \in SourceTables
    BY Defaults
  <1>3. step \in [1 .. N -> [SourceTables -> SourceTables]]
    BY <1>1, Overrides
  <1>4. ApplyOverrides(os) = f[N]
    BY DEF ApplyOverrides
  <1> HIDE DEF N
  <1>5. PICK g \in [0 .. N -> SourceTables] : g[0] = DefaultSources /\ \A n \in 1 .. N : g[n] = step[n][g[n - 1]]
    <2> HIDE DEF step
    <2>1. QED
      BY <1>1, <1>2, <1>3, SourceLoop, Zenon
  <1>6. \A n \in 1 .. N : g[n] = Override(g[n - 1], os[n])
    <2>1. \A n \in 1 .. N : n - 1 \in 0 .. N /\ g[n - 1] \in SourceTables
      BY <1>1
    <2>2. QED
      BY <1>5, <2>1
  <1>7. Eqn(g)
    <2>1. \A n \in 0 .. N : g[n] = IF n = 0 THEN DefaultSources ELSE Override(g[n - 1], os[n])
      BY <1>1, <1>5, <1>6
    <2>2. QED
      BY <2>1
  <1>8. Eqn(f)
    BY <1>7, Zenon
  <1> HIDE DEF f
  <1>9. \A n \in 0 .. N : f[n] = IF n = 0 THEN DefaultSources ELSE Override(f[n - 1], os[n])
    BY <1>8
  <1>10. 0 .. N \subseteq {n \in 0 .. N : f[n] = g[n]}
    <2> DEFINE S == {n \in 0 .. N : f[n] = g[n]}
    <2>1. 0 \in S
      BY <1>1, <1>5, <1>9
    <2>2. \A n \in 1 .. N : n - 1 \in S => n \in S
      BY <1>1, <1>6, <1>9
    <2> HIDE DEF S
    <2>3. 0 .. N \subseteq S
      BY <1>1, <2>1, <2>2, Induct
    <2>4. QED
      BY <2>3 DEF S
  <1>11. ApplyOverrides(os) = g[N]
    BY <1>1, <1>4, <1>10
  <1>12. QED
    BY <1>5, <1>6, <1>11 DEF N


\* The NMI, one after the other.
LEMMA NmiLoop ==
  ASSUME NEW src \in SourceTables, NEW nmis \in Seq(Stray)
  PROVE  \E g \in [0 .. Len(nmis) -> SourceTables] :
            /\ g[0] = src
            /\ \A n \in 1 .. Len(nmis) : g[n] = SetNmi(g[n - 1], nmis[n])
            /\ ApplyNmis(src, nmis) = g[Len(nmis)]
  <1> DEFINE N == Len(nmis)
             Eqn(h) == h = [n \in 0 .. N |-> IF n = 0 THEN src ELSE SetNmi(h[n - 1], nmis[n])]
             f == CHOOSE h : Eqn(h)
             step == [n \in 1 .. N |-> [x \in SourceTables |-> SetNmi(x, nmis[n])]]
  <1>1. N \in Nat /\ \A n \in 1 .. N : nmis[n] \in Stray
    OBVIOUS
  <1>2. src \in SourceTables
    OBVIOUS
  <1>3. step \in [1 .. N -> [SourceTables -> SourceTables]]
    BY <1>1, SetNmis
  <1>4. ApplyNmis(src, nmis) = f[N]
    BY DEF ApplyNmis
  <1> HIDE DEF N
  <1>5. PICK g \in [0 .. N -> SourceTables] : g[0] = src /\ \A n \in 1 .. N : g[n] = step[n][g[n - 1]]
    <2> HIDE DEF step
    <2>1. QED
      BY <1>1, <1>2, <1>3, SourceLoop, Zenon
  <1>6. \A n \in 1 .. N : g[n] = SetNmi(g[n - 1], nmis[n])
    <2>1. \A n \in 1 .. N : n - 1 \in 0 .. N /\ g[n - 1] \in SourceTables
      BY <1>1
    <2>2. QED
      BY <1>5, <2>1
  <1>7. Eqn(g)
    <2>1. \A n \in 0 .. N : g[n] = IF n = 0 THEN src ELSE SetNmi(g[n - 1], nmis[n])
      BY <1>1, <1>5, <1>6
    <2>2. QED
      BY <2>1
  <1>8. Eqn(f)
    BY <1>7, Zenon
  <1> HIDE DEF f
  <1>9. \A n \in 0 .. N : f[n] = IF n = 0 THEN src ELSE SetNmi(f[n - 1], nmis[n])
    BY <1>8
  <1>10. 0 .. N \subseteq {n \in 0 .. N : f[n] = g[n]}
    <2> DEFINE S == {n \in 0 .. N : f[n] = g[n]}
    <2>1. 0 \in S
      BY <1>1, <1>5, <1>9
    <2>2. \A n \in 1 .. N : n - 1 \in S => n \in S
      BY <1>1, <1>6, <1>9
    <2> HIDE DEF S
    <2>3. 0 .. N \subseteq S
      BY <1>1, <2>1, <2>2, Induct
    <2>4. QED
      BY <2>3 DEF S
  <1>11. ApplyNmis(src, nmis) = g[N]
    BY <1>1, <1>4, <1>10
  <1>12. QED
    BY <1>5, <1>6, <1>11 DEF N

-----------------------------------------------------------------------------
(* What the walk finds. *)

\* Of the first n records, those of a usable processor, of an address override and of
\* an override of interrupt k.
Usable(rs, n) == {i \in 1 .. n : rs[i].type = "LAPIC" /\ (rs[i].enabled \/ rs[i].onlineCapable)}
Moves(rs, n) == {i \in 1 .. n : rs[i].type = "ADDR_OVER"}
OversOf(rs, n, k) == {i \in 1 .. n : rs[i].type = "INT_OVER" /\ rs[i].irq = k}

Last(S, i) == i \in S /\ \A m \in S : m <= i

\* One record more.
LEMMA OneMore ==
  ASSUME NEW rs, NEW n \in Nat \ {0}
  PROVE  /\ Usable(rs, n) = Usable(rs, n - 1) \cup
              IF rs[n].type = "LAPIC" /\ (rs[n].enabled \/ rs[n].onlineCapable) THEN {n} ELSE {}
         /\ Moves(rs, n) = Moves(rs, n - 1) \cup IF rs[n].type = "ADDR_OVER" THEN {n} ELSE {}
         /\ \A k : OversOf(rs, n, k) = OversOf(rs, n - 1, k) \cup
                      IF rs[n].type = "INT_OVER" /\ rs[n].irq = k THEN {n} ELSE {}
         /\ Usable(rs, 0) = {} /\ Moves(rs, 0) = {} /\ \A k : OversOf(rs, 0, k) = {}
  <1>1. 1 .. n = (1 .. n - 1) \cup {n} /\ 1 .. 0 = {}
    OBVIOUS
  <1>2. QED
    BY <1>1, Zenon DEF Usable, Moves, OversOf

\* As many processors are described as can be used, and no others.
LEMMA Processors ==
  ASSUME NEW madt \in Madts
  PROVE  LET rs == madt.records
             ids == WalkMadt(madt).LAPICs
             us == Usable(rs, Len(rs))
         IN  /\ ids \in Seq(Nat)
             /\ Len(ids) = Cardinality(us)
             /\ \A j \in 1 .. Len(ids) : \E i \in us : ids[j] = rs[i].id
  <1> DEFINE rs == madt.records
             N == Len(rs)
  <1>1. N \in Nat /\ \A n \in 1 .. N : rs[n] \in MadtRecords
    BY DEF Madts
  <1>2. PICK g \in [0 .. N -> Infos] :
            /\ g[0] = [NoInfo EXCEPT !.lapic = madt.lapic]
            /\ \A n \in 1 .. N : g[n] = AddRecord(g[n - 1], rs[n])
            /\ WalkMadt(madt) = g[N]
    BY Walks
  <1> HIDE DEF rs, N
  <1> DEFINE P(n) == /\ IsFiniteSet(Usable(rs, n))
                     /\ Len(g[n].LAPICs) = Cardinality(Usable(rs, n))
                     /\ \A j \in 1 .. Len(g[n].LAPICs) : \E i \in Usable(rs, n) : g[n].LAPICs[j] = rs[i].id
             S == {n \in 0 .. N : P(n)}
  <1>3. 0 \in S
    <2>1. g[0].LAPICs = <<>> /\ Usable(rs, 0) = {} /\ 0 \in 0 .. N
      BY <1>1, <1>2 DEF NoInfo, Usable
    <2>2. Len(g[0].LAPICs) = 0 /\ IsFiniteSet(Usable(rs, 0)) /\ Cardinality(Usable(rs, 0)) = 0
      BY <2>1, FS_EmptySet
    <2>3. QED
      BY <2>1, <2>2
  <1>4. ASSUME NEW n \in 1 .. N, n - 1 \in S
        PROVE  n \in S
    <2> DEFINE a == g[n - 1].LAPICs
               c == g[n].LAPICs
               V == Usable(rs, n - 1)
               W == Usable(rs, n)
               Takes == rs[n].type = "LAPIC" /\ (rs[n].enabled \/ rs[n].onlineCapable)
    <2>1. g[n - 1] \in Infos /\ a \in Seq(Nat) /\ rs[n] \in MadtRecords
      <3>1. n - 1 \in 0 .. N
        BY <1>1
      <3>2. g[n - 1] \in Infos /\ rs[n] \in MadtRecords
        BY <1>1, <3>1
      <3>3. QED
        BY <3>2 DEF Infos
    <2>2. c = IF Takes THEN Append(a, rs[n].id) ELSE a
      <3>1. \A x \in Infos, q \in MadtRecords :
               AddRecord(x, q).LAPICs = IF q.type = "LAPIC" /\ Counted(q) THEN Append(x.LAPICs, q.id) ELSE x.LAPICs
        BY Adds, Zenon
      <3>2. g[n] = AddRecord(g[n - 1], rs[n])
        BY <1>2
      <3>3. QED
        BY <2>1, <3>1, <3>2 DEF Counted
    <2>3. W = V \cup (IF Takes THEN {n} ELSE {})
      BY OneMore
    <2>4. /\ IsFiniteSet(V) /\ Len(a) = Cardinality(V)
          /\ \A j \in 1 .. Len(a) : \E i \in V : a[j] = rs[i].id
      BY <1>4
    <2>5. n \notin V /\ (Takes => rs[n].id \in Nat)
      BY <1>1, <2>1, Kinds DEF Usable
    <2> HIDE DEF a, c, V, W, Takes
    <2>6. /\ IsFiniteSet(W) /\ Len(c) = Cardinality(W)
          /\ \A j \in 1 .. Len(c) : \E i \in W : c[j] = rs[i].id
      <3>1. CASE Takes
        <4>1. IsFiniteSet(W) /\ Cardinality(W) = Cardinality(V) + 1
          BY <2>3, <2>4, <2>5, <3>1, FS_AddElement
        <4>2. /\ Len(c) = Len(a) + 1 /\ c[Len(a) + 1] = rs[n].id
              /\ \A j \in 1 .. Len(a) : c[j] = a[j]
          BY <2>1, <2>2, <2>5, <3>1, Appends
        <4>3. Len(a) \in Nat /\ n \in W /\ V \subseteq W
          BY <2>1, <2>3, <3>1
        <4>4. ASSUME NEW j \in 1 .. Len(c)
              PROVE  \E i \in W : c[j] = rs[i].id
          BY <2>4, <4>2, <4>3
        <4>5. QED
          BY <2>4, <4>1, <4>2, <4>4
      <3>2. CASE ~Takes
        BY <2>2, <2>3, <2>4, <3>2
      <3>3. QED
        BY <3>1, <3>2
    <2>7. P(n)
      BY <2>6 DEF c, W
    <2>8. n \in 0 .. N
      BY <1>1
    <2>9. QED
      BY <2>7, <2>8, Zenon
  <1>5. N \in S
    <2> HIDE DEF S
    <2>1. 0 .. N \subseteq S
      BY <1>1, <1>3, <1>4, Induct
    <2>2. QED
      BY <1>1, <2>1
  <1>6. P(N) /\ g[N].LAPICs \in Seq(Nat)
    BY <1>1, <1>5 DEF Infos
  <1>7. QED
    BY <1>2, <1>6 DEF N, rs

\* The LAPIC is where the last override puts it.
LEMMA LapicAddress ==
  ASSUME NEW madt \in Madts
  PROVE  LET rs == madt.records
             ms == Moves(rs, Len(rs))
         IN  /\ ms = {} => WalkMadt(madt).lapic = madt.lapic
             /\ \A i : Last(ms, i) => WalkMadt(madt).lapic = rs[i].addr
  <1> DEFINE rs == madt.records
             N == Len(rs)
  <1>1. N \in Nat /\ \A n \in 1 .. N : rs[n] \in MadtRecords
    BY DEF Madts
  <1>2. PICK g \in [0 .. N -> Infos] :
            /\ g[0] = [NoInfo EXCEPT !.lapic = madt.lapic]
            /\ \A n \in 1 .. N : g[n] = AddRecord(g[n - 1], rs[n])
            /\ WalkMadt(madt) = g[N]
    BY Walks
  <1> HIDE DEF rs, N
  <1> DEFINE P(n) == /\ Moves(rs, n) = {} => g[n].lapic = madt.lapic
                     /\ \A i : Last(Moves(rs, n), i) => g[n].lapic = rs[i].addr
             S == {n \in 0 .. N : P(n)}
  <1>3. 0 \in S
    <2>1. g[0].lapic = madt.lapic /\ Moves(rs, 0) = {} /\ 0 \in 0 .. N
      BY <1>1, <1>2 DEF NoInfo, Moves
    <2>2. QED
      BY <2>1 DEF Last
  <1>4. ASSUME NEW n \in 1 .. N, n - 1 \in S
        PROVE  n \in S
    <2> DEFINE V == Moves(rs, n - 1)
               W == Moves(rs, n)
    <2>1. g[n - 1] \in Infos /\ rs[n] \in MadtRecords
      BY <1>1
    <2>2. g[n].lapic = IF rs[n].type = "ADDR_OVER" THEN rs[n].addr ELSE g[n - 1].lapic
      BY <1>2, <2>1, Adds
    <2>3. W = V \cup (IF rs[n].type = "ADDR_OVER" THEN {n} ELSE {})
      BY OneMore
    <2>4. P(n - 1)
      BY <1>4
    <2>5. \A i \in V : i \in 1 .. n - 1
      BY DEF Moves
    <2>6. P(n)
      <3> HIDE DEF V, W
      <3>1. CASE rs[n].type = "ADDR_OVER"
        <4>1. n \in W /\ \A i : Last(W, i) => i = n
          BY <2>3, <2>5, <3>1 DEF Last
        <4>2. QED
          BY <2>2, <3>1, <4>1 DEF W
      <3>2. CASE rs[n].type # "ADDR_OVER"
        <4>1. W = V
          BY <2>3, <3>2
        <4>2. QED
          BY <2>2, <2>4, <3>2, <4>1 DEF V, W
      <3>3. QED
        BY <3>1, <3>2
    <2>7. n \in 0 .. N
      BY <1>1
    <2>8. QED
      BY <2>6, <2>7, Zenon
  <1>5. N \in S
    <2> HIDE DEF S
    <2>1. 0 .. N \subseteq S
      BY <1>1, <1>3, <1>4, Induct
    <2>2. QED
      BY <1>1, <2>1
  <1>6. P(N)
    BY <1>5
  <1>7. QED
    BY <1>2, <1>6 DEF N, rs

\* Without a LAPIC NMI none is taken for one of the IOAPIC.
LEMMA NoNmis ==
  ASSUME NEW madt \in Madts
  PROVE  LET rs == madt.records
         IN  /\ WalkMadt(madt) \in Infos
             /\ (\A i \in 1 .. Len(rs) : rs[i].type # "LAPIC_NMI") => WalkMadt(madt).nmis = <<>>
  <1> DEFINE rs == madt.records
             N == Len(rs)
  <1>1. N \in Nat /\ \A n \in 1 .. N : rs[n] \in MadtRecords
    BY DEF Madts
  <1>2. PICK g \in [0 .. N -> Infos] :
            /\ g[0] = [NoInfo EXCEPT !.lapic = madt.lapic]
            /\ \A n \in 1 .. N : g[n] = AddRecord(g[n - 1], rs[n])
            /\ WalkMadt(madt) = g[N]
    BY Walks
  <1> HIDE DEF rs, N
  <1> DEFINE S == {n \in 0 .. N : (\A i \in 1 .. N : rs[i].type # "LAPIC_NMI") => g[n].nmis = <<>>}
  <1>3. 0 \in S
    BY <1>1, <1>2 DEF NoInfo
  <1>4. ASSUME NEW n \in 1 .. N, n - 1 \in S
        PROVE  n \in S
    <2>1. g[n - 1] \in Infos /\ rs[n] \in MadtRecords
      BY <1>1
    <2>2. rs[n].type # "LAPIC_NMI" => g[n].nmis = g[n - 1].nmis
      BY <1>2, <2>1, Adds
    <2>3. QED
      BY <1>1, <1>4, <2>2
  <1>5. N \in S
    <2> HIDE DEF S
    <2>1. 0 .. N \subseteq S
      BY <1>1, <1>3, <1>4, Induct
    <2>2. QED
      BY <1>1, <2>1
  <1>6. g[N] \in Infos
    BY <1>1
  <1>7. QED
    BY <1>2, <1>5, <1>6 DEF N, rs

\* The last override of an interrupt among the records is the last one in the list.
LEMMA LastOverride ==
  ASSUME NEW madt \in Madts, NEW k \in Irqs
  PROVE  LET rs == madt.records
             os == WalkMadt(madt).overrides
             hits == OversOf(rs, Len(rs), k)
         IN  /\ os \in Seq(Overs)
             /\ hits = {} => \A j \in 1 .. Len(os) : os[j].irq # k
             /\ \A i : Last(hits, i) =>
                   \E j \in 1 .. Len(os) : /\ os[j] = rs[i]
                                           /\ \A l \in 1 .. Len(os) : os[l].irq = k => l <= j
  <1> DEFINE rs == madt.records
             N == Len(rs)
  <1>1. N \in Nat /\ \A n \in 1 .. N : rs[n] \in MadtRecords
    BY DEF Madts
  <1>2. PICK g \in [0 .. N -> Infos] :
            /\ g[0] = [NoInfo EXCEPT !.lapic = madt.lapic]
            /\ \A n \in 1 .. N : g[n] = AddRecord(g[n - 1], rs[n])
            /\ WalkMadt(madt) = g[N]
    BY Walks
  <1> HIDE DEF rs, N
  <1> DEFINE None(a) == \A j \in 1 .. Len(a) : a[j].irq # k
             Ends(a, i) == \E j \in 1 .. Len(a) : /\ a[j] = rs[i]
                                                  /\ \A l \in 1 .. Len(a) : a[l].irq = k => l <= j
             P(n) == /\ OversOf(rs, n, k) = {} => None(g[n].overrides)
                     /\ \A i : Last(OversOf(rs, n, k), i) => Ends(g[n].overrides, i)
             S == {n \in 0 .. N : P(n)}
  <1>3. 0 \in S
    <2>1. g[0].overrides = <<>> /\ OversOf(rs, 0, k) = {} /\ 0 \in 0 .. N
      BY <1>1, <1>2 DEF NoInfo, OversOf
    <2>2. P(0)
      BY <2>1 DEF Last
    <2>3. QED
      BY <2>1, <2>2, Zenon
  <1>4. ASSUME NEW n \in 1 .. N, n - 1 \in S
        PROVE  n \in S
    <2> DEFINE a == g[n - 1].overrides
               c == g[n].overrides
               V == OversOf(rs, n - 1, k)
               W == OversOf(rs, n, k)
    <2>1. g[n - 1] \in Infos /\ a \in Seq(Overs) /\ rs[n] \in MadtRecords
      <3>1. n - 1 \in 0 .. N
        BY <1>1
      <3>2. g[n - 1] \in Infos /\ rs[n] \in MadtRecords
        BY <1>1, <3>1
      <3>3. QED
        BY <3>2 DEF Infos
    <2>2. c = IF rs[n].type = "INT_OVER" THEN Append(a, rs[n]) ELSE a
      <3>1. \A x \in Infos, q \in MadtRecords :
               AddRecord(x, q).overrides = IF q.type = "INT_OVER" THEN Append(x.overrides, q) ELSE x.overrides
        BY Adds, Zenon
      <3>2. g[n] = AddRecord(g[n - 1], rs[n])
        BY <1>2
      <3>3. QED
        BY <2>1, <3>1, <3>2
    <2>3. W = V \cup (IF rs[n].type = "INT_OVER" /\ rs[n].irq = k THEN {n} ELSE {})
      BY OneMore
    <2>4. (V = {} => None(a)) /\ \A i : Last(V, i) => Ends(a, i)
      BY <1>4
    <2>5. \A i \in V : i \in 1 .. n - 1
      BY DEF OversOf
    <2> HIDE DEF a, c, V, W
    <2>6. (W = {} => None(c)) /\ \A i : Last(W, i) => Ends(c, i)
      <3>1. CASE rs[n].type = "INT_OVER"
        <4>1. rs[n] \in Overs /\ Len(a) \in Nat
          BY <2>1, <3>1, Kinds
        <4>2. /\ Len(c) = Len(a) + 1 /\ c[Len(a) + 1] = rs[n]
              /\ \A j \in 1 .. Len(a) : c[j] = a[j]
          BY <2>1, <2>2, <3>1, <4>1, Appends
        <4>3. CASE rs[n].irq = k
          <5>1. n \in W /\ \A i : Last(W, i) => i = n
            BY <2>3, <2>5, <3>1, <4>3 DEF Last
          <5>2. Ends(c, n)
            BY <4>1, <4>2
          <5>3. QED
            BY <5>1, <5>2
        <4>4. CASE rs[n].irq # k
          <5>1. W = V
            BY <2>3, <4>4
          <5>2. V = {} => None(c)
            BY <2>4, <4>1, <4>2, <4>4
          <5>3. ASSUME NEW i, Ends(a, i)
                PROVE  Ends(c, i)
            <6>1. PICK j \in 1 .. Len(a) : a[j] = rs[i] /\ \A l \in 1 .. Len(a) : a[l].irq = k => l <= j
              BY <5>3
            <6>2. j \in 1 .. Len(c) /\ c[j] = rs[i]
              BY <4>1, <4>2, <6>1
            <6>3. \A l \in 1 .. Len(c) : c[l].irq = k => l <= j
              BY <4>1, <4>2, <4>4, <6>1
            <6>4. QED
              BY <6>2, <6>3
          <5>4. QED
            BY <2>4, <5>1, <5>2, <5>3
        <4>5. QED
          BY <4>3, <4>4
      <3>2. CASE rs[n].type # "INT_OVER"
        <4>1. W = V /\ c = a
          BY <2>2, <2>3, <3>2
        <4>2. QED
          BY <2>4, <4>1
      <3>3. QED
        BY <3>1, <3>2
    <2>7. P(n)
      BY <2>6 DEF c, W
    <2>8. n \in 0 .. N
      BY <1>1
    <2>9. QED
      BY <2>7, <2>8, Zenon
  <1>5. N \in S
    <2> HIDE DEF S
    <2>1. 0 .. N \subseteq S
      BY <1>1, <1>3, <1>4, Induct
    <2>2. QED
      BY <1>1, <2>1
  <1>6. P(N) /\ g[N].overrides \in Seq(Overs)
    BY <1>1, <1>5 DEF Infos
  <1>7. QED
    BY <1>2, <1>6 DEF N, rs

-----------------------------------------------------------------------------
(* What the loops of ReadSystemConfig make of it. *)

FromOverride(k, o) == Source(HW_INT_START + k, o.gsi, o.flags \div 4, o.flags % 4)

\* Every source is that of the last override of its interrupt, if there is one.
LEMMA Overridden ==
  ASSUME NEW os \in Seq(Overs), NEW k \in Irqs
  PROVE  /\ ApplyOverrides(os) \in SourceTables
         /\ (\A j \in 1 .. Len(os) : os[j].irq # k) => ApplyOverrides(os)[k] = Source(HW_INT_START + k, k, 0, 0)
         /\ \A j \in 1 .. Len(os) :
               os[j].irq = k /\ (\A l \in 1 .. Len(os) : os[l].irq = k => l <= j)
                 => ApplyOverrides(os)[k] = FromOverride(k, os[j])
  <1> DEFINE N == Len(os)
  <1>1. N \in Nat /\ \A n \in 1 .. N : os[n] \in Overs
    OBVIOUS
  <1>2. PICK g \in [0 .. N -> SourceTables] :
            /\ g[0] = DefaultSources
            /\ \A n \in 1 .. N : g[n] = Override(g[n - 1], os[n])
            /\ ApplyOverrides(os) = g[N]
    BY OverrideLoop
  <1> HIDE DEF N
  <1> DEFINE P(n) == /\ (\A j \in 1 .. n : os[j].irq # k) => g[n][k] = Source(HW_INT_START + k, k, 0, 0)
                     /\ \A j \in 1 .. n :
                           os[j].irq = k /\ (\A l \in 1 .. n : os[l].irq = k => l <= j)
                             => g[n][k] = FromOverride(k, os[j])
             S == {n \in 0 .. N : P(n)}
  <1>3. 0 \in S
    <2>1. P(0) /\ 0 \in 0 .. N
      BY <1>1, <1>2, Defaults
    <2>2. QED
      BY <2>1, Zenon
  <1>4. ASSUME NEW n \in 1 .. N, n - 1 \in S
        PROVE  n \in S
    <2>1. g[n - 1] \in SourceTables /\ os[n] \in Overs /\ n \in Nat /\ n \in 0 .. N
      BY <1>1
    <2>2. /\ os[n].irq = k => g[n][k] = FromOverride(k, os[n])
          /\ os[n].irq # k => g[n][k] = g[n - 1][k]
      <3>1. g[n] = Override(g[n - 1], os[n])
        BY <1>2
      <3>2. /\ Override(g[n - 1], os[n])[os[n].irq] = FromOverride(os[n].irq, os[n])
            /\ \A i \in Irqs \ {os[n].irq} : Override(g[n - 1], os[n])[i] = g[n - 1][i]
        BY <2>1, Overrides DEF FromOverride
      <3>3. QED
        BY <3>1, <3>2
    <2>3. P(n - 1)
      BY <1>4
    <2>4. CASE os[n].irq = k
      <3>1. P(n)
        BY <2>1, <2>2, <2>4
      <3>2. QED
        BY <2>1, <3>1, Zenon
    <2>5. CASE os[n].irq # k
      <3>1. (\A j \in 1 .. n : os[j].irq # k) => g[n][k] = Source(HW_INT_START + k, k, 0, 0)
        BY <2>1, <2>2, <2>3, <2>5
      <3>2. ASSUME NEW j \in 1 .. n, os[j].irq = k, \A l \in 1 .. n : os[l].irq = k => l <= j
            PROVE  g[n][k] = FromOverride(k, os[j])
        <4>1. j \in 1 .. n - 1 /\ \A l \in 1 .. n - 1 : l \in 1 .. n
          BY <2>1, <2>5, <3>2
        <4>2. QED
          BY <2>2, <2>3, <2>5, <3>2, <4>1
      <3>3. P(n)
        BY <3>1, <3>2
      <3>4. QED
        BY <2>1, <3>3, Zenon
    <2>6. QED
      BY <2>4, <2>5
  <1>5. N \in S
    <2> HIDE DEF S
    <2>1. 0 .. N \subseteq S
      BY <1>1, <1>3, <1>4, Induct
    <2>2. QED
      BY <1>1, <2>1
  <1>6. P(N) /\ g[N] \in SourceTables
    BY <1>1, <1>5
  <1>7. QED
    BY <1>2, <1>6 DEF N

\* The NMI leave vectors and lines alone.
LEMMA NmisApplied ==
  ASSUME NEW src \in SourceTables, NEW nmis \in Seq(Stray)
  PROVE  /\ ApplyNmis(src, nmis) \in SourceTables
         /\ \A k \in Irqs : /\ ApplyNmis(src, nmis)[k].vector = src[k].vector
                            /\ ApplyNmis(src, nmis)[k].gsi = src[k].gsi
         /\ nmis = <<>> => ApplyNmis(src, nmis) = src
  <1> DEFINE N == Len(nmis)
  <1>1. N \in Nat /\ (\A n \in 1 .. N : nmis[n] \in Stray) /\ (nmis = <<>> => N = 0)
    OBVIOUS
  <1>2. PICK g \in [0 .. N -> SourceTables] :
            /\ g[0] = src
            /\ \A n \in 1 .. N : g[n] = SetNmi(g[n - 1], nmis[n])
            /\ ApplyNmis(src, nmis) = g[N]
    BY NmiLoop
  <1> HIDE DEF N
  <1> DEFINE P(n) == \A k \in Irqs : g[n][k].vector = src[k].vector /\ g[n][k].gsi = src[k].gsi
             S == {n \in 0 .. N : P(n)}
  <1>3. 0 \in S
    BY <1>1, <1>2
  <1>4. ASSUME NEW n \in 1 .. N, n - 1 \in S
        PROVE  n \in S
    <2>1. g[n - 1] \in SourceTables /\ nmis[n] \in Stray /\ n \in 0 .. N
      BY <1>1
    <2>2. \A k \in Irqs : g[n][k].vector = g[n - 1][k].vector /\ g[n][k].gsi = g[n - 1][k].gsi
      <3>1. g[n] = SetNmi(g[n - 1], nmis[n])
        BY <1>2
      <3>2. \A s \in SourceTables, nmi \in Stray :
               \A k \in Irqs : SetNmi(s, nmi)[k].vector = s[k].vector /\ SetNmi(s, nmi)[k].gsi = s[k].gsi
        BY SetNmis, Zenon
      <3>3. \A k \in Irqs : /\ SetNmi(g[n - 1], nmis[n])[k].vector = g[n - 1][k].vector
                            /\ SetNmi(g[n - 1], nmis[n])[k].gsi = g[n - 1][k].gsi
        BY <2>1, <3>2, Zenon
      <3>4. QED
        BY <3>1, <3>3
    <2>3. QED
      BY <1>4, <2>1, <2>2
  <1>5. N \in S
    <2> HIDE DEF S
    <2>1. 0 .. N \subseteq S
      BY <1>1, <1>3, <1>4, Induct
    <2>2. QED
      BY <1>1, <2>1
  <1>6. P(N) /\ g[N] \in SourceTables
    BY <1>1, <1>5
  <1>7. QED
    BY <1>1, <1>2, <1>6

\* The MADT that is read is that of the machine.
LEMMA MadtFound ==
  ASSUME NEW m \in Firmwares, MadtInfo(FindRsdp(m.area)) # NULL
  PROVE  \E madt \in Madts : /\ madt.records = m.madt.records /\ madt.lapic = m.madt.lapic
                             /\ MadtInfo(FindRsdp(m.area)) = WalkMadt(madt)
  <1> DEFINE rsdp == FindRsdp(m.area)
             madt == FindTable(rsdp.rsdt, "APIC")
             hits == {n \in DOMAIN m.area : m.area[n].label /\ m.area[n].sum}
             tabs == {n \in DOMAIN rsdp.rsdt : rsdp.rsdt[n].signature = "APIC"}
  <1>1. rsdp # NULL /\ rsdp.rsdt # NULL /\ madt # NULL /\ MadtInfo(rsdp) = WalkMadt(madt)
    BY DEF MadtInfo
  <1>2. m.area \in Seq(Rsdps) /\ TablesOf(m)
    BY BootAssumption DEF Machines
  <1>3. PICK n \in DOMAIN m.area : rsdp = m.area[n]
    <2>1. hits # {} /\ rsdp = m.area[First(hits)]
      BY <1>1 DEF FindRsdp
    <2>2. hits \in SUBSET Nat
      <3>1. DOMAIN m.area = 1 .. Len(m.area) /\ Len(m.area) \in Nat
        BY <1>2
      <3>2. QED
        BY <3>1
    <2>3. \E i \in hits : \A j \in hits : i <= j
      BY <2>1, <2>2, Least
    <2>4. First(hits) \in hits
      BY <2>3, Zenon DEF First
    <2>5. QED
      BY <2>1, <2>4
  <1>4. rsdp \in Rsdps /\ rsdp.rsdt \in Seq(Tables)
    <2>1. rsdp \in Rsdps
      BY <1>2, <1>3
    <2>2. QED
      BY <1>1, <2>1 DEF Rsdps
  <1>5. PICK i \in DOMAIN rsdp.rsdt : madt = rsdp.rsdt[i] /\ rsdp.rsdt[i].signature = "APIC"
    <2>1. tabs # {} /\ madt = rsdp.rsdt[First(tabs)]
      BY <1>1 DEF FindTable
    <2>2. tabs \in SUBSET Nat
      <3>1. DOMAIN rsdp.rsdt = 1 .. Len(rsdp.rsdt) /\ Len(rsdp.rsdt) \in Nat
        BY <1>4
      <3> HIDE DEF rsdp
      <3>2. QED
        BY <3>1
    <2>3. \E j \in tabs : \A l \in tabs : j <= l
      BY <2>1, <2>2, Least
    <2>4. First(tabs) \in tabs
      BY <2>3, Zenon DEF First
    <2>5. QED
      BY <2>1, <2>4
  <1>6. madt \in Tables /\ madt.signature = "APIC"
    BY <1>4, <1>5
  <1>7. madt \in Madts
    <2>1. madt \notin [signature : {"FACP", "MCFG"}, sum : BOOLEAN]
      BY <1>6
    <2>2. QED
      BY <1>6, <2>1 DEF Tables
  <1>8. madt.lapic = m.madt.lapic /\ madt.records = m.madt.records
    BY <1>1, <1>2, <1>3, <1>5 DEF TablesOf
  <1>9. QED
    BY <1>1, <1>7, <1>8

\* ReadSystemConfig finds what the machine is.
LEMMA ConfigRead ==
  ASSUME fw \in Firmwares, Readable
  PROVE  LET c == ReadSystemConfig(fw.area)
             rs == fw.madt.records
             us == Usable(rs, Len(rs))
             ms == Moves(rs, Len(rs))
         IN  /\ c.sources \in SourceTables
             /\ \A k \in Irqs : c.sources[k].vector = HW_INT_START + k /\ c.sources[k].gsi = Wire(k)
             /\ ~HasLapicNmi => \A k \in Irqs : /\ c.sources[k].trigger = FirmwareFlags(k) \div 4
                                                /\ c.sources[k].polarity = FirmwareFlags(k) % 4
             /\ Len(c.CPUs) = IF Cardinality(us) < MAX_SUPP_PROC_NUM THEN Cardinality(us) ELSE MAX_SUPP_PROC_NUM
             /\ \A j \in DOMAIN c.CPUs : \E i \in us : c.CPUs[j] = rs[i].id
             /\ ms = {} => c.LAPIC_Ptr = fw.madt.lapic
             /\ \A i : Last(ms, i) => c.LAPIC_Ptr = rs[i].addr
  <1> DEFINE c == ReadSystemConfig(fw.area)
             rs == fw.madt.records
             N == Len(rs)
             us == Usable(rs, N)
             ms == Moves(rs, N)
             info == MadtInfo(FindRsdp(fw.area))
             ids == info.LAPICs
             os == info.overrides
             src == ApplyOverrides(os)
             max == IF Len(ids) < MAX_SUPP_PROC_NUM THEN Len(ids) ELSE MAX_SUPP_PROC_NUM
  <1>1. PICK madt \in Madts : /\ madt.records = rs /\ madt.lapic = fw.madt.lapic
                              /\ info = WalkMadt(madt)
    BY MadtFound DEF Readable
  <1>2. /\ c.LAPIC_Ptr = info.lapic /\ c.CPUs = SubSeq(ids, 1, max)
        /\ c.sources = ApplyNmis(src, info.nmis)
    BY DEF ReadSystemConfig, Readable
  <1>3. info \in Infos /\ (~HasLapicNmi => info.nmis = <<>>)
    <2>1. rs \in Seq(MadtRecords)
      BY <1>1 DEF Madts
    <2>2. DOMAIN rs = 1 .. N
      BY <2>1
    <2>3. QED
      BY <1>1, <2>2, NoNmis DEF HasLapicNmi
  <1>4. /\ ids \in Seq(Nat) /\ Len(ids) = Cardinality(us)
        /\ \A j \in 1 .. Len(ids) : \E i \in us : ids[j] = rs[i].id
    <2> HIDE DEF info
    <2>1. /\ WalkMadt(madt).LAPICs \in Seq(Nat)
          /\ Len(WalkMadt(madt).LAPICs) = Cardinality(Usable(madt.records, Len(madt.records)))
          /\ \A j \in 1 .. Len(WalkMadt(madt).LAPICs) :
                \E i \in Usable(madt.records, Len(madt.records)) : WalkMadt(madt).LAPICs[j] = madt.records[i].id
      BY Processors, Zenon
    <2>2. QED
      BY <1>1, <2>1
  <1>5. (ms = {} => c.LAPIC_Ptr = fw.madt.lapic) /\ \A i : Last(ms, i) => c.LAPIC_Ptr = rs[i].addr
    BY <1>1, <1>2, LapicAddress
  <1>6. /\ Len(c.CPUs) = IF Cardinality(us) < MAX_SUPP_PROC_NUM THEN Cardinality(us) ELSE MAX_SUPP_PROC_NUM
        /\ \A j \in DOMAIN c.CPUs : \E i \in us : c.CPUs[j] = rs[i].id
    <2>1. MAX_SUPP_PROC_NUM \in Nat /\ Len(ids) \in Nat /\ max \in 0 .. Len(ids)
      BY <1>4, AcpiAssumption
    <2>2. max = IF Cardinality(us) < MAX_SUPP_PROC_NUM THEN Cardinality(us) ELSE MAX_SUPP_PROC_NUM
      BY <1>4
    <2> HIDE DEF max, ids, us, c
    <2>3. /\ Len(SubSeq(ids, 1, max)) = max /\ DOMAIN SubSeq(ids, 1, max) = 1 .. max
          /\ \A j \in 1 .. max : SubSeq(ids, 1, max)[j] = ids[j] /\ j \in 1 .. Len(ids)
      BY <1>4, <2>1
    <2>4. QED
      BY <1>2, <1>4, <2>2, <2>3
  <1>7. os \in Seq(Overs) /\ src \in SourceTables /\ info.nmis \in Seq(Stray)
    BY <1>3, Overridden, AcpiAssumption DEF Infos
  <1>8. ASSUME NEW k \in Irqs
        PROVE  /\ src[k].vector = HW_INT_START + k /\ src[k].gsi = Wire(k)
               /\ src[k].trigger = FirmwareFlags(k) \div 4 /\ src[k].polarity = FirmwareFlags(k) % 4
    <2> DEFINE hits == OversOf(rs, N, k)
    <2>1. N \in Nat /\ hits \in SUBSET (1 .. N)
          /\ hits = {n \in DOMAIN rs : rs[n].type = "INT_OVER" /\ rs[n].irq = k}
      <3>1. rs \in Seq(MadtRecords)
        BY <1>1 DEF Madts
      <3>2. N \in Nat /\ DOMAIN rs = 1 .. N
        BY <3>1
      <3>3. QED
        BY <3>2 DEF OversOf
    <2>2. CASE hits = {}
      <3>1. src[k] = Source(HW_INT_START + k, k, 0, 0)
        <4>1. \A j \in 1 .. Len(os) : os[j].irq # k
          BY <1>1, <2>2, LastOverride
        <4>2. QED
          BY <1>7, <4>1, Overridden
      <3>2. Wire(k) = k /\ FirmwareFlags(k) = 0
        BY <2>1, <2>2 DEF Wire, WireOf, FirmwareFlags
      <3>3. 0 \div 4 = 0 /\ 0 % 4 = 0
        OBVIOUS
      <3>4. src[k].vector = HW_INT_START + k /\ src[k].gsi = k /\ src[k].trigger = 0 /\ src[k].polarity = 0
        BY <3>1, SourceFields
      <3>5. QED
        BY <3>2, <3>3, <3>4
    <2>3. CASE hits # {}
      <3> DEFINE i == CHOOSE n \in hits : \A m \in hits : m <= n
      <3>1. \E n \in hits : \A m \in hits : m <= n
        BY <2>1, <2>3, Latest
      <3>2. Last(hits, i)
        BY <3>1, Zenon DEF Last
      <3>3. Wire(k) = rs[i].gsi /\ FirmwareFlags(k) = rs[i].flags
        BY <2>1, <2>3 DEF Wire, WireOf, FirmwareFlags
      <3> HIDE DEF i
      <3>4. PICK j \in 1 .. Len(os) : os[j] = rs[i] /\ \A l \in 1 .. Len(os) : os[l].irq = k => l <= j
        <4>1. Last(OversOf(madt.records, Len(madt.records), k), i) =>
                 \E j \in 1 .. Len(WalkMadt(madt).overrides) :
                    /\ WalkMadt(madt).overrides[j] = madt.records[i]
                    /\ \A l \in 1 .. Len(WalkMadt(madt).overrides) : WalkMadt(madt).overrides[l].irq = k => l <= j
          BY LastOverride
        <4> HIDE DEF info
        <4>2. QED
          BY <1>1, <3>2, <4>1
      <3>5. rs[i].irq = k
        BY <3>2 DEF Last, OversOf
      <3>6. src[k] = FromOverride(k, rs[i])
        BY <1>7, <3>4, <3>5, Overridden
      <3>7. /\ src[k].vector = HW_INT_START + k /\ src[k].gsi = rs[i].gsi
            /\ src[k].trigger = rs[i].flags \div 4 /\ src[k].polarity = rs[i].flags % 4
        BY <3>6, SourceFields DEF FromOverride
      <3>8. QED
        BY <3>3, <3>7
    <2>4. QED
      BY <2>2, <2>3
  <1> HIDE DEF src, c, info, us, ms, rs, N
  <1>9. /\ c.sources \in SourceTables
        /\ \A k \in Irqs : c.sources[k].vector = HW_INT_START + k /\ c.sources[k].gsi = Wire(k)
        /\ ~HasLapicNmi => \A k \in Irqs : /\ c.sources[k].trigger = FirmwareFlags(k) \div 4
                                           /\ c.sources[k].polarity = FirmwareFlags(k) % 4
    BY <1>2, <1>3, <1>7, <1>8, NmisApplied
  <1>10. QED
    BY <1>5, <1>6, <1>9 DEF c, us, ms, rs, N

-----------------------------------------------------------------------------
(* The controllers. *)

Pics == [base1 : Nat, base2 : Nat, offset : Nat, mask : SUBSET Irqs, irr : SUBSET Irqs, isr : SUBSET Irqs]
Lapics == [on : BOOLEAN, irr : SUBSET [vector : Nat, irq : Irqs], isr : SUBSET Nat]

\* No line comes before itself.
LEMMA NotBefore ==
  ASSUME NEW k \in Irqs
  PROVE  ~Before(k, k)
  <1>1. k \in Nat
    BY Numbers
  <1>2. \A n \in Nat : ~(n < n)
    OBVIOUS
  <1>3. Rank(k)[1] \in Nat /\ Rank(k)[2] \in Nat
    BY <1>1 DEF Rank, CASCADE
  <1>4. QED
    BY <1>2, <1>3 DEF Before

\* The EOI commands leave nothing of what is alone in service at each PIC.
LEMMA EoiEnds ==
  /\ Eoi1({}) = {} /\ Eoi2({}) = {}
  /\ \A k \in Irqs : ~OnSecond(k) => Eoi1({k}) = {}
  /\ \A k \in Irqs : OnSecond(k) => Eoi1(Eoi2({k} \cup {CASCADE})) = {}
  /\ \A S \in SUBSET Irqs : Eoi1(S) \in SUBSET Irqs /\ Eoi2(S) \in SUBSET Irqs
  <1>1. \A k \in Irqs : EndFirst({k}) = {}
    BY NotBefore DEF EndFirst
  <1>2. EndFirst({}) = {}
    BY DEF EndFirst
  <1>3. Eoi1({}) = {} /\ Eoi2({}) = {}
    BY <1>2 DEF Eoi1, Eoi2, EndFirst
  <1>4. ASSUME NEW k \in Irqs, ~OnSecond(k)
        PROVE  Eoi1({k}) = {}
    <2>1. {j \in {k} : ~OnSecond(j)} = {k} /\ {j \in {k} : OnSecond(j)} = {}
      BY <1>4
    <2>2. QED
      BY <1>1, <2>1 DEF Eoi1
  <1>5. ASSUME NEW k \in Irqs, OnSecond(k)
        PROVE  Eoi1(Eoi2({k} \cup {CASCADE})) = {}
    <2>1. CASCADE \in Irqs /\ ~OnSecond(CASCADE)
      BY InterruptsAssumption DEF CASCADE, OnSecond, PIC1_LINES
    <2>2. {j \in {k} \cup {CASCADE} : OnSecond(j)} = {k} /\ {j \in {k} \cup {CASCADE} : ~OnSecond(j)} = {CASCADE}
      BY <1>5, <2>1
    <2>3. Eoi2({k} \cup {CASCADE}) = {CASCADE}
      BY <1>1, <2>2 DEF Eoi2
    <2>4. QED
      BY <1>4, <2>1, <2>3
  <1>6. \A S \in SUBSET Irqs : Eoi1(S) \in SUBSET Irqs /\ Eoi2(S) \in SUBSET Irqs
    BY DEF Eoi1, Eoi2, EndFirst
  <1>7. QED
    BY <1>3, <1>4, <1>5, <1>6

\* PIC_SendEOI touches the service registers only.
LEMMA SendsEoi ==
  ASSUME NEW p \in Pics, NEW v \in Nat
  PROVE  /\ PIC_SendEOI(p, v) \in Pics
         /\ PIC_SendEOI(p, v).mask = p.mask /\ PIC_SendEOI(p, v).irr = p.irr
         /\ PIC_SendEOI(p, v).base1 = p.base1 /\ PIC_SendEOI(p, v).base2 = p.base2
         /\ PIC_SendEOI(p, v).offset = p.offset
         /\ p.isr = {} => PIC_SendEOI(p, v).isr = {}
  <1> DEFINE irq == IF p.offset > 0 THEN (v % 256) - p.offset ELSE v
             s == Eoi1(IF irq >= PIC1_LINES THEN Eoi2(p.isr) ELSE p.isr)
  <1>1. PIC_SendEOI(p, v) = IF irq \notin 0 .. 15 THEN p ELSE [p EXCEPT !.isr = s]
    BY DEF PIC_SendEOI
  <1>2. p.isr \in SUBSET Irqs
    BY DEF Pics
  <1>3. s \in SUBSET Irqs /\ (p.isr = {} => s = {})
    BY <1>2, EoiEnds
  <1> HIDE DEF s, irq
  <1>4. QED
    BY <1>1, <1>3 DEF Pics

\* The line just taken is acknowledged, with the cascade when it is behind it.
LEMMA PicAcknowledges ==
  ASSUME pic \in Pics, pic.isr = {}, pic.offset = HW_INT_START, NEW k \in Irqs
  PROVE  /\ PicTaken(k) \in Pics
         /\ PIC_SendEOI(PicTaken(k), HW_INT_START + k).isr = {}
         /\ PicTaken(k).mask = pic.mask /\ PicTaken(k).base1 = pic.base1 /\ PicTaken(k).base2 = pic.base2
         /\ PicTaken(k).offset = pic.offset
  <1> DEFINE p == PicTaken(k)
             v == HW_INT_START + k
             irq == IF p.offset > 0 THEN (v % 256) - p.offset ELSE v
             s == Eoi1(IF irq >= PIC1_LINES THEN Eoi2(p.isr) ELSE p.isr)
  <1>1. /\ p \in Pics /\ p.offset = HW_INT_START
        /\ p.mask = pic.mask /\ p.base1 = pic.base1 /\ p.base2 = pic.base2
        /\ p.isr = {k} \cup (IF OnSecond(k) THEN {CASCADE} ELSE {})
    BY InterruptsAssumption DEF PicTaken, Pics
  <1>2. irq = k /\ irq \in 0 .. 15
    <2>1. k \in Nat /\ k <= 15 /\ v \in Nat /\ v < 256
      BY Numbers
    <2>2. v % 256 = v
      BY <2>1
    <2>3. QED
      BY <1>1, <2>1, <2>2, Numbers
  <1>3. PIC_SendEOI(p, v) = [p EXCEPT !.isr = s]
    BY <1>2 DEF PIC_SendEOI
  <1>4. s = {}
    <2>1. CASE OnSecond(k)
      BY <1>1, <1>2, <2>1, EoiEnds DEF OnSecond
    <2>2. CASE ~OnSecond(k)
      <3>1. p.isr = {k} /\ ~(irq >= PIC1_LINES)
        BY <1>1, <1>2, <2>2 DEF OnSecond
      <3>2. QED
        BY <2>2, <3>1, EoiEnds
    <2>3. QED
      BY <2>1, <2>2
  <1> HIDE DEF p, s
  <1>5. PIC_SendEOI(p, v).isr = {}
    BY <1>1, <1>3, <1>4 DEF Pics
  <1>6. QED
    BY <1>1, <1>5 DEF p

\* Vectors of the devices are known, and none is that of an exception.
LEMMA VectorsKnown ==
  /\ \A k \in Irqs : HW_INT_START + k \in Vectors /\ HW_INT_START + k \in Nat /\ HW_INT_START + k # NMI
  /\ {NMI, BREAKPOINT, DOUBLE_FAULT, PAGE_FAULT} \subseteq Vectors
  /\ NMI \in Nat /\ BREAKPOINT \in Nat /\ NMI # BREAKPOINT
  /\ \A k \in Irqs : HW_INT_START + k \notin {NMI, BREAKPOINT, DOUBLE_FAULT, PAGE_FAULT}
  /\ \A j, k \in Irqs : HW_INT_START + j = HW_INT_START + k => j = k
  BY Numbers DEF Vectors, NMI, BREAKPOINT, DOUBLE_FAULT, PAGE_FAULT

\* A LAPIC with one vector in service has none after the EOI.
LEMMA LapicEoi ==
  ASSUME NEW l \in Lapics
  PROVE  /\ LAPIC_Send_EOI(l) \in Lapics
         /\ LAPIC_Send_EOI(l).on = l.on /\ LAPIC_Send_EOI(l).irr = l.irr
         /\ l.isr = {} => LAPIC_Send_EOI(l).isr = {}
         /\ \A v \in Nat : l.isr = {v} => LAPIC_Send_EOI(l).isr = {}
  <1> DEFINE s == {v \in l.isr : \E w \in l.isr : w > v}
  <1>1. LAPIC_Send_EOI(l) = [l EXCEPT !.isr = s]
    BY DEF LAPIC_Send_EOI
  <1>2. s \in SUBSET Nat /\ (l.isr = {} => s = {})
    BY DEF Lapics
  <1>3. \A v \in Nat : l.isr = {v} => s = {}
    OBVIOUS
  <1> HIDE DEF s
  <1>4. QED
    BY <1>1, <1>2, <1>3 DEF Lapics

-----------------------------------------------------------------------------
(* What a step leaves alone. *)

\* Open lines are as before when neither they nor the configuration change.
LEMMA KeepLines ==
  ASSUME Lines, UNCHANGED <<ioapic, conf, SendEOI_handler>>
  PROVE  Lines'
  BY DEF Lines, Base, Redirection

\* Nothing is open as long as there is no EOI handler.
LEMMA NoLines ==
  ASSUME Lines, SendEOI_handler # "LAPIC", UNCHANGED ioapic
  PROVE  Lines'
  BY DEF Lines

\* Requests are as before when neither they nor the configuration change.
LEMMA KeepRequests ==
  ASSUME Requests, UNCHANGED <<lapic, conf>>
  PROVE  Requests'
  BY DEF Requests, FirstIoapicAtZero, Base

\* A LAPIC that is off has no requests.
LEMMA NoRequests ==
  ASSUME Requests, ~lapic.on, lapic'.irr = lapic.irr
  PROVE  Requests'
  BY DEF Requests

\* The routines are as before on the way to the end of the boot.
LEMMA KeepRoutine ==
  ASSUME Routine, UNCHANGED <<isr_table, driver, ACPI_Init>>, pic'.mask = pic.mask,
         pc \in {"main", "null", "fault"} => pc' \in {"main", "null", "fault"}
  PROVE  Routine'
  BY DEF Routine

\* Before the end of the boot every routine is there and no driver is.
LEMMA EarlyRoutine ==
  ASSUME Routine, pc \notin {"main", "null", "fault"}, UNCHANGED driver,
         \A v \in Vectors : isr_table'[v] # NULL
  PROVE  Routine'
  BY DEF Routine

\* The configuration stays.
LEMMA KeepConfigured ==
  ASSUME Configured, UNCHANGED <<conf, fw>>, pc # "config", pc' # "config",
         pc' = "eoi" => pc = "eoi", SendEOI_handler' = "LAPIC" => pc = "eoi" \/ SendEOI_handler = "LAPIC"
  PROVE  Configured'
  BY DEF Configured, Readable

\* A step that is not into NULL, with nothing in service after it.
LEMMA Harmless ==
  ASSUME NeverCallsNull, pc' # "null", pic'.isr = {}, lapic'.isr = {}
  PROVE  NeverCallsNull' /\ NothingLeftInService'
  BY DEF NeverCallsNull, NothingLeftInService

-----------------------------------------------------------------------------
(* The boot. *)

\* Steps that leave interrupts alone.
LEMMA PlainInv ==
  ASSUME IndInv, UNCHANGED <<intVars, fw, conf, ACPI_Init, driver>>,
         \/ pc = "frequency" /\ pc' = "init_sys"
         \/ pc = "micro_timer" /\ pc' = "init_aps"
         \/ pc = "init_aps" /\ pc' = "init_aps"
         \/ pc = "init_aps" /\ pc' = "main"
         \/ pc = "main" /\ pc' = "main"
  PROVE  IndInv'
  <1> USE DEF IndInv
  <1>1. UNCHANGED <<IF_flag, isr_table, SendEOI_handler, pic, ioapic, lapic>>
    BY DEF intVars
  <1>2. TypeOK'
    BY <1>1 DEF TypeOK, Pcs, Early, Late
  <1>3. Controllers'
    BY <1>1 DEF Controllers, Early, Late
  <1>4. Configured' /\ Lines' /\ Requests' /\ Routine'
    BY <1>1, KeepConfigured, KeepLines, KeepRequests, KeepRoutine
  <1>5. NeverCallsNull' /\ NothingLeftInService'
    BY <1>1, Harmless DEF NothingLeftInService
  <1>6. QED
    BY <1>2, <1>3, <1>4, <1>5

\* Reading the configuration, with interrupts off.
LEMMA ConfigInv ==
  ASSUME IndInv, InitSystemConfig
  PROVE  IndInv'
  <1> USE DEF IndInv
  <1>1. /\ UNCHANGED <<IF_flag, isr_table, SendEOI_handler, pic, ioapic, lapic, fw, driver>>
        /\ pc = "config" /\ pc' = "tables" /\ conf' = ReadSystemConfig(fw.area) /\ ACPI_Init' = TRUE
    BY DEF InitSystemConfig, Go, intVars
  <1>2. SendEOI_handler = NULL /\ SendEOI_handler # "LAPIC" /\ SendEOI_handler # "PIC" /\ ~lapic.on
    BY <1>1, InterruptsAssumption DEF Controllers, Early, EoiHandlers
  <1>3. TypeOK'
    BY <1>1 DEF TypeOK, Pcs, Early
  <1>4. Controllers'
    BY <1>1, <1>2 DEF Controllers, Early, Late
  <1>5. Configured'
    BY <1>1, <1>2 DEF Configured
  <1>6. Lines' /\ Requests'
    BY <1>1, <1>2, NoLines, NoRequests
  <1>7. Routine'
    BY <1>1, EarlyRoutine DEF Routine
  <1>8. NeverCallsNull' /\ NothingLeftInService'
    BY <1>1, Harmless DEF NothingLeftInService
  <1>9. QED
    BY <1>3, <1>4, <1>5, <1>6, <1>7, <1>8

\* The tables of the processor.
LEMMA TablesInv ==
  ASSUME IndInv, InitTables
  PROVE  IndInv'
  <1> USE DEF IndInv
  <1>1. /\ UNCHANGED <<IF_flag, SendEOI_handler, pic, ioapic, lapic, fw, driver, conf, ACPI_Init>>
        /\ pc = "tables" /\ pc' = "stdio" /\ isr_table' = [v \in Vectors |-> "Default_ISR"]
    BY DEF InitTables, Go, KeepBoot, controllers
  <1>2. TypeOK'
    <2>1. isr_table' \in [Vectors -> Routines \cup {NULL}]
      BY <1>1 DEF Routines
    <2>2. QED
      BY <1>1, <2>1 DEF TypeOK, Pcs, Early
  <1>3. Controllers'
    BY <1>1 DEF Controllers, Early, Late
  <1>4. Configured' /\ Lines' /\ Requests'
    BY <1>1, KeepConfigured, KeepLines, KeepRequests
  <1>5. Routine'
    <2>1. \A v \in Vectors : isr_table'[v] # NULL
      BY <1>1, InterruptsAssumption DEF Routines
    <2>2. QED
      BY <1>1, <2>1, EarlyRoutine
  <1>6. NeverCallsNull' /\ NothingLeftInService'
    BY <1>1, Harmless DEF NothingLeftInService
  <1>7. QED
    BY <1>2, <1>3, <1>4, <1>5, <1>6

\* The serial port, which may mask lines of the first PIC.
LEMMA StdioInv ==
  ASSUME IndInv, InitStdio
  PROVE  IndInv'
  <1> USE DEF IndInv
  <1>1. /\ UNCHANGED <<IF_flag, isr_table, SendEOI_handler, ioapic, lapic, fw, driver, conf, ACPI_Init>>
        /\ pc = "stdio" /\ pc' = "frequency"
    BY DEF InitStdio, Go, KeepBoot
  <1>2. pic \in Pics
    BY DEF TypeOK, Pics
  <1>3. pic' \in Pics /\ pic'.isr = pic.isr
    BY <1>2 DEF InitStdio, Pics
  <1>4. TypeOK'
    BY <1>1, <1>3 DEF TypeOK, Pcs, Early, Pics
  <1>5. SendEOI_handler = NULL /\ SendEOI_handler # "LAPIC" /\ SendEOI_handler # "PIC"
    BY <1>1, InterruptsAssumption DEF Controllers, Early, EoiHandlers
  <1>6. Controllers'
    BY <1>1, <1>5 DEF Controllers, Early, Late
  <1>7. Configured' /\ Lines' /\ Requests'
    BY <1>1, KeepConfigured, KeepLines, KeepRequests
  <1>8. Routine'
    BY <1>1, EarlyRoutine DEF Routine
  <1>9. NeverCallsNull' /\ NothingLeftInService'
    BY <1>1, <1>3, Harmless DEF NothingLeftInService
  <1>10. QED
    BY <1>4, <1>6, <1>7, <1>8, <1>9

\* The PICs silenced, for the APIC.
LEMMA DisablePicInv ==
  ASSUME IndInv, DisablePic
  PROVE  IndInv'
  <1> USE DEF IndInv
  <1>1. /\ UNCHANGED <<isr_table, SendEOI_handler, ioapic, lapic, fw, driver, conf, ACPI_Init>>
        /\ pc = "init_sys" /\ pc' = "map" /\ ~IF_flag' /\ IF_flag' \in BOOLEAN /\ ACPI_Init /\ pic' = PIC_disable
    BY DEF DisablePic, Go, KeepBoot, UsesApic
  <1>2. pic \in Pics /\ pic.isr = {}
    BY <1>1 DEF TypeOK, Pics, NothingLeftInService
  <1>3. pic' \in Pics /\ pic'.isr = {} /\ pic'.mask = Irqs
    <2>1. Eoi2(Eoi1(pic.isr)) = {}
      BY <1>2, EoiEnds
    <2>2. pic' = [pic EXCEPT !.isr = {}, !.mask = Irqs]
      BY <1>1, <2>1 DEF PIC_disable
    <2>3. QED
      BY <1>2, <2>2 DEF Pics
  <1>4. TypeOK'
    BY <1>1, <1>3 DEF TypeOK, Pcs, Early, Pics
  <1>5. SendEOI_handler = NULL /\ SendEOI_handler # "LAPIC" /\ SendEOI_handler # "PIC"
    BY <1>1, InterruptsAssumption DEF Controllers, Early, EoiHandlers
  <1>6. Controllers'
    BY <1>1, <1>3, <1>5 DEF Controllers, Early, Late
  <1>7. Configured' /\ Lines' /\ Requests'
    BY <1>1, KeepConfigured, KeepLines, KeepRequests
  <1>8. Routine'
    BY <1>1, EarlyRoutine DEF Routine
  <1>9. NeverCallsNull' /\ NothingLeftInService'
    BY <1>1, <1>3, Harmless DEF NothingLeftInService
  <1>10. QED
    BY <1>4, <1>6, <1>7, <1>8, <1>9

\* The controllers mapped: they are there only if the tables were read.
LEMMA MapInv ==
  ASSUME IndInv, MapControllers
  PROVE  IndInv'
  <1> USE DEF IndInv
  <1> DEFINE found == conf.LAPIC_Ptr # 0 /\ Len(conf.IOAPICs) > 0
  <1>1. /\ UNCHANGED <<isr_table, SendEOI_handler, pic, ioapic, lapic, fw, driver, conf, ACPI_Init>>
        /\ pc = "map" /\ pc' = (IF found THEN "eoi" ELSE "stopped") /\ IF_flag' = found
    BY DEF MapControllers, Go, KeepBoot, controllers
  <1>2. found => Readable /\ Len(conf.IOAPICs) > 0
    <2>1. conf = ReadSystemConfig(fw.area)
      BY <1>1 DEF Configured
    <2>2. ~Readable => ReadSystemConfig(fw.area) = NoConf
      BY DEF Readable, ReadSystemConfig
    <2>3. NoConf.LAPIC_Ptr = 0
      BY DEF NoConf
    <2>4. QED
      BY <2>1, <2>2, <2>3
  <1>3. found \in BOOLEAN
    OBVIOUS
  <1> HIDE DEF found
  <1>4. TypeOK'
    BY <1>1, <1>3 DEF TypeOK, Pcs
  <1>5. SendEOI_handler = NULL /\ SendEOI_handler # "LAPIC" /\ SendEOI_handler # "PIC"
    BY <1>1, InterruptsAssumption DEF Controllers, EoiHandlers
  <1>6. Controllers'
    BY <1>1, <1>3, <1>5 DEF Controllers, Early, Late
  <1>7. Configured'
    BY <1>1, <1>2, <1>3, <1>5 DEF Configured, Readable
  <1>8. Lines' /\ Requests'
    BY <1>1, KeepLines, KeepRequests
  <1>9. Routine'
    BY <1>1, EarlyRoutine DEF Routine
  <1>10. NeverCallsNull' /\ NothingLeftInService'
    BY <1>1, <1>3, Harmless DEF NothingLeftInService
  <1>11. QED
    BY <1>4, <1>6, <1>7, <1>8, <1>9, <1>10

\* The EOI handler of the LAPIC: interrupts are on, but no controller delivers any.
LEMMA SetLapicEoiInv ==
  ASSUME IndInv, SetLapicEoi
  PROVE  IndInv'
  <1> USE DEF IndInv
  <1>1. /\ UNCHANGED <<IF_flag, isr_table, pic, ioapic, lapic, fw, driver, conf, ACPI_Init>>
        /\ pc = "eoi" /\ pc' = "lapic" /\ SendEOI_handler' = "LAPIC"
    BY DEF SetLapicEoi, Go, KeepBoot, controllers
  <1>2. SendEOI_handler = NULL /\ SendEOI_handler # "LAPIC" /\ SendEOI_handler # "PIC" /\ ~lapic.on
    BY <1>1, InterruptsAssumption DEF Controllers, EoiHandlers
  <1>3. TypeOK'
    BY <1>1 DEF TypeOK, Pcs, EoiHandlers
  <1>4. Controllers'
    BY <1>1, <1>2 DEF Controllers, Early, Late
  <1>5. Configured' /\ Lines' /\ Requests'
    BY <1>1, <1>2, KeepConfigured, NoLines, KeepRequests
  <1>6. Routine'
    BY <1>1, EarlyRoutine DEF Routine
  <1>7. NeverCallsNull' /\ NothingLeftInService'
    BY <1>1, Harmless DEF NothingLeftInService
  <1>8. QED
    BY <1>3, <1>4, <1>5, <1>6, <1>7

\* The LAPIC switched on.
LEMMA LapicEnableInv ==
  ASSUME IndInv, LAPIC_enable
  PROVE  IndInv'
  <1> USE DEF IndInv
  <1>1. /\ UNCHANGED <<IF_flag, isr_table, SendEOI_handler, pic, ioapic, fw, driver, conf, ACPI_Init>>
        /\ pc = "lapic" /\ pc' = "systick" /\ lapic' = LAPIC_Send_EOI([lapic EXCEPT !.on = TRUE])
    BY DEF LAPIC_enable, Go, KeepBoot
  <1>2. lapic \in Lapics /\ lapic.isr = {} /\ SendEOI_handler = "LAPIC" /\ SendEOI_handler # "PIC"
        /\ SendEOI_handler # NULL
    BY <1>1, InterruptsAssumption DEF TypeOK, Lapics, NothingLeftInService, Controllers, EoiHandlers
  <1>3. lapic' \in Lapics /\ lapic'.isr = {} /\ lapic'.on /\ lapic'.irr = lapic.irr
    <2> DEFINE l == [lapic EXCEPT !.on = TRUE]
    <2>1. l \in Lapics /\ l.isr = {} /\ l.on /\ l.irr = lapic.irr
      BY <1>2 DEF Lapics
    <2> HIDE DEF l
    <2>2. lapic' = LAPIC_Send_EOI(l)
      BY <1>1 DEF l
    <2>3. QED
      BY <2>1, <2>2, LapicEoi
  <1>4. TypeOK'
    BY <1>1, <1>3 DEF TypeOK, Pcs, Late, Lapics
  <1>5. Controllers'
    BY <1>1, <1>2 DEF Controllers, Early, Late
  <1>6. Configured' /\ Lines'
    BY <1>1, KeepConfigured, KeepLines
  <1>7. Requests'
    BY <1>1, <1>3 DEF Requests, FirstIoapicAtZero, Base
  <1>8. Routine'
    BY <1>1, EarlyRoutine DEF Routine
  <1>9. NeverCallsNull' /\ NothingLeftInService'
    BY <1>1, <1>3, Harmless DEF NothingLeftInService
  <1>10. QED
    BY <1>4, <1>5, <1>6, <1>7, <1>8, <1>9

\* The EOI handler of the PICs, with interrupts off.
LEMMA SetPicEoiInv ==
  ASSUME IndInv, SetPicEoi
  PROVE  IndInv'
  <1> USE DEF IndInv
  <1>1. /\ UNCHANGED <<isr_table, pic, ioapic, lapic, fw, driver, conf, ACPI_Init>>
        /\ pc = "init_sys" /\ pc' = "remap" /\ SendEOI_handler' = "PIC" /\ ~IF_flag' /\ IF_flag' \in BOOLEAN
    BY DEF SetPicEoi, Go, KeepBoot, controllers
  <1>2. SendEOI_handler = NULL /\ SendEOI_handler # "LAPIC" /\ SendEOI_handler # "PIC" /\ ~lapic.on
    BY <1>1, InterruptsAssumption DEF Controllers, Early, EoiHandlers
  <1>3. TypeOK'
    BY <1>1 DEF TypeOK, Pcs, EoiHandlers
  <1>4. Controllers'
    BY <1>1, <1>2 DEF Controllers, Early, Late
  <1>5. Configured' /\ Lines' /\ Requests'
    BY <1>1, <1>2, KeepConfigured, NoLines, KeepRequests
  <1>6. Routine'
    BY <1>1, EarlyRoutine DEF Routine
  <1>7. NeverCallsNull' /\ NothingLeftInService'
    BY <1>1, Harmless DEF NothingLeftInService
  <1>8. QED
    BY <1>3, <1>4, <1>5, <1>6, <1>7

\* The PICs remapped: from here their vectors are those of the devices.
LEMMA RemapInv ==
  ASSUME IndInv, RemapPic
  PROVE  IndInv'
  <1> USE DEF IndInv
  <1>1. /\ UNCHANGED <<IF_flag, isr_table, SendEOI_handler, ioapic, lapic, fw, driver, conf>>
        /\ pc = "remap" /\ pc' = "systick" /\ ~ACPI_Init' /\ ACPI_Init' \in BOOLEAN /\ pic' = PIC_remap(HW_INT_START)
    BY DEF RemapPic, Go
  <1>2. SendEOI_handler = "PIC" /\ SendEOI_handler # NULL /\ SendEOI_handler # "LAPIC"
    BY <1>1, InterruptsAssumption DEF Controllers, EoiHandlers
  <1>3. /\ pic' \in Pics /\ pic'.isr = {} /\ pic'.base1 = HW_INT_START
        /\ pic'.base2 = HW_INT_START + PIC1_LINES /\ pic'.offset = HW_INT_START
    <2>1. pic \in Pics /\ HW_INT_START \in Nat /\ HW_INT_START + PIC1_LINES \in Nat
      BY Numbers DEF TypeOK, Pics, PIC1_LINES
    <2>2. QED
      BY <1>1, <2>1 DEF PIC_remap, Pics
  <1>4. TypeOK'
    BY <1>1, <1>3 DEF TypeOK, Pcs, Late, Pics
  <1>5. Controllers'
    BY <1>1, <1>2, <1>3 DEF Controllers, Early, Late
  <1>6. Configured' /\ Lines' /\ Requests'
    BY <1>1, KeepConfigured, KeepLines, KeepRequests
  <1>7. Routine'
    BY <1>1, EarlyRoutine DEF Routine
  <1>8. NeverCallsNull' /\ NothingLeftInService'
    BY <1>1, <1>3, Harmless DEF NothingLeftInService
  <1>9. QED
    BY <1>4, <1>5, <1>6, <1>7, <1>8

\* In the later part of the boot the flag for the APIC and the EOI handler agree.
LEMMA OneController ==
  ASSUME IndInv, pc \in Late
  PROVE  /\ SendEOI_handler \in EoiHandlers /\ SendEOI_handler # NULL
         /\ ACPI_Init <=> SendEOI_handler = "LAPIC"
         /\ ~ACPI_Init <=> SendEOI_handler = "PIC"
         /\ conf = ReadSystemConfig(fw.area) /\ fw \in Firmwares
         /\ ACPI_Init => Readable /\ pic.mask = Irqs /\ Len(conf.IOAPICs) > 0
         /\ ~ACPI_Init => /\ pic.base1 = HW_INT_START /\ pic.base2 = HW_INT_START + PIC1_LINES
                          /\ pic.offset = HW_INT_START
  <1>1. SendEOI_handler \in EoiHandlers /\ SendEOI_handler # NULL
    BY DEF IndInv, TypeOK, Controllers
  <1>2. SendEOI_handler = "LAPIC" \/ SendEOI_handler = "PIC"
    BY <1>1 DEF EoiHandlers
  <1>3. pc # "config"
    BY DEF Late
  <1>4. QED
    BY <1>1, <1>2, <1>3 DEF IndInv, TypeOK, Controllers, Configured

\* The routine of the tick.
LEMMA SysTickInv ==
  ASSUME IndInv, InstallSysTick
  PROVE  IndInv'
  <1> USE DEF IndInv
  <1>1. /\ UNCHANGED <<IF_flag, SendEOI_handler, pic, ioapic, lapic, fw, driver, conf, ACPI_Init>>
        /\ pc = "systick" /\ pc' = "enable_tick"
        /\ isr_table' = [isr_table EXCEPT ![HW_INT_START + ISA_IRQ0_PIT] = "SysTick"]
    BY DEF InstallSysTick, Go, KeepBoot, controllers
  <1>2. isr_table' \in [Vectors -> Routines \cup {NULL}]
    BY <1>1 DEF TypeOK, Routines
  <1>3. TypeOK'
    BY <1>1, <1>2 DEF TypeOK, Pcs, Late
  <1>4. Controllers'
    BY <1>1 DEF Controllers, Early, Late
  <1>5. Configured' /\ Lines' /\ Requests'
    BY <1>1, KeepConfigured, KeepLines, KeepRequests
  <1>6. Routine'
    <2>1. \A v \in Vectors : isr_table[v] # NULL
      BY <1>1 DEF Routine
    <2>2. \A v \in Vectors : isr_table'[v] # NULL
      BY <1>1, <2>1, InterruptsAssumption DEF TypeOK, Routines
    <2>3. QED
      BY <1>1, <2>2, EarlyRoutine
  <1>7. NeverCallsNull' /\ NothingLeftInService'
    BY <1>1, Harmless DEF NothingLeftInService
  <1>8. QED
    BY <1>3, <1>4, <1>5, <1>6, <1>7

\* The routine of an exception, which leaves interrupts enabled.
LEMMA ExceptionInv ==
  ASSUME IndInv, InstallDoubleFault \/ InstallPageFault
  PROVE  IndInv'
  <1> USE DEF IndInv
  <1>1. /\ UNCHANGED <<SendEOI_handler, pic, ioapic, lapic, fw, driver, conf, ACPI_Init>>
        /\ \/ pc = "ex_DoubleFault" /\ pc' = "ex_PageFault"
           \/ pc = "ex_PageFault" /\ pc' = "micro_timer"
        /\ IF_flag' \in BOOLEAN
        /\ \E v \in Vectors, r \in Routines : isr_table' = [isr_table EXCEPT ![v] = r]
    BY VectorsKnown DEF InstallDoubleFault, InstallPageFault, StoreIsr, Go, KeepBoot, controllers, Routines
  <1>2. isr_table' \in [Vectors -> Routines \cup {NULL}]
    BY <1>1 DEF TypeOK
  <1>3. TypeOK'
    BY <1>1, <1>2 DEF TypeOK, Pcs, Late
  <1>4. Controllers'
    BY <1>1 DEF Controllers, Early, Late
  <1>5. Configured' /\ Lines' /\ Requests'
    BY <1>1, KeepConfigured, KeepLines, KeepRequests
  <1>6. Routine'
    <2>1. \A v \in Vectors : isr_table[v] # NULL
      BY <1>1 DEF Routine
    <2>2. \A v \in Vectors : isr_table'[v] # NULL
      BY <1>1, <2>1, InterruptsAssumption DEF TypeOK
    <2>3. QED
      BY <1>1, <2>2, EarlyRoutine
  <1>7. NeverCallsNull' /\ NothingLeftInService'
    BY <1>1, Harmless DEF NothingLeftInService
  <1>8. QED
    BY <1>3, <1>4, <1>5, <1>6, <1>7

\* A redirection entry is made of what a source says.
LEMMA Redirects ==
  ASSUME NEW s \in Sources
  PROVE  /\ Redirection(0, s) \in RedirectEntries
         /\ Redirection(0, s).vector = s.vector /\ ~Redirection(0, s).masked
         /\ Redirection(0, s).level = (s.trigger % 2 = 1)
         /\ Redirection(0, s).low = (s.polarity % 2 = 1)
  <1>1. s.vector \in Nat /\ (s.trigger % 2 = 1) \in BOOLEAN /\ (s.polarity % 2 = 1) \in BOOLEAN
    BY DEF Sources
  <1>2. QED
    BY <1>1 DEF Redirection, RedirectEntries

\* EnableIRQ opens the line of a device, as configured, or its line at the PIC.
LEMMA EnableOpens ==
  ASSUME IndInv, pc \in Late, NEW k \in Devices, EnableIRQ(k), UNCHANGED <<conf, SendEOI_handler>>
  PROVE  /\ ioapic' \in [GSIs -> RedirectEntries] /\ Lines' /\ UNCHANGED lapic
         /\ pic' \in Pics /\ pic'.isr = pic.isr
         /\ pic'.base1 = pic.base1 /\ pic'.base2 = pic.base2 /\ pic'.offset = pic.offset
         /\ pic'.mask = IF ACPI_Init THEN pic.mask ELSE pic.mask \ {k}
  <1> DEFINE s == conf.sources[k]
  <1>1. ioapic \in [GSIs -> RedirectEntries] /\ pic \in Pics /\ ACPI_Init \in BOOLEAN /\ k \in Irqs
    BY DEF IndInv, TypeOK, Pics, Devices
  <1>2. /\ ioapic' = IF ACPI_Init THEN IoapicRoute(Base, 0, s) ELSE ioapic
        /\ pic' = IF ACPI_Init THEN pic ELSE PIC_IRQ_clear_mask(k)
        /\ lapic' = lapic
    BY DEF EnableIRQ
  <1>3. /\ pic' \in Pics /\ pic'.isr = pic.isr
        /\ pic'.base1 = pic.base1 /\ pic'.base2 = pic.base2 /\ pic'.offset = pic.offset
        /\ pic'.mask = IF ACPI_Init THEN pic.mask ELSE pic.mask \ {k}
    BY <1>1, <1>2 DEF PIC_IRQ_clear_mask, Pics
  <1>4. CASE ACPI_Init
    <2>1. s \in Sources /\ SendEOI_handler = "LAPIC"
      <3>1. Readable /\ conf = ReadSystemConfig(fw.area) /\ fw \in Firmwares /\ SendEOI_handler = "LAPIC"
        BY <1>4, OneController
      <3>2. conf.sources \in SourceTables
        BY <3>1, ConfigRead
      <3>3. QED
        BY <1>1, <3>1, <3>2 DEF SourceTables
    <2>2. \A g \in GSIs : ioapic'[g] = IF g = Base + s.gsi THEN Redirection(0, s) ELSE ioapic[g]
      BY <1>2, <1>4 DEF IoapicRoute
    <2>3. ioapic' \in [GSIs -> RedirectEntries]
      <3>1. Redirection(0, s) \in RedirectEntries
        BY <2>1, Redirects
      <3> HIDE DEF s
      <3>2. QED
        BY <1>1, <1>2, <1>4, <3>1 DEF IoapicRoute
    <2>4. Lines'
      <3>1. Base' = Base /\ conf' = conf /\ SendEOI_handler' = "LAPIC"
        BY <2>1 DEF Base
      <3>2. ASSUME NEW g \in GSIs, ~ioapic'[g].masked
            PROVE  \E j \in Devices : g = Base + conf.sources[j].gsi /\ ioapic'[g] = Redirection(0, conf.sources[j])
        <4>1. CASE g = Base + s.gsi
          BY <2>2, <4>1
        <4>2. CASE g # Base + s.gsi
          BY <2>2, <3>2, <4>2 DEF IndInv, Lines
        <4>3. QED
          BY <4>1, <4>2
      <3>3. QED
        BY <3>1, <3>2 DEF Lines, Redirection
    <2>5. QED
      BY <1>2, <1>3, <2>3, <2>4
  <1>5. CASE ~ACPI_Init
    <2>1. Lines'
      BY <1>2, <1>5, KeepLines DEF IndInv
    <2>2. QED
      BY <1>1, <1>2, <1>3, <1>5, <2>1
  <1>6. QED
    BY <1>1, <1>4, <1>5

\* The line of the tick opened.
LEMMA EnableTickInv ==
  ASSUME IndInv, EnableTick
  PROVE  IndInv'
  <1> USE DEF IndInv
  <1>1. /\ UNCHANGED <<IF_flag, isr_table, SendEOI_handler, fw, driver, conf, ACPI_Init>>
        /\ pc = "enable_tick" /\ pc' = "ex_DoubleFault" /\ EnableIRQ(ISA_IRQ0_PIT)
    BY DEF EnableTick, Go, KeepBoot
  <1>2. pc \in Late /\ ISA_IRQ0_PIT \in Devices
    BY <1>1, AcpiAssumption DEF Late, ISA_IRQ0_PIT, Devices, CASCADE
  <1>3. /\ ioapic' \in [GSIs -> RedirectEntries] /\ Lines' /\ lapic' = lapic
        /\ pic' \in Pics /\ pic'.isr = pic.isr
        /\ pic'.base1 = pic.base1 /\ pic'.base2 = pic.base2 /\ pic'.offset = pic.offset
        /\ ACPI_Init => pic'.mask = pic.mask
    BY <1>1, <1>2, EnableOpens
  <1>4. TypeOK'
    BY <1>1, <1>3 DEF TypeOK, Pcs, Late, Pics
  <1>5. Controllers'
    BY <1>1, <1>3 DEF Controllers, Early, Late
  <1>6. Configured' /\ Requests'
    BY <1>1, <1>3, KeepConfigured, KeepRequests
  <1>7. Routine'
    BY <1>1, EarlyRoutine DEF Routine
  <1>8. NeverCallsNull' /\ NothingLeftInService'
    BY <1>1, <1>3, Harmless DEF NothingLeftInService
  <1>9. QED
    BY <1>3, <1>4, <1>5, <1>6, <1>7, <1>8

-----------------------------------------------------------------------------
(* The drivers. *)

\* A driver stores its routine.
LEMMA ClaimInv ==
  ASSUME IndInv, NEW k \in Drivers, Claim(k)
  PROVE  IndInv'
  <1> USE DEF IndInv
  <1>1. /\ UNCHANGED <<SendEOI_handler, pic, ioapic, lapic, fw, conf, ACPI_Init>>
        /\ pc = "main" /\ pc' = "main" /\ IF_flag' \in BOOLEAN
        /\ driver[k] = "away" /\ driver' = [driver EXCEPT ![k] = "installed"]
        /\ isr_table' = [isr_table EXCEPT ![HW_INT_START + k] = "driver"]
    BY DEF Claim, Driver, StoreIsr, controllers
  <1>2. k \in Irqs /\ Drivers \subseteq Irqs
    BY BootAssumption DEF Devices
  <1>3. isr_table' \in [Vectors -> Routines \cup {NULL}]
    BY <1>1 DEF TypeOK, Routines
  <1>4. TypeOK'
    BY <1>1, <1>3 DEF TypeOK
  <1>5. Controllers'
    BY <1>1 DEF Controllers, Early, Late
  <1>6. Configured' /\ Lines' /\ Requests'
    BY <1>1, KeepConfigured, KeepLines, KeepRequests
  <1>7. Routine'
    <2>1. isr_table'[HW_INT_START + k] # NULL
      BY <1>1, <1>2, VectorsKnown, InterruptsAssumption DEF TypeOK, Routines
    <2>2. ASSUME NEW v \in Vectors, isr_table'[v] = NULL
          PROVE  \E j \in Drivers : v = HW_INT_START + j /\ driver'[j] = "away" /\ (ACPI_Init' \/ j \in pic'.mask)
      <3>1. v # HW_INT_START + k /\ isr_table[v] = NULL
        BY <1>1, <2>1, <2>2 DEF TypeOK
      <3>2. PICK j \in Drivers : v = HW_INT_START + j /\ driver[j] = "away" /\ (ACPI_Init \/ j \in pic.mask)
        BY <3>1 DEF Routine
      <3>3. driver'[j] = "away"
        BY <1>1, <3>1, <3>2 DEF TypeOK
      <3>4. QED
        BY <1>1, <3>2, <3>3
    <2>3. \A j \in Drivers : driver'[j] = "disabled" => ACPI_Init' \/ j \in pic'.mask
      BY <1>1 DEF Routine, TypeOK
    <2>4. QED
      BY <1>1, <2>2, <2>3 DEF Routine
  <1>8. NeverCallsNull' /\ NothingLeftInService'
    BY <1>1, Harmless DEF NothingLeftInService
  <1>9. QED
    BY <1>4, <1>5, <1>6, <1>7, <1>8

\* It has its line opened.
LEMMA EnableInv ==
  ASSUME IndInv, NEW k \in Drivers, Enable(k)
  PROVE  IndInv'
  <1> USE DEF IndInv
  <1>1. /\ UNCHANGED <<IF_flag, isr_table, SendEOI_handler, fw, conf, ACPI_Init>>
        /\ pc = "main" /\ pc' = "main" /\ EnableIRQ(k)
        /\ driver[k] = "installed" /\ driver' = [driver EXCEPT ![k] = "enabled"]
    BY DEF Enable, Driver
  <1>2. pc \in Late /\ k \in Devices
    BY <1>1, BootAssumption DEF Late
  <1>3. /\ ioapic' \in [GSIs -> RedirectEntries] /\ Lines' /\ lapic' = lapic
        /\ pic' \in Pics /\ pic'.isr = pic.isr
        /\ pic'.base1 = pic.base1 /\ pic'.base2 = pic.base2 /\ pic'.offset = pic.offset
        /\ pic'.mask = IF ACPI_Init THEN pic.mask ELSE pic.mask \ {k}
    BY <1>1, <1>2, EnableOpens
  <1>4. TypeOK'
    BY <1>1, <1>3 DEF TypeOK, Pics
  <1>5. Controllers'
    BY <1>1, <1>3 DEF Controllers, Early, Late
  <1>6. Configured' /\ Requests'
    BY <1>1, <1>3, KeepConfigured, KeepRequests
  <1>7. Routine'
    <2>1. \A j \in Drivers : j # k => driver'[j] = driver[j] /\ (j \in pic.mask => j \in pic'.mask)
      BY <1>1, <1>3 DEF TypeOK
    <2>2. driver'[k] = "enabled"
      BY <1>1 DEF TypeOK
    <2>3. ASSUME NEW v \in Vectors, isr_table'[v] = NULL
          PROVE  \E j \in Drivers : v = HW_INT_START + j /\ driver'[j] = "away" /\ (ACPI_Init' \/ j \in pic'.mask)
      <3>1. PICK j \in Drivers : v = HW_INT_START + j /\ driver[j] = "away" /\ (ACPI_Init \/ j \in pic.mask)
        BY <1>1, <2>3 DEF Routine
      <3>2. j # k
        BY <1>1, <3>1
      <3>3. QED
        BY <1>1, <2>1, <3>1, <3>2
    <2>4. \A j \in Drivers : driver'[j] = "disabled" => ACPI_Init' \/ j \in pic'.mask
      BY <1>1, <2>1, <2>2 DEF Routine
    <2>5. QED
      BY <1>1, <2>3, <2>4 DEF Routine
  <1>8. NeverCallsNull' /\ NothingLeftInService'
    BY <1>1, <1>3, Harmless DEF NothingLeftInService
  <1>9. QED
    BY <1>3, <1>4, <1>5, <1>6, <1>7, <1>8

\* It has its line closed: at the PIC, or at whatever line of the IOAPIC that is.
LEMMA DisableInv ==
  ASSUME IndInv, NEW k \in Drivers, Disable(k)
  PROVE  IndInv'
  <1> USE DEF IndInv
  <1> DEFINE line == HW_INT_START + k
  <1>1. /\ UNCHANGED <<IF_flag, isr_table, SendEOI_handler, fw, conf, ACPI_Init, lapic>>
        /\ pc = "main" /\ pc' = "main"
        /\ driver[k] = "enabled" /\ driver' = [driver EXCEPT ![k] = "disabled"]
        /\ ioapic' = IF ACPI_Init THEN IoapicMask(Base, line) ELSE ioapic
        /\ pic' = IF ACPI_Init THEN pic ELSE PIC_IRQ_set_mask(k)
    BY DEF Disable, Driver, DisableIRQ
  <1>2. k \in Irqs /\ pic \in Pics /\ ioapic \in [GSIs -> RedirectEntries]
    BY BootAssumption DEF Devices, TypeOK, Pics
  <1>3. /\ pic' \in Pics /\ pic'.isr = pic.isr
        /\ pic'.base1 = pic.base1 /\ pic'.base2 = pic.base2 /\ pic'.offset = pic.offset
        /\ pic'.mask = IF ACPI_Init THEN pic.mask ELSE pic.mask \cup {k}
    BY <1>1, <1>2 DEF PIC_IRQ_set_mask, Pics
  <1> HIDE DEF line
  <1>4. /\ ioapic' \in [GSIs -> RedirectEntries]
        /\ \A g \in GSIs : ~ioapic'[g].masked => ioapic'[g] = ioapic[g]
    <2>1. \A e \in RedirectEntries : [e EXCEPT !.masked = TRUE] \in RedirectEntries /\ [e EXCEPT !.masked = TRUE].masked
      BY DEF RedirectEntries
    <2>2. CASE ACPI_Init
      BY <1>1, <1>2, <2>1, <2>2 DEF IoapicMask
    <2>3. CASE ~ACPI_Init
      BY <1>1, <1>2, <2>3
    <2>4. QED
      BY <2>2, <2>3
  <1>5. TypeOK'
    BY <1>1, <1>3, <1>4 DEF TypeOK, Pics
  <1>6. Controllers'
    BY <1>1, <1>3 DEF Controllers, Early, Late
  <1>7. Configured' /\ Requests'
    BY <1>1, KeepConfigured, KeepRequests
  <1>8. Lines'
    BY <1>1, <1>4 DEF Lines, Base, Redirection
  <1>9. Routine'
    <2>1. \A j \in Drivers : (j # k => driver'[j] = driver[j]) /\ (j \in pic.mask => j \in pic'.mask)
      BY <1>1, <1>3 DEF TypeOK
    <2>2. ASSUME NEW v \in Vectors, isr_table'[v] = NULL
          PROVE  \E j \in Drivers : v = HW_INT_START + j /\ driver'[j] = "away" /\ (ACPI_Init' \/ j \in pic'.mask)
      <3>1. PICK j \in Drivers : v = HW_INT_START + j /\ driver[j] = "away" /\ (ACPI_Init \/ j \in pic.mask)
        BY <1>1, <2>2 DEF Routine
      <3>2. j # k
        BY <1>1, <3>1
      <3>3. QED
        BY <1>1, <2>1, <3>1, <3>2
    <2>3. ACPI_Init' \/ k \in pic'.mask
      BY <1>1, <1>3
    <2>4. \A j \in Drivers : driver'[j] = "disabled" => ACPI_Init' \/ j \in pic'.mask
      BY <1>1, <2>1, <2>3 DEF Routine
    <2>5. QED
      BY <1>1, <2>2, <2>4 DEF Routine
  <1>10. NeverCallsNull' /\ NothingLeftInService'
    BY <1>1, <1>3, Harmless DEF NothingLeftInService
  <1>11. QED
    BY <1>5, <1>6, <1>7, <1>8, <1>9, <1>10

\* It takes its routine away, after it had the line closed.
LEMMA ReleaseInv ==
  ASSUME IndInv, NEW k \in Drivers, Release(k)
  PROVE  IndInv'
  <1> USE DEF IndInv
  <1>1. /\ UNCHANGED <<SendEOI_handler, pic, ioapic, lapic, fw, conf, ACPI_Init>>
        /\ pc = "main" /\ pc' = "main" /\ IF_flag' \in BOOLEAN
        /\ driver[k] = "disabled" /\ driver' = [driver EXCEPT ![k] = "away"]
        /\ isr_table' = [isr_table EXCEPT ![HW_INT_START + k] = NULL]
    BY DEF Release, Driver, StoreIsr, controllers
  <1>2. isr_table' \in [Vectors -> Routines \cup {NULL}]
    BY <1>1 DEF TypeOK
  <1>3. TypeOK'
    BY <1>1, <1>2 DEF TypeOK
  <1>4. Controllers'
    BY <1>1 DEF Controllers, Early, Late
  <1>5. Configured' /\ Lines' /\ Requests'
    BY <1>1, KeepConfigured, KeepLines, KeepRequests
  <1>6. Routine'
    <2>1. ACPI_Init \/ k \in pic.mask
      BY <1>1 DEF Routine
    <2>2. driver'[k] = "away" /\ \A j \in Drivers : j # k => driver'[j] = driver[j]
      BY <1>1 DEF TypeOK
    <2>3. ASSUME NEW v \in Vectors, isr_table'[v] = NULL
          PROVE  \E j \in Drivers : v = HW_INT_START + j /\ driver'[j] = "away" /\ (ACPI_Init' \/ j \in pic'.mask)
      <3>1. CASE v = HW_INT_START + k
        BY <1>1, <2>1, <2>2, <3>1
      <3>2. CASE v # HW_INT_START + k
        <4>1. isr_table[v] = NULL
          BY <1>1, <2>3, <3>2 DEF TypeOK
        <4>2. PICK j \in Drivers : v = HW_INT_START + j /\ driver[j] = "away" /\ (ACPI_Init \/ j \in pic.mask)
          BY <4>1 DEF Routine
        <4>3. QED
          BY <1>1, <2>2, <3>2, <4>2
      <3>3. QED
        BY <3>1, <3>2
    <2>4. \A j \in Drivers : driver'[j] = "disabled" => ACPI_Init' \/ j \in pic'.mask
      BY <1>1, <2>2 DEF Routine
    <2>5. QED
      BY <1>1, <2>3, <2>4 DEF Routine
  <1>7. NeverCallsNull' /\ NothingLeftInService'
    BY <1>1, Harmless DEF NothingLeftInService
  <1>8. QED
    BY <1>3, <1>4, <1>5, <1>6, <1>7

-----------------------------------------------------------------------------
(* The interrupts. *)

\* An open line passes on the vector of the device that is wired to it.
LEMMA PassedOn ==
  ASSUME IndInv, NEW k \in Devices, Wire(k) \in GSIs, ~ioapic[Wire(k)].masked
  PROVE  \E j \in Devices : /\ ioapic[Wire(k)] = Redirection(0, conf.sources[j])
                            /\ ioapic[Wire(k)].vector = HW_INT_START + j
                            /\ FirstIoapicAtZero => j = k
  <1>1. SendEOI_handler = "LAPIC" /\ fw \in Firmwares
    BY DEF IndInv, TypeOK, Lines
  <1>2. PICK j \in Devices : Wire(k) = Base + conf.sources[j].gsi /\ ioapic[Wire(k)] = Redirection(0, conf.sources[j])
    BY DEF IndInv, Lines
  <1>3. Readable /\ Len(conf.IOAPICs) > 0 /\ conf = ReadSystemConfig(fw.area)
    <2>1. pc # "config"
      BY <1>1, InterruptsAssumption DEF IndInv, Controllers, Early, EoiHandlers
    <2>2. QED
      BY <1>1, <2>1 DEF IndInv, Configured
  <1>4. j \in Irqs /\ k \in Irqs
    BY DEF Devices
  <1>5. conf.sources \in SourceTables /\ conf.sources[j].vector = HW_INT_START + j /\ conf.sources[j].gsi = Wire(j)
    BY <1>1, <1>3, <1>4, ConfigRead
  <1>6. conf.sources[j] \in Sources
    BY <1>4, <1>5 DEF SourceTables
  <1>7. ioapic[Wire(k)].vector = HW_INT_START + j
    BY <1>2, <1>5, <1>6, Redirects
  <1>8. FirstIoapicAtZero => j = k
    <2>1. HAVE FirstIoapicAtZero
    <2>2. Base = 0
      <3>1. conf.IOAPICs # <<>>
        BY <1>3
      <3>2. QED
        BY <2>1, <3>1 DEF FirstIoapicAtZero
    <2>3. Wire(j) \in Nat
      BY <1>5, <1>6 DEF Sources
    <2>4. Wire(k) = Wire(j)
      BY <1>2, <1>5, <2>2, <2>3
    <2>5. QED
      BY <1>1, <2>4, BootAssumption DEF Wire
  <1>9. QED
    BY <1>2, <1>7, <1>8

\* A device raises its line.
LEMMA RaiseInv ==
  ASSUME IndInv, NEW k \in Devices, Raise(k)
  PROVE  IndInv'
  <1> USE DEF IndInv
  <1> DEFINE r == [vector |-> ioapic[Wire(k)].vector, irq |-> k]
             passes == lapic.on /\ Wire(k) \in GSIs /\ ~ioapic[Wire(k)].masked /\ ioapic[Wire(k)].dest = fw.bsp
  <1>1. /\ UNCHANGED <<IF_flag, isr_table, SendEOI_handler, ioapic, pc, fw, conf, ACPI_Init, driver>>
        /\ pc \notin {"config", "stopped", "null", "fault"}
        /\ pic' = [pic EXCEPT !.irr = @ \cup {k}]
        /\ lapic' = IF passes THEN [lapic EXCEPT !.irr = @ \cup {r}] ELSE lapic
    BY DEF Raise, Raised, Running
  <1>2. k \in Irqs /\ pic \in Pics /\ lapic \in Lapics /\ pic.isr = {} /\ lapic.isr = {}
    BY <1>1 DEF Devices, TypeOK, Pics, Lapics, NothingLeftInService
  <1>3. /\ pic' \in Pics /\ pic'.isr = {} /\ pic'.mask = pic.mask
        /\ pic'.base1 = pic.base1 /\ pic'.base2 = pic.base2 /\ pic'.offset = pic.offset
    BY <1>1, <1>2 DEF Pics
  <1>4. passes => \E j \in Devices : r.vector = HW_INT_START + j /\ (FirstIoapicAtZero => r.irq = j)
    BY PassedOn
  <1>5. passes => r \in [vector : Nat, irq : Irqs]
    <2>1. \A j \in Devices : HW_INT_START + j \in Nat
      BY VectorsKnown DEF Devices
    <2>2. QED
      BY <1>2, <1>4, <2>1
  <1> HIDE DEF r
  <1>6. lapic' \in Lapics /\ lapic'.isr = {} /\ lapic'.on = lapic.on
    BY <1>1, <1>2, <1>5 DEF Lapics
  <1>7. TypeOK'
    BY <1>1, <1>3, <1>6 DEF TypeOK, Pics, Lapics
  <1>8. Controllers'
    BY <1>1, <1>3, <1>6 DEF Controllers
  <1>9. Configured' /\ Lines' /\ Routine'
    BY <1>1, <1>3, KeepConfigured, KeepLines, KeepRoutine
  <1>10. Requests'
    <2>1. FirstIoapicAtZero' = FirstIoapicAtZero
      BY <1>1 DEF FirstIoapicAtZero, Base
    <2>2. \A q \in lapic'.irr : q \in lapic.irr \/ (passes /\ q = r)
      BY <1>1, <1>2 DEF Lapics
    <2>3. \A q \in lapic'.irr : lapic.on
      BY <2>2 DEF Requests
    <2>4. ASSUME NEW q \in lapic'.irr
          PROVE  \E j \in Devices : q.vector = HW_INT_START + j /\ (FirstIoapicAtZero => q.irq = j)
      <3>1. CASE q \in lapic.irr
        BY <3>1 DEF Requests
      <3>2. CASE passes /\ q = r
        BY <1>4, <3>2
      <3>3. QED
        BY <2>2, <3>1, <3>2
    <2>5. QED
      BY <1>6, <2>1, <2>3, <2>4 DEF Requests
  <1>11. NeverCallsNull' /\ NothingLeftInService'
    BY <1>1, <1>3, <1>6, Harmless
  <1>12. QED
    BY <1>7, <1>8, <1>9, <1>10, <1>11

\* A stub that acknowledges what was taken, or jumps through NULL for want of the
\* routine of a driver.
LEMMA StubInv ==
  ASSUME IndInv, Running, NEW v \in Nat, NEW p \in Pics, NEW l \in Lapics, Stub(v, p, l),
         p.mask = pic.mask, p.base1 = pic.base1, p.base2 = pic.base2, p.offset = pic.offset,
         l.on = lapic.on, l.irr \subseteq lapic.irr,
         CallsNull(v) => ACPI_Init /\ \E k \in Drivers : isr_table[HW_INT_START + k] = NULL,
         ~CallsNull(v) => IF NeedsEOI(v) /\ SendEOI_handler = "PIC" THEN PIC_SendEOI(p, v).isr = {} ELSE p.isr = {},
         ~CallsNull(v) => IF NeedsEOI(v) /\ SendEOI_handler = "LAPIC" THEN LAPIC_Send_EOI(l).isr = {} ELSE l.isr = {}
  PROVE  IndInv'
  <1> USE DEF IndInv
  <1>1. /\ UNCHANGED <<IF_flag, isr_table, SendEOI_handler, ioapic, fw, conf, ACPI_Init, driver>>
        /\ pc \notin {"config", "stopped", "null", "fault"}
        /\ CallsNull(v) => pc' = "null" /\ pic' = p /\ lapic' = l
        /\ ~CallsNull(v) => Acknowledged(v, p, l) /\ pc' = pc
    BY DEF Stub, Running
  <1>2. /\ pic' \in Pics /\ pic'.mask = pic.mask
        /\ pic'.base1 = pic.base1 /\ pic'.base2 = pic.base2 /\ pic'.offset = pic.offset
    BY <1>1, SendsEoi DEF Acknowledged
  <1>3. lapic' \in Lapics /\ lapic'.on = lapic.on /\ lapic'.irr \subseteq lapic.irr
    BY <1>1, LapicEoi DEF Acknowledged
  <1>4. TypeOK'
    BY <1>1, <1>2, <1>3 DEF TypeOK, Pics, Lapics, Pcs
  <1>5. Controllers'
    BY <1>1, <1>2, <1>3 DEF Controllers, Early, Late
  <1>6. Configured' /\ Lines'
    BY <1>1, KeepConfigured, KeepLines
  <1>7. Routine'
    BY <1>1, <1>2, KeepRoutine
  <1>8. Requests'
    <2>1. FirstIoapicAtZero' = FirstIoapicAtZero
      BY <1>1 DEF FirstIoapicAtZero, Base
    <2>2. QED
      BY <1>3, <2>1 DEF Requests
  <1>9. NeverCallsNull' /\ NothingLeftInService'
    <2>1. CASE CallsNull(v)
      BY <1>1, <2>1 DEF NeverCallsNull, NothingLeftInService
    <2>2. CASE ~CallsNull(v)
      <3>1. pic'.isr = {} /\ lapic'.isr = {}
        BY <1>1, <2>2 DEF Acknowledged
      <3>2. pc' # "null"
        BY <1>1, <2>2
      <3>3. QED
        BY <3>1, <3>2, Harmless
    <2>3. QED
      BY <2>1, <2>2
  <1>10. QED
    BY <1>4, <1>5, <1>6, <1>7, <1>8, <1>9

\* What the PICs hand to the core with interrupts enabled comes in at the vector of its
\* device, after the PICs were remapped.
LEMMA FromPic ==
  ASSUME IndInv, Running, IF_flag, NEW k \in PicReady
  PROVE  /\ pc \in Late /\ ~ACPI_Init /\ SendEOI_handler = "PIC" /\ SendEOI_handler # NULL
         /\ k \in Irqs /\ k \notin pic.mask
         /\ PicVector(k) = HW_INT_START + k /\ pic.offset = HW_INT_START
  <1>1. pic \in Pics
    BY DEF IndInv, TypeOK, Pics
  <1>2. k \in Irqs /\ k \notin pic.mask
    BY <1>1 DEF PicReady, Pics
  <1>3. pc \notin Early \cup {"map", "remap"} /\ pc \notin {"map", "eoi"} /\ SendEOI_handler # "LAPIC"
    BY <1>2 DEF IndInv, Controllers
  <1>4. pc # "lapic"
    BY <1>3 DEF IndInv, Controllers
  <1>5. pc \in Late
    BY <1>3, <1>4 DEF IndInv, TypeOK, Pcs, Running
  <1>6. /\ ~ACPI_Init /\ SendEOI_handler = "PIC" /\ SendEOI_handler # NULL
        /\ pic.base1 = HW_INT_START /\ pic.base2 = HW_INT_START + PIC1_LINES /\ pic.offset = HW_INT_START
    BY <1>3, <1>5, OneController
  <1>7. PicVector(k) = HW_INT_START + k
    <2>1. k \in Nat /\ HW_INT_START \in Nat
      BY <1>2, Numbers
    <2>2. QED
      BY <1>6, <2>1 DEF PicVector, PIC1_LINES
  <1>8. QED
    BY <1>2, <1>5, <1>6, <1>7

\* An interrupt of the PICs.
LEMMA TakePicInv ==
  ASSUME IndInv, NEW k \in Devices, TakePic(k)
  PROVE  IndInv'
  <1> DEFINE v == HW_INT_START + k
  <1>1. Running /\ IF_flag /\ k \in PicReady /\ Stub(PicVector(k), PicTaken(k), lapic)
    BY DEF TakePic
  <1>2. /\ pc \in Late /\ ~ACPI_Init /\ SendEOI_handler = "PIC" /\ SendEOI_handler # NULL
        /\ k \in Irqs /\ k \notin pic.mask /\ PicVector(k) = v /\ pic.offset = HW_INT_START
    BY <1>1, FromPic
  <1>3. v \in Vectors /\ v \in Nat /\ NeedsEOI(v)
    BY <1>2, VectorsKnown DEF NeedsEOI
  <1>4. pic \in Pics /\ lapic \in Lapics /\ pic.isr = {} /\ lapic.isr = {}
    BY <1>1 DEF IndInv, TypeOK, Pics, Lapics, NothingLeftInService, Running
  <1>5. ~CallsNull(v)
    <2>1. isr_table[v] # NULL
      <3>1. SUFFICES ASSUME isr_table[v] = NULL
                     PROVE  FALSE
        OBVIOUS
      <3>2. PICK j \in Drivers : v = HW_INT_START + j /\ j \in pic.mask
        BY <1>2, <1>3, <3>1 DEF IndInv, Routine
      <3>3. j \in Irqs
        BY BootAssumption DEF Devices
      <3>4. j = k
        BY <1>2, <3>2, <3>3, VectorsKnown
      <3>5. QED
        BY <1>2, <3>2, <3>4
    <2>2. QED
      BY <1>2, <2>1 DEF CallsNull
  <1>6. /\ PicTaken(k) \in Pics /\ PIC_SendEOI(PicTaken(k), v).isr = {}
        /\ PicTaken(k).mask = pic.mask /\ PicTaken(k).base1 = pic.base1 /\ PicTaken(k).base2 = pic.base2
        /\ PicTaken(k).offset = pic.offset
    BY <1>2, <1>4, PicAcknowledges
  <1> HIDE DEF v
  <1>7. Stub(v, PicTaken(k), lapic)
    BY <1>1, <1>2
  <1>8. SendEOI_handler # "LAPIC"
    BY <1>2
  <1>9. QED
    BY <1>1, <1>2, <1>3, <1>4, <1>5, <1>6, <1>7, <1>8, StubInv

\* An interrupt of the LAPIC.
LEMMA TakeLapicInv ==
  ASSUME IndInv, NEW k \in Devices, TakeLapic(k)
  PROVE  IndInv'
  <1>1. PICK r \in LapicReady : Running /\ Stub(r.vector, pic, LapicTaken(r))
    BY DEF TakeLapic
  <1> DEFINE v == r.vector
             l == LapicTaken(r)
  <1>2. pic \in Pics /\ lapic \in Lapics /\ pic.isr = {} /\ lapic.isr = {} /\ r \in lapic.irr
    BY <1>1 DEF IndInv, TypeOK, Pics, Lapics, NothingLeftInService, Running, LapicReady
  <1>3. PICK j \in Devices : v = HW_INT_START + j
    BY <1>2 DEF IndInv, Requests
  <1>4. v \in Vectors /\ v \in Nat /\ NeedsEOI(v)
    BY <1>3, VectorsKnown DEF NeedsEOI, Devices
  <1>5. SendEOI_handler = "LAPIC" /\ SendEOI_handler # "PIC" /\ SendEOI_handler # NULL /\ ACPI_Init
    BY <1>2, InterruptsAssumption DEF IndInv, Requests, Controllers, EoiHandlers
  <1>6. CallsNull(v) => ACPI_Init /\ \E i \in Drivers : isr_table[HW_INT_START + i] = NULL
    BY <1>4, <1>5 DEF CallsNull, IndInv, Routine
  <1>7. l \in Lapics /\ l.on = lapic.on /\ l.irr \subseteq lapic.irr /\ l.isr = {v}
    BY <1>2, <1>4 DEF LapicTaken, Lapics
  <1> HIDE DEF v, l
  <1>8. LAPIC_Send_EOI(l).isr = {}
    BY <1>4, <1>7, LapicEoi
  <1>9. Stub(v, pic, l)
    BY <1>1 DEF v, l
  <1>10. QED
    BY <1>1, <1>2, <1>4, <1>5, <1>6, <1>7, <1>8, <1>9, StubInv

\* An exception that returns, or a NMI: there is no request to acknowledge.
LEMMA ExceptionTaken ==
  ASSUME IndInv, Running, NEW v \in {NMI, BREAKPOINT}, ~CallsNull(v), Stub(v, pic, lapic)
  PROVE  IndInv'
  <1>1. pic \in Pics /\ lapic \in Lapics /\ pic.isr = {} /\ lapic.isr = {} /\ v \in Nat
    BY VectorsKnown DEF IndInv, TypeOK, Pics, Lapics, NothingLeftInService, Running
  <1>2. PIC_SendEOI(pic, v).isr = {} /\ LAPIC_Send_EOI(lapic).isr = {}
    BY <1>1, SendsEoi, LapicEoi
  <1>3. QED
    BY <1>1, <1>2, StubInv

\* A NMI.
LEMMA TakeNmiInv ==
  ASSUME IndInv, TakeNmi
  PROVE  IndInv'
  <1>1. NMI \in Vectors /\ \A k \in Drivers : NMI # HW_INT_START + k
    BY VectorsKnown, BootAssumption DEF Devices
  <1>2. ~CallsNull(NMI)
    BY <1>1 DEF CallsNull, NeedsEOI, IndInv, Routine
  <1>3. QED
    BY <1>2, ExceptionTaken DEF TakeNmi

\* An exception of the kernel.
LEMMA FaultInv ==
  ASSUME IndInv, NEW v \in {BREAKPOINT, PAGE_FAULT}, Fault(v)
  PROVE  IndInv'
  <1>1. CASE PushesErrorCode(v) \/ CallsNull(v)
    <2> USE DEF IndInv
    <2>1. /\ UNCHANGED <<IF_flag, isr_table, SendEOI_handler, pic, ioapic, lapic, fw, conf, ACPI_Init, driver>>
          /\ pc' = "fault" /\ pc \notin {"config", "stopped", "null", "fault"}
      BY <1>1 DEF Fault, intVars, Running
    <2>2. TypeOK'
      BY <2>1 DEF TypeOK, Pcs
    <2>3. Controllers'
      BY <2>1 DEF Controllers, Early, Late
    <2>4. Configured' /\ Lines' /\ Requests' /\ Routine'
      BY <2>1, KeepConfigured, KeepLines, KeepRequests, KeepRoutine
    <2>5. NeverCallsNull' /\ NothingLeftInService'
      BY <2>1, Harmless DEF NothingLeftInService
    <2>6. QED
      BY <2>2, <2>3, <2>4, <2>5
  <1>2. CASE ~(PushesErrorCode(v) \/ CallsNull(v))
    <2>1. v = BREAKPOINT
      BY <1>2 DEF PushesErrorCode, PAGE_FAULT
    <2>2. Running /\ Stub(v, pic, lapic) /\ ~CallsNull(v)
      BY <1>2 DEF Fault
    <2>3. QED
      BY <2>1, <2>2, ExceptionTaken
  <1>3. QED
    BY <1>1, <1>2

-----------------------------------------------------------------------------
(* The theorems. *)

\* The invariant holds when the processor enters _start.
LEMMA InitInv ==
  Init => IndInv
  <1> SUFFICES ASSUME Init
               PROVE  IndInv
    OBVIOUS
  <1>1. /\ pc = "config" /\ fw \in Firmwares /\ IF_flag = FALSE /\ ACPI_Init = FALSE /\ conf = NoConf
        /\ isr_table = [v \in Vectors |-> "nopIsr"] /\ SendEOI_handler = NULL
        /\ pic = [base1 |-> 8, base2 |-> 112, offset |-> 0, mask |-> fw.mask, irr |-> {}, isr |-> {}]
        /\ ioapic = [g \in GSIs |-> ResetEntry] /\ lapic = [on |-> FALSE, irr |-> {}, isr |-> {}]
        /\ driver = [k \in Drivers |-> "away"]
    BY DEF Init, InitInterrupts, BIOS_BASE1, BIOS_BASE2
  <1>2. SendEOI_handler # "LAPIC" /\ SendEOI_handler # "PIC"
    BY <1>1, InterruptsAssumption DEF EoiHandlers
  <1>3. fw.mask \in SUBSET Irqs
    BY <1>1, BootAssumption DEF Machines
  <1>4. pic \in Pics /\ lapic \in Lapics
    BY <1>1, <1>3 DEF Pics, Lapics
  <1>5. ResetEntry \in RedirectEntries /\ ResetEntry.masked
    BY DEF ResetEntry, RedirectEntries
  <1>6. \A v \in Vectors : isr_table[v] \in Routines /\ isr_table[v] # NULL
    BY <1>1, InterruptsAssumption DEF Routines
  <1>7. isr_table \in [Vectors -> Routines \cup {NULL}]
    BY <1>1 DEF Routines
  <1>8. TypeOK
    BY <1>1, <1>4, <1>5, <1>7 DEF TypeOK, Pcs, Early, Pics, Lapics
  <1>9. Controllers
    BY <1>1, <1>2 DEF Controllers, Early, Late
  <1>10. Configured
    BY <1>1, <1>2 DEF Configured
  <1>11. Lines
    BY <1>1, <1>5 DEF Lines
  <1>12. Requests
    BY <1>1 DEF Requests
  <1>13. Routine
    BY <1>1, <1>6 DEF Routine
  <1>14. NeverCallsNull /\ NothingLeftInService
    BY <1>1 DEF NeverCallsNull, NothingLeftInService
  <1>15. QED
    BY <1>8, <1>9, <1>10, <1>11, <1>12, <1>13, <1>14 DEF IndInv

\* A step of the boot keeps the invariant.
LEMMA BootStepInv ==
  ASSUME IndInv, BootStep
  PROVE  IndInv'
  <1>1. CASE SetSysTimerFrequency \/ InitMicroTimer \/ InitAPs \/ MainLoop
    <2>1. UNCHANGED <<intVars, fw, conf, ACPI_Init, driver>>
      BY <1>1 DEF SetSysTimerFrequency, InitMicroTimer, InitAPs, MainLoop, Go
    <2>2. \/ pc = "frequency" /\ pc' = "init_sys"
          \/ pc = "micro_timer" /\ pc' = "init_aps"
          \/ pc = "init_aps" /\ pc' = "init_aps"
          \/ pc = "init_aps" /\ pc' = "main"
          \/ pc = "main" /\ pc' = "main"
      BY <1>1 DEF SetSysTimerFrequency, InitMicroTimer, InitAPs, MainLoop, Go
    <2>3. QED
      BY <2>1, <2>2, PlainInv
  <1>2. QED
    BY <1>1, ConfigInv, TablesInv, StdioInv, DisablePicInv, MapInv, SetLapicEoiInv, LapicEnableInv,
       SetPicEoiInv, RemapInv, SysTickInv, EnableTickInv, ExceptionInv DEF BootStep

\* And so does any other.
LEMMA NextInv ==
  IndInv /\ [Next]_vars => IndInv'
  <1> SUFFICES ASSUME IndInv, [Next]_vars
               PROVE  IndInv'
    OBVIOUS
  <1>1. CASE BootStep
    BY <1>1, BootStepInv
  <1>2. ASSUME NEW k \in Drivers, Claim(k) \/ Enable(k) \/ Disable(k) \/ Release(k)
        PROVE  IndInv'
    BY <1>2, ClaimInv, EnableInv, DisableInv, ReleaseInv
  <1>3. ASSUME NEW k \in Devices, Raise(k) \/ TakePic(k) \/ TakeLapic(k)
        PROVE  IndInv'
    BY <1>3, RaiseInv, TakePicInv, TakeLapicInv
  <1>4. CASE TakeNmi
    BY <1>4, TakeNmiInv
  <1>5. ASSUME NEW v \in {BREAKPOINT, PAGE_FAULT}, Fault(v)
        PROVE  IndInv'
    BY <1>5, FaultInv
  <1>6. CASE UNCHANGED vars
    BY <1>6 DEF vars, intVars, bootVars, IndInv, TypeOK, Controllers, Configured, Readable, Lines,
       Base, Redirection, Requests, FirstIoapicAtZero, Routine, NeverCallsNull, NothingLeftInService
  <1>7. QED
    BY <1>1, <1>2, <1>3, <1>4, <1>5, <1>6 DEF Next

\* The invariant holds throughout.
LEMMA AlwaysIndInv ==
  Spec => []IndInv
  BY InitInv, NextInv, PTL DEF Spec

\* No interrupt enters the kernel through NULL, but that of a driver that released its
\* routine with the IOAPIC in use: the order of the steps of InitSys and the order in
\* which a driver uses interrupts.c suffice, on every machine.
THEOREM NoNullRoutine ==
  Spec => []NeverCallsNull
  <1>1. IndInv => NeverCallsNull
    BY DEF IndInv
  <1>2. QED
    BY <1>1, AlwaysIndInv, PTL

\* Every interrupt taken is acknowledged at the controller it came from, by the EOI
\* handler that InitSys chose.
THEOREM AllAcknowledged ==
  Spec => []NothingLeftInService
  <1>1. IndInv => NothingLeftInService
    BY DEF IndInv
  <1>2. QED
    BY <1>1, AlwaysIndInv, PTL

\* Interrupts come in at the vectors their routines are installed for, through the
\* remapped PICs or the lines of the IOAPIC as the overrides of the MADT route them.
THEOREM VectorsAgree ==
  Spec => []EntersAsInstalled
  <1>1. ASSUME IndInv
        PROVE  EntersAsInstalled
    <2>1. SUFFICES ASSUME IF_flag, Running, FirstIoapicAtZero
                   PROVE  /\ \A k \in PicReady : PicVector(k) = HW_INT_START + k
                          /\ \A r \in LapicReady : r.vector = HW_INT_START + r.irq
      BY DEF EntersAsInstalled
    <2>2. \A k \in PicReady : PicVector(k) = HW_INT_START + k
      BY <1>1, <2>1, FromPic
    <2>3. ASSUME NEW r \in LapicReady
          PROVE  r.vector = HW_INT_START + r.irq
      <3>1. r \in lapic.irr
        BY DEF LapicReady
      <3>2. PICK k \in Devices : r.vector = HW_INT_START + k /\ (FirstIoapicAtZero => r.irq = k)
        BY <1>1, <3>1 DEF IndInv, Requests
      <3>3. QED
        BY <2>1, <3>2
    <2>4. QED
      BY <2>2, <2>3
  <1>2. QED
    BY <1>1, AlwaysIndInv, PTL

\* The flags of an interrupt are four bits.
LEMMA FlagsTyped ==
  ASSUME fw \in Firmwares, NEW k \in Irqs
  PROVE  FirmwareFlags(k) \in 0 .. 15
  <1> DEFINE rs == fw.madt.records
             os == {n \in DOMAIN rs : rs[n].type = "INT_OVER" /\ rs[n].irq = k}
             i == CHOOSE n \in os : \A m \in os : m <= n
  <1>1. rs \in Seq(MadtRecords)
    BY BootAssumption DEF Machines, Madts
  <1>2. DOMAIN rs = 1 .. Len(rs) /\ Len(rs) \in Nat
    BY <1>1
  <1>3. FirmwareFlags(k) = IF os = {} THEN 0 ELSE rs[i].flags
    BY DEF FirmwareFlags
  <1>4. os # {} => i \in os
    <2>1. HAVE os # {}
    <2>2. os \in SUBSET (1 .. Len(rs))
      BY <1>2
    <2>3. \E n \in os : \A m \in os : m <= n
      BY <1>2, <2>1, <2>2, Latest
    <2>4. QED
      BY <2>3, Zenon
  <1>5. os # {} => rs[i].flags \in 0 .. 15
    <2>1. HAVE os # {}
    <2>2. i \in 1 .. Len(rs) /\ rs[i].type = "INT_OVER"
      BY <1>2, <1>4, <2>1
    <2> HIDE DEF i, os
    <2>3. rs[i] \in MadtRecords
      BY <1>1, <1>2, <2>2
    <2>4. rs[i] \in Overs
      BY <2>2, <2>3, Kinds
    <2>5. QED
      BY <2>4 DEF Overs
  <1> HIDE DEF i, os
  <1>6. QED
    BY <1>3, <1>5

\* The low bit of a two-bit field that is not 01 tells the other values apart.
LEMMA LowBit ==
  ASSUME NEW f \in 0 .. 15
  PROVE  /\ f \div 4 # 1 => (((f \div 4) % 2 = 1) = (f \div 4 = 3))
         /\ f % 4 # 1 => (((f % 4) % 2 = 1) = (f % 4 = 3))
  <1>1. f \div 4 \in 0 .. 3 /\ f % 4 \in 0 .. 3
    OBVIOUS
  <1>2. \A b \in 0 .. 3 : b # 1 => ((b % 2 = 1) = (b = 3))
    <2>1. 0 % 2 = 0 /\ 2 % 2 = 0 /\ 3 % 2 = 1
      OBVIOUS
    <2>2. QED
      BY <2>1
  <1>3. QED
    BY <1>1, <1>2

\* An open line triggers as the flags of the MADT say, unless they name edge or active
\* high outright or a LAPIC NMI was misread for the line.
THEOREM LinesAsTold ==
  Spec => []TriggersAsToldUnlessExplicit
  <1>1. ASSUME IndInv
        PROVE  TriggersAsToldUnlessExplicit
    <2>1. SUFFICES ASSUME NEW k \in Devices, Wire(k) \in GSIs, FirstIoapicAtZero, ~HasLapicNmi,
                          ~ioapic[Wire(k)].masked
                   PROVE  LET e == ioapic[Wire(k)]
                              f == FirmwareFlags(k)
                          IN  /\ f \div 4 # 1 => e.level = (f \div 4 = 3)
                              /\ f % 4 # 1 => e.low = (f % 4 = 3)
      BY DEF TriggersAsToldUnlessExplicit
    <2>2. ioapic[Wire(k)] = Redirection(0, conf.sources[k])
      BY <1>1, <2>1, PassedOn
    <2>3. SendEOI_handler = "LAPIC" /\ fw \in Firmwares /\ k \in Irqs
      BY <1>1, <2>1 DEF IndInv, TypeOK, Lines, Devices
    <2>4. Readable /\ conf = ReadSystemConfig(fw.area)
      <3>1. pc # "config"
        BY <1>1, <2>3, InterruptsAssumption DEF IndInv, Controllers, Early, EoiHandlers
      <3>2. QED
        BY <1>1, <2>3, <3>1 DEF IndInv, Configured
    <2> DEFINE s == conf.sources[k]
               f == FirmwareFlags(k)
    <2>5. /\ conf.sources \in SourceTables
          /\ s.trigger = f \div 4 /\ s.polarity = f % 4
      BY <2>1, <2>3, <2>4, ConfigRead
    <2>6. s \in Sources
      BY <2>3, <2>5 DEF SourceTables
    <2> HIDE DEF s, f
    <2>7. ioapic[Wire(k)].level = ((f \div 4) % 2 = 1) /\ ioapic[Wire(k)].low = ((f % 4) % 2 = 1)
      BY <2>2, <2>5, <2>6, Redirects DEF s
    <2>8. f \in 0 .. 15
      BY <2>3, FlagsTyped DEF f
    <2>9. /\ f \div 4 # 1 => ioapic[Wire(k)].level = (f \div 4 = 3)
          /\ f % 4 # 1 => ioapic[Wire(k)].low = (f % 4 = 3)
      BY <2>7, <2>8, LowBit
    <2>10. QED
      BY <2>9 DEF f
  <1>2. QED
    BY <1>1, AlwaysIndInv, PTL

\* What ReadSystemConfig makes of a MADT it can read is the machine the MADT describes,
\* whatever its records and their order are.
THEOREM ConfigFaithful ==
  Spec => []ConfIsTheMachine
  <1>1. ASSUME IndInv
        PROVE  ConfIsTheMachine
    <2> DEFINE rs == fw.madt.records
               us == Usable(rs, Len(rs))
               ms == Moves(rs, Len(rs))
               i == CHOOSE n \in ms : \A m \in ms : m <= n
    <2>1. SUFFICES ASSUME pc # "config", Readable
                   PROVE  ConfIsTheMachine
      BY DEF ConfIsTheMachine
    <2>2. fw \in Firmwares /\ conf = ReadSystemConfig(fw.area)
      BY <1>1, <2>1 DEF IndInv, TypeOK, Configured
    <2>3. rs \in Seq(MadtRecords)
      BY <2>2, BootAssumption DEF Machines, Madts
    <2>4. /\ DOMAIN rs = 1 .. Len(rs) /\ Len(rs) \in Nat
          /\ us = {n \in DOMAIN rs : rs[n].type = "LAPIC" /\ (rs[n].enabled \/ rs[n].onlineCapable)}
          /\ ms = {n \in DOMAIN rs : rs[n].type = "ADDR_OVER"}
      BY <2>3 DEF Usable, Moves
    <2>5. /\ \A k \in Irqs : conf.sources[k].gsi = Wire(k)
          /\ Len(conf.CPUs) = IF Cardinality(us) < MAX_SUPP_PROC_NUM THEN Cardinality(us) ELSE MAX_SUPP_PROC_NUM
          /\ \A j \in DOMAIN conf.CPUs : \E n \in us : conf.CPUs[j] = rs[n].id
          /\ ms = {} => conf.LAPIC_Ptr = fw.madt.lapic
          /\ \A n : Last(ms, n) => conf.LAPIC_Ptr = rs[n].addr
      BY <2>1, <2>2, ConfigRead
    <2>6. {conf.CPUs[j] : j \in DOMAIN conf.CPUs} \subseteq {rs[n].id : n \in us}
      <3>1. \A j \in DOMAIN conf.CPUs : \E n \in us : conf.CPUs[j] = rs[n].id
        BY <2>5
      <3> HIDE DEF us, rs
      <3>2. QED
        BY <3>1, Zenon
    <2>7. ms # {} => Last(ms, i)
      <3>1. HAVE ms # {}
      <3>2. ms \in SUBSET (1 .. Len(rs))
        BY DEF Moves
      <3>3. \E n \in ms : \A m \in ms : m <= n
        BY <2>4, <3>1, <3>2, Latest
      <3>4. QED
        BY <3>3, Zenon DEF Last
    <2>8. conf.LAPIC_Ptr = IF ms = {} THEN fw.madt.lapic ELSE rs[i].addr
      BY <2>5, <2>7
    <2>9. /\ \A k \in Irqs : conf.sources[k].gsi = Wire(k)
          /\ Len(conf.CPUs) = IF Cardinality(us) < MAX_SUPP_PROC_NUM THEN Cardinality(us) ELSE MAX_SUPP_PROC_NUM
      BY <2>5
    <2> DEFINE usable == {n \in DOMAIN rs : rs[n].type = "LAPIC" /\ (rs[n].enabled \/ rs[n].onlineCapable)}
               moved == {n \in DOMAIN rs : rs[n].type = "ADDR_OVER"}
    <2>10. us = usable /\ ms = moved
      BY <2>4
    <2> HIDE DEF us, ms, usable, moved
    <2>11. /\ Len(conf.CPUs) = IF Cardinality(usable) < MAX_SUPP_PROC_NUM
                                THEN Cardinality(usable) ELSE MAX_SUPP_PROC_NUM
           /\ {conf.CPUs[n] : n \in DOMAIN conf.CPUs} \subseteq {rs[n].id : n \in usable}
           /\ conf.LAPIC_Ptr = IF moved = {} THEN fw.madt.lapic
                               ELSE rs[CHOOSE n \in moved : \A m \in moved : m <= n].addr
           /\ \A k \in Irqs : conf.sources[k].gsi = Wire(k)
      BY <2>6, <2>8, <2>9, <2>10
    <2>12. QED
      BY <2>11, Zenon DEF ConfIsTheMachine, usable, moved
  <1>2. QED
    BY <1>1, AlwaysIndInv, PTL
=============================================================================

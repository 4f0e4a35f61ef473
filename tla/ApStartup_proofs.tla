-------------------------- MODULE ApStartup_proofs --------------------------
(***************************************************************************)
(* The start of the application processors, for any set of processors, any *)
(* boot processor among them and any number of records: every processor    *)
(* runs on a stack of its own, and none runs ahead of its release.         *)
(***************************************************************************)
EXTENDS ApStartup, TLAPS

\* The sets of ids, and that records of woken processors exist.
LEMMA Ids ==
  /\ CPU_Num \in Nat /\ CPU_Num >= 2 /\ BSP_ID \in Nat /\ HEAP_BLOCKS \in Nat
  /\ TICKS_10MS \in Nat /\ COUNT_200US \in Nat
  /\ APs \subseteq Nat /\ BSP_ID \notin APs
  /\ Slots = 0 .. CPU_Num - 1
  /\ \A id \in APs : id < CPU_Num => id \in Slots \ {BSP_ID}
  BY ApAssumption DEF APs, Slots, BSP_INDEX

\* Blocks of different processors differ, and none is NULL or the stack of the BSP.
LEMMA StacksApart ==
  ASSUME NEW p \in Nat, NEW q \in Nat, p # BSP_ID, q # BSP_ID, p # q
  PROVE  StackOf(p) # StackOf(q) /\ StackOf(p) >= 1
  BY Ids DEF StackOf

\* The initial states satisfy the inductive invariant.
LEMMA InitIndInv == Init => IndInv
  <1> SUFFICES ASSUME Init PROVE IndInv
    OBVIOUS
  <1> USE Ids DEF Init, BSP_INDEX, NULL, BSP_stack_top, Starting
  <1>1. TypeOK
    <2>1. /\ StartedState \in [Slots -> {"NOT_STARTED", "WAITING_START", "STARTED"}]
          /\ stackTopAddress \in [Slots -> Stacks]
          /\ ap \in [APs -> ApStates] /\ esp \in [APs -> Stacks]
      BY DEF Stacks, ApStates
    <2>2. /\ heap \in 0 .. HEAP_BLOCKS /\ CPU_Started_Num \in 0 .. CPU_Num
          /\ i \in 0 .. CPU_Num /\ left \in Nat
      OBVIOUS
    <2>3. QED
      BY <2>1, <2>2, Zenon DEF TypeOK
  <1>2. BspInv
    BY DEF BspInv
  <1>3. ReleaseInv
    BY DEF ReleaseInv, Running
  <1>4. StackInv
    BY DEF StackInv, Filled, Past
  <1>5. QED
    BY <1>1, <1>2, <1>3, <1>4 DEF IndInv

\* Allocating the tables: no processor has been woken yet.
LEMMA AllocTablesInv == ASSUME IndInv, AllocTables PROVE IndInv'
  <1> USE Ids DEF IndInv, AllocTables, icrVars, apVars, Starting
  <1>1. TypeOK'
    <2>1. heap' \in 0 .. HEAP_BLOCKS
      BY DEF TypeOK
    <2>2. tables' \in BOOLEAN /\ bsp' \in {"Loop", "Panic"}
      BY Zenon
    <2>3. QED
      BY <2>1, <2>2 DEF TypeOK
  <1>2. BspInv'
    BY DEF BspInv, TypeOK
  <1>3. ReleaseInv'
    BY DEF ReleaseInv, BspInv, Woken, Past, Running, TypeOK
  <1>4. ASSUME HeapSuffices PROVE StackInv'
    <2>1. StackOf(0) = 2 /\ StackOf(CPU_Num) >= 2
      BY DEF StackOf
    <2>2. heap = 0 /\ i = 0 /\ bsp' = "Loop" /\ heap' = 1
      BY <1>4, <2>1 DEF StackInv, BspInv, HeapSuffices, TypeOK, StackOf
    <2>3. QED
      BY <1>4, <2>1, <2>2 DEF StackInv, Filled, Past, TypeOK
  <1>5. QED
    BY <1>1, <1>2, <1>3, <1>4 DEF HeapSuffices, StackOf

\* The head of the loop: passing the index of the BSP passes no processor.
LEMMA NextCPUInv == ASSUME IndInv, NextCPU PROVE IndInv'
  <1> USE Ids DEF IndInv, icrVars, apVars, Starting
  <1>1. TypeOK'
    BY DEF NextCPU, TypeOK
  <1>2. BspInv'
    BY DEF NextCPU, BspInv, TypeOK
  <1>3. \A j \in Nat : (Past(j) => Past(j)') /\ (j < CPU_Num /\ j # BSP_ID /\ Past(j)' => Past(j))
    BY DEF NextCPU, Past, TypeOK
  <1>4. ReleaseInv'
    <2>1. \A id \in APs \cup Slots : Woken(id) => Woken(id)'
      BY <1>3 DEF NextCPU, Woken, TypeOK
    <2>2. QED
      BY <1>3, <2>1 DEF NextCPU, ReleaseInv, Running, TypeOK
  <1>5. ASSUME HeapSuffices PROVE StackInv'
    <2>1. \A j \in Slots \ {BSP_ID} : Filled(j)' => Filled(j)
      BY <1>3 DEF NextCPU, Filled, TypeOK
    <2>2. heap' = heap /\ (bsp' \in {"Loop", "Stack"} => heap = StackOf(i') - 1)
      BY <1>5 DEF NextCPU, StackInv, StackOf, TypeOK
    <2>3. QED
      BY <1>5, <2>1, <2>2 DEF NextCPU, StackInv, TypeOK
  <1>6. QED
    BY <1>1, <1>2, <1>4, <1>5 DEF HeapSuffices, StackOf

\* Filling in a record that no processor has been sent to.
LEMMA AllocStackInv == ASSUME IndInv, AllocStack PROVE IndInv'
  <1> USE Ids DEF IndInv, AllocStack, icrVars, apVars, Starting
  <1>1. i \in Slots \ {BSP_ID} /\ i < CPU_Num
    BY DEF TypeOK, BspInv
  <1>2. TypeOK'
    BY <1>1 DEF TypeOK, Stacks, NULL
  <1>3. BspInv'
    BY DEF BspInv
  <1>4. \A j \in Nat : Past(j)' = Past(j) /\ (Woken(j) => Woken(j)')
    BY DEF Past, Woken
  <1>5. ReleaseInv'
    BY <1>4 DEF ReleaseInv, Running, TypeOK
  <1>6. ASSUME HeapSuffices PROVE StackInv'
    <2>1. heap = StackOf(i) - 1 /\ StackOf(i) <= StackOf(CPU_Num) - 1
      BY <1>1, <1>6 DEF StackInv, StackOf, TypeOK
    <2>2. heap' = StackOf(i) /\ stackTopAddress' = [stackTopAddress EXCEPT ![i] = StackOf(i)]
      BY <2>1, <1>6 DEF HeapSuffices, TypeOK, StackOf
    <2>3. \A j \in Slots \ {BSP_ID} : Filled(j)' => stackTopAddress'[j] = StackOf(j)
      BY <1>1, <1>4, <1>6, <2>2 DEF StackInv, Filled, TypeOK
    <2>4. QED
      BY <1>6, <2>2, <2>3 DEF StackInv
  <1>7. QED
    BY <1>2, <1>3, <1>5, <1>6 DEF HeapSuffices, StackOf

\* StartupAP leaves the records alone, and sends to processor i, which was prepared.
LEMMA SendInv ==
  ASSUME IndInv, SendInitIPI \/ SendInitIPIDeassert \/ Settle \/ SendSipi1 \/ SendSipi2
  PROVE  IndInv'
  <1> USE Ids DEF IndInv, Starting
  <1>1. /\ UNCHANGED <<StartedState, stackTopAddress, tables, heap, CPU_Started_Num, i, ap, esp>>
        /\ bsp \in {"Init"} \cup Starting /\ bsp' \in Starting /\ left' \in Nat
    BY DEF TypeOK, SendInitIPI, SendInitIPIDeassert, Settle, SendSipi1, SendSipi2, apVars,
           Starting
  <1>2. i \in Slots \ {BSP_ID} /\ i < CPU_Num
    BY <1>1 DEF TypeOK, BspInv
  <1>3. UNCHANGED icrVars \/ \E mode \in Modes : Send(mode)
    BY DEF SendInitIPI, SendInitIPIDeassert, Settle, SendSipi1, SendSipi2, Modes
  <1>4. /\ icr' = icr \/ (icr' \in [mode : Modes, to : Slots] /\ icr'.to = i)
        /\ lost' \subseteq [mode : Modes, to : Slots]
    BY <1>2, <1>3 DEF TypeOK, Send, Ipi, icrVars
  <1>5. TypeOK'
    BY <1>1, <1>4 DEF TypeOK, Starting
  <1>6. BspInv'
    BY <1>1, <1>2 DEF BspInv, Starting
  <1>7. \A j \in Nat : Past(j)' = Past(j) /\ Filled(j)' = Filled(j) /\ (Woken(j) => Woken(j)')
    BY <1>1 DEF Past, Filled, Woken, Starting
  <1>8. ReleaseInv'
    <2>1. Woken(i)'
      BY <1>1, <1>2 DEF Woken
    <2>2. \A j \in Slots : icr' # Idle /\ icr'.to = j => Woken(j)'
      BY <1>1, <1>4, <1>7, <2>1 DEF ReleaseInv, TypeOK
    <2>3. QED
      BY <1>1, <1>7, <2>2 DEF ReleaseInv, Running
  <1>9. ASSUME HeapSuffices PROVE StackInv'
    BY <1>1, <1>7, <1>9 DEF StackInv, Starting
  <1>10. QED
    BY <1>5, <1>6, <1>8, <1>9 DEF HeapSuffices, StackOf

\* A tick changes nothing but the wait.
LEMMA TickInv == ASSUME IndInv, Tick PROVE IndInv'
  <1> USE DEF Tick, icrVars, apVars, Starting
  <1>1. TypeOK'
    BY DEF IndInv, TypeOK
  <1>2. BspInv' /\ ReleaseInv'
    BY DEF IndInv, BspInv, ReleaseInv, Woken, Past, Running
  <1>3. ASSUME HeapSuffices PROVE StackInv'
    BY <1>3 DEF IndInv, StackInv, Filled, Past
  <1>4. QED
    BY <1>1, <1>2, <1>3 DEF IndInv, HeapSuffices, StackOf

\* An interrupt that arrives moves the processor it was sent to, which was prepared and
\* has not left its trampoline by it.
LEMMA DeliverInv == ASSUME IndInv, Deliver PROVE IndInv'
  <1> USE Ids DEF IndInv, Deliver, bspVars, Starting
  <1>1. icr \in [mode : Modes, to : Slots] /\ Woken(icr.to)
    BY DEF TypeOK, ReleaseInv
  <1>2. /\ ap' \in [APs -> ApStates]
        /\ \A id \in APs :
             ap'[id] = ap[id] \/ (id = icr.to /\ ap'[id] \in {"WaitSipi", "LoadStack"})
    <2>1. CASE icr.to \notin APs
      BY <2>1 DEF TypeOK
    <2>2. CASE icr.to \in APs
      <3>1. PICK s \in Effects(icr.mode, ap[icr.to]) : ap' = [ap EXCEPT ![icr.to] = s]
        BY <2>2
      <3>2. s \in {"WaitSipi", "LoadStack", ap[icr.to]}
        BY <1>1, <3>1 DEF Effects, Modes
      <3>3. QED
        BY <2>2, <3>1, <3>2 DEF TypeOK, ApStates
    <2>3. QED
      BY <2>1, <2>2
  <1>3. TypeOK'
    BY <1>2 DEF TypeOK
  <1>4. BspInv'
    BY DEF BspInv
  <1>5. \A j \in Nat : Past(j)' = Past(j) /\ Filled(j)' = Filled(j) /\ Woken(j)' = Woken(j)
    BY DEF Past, Filled, Woken
  <1>6. ReleaseInv'
    <2>1. icr' = Idle /\ StartedState' = StartedState
      OBVIOUS
    <2>2. \A id \in APs : ap'[id] # "Halted" => Woken(id)'
      <3>1. \A id \in APs : id \in Nat
        BY Ids
      <3>2. \A id \in APs : ap'[id] # "Halted" => Woken(id)
        BY <1>1, <1>2 DEF ReleaseInv
      <3>3. QED
        BY <1>5, <3>1, <3>2
    <2>3. \A id \in APs : Running(id)' => Past(id)'
      <3>1. \A id \in APs : Running(id)' => Running(id)
        BY <1>2 DEF Running
      <3>2. QED
        BY <1>5, <3>1 DEF ReleaseInv
    <2>4. \A j \in Slots : StartedState'[j] = "WAITING_START" => Past(j)'
      BY <1>5, <2>1 DEF ReleaseInv
    <2>5. QED
      BY <2>1, <2>2, <2>3, <2>4 DEF ReleaseInv
  <1>7. ASSUME HeapSuffices PROVE StackInv'
    BY <1>2, <1>5, <1>7 DEF StackInv
  <1>8. QED
    BY <1>3, <1>4, <1>6, <1>7 DEF HeapSuffices, StackOf

\* The release of processor i, after which the next index is looked at.
LEMMA ReleaseStepInv == ASSUME IndInv, Release PROVE IndInv'
  <1> USE Ids DEF IndInv, Release, StateAfterStartup, icrVars, apVars, Starting
  <1>1. i \in Slots \ {BSP_ID} /\ i < CPU_Num
    BY DEF TypeOK, BspInv
  <1>2. TypeOK'
    BY <1>1 DEF TypeOK
  <1>3. BspInv'
    BY DEF BspInv
  <1>4. \A j \in Nat : /\ Past(j) \/ j = i <=> Past(j)'
                       /\ Filled(j)' = Filled(j) /\ (Woken(j) => Woken(j)')
    BY <1>1 DEF Past, Filled, Woken
  <1>5. ReleaseInv'
    BY <1>1, <1>4 DEF ReleaseInv, Running, TypeOK
  <1>6. ASSUME HeapSuffices PROVE StackInv'
    <2>1. StackOf(i + 1) - 1 = StackOf(i)
      BY <1>1 DEF StackOf
    <2>2. QED
      BY <1>4, <1>6, <2>1 DEF StackInv
  <1>7. QED
    BY <1>2, <1>3, <1>5, <1>6 DEF HeapSuffices, StackOf

\* Counting the processors that reported.
LEMMA CountCPUInv == ASSUME IndInv, CountCPU PROVE IndInv'
  <1> USE Ids DEF IndInv, CountCPU, icrVars, apVars, Starting
  <1>1. BspInv'
    BY DEF BspInv, TypeOK
  <1>2. TypeOK'
    BY <1>1 DEF TypeOK, BspInv
  <1>3. \A j \in Nat : Past(j)' /\ Past(j) /\ Filled(j) /\ (Woken(j) <=> Woken(j)')
    BY DEF Past, Filled, Woken
  <1>4. ReleaseInv'
    BY <1>3 DEF ReleaseInv, Running
  <1>5. ASSUME HeapSuffices PROVE StackInv'
    BY <1>3, <1>5 DEF StackInv
  <1>6. QED
    BY <1>1, <1>2, <1>4, <1>5 DEF HeapSuffices, StackOf

\* The steps of a processor: it loads the stack of its own record and leaves its spin
\* loop only when released.
LEMMA ApStepInv == ASSUME IndInv, NEW id \in APs, ApStep(id) PROVE IndInv'
  <1> USE Ids DEF IndInv, Starting
  <1>1. ap[id] # "Halted"
    BY DEF ApStep, LoadStack, LeaveSpin, APInit
  <1>2. Woken(id) /\ id \in Slots \ {BSP_ID} /\ Filled(id)
    BY <1>1 DEF ReleaseInv, Woken, Filled
  <1>3. UNCHANGED <<stackTopAddress, tables, heap, CPU_Started_Num, bsp, i, left, icr, lost>>
    BY DEF ApStep, LoadStack, LeaveSpin, APInit, bspVars, icrVars
  <1>4. \A j \in Nat : Past(j)' = Past(j) /\ Filled(j)' = Filled(j) /\ Woken(j)' = Woken(j)
    BY <1>3 DEF Past, Filled, Woken
  <1>5. BspInv'
    BY <1>3 DEF BspInv
  <1>6. CASE LoadStack(id)
    <2> USE <1>6 DEF LoadStack, bspVars, icrVars
    <2>1. TypeOK'
      BY <1>2 DEF TypeOK, ApStates
    <2>2. ReleaseInv'
      BY <1>2, <1>4 DEF ReleaseInv, Running, TypeOK
    <2>3. ASSUME HeapSuffices PROVE StackInv'
      BY <1>2, <1>4, <2>3 DEF StackInv, TypeOK
    <2>4. QED
      BY <1>5, <2>1, <2>2, <2>3 DEF HeapSuffices, StackOf
  <1>7. CASE LeaveSpin(id)
    <2> USE <1>7 DEF LeaveSpin, Released, icrVars
    <2>1. TypeOK'
      BY <1>2 DEF TypeOK, ApStates
    <2>2. ReleaseInv'
      BY <1>2, <1>4 DEF ReleaseInv, Running, TypeOK
    <2>3. ASSUME HeapSuffices PROVE StackInv'
      BY <1>4, <2>3 DEF StackInv, TypeOK
    <2>4. QED
      BY <1>5, <2>1, <2>2, <2>3 DEF HeapSuffices, StackOf
  <1>8. CASE APInit(id)
    <2> USE <1>8 DEF APInit, bspVars, icrVars
    <2>1. TypeOK'
      BY DEF TypeOK, ApStates
    <2>2. ReleaseInv'
      BY <1>4 DEF ReleaseInv, Running, TypeOK
    <2>3. ASSUME HeapSuffices PROVE StackInv'
      BY <1>4, <2>3 DEF StackInv, TypeOK
    <2>4. QED
      BY <1>5, <2>1, <2>2, <2>3 DEF HeapSuffices, StackOf
  <1>9. QED
    BY <1>6, <1>7, <1>8 DEF ApStep

\* The invariant is inductive.
LEMMA StepIndInv == IndInv /\ [Next]_vars => IndInv'
  <1> SUFFICES ASSUME IndInv, [Next]_vars PROVE IndInv'
    OBVIOUS
  <1>1. ASSUME UNCHANGED vars PROVE IndInv'
    BY <1>1 DEF vars, bspVars, icrVars, apVars, IndInv, TypeOK, BspInv, ReleaseInv, StackInv, Woken,
                Filled, Past, Running, HeapSuffices, StackOf, Starting
  <1>2. QED
    BY <1>1, AllocTablesInv, NextCPUInv, AllocStackInv, SendInv, ReleaseStepInv, CountCPUInv,
       TickInv, DeliverInv, ApStepInv DEF Next, BspStep

\* The inductive invariant holds throughout.
LEMMA AlwaysIndInv == Spec => []IndInv
  BY InitIndInv, StepIndInv, PTL DEF Spec

\* All state of the start-up stays in its types, whatever heap there is.
THEOREM TypeCorrect == Spec => []TypeOK
  <1>1. IndInv => TypeOK
    BY DEF IndInv
  <1>2. QED
    BY <1>1, AlwaysIndInv, PTL

\* A processor runs AP_main only with the tables allocated, with a record of its own in
\* them and after InitAPs released it, whatever heap there is.
THEOREM NoneRunsAhead == Spec => []MainAfterRelease
  <1>1. IndInv => MainAfterRelease
    BY Ids DEF IndInv, TypeOK, BspInv, ReleaseInv, MainAfterRelease, Running, Woken, Past, Starting
  <1>2. QED
    BY <1>1, AlwaysIndInv, PTL

\* If the heap has a block for the tables and one for every stack, no two processors
\* that left the trampoline share a stack, and none uses NULL or the stack of the BSP.
THEOREM StacksAreOwn == ASSUME HeapSuffices PROVE Spec => []OwnStack
  <1>1. ASSUME IndInv, HeapSuffices
        PROVE  OwnStack
    <2>1. \A r \in APs : ap[r] \in {"Spin", "Main", "Hlt"} => esp[r] = StackOf(r)
      BY <1>1 DEF IndInv, StackInv
    <2>2. QED
      BY <2>1, Ids, StacksApart DEF OwnStack, NULL, BSP_stack_top
  <1>2. QED
    BY <1>1, AlwaysIndInv, PTL
=============================================================================

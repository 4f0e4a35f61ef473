------------------------------ MODULE ApStartup ------------------------------
(***************************************************************************)
(* Starting the application processors: InitAPs, AP_init and AP_main of    *)
(* arch/IA32/sysinit.c, StartupAP of smp.c and the trampoline _StartAP of  *)
(* tramAP.S.  The boot processor (BSP) prepares a CPU_State record, sends  *)
(* INIT and two STARTUP interrupts, and only then releases the processor,  *)
(* which meanwhile loads its stack pointer and spins on the record.  The   *)
(* BSP busy-waits for ticks, for the LAPIC timer and for its interrupts to *)
(* be delivered; none of these waits bounds how late an AP may be.         *)
(***************************************************************************)
EXTENDS Integers, FiniteSets

CONSTANTS
  CPU_Num,     \* SysConf_Info.CPU_Num, processors listed by the MADT
  BSP_ID,      \* APIC id of the boot processor
  Present,     \* APIC ids of the processors that answer
  HEAP_BLOCKS, \* blocks of the kernel heap: one for AP_Tables, one per stack
  TICKS_10MS,  \* system ticks that Wait_ms(10) lets pass
  COUNT_200US  \* APIC_Ticks_us * 200, which Wait_us(200) lets the LAPIC timer count

ASSUME ApAssumption ==
  /\ CPU_Num \in Nat \ {0, 1}
  /\ Present \subseteq Nat /\ BSP_ID \in Present
  /\ HEAP_BLOCKS \in Nat /\ TICKS_10MS \in Nat /\ COUNT_200US \in Nat

BSP_INDEX == 0
Slots == (0 .. CPU_Num - 1) \cup {BSP_INDEX}  \* the CPU_State records in use
APs == Present \ {BSP_ID}

\* Stacks are numbered by the heap block that holds them.
NULL == 0
BSP_stack_top == -1
Stacks == {NULL, BSP_stack_top} \cup 1 .. HEAP_BLOCKS

\* The interrupts StartupAP sends, and the interrupt command register that sends them.
Modes == {"INIT", "DEASSERT", "STARTUP1", "STARTUP2"}
Ipi(mode, id) == [mode |-> mode, to |-> id]
Idle == Ipi("Idle", NULL)

VARIABLES
  StartedState,     \* CPU_State[i].StartedState
  stackTopAddress,  \* CPU_State[i].stackTopAddress
  tables,           \* AP_Tables # NULL
  heap,             \* heap blocks handed out
  CPU_Started_Num,
  bsp,              \* the next statement of InitAPs
  i,                \* its loop variable
  left,             \* ticks or counts that the busy wait before it still lasts
  icr,              \* the interrupt in the LAPIC's command register, Idle once delivered
  lost,             \* history: interrupts overwritten in that register
  ap,               \* per AP: where it is
  esp               \* per AP: its stack pointer

bspVars == <<StartedState, stackTopAddress, tables, heap, CPU_Started_Num, bsp, i, left>>
icrVars == <<icr, lost>>
apVars == <<ap, esp>>
vars == <<bspVars, icrVars, apVars>>

ApStates == {"Halted", "WaitSipi", "LoadStack", "Spin", "Main", "Hlt"}

TypeOK ==
  /\ StartedState \in [Slots -> {"NOT_STARTED", "WAITING_START", "STARTED"}]
  /\ stackTopAddress \in [Slots -> Stacks]
  /\ tables \in BOOLEAN
  /\ heap \in 0 .. HEAP_BLOCKS
  /\ CPU_Started_Num \in 0 .. CPU_Num
  /\ bsp \in {"Tables", "Loop", "Stack", "Init", "Deassert", "Settle", "Sipi1", "Sipi2",
              "Release", "Count", "Done", "Panic"}
  /\ i \in 0 .. CPU_Num
  /\ left \in Nat
  /\ icr \in {Idle} \cup [mode : Modes, to : Slots]
  /\ lost \subseteq [mode : Modes, to : Slots]
  /\ ap \in [APs -> ApStates]
  /\ esp \in [APs -> Stacks]

-----------------------------------------------------------------------------
(* The boot processor. *)

\* The loops of Wait_ms and Wait_us have ended.
WaitOver == left = 0


\* The delivery status is bit 12 of the register, and the function returns it as a
\* bool, which is an unsigned char.
IPI_isPending == (IF icr = Idle THEN 0 ELSE 2^12) % 2^8 # 0

\* A write of the command register sends an interrupt to processor i, in place of one
\* that is still there.
Send(mode) ==
  /\ icr' = Ipi(mode, i)
  /\ lost' = IF icr = Idle THEN lost ELSE lost \cup {icr}

\* kmalloc(AP_TablesSize); a failure stops the boot in an endless loop.
AllocTables ==
  /\ bsp = "Tables"
  /\ IF heap < HEAP_BLOCKS
     THEN heap' = heap + 1 /\ tables' = TRUE /\ bsp' = "Loop"
     ELSE heap' = heap /\ tables' = FALSE /\ bsp' = "Panic"
  /\ UNCHANGED <<StartedState, stackTopAddress, CPU_Started_Num, i, left, icrVars, apVars>>

\* The head of the loop over the CPUs: the BSP's own index is skipped, but for the
\* Wait_ms(10) that ends the loop's body.
NextCPU ==
  /\ bsp = "Loop" /\ WaitOver
  /\ \/ /\ i < CPU_Num /\ i # BSP_ID
        /\ bsp' = "Stack" /\ i' = i /\ left' = 0
     \/ /\ i < CPU_Num /\ i = BSP_ID
        /\ bsp' = "Loop" /\ i' = i + 1 /\ left' = TICKS_10MS
     \/ /\ i = CPU_Num
        /\ bsp' = "Count" /\ i' = 0 /\ left' = 0
  /\ UNCHANGED <<StartedState, stackTopAddress, tables, heap, CPU_Started_Num, icrVars, apVars>>

\* Fault: the processor woken before its record is filled in.
AllocStackLate ==
  /\ bsp = "Stack" /\ bsp' = "Init"
  /\ UNCHANGED <<StartedState, stackTopAddress, tables, heap, CPU_Started_Num, i, left,
                 icrVars, apVars>>

\* CPU_State[i].CoreID and .stackTopAddress.  The result of kmalloc is not
\* tested (the test names AP_Tables), so a failed one gives a stack at NULL.
AllocStack ==
  /\ bsp = "Stack" /\ bsp' = "Init"
  /\ IF heap < HEAP_BLOCKS
     THEN heap' = heap + 1 /\ stackTopAddress' = [stackTopAddress EXCEPT ![i] = heap + 1]
     ELSE heap' = heap /\ stackTopAddress' = [stackTopAddress EXCEPT ![i] = NULL]
  /\ UNCHANGED <<StartedState, tables, CPU_Started_Num, i, left, icrVars, apVars>>

SendInitIPI ==
  /\ bsp = "Init" /\ bsp' = "Deassert"
  /\ Send("INIT")
  /\ UNCHANGED <<StartedState, stackTopAddress, tables, heap, CPU_Started_Num, i, left, apVars>>

SendInitIPIDeassert ==
  /\ bsp = "Deassert" /\ ~IPI_isPending /\ bsp' = "Settle"
  /\ Send("DEASSERT")
  /\ UNCHANGED <<StartedState, stackTopAddress, tables, heap, CPU_Started_Num, i, left, apVars>>

\* Wait_ms(10) once the INIT is over.
Settle ==
  /\ bsp = "Settle" /\ ~IPI_isPending /\ bsp' = "Sipi1"
  /\ left' = TICKS_10MS
  /\ UNCHANGED <<StartedState, stackTopAddress, tables, heap, CPU_Started_Num, i, icrVars, apVars>>

\* The two rounds of the loop of StartupAP: a STARTUP, then Wait_us(200).
SendSipi1 ==
  /\ bsp = "Sipi1" /\ WaitOver /\ bsp' = "Sipi2"
  /\ Send("STARTUP1") /\ left' = COUNT_200US
  /\ UNCHANGED <<StartedState, stackTopAddress, tables, heap, CPU_Started_Num, i, apVars>>


SendSipi2 ==
  /\ bsp = "Sipi2" /\ WaitOver /\ ~IPI_isPending /\ bsp' = "Release"
  /\ Send("STARTUP2") /\ left' = COUNT_200US
  /\ UNCHANGED <<StartedState, stackTopAddress, tables, heap, CPU_Started_Num, i, apVars>>

StateAfterStartup == "WAITING_START"

\* The processor is released from its spin loop; Wait_ms(10) ends the loop's body.
Release ==
  /\ bsp = "Release" /\ WaitOver /\ ~IPI_isPending /\ bsp' = "Loop"
  /\ StartedState' = [StartedState EXCEPT ![i] = StateAfterStartup]
  /\ i' = i + 1 /\ left' = TICKS_10MS
  /\ UNCHANGED <<stackTopAddress, tables, heap, CPU_Started_Num, icrVars, apVars>>

\* The second loop of InitAPs: one record per step.
CountCPU ==
  /\ bsp = "Count"
  /\ IF i < CPU_Num
     THEN /\ CPU_Started_Num' = IF StartedState[i] = "STARTED" THEN CPU_Started_Num + 1
                                ELSE CPU_Started_Num
          /\ i' = i + 1 /\ bsp' = bsp
     ELSE bsp' = "Done" /\ UNCHANGED <<CPU_Started_Num, i>>
  /\ UNCHANGED <<StartedState, stackTopAddress, tables, heap, left, icrVars, apVars>>

-----------------------------------------------------------------------------
(* The hardware around it. *)

\* A tick of the PIT, or a count of the LAPIC timer, that the BSP is waiting for.
Tick ==
  /\ left > 0 /\ left' = left - 1
  /\ UNCHANGED <<StartedState, stackTopAddress, tables, heap, CPU_Started_Num, bsp, i,
                 icrVars, apVars>>

\* What an interrupt makes of its target: an INIT makes it wait for a STARTUP, which
\* wakes it, and which others ignore.  The first STARTUP may be missed.
Effects(mode, state) ==
  CASE mode = "INIT" -> {"WaitSipi"}
    [] mode = "DEASSERT" -> {state}
    [] mode = "STARTUP1" -> IF state = "WaitSipi" THEN {"LoadStack", state} ELSE {state}
    [] mode = "STARTUP2" -> IF state = "WaitSipi" THEN {"LoadStack"} ELSE {state}

\* The interrupt reaches its target, or nobody answers to the id.
Deliver ==
  /\ icr # Idle /\ icr' = Idle
  /\ \/ /\ icr.to \in APs
        /\ \E s \in Effects(icr.mode, ap[icr.to]) : ap' = [ap EXCEPT ![icr.to] = s]
     \/ icr.to \notin APs /\ ap' = ap
  /\ UNCHANGED <<bspVars, lost, esp>>

-----------------------------------------------------------------------------
(* An application processor, indexed by its APIC id (cpuid). *)

\* _StartAP loads the stack pointer from its record.
LoadStack(id) ==
  /\ ap[id] = "LoadStack"
  /\ ap' = [ap EXCEPT ![id] = "Spin"]
  /\ esp' = [esp EXCEPT ![id] = stackTopAddress[id]]
  /\ UNCHANGED <<bspVars, icrVars>>

\* Fault: the processor does not wait for its release.
ReleasedAlways(id) == TRUE

Released(id) == StartedState[id] = "WAITING_START"

\* It spins until released, reports STARTED and jumps to AP_main.
LeaveSpin(id) ==
  /\ ap[id] = "Spin" /\ Released(id)
  /\ StartedState' = [StartedState EXCEPT ![id] = "STARTED"]
  /\ ap' = [ap EXCEPT ![id] = "Main"]
  /\ UNCHANGED <<stackTopAddress, tables, heap, CPU_Started_Num, bsp, i, left, icrVars, esp>>

\* AP_init: paging, the GDT and IDT of AP_Tables[id], LAPIC, sti; then hlt.
APInit(id) ==
  /\ ap[id] = "Main"
  /\ ap' = [ap EXCEPT ![id] = "Hlt"]
  /\ UNCHANGED <<bspVars, icrVars, esp>>

-----------------------------------------------------------------------------
\* CPU_State after InitSys has cleared it and filled in BSP_INDEX.
Init ==
  /\ StartedState = [s \in Slots |-> IF s = BSP_INDEX THEN "STARTED" ELSE "NOT_STARTED"]
  /\ stackTopAddress = [s \in Slots |-> IF s = BSP_INDEX THEN BSP_stack_top ELSE NULL]
  /\ tables = FALSE /\ heap = 0 /\ CPU_Started_Num = 0
  /\ bsp = "Tables" /\ i = 0 /\ left = 0
  /\ icr = Idle /\ lost = {}
  /\ ap = [id \in APs |-> "Halted"]
  /\ esp = [id \in APs |-> NULL]

BspStep ==
  \/ AllocTables \/ NextCPU \/ AllocStack \/ SendInitIPI \/ SendInitIPIDeassert \/ Settle
  \/ SendSipi1 \/ SendSipi2 \/ Release \/ CountCPU

ApStep(id) == LoadStack(id) \/ LeaveSpin(id) \/ APInit(id)

Next == BspStep \/ Tick \/ Deliver \/ \E id \in APs : ApStep(id)

Spec == Init /\ [][Next]_vars

\* Every processor that is running keeps running, the timers count, and an interrupt
\* that stays in the command register is delivered.
FairSpec ==
  /\ Spec
  /\ WF_vars(BspStep) /\ WF_vars(Tick) /\ WF_vars(Deliver)
  /\ \A id \in APs : WF_vars(ApStep(id))

-----------------------------------------------------------------------------
(* Properties. *)

Running(id) == ap[id] \in {"Main", "Hlt"}

\* Processors that have loaded a stack pointer have one of their own: not
\* NULL, not the boot processor's, not another AP's.
OwnStack ==
  \A p \in APs : ap[p] \in {"Spin", "Main", "Hlt"} =>
     /\ esp[p] \notin {NULL, BSP_stack_top}
     /\ \A q \in APs \ {p} : ap[q] \in {"Spin", "Main", "Hlt"} => esp[q] # esp[p]

\* A processor that uses AP_Tables[id] finds the tables allocated, its index
\* inside them, and the BSP past its turn: nobody runs ahead of its release.
MainAfterRelease ==
  \A id \in APs : Running(id) =>
     tables /\ id < CPU_Num /\ (bsp \in {"Count", "Done"} \/ id < i)


\* An interrupt that processor id cannot do without was overwritten before its delivery.
Cut(id) == {Ipi("INIT", id), Ipi("STARTUP2", id)} \cap lost # {}


-----------------------------------------------------------------------------
(* The inductive invariant behind OwnStack and MainAfterRelease. *)

\* The BSP has prepared and released record j.
Past(j) == bsp \in {"Count", "Done"} \/ j < i

\* Positions after the INIT is sent.
Starting == {"Deassert", "Settle", "Sipi1", "Sipi2", "Release"}

\* It has filled in record j; it has sent the INIT to processor j.
Filled(j) == Past(j) \/ (j = i /\ bsp \in {"Init"} \cup Starting)
Woken(j) == j < CPU_Num /\ (Past(j) \/ (j = i /\ bsp \in Starting))

\* The heap block of the stack of processor j: one for AP_Tables, then one for each
\* index but the BSP's.
StackOf(j) == j + 2 - (IF BSP_ID < j THEN 1 ELSE 0)

\* There is a block for AP_Tables and for every stack.
HeapSuffices == HEAP_BLOCKS >= StackOf(CPU_Num) - 1

BspInv ==
  /\ bsp \in {"Tables", "Panic"} => i = 0
  /\ bsp \notin {"Tables", "Panic"} => tables
  /\ bsp \in {"Stack", "Init"} \cup Starting => i < CPU_Num /\ i # BSP_ID
  /\ CPU_Started_Num <= IF bsp \in {"Count", "Done"} THEN i ELSE 0

ReleaseInv ==
  /\ \A j \in Slots : icr # Idle /\ icr.to = j => Woken(j)
  /\ \A id \in APs : ap[id] # "Halted" => Woken(id)
  /\ \A id \in APs : Running(id) => Past(id)
  /\ \A j \in Slots : StartedState[j] = "WAITING_START" => Past(j)

StackInv ==
  /\ bsp = "Tables" => heap = 0
  /\ bsp \in {"Loop", "Stack"} => heap = StackOf(i) - 1
  /\ bsp \in {"Init"} \cup Starting => heap = StackOf(i)
  /\ \A j \in Slots \ {BSP_ID} : Filled(j) => stackTopAddress[j] = StackOf(j)
  /\ \A id \in APs : ap[id] \in {"Spin", "Main", "Hlt"} => esp[id] = StackOf(id)

IndInv == TypeOK /\ BspInv /\ ReleaseInv /\ (HeapSuffices => StackInv)
=============================================================================

------------------------------ MODULE Spinlock ------------------------------
(***************************************************************************)
(* coresys/spinlock.c and arch/IA32/atomic.S on several cores.  Each core  *)
(* runs acquire, a critical section that increments shared data, release.  *)
(* The acquire is a locked bit-test-and-set; the release is an ordinary    *)
(* load and store, so it matters that stores leave an x86 core through a   *)
(* FIFO store buffer: other cores see them later, the core itself at once. *)
(* The lock word is its bit 0: the code never changes another bit.         *)
(***************************************************************************)
EXTENDS Integers, Sequences

CONSTANTS
  Cores,
  NoOwner,      \* not a core
  BUFFER_DEPTH, \* entries of a store buffer
  DATA_VALUES   \* the shared data counts modulo this number

ASSUME SpinlockAssumption ==
  /\ NoOwner \notin Cores
  /\ BUFFER_DEPTH \in Nat \ {0}
  /\ DATA_VALUES \in Nat \ {0}

Addrs == {"lock", "data"}
Values == 0 .. (IF DATA_VALUES > 2 THEN DATA_VALUES - 1 ELSE 1)

VARIABLES
  mem,   \* memory: the lock word and the data it protects
  buf,   \* per core: stores not yet in memory, oldest first
  pc,    \* per core: the next instruction
  reg,   \* per core: the value last loaded
  done   \* history: increments executed by all cores, modulo DATA_VALUES

vars == <<mem, buf, pc, reg, done>>

Stores == [addr : Addrs, val : Values]
Waiting == {"Bts", "Spin"}
Holding == {"Load", "Store", "RelLoad", "RelStore"}

TypeOK ==
  /\ mem \in [Addrs -> Values]
  /\ buf \in [Cores -> Seq(Stores)]
  /\ pc \in [Cores -> {"Out"} \cup Waiting \cup Holding]
  /\ reg \in [Cores -> Values]
  /\ done \in Values

-----------------------------------------------------------------------------
(* The memory system. *)

Pending(c, a) == {k \in 1 .. Len(buf[c]) : buf[c][k].addr = a}

\* A load takes the core's own latest store to the address, else memory.
Read(c, a) ==
  IF Pending(c, a) = {} THEN mem[a]
  ELSE buf[c][CHOOSE k \in Pending(c, a) : \A j \in Pending(c, a) : j <= k].val

Push(c, a, v) ==
  /\ Len(buf[c]) < BUFFER_DEPTH
  /\ buf' = [buf EXCEPT ![c] = Append(@, [addr |-> a, val |-> v])]
  /\ UNCHANGED mem

\* The oldest store of core c reaches memory.
Drain(c) ==
  /\ buf[c] # <<>>
  /\ mem' = [mem EXCEPT ![Head(buf[c]).addr] = Head(buf[c]).val]
  /\ buf' = [buf EXCEPT ![c] = Tail(@)]
  /\ UNCHANGED <<pc, reg, done>>

-----------------------------------------------------------------------------
(* The instructions of a core. *)

Goto(c, from, to) == pc[c] = from /\ pc' = [pc EXCEPT ![c] = to]

\* spinlock_acquire is called.
Enter(c) == Goto(c, "Out", "Bts") /\ UNCHANGED <<mem, buf, reg, done>>

\* Fault: the bit-test-and-set without its lock prefix.
BitTestAndSetUnlocked(c) ==
  \/ Read(c, "lock") = 0 /\ Push(c, "lock", 1) /\ Goto(c, "Bts", "Load")
  \/ Read(c, "lock") = 1 /\ Goto(c, "Bts", "Spin") /\ UNCHANGED <<mem, buf>>

\* lock btsl $0,(%ebx): a locked instruction waits for the store buffer to
\* empty, then tests and sets the bit in memory in one step.
BitTestAndSet(c) ==
  /\ buf[c] = <<>>
  /\ \/ mem["lock"] = 0 /\ Goto(c, "Bts", "Load")
     \/ mem["lock"] = 1 /\ Goto(c, "Bts", "Spin")
  /\ mem' = [mem EXCEPT !["lock"] = 1]
  /\ UNCHANGED buf

Acquire(c) == BitTestAndSet(c) /\ UNCHANGED <<reg, done>>

\* spinlock_is_acquired, and testl $1,(%ebx) in the pause loop.
IsAcquired(c) == Read(c, "lock") = 1

\* The pause loop is left once the bit reads as clear.
Spin(c) ==
  /\ ~IsAcquired(c)
  /\ Goto(c, "Spin", "Bts")
  /\ UNCHANGED <<mem, buf, reg, done>>

\* The critical section: load and store the shared data, any number of times.
DataLoad(c) ==
  /\ Goto(c, "Load", "Store")
  /\ reg' = [reg EXCEPT ![c] = Read(c, "data")]
  /\ UNCHANGED <<mem, buf, done>>

DataStore(c) ==
  /\ Goto(c, "Store", "Load") \/ Goto(c, "Store", "RelLoad")
  /\ Push(c, "data", (reg[c] + 1) % DATA_VALUES)
  /\ done' = (done + 1) % DATA_VALUES
  /\ UNCHANGED reg

\* Fault: a release that writes back the lock word as it was.
ClearedKeepsBit(v) == v

\* Fault: ~(*p), the complement of the whole word.
ClearedComplement(v) == -1 - v

\* ~SPINLOCK_BIT_LOCK & (*p), on bit 0.
Cleared(v) == 0

\* spinlock_release: an ordinary load and an ordinary store of the lock word.
ReleaseLoad(c) ==
  /\ Goto(c, "RelLoad", "RelStore")
  /\ reg' = [reg EXCEPT ![c] = Read(c, "lock")]
  /\ UNCHANGED <<mem, buf, done>>

ReleaseStore(c) ==
  /\ Goto(c, "RelStore", "Out")
  /\ Push(c, "lock", Cleared(reg[c]))
  /\ UNCHANGED <<reg, done>>

-----------------------------------------------------------------------------
\* spinlock_init has cleared the bit before the lock is shared.
Init ==
  /\ mem = [a \in Addrs |-> 0]
  /\ buf = [c \in Cores |-> <<>>]
  /\ pc = [c \in Cores |-> "Out"]
  /\ reg = [c \in Cores |-> 0]
  /\ done = 0

\* What a core does once it has asked for the lock.
Step(c) == Acquire(c) \/ Spin(c) \/ DataLoad(c) \/ DataStore(c) \/ ReleaseLoad(c) \/ ReleaseStore(c)

Next == \E c \in Cores : Enter(c) \/ Step(c) \/ Drain(c)

Spec == Init /\ [][Next]_vars

\* Cores execute and stores reach memory eventually.
FairSpec == Spec /\ \A c \in Cores : WF_vars(Step(c)) /\ WF_vars(Drain(c))

-----------------------------------------------------------------------------
(* Properties. *)

Holds(c) == pc[c] \in Holding

\* At most one core is between its successful bit-test-and-set and its release.
MutualExclusion == \A c, d \in Cores : Holds(c) /\ Holds(d) => c = d

\* A core that enters sees every increment of the previous holders, although
\* neither their data nor the release is flushed by a fence.
NoLostUpdate == \A c \in Cores : pc[c] = "Store" => reg[c] = done

owner == IF \E c \in Cores : Holds(c) THEN CHOOSE c \in Cores : Holds(c) ELSE NoOwner
waiting == {c \in Cores : pc[c] \in Waiting}
Lock == INSTANCE SpinlockSpec WITH owner <- owner, waiting <- waiting

\* The spinlock implements the abstract lock: released by a store that may
\* still be on its way to memory, it is taken by a waiting core eventually.
ImplementsLock == Lock!FairSpec

-----------------------------------------------------------------------------
(* The inductive invariant behind mutual exclusion and NoLostUpdate. *)

\* A core occupies the lock from its bit-test-and-set until its release store
\* has reached memory.
Busy(c) == Holds(c) \/ Pending(c, "lock") # {}

\* The only pending store to the lock word is a finished core's release, and
\* it is that core's latest store.
ReleaseIsLast(c) ==
  \A k \in 1 .. Len(buf[c]) :
     buf[c][k].addr = "lock" => buf[c][k].val = 0 /\ k = Len(buf[c]) /\ ~Holds(c)

\* The value v is what core c reads at address a: its latest pending store to a
\* or, when it has none, memory.
Latest(c, a, v) ==
  \/ Pending(c, a) = {} /\ mem[a] = v
  \/ \E k \in Pending(c, a) : (\A j \in Pending(c, a) : j <= k) /\ buf[c][k].val = v

IndInv ==
  /\ TypeOK
  /\ \A c, d \in Cores : Busy(c) /\ Busy(d) => c = d
  /\ (\E c \in Cores : Busy(c)) => mem["lock"] = 1
  /\ \A c \in Cores : ReleaseIsLast(c)
  /\ \A c \in Cores : buf[c] # <<>> => Busy(c)
  /\ \A c \in Cores : Busy(c) => Latest(c, "data", done)
  /\ (\A c \in Cores : ~Busy(c)) => mem["data"] = done
  /\ NoLostUpdate

=============================================================================

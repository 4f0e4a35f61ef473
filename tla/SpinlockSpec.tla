---------------------------- MODULE SpinlockSpec ----------------------------
(***************************************************************************)
(* What coresys/spinlock.c promises its callers: a lock with at most one   *)
(* owner that, once released, is taken again as long as someone waits.     *)
(* Which waiting core gets it is not promised.                             *)
(***************************************************************************)
CONSTANTS Cores, NoOwner

VARIABLES owner, waiting

vars == <<owner, waiting>>

TypeOK == owner \in Cores \cup {NoOwner} /\ waiting \subseteq Cores

Init == owner = NoOwner /\ waiting = {}

Request(c) ==
  /\ c # owner /\ c \notin waiting
  /\ waiting' = waiting \cup {c}
  /\ UNCHANGED owner

Acquire(c) ==
  /\ owner = NoOwner /\ c \in waiting
  /\ owner' = c
  /\ waiting' = waiting \ {c}

Release(c) ==
  /\ owner = c
  /\ owner' = NoOwner
  /\ UNCHANGED waiting

Next == \E c \in Cores : Request(c) \/ Acquire(c) \/ Release(c)

Spec == Init /\ [][Next]_vars

FairSpec == Spec /\ WF_vars(\E c \in Cores : Acquire(c))

=============================================================================

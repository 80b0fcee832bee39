----------------------------- MODULE KernelMutex -----------------------------
(***************************************************************************)
(* What the big kernel lock of lab4/kern/spinlock.c promises its callers:  *)
(* at any time at most one CPU is inside the kernel, and a CPU that leaves *)
(* is one that had entered.                                                *)
(***************************************************************************)
CONSTANTS CPU,     \* the processors
          NoCPU    \* "nobody"

VARIABLE holder    \* the CPU inside the kernel, or NoCPU

Init == holder = NoCPU

Enter(c) == holder = NoCPU /\ holder' = c

Leave(c) == holder = c /\ holder' = NoCPU

Next == \E c \in CPU : Enter(c) \/ Leave(c)

Spec == Init /\ [][Next]_holder
==============================================================================

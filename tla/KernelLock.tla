----------------------------- MODULE KernelLock ------------------------------
(***************************************************************************)
(* The big kernel lock of JOS (lab4/kern/spinlock.c), down to the single   *)
(* memory accesses of spin_lock and spin_unlock, together with everything  *)
(* that decides when a CPU calls them: the boot handshake of boot_aps and  *)
(* mp_main, the cpu_status exchange at the head of trap(), and the two     *)
(* ways out of the kernel, env_run and sched_halt.                         *)
(*                                                                         *)
(* What a CPU does while it holds the lock is one state here ("kernel");   *)
(* module EnvSched models it.                                              *)
(***************************************************************************)
EXTENDS Naturals

CONSTANTS
  CPU,        \* the processors found by mp_init
  BSP,        \* bootcpu, the processor that runs i386_init
  NoCPU,      \* the null struct CpuInfo pointer
  Failures    \* may a CPU panic, or drop into the monitor, inside the kernel?

ASSUME CPUAssumption == BSP \in CPU /\ NoCPU \notin CPU /\ Failures \in BOOLEAN

VARIABLES
  locked,     \* kernel_lock.locked
  owner,      \* kernel_lock.cpu
  status,     \* cpus[c].cpu_status
  panicstr,   \* has panicstr been set?
  kstack,     \* mpentry_kstack: whose stack the next AP will load
  stack,      \* the kernel stack each CPU runs on
  booting,    \* the AP that boot_aps waits for
  todo,       \* the APs that boot_aps has not started yet
  cpl,        \* tf_cs & 3 of the trap a CPU is handling: "user" or "kernel"
  pc,         \* where each CPU is
  ret         \* where spin_lock or spin_unlock returns to

vars == <<locked, owner, status, panicstr, kstack, stack, booting, todo, cpl,
          pc, ret>>

AP == CPU \ {BSP}

\* Steps of spin_lock, in program order.
Locking == {"lock_read_locked", "lock_read_cpu", "lock_xchg", "lock_set_cpu"}

\* Steps of spin_unlock, in program order.
Unlocking == {"unlock_read_locked", "unlock_read_cpu", "unlock_clear_cpu",
              "unlock_xchg"}

Place == Locking \cup Unlocking \cup
  {"off", "mpentry", "mp_main", "boot_aps", "wait_ap", "kernel", "user",
   "halted", "trap", "trap_xchg", "trap_cpl", "monitor", "stopped",
   "lock_panic"}

Goto(c, p) == pc' = [pc EXCEPT ![c] = p]

\* lock_kernel() and unlock_kernel(), continuing at p.
CallLock(c, p) ==
  Goto(c, "lock_read_locked") /\ ret' = [ret EXCEPT ![c] = p]

CallUnlock(c, p) ==
  Goto(c, "unlock_read_locked") /\ ret' = [ret EXCEPT ![c] = p]

\* i386_init has run up to lock_kernel(); the APs wait for their startup IPI.
Init ==
  /\ locked = 0
  /\ owner = NoCPU
  /\ status = [c \in CPU |-> IF c = BSP THEN "STARTED" ELSE "UNUSED"]
  /\ panicstr = FALSE
  /\ kstack = NoCPU
  /\ stack = [c \in CPU |-> IF c = BSP THEN BSP ELSE NoCPU]
  /\ booting = NoCPU
  /\ todo = AP
  /\ cpl = [c \in CPU |-> "kernel"]
  /\ pc = [c \in CPU |-> IF c = BSP THEN "lock_read_locked" ELSE "off"]
  /\ ret = [c \in CPU |-> "boot_aps"]

-----------------------------------------------------------------------------
(* spin_lock *)

bootVars == <<kstack, stack, booting, todo>>

\* holding(), first operand: lk->locked.
LockReadLocked(c) ==
  /\ pc[c] = "lock_read_locked"
  /\ Goto(c, IF locked = 1 THEN "lock_read_cpu" ELSE "lock_xchg")
  /\ UNCHANGED <<locked, owner, status, panicstr, bootVars, cpl, ret>>

\* holding(), second operand: lk->cpu == thiscpu, and the panic it guards.
LockReadCpu(c) ==
  /\ pc[c] = "lock_read_cpu"
  /\ Goto(c, IF owner = c THEN "lock_panic" ELSE "lock_xchg")
  /\ panicstr' = (panicstr \/ owner = c)
  /\ UNCHANGED <<locked, owner, status, bootVars, cpl, ret>>

\* Mutants of LockXchg: the word is counted up; the old value is not tested.
Mut_LockXchgCounts(c) ==
  /\ pc[c] = "lock_xchg"
  /\ locked' = locked + 1
  /\ Goto(c, IF locked = 0 THEN "lock_set_cpu" ELSE "lock_xchg")
  /\ UNCHANGED <<owner, status, panicstr, bootVars, cpl, ret>>

Mut_LockXchgUntested(c) ==
  /\ pc[c] = "lock_xchg"
  /\ locked' = 1
  /\ Goto(c, "lock_set_cpu")
  /\ UNCHANGED <<owner, status, panicstr, bootVars, cpl, ret>>

\* One turn of the while (xchg(&lk->locked, 1) != 0) loop.
LockXchg(c) ==
  /\ pc[c] = "lock_xchg"
  /\ locked' = 1
  /\ Goto(c, IF locked = 0 THEN "lock_set_cpu" ELSE "lock_xchg")
  /\ UNCHANGED <<owner, status, panicstr, bootVars, cpl, ret>>

\* lk->cpu = thiscpu, and return.
LockSetCpu(c) ==
  /\ pc[c] = "lock_set_cpu"
  /\ owner' = c
  /\ Goto(c, ret[c])
  /\ UNCHANGED <<locked, status, panicstr, bootVars, cpl, ret>>

(* spin_unlock *)

\* !holding() panics; its two reads are two steps.
UnlockReadLocked(c) ==
  /\ pc[c] = "unlock_read_locked"
  /\ Goto(c, IF locked = 1 THEN "unlock_read_cpu" ELSE "lock_panic")
  /\ panicstr' = (panicstr \/ locked = 0)
  /\ UNCHANGED <<locked, owner, status, bootVars, cpl, ret>>

UnlockReadCpu(c) ==
  /\ pc[c] = "unlock_read_cpu"
  /\ Goto(c, IF owner = c THEN "unlock_clear_cpu" ELSE "lock_panic")
  /\ panicstr' = (panicstr \/ owner # c)
  /\ UNCHANGED <<locked, owner, status, bootVars, cpl, ret>>

\* Mutant of UnlockClearCpu: lk->cpu keeps naming the last holder.
Mut_UnlockKeepsCpu(c) ==
  /\ pc[c] = "unlock_clear_cpu"
  /\ Goto(c, "unlock_xchg")
  /\ UNCHANGED <<locked, owner, status, panicstr, bootVars, cpl, ret>>

\* lk->cpu = 0, while the lock is still held.
UnlockClearCpu(c) ==
  /\ pc[c] = "unlock_clear_cpu"
  /\ owner' = NoCPU
  /\ Goto(c, "unlock_xchg")
  /\ UNCHANGED <<locked, status, panicstr, bootVars, cpl, ret>>

\* Mutant of UnlockXchg: returns without clearing the word.
Mut_UnlockForgets(c) ==
  /\ pc[c] = "unlock_xchg"
  /\ Goto(c, ret[c])
  /\ UNCHANGED <<locked, owner, status, panicstr, bootVars, cpl, ret>>

\* xchg(&lk->locked, 0), and return.
UnlockXchg(c) ==
  /\ pc[c] = "unlock_xchg"
  /\ locked' = 0
  /\ Goto(c, ret[c])
  /\ UNCHANGED <<owner, status, panicstr, bootVars, cpl, ret>>

-----------------------------------------------------------------------------
(* Boot *)

\* Mutant of StartAP: the next AP is started without waiting for this one.
Mut_StartAPNoWait(a) ==
  /\ pc[BSP] = "boot_aps"
  /\ a \in todo
  /\ kstack' = a
  /\ booting' = a
  /\ todo' = todo \ {a}
  /\ Goto(a, "mpentry")
  /\ UNCHANGED <<locked, owner, status, panicstr, stack, cpl, ret>>

\* boot_aps: publish the stack of one AP and send it the startup IPI.
StartAP(a) ==
  /\ pc[BSP] = "boot_aps"
  /\ a \in todo
  /\ kstack' = a
  /\ booting' = a
  /\ todo' = todo \ {a}
  /\ pc' = [pc EXCEPT ![BSP] = "wait_ap", ![a] = "mpentry"]
  /\ UNCHANGED <<locked, owner, status, panicstr, stack, cpl, ret>>

\* boot_aps: while (c->cpu_status != CPU_STARTED) ;
APIsUp ==
  /\ pc[BSP] = "wait_ap"
  /\ status[booting] = "STARTED"
  /\ Goto(BSP, "boot_aps")
  /\ UNCHANGED <<locked, owner, status, panicstr, bootVars, cpl, ret>>

\* All APs are up: i386_init creates the first environment and schedules.
BootDone ==
  /\ pc[BSP] = "boot_aps"
  /\ todo = {}
  /\ Goto(BSP, "kernel")
  /\ UNCHANGED <<locked, owner, status, panicstr, bootVars, cpl, ret>>

\* mpentry.S: movl mpentry_kstack, %esp
LoadStack(a) ==
  /\ pc[a] = "mpentry"
  /\ stack' = [stack EXCEPT ![a] = kstack]
  /\ Goto(a, "mp_main")
  /\ UNCHANGED <<locked, owner, status, panicstr, kstack, booting, todo, cpl,
                 ret>>

\* Mutant of MpMain: asks for the lock before it reports that it is up.
Mut_MpMainLate(a) ==
  /\ pc[a] = "mp_main"
  /\ CallLock(a, "kernel")
  /\ UNCHANGED <<locked, owner, status, panicstr, bootVars, cpl>>

\* mp_main: tell boot_aps() we're up, then queue for the lock.
MpMain(a) ==
  /\ pc[a] = "mp_main"
  /\ status' = [status EXCEPT ![a] = "STARTED"]
  /\ CallLock(a, "kernel")
  /\ UNCHANGED <<locked, owner, panicstr, bootVars, cpl>>

-----------------------------------------------------------------------------
(* Leaving the kernel *)

\* env_run: unlock_kernel() and then env_pop_tf.
EnvRun(c) ==
  /\ pc[c] = "kernel"
  /\ CallUnlock(c, "user")
  /\ UNCHANGED <<locked, owner, status, panicstr, bootVars, cpl>>

\* sched_halt: mark the CPU halted, then unlock_kernel(); sti; hlt.
SchedHalt(c) ==
  /\ pc[c] = "kernel"
  /\ status' = [status EXCEPT ![c] = "HALTED"]
  /\ CallUnlock(c, "halted")
  /\ UNCHANGED <<locked, owner, panicstr, bootVars, cpl>>

\* sched_halt with nothing left to run: monitor(NULL) forever, lock held.
Monitor(c) ==
  /\ Failures
  /\ pc[c] = "kernel"
  /\ Goto(c, "monitor")
  /\ UNCHANGED <<locked, owner, status, panicstr, bootVars, cpl, ret>>

\* Mutant of Panic: lets go of the lock on the way to the monitor.
Mut_PanicUnlocks(c) ==
  /\ Failures
  /\ pc[c] = "kernel"
  /\ panicstr' = TRUE
  /\ locked' = 0
  /\ Goto(c, "monitor")
  /\ UNCHANGED <<owner, status, bootVars, cpl, ret>>

\* panic() anywhere in the kernel: set panicstr, then monitor, lock held.
Panic(c) ==
  /\ Failures
  /\ pc[c] = "kernel"
  /\ panicstr' = TRUE
  /\ Goto(c, "monitor")
  /\ UNCHANGED <<locked, owner, status, bootVars, cpl, ret>>

-----------------------------------------------------------------------------
(* Entering the kernel *)

\* An interrupt, exception or system call: user code, or the hlt loop of
\* sched_halt, is cut off and trap() begins.
Interrupt(c) ==
  /\ pc[c] \in {"user", "halted"}
  /\ cpl' = [cpl EXCEPT ![c] = IF pc[c] = "user" THEN "user" ELSE "kernel"]
  /\ Goto(c, "trap")
  /\ UNCHANGED <<locked, owner, status, panicstr, bootVars, ret>>

\* if (panicstr) hlt -- with interrupts off, so for good.
TrapCheckPanic(c) ==
  /\ pc[c] = "trap"
  /\ Goto(c, IF panicstr THEN "stopped" ELSE "trap_xchg")
  /\ UNCHANGED <<locked, owner, status, panicstr, bootVars, cpl, ret>>

\* Mutants of TrapXchg: a halted CPU does not take the lock; cpu_status is
\* read but not set back to CPU_STARTED.
Mut_TrapNoLock(c) ==
  /\ pc[c] = "trap_xchg"
  /\ status' = [status EXCEPT ![c] = "STARTED"]
  /\ Goto(c, "trap_cpl")
  /\ UNCHANGED <<locked, owner, panicstr, bootVars, cpl, ret>>

Mut_TrapStaysHalted(c) ==
  /\ pc[c] = "trap_xchg"
  /\ IF status[c] = "HALTED"
     THEN CallLock(c, "trap_cpl")
     ELSE Goto(c, "trap_cpl") /\ UNCHANGED ret
  /\ UNCHANGED <<locked, owner, status, panicstr, bootVars, cpl>>

\* if (xchg(&thiscpu->cpu_status, CPU_STARTED) == CPU_HALTED) lock_kernel();
TrapXchg(c) ==
  /\ pc[c] = "trap_xchg"
  /\ status' = [status EXCEPT ![c] = "STARTED"]
  /\ IF status[c] = "HALTED"
     THEN CallLock(c, "trap_cpl")
     ELSE Goto(c, "trap_cpl") /\ UNCHANGED ret
  /\ UNCHANGED <<locked, owner, panicstr, bootVars, cpl>>

\* if ((tf->tf_cs & 3) == 3) lock_kernel();
TrapCpl(c) ==
  /\ pc[c] = "trap_cpl"
  /\ IF cpl[c] = "user"
     THEN CallLock(c, "kernel")
     ELSE Goto(c, "kernel") /\ UNCHANGED ret
  /\ UNCHANGED <<locked, owner, status, panicstr, bootVars, cpl>>

-----------------------------------------------------------------------------
SpinLock(c) == LockReadLocked(c) \/ LockReadCpu(c) \/ LockXchg(c) \/ LockSetCpu(c)

SpinUnlock(c) == \/ UnlockReadLocked(c) \/ UnlockReadCpu(c)
                 \/ UnlockClearCpu(c) \/ UnlockXchg(c)

Boot(a) == StartAP(a) \/ LoadStack(a) \/ MpMain(a)

Trap(c) == TrapCheckPanic(c) \/ TrapXchg(c) \/ TrapCpl(c)

Next ==
  \/ APIsUp
  \/ BootDone
  \/ \E a \in AP : Boot(a)
  \/ \E c \in CPU : \/ SpinLock(c) \/ SpinUnlock(c)
                    \/ EnvRun(c) \/ SchedHalt(c) \/ Monitor(c) \/ Panic(c)
                    \/ Interrupt(c) \/ Trap(c)

Spec == Init /\ [][Next]_vars

(***************************************************************************)
(* Every CPU keeps executing, and the kernel, whose critical sections are  *)
(* finite, always leaves.  Nothing makes the spinning CPUs take turns: a   *)
(* CPU may lose every xchg race, so fairness of LockXchg is weak.          *)
(***************************************************************************)
Fairness ==
  /\ WF_vars(APIsUp) /\ WF_vars(BootDone)
  /\ \A a \in AP : WF_vars(Boot(a))
  /\ \A c \in CPU : /\ WF_vars(SpinLock(c)) /\ WF_vars(SpinUnlock(c))
                    /\ WF_vars(EnvRun(c) \/ SchedHalt(c))
                    /\ WF_vars(Interrupt(c)) /\ WF_vars(Trap(c))

FairSpec == Spec /\ Fairness

-----------------------------------------------------------------------------
(* Properties *)

\* CPU c is between a successful xchg of spin_lock and the xchg of spin_unlock.
InLock(c) ==
  \/ pc[c] \in {"lock_set_cpu", "boot_aps", "wait_ap", "kernel", "monitor"}
  \/ pc[c] \in Unlocking
  \/ pc[c] = "trap_cpl" /\ cpl[c] = "kernel"

\* Types of all variables.
TypeOK ==
  /\ locked \in {0, 1}
  /\ owner \in CPU \cup {NoCPU}
  /\ status \in [CPU -> {"UNUSED", "STARTED", "HALTED"}]
  /\ panicstr \in BOOLEAN
  /\ kstack \in CPU \cup {NoCPU}
  /\ stack \in [CPU -> CPU \cup {NoCPU}]
  /\ booting \in CPU \cup {NoCPU}
  /\ todo \in SUBSET AP
  /\ cpl \in [CPU -> {"user", "kernel"}]
  /\ pc \in [CPU -> Place]
  /\ ret \in [CPU -> {"boot_aps", "kernel", "trap_cpl", "user", "halted"}]

\* The lock does its job: two CPUs are never inside the kernel together,
\* whichever of the three lock_kernel() calls let them in.
MutualExclusion == \A c, d \in CPU : InLock(c) /\ InLock(d) => c = d

\* The two panics of DEBUG_SPINLOCK ("already holding", "cannot release")
\* never fire, although holding() reads two words without the lock.
NoLockPanic == \A c \in CPU : pc[c] # "lock_panic"

\* cpu_status tells the truth when trap() asks it: a CPU that re-enters from
\* the hlt loop finds CPU_HALTED and takes the lock exactly once, one that
\* comes from user mode finds CPU_STARTED.
HaltedIffStatus ==
  \A c \in CPU : pc[c] = "trap_xchg" =>
    (status[c] = "HALTED" <=> cpl[c] = "kernel")

\* No two CPUs run on one kernel stack, although boot_aps passes all of them
\* through the single variable mpentry_kstack.
OwnStack == \A c \in CPU : stack[c] \in {c, NoCPU}

\* A panic freezes the kernel: the panicking CPU keeps the lock in the
\* monitor, so no CPU that was outside the kernel gets in any more.
PanicFreezesKernel ==
  [][\A c \in CPU : panicstr /\ ~InLock(c) => ~InLock(c)']_vars

\* A panic or a breakpoint has brought a CPU into the monitor, for good.
Stopped == panicstr \/ \E c \in CPU : pc[c] = "monitor"

\* boot_aps, which waits for each AP with the lock held, does not deadlock
\* with mp_main, which asks for the lock; only the monitor keeps it from its end.
BootCompletes == <>(Stopped \/ \A c \in CPU : status[c] # "UNUSED")

\* The lock is never lost but to the monitor: while a CPU spins, some CPU always
\* gets in again.
LockProgress ==
  (\E c \in CPU : pc[c] = "lock_xchg") ~> (Stopped \/ \E c \in CPU : pc[c] = "lock_set_cpu")

\* The CPUs inside the kernel, and the one that KernelMutex calls the holder.
Inside == {c \in CPU : InLock(c)}

holder == IF Inside = {} THEN NoCPU ELSE CHOOSE c \in Inside : TRUE

\* Every step of the boot, trap, lock and unlock code is a step of
\* KernelMutex or changes nothing it sees: the lock implements mutual exclusion.
Mutex == INSTANCE KernelMutex
Refinement == Mutex!Spec
==============================================================================

-------------------------- MODULE KernelLock_proofs --------------------------
(***************************************************************************)
(* Proofs about KernelLock, for any number of CPUs.                        *)
(***************************************************************************)
EXTENDS KernelLock, FiniteSetTheorems, TLAPS

-----------------------------------------------------------------------------
(* The inductive invariant *)

\* Where a CPU stands between spin_lock's xchg and lk->cpu = thiscpu, or
\* between lk->cpu = 0 and spin_unlock's xchg, the lock is held by nobody
\* that lk->cpu names.
Anonymous(c) == pc[c] \in {"lock_set_cpu", "unlock_xchg"}

\* The lock word and lk->cpu describe the CPU inside the kernel.
LockWords ==
  /\ \A c \in CPU : InLock(c) => locked = 1
  /\ \A c \in CPU : InLock(c) /\ ~Anonymous(c) => owner = c
  /\ \A c \in CPU : owner = c => InLock(c) /\ ~Anonymous(c)

\* Where spin_lock and spin_unlock return to.
Returns ==
  \A c \in CPU :
    /\ pc[c] \in Locking => ret[c] \in {"boot_aps", "kernel", "trap_cpl"}
    /\ pc[c] \in Locking /\ ret[c] = "trap_cpl" => cpl[c] = "kernel"
    /\ pc[c] \in Unlocking => ret[c] \in {"user", "halted"}

\* cpu_status and the level a trap interrupted, on the way from the exit of
\* the kernel to the exchange in trap().
StatusWords ==
  \A c \in CPU :
    /\ pc[c] \in Unlocking /\ ret[c] = "user" => status[c] # "HALTED"
    /\ pc[c] \in Unlocking /\ ret[c] = "halted" => status[c] = "HALTED"
    /\ pc[c] = "user" => status[c] # "HALTED"
    /\ pc[c] = "halted" => status[c] = "HALTED"
    /\ pc[c] \in {"trap", "trap_xchg"} =>
         (status[c] = "HALTED" <=> cpl[c] = "kernel")
    /\ pc[c] \in Locking \cup {"lock_set_cpu", "boot_aps", "wait_ap", "kernel"} =>
         status[c] # "HALTED"
    /\ pc[c] = "trap_cpl" => status[c] # "HALTED"

\* boot_aps starts one AP at a time.
BootOrder ==
  /\ \A a \in todo : pc[a] = "off"
  /\ \A a \in CPU : pc[a] = "off" => status[a] = "UNUSED"
  /\ \A a \in CPU : pc[a] \in {"mpentry", "mp_main"} =>
       pc[BSP] = "wait_ap" /\ booting = a /\ status[a] = "UNUSED"
  /\ \A a \in CPU : pc[a] = "mpentry" => kstack = a
  /\ pc[BSP] = "wait_ap" => booting \in AP

IInv ==
  /\ TypeOK
  /\ LockWords
  /\ MutualExclusion
  /\ NoLockPanic
  /\ Returns
  /\ StatusWords
  /\ BootOrder
  /\ OwnStack

-----------------------------------------------------------------------------
(* Each step preserves it *)

LEMMA InitIInv == Init => IInv
<1> SUFFICES ASSUME Init PROVE IInv
  OBVIOUS
<1> USE CPUAssumption DEF Init, AP
<1>1. TypeOK
  BY DEF TypeOK, Place, Locking, Unlocking
<1>2. \A c \in CPU : pc[c] \in {"lock_read_locked", "off"} /\ ~InLock(c)
  BY DEF InLock, Unlocking
<1>3. LockWords /\ MutualExclusion /\ NoLockPanic
  BY <1>2 DEF LockWords, MutualExclusion, NoLockPanic
<1>4. Returns /\ StatusWords
  BY <1>2 DEF Returns, StatusWords, Locking, Unlocking
<1>5. BootOrder /\ OwnStack
  BY <1>2 DEF BootOrder, OwnStack
<1> QED
  BY <1>1, <1>3, <1>4, <1>5 DEF IInv

LEMMA NextIInv == IInv /\ [Next]_vars => IInv'
<1> SUFFICES ASSUME IInv, [Next]_vars PROVE IInv'
  OBVIOUS
<1> USE CPUAssumption
    DEF AP, Place, Locking, Unlocking, Anonymous, InLock, Goto, CallLock,
        CallUnlock, bootVars, IInv, TypeOK, LockWords, MutualExclusion,
        NoLockPanic, Returns, StatusWords, BootOrder, OwnStack
<1>1. ASSUME NEW c \in CPU, LockReadLocked(c) PROVE IInv'
  BY <1>1 DEF LockReadLocked
<1>2. ASSUME NEW c \in CPU, LockReadCpu(c) PROVE IInv'
  BY <1>2 DEF LockReadCpu
<1>3. ASSUME NEW c \in CPU, LockXchg(c) PROVE IInv'
  BY <1>3 DEF LockXchg
<1>4. ASSUME NEW c \in CPU, LockSetCpu(c) PROVE IInv'
  BY <1>4 DEF LockSetCpu
<1>5. ASSUME NEW c \in CPU, UnlockReadLocked(c) PROVE IInv'
  BY <1>5 DEF UnlockReadLocked
<1>6. ASSUME NEW c \in CPU, UnlockReadCpu(c) PROVE IInv'
  BY <1>6 DEF UnlockReadCpu
<1>7. ASSUME NEW c \in CPU, UnlockClearCpu(c) PROVE IInv'
  BY <1>7 DEF UnlockClearCpu
<1>8. ASSUME NEW c \in CPU, UnlockXchg(c) PROVE IInv'
  BY <1>8 DEF UnlockXchg
<1>9. ASSUME NEW a \in AP, StartAP(a) PROVE IInv'
  BY <1>9 DEF StartAP
<1>10. ASSUME NEW a \in AP, LoadStack(a) PROVE IInv'
  BY <1>10 DEF LoadStack
<1>11. ASSUME NEW a \in AP, MpMain(a) PROVE IInv'
  BY <1>11 DEF MpMain
<1>12. ASSUME NEW c \in CPU, EnvRun(c) PROVE IInv'
  BY <1>12 DEF EnvRun
<1>13. ASSUME NEW c \in CPU, SchedHalt(c) PROVE IInv'
  BY <1>13 DEF SchedHalt
<1>14. ASSUME NEW c \in CPU, Monitor(c) PROVE IInv'
  BY <1>14 DEF Monitor
<1>15. ASSUME NEW c \in CPU, Panic(c) PROVE IInv'
  BY <1>15 DEF Panic
<1>16. ASSUME NEW c \in CPU, Interrupt(c) PROVE IInv'
  BY <1>16 DEF Interrupt
<1>17. ASSUME NEW c \in CPU, TrapCheckPanic(c) PROVE IInv'
  BY <1>17 DEF TrapCheckPanic
<1>18. ASSUME NEW c \in CPU, TrapXchg(c) PROVE IInv'
  BY <1>18 DEF TrapXchg
<1>19. ASSUME NEW c \in CPU, TrapCpl(c) PROVE IInv'
  BY <1>19 DEF TrapCpl
<1>20. CASE APIsUp
  BY <1>20 DEF APIsUp
<1>21. CASE BootDone
  BY <1>21 DEF BootDone
<1>22. CASE UNCHANGED vars
  BY <1>22 DEF vars
<1> QED
  BY <1>1, <1>2, <1>3, <1>4, <1>5, <1>6, <1>7, <1>8, <1>9, <1>10,
     <1>11, <1>12, <1>13, <1>14, <1>15, <1>16, <1>17, <1>18, <1>19, <1>20,
     <1>21, <1>22
  DEF Next, SpinLock, SpinUnlock, Boot, Trap
-----------------------------------------------------------------------------
(* The theorems *)

\* The inductive invariant holds in every reachable state.
THEOREM Invariance == Spec => []IInv
<1>1. Init => IInv
  BY InitIInv
<1>2. IInv /\ [Next]_vars => IInv'
  BY NextIInv
<1> QED
  BY <1>1, <1>2, PTL DEF Spec

\* Every variable keeps its type.
THEOREM Typing == Spec => []TypeOK
<1>1. IInv => TypeOK
  BY DEF IInv
<1> QED
  BY <1>1, Invariance, PTL

\* spin_lock and spin_unlock, called as trap, mp_main, i386_init, env_run and
\* sched_halt call them, never let two CPUs into the kernel.
THEOREM Exclusion == Spec => []MutualExclusion
<1>1. IInv => MutualExclusion
  BY DEF IInv
<1> QED
  BY <1>1, Invariance, PTL

\* The panics of DEBUG_SPINLOCK never fire.
THEOREM LockNeverPanics == Spec => []NoLockPanic
<1>1. IInv => NoLockPanic
  BY DEF IInv
<1> QED
  BY <1>1, Invariance, PTL

\* The handshake through mpentry_kstack gives every CPU its own stack.
THEOREM StacksAreOwn == Spec => []OwnStack
<1>1. IInv => OwnStack
  BY DEF IInv
<1> QED
  BY <1>1, Invariance, PTL

\* trap() decides correctly, from cpu_status, whether it holds the lock.
THEOREM StatusIsRight == Spec => []HaltedIffStatus
<1>1. IInv => HaltedIffStatus
  BY DEF IInv, StatusWords, HaltedIffStatus
<1> QED
  BY <1>1, Invariance, PTL

-----------------------------------------------------------------------------
(* KernelLock implements KernelMutex *)

\* Steps other than the two successful exchanges leave the set of CPUs inside
\* the kernel as it was.
LEMMA InsideStep ==
  ASSUME IInv, [Next]_vars
  PROVE  \/ UNCHANGED Inside
         \/ \E c \in CPU : Inside = {} /\ Inside' = {c}
         \/ \E c \in CPU : Inside = {c} /\ Inside' = {}
<1> USE CPUAssumption
    DEF AP, Place, Locking, Unlocking, Anonymous, InLock, Inside, Goto,
        CallLock, CallUnlock, bootVars, IInv, TypeOK, LockWords,
        MutualExclusion, NoLockPanic, Returns, StatusWords, BootOrder
<1>1. ASSUME NEW c \in CPU, LockXchg(c), locked = 0
      PROVE  Inside = {} /\ Inside' = {c}
  BY <1>1 DEF LockXchg
<1>2. ASSUME NEW c \in CPU, LockXchg(c), locked # 0
      PROVE  UNCHANGED Inside
  BY <1>2 DEF LockXchg
<1>3. ASSUME NEW c \in CPU, UnlockXchg(c)
      PROVE  Inside = {c} /\ Inside' = {}
  BY <1>3 DEF UnlockXchg
<1>4. ASSUME NEW c \in CPU, LockReadLocked(c) \/ LockReadCpu(c) \/ LockSetCpu(c)
      PROVE  UNCHANGED Inside
  BY <1>4 DEF LockReadLocked, LockReadCpu, LockSetCpu
<1>5. ASSUME NEW c \in CPU,
             UnlockReadLocked(c) \/ UnlockReadCpu(c) \/ UnlockClearCpu(c)
      PROVE  UNCHANGED Inside
  BY <1>5 DEF UnlockReadLocked, UnlockReadCpu, UnlockClearCpu
<1>6. ASSUME NEW a \in AP, Boot(a)
      PROVE  UNCHANGED Inside
  BY <1>6 DEF Boot, StartAP, LoadStack, MpMain
<1>7. ASSUME APIsUp \/ BootDone
      PROVE  UNCHANGED Inside
  BY <1>7 DEF APIsUp, BootDone
<1>8. ASSUME NEW c \in CPU, EnvRun(c) \/ SchedHalt(c) \/ Monitor(c) \/ Panic(c)
      PROVE  UNCHANGED Inside
  BY <1>8 DEF EnvRun, SchedHalt, Monitor, Panic
<1>9. ASSUME NEW c \in CPU, Interrupt(c) \/ Trap(c)
      PROVE  UNCHANGED Inside
  BY <1>9 DEF Interrupt, Trap, TrapCheckPanic, TrapXchg, TrapCpl
<1>10. CASE UNCHANGED vars
  BY <1>10 DEF vars
<1> QED
  BY <1>1, <1>2, <1>3, <1>4, <1>5, <1>6, <1>7, <1>8, <1>9, <1>10
  DEF Next, SpinLock, SpinUnlock

\* The lock of spinlock.c, used as the kernel uses it, implements KernelMutex.
THEOREM ImplementsMutex == Spec => Refinement
<1>1. Init => Mutex!Init
  <2> SUFFICES ASSUME Init PROVE holder = NoCPU
    BY DEF Mutex!Init
  <2>1. Inside = {}
    BY CPUAssumption DEF Init, Inside, InLock, Unlocking
  <2> QED
    BY <2>1 DEF holder
<1>2. IInv /\ [Next]_vars => [Mutex!Next]_holder
  <2> SUFFICES ASSUME IInv, [Next]_vars PROVE [Mutex!Next]_holder
    OBVIOUS
  <2>1. ASSUME UNCHANGED Inside PROVE UNCHANGED holder
    BY <2>1 DEF holder
  <2>2. ASSUME NEW c \in CPU, Inside = {}, Inside' = {c}
        PROVE  Mutex!Enter(c)
    BY <2>2 DEF holder, Mutex!Enter
  <2>3. ASSUME NEW c \in CPU, Inside = {c}, Inside' = {}
        PROVE  Mutex!Leave(c)
    BY <2>3 DEF holder, Mutex!Leave
  <2> QED
    BY <2>1, <2>2, <2>3, InsideStep DEF Mutex!Next
<1> QED
  BY <1>1, <1>2, Invariance, PTL DEF Spec, Refinement, Mutex!Spec
-----------------------------------------------------------------------------
(* A panic *)

\* Whoever called panic() is still in the monitor.
Panicked == panicstr => \E c \in CPU : pc[c] = "monitor"

\* Nobody leaves the monitor, and the panics of spin_lock and spin_unlock,
\* which would not enter it with the lock held, do not happen.
LEMMA PanickedKept == IInv /\ Panicked /\ [Next]_vars => Panicked'
<1> SUFFICES ASSUME IInv, Panicked, [Next]_vars PROVE Panicked'
  OBVIOUS
<1>1. ASSUME NEW d \in CPU, pc[d] = "monitor" PROVE pc'[d] = "monitor"
  <2> USE CPUAssumption
      DEF AP, Goto, CallLock, CallUnlock, IInv, TypeOK, BootOrder
  <2>1. CASE APIsUp \/ BootDone
    BY <1>1, <2>1 DEF APIsUp, BootDone
  <2>2. ASSUME NEW a \in AP, Boot(a) PROVE pc'[d] = "monitor"
    BY <1>1, <2>2 DEF Boot, StartAP, LoadStack, MpMain
  <2>3. ASSUME NEW c \in CPU, SpinLock(c) \/ SpinUnlock(c) PROVE pc'[d] = "monitor"
    BY <1>1, <2>3 DEF SpinLock, SpinUnlock, LockReadLocked, LockReadCpu,
       LockXchg, LockSetCpu, UnlockReadLocked, UnlockReadCpu, UnlockClearCpu, UnlockXchg
  <2>4. ASSUME NEW c \in CPU, EnvRun(c) \/ SchedHalt(c) \/ Monitor(c) \/ Panic(c)
        PROVE  pc'[d] = "monitor"
    BY <1>1, <2>4 DEF EnvRun, SchedHalt, Monitor, Panic
  <2>5. ASSUME NEW c \in CPU, Interrupt(c) \/ Trap(c) PROVE pc'[d] = "monitor"
    BY <1>1, <2>5 DEF Interrupt, Trap, TrapCheckPanic, TrapXchg, TrapCpl
  <2>6. CASE UNCHANGED vars
    BY <1>1, <2>6 DEF vars
  <2> QED BY <2>1, <2>2, <2>3, <2>4, <2>5, <2>6 DEF Next
<1>2. ASSUME ~panicstr, panicstr' PROVE \E c \in CPU : pc'[c] = "monitor"
  <2> USE DEF IInv, TypeOK, Goto
  <2>1. PICK c \in CPU : LockReadCpu(c) \/ UnlockReadLocked(c) \/ UnlockReadCpu(c) \/ Panic(c)
    <3>1. CASE UNCHANGED vars
      BY <1>2, <3>1 DEF vars
    <3>2. CASE APIsUp \/ BootDone \/ \E a \in AP : Boot(a)
      BY <1>2, <3>2 DEF APIsUp, BootDone, Boot, StartAP, LoadStack, MpMain
    <3>3. ASSUME NEW c \in CPU, \/ LockReadLocked(c) \/ LockXchg(c) \/ LockSetCpu(c)
                                \/ UnlockClearCpu(c) \/ UnlockXchg(c)
          PROVE  FALSE
      BY <1>2, <3>3 DEF LockReadLocked, LockXchg, LockSetCpu, UnlockClearCpu, UnlockXchg
    <3>4. ASSUME NEW c \in CPU, \/ EnvRun(c) \/ SchedHalt(c) \/ Monitor(c)
                                \/ Interrupt(c) \/ Trap(c)
          PROVE  FALSE
      BY <1>2, <3>4 DEF EnvRun, SchedHalt, Monitor, Interrupt, Trap,
         TrapCheckPanic, TrapXchg, TrapCpl
    <3> QED BY <3>1, <3>2, <3>3, <3>4 DEF Next, SpinLock, SpinUnlock
  <2>2. CASE Panic(c)
    BY <2>2 DEF Panic
  <2>3. CASE LockReadCpu(c)
    BY <1>2, <2>3 DEF LockReadCpu, LockWords, InLock, Unlocking
  <2>4. CASE UnlockReadLocked(c)
    BY <1>2, <2>4 DEF UnlockReadLocked, LockWords, InLock, Unlocking
  <2>5. CASE UnlockReadCpu(c)
    BY <1>2, <2>5 DEF UnlockReadCpu, LockWords, InLock, Unlocking, Anonymous
  <2> QED BY <2>1, <2>2, <2>3, <2>4, <2>5
<1> QED BY <1>1, <1>2 DEF Panicked, IInv, TypeOK

\* Once the kernel has panicked, no CPU that is outside gets in any more: the
\* CPU that panicked keeps the lock, and nobody leaves the monitor.
THEOREM PanicIsFinal == Spec => PanicFreezesKernel
<1>1. Init => Panicked
  BY DEF Init, Panicked
<1>2. IInv /\ Panicked /\ [Next]_vars =>
        [\A c \in CPU : panicstr /\ ~InLock(c) => ~InLock(c)']_vars
  <2> SUFFICES ASSUME IInv, Panicked, [Next]_vars, NEW c \in CPU, panicstr, ~InLock(c)
               PROVE  ~InLock(c)'
    OBVIOUS
  <2>1. Inside # {}
    BY DEF Panicked, Inside, InLock
  <2>2. Inside' \subseteq Inside
    BY <2>1, InsideStep
  <2> QED BY <2>2 DEF Inside
<1> QED
  BY <1>1, <1>2, PanickedKept, Invariance, PTL DEF Spec, PanicFreezesKernel
==============================================================================

------------------------------ MODULE EnvSched -------------------------------
(***************************************************************************)
(* Environments and their scheduling in JOS, lab 4: envs[], the free list, *)
(* curenv of every CPU (kern/env.c), the round-robin scheduler             *)
(* (kern/sched.c), the trap paths that enter and leave it (kern/trap.c),   *)
(* and the system calls that create, block, wake and destroy environments  *)
(* (kern/syscall.c).                                                       *)
(*                                                                         *)
(* A CPU in the kernel holds the big kernel lock (module KernelLock), so   *)
(* one trap, from lock_kernel() to unlock_kernel(), is one action.  What   *)
(* env_run does after unlock_kernel() is the separate action EnvPopTf.     *)
(*                                                                         *)
(* Where C code changes the status array and curenv and then calls         *)
(* further, the callee is an operator with the parameters st (envs[].      *)
(* env_status so far) and me (curenv so far).                              *)
(***************************************************************************)
EXTENDS Integers, Sequences

CONSTANTS
  CPU,      \* the processors
  BSP,      \* the processor that runs i386_init
  NENV,     \* size of envs[]
  NINIT,    \* environments that i386_init creates
  MaxGen,   \* generations before an env_id would turn negative
  Calls,    \* the system calls that programs issue, see CallNames
  Misuse    \* the legal but careless calls, see MisuseNames

CallNames == {"exofork", "set_status", "destroy", "exit", "ipc", "upcall"}

\* What no program of user/ and lib/ does, though the kernel allows it: setting
\* the status of a child that is current on a CPU or blocked in sys_ipc_recv,
\* and destroying again a child that is already ENV_DYING.
MisuseNames == {"set_status_running", "set_status_blocked", "destroy_dying"}

ASSUME EnvAssumption ==
  /\ BSP \in CPU
  /\ NENV \in Nat \ {0}
  /\ NINIT \in 0..NENV
  /\ MaxGen \in Nat \ {0}
  /\ Calls \subseteq CallNames
  /\ Misuse \subseteq MisuseNames

VARIABLES
  status,    \* envs[e].env_status
  gen,       \* the generation half of envs[e].env_id, 0 before the first use
  parent,    \* envs[e].env_parent_id
  recving,   \* envs[e].env_ipc_recving
  tf,        \* envs[e].env_tf: the id of the environment it belongs to
  cpunum,    \* envs[e].env_cpunum
  free,      \* env_free_list
  cur,       \* curenv of each CPU
  mode,      \* what each CPU is doing
  regs       \* the id of the environment whose registers a CPU holds

vars == <<status, gen, parent, recving, tf, cpunum, free, cur, mode, regs>>

Env == 0..(NENV - 1)
NULL == -1                      \* a null struct Env pointer
NoId == <<0, 0>>                \* envid 0
Id == {NoId} \cup ((1..MaxGen) \X Env)  \* an env_id: generation, index (ENVX)

Status == {"FREE", "DYING", "RUNNABLE", "RUNNING", "NOT_RUNNABLE"}

\* "pop": past unlock_kernel() in env_run; "halted": hlt in sched_halt;
\* "monitor": sched_halt found nothing to wait for and kept the lock.
Mode == {"boot", "pop", "user", "halted", "monitor", "panic"}

EnvId(e) == <<gen[e], e>>

\* Mutant of NextGen: the sign test misses the first negative id.
Mut_NextGen(g) == IF g > MaxGen THEN 1 ELSE g + 1

\* env_alloc: (env_id + (1 << ENVGENSHIFT)) & ~(NENV - 1), kept positive.
NextGen(g) == IF g >= MaxGen THEN 1 ELSE g + 1

\* env_init, then ENV_CREATE for NINIT programs; boot_aps has run.  Every CPU
\* is about to call sched_yield, the BSP holding the lock.
Init ==
  /\ status = [e \in Env |-> IF e < NINIT THEN "RUNNABLE" ELSE "FREE"]
  /\ gen = [e \in Env |-> IF e < NINIT THEN 1 ELSE 0]
  /\ parent = [e \in Env |-> NoId]
  /\ recving = [e \in Env |-> FALSE]
  /\ tf = [e \in Env |-> IF e < NINIT THEN <<1, e>> ELSE NoId]
  /\ cpunum = [e \in Env |-> BSP]
  /\ free = [i \in 1..(NENV - NINIT) |-> NINIT + i - 1]
  /\ cur = [c \in CPU |-> NULL]
  /\ mode = [c \in CPU |-> "boot"]
  /\ regs = [c \in CPU |-> NoId]

-----------------------------------------------------------------------------
(* The scheduler *)

envTable == <<gen, parent, recving, tf>>

\* Mutant of Demote: the environment switched out stays ENV_RUNNING.
Mut_DemoteNot(st, me) == st

\* env_run, step 1.1: curenv goes back to ENV_RUNNABLE if it is ENV_RUNNING.
Demote(st, me) ==
  [e \in Env |-> IF e = me /\ st[e] = "RUNNING" THEN "RUNNABLE" ELSE st[e]]

\* env_run up to unlock_kernel(); a freed environment has no page directory,
\* and PADDR(NULL) panics.
EnvRun(c, st, me, e) ==
  /\ status' = [Demote(st, me) EXCEPT ![e] = "RUNNING"]
  /\ cur' = [cur EXCEPT ![c] = e]
  /\ mode' = [mode EXCEPT ![c] = IF st[e] = "FREE" THEN "panic" ELSE "pop"]

\* Distance of e from the start of sched_yield's circular search, which is the
\* slot after curenv, or slot 0 when curenv is NULL.
Turn(me, e) == (e - me - 1) % NENV

\* The search stops at e.
Elected(st, me, e) ==
  /\ st[e] = "RUNNABLE"
  /\ \A f \in Env : st[f] = "RUNNABLE" => Turn(me, e) <= Turn(me, f)

\* Mutant of SchedHalt: a zombie on another CPU does not keep this one alive.
Mut_SchedHaltNoDying(c, st, me) ==
  /\ status' = st
  /\ IF \E e \in Env : st[e] \in {"RUNNABLE", "RUNNING"}
     THEN cur' = [cur EXCEPT ![c] = NULL] /\ mode' = [mode EXCEPT ![c] = "halted"]
     ELSE cur' = [cur EXCEPT ![c] = me] /\ mode' = [mode EXCEPT ![c] = "monitor"]

SchedHalt(c, st, me) ==
  /\ status' = st
  /\ IF \E e \in Env : st[e] \in {"RUNNABLE", "RUNNING", "DYING"}
     THEN cur' = [cur EXCEPT ![c] = NULL] /\ mode' = [mode EXCEPT ![c] = "halted"]
     ELSE cur' = [cur EXCEPT ![c] = me] /\ mode' = [mode EXCEPT ![c] = "monitor"]

\* Mutant of SchedYield: the fallback runs curenv whatever its status.
Mut_SchedYieldBlind(c, st, me) ==
  \/ \E e \in Env : Elected(st, me, e) /\ EnvRun(c, st, me, e)
  \/ /\ \A e \in Env : st[e] # "RUNNABLE"
     /\ IF me # NULL THEN EnvRun(c, st, me, me) ELSE SchedHalt(c, st, me)

\* Mutant of SchedYield: the search also stops at an ENV_RUNNING environment.
Mut_SchedYieldRunning(c, st, me) ==
  \/ \E e \in Env : (Elected(st, me, e) \/ st[e] = "RUNNING")
                    /\ EnvRun(c, st, me, e)
  \/ /\ \A e \in Env : st[e] \notin {"RUNNABLE", "RUNNING"}
     /\ SchedHalt(c, st, me)

\* Mutant of SchedYield: curenv goes on if it can.
Mut_SchedYieldStays(c, st, me) ==
  IF me # NULL /\ st[me] = "RUNNING" THEN EnvRun(c, st, me, me)
  ELSE \/ \E e \in Env : Elected(st, me, e) /\ EnvRun(c, st, me, e)
       \/ (\A e \in Env : st[e] # "RUNNABLE") /\ SchedHalt(c, st, me)

SchedYield(c, st, me) ==
  \/ \E e \in Env : Elected(st, me, e) /\ EnvRun(c, st, me, e)
  \/ /\ \A e \in Env : st[e] # "RUNNABLE"
     /\ IF me # NULL /\ st[me] = "RUNNING"
        THEN EnvRun(c, st, me, me)
        ELSE SchedHalt(c, st, me)

\* The end of trap(): back to curenv if it may still run.
TrapReturn(c, st) ==
  IF st[cur[c]] = "RUNNING" THEN EnvRun(c, st, cur[c], cur[c])
                            ELSE SchedYield(c, st, cur[c])

-----------------------------------------------------------------------------
(* Environments *)

\* env_free: the slot goes to the head of the free list.
EnvFree(e) == free' = <<e>> \o free

Freed(e) == [status EXCEPT ![e] = "FREE"]

\* Freeing a slot that is already free walks a null page directory: a page
\* fault in the kernel.
Panic(c) ==
  /\ mode' = [mode EXCEPT ![c] = "panic"]
  /\ UNCHANGED <<status, free, cur>>

\* Mutant of EnvDestroy: an environment is freed where it runs.
Mut_EnvDestroyNow(c, e) ==
  CASE status[e] = "FREE" -> Panic(c)
    [] cur[c] = e -> EnvFree(e) /\ SchedYield(c, Freed(e), NULL)
    [] OTHER -> EnvFree(e) /\ TrapReturn(c, Freed(e))

\* env_destroy(e) called on CPU c, and the return from the trap.
EnvDestroy(c, e) ==
  CASE status[e] = "FREE" -> Panic(c)
    [] status[e] = "RUNNING" /\ cur[c] # e ->
         /\ TrapReturn(c, [status EXCEPT ![e] = "DYING"])
         /\ UNCHANGED free
    [] cur[c] = e -> EnvFree(e) /\ SchedYield(c, Freed(e), NULL)
    [] OTHER -> EnvFree(e) /\ TrapReturn(c, Freed(e))

\* envid2env: the slot that id names for the caller on CPU c, or NULL.
EnvId2Env(c, id, checkperm) ==
  LET e == IF id = NoId THEN cur[c] ELSE id[2] IN
  IF /\ id # NoId => status[e] # "FREE" /\ EnvId(e) = id
     /\ checkperm => e = cur[c] \/ parent[e] = EnvId(cur[c])
  THEN e ELSE NULL

-----------------------------------------------------------------------------
(* Traps.  The kernel is entered only while no CPU keeps the lock. *)

LockIsFree == \A c \in CPU : mode[c] \notin {"monitor", "panic"}

\* trap(): curenv->env_tf = *tf.  The rest of the table is left alone.
SaveTf(c) ==
  /\ tf' = [tf EXCEPT ![cur[c]] = regs[c]]
  /\ UNCHANGED <<gen, parent, recving, cpunum, regs>>

\* Mutant of FromUser: the zombie test is missing.
Mut_FromUserZombie(c) == mode[c] = "user" /\ LockIsFree

\* trap() from user mode, on the way to trap_dispatch: curenv is no zombie.
FromUser(c) ==
  /\ mode[c] = "user"
  /\ LockIsFree
  /\ status[cur[c]] # "DYING"

\* The same trap when curenv is a zombie: free it and schedule.
Reap(c) ==
  /\ mode[c] = "user"
  /\ LockIsFree
  /\ status[cur[c]] = "DYING"
  /\ EnvFree(cur[c])
  /\ SchedYield(c, Freed(cur[c]), NULL)
  /\ UNCHANGED <<envTable, cpunum, regs>>

\* i386_init and mp_main end in sched_yield; the BSP took the lock first.
Boot(c) ==
  /\ mode[c] = "boot"
  /\ c = BSP \/ mode[BSP] # "boot"
  /\ LockIsFree
  /\ SchedYield(c, status, NULL)
  /\ UNCHANGED <<envTable, cpunum, free, regs>>

\* env_pop_tf, after unlock_kernel(): env_cpunum is written, then the
\* registers are loaded from env_tf and iret enters user mode.
EnvPopTf(c) ==
  /\ mode[c] = "pop"
  /\ cpunum' = [cpunum EXCEPT ![cur[c]] = c]
  /\ regs' = [regs EXCEPT ![c] = tf[cur[c]]]
  /\ mode' = [mode EXCEPT ![c] = "user"]
  /\ UNCHANGED <<status, envTable, free, cur>>

\* A timer or spurious interrupt wakes a halted CPU.
Wake(c) ==
  /\ mode[c] = "halted"
  /\ LockIsFree
  /\ SchedYield(c, status, cur[c])
  /\ UNCHANGED <<envTable, cpunum, free, regs>>

\* The clock interrupt, or sys_yield.
Yield(c) ==
  /\ FromUser(c)
  /\ SaveTf(c)
  /\ SchedYield(c, status, cur[c])
  /\ UNCHANGED free

\* A trap that leaves the table as it is: a spurious interrupt, a breakpoint
\* that the monitor continues, a system call that fails or that is about
\* memory, the console or the caller's id.
ReturnToUser(c) ==
  /\ FromUser(c)
  /\ SaveTf(c)
  /\ TrapReturn(c, status)
  /\ UNCHANGED free

\* page_fault_handler with an upcall: env_run(curenv), whatever its status.
UpCall(c) ==
  /\ "upcall" \in Calls
  /\ FromUser(c)
  /\ SaveTf(c)
  /\ EnvRun(c, status, cur[c], cur[c])
  /\ UNCHANGED free

\* env_destroy(curenv): exit(), an exception, a page fault without an upcall,
\* or a system call given memory that the program cannot read.
Exit(c) ==
  /\ "exit" \in Calls
  /\ FromUser(c)
  /\ SaveTf(c)
  /\ EnvDestroy(c, cur[c])

-----------------------------------------------------------------------------
(* System calls that change other environments *)

\* Mutant of EnvAlloc: the slot is not taken off the free list.
Mut_EnvAllocNoCommit(e, id) ==
  /\ gen' = [gen EXCEPT ![e] = NextGen(@)]
  /\ parent' = [parent EXCEPT ![e] = id]
  /\ recving' = [recving EXCEPT ![e] = FALSE]
  /\ UNCHANGED free

\* env_alloc takes slot e, the head of the free list, for a child of id.
EnvAlloc(e, id) ==
  /\ gen' = [gen EXCEPT ![e] = NextGen(@)]
  /\ parent' = [parent EXCEPT ![e] = id]
  /\ recving' = [recving EXCEPT ![e] = FALSE]
  /\ free' = Tail(free)

\* sys_exofork: the child starts ENV_NOT_RUNNABLE with the caller's registers.
Exofork(c) ==
  /\ "exofork" \in Calls
  /\ FromUser(c)
  /\ free # <<>>
  /\ LET e == Head(free) IN
     /\ EnvAlloc(e, EnvId(cur[c]))
     /\ tf' = [tf EXCEPT ![cur[c]] = regs[c], ![e] = <<NextGen(gen[e]), e>>]
     /\ TrapReturn(c, [status EXCEPT ![e] = "NOT_RUNNABLE"])
  /\ UNCHANGED <<cpunum, regs>>

\* What a careful caller never does to its child e.
MayCall(c, e, call) ==
  CASE call = "set_status" ->
         /\ status[e] \in {"RUNNING", "DYING"} /\ e # cur[c]
              => "set_status_running" \in Misuse
         /\ recving[e] => "set_status_blocked" \in Misuse
    [] call = "destroy" -> status[e] = "DYING" => "destroy_dying" \in Misuse

\* sys_env_set_status
SetStatus(c, id, s) ==
  /\ "set_status" \in Calls
  /\ FromUser(c)
  /\ LET e == EnvId2Env(c, id, TRUE) IN
     /\ e # NULL
     /\ MayCall(c, e, "set_status")
     /\ SaveTf(c)
     /\ TrapReturn(c, [status EXCEPT ![e] = s])
  /\ UNCHANGED free

\* sys_env_destroy
Destroy(c, id) ==
  /\ "destroy" \in Calls
  /\ FromUser(c)
  /\ LET e == EnvId2Env(c, id, TRUE) IN
     /\ e # NULL
     /\ MayCall(c, e, "destroy")
     /\ SaveTf(c)
     /\ EnvDestroy(c, e)

\* sys_ipc_recv: block, and give up the CPU.
IpcRecv(c) ==
  /\ "ipc" \in Calls
  /\ FromUser(c)
  /\ tf' = [tf EXCEPT ![cur[c]] = regs[c]]
  /\ recving' = [recving EXCEPT ![cur[c]] = TRUE]
  /\ SchedYield(c, [status EXCEPT ![cur[c]] = "NOT_RUNNABLE"], cur[c])
  /\ UNCHANGED <<gen, parent, cpunum, free, regs>>

\* Mutant of IpcTrySend: the receiver need not be waiting.
Mut_IpcTrySendAny(c, id) ==
  /\ "ipc" \in Calls
  /\ FromUser(c)
  /\ LET e == EnvId2Env(c, id, FALSE) IN
     /\ e # NULL
     /\ tf' = [tf EXCEPT ![cur[c]] = regs[c]]
     /\ recving' = [recving EXCEPT ![e] = FALSE]
     /\ TrapReturn(c, [status EXCEPT ![e] = "RUNNABLE"])
  /\ UNCHANGED <<gen, parent, cpunum, free, regs>>

\* Mutant of IpcTrySend: env_ipc_recving stays set.
Mut_IpcTrySendKeeps(c, id) ==
  /\ "ipc" \in Calls
  /\ FromUser(c)
  /\ LET e == EnvId2Env(c, id, FALSE) IN
     /\ e # NULL
     /\ recving[e]
     /\ SaveTf(c)
     /\ TrapReturn(c, [status EXCEPT ![e] = "RUNNABLE"])
  /\ UNCHANGED free

\* sys_ipc_try_send to an environment that is receiving: wake it up.
IpcTrySend(c, id) ==
  /\ "ipc" \in Calls
  /\ FromUser(c)
  /\ LET e == EnvId2Env(c, id, FALSE) IN
     /\ e # NULL
     /\ recving[e]
     /\ tf' = [tf EXCEPT ![cur[c]] = regs[c]]
     /\ recving' = [recving EXCEPT ![e] = FALSE]
     /\ TrapReturn(c, [status EXCEPT ![e] = "RUNNABLE"])
  /\ UNCHANGED <<gen, parent, cpunum, free, regs>>

Next ==
  \E c \in CPU :
    \/ Boot(c) \/ EnvPopTf(c) \/ Wake(c) \/ Reap(c)
    \/ Yield(c) \/ ReturnToUser(c) \/ UpCall(c) \/ Exit(c)
    \/ Exofork(c) \/ IpcRecv(c)
    \/ \E id \in Id :
         \/ Destroy(c, id) \/ IpcTrySend(c, id)
         \/ \E s \in {"RUNNABLE", "NOT_RUNNABLE"} : SetStatus(c, id, s)

Spec == Init /\ [][Next]_vars

(***************************************************************************)
(* Fairness.  The kernel runs to its end and iret is executed; the local   *)
(* APIC timer is periodic and a tick that arrives while interrupts are off *)
(* stays pending, so a CPU that is in user mode again and again takes it   *)
(* (strong fairness); it also ends hlt.                                    *)
(***************************************************************************)
Fairness ==
  \A c \in CPU :
    /\ WF_vars(Boot(c)) /\ WF_vars(EnvPopTf(c)) /\ WF_vars(Wake(c))
    /\ SF_vars(Yield(c) \/ Reap(c))

FairSpec == Spec /\ Fairness

-----------------------------------------------------------------------------
(* Properties *)

\* Every variable holds a value of its C type; a generation stays positive
\* and below the sign bit of env_id.
TypeOK ==
  /\ status \in [Env -> Status]
  /\ gen \in [Env -> 0..MaxGen]
  /\ parent \in [Env -> Id]
  /\ recving \in [Env -> BOOLEAN]
  /\ tf \in [Env -> Id]
  /\ cpunum \in [Env -> CPU]
  /\ free \in Seq(Env)
  /\ cur \in [CPU -> Env \cup {NULL}]
  /\ mode \in [CPU -> Mode]
  /\ regs \in [CPU -> Id]

\* c is executing, or about to execute, a program.
Runs(c) == mode[c] \in {"pop", "user"}

\* An environment is never run by two CPUs at once: the scheduler never picks
\* one that is current elsewhere, and nothing makes such a one RUNNABLE.
OneCpu ==
  \A c, d \in CPU : Runs(c) /\ Runs(d) /\ cur[c] = cur[d] => c = d

\* An environment is ENV_RUNNING or ENV_DYING exactly while some CPU runs it;
\* nothing leaves a status behind that no CPU will ever change.
RunningIsCurrent ==
  /\ \A c \in CPU : Runs(c) => cur[c] # NULL
                               /\ status[cur[c]] \in {"RUNNING", "DYING"}
  /\ \A e \in Env : status[e] \in {"RUNNING", "DYING"} =>
                     \E c \in CPU : Runs(c) /\ cur[c] = e

\* env_free_list holds every ENV_FREE slot once, and no other slot.
FreeListExact ==
  /\ {free[i] : i \in DOMAIN free} = {e \in Env : status[e] = "FREE"}
  /\ \A i, j \in DOMAIN free : free[i] = free[j] => i = j

\* Only an environment blocked in sys_ipc_recv can be sent to: whoever has
\* env_ipc_recving set waits, and is not running anywhere.
RecvBlocked ==
  \A e \in Env : recving[e] /\ status[e] # "FREE" => status[e] = "NOT_RUNNABLE"

\* A CPU in user mode runs the program of its curenv, not of an environment
\* that used the slot before, and env_tf never holds another one's registers.
OwnRegisters ==
  /\ \A c \in CPU : mode[c] = "user" => regs[c] = EnvId(cur[c])
  /\ \A e \in Env : status[e] # "FREE" => tf[e] = EnvId(e)

\* env_cpunum, which programs read, names the CPU that executes them although
\* env_pop_tf writes it without the lock.
CpunumRight == \A c \in CPU : mode[c] = "user" => cpunum[cur[c]] = c

\* The kernel gives up and enters the monitor only when no CPU runs a program
\* (the other CPUs could then never enter the kernel again).
MonitorIsIdle ==
  \A c, d \in CPU : mode[c] = "monitor" => ~Runs(d)

\* No environment is freed twice or run after it was freed.
NoPanic == \A c \in CPU : mode[c] # "panic"

\* A killed environment is never revived, and it keeps its memory until it
\* traps into the kernel: the CPU that runs the zombie is the one to free it.
ZombieFreedAtTrap ==
  [][\A e \in Env : status[e] = "DYING" /\ status'[e] # "DYING" =>
       /\ status'[e] = "FREE"
       /\ \E c \in CPU : mode[c] = "user" /\ cur[c] = e /\ mode'[c] # "user"]_vars

\* Every killed environment is freed in the end.
ZombieReaped ==
  \A e \in Env : status[e] = "DYING" ~> status[e] # "DYING"

\* Round robin: every runnable environment gets a CPU in the end.
RunnableRuns ==
  \A e \in Env : status[e] = "RUNNABLE" ~> status[e] # "RUNNABLE"

\* An environment waits for ever only if others go on exiting or being
\* destroyed for ever (each of them restarts the search at slot 0, sched.c:29).
StarvedOnlyByExits ==
  \A e \in Env :
    \/ []<><<\E d \in Env : status[d] # "FREE" /\ status'[d] = "FREE">>_vars
    \/ status[e] = "RUNNABLE" ~> status[e] # "RUNNABLE"
==============================================================================

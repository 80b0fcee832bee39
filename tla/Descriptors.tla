------------------------------ MODULE Descriptors ------------------------------
(***************************************************************************)
(* Segments and task states (kern/env.c, kern/trap.c, inc/mmu.h): the CPUs *)
(* share one GDT, load their segment registers from it and tell the        *)
(* hardware, by a TSS each, which stack a trap from user mode starts on.   *)
(* Lab 3 has one CPU and one TSS.  The boot processor sets up its TSS      *)
(* before it knows its number.                                             *)
(***************************************************************************)
EXTENDS Integers, Sequences, FiniteSets

CONSTANTS
  NCPU, Machines,       \* lab, ncpu and bsp, the APIC id of the boot processor
  KSTKSIZE, KSTKGAP,
  KSTACKTOP,            \* = KERNBASE
  Kstacks               \* address of percpu_kstacks

VARIABLES
  machine,
  gdt,      \* index -> descriptor
  ts,       \* index of cpus[] -> cpu_ts
  cpuid,    \* index of cpus[] -> cpu_id
  lapic,    \* it is mapped
  table,    \* CPU -> the GDT that it has loaded, "boot" or "gdt"
  seg,      \* CPU -> register -> selector
  tr,       \* CPU -> index of the ts that it has loaded
  esp,      \* CPU -> stack pointer; 0 stands for bootstack
  pc,       \* CPU -> what it does next
  c,        \* of boot_aps
  lock,     \* CPU that holds the kernel lock
  faulted   \* CPUs that could not load a register

vars == <<machine, gdt, ts, cpuid, lapic, table, seg, tr, esp, pc, c, lock, faulted>>

DescriptorsAssumption ==
  /\ NCPU \in Nat \ {0} /\ KSTKSIZE \in Nat \ {0} /\ KSTKGAP \in Nat
  /\ KSTACKTOP \in Nat /\ Kstacks \in Nat /\ Kstacks >= KSTACKTOP
  /\ Machines \subseteq [lab : {3, 4}, ncpu : 1 .. NCPU, bsp : 0 .. NCPU - 1]
  /\ \A m \in Machines : m.bsp < m.ncpu /\ (m.lab = 3 => m.ncpu = 1)

Nobody == NCPU
NoTss == NCPU
Cpus == 0 .. machine.ncpu - 1
Smp == machine.lab = 4

-----------------------------------------------------------------------------
(* Selectors and descriptors *)

GD_KT == 8
GD_KD == 16
GD_UT == 24
GD_UD == 32
GD_TSS0 == 40

STA_X == 8
STA_W == 2
STA_R == 2
STS_T32A == 9    \* available TSS
STS_T32B == 11   \* busy TSS

SEG_NULL == [type |-> 0, s |-> 0, dpl |-> 0, p |-> 0, base |-> 0]
SEG(type, dpl) == [type |-> type, s |-> 1, dpl |-> dpl, p |-> 1, base |-> 0]
SEG16(type, base, dpl) == [type |-> type, s |-> 1, dpl |-> dpl, p |-> 1, base |-> base]

\* The GDT of boot/boot.S and kern/mpentry.S.
BootGdt == <<SEG_NULL, SEG(STA_X + STA_R, 0), SEG(STA_W, 0)>>

\* The kernel's own, with room for one TSS in lab 3 and for NCPU in lab 4.
Segments == <<SEG_NULL, SEG(STA_X + STA_R, 0), SEG(STA_W, 0), SEG(STA_X + STA_R, 3), SEG(STA_W, 3)>>
InitialGdt(lab) == Segments \o [k \in 1 .. IF lab = 4 THEN NCPU ELSE 1 |-> SEG_NULL]

Rpl(sel) == sel % 4
Entry(sel) == sel \div 8 + 1
Loaded(cpu) == IF table[cpu] = "gdt" THEN gdt ELSE BootGdt

IsCode(d) == d.s = 1 /\ d.type >= STA_X
IsWritable(d) == d.s = 1 /\ d.type \in {STA_W, STA_W + 1}

\* What the hardware wants of a selector, at privilege cpl; the others fault.
Found(sel, g) == Entry(sel) \in 2 .. Len(g) /\ g[Entry(sel)].p = 1
DataLoads(sel, cpl, g) ==
  Found(sel, g) /\ LET d == g[Entry(sel)] IN
    (IsCode(d) \/ IsWritable(d)) /\ d.dpl >= cpl /\ d.dpl >= Rpl(sel)
StackLoads(sel, cpl, g) ==
  Found(sel, g) /\ IsWritable(g[Entry(sel)]) /\ g[Entry(sel)].dpl = cpl /\ Rpl(sel) = cpl
CodeLoads(sel, cpl, g) ==
  Found(sel, g) /\ IsCode(g[Entry(sel)]) /\ g[Entry(sel)].dpl = cpl /\ Rpl(sel) <= cpl
TaskLoads(sel, g) ==
  Found(sel, g) /\ g[Entry(sel)].s = 0 /\ g[Entry(sel)].type = STS_T32A

-----------------------------------------------------------------------------
(* Stacks *)

\* mem_init_mp: CPU i's stack under KSTACKTOP; percpu_kstacks[i] without gaps
\* above KERNBASE; in lab 3 bootstack takes the place of the first.
KstackTop(i) == KSTACKTOP - i * (KSTKSIZE + KSTKGAP)
PercpuKstack(i) == Kstacks + i * KSTKSIZE

\* The CPUs whose memory a push at that stack pointer goes to.
StackOwner(sp) ==
  {i \in 0 .. NCPU - 1 : \/ sp \in KstackTop(i) - KSTKSIZE + 1 .. KstackTop(i)
                         \/ sp \in PercpuKstack(i) + 1 .. PercpuKstack(i) + KSTKSIZE}

-----------------------------------------------------------------------------
(* Starting *)

\* cpunum, and the index of thiscpu.
Cpunum(cpu) == IF lapic THEN cpu ELSE 0

\* The parts of i386_init, in the two labs, and of mp_main that are about this.
Lab3Steps == <<"env_init_percpu", "trap_init_percpu", "kernel">>
BspSteps ==
  <<"env_init_percpu", "tss", "descriptor", "ltr", "mp_init", "lapic_init", "boot_aps", "kernel">>
ApSteps == <<"reset", "mp_main", "env_init_percpu", "tss", "descriptor", "ltr", "started", "lock">>

Steps(cpu) == IF ~Smp THEN Lab3Steps ELSE IF cpu = machine.bsp THEN BspSteps ELSE ApSteps

At(cpu, step) == pc[cpu] = step /\ faulted = {}
NextStep(cpu) ==
  pc' = [pc EXCEPT ![cpu] =
    LET k == CHOOSE k \in DOMAIN Steps(cpu) : Steps(cpu)[k] = pc[cpu] IN Steps(cpu)[k + 1]]

\* There is no handler for these faults: the kernel stops.
OrFaults(cpu, ok) == faulted' = IF ok THEN faulted ELSE faulted \cup {cpu}

\* The kernel never uses GS and FS: they hold the user's segment.
KernelSegments ==
  [gs |-> GD_UD + 3, fs |-> GD_UD + 3, es |-> GD_KD, ds |-> GD_KD, ss |-> GD_KD, cs |-> GD_KT, ldt |-> 0]

\* env_init_percpu, also in env_init.
EnvInitPercpu(cpu) ==
  /\ At(cpu, "env_init_percpu")
  /\ table' = [table EXCEPT ![cpu] = "gdt"]
  /\ seg' = [seg EXCEPT ![cpu] = KernelSegments]
  /\ OrFaults(cpu, /\ \A r \in {"gs", "fs", "es", "ds"} : DataLoads(KernelSegments[r], 0, gdt)
                   /\ StackLoads(KernelSegments.ss, 0, gdt) /\ CodeLoads(KernelSegments.cs, 0, gdt))
  /\ NextStep(cpu)
  /\ UNCHANGED <<machine, gdt, ts, cpuid, lapic, tr, esp, c, lock>>

\* struct Taskstate, as far as the hardware reads it for a trap.
Taskstate(esp0, ss0) == [esp0 |-> esp0, ss0 |-> ss0]

\* trap_init_percpu of lab 3, which has one CPU and one ts.
TrapInitPercpu(cpu) ==
  /\ At(cpu, "trap_init_percpu")
  /\ ts' = [ts EXCEPT ![0] = Taskstate(KSTACKTOP, GD_KD)]
  /\ LET ready == [SEG16(STS_T32A, 0, 0) EXCEPT !.s = 0]
         filled == [gdt EXCEPT ![Entry(GD_TSS0)] = ready] IN
     /\ OrFaults(cpu, TaskLoads(GD_TSS0, filled))
     /\ gdt' = [filled EXCEPT ![Entry(GD_TSS0)].type = STS_T32B]
  /\ tr' = [tr EXCEPT ![cpu] = 0]
  /\ NextStep(cpu)
  /\ UNCHANGED <<machine, cpuid, lapic, table, seg, esp, c, lock>>

\* trap_init_percpu of lab 4: the TSS, ...
Tss(cpu) ==
  /\ At(cpu, "tss")
  /\ LET this == Cpunum(cpu) IN
     ts' = [ts EXCEPT ![this] = Taskstate(KstackTop(cpuid[this]), GD_KD)]
  /\ NextStep(cpu)
  /\ UNCHANGED <<machine, gdt, cpuid, lapic, table, seg, tr, esp, c, lock, faulted>>

\* ... its slot of the GDT, which is a code segment until sd_s is cleared, ...
Descriptor(cpu) ==
  /\ At(cpu, "descriptor")
  /\ LET this == Cpunum(cpu) IN
     gdt' = [gdt EXCEPT ![Entry(GD_TSS0) + cpuid[this]] = [SEG16(STS_T32A, this, 0) EXCEPT !.s = 0]]
  /\ NextStep(cpu)
  /\ UNCHANGED <<machine, ts, cpuid, lapic, table, seg, tr, esp, c, lock, faulted>>

\* ... and ltr, which marks it as busy.
Ltr(cpu) ==
  /\ At(cpu, "ltr")
  /\ LET sel == GD_TSS0 + 8 * cpuid[Cpunum(cpu)] IN
     /\ OrFaults(cpu, TaskLoads(sel, gdt))
     /\ tr' = [tr EXCEPT ![cpu] = gdt[Entry(sel)].base]
     /\ gdt' = [gdt EXCEPT ![Entry(sel)].type = STS_T32B]
  /\ NextStep(cpu)
  /\ UNCHANGED <<machine, ts, cpuid, lapic, table, seg, esp, c, lock>>

\* mp_init numbers the entries of cpus[], and lapic_init maps the LAPIC; the boot
\* processor takes the kernel lock before it wakes the others.
MpInit(cpu) ==
  /\ At(cpu, "mp_init")
  /\ cpuid' = [i \in DOMAIN cpuid |-> IF i \in Cpus THEN i ELSE cpuid[i]]
  /\ NextStep(cpu)
  /\ UNCHANGED <<machine, gdt, ts, lapic, table, seg, tr, esp, c, lock, faulted>>

LapicInit(cpu) ==
  /\ At(cpu, "lapic_init")
  /\ lapic' = (machine.ncpu > 1)   \* a single CPU is number 0 in any case
  /\ lock' = cpu /\ NextStep(cpu)
  /\ UNCHANGED <<machine, gdt, ts, cpuid, table, seg, tr, esp, c, faulted>>

\* boot_aps wakes CPU c on its percpu_kstacks and waits for it.
BootAp(cpu) ==
  /\ At(cpu, "boot_aps")
  /\ \/ c < machine.ncpu /\ c = Cpunum(cpu) /\ c' = c + 1 /\ UNCHANGED <<esp, pc>>
     \/ /\ c < machine.ncpu /\ c # Cpunum(cpu) /\ pc[cpuid[c]] = "reset"
        /\ pc' = [pc EXCEPT ![cpuid[c]] = "mp_main"]
        /\ esp' = [esp EXCEPT ![cpuid[c]] = PercpuKstack(c) + KSTKSIZE] /\ UNCHANGED c
     \/ c < machine.ncpu /\ c # Cpunum(cpu) /\ pc[cpuid[c]] = "lock" /\ c' = c + 1 /\ UNCHANGED <<esp, pc>>
     \/ c = machine.ncpu /\ NextStep(cpu) /\ UNCHANGED <<esp, c>>
  /\ UNCHANGED <<machine, gdt, ts, cpuid, lapic, table, seg, tr, lock, faulted>>

\* mp_main up to env_init_percpu, and from there to the kernel lock.
MpMain(cpu) ==
  /\ At(cpu, "mp_main") \/ At(cpu, "started")
  /\ NextStep(cpu)
  /\ UNCHANGED <<machine, gdt, ts, cpuid, lapic, table, seg, tr, esp, c, lock, faulted>>

-----------------------------------------------------------------------------
(* Running *)

LockKernel(cpu) ==
  /\ At(cpu, "lock") /\ lock = Nobody
  /\ lock' = cpu /\ pc' = [pc EXCEPT ![cpu] = "kernel"]
  /\ UNCHANGED <<machine, gdt, ts, cpuid, lapic, table, seg, tr, esp, c, faulted>>

\* env_run, env_pop_tf: the segments that env_alloc gave the environment.
Iret(cpu) ==
  /\ At(cpu, "kernel") /\ lock' = Nobody
  /\ seg' = [seg EXCEPT ![cpu].es = GD_UD + 3, ![cpu].ds = GD_UD + 3, ![cpu].ss = GD_UD + 3,
                        ![cpu].cs = GD_UT + 3]
  /\ OrFaults(cpu, /\ DataLoads(GD_UD + 3, 0, Loaded(cpu)) /\ StackLoads(GD_UD + 3, 3, Loaded(cpu))
                   /\ CodeLoads(GD_UT + 3, 3, Loaded(cpu)))
  /\ pc' = [pc EXCEPT ![cpu] = "user"] /\ esp' = [esp EXCEPT ![cpu] = 0]
  /\ UNCHANGED <<machine, gdt, ts, cpuid, lapic, table, tr, c>>

\* sched_halt: the stack of the TSS, from its top.
SchedHalt(cpu) ==
  /\ At(cpu, "kernel") /\ Smp /\ lock' = Nobody
  /\ esp' = [esp EXCEPT ![cpu] = ts[Cpunum(cpu)].esp0] /\ pc' = [pc EXCEPT ![cpu] = "halted"]
  /\ UNCHANGED <<machine, gdt, ts, cpuid, lapic, table, seg, tr, c, faulted>>

\* A trap, from user mode onto the stack that the loaded TSS names, from a halted
\* CPU onto the stack that it has; then _alltraps.
Trap(cpu) ==
  /\ At(cpu, "user") \/ At(cpu, "halted")
  /\ LET from == pc[cpu] IN
     /\ OrFaults(cpu, /\ from = "user" => StackLoads(ts[tr[cpu]].ss0, 0, Loaded(cpu))
                      /\ CodeLoads(GD_KT, 0, Loaded(cpu)) /\ DataLoads(GD_KD, 0, Loaded(cpu)))
     /\ esp' = IF from = "user" THEN [esp EXCEPT ![cpu] = ts[tr[cpu]].esp0] ELSE esp
     /\ seg' = [seg EXCEPT ![cpu].ss = IF from = "user" THEN ts[tr[cpu]].ss0 ELSE @,
                           ![cpu].cs = GD_KT, ![cpu].ds = GD_KD, ![cpu].es = GD_KD]
  /\ pc' = [pc EXCEPT ![cpu] = IF Smp THEN "lock" ELSE "kernel"]
  /\ UNCHANGED <<machine, gdt, ts, cpuid, lapic, table, tr, c, lock>>

\* No TSS yet; the segments of boot/boot.S, which kern/mpentry.S sets up in the same way.
Init ==
  /\ machine \in Machines
  /\ gdt = InitialGdt(machine.lab)
  /\ ts = [i \in 0 .. NCPU - 1 |-> Taskstate(0, 0)] /\ cpuid = [i \in 0 .. NCPU - 1 |-> 0]
  /\ lapic = FALSE /\ c = 0 /\ lock = Nobody /\ faulted = {}
  /\ table = [cpu \in Cpus |-> "boot"] /\ tr = [cpu \in Cpus |-> NoTss]
  /\ seg = [cpu \in Cpus |-> [gs |-> GD_KD, fs |-> GD_KD, es |-> GD_KD, ds |-> GD_KD, ss |-> GD_KD,
                              cs |-> GD_KT, ldt |-> 0]]
  /\ esp = [cpu \in Cpus |-> 0] /\ pc = [cpu \in Cpus |-> Steps(cpu)[1]]

Next ==
  \E cpu \in Cpus :
    \/ EnvInitPercpu(cpu) \/ TrapInitPercpu(cpu) \/ Tss(cpu) \/ Descriptor(cpu) \/ Ltr(cpu)
    \/ MpInit(cpu) \/ LapicInit(cpu) \/ BootAp(cpu) \/ MpMain(cpu)
    \/ LockKernel(cpu) \/ Iret(cpu) \/ SchedHalt(cpu) \/ Trap(cpu)

Spec == Init /\ [][Next]_vars

-----------------------------------------------------------------------------
(* Properties *)

\* No CPU loads a selector that faults: the segments are loaded from a GDT that
\* has them, with the privilege that they ask for, and ltr finds a TSS that is
\* not busy ("if you accidentally load the same TSS on more than one CPU, you'll
\* get a triple fault", kern/trap.c:161).
NoCpuFaults == faulted = {}

\* The stack that a CPU traps to, halts on or starts on is its own, also when
\* several are on their way into the kernel, provided that the boot processor is
\* CPU 0: trap_init takes it for that before mp_init and lapic_init have run.
StacksAreOwn ==
  Smp /\ machine.bsp = 0 =>
    /\ \A cpu \in Cpus : esp[cpu] # 0 => StackOwner(esp[cpu]) = {cpu}
    /\ \A cpu \in Cpus : pc[cpu] \in {"lock", "kernel", "user", "halted"} => tr[cpu] = cpu

\* Every CPU finds in the GDT that they share what it needs, and only it uses that.
CpusAreApart == NoCpuFaults /\ StacksAreOwn
==============================================================================
